---------------------------- MODULE MarkerTable ----------------------------
(***************************************************************************)
(* The generator of the trace-marker table (src/safety_island_tracing/     *)
(* gen_markers.py): the contract is resolved into a model, the model and   *)
(* the pinned nano-ros are rendered into a header, which the image is      *)
(* built from, and a table, which the decoder reads.  The files are        *)
(* written one after the other and nothing makes anyone run the generator  *)
(* after an edit: what ties a trace to a table is the digest in both.      *)
(*                                                                         *)
(* A contract is [paths, services, pubs, subs, topics, hazards].  Names    *)
(* are numbers, in the order the code sorts them; a marker's name is its   *)
(* kind and its element (c_ident and the endpoint hash are injective on    *)
(* the contract's names).  A pin is what the generator reads of nano-ros:  *)
(* its event ids and its rule list.  A digest is the list it is taken of.  *)
(* Knobs and counts only go to the provenance text and are left out.       *)
(***************************************************************************)
EXTENDS Integers, Sequences, SequencesExt

CONSTANTS
    Contracts,      \* the contracts the bringup may have
    Pins,           \* the nano-ros revisions the submodule may be at
    Fixed,          \* LIFECYCLE + SUPERVISION: the elements that come last
    TakeInputs,     \* NROS_TAKE_INPUTS: <<endpoint, keep>>, by index
    NrosBase        \* NROS_BASE

VARIABLES
    contract,   \* the contract file
    model,      \* the resolved model: the contract it was made from
    pin,        \* the nano-ros checkout
    header,     \* island_trace_markers.h, or None
    table,      \* markers.json, or None
    pending,    \* what a running gen has still to write: a table, or None
    image       \* the built image: its header, its nano-ros, checked

shop == <<contract, model, pin, header, table, pending, image>>

None == [ok |-> FALSE]

ViolationNames == <<"NROS_VIOLATION", "NROS_VIOLATION_FQN", "NROS_VIOLATION_MEASURED", "NROS_VIOLATION_DECLARED">>
TakeNames == <<"NROS_TAKE", "NROS_TAKE_STAMP_SEC", "NROS_TAKE_STAMP_NSEC">>
TimerNames == <<"NROS_TIMER_START", "NROS_TIMER_END">>
NrosNames == ToSet(ViolationNames) \union ToSet(TakeNames) \union ToSet(TimerNames)

\* The event ids are constants of nano-ros, each its own; a revision has the
\* timer and the violation events, and all of the take events or none.
ASSUME PinAssumption ==
    /\ NrosBase \in Nat
    /\ \A p \in Pins :
          /\ \E names \in {NrosNames, NrosNames \ ToSet(TakeNames)} : p.ids \in [names -> Nat]
          /\ \A n, m \in DOMAIN p.ids : p.ids[n] = p.ids[m] => n = m

-----------------------------------------------------------------------------
(* The table of a model.                                                   *)

Sorted(S) == SetToSortSeq(S, LAMBDA x, y : x < y)
SortedPairs(S) ==
    SetToSortSeq(S, LAMBDA x, y : x[1] < y[1] \/ (x[1] = y[1] /\ x[2] < y[2]))
ForEach(seq, Op(_)) == FlattenSeq([i \in DOMAIN seq |-> Op(seq[i])])
M(kind, element) == [kind |-> kind, element |-> element]

build_table(c) ==
    LET paths == Sorted(DOMAIN c.paths)
        services == Sorted(DOMAIN c.services)
        takes == UNION {{<<ep, key>> : ep \in c.paths[key].input} : key \in DOMAIN c.paths}
    IN  ForEach(paths, LAMBDA k : <<M("path_entry", k), M("path_exit", k)>>)
        \o ForEach(SortedPairs(takes), LAMBDA t : <<M("take", t[1])>>)
        \o ForEach(services, LAMBDA s :
               ForEach(c.services[s].client, LAMBDA ep : <<M("service_call", ep)>>))
        \o ForEach(services, LAMBDA s :
               ForEach(c.services[s].server,
                       LAMBDA ep : <<M("service_serve_entry", ep), M("service_serve_exit", ep)>>))
        \o ForEach(Sorted(c.pubs), LAMBDA ep : <<M("publish", ep)>>)
        \o ForEach(Fixed, LAMBDA e : <<M("fixed", e)>>)

\* A contract has finitely many of each, so that its table is a list.
ASSUME ContractAssumption ==
    \A c \in Contracts :
        Len(build_table(c)) \in Nat /\ DOMAIN build_table(c) = 1 .. Len(build_table(c))

\* Subscriber endpoints of the topics some hazard guards.
guarded_inputs(c) == UNION {c.topics[t] : t \in UNION c.hazards}

\* The record policy, the trigger and the arm; not ok when the contract has
\* no single detector path or no single take of its guarded input.
window_policy(c, markers) ==
    LET guarded == guarded_inputs(c)
        served == UNION {ToSet(c.services[s].server) : s \in DOMAIN c.services}
        Timer(m) == c.paths[m.element].trigger = "timer"
        Rec(m) ==
            CASE m.kind = "path_entry" -> IF Timer(m) THEN "spin_entry" ELSE "every"
              [] m.kind = "path_exit" -> IF Timer(m) THEN "spin_exit" ELSE "every"
              [] m.kind = "take" -> IF m.element \in guarded \union served THEN "every" ELSE "change"
              [] m.kind = "publish" -> "change"
              [] OTHER -> "every"
        detectors == {i \in DOMAIN markers :
                         /\ markers[i].kind = "path_entry" /\ ~Timer(markers[i])
                         /\ c.paths[markers[i].element].value \intersect guarded # {}}
        inputs(i) == c.paths[markers[i].element].value \intersect guarded
        arms(i) == {j \in DOMAIN markers : markers[j].kind = "take" /\ markers[j].element \in inputs(i)}
    IN  IF \E d \in DOMAIN markers, a \in DOMAIN markers : detectors = {d} /\ arms(d) = {a}
        THEN LET d == CHOOSE i \in detectors : TRUE
             IN  [ok |-> TRUE, policy |-> [i \in DOMAIN markers |-> Rec(markers[i])],
                  trigger |-> d, arm |-> CHOOSE a \in arms(d) : TRUE]
        ELSE None

\* What the generator takes from the pin; not ok when the pin has not all of
\* the events, or a forwarded input is no subscriber of the contract.
nros_violation_table(c, p) ==
    [ok |-> /\ DOMAIN p.ids = NrosNames
            /\ \A i \in DOMAIN TakeInputs : TakeInputs[i][1] \in c.subs,
     ids |-> p.ids, rules |-> p.rules, takes |-> TakeInputs]

\* Mutant: the digest covers the forwarded events alone.
digestNros(markers, nros) == [ids |-> nros.ids, rules |-> nros.rules]

\* table_sha256: ids, names and elements, the forwarded ids, the rules.
digest(markers, nros) == [markers |-> markers, ids |-> nros.ids, rules |-> nros.rules]

\* The two files have the same content here; not ok when the generator exits.
render(c, p) ==
    LET markers == build_table(c)
        nros == nros_violation_table(c, p)
        window == window_policy(c, markers)
    IN  IF Len(markers) < NrosBase /\ nros.ok /\ window.ok
        THEN [ok |-> TRUE, table_sha256 |-> digest(markers, nros), markers |-> markers,
              nros |-> nros, window |-> window]
        ELSE None

-----------------------------------------------------------------------------
(* The workshop: edits, sync, gen, check and the build.                    *)

EditContract(c) ==
    /\ contract' = c
    /\ UNCHANGED <<model, pin, header, table, pending, image>>

BumpPin(p) ==
    /\ pin' = p
    /\ UNCHANGED <<contract, model, header, table, pending, image>>

\* `just sync` (external): the resolved model with its inputs' digests.
Sync ==
    /\ model' = contract
    /\ UNCHANGED <<contract, pin, header, table, pending, image>>

\* load_model: a model whose inputs changed since is refused.
Fresh == model = contract

\* gen writes the header first, then the table.
GenHeader ==
    /\ ~pending.ok /\ Fresh /\ render(model, pin).ok
    /\ header' = render(model, pin) /\ pending' = render(model, pin)
    /\ UNCHANGED <<contract, model, pin, table, image>>

GenTable ==
    /\ pending.ok
    /\ table' = pending /\ pending' = None
    /\ UNCHANGED <<contract, model, pin, header, image>>

\* The generator is stopped between the two, or while it writes the table,
\* which is then no JSON.
GenStopped ==
    /\ pending.ok
    /\ pending' = None
    /\ table' \in {table, None}
    /\ UNCHANGED <<contract, model, pin, header, image>>

\* check: both files are what a fresh generation would write.
checkOk ==
    /\ Fresh /\ render(model, pin).ok
    /\ header = render(model, pin) /\ table = render(model, pin)

\* The image takes the ids from the header and nano-ros from the checkout.
\* `checked` is a history: `just trace-gen-check` passed on the tree built.
Build ==
    /\ header.ok
    /\ image' = [ok |-> TRUE, header |-> header, pin |-> pin, checked |-> checkOk]
    /\ UNCHANGED <<contract, model, pin, header, table, pending>>

ShopInit ==
    /\ contract \in Contracts /\ model = contract /\ pin \in Pins
    /\ header = render(contract, pin) /\ table = render(contract, pin)
    /\ pending = None /\ image = None

ShopNext ==
    \/ \E c \in Contracts : EditContract(c)
    \/ \E p \in Pins : BumpPin(p)
    \/ Sync \/ GenHeader \/ GenTable \/ GenStopped \/ Build

\* What check of the decoder calls the provenance: the digest of the image
\* that recorded is the one of the table at hand.
provenanceOk == image.ok /\ table.ok /\ image.header.table_sha256 = table.table_sha256
=============================================================================

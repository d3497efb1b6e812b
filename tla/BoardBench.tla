----------------------------- MODULE BoardBench -----------------------------
(***************************************************************************)
(* The tools beside the board during an act and after it: the buttons, the *)
(* spin diagnosis, the supervisor's record, the act's terms and the event  *)
(* log.  They read different records and share no state, so a behaviour    *)
(* follows one of them, the one `bench` names.                             *)
(***************************************************************************)
EXTENDS ButtonBridge, SpinDiag, ActTerms, SupervisorRecord, Timeline

CONSTANT Images     \* the images whose supervisor record may be read

ASSUME ImageAssumption ==
    \A img \in Images : /\ img \in [blocks : 1 .. Blocks, routes : Nat, levels : Nat, used : Nat, p9b : BOOLEAN]
                       /\ img.used <= img.levels

VARIABLES
    bench,      \* "buttons", "spin", "record", "terms" or "log"
    image       \* the image whose supervisor record was read, or NoImage

NoImage == [blocks |-> 0, routes |-> 0, levels |-> 0, used |-> 0, p9b |-> TRUE]

vars == <<bench, image, buttonVars, spinVars, actVars, logVars>>

\* `violations.py supervisor`: the record of an image is read and reported.
readSupervisor ==
    /\ image = NoImage
    /\ image' \in Images
    /\ UNCHANGED <<bench, buttonVars, spinVars, actVars, logVars>>

Init ==
    /\ bench \in {"buttons", "spin", "record", "terms", "log"} /\ image = NoImage
    /\ ButtonInit /\ SpinInit /\ ActInit /\ LogInit

Next ==
    \/ bench = "buttons" /\ ButtonNext /\ UNCHANGED <<bench, image, spinVars, actVars, logVars>>
    \/ bench = "spin" /\ SpinNext /\ UNCHANGED <<bench, image, buttonVars, actVars, logVars>>
    \/ bench = "terms" /\ ActNext /\ UNCHANGED <<bench, image, buttonVars, spinVars, logVars>>
    \/ bench = "log" /\ LogNext /\ UNCHANGED <<bench, image, buttonVars, spinVars, actVars>>
    \/ bench = "record" /\ readSupervisor

Spec == Init /\ [][Next]_vars

-----------------------------------------------------------------------------
(* Properties.                                                             *)

\* Each field is decoded from its own words, all that the record has and the
\* slots of the levels in use; the report reads no field the record has not;
\* and the newest layout's size is the record's.
Decoded(img) ==
    LET blob == record(img)
        got == decode(img, blob)
        has == {f[1] : f \in got}
        written == {blob[i][1] : i \in DOMAIN blob}
        unused == {<<"level", i>> : i \in img.used .. img.levels - 1}
    IN  /\ \A f \in got : f[2] = Words(f[1], Len(f[2]))
        /\ \A f \in written \ unused : \E g \in got : g[1] = f
        /\ \A shows \in SUBSET {"resumed", "taken"} : reportReads(has, shows) \subseteq has
        /\ img.blocks = Blocks /\ ~OfI1(img) =>
              Len(blob) = supervisor_layout_words(img.routes, img.levels)

\* The record of an image that has any number of today's blocks, from the
\* first, is decoded right (supervisor_decode, supervisor_report).
LayoutTrue == image # NoImage /\ ~OfI1(image) => Decoded(image)

\* A record of any age is decoded right: what an older one has not is absent
\* from its end.
OlderLayoutTrue == image # NoImage => Decoded(image)
=============================================================================

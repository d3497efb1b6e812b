-------------------------- MODULE TraceSinkProofs --------------------------
(***************************************************************************)
(* Theorems about MarkerTable and TraceSink for every set of contracts,    *)
(* nano-ros revisions and levels and for a trace of any length: what the   *)
(* decoder names and joins is what happened.                               *)
(***************************************************************************)
EXTENDS TraceSink, TLAPS, WellFoundedInduction

-----------------------------------------------------------------------------
(* The invariant of the workshop and of the image that runs.               *)

\* What a generator that does not exit writes into the two files.
IsTable(h) ==
    /\ h.ok
    /\ h.table_sha256 = [markers |-> h.markers, ids |-> h.nros.ids, rules |-> h.nros.rules]
    /\ \A m \in DOMAIN h.markers : m \in Nat /\ m < NrosBase
    /\ h.nros.ids \in [NrosNames -> Nat]
    /\ \A n, m \in NrosNames : h.nros.ids[n] = h.nros.ids[m] => n = m

Sheet(h) == h = None \/ IsTable(h)

\* The files are whole tables or missing, whoever was stopped; an image that
\* was checked has the ids and the rules of its own nano-ros.
ShopSound ==
    /\ contract \in Contracts /\ model \in Contracts /\ pin \in Pins
    /\ Sheet(header) /\ Sheet(table) /\ Sheet(pending)
    /\ \/ image = None
       \/ /\ image.ok /\ IsTable(image.header) /\ image.pin \in Pins
          /\ image.checked => /\ image.header.nros.ids = image.pin.ids
                              /\ image.header.nros.rules = image.pin.rules

\* Nothing is recorded before the boot, and what boots is a table's image.
BootSound ==
    /\ booted \in BOOLEAN
    /\ booted => provenanceOk
    /\ ~booted => /\ log = <<>> /\ job = [l \in Levels |-> None] /\ jobs = 0
                  /\ last_start = 0 /\ timer_slot = 0

\* The callbacks under way: each has the rule and the events its steps name.
Callback == [ok : {TRUE}, kind : {"violation", "take", "timer"}, step : 1 .. 6,
             x : (UNION {DOMAIN p.rules : p \in Pins}) \union Seconds \union {0}, no : Nat]
TakeHas == ToSet(TakeNames) \subseteq DOMAIN image.pin.ids
JobSound ==
    /\ jobs \in Nat
    /\ job \in [Levels -> Callback \union {None}]
    /\ \A l \in Levels : job[l].ok =>
          /\ job[l].kind = "violation" => job[l].step <= 4 /\ job[l].x \in DOMAIN image.pin.rules
          /\ job[l].kind = "take" => TakeHas

\* A record is a marker of the header under its name, or an event of the
\* nano-ros in the image at NrosBase plus its id.
IsMarker(r) == r.id \in DOMAIN image.header.markers /\ r.truth = [name |-> image.header.markers[r.id]]
IsEvent(r) == \E n \in DOMAIN image.pin.ids : r.id = NrosBase + image.pin.ids[n]
IsLog(s) == \E X : s \in Seq(X)
LogSound == IsLog(log) /\ \A i \in DOMAIN log : IsMarker(log[i]) \/ IsEvent(log[i])

NInv == ShopSound /\ BootSound /\ JobSound /\ LogSound

-----------------------------------------------------------------------------
(* The workshop.                                                           *)

\* The three lists of names.
LEMMA NameSets ==
    /\ ToSet(ViolationNames) = {"NROS_VIOLATION", "NROS_VIOLATION_FQN", "NROS_VIOLATION_MEASURED", "NROS_VIOLATION_DECLARED"}
    /\ ToSet(TakeNames) = {"NROS_TAKE", "NROS_TAKE_STAMP_SEC", "NROS_TAKE_STAMP_NSEC"}
    /\ ToSet(TimerNames) = {"NROS_TIMER_START", "NROS_TIMER_END"}
  BY DEF ToSet, ViolationNames, TakeNames, TimerNames

\* A generator that does not exit writes a table, with the pin's ids and rules.
LEMMA Rendered ==
    ASSUME NEW c \in Contracts, NEW p \in Pins
    PROVE  /\ Sheet(render(c, p))
           /\ render(c, p).ok => render(c, p).nros.ids = p.ids /\ render(c, p).nros.rules = p.rules
  <1> DEFINE n == nros_violation_table(c, p)
             m == build_table(c)
             w == window_policy(c, m)
             h == [ok |-> TRUE, table_sha256 |-> digest(m, n), markers |-> m, nros |-> n, window |-> w]
  <1>1. n.ids = p.ids /\ n.rules = p.rules /\ (n.ok => DOMAIN p.ids = NrosNames)
    BY DEF nros_violation_table
  <1>2. /\ h.ok /\ h.table_sha256 = digest(m, n) /\ h.markers = m /\ h.nros = n
    OBVIOUS
  <1>3. digest(m, n) = [markers |-> m, ids |-> n.ids, rules |-> n.rules]
    BY DEF digest
  <1>4. render(c, p) = IF Len(m) < NrosBase /\ n.ok /\ w.ok THEN h ELSE None
    BY DEF render
  <1>5. CASE Len(m) < NrosBase /\ n.ok /\ w.ok
    <2>1. render(c, p) = h
      BY <1>4, <1>5
    <2>2. \A i \in DOMAIN m : i \in Nat /\ i < NrosBase
      <3>1. Len(m) \in Nat /\ DOMAIN m = 1 .. Len(m)
        BY ContractAssumption
      <3> QED
        BY <3>1, <1>5, PinAssumption
    <2>3. /\ n.ids \in [NrosNames -> Nat]
          /\ \A a, b \in NrosNames : n.ids[a] = n.ids[b] => a = b
      <3>1. /\ p.ids \in [NrosNames -> Nat]
            /\ \A a, b \in NrosNames : p.ids[a] = p.ids[b] => a = b
        BY <1>1, <1>5, PinAssumption
      <3> QED
        BY <3>1, <1>1, <1>5
    <2> HIDE DEF n, m, w, h
    <2>4. IsTable(h)
      BY <1>2, <1>3, <2>2, <2>3 DEF IsTable
    <2> QED
      BY <2>1, <2>4, <1>1, <1>2 DEF Sheet
  <1>6. CASE ~(Len(m) < NrosBase /\ n.ok /\ w.ok)
    BY <1>4, <1>6 DEF Sheet, None
  <1> QED
    BY <1>5, <1>6

\* The files and the image stay tables, whatever is edited, generated by
\* half or built in between.
LEMMA ShopStep ==
    ASSUME ShopSound, ShopNext
    PROVE  ShopSound'
  <1> DEFINE r == render(model, pin)
  <1>1. Sheet(r) /\ (r.ok => r.nros.ids = pin.ids /\ r.nros.rules = pin.rules)
    BY Rendered DEF ShopSound
  <1> HIDE DEF r
  <1>2. Sheet(None)
    BY DEF Sheet
  <1>3. CASE \/ \E c \in Contracts : EditContract(c)
             \/ \E p \in Pins : BumpPin(p)
             \/ Sync
    BY <1>3 DEF ShopSound, EditContract, BumpPin, Sync
  <1>4. CASE GenHeader
    BY <1>1, <1>4 DEF ShopSound, GenHeader, r
  <1>5. CASE GenTable \/ GenStopped
    BY <1>2, <1>5 DEF ShopSound, GenTable, GenStopped
  <1>6. CASE Build
    <2>1. IsTable(header)
      BY <1>6 DEF ShopSound, Build, Sheet, None
    <2>2. checkOk => header.nros.ids = pin.ids /\ header.nros.rules = pin.rules
      BY <1>1 DEF checkOk, r
    <2>3. image'.ok /\ image'.header = header /\ image'.pin = pin /\ image'.checked = checkOk
      BY <1>6 DEF Build
    <2>4. /\ contract' \in Contracts /\ model' \in Contracts /\ pin' \in Pins
          /\ Sheet(header') /\ Sheet(table') /\ Sheet(pending')
      BY <1>6 DEF ShopSound, Build
    <2>5. /\ image'.ok /\ IsTable(image'.header) /\ image'.pin \in Pins
          /\ image'.checked => /\ image'.header.nros.ids = image'.pin.ids
                               /\ image'.header.nros.rules = image'.pin.rules
      BY <2>1, <2>2, <2>3 DEF ShopSound
    <2> QED
      BY <2>4, <2>5 DEF ShopSound
  <1> QED
    BY <1>3, <1>4, <1>5, <1>6 DEF ShopNext

\* With an accepted digest the decoder's table is the header's.
LEMMA SameTable ==
    ASSUME ShopSound, provenanceOk
    PROVE  /\ IsTable(image.header) /\ IsTable(table) /\ image.pin \in Pins
           /\ table.markers = image.header.markers
           /\ table.nros.ids = image.header.nros.ids
           /\ table.nros.rules = image.header.nros.rules
  <1>1. IsTable(image.header) /\ IsTable(table) /\ image.pin \in Pins
    BY DEF ShopSound, provenanceOk, Sheet, None
  <1> DEFINE D(h) == [markers |-> h.markers, ids |-> h.nros.ids, rules |-> h.nros.rules]
  <1>2. D(image.header) = D(table)
    BY <1>1 DEF IsTable, provenanceOk
  <1>3. \A h : D(h).markers = h.markers /\ D(h).ids = h.nros.ids /\ D(h).rules = h.nros.rules
    OBVIOUS
  <1> HIDE DEF D
  <1> QED
    BY <1>1, <1>2, <1>3

\* The events of an image's nano-ros.
LEMMA EventIds ==
    ASSUME image.pin \in Pins
    PROVE  /\ ToSet(ViolationNames) \subseteq DOMAIN image.pin.ids
           /\ ToSet(TimerNames) \subseteq DOMAIN image.pin.ids
           /\ DOMAIN image.pin.ids \subseteq NrosNames
           /\ \A n \in DOMAIN image.pin.ids : image.pin.ids[n] \in Nat
  <1>1. PICK names \in {NrosNames, NrosNames \ ToSet(TakeNames)} : image.pin.ids \in [names -> Nat]
    BY PinAssumption
  <1>2. /\ ToSet(ViolationNames) \subseteq names /\ ToSet(TimerNames) \subseteq names
        /\ names \subseteq NrosNames
    BY NameSets DEF NrosNames
  <1> QED
    BY <1>1, <1>2

-----------------------------------------------------------------------------
(* Writing a record, and the steps of a callback.                          *)

LEMMA Appended ==
    ASSUME IsLog(log), NEW r, log' = Append(log, r)
    PROVE  /\ IsLog(log)'
           /\ Len(log) \in Nat /\ Len(log') = Len(log) + 1
           /\ DOMAIN log = 1 .. Len(log) /\ DOMAIN log' = 1 .. Len(log) + 1
           /\ \A i \in 1 .. Len(log) : log'[i] = log[i]
           /\ log'[Len(log) + 1] = r
  <1>1. PICK X : log \in Seq(X)
    BY DEF IsLog
  <1>2. PICK Y : Y = X \union {r}
    OBVIOUS
  <1>3. log \in Seq(Y) /\ r \in Y
    BY <1>1, <1>2
  <1>4. log' \in Seq(Y)
    BY <1>3
  <1>5. IsLog(log)'
    BY <1>4 DEF IsLog
  <1> QED
    BY <1>3, <1>5

\* Records keep what they are; the new one is a marker or an event.
LEMMA LogStep ==
    ASSUME LogSound, NEW r, log' = Append(log, r), image' = image, IsMarker(r) \/ IsEvent(r)
    PROVE  LogSound'
  <1>1. ASSUME NEW x, NEW i, IsMarker(x) \/ IsEvent(x), log'[i] = x
        PROVE  (IsMarker(log[i]) \/ IsEvent(log[i]))'
    BY <1>1 DEF IsMarker, IsEvent
  <1>2. /\ IsLog(log)' /\ Len(log) \in Nat
        /\ DOMAIN log = 1 .. Len(log) /\ DOMAIN log' = 1 .. Len(log) + 1
        /\ \A i \in 1 .. Len(log) : log'[i] = log[i]
        /\ log'[Len(log) + 1] = r
    BY Appended DEF LogSound
  <1>3. ASSUME NEW i \in DOMAIN log' PROVE (IsMarker(log[i]) \/ IsEvent(log[i]))'
    <2>1. CASE i = Len(log) + 1
      BY <2>1, <1>1, <1>2
    <2>2. CASE i # Len(log) + 1
      <3>1. i \in DOMAIN log /\ log'[i] = log[i]
        BY <2>2, <1>2, <1>3
      <3> QED
        BY <3>1, <1>1 DEF LogSound
    <2> QED
      BY <2>1, <2>2
  <1> QED
    BY <1>2, <1>3 DEF LogSound

\* A callback goes on to a step of its kind.
LEMMA GotoStep ==
    ASSUME JobSound, NEW l \in Levels, job[l].ok, NEW s \in 1 .. 6, Goto(l, s),
           job[l].kind = "violation" => s <= 4, UNCHANGED <<jobs, image>>
    PROVE  /\ JobSound'
           /\ \A k \in Levels : k # l => job'[k] = job[k]
           /\ job'[l].ok /\ job'[l].kind = job[l].kind /\ job'[l].step = s
           /\ job'[l].x = job[l].x /\ job'[l].no = job[l].no
  <1>1. job[l] \in Callback
    BY DEF JobSound, None
  <1>2. job' = [job EXCEPT ![l] = [job[l] EXCEPT !.step = s]]
    BY DEF Goto
  <1>3. PICK c : c = [job[l] EXCEPT !.step = s]
    OBVIOUS
  <1>4. /\ c \in Callback /\ c.ok /\ c.kind = job[l].kind /\ c.step = s
        /\ c.x = job[l].x /\ c.no = job[l].no
    BY <1>1, <1>3 DEF Callback
  <1>5. /\ job'[l] = c /\ \A k \in Levels : k # l => job'[k] = job[k]
        /\ job' \in [Levels -> Callback \union {None}]
    BY <1>2, <1>3, <1>4 DEF JobSound
  <1>6. (TakeHas <=> TakeHas') /\ image' = image
    BY DEF TakeHas
  <1> QED
    BY <1>4, <1>5, <1>6 DEF JobSound

LEMMA EndStep ==
    ASSUME JobSound, NEW l \in Levels, End(l), UNCHANGED <<jobs, image>>
    PROVE  /\ JobSound'
           /\ \A k \in Levels : k # l => job'[k] = job[k]
           /\ job'[l] = None /\ ~job'[l].ok
  <1>1. /\ job'[l] = None /\ \A k \in Levels : k # l => job'[k] = job[k]
        /\ job' \in [Levels -> Callback \union {None}]
    BY DEF JobSound, End
  <1>2. ~None.ok
    BY DEF None
  <1>3. (TakeHas <=> TakeHas') /\ image' = image
    BY DEF TakeHas
  <1> QED
    BY <1>1, <1>2, <1>3 DEF JobSound

\* A level begins a callback.
LEMMA BeginStep ==
    ASSUME JobSound, image.pin \in Pins, NEW l \in Levels, NEW kind, NEW x, Begin(l, kind, x),
           \/ kind = "violation" /\ x \in DOMAIN image.pin.rules
           \/ kind = "take" /\ "NROS_TAKE" \in DOMAIN image.pin.ids /\ x \in Seconds
           \/ kind = "timer" /\ x = 0
    PROVE  /\ JobSound'
           /\ \A k \in Levels : k # l => job'[k] = job[k]
           /\ job'[l].ok /\ job'[l].kind = kind /\ job'[l].step = 1
           /\ ~job[l].ok
  <1>1. PICK c : c = [ok |-> TRUE, kind |-> kind, step |-> 1, x |-> x, no |-> jobs + 1]
    OBVIOUS
  <1>a. x \in (UNION {DOMAIN p.rules : p \in Pins}) \union Seconds \union {0}
    <2>1. DOMAIN image.pin.rules \in {DOMAIN p.rules : p \in Pins}
      OBVIOUS
    <2>2. CASE kind = "violation"
      <3>1. x \in DOMAIN image.pin.rules
        BY <2>2
      <3> QED
        BY <2>1, <3>1, Zenon
    <2>3. CASE kind # "violation"
      <3>1. x \in Seconds \/ x \in {0}
        BY <2>3
      <3> QED
        BY <3>1, Zenon
    <2> QED
      BY <2>2, <2>3, Zenon
  <1>2. /\ c.ok /\ c.kind = kind /\ c.step = 1 /\ c.x = x
        /\ c \in Callback
    BY <1>1, <1>a DEF Callback, JobSound
  <1>3. /\ job' = [job EXCEPT ![l] = c] /\ jobs' = jobs + 1 /\ image' = image
        /\ ~job[l].ok
    BY <1>1 DEF Begin, shop
  <1>4. /\ job'[l] = c /\ \A k \in Levels : k # l => job'[k] = job[k]
        /\ job' \in [Levels -> Callback \union {None}] /\ jobs' \in Nat
    BY <1>2, <1>3 DEF JobSound
  <1>5. (TakeHas <=> TakeHas') /\ image' = image
    BY <1>3 DEF TakeHas
  <1>6. kind = "take" => TakeHas
    <2>1. PICK names \in {NrosNames, NrosNames \ ToSet(TakeNames)} : image.pin.ids \in [names -> Nat]
      BY PinAssumption
    <2>2. DOMAIN image.pin.ids = names
      BY <2>1
    <2>3. "NROS_TAKE" \in names => ToSet(TakeNames) \subseteq names
      BY NameSets DEF NrosNames
    <2> QED
      BY <2>2, <2>3 DEF TakeHas
  <1>7. ASSUME NEW k \in Levels, job'[k].ok
        PROVE  /\ job'[k].kind = "violation" => job'[k].step <= 4 /\ job'[k].x \in DOMAIN image.pin.rules
               /\ job'[k].kind = "take" => TakeHas
    <2>1. CASE k = l
      BY <2>1, <1>2, <1>4, <1>6
    <2>2. CASE k # l
      BY <2>2, <1>4, <1>7 DEF JobSound
    <2> QED
      BY <2>1, <2>2
  <1> QED
    BY <1>2, <1>3, <1>4, <1>5, <1>7 DEF JobSound

\* An event of the image's nano-ros.
LEMMA EventRecord ==
    ASSUME NEW n \in DOMAIN image.pin.ids, NEW arg, NEW truth,
           Put(NrosBase + NrosId(n), arg, truth)
    PROVE  \E r : /\ log' = Append(log, r) /\ IsEvent(r)
                  /\ r.id = NrosBase + image.pin.ids[n] /\ r.arg = arg /\ r.truth = truth
  <1>1. PICK r : r = [id |-> NrosBase + image.pin.ids[n], arg |-> arg, truth |-> truth]
    OBVIOUS
  <1>2. r.id = NrosBase + image.pin.ids[n] /\ r.arg = arg /\ r.truth = truth
    BY <1>1
  <1>3. log' = Append(log, r)
    BY <1>1 DEF Put, NrosId
  <1> QED
    BY <1>2, <1>3 DEF IsEvent

\* What a level's step has at hand.
LEMMA StepContext ==
    ASSUME NInv, booted
    PROVE  /\ image.pin \in Pins /\ JobSound
           /\ \A k \in Levels : job[k].ok => job[k].step \in 1 .. 6 /\ job[k].no \in Nat
  <1>1. image.pin \in Pins
    BY SameTable DEF NInv, BootSound
  <1>2. ASSUME NEW k \in Levels, job[k].ok PROVE job[k].step \in 1 .. 6 /\ job[k].no \in Nat
    <2>1. job[k] \in Callback
      BY <1>2 DEF NInv, JobSound, None
    <2> QED
      BY <2>1 DEF Callback
  <1> QED
    BY <1>1, <1>2 DEF NInv

\* A step of a violation: the callback goes on or ends, and its event is the
\* one of its step.
LEMMA ViolationEffect ==
    ASSUME NInv, booted, NEW l \in Levels, violation(l)
    PROVE  /\ UNCHANGED <<shop, booted, jobs, sink>> /\ image' = image /\ JobSound'
           /\ job[l].ok /\ job[l].kind = "violation" /\ job[l].step \in 1 .. 4
           /\ \A k \in Levels : k > l => ~Busy(k)
           /\ \A k \in Levels : k # l => job'[k] = job[k]
           /\ job[l].step = 4 => job'[l] = None /\ ~job'[l].ok
           /\ job[l].step # 4 => /\ job'[l].ok /\ job'[l].kind = "violation" /\ job'[l].no = job[l].no
                                 /\ job'[l].step = job[l].step + 1
           /\ ViolationNames[job[l].step] \in DOMAIN image.pin.ids
           /\ \/ log' = log /\ Reads(ViolationNames[job[l].step]) \intersect ToSet(ViolationNames) = {}
              \/ \E r : /\ log' = Append(log, r) /\ IsEvent(r)
                        /\ r.id = NrosBase + image.pin.ids[ViolationNames[job[l].step]]
                        /\ r.arg = IF job[l].step = 1 THEN <<job[l].no, job[l].x>> ELSE job[l].no
                        /\ r.truth = [no |-> job[l].no, rule |-> image.pin.rules[job[l].x],
                                      name |-> ViolationNames[job[l].step]]
  <1>1. /\ UNCHANGED <<shop, booted, jobs, sink>> /\ image' = image
        /\ job[l].ok /\ job[l].kind = "violation" /\ \A k \in Levels : k > l => ~Busy(k)
    BY DEF violation, Runs, Busy, shop
  <1>2. job[l].step \in 1 .. 4
    BY StepContext, <1>1 DEF JobSound
  <1>3. PICK n : n = ViolationNames[job[l].step]
    OBVIOUS
  <1>4. n \in DOMAIN image.pin.ids
    <2>1. n \in ToSet(ViolationNames)
      BY <1>2, <1>3 DEF ViolationNames, ToSet
    <2> QED
      BY StepContext, <2>1, EventIds
  <1>5. PICK arg : arg = IF job[l].step = 1 THEN <<job[l].no, job[l].x>> ELSE job[l].no
    OBVIOUS
  <1>6. PICK truth : truth = [no |-> job[l].no, rule |-> image.pin.rules[job[l].x], name |-> n]
    OBVIOUS
  <1>7. IF Reads(n) \intersect ToSet(ViolationNames) # {}
        THEN Put(NrosBase + NrosId(n), arg, truth) ELSE log' = log
    BY <1>3, <1>5, <1>6 DEF violation
  <1>8. IF job[l].step = 4 THEN End(l) ELSE Goto(l, job[l].step + 1)
    BY DEF violation, ViolationNames
  <1>9. CASE job[l].step = 4
    <2>1. JobSound' /\ (\A k \in Levels : k # l => job'[k] = job[k]) /\ job'[l] = None /\ ~job'[l].ok
      BY StepContext, <1>1, <1>8, <1>9, EndStep
    <2> QED
      BY <1>1, <1>2, <1>3, <1>4, <1>5, <1>6, <1>7, <1>9, <2>1, EventRecord
  <1>10. CASE job[l].step # 4
    <2>1. PICK s : s = job[l].step + 1
      OBVIOUS
    <2>2. s \in 1 .. 6 /\ s <= 4 /\ Goto(l, s)
      BY <1>2, <1>8, <1>10, <2>1
    <2>3. /\ JobSound' /\ (\A k \in Levels : k # l => job'[k] = job[k])
          /\ job'[l].ok /\ job'[l].kind = "violation" /\ job'[l].step = s /\ job'[l].no = job[l].no
      BY StepContext, <1>1, <2>2, GotoStep
    <2> QED
      BY <1>1, <1>2, <1>3, <1>4, <1>5, <1>6, <1>7, <1>10, <2>1, <2>3, EventRecord
  <1> QED
    BY <1>9, <1>10

\* A step of a take writes take events and leaves the timers alone.
LEMMA TakeEffect ==
    ASSUME NInv, booted, NEW l \in Levels,
           take1(l) \/ take2(l) \/ take3(l) \/ take4(l) \/ take5(l) \/ take_bind(l)
    PROVE  /\ UNCHANGED <<shop, booted, jobs, last_start, timer_slot>> /\ image' = image /\ JobSound'
           /\ job[l].ok /\ job[l].kind = "take"
           /\ \A k \in Levels : k # l => job'[k] = job[k]
           /\ job'[l].ok => job'[l].kind = "take"
           /\ \/ log' = log
              \/ \E r : /\ log' = Append(log, r) /\ IsEvent(r)
                        /\ \E n \in ToSet(TakeNames) : n \in DOMAIN image.pin.ids /\ r.id = NrosBase + image.pin.ids[n]
  <1>1. /\ UNCHANGED <<shop, booted, jobs, last_start, timer_slot>> /\ image' = image
        /\ job[l].ok /\ job[l].kind = "take"
    BY DEF take1, take2, take3, take4, take5, take_bind, At, Runs, Busy, shop, sink
  <1>2. End(l) \/ Goto(l, 2) \/ Goto(l, 3) \/ Goto(l, 4) \/ Goto(l, 5) \/ Goto(l, 6)
    BY DEF take1, take2, take3, take4, take5, take_bind
  <1>3. End(l) \/ \E s \in 1 .. 6 : Goto(l, s)
    BY <1>2
  <1>4. JobSound' /\ (\A k \in Levels : k # l => job'[k] = job[k]) /\ (job'[l].ok => job'[l].kind = "take")
    BY StepContext, <1>1, <1>3, GotoStep, EndStep
  <1>5. \/ log' = log
        \/ \E n \in ToSet(TakeNames) : \E arg, truth : Put(NrosBase + NrosId(n), arg, truth)
    BY NameSets DEF take1, take2, take3, take4, take5, take_bind
  <1>6. ToSet(TakeNames) \subseteq DOMAIN image.pin.ids
    BY StepContext, <1>1 DEF JobSound, TakeHas
  <1> QED
    BY <1>1, <1>4, <1>5, <1>6, EventRecord

\* A step of a timer's callback.
TimerNext(l) ==
    \/ timer_start(l) \/ timer_put(l, 2, "NROS_TIMER_START") \/ timer_bind(l)
    \/ timer_wait(l) \/ timer_wake(l)
    \/ timer_end(l) \/ timer_put(l, 5, "NROS_TIMER_END")

LEMMA TimerEffect ==
    ASSUME NInv, booted, NEW l \in Levels, TimerNext(l)
    PROVE  /\ UNCHANGED <<shop, booted, jobs>> /\ image' = image /\ JobSound'
           /\ job[l].ok /\ job[l].kind = "timer"
           /\ \A k \in Levels : k # l => job'[k] = job[k]
           /\ \A s \in 1 .. 6 : Goto(l, s) =>
                 /\ job'[l].ok /\ job'[l].kind = "timer" /\ job'[l].step = s /\ job'[l].no = job[l].no
           /\ End(l) => ~job'[l].ok
           /\ log' = log \/ \E r : log' = Append(log, r) /\ IsEvent(r)
  <1>1. /\ UNCHANGED <<shop, booted, jobs>> /\ image' = image
        /\ job[l].ok /\ job[l].kind = "timer"
    BY DEF TimerNext, timer_start, timer_put, timer_bind, timer_wait, timer_wake, timer_end,
           At, Runs, Busy, Waits, shop
  <1>2. End(l) \/ Goto(l, 2) \/ Goto(l, 3) \/ Goto(l, 4) \/ Goto(l, 5) \/ Goto(l, 6)
    BY DEF TimerNext, timer_start, timer_put, timer_bind, timer_wait, timer_wake, timer_end
  <1>3. End(l) \/ \E s \in 1 .. 6 : Goto(l, s)
    BY <1>2
  <1>4. JobSound' /\ \A k \in Levels : k # l => job'[k] = job[k]
    BY StepContext, <1>1, <1>3, GotoStep, EndStep
  <1>5. \A s \in 1 .. 6 : Goto(l, s) =>
           job'[l].ok /\ job'[l].kind = "timer" /\ job'[l].step = s /\ job'[l].no = job[l].no
    BY StepContext, <1>1, GotoStep
  <1>6. End(l) => ~job'[l].ok
    BY StepContext, <1>1, EndStep
  <1>7. \/ log' = log
        \/ \E n \in ToSet(TimerNames) : \E arg, truth : Put(NrosBase + NrosId(n), arg, truth)
    BY NameSets
    DEF TimerNext, timer_start, timer_put, timer_bind, timer_wait, timer_wake, timer_end, sink
  <1>8. ToSet(TimerNames) \subseteq DOMAIN image.pin.ids
    BY StepContext, EventIds
  <1> QED
    BY <1>1, <1>4, <1>5, <1>6, <1>7, <1>8, EventRecord

\* What may be begun.
Begins(l, kind, x) ==
    /\ Begin(l, kind, x)
    /\ \/ kind = "violation" /\ x \in DOMAIN image.pin.rules
       \/ kind = "take" /\ "NROS_TAKE" \in DOMAIN image.pin.ids /\ x \in Seconds
       \/ kind = "timer" /\ x = 0

LEMMA StepCases ==
    ASSUME NEW l, Step(l)
    PROVE  \/ \E kind, x : Begins(l, kind, x)
           \/ violation(l)
           \/ take1(l) \/ take2(l) \/ take3(l) \/ take4(l) \/ take5(l) \/ take_bind(l)
           \/ TimerNext(l)
  BY DEF Step, Begins, TimerNext

\* A step leaves the image, and a record it writes is an event.
LEMMA StepEffect ==
    ASSUME NInv, booted, NEW l \in Levels, Step(l)
    PROVE  /\ UNCHANGED <<shop, booted>> /\ JobSound'
           /\ log' = log \/ \E r : log' = Append(log, r) /\ IsEvent(r)
  <1>1. ASSUME NEW kind, NEW x, Begins(l, kind, x)
        PROVE  UNCHANGED <<shop, booted, log>> /\ JobSound'
    <2>1. JobSound'
      BY <1>1, StepContext, BeginStep DEF Begins
    <2> QED
      BY <1>1, <2>1 DEF Begins, Begin
  <1>2. CASE violation(l)
    BY <1>2, ViolationEffect
  <1>3. CASE take1(l) \/ take2(l) \/ take3(l) \/ take4(l) \/ take5(l) \/ take_bind(l)
    BY <1>3, TakeEffect
  <1>4. CASE TimerNext(l)
    BY <1>4, TimerEffect
  <1> QED
    BY <1>1, <1>2, <1>3, <1>4, StepCases

-----------------------------------------------------------------------------
(* The names.                                                              *)

LEMMA InitNames == Init => NInv
  <1> SUFFICES ASSUME Init PROVE NInv
    OBVIOUS
  <1>1. ShopSound
    <2>1. Sheet(render(contract, pin))
      BY Rendered DEF Init, ShopInit
    <2> QED
      BY <2>1 DEF Init, ShopInit, ShopSound, Sheet
  <1>2. BootSound /\ JobSound
    BY DEF Init, BootSound, JobSound, None
  <1>3. LogSound
    BY DEF Init, LogSound, IsLog
  <1> QED
    BY <1>1, <1>2, <1>3 DEF NInv

\* The image that runs and the table stay as they are.
LEMMA RunFrame ==
    ASSUME NInv, booted, UNCHANGED <<shop, booted>>
    PROVE  ShopSound' /\ BootSound' /\ image' = image /\ table' = table
  <1>1. UNCHANGED <<contract, model, pin, header, table, pending, image>>
    BY DEF shop
  <1>2. ShopSound'
    BY <1>1 DEF NInv, ShopSound
  <1>3. provenanceOk'
    BY <1>1 DEF NInv, BootSound, provenanceOk
  <1> QED
    BY <1>1, <1>2, <1>3 DEF BootSound

LEMMA NextNames == NInv /\ [Next]_vars => NInv'
  <1> SUFFICES ASSUME NInv, [Next]_vars PROVE NInv'
    OBVIOUS
  <1>1. CASE UNCHANGED vars
    <2>1. UNCHANGED <<contract, model, pin, header, table, pending, image, booted, log, job, jobs,
                      last_start, timer_slot>>
      BY <1>1 DEF vars, shop, sink
    <2>2. ShopSound' /\ BootSound'
      BY <2>1 DEF NInv, ShopSound, BootSound, provenanceOk
    <2>3. JobSound' /\ LogSound'
      BY <2>1 DEF NInv, JobSound, LogSound, TakeHas, IsMarker, IsEvent
    <2> QED
      BY <2>2, <2>3 DEF NInv
  <1>2. CASE ~booted /\ ShopNext /\ UNCHANGED <<booted, log, job, jobs, sink>>
    <2>1. ShopSound'
      BY <1>2, ShopStep DEF NInv
    <2>2. /\ ~booted' /\ log' = <<>> /\ job' = [l \in Levels |-> None] /\ jobs' = 0
          /\ last_start' = 0 /\ timer_slot' = 0
      BY <1>2 DEF NInv, BootSound, sink
    <2>3. BootSound'
      BY <1>2, <2>2 DEF NInv, BootSound
    <2>4. JobSound' /\ LogSound'
      BY <2>2 DEF JobSound, LogSound, IsLog, None
    <2> QED
      BY <2>1, <2>3, <2>4 DEF NInv
  <1>3. CASE Boot
    <2>1. UNCHANGED <<contract, model, pin, header, table, pending, image, log, job, jobs,
                      last_start, timer_slot>> /\ provenanceOk /\ booted' = TRUE
      BY <1>3 DEF Boot, shop, sink
    <2>2. ShopSound' /\ provenanceOk'
      BY <2>1 DEF NInv, ShopSound, provenanceOk
    <2>3. BootSound'
      BY <2>1, <2>2 DEF BootSound
    <2>4. JobSound' /\ LogSound'
      BY <2>1 DEF NInv, JobSound, LogSound, TakeHas, IsMarker, IsEvent
    <2> QED
      BY <2>2, <2>3, <2>4 DEF NInv
  <1>4. ASSUME booted, NEW m \in DOMAIN image.header.markers, marker(m) PROVE NInv'
    <2>1. UNCHANGED <<shop, booted, job>> /\ jobs' = jobs + 1
      BY <1>4 DEF marker
    <2>2. ShopSound' /\ BootSound' /\ image' = image
      BY <1>4, <2>1, RunFrame
    <2>3. JobSound'
      BY <2>1, <2>2 DEF NInv, JobSound, TakeHas
    <2>4. PICK r : r = [id |-> m, arg |-> 0, truth |-> [name |-> image.header.markers[m]]]
      OBVIOUS
    <2>5. log' = Append(log, r)
      BY <1>4, <2>4 DEF marker, Put
    <2>6. IsMarker(r)
      BY <1>4, <2>4 DEF IsMarker
    <2>7. LogSound'
      BY <2>2, <2>5, <2>6, LogStep DEF NInv
    <2> QED
      BY <2>2, <2>3, <2>7 DEF NInv
  <1>5. ASSUME booted, NEW l \in Levels, Step(l) PROVE NInv'
    <2>1. /\ UNCHANGED <<shop, booted>> /\ JobSound'
          /\ log' = log \/ \E r : log' = Append(log, r) /\ IsEvent(r)
      BY <1>5, StepEffect
    <2>2. ShopSound' /\ BootSound' /\ image' = image
      BY <1>5, <2>1, RunFrame
    <2>3. CASE log' = log
      BY <2>1, <2>2, <2>3 DEF NInv, LogSound, IsMarker, IsEvent
    <2>4. CASE \E r : log' = Append(log, r) /\ IsEvent(r)
      <3>1. LogSound'
        BY <2>2, <2>4, LogStep DEF NInv
      <3> QED
        BY <2>1, <2>2, <3>1 DEF NInv
    <2> QED
      BY <2>1, <2>3, <2>4
  <1> QED
    BY <1>1, <1>2, <1>3, <1>4, <1>5 DEF Next

\* The invariant of the names.
THEOREM NamesInvariant == Spec => []NInv
  BY InitNames, NextNames, PTL DEF Spec

\* Whatever was edited, generated by half or built in between, a trace whose
\* digest the decoder accepts shows every island marker under the name and the
\* element of its call site (gen_markers.py, island_trace.py: load).
THEOREM NamesAreTrue == Spec => []NamesTrue
  <1>1. NInv => NamesTrue
    <2> SUFFICES ASSUME NInv, booted, NEW i \in DOMAIN log, log[i].id < NrosBase
                 PROVE  /\ log[i].id \in DOMAIN table.markers
                        /\ table.markers[log[i].id] = log[i].truth.name
      BY DEF NamesTrue
    <2>1. image.pin \in Pins /\ table.markers = image.header.markers
      BY SameTable DEF NInv, BootSound
    <2>2. ~IsEvent(log[i])
      <3>1. \A n \in DOMAIN image.pin.ids : image.pin.ids[n] \in Nat
        BY <2>1, EventIds
      <3> QED
        BY <3>1, PinAssumption DEF IsEvent
    <2>3. IsMarker(log[i])
      BY <2>2 DEF NInv, LogSound
    <2>4. \A v : [name |-> v].name = v
      OBVIOUS
    <2> QED
      BY <2>1, <2>3, <2>4 DEF IsMarker
  <1> QED
    BY <1>1, NamesInvariant, PTL

-----------------------------------------------------------------------------
(* The decoder's scan, one record at a time.                               *)

\* A nonempty set of numbers has a least one.
LEMMA LeastNat ==
    ASSUME NEW T, T \subseteq Nat, T # {}
    PROVE  \E t \in T : \A u \in T : t <= u
  <1>1. PICK t \in T : \A u \in T : ~(<<u, t>> \in OpToRel(<, Nat))
    BY WFMin, NatLessThanWellFounded
  <1>2. \A u \in T : ~(u < t)
    BY <1>1 DEF OpToRel
  <1> QED
    BY <1>2

\* The first n records are the same.
Agree(s, t, n) == \A i \in 1 .. n : s[i] = t[i]

\* f has the ticks of the first i records of s at i.
TickFn(f, n, s) == f = [i \in 0 .. n |-> IF i = 0 THEN <<>> ELSE TimerTick(f[i - 1], s[i])]

LEMMA TickExists ==
    ASSUME NEW s, NEW n \in Nat
    PROVE  \E f : TickFn(f, n, s)
  <1> DEFINE Bad == {m \in Nat : ~ \E f : TickFn(f, m, s)}
  <1> SUFFICES ASSUME Bad # {} PROVE FALSE
    OBVIOUS
  <1>1. PICK m \in Bad : \A u \in Bad : m <= u
    BY LeastNat
  <1>2. CASE m = 0
    <2>1. TickFn([i \in 0 .. 0 |-> <<>>], 0, s)
      BY DEF TickFn
    <2> QED
      BY <1>1, <1>2, <2>1
  <1>3. CASE m # 0
    <2>1. m - 1 \in Nat /\ m - 1 \notin Bad
      BY <1>1, <1>3
    <2>2. PICK f : TickFn(f, m - 1, s)
      BY <2>1
    <2>3. PICK g : g = [i \in 0 .. m |-> IF i < m THEN f[i] ELSE TimerTick(f[m - 1], s[m])]
      OBVIOUS
    <2>4. \A i \in 0 .. m - 1 : f[i] = IF i = 0 THEN <<>> ELSE TimerTick(f[i - 1], s[i])
      BY <2>2 DEF TickFn
    <2>5. \A i \in 0 .. m - 1 : g[i] = f[i]
      BY <2>1, <2>3
    <2>6. ASSUME NEW i \in 0 .. m
          PROVE  g[i] = IF i = 0 THEN <<>> ELSE TimerTick(g[i - 1], s[i])
      <3>1. CASE i = m
        BY <3>1, <2>3, <2>5, <1>3, <2>1
      <3>2. CASE i < m
        <4>1. i \in 0 .. m - 1 /\ (i # 0 => i - 1 \in 0 .. m - 1)
          BY <3>2, <2>1
        <4> QED
          BY <4>1, <2>4, <2>5
      <3> QED
        BY <3>1, <3>2, <2>1
    <2>7. TickFn(g, m, s)
      BY <2>3, <2>6 DEF TickFn
    <2> QED
      BY <1>1, <2>7
  <1> QED
    BY <1>2, <1>3

\* Two scans agree as far as their records do.
LEMMA TickUnique ==
    ASSUME NEW n \in Nat, NEW s, NEW t, Agree(s, t, n),
           NEW f, NEW g, TickFn(f, n, s), TickFn(g, n + 1, t)
    PROVE  f[n] = g[n]
  <1>1. \A i \in 0 .. n : f[i] = IF i = 0 THEN <<>> ELSE TimerTick(f[i - 1], s[i])
    BY DEF TickFn
  <1>2. \A i \in 0 .. n : g[i] = IF i = 0 THEN <<>> ELSE TimerTick(g[i - 1], t[i])
    BY DEF TickFn
  <1> DEFINE Bad == {i \in 0 .. n : f[i] # g[i]}
  <1> SUFFICES ASSUME Bad # {} PROVE FALSE
    OBVIOUS
  <1>a. Bad \subseteq Nat
    OBVIOUS
  <1>3. PICK i \in Bad : \A u \in Bad : i <= u
    BY <1>a, LeastNat
  <1>4. i # 0
    BY <1>1, <1>2
  <1>5. i - 1 \in 0 .. n /\ i \in 1 .. n /\ i - 1 \notin Bad
    BY <1>3, <1>4
  <1>6. f[i - 1] = g[i - 1] /\ s[i] = t[i]
    BY <1>5 DEF Agree
  <1> QED
    BY <1>1, <1>2, <1>4, <1>5, <1>6

LEMMA TicksScan ==
    ASSUME IsLog(log)
    PROVE  \E f : TickFn(f, Len(log), log) /\ timer_ticks = f[Len(log)]
  <1>1. Len(log) \in Nat
    BY DEF IsLog
  <1>2. PICK c : c = CHOOSE f : TickFn(f, Len(log), log)
    OBVIOUS
  <1>3. TickFn(c, Len(log), log)
    BY <1>1, <1>2, TickExists
  <1>4. timer_ticks = c[Len(log)]
    BY <1>2 DEF timer_ticks, Scan, TickFn
  <1> QED
    BY <1>3, <1>4

\* With the same table a record more is one step more.
LEMMA TicksAppend ==
    ASSUME IsLog(log), NEW r, log' = Append(log, r), table' = table
    PROVE  timer_ticks' = TimerTick(timer_ticks, r)
  <1>1. \A o, x : TimerTick(o, x)' = TimerTick(o, x)
    BY DEF TimerTick, NameOf
  <1>2. /\ IsLog(log)' /\ Len(log) \in Nat /\ Len(log') = Len(log) + 1
        /\ \A i \in 1 .. Len(log) : log'[i] = log[i]
        /\ log'[Len(log) + 1] = r
    BY Appended
  <1>3. PICK n : n = Len(log)
    OBVIOUS
  <1>4. PICK s : s = log
    OBVIOUS
  <1>5. PICK t : t = log'
    OBVIOUS
  <1>6. PICK f : TickFn(f, n, s) /\ timer_ticks = f[n]
    BY <1>3, <1>4, TicksScan
  <1>a. \A h : TickFn(h, n + 1, t)' <=> TickFn(h, n + 1, t)
    BY <1>1 DEF TickFn
  <1>7. PICK g : g = CHOOSE h : TickFn(h, n + 1, t)'
    OBVIOUS
  <1>8. TickFn(g, n + 1, t)
    <2>1. \E h : TickFn(h, n + 1, t)
      BY <1>2, <1>3, TickExists
    <2> QED
      BY <1>a, <1>7, <2>1
  <1>b. timer_ticks' = g[n + 1]
    <2>1. log' = t /\ Len(t) = n + 1
      BY <1>2, <1>3, <1>5
    <2> QED
      BY <1>7, <2>1 DEF timer_ticks, Scan, TickFn
  <1>9. f[n] = g[n]
    <2>1. n \in Nat /\ Agree(s, t, n)
      BY <1>2, <1>3, <1>4, <1>5 DEF Agree
    <2>2. TickFn(f, n, s) /\ TickFn(g, n + 1, t)
      BY <1>6, <1>8
    <2> QED
      BY <2>1, <2>2, TickUnique
  <1>10. g[n + 1] = TimerTick(g[n], t[n + 1])
    <2>1. n + 1 \in 0 .. n + 1 /\ n + 1 # 0 /\ (n + 1) - 1 = n
      BY <1>2, <1>3
    <2> QED
      BY <1>8, <2>1 DEF TickFn
  <1> QED
    BY <1>2, <1>3, <1>5, <1>6, <1>b, <1>9, <1>10

-----------------------------------------------------------------------------
(* The ticks of the bound timer.                                           *)

\* The nano-ros in the image numbers its events as the header does, as it
\* does when the table was checked before the build.
IdsAgree == \A n \in DOMAIN image.pin.ids : image.header.nros.ids[n] = image.pin.ids[n]

TimerAt(l, S) == job[l].ok /\ job[l].kind = "timer" /\ job[l].step \in S

\* A slot is a level's.
TimerSound == timer_slot \in Levels \union {0} /\ last_start \in Levels \union {0}

Truth == [no : Nat, level : Levels]
Tick == [start : Truth, end : Truth \union {None}]
Whole(t, slot) == t.start.level = slot /\ t.end \in {None, t.start}
Open(out) == out # <<>> /\ out[Len(out)].end = None

\* There is no tick before the bind; only the last one may be open, and an open
\* one is of the callback that the bound timer is in.
TickSound ==
    booted /\ IdsAgree =>
        /\ timer_ticks \in Seq(Tick)
        /\ \A k \in DOMAIN timer_ticks :
              Whole(timer_ticks[k], timer_slot) /\ (k # Len(timer_ticks) => timer_ticks[k].end # None)
        /\ timer_slot = 0 => timer_ticks = <<>>
        /\ Open(timer_ticks) =>
              /\ timer_slot \in Levels /\ TimerAt(timer_slot, 3 .. 6)
              /\ timer_ticks[Len(timer_ticks)].start = [no |-> job[timer_slot].no, level |-> timer_slot]

\* An event is decoded under its name, a marker under none of them.
LEMMA NamedEvent ==
    ASSUME NInv, booted, IdsAgree, NEW n \in DOMAIN image.pin.ids
    PROVE  NameOf(NrosBase + image.pin.ids[n]) = n
  <1>1. /\ IsTable(table) /\ image.pin \in Pins /\ table.nros.ids = image.header.nros.ids
    BY SameTable DEF NInv, BootSound
  <1>2. n \in NrosNames /\ image.pin.ids[n] \in Nat
    BY <1>1, EventIds
  <1>3. table.nros.ids[n] = image.pin.ids[n]
    BY <1>1 DEF IdsAgree
  <1>4. PICK f : f = table.nros.ids
    OBVIOUS
  <1>5. /\ \A m \in NrosNames : f[m] \in Nat
        /\ \A m, k \in NrosNames : f[m] = f[k] => m = k
    BY <1>1, <1>4 DEF IsTable
  <1>6. \A m \in NrosNames : NrosBase + f[m] = NrosBase + image.pin.ids[n] => m = n
    BY <1>2, <1>3, <1>4, <1>5, PinAssumption
  <1>7. {m \in NrosNames : NrosBase + f[m] = NrosBase + image.pin.ids[n]} = {n}
    BY <1>2, <1>3, <1>4, <1>6
  <1> QED
    BY <1>4, <1>7 DEF NameOf

LEMMA NamedMarker ==
    ASSUME NInv, booted, NEW r, IsMarker(r)
    PROVE  NameOf(r.id) = "UNKNOWN"
  <1>1. IsTable(table) /\ IsTable(image.header)
    BY SameTable DEF NInv, BootSound
  <1>2. r.id \in Nat /\ r.id < NrosBase
    BY <1>1 DEF IsTable, IsMarker
  <1>3. \A m \in NrosNames : table.nros.ids[m] \in Nat
    BY <1>1 DEF IsTable
  <1>4. {m \in NrosNames : NrosBase + table.nros.ids[m] = r.id} = {}
    BY <1>2, <1>3, PinAssumption
  <1> QED
    BY <1>4 DEF NameOf

LEMMA TicksNone ==
    ASSUME log' = <<>>
    PROVE  timer_ticks' = <<>>
  <1>1. PICK g : g = CHOOSE h : TickFn(h, 0, <<>>)'
    OBVIOUS
  <1>2. TickFn([i \in 0 .. 0 |-> <<>>], 0, <<>>)'
    BY DEF TickFn
  <1>3. TickFn(g, 0, <<>>)'
    BY <1>1, <1>2
  <1>4. g[0] = <<>>
    BY <1>3 DEF TickFn
  <1>5. timer_ticks' = g[0]
    <2>1. log' = <<>> /\ Len(<<>>) = 0
      OBVIOUS
    <2> QED
      BY <1>1, <2>1 DEF timer_ticks, Scan, TickFn
  <1> QED
    BY <1>4, <1>5

LEMMA TicksSame ==
    ASSUME UNCHANGED <<log, table>>
    PROVE  timer_ticks' = timer_ticks
  BY DEF timer_ticks, Scan, TimerTick, NameOf

\* A record that is no timer event leaves the ticks.
LEMMA TicksOther ==
    ASSUME IsLog(log), table' = table, NEW r, log' = Append(log, r),
           NameOf(r.id) \notin ToSet(TimerNames)
    PROVE  timer_ticks' = timer_ticks
  <1>1. NameOf(r.id) # "NROS_TIMER_START" /\ NameOf(r.id) # "NROS_TIMER_END"
    BY NameSets
  <1>2. TimerTick(timer_ticks, r) = timer_ticks
    BY <1>1 DEF TimerTick
  <1> QED
    BY <1>2, TicksAppend

\* What leaves the ticks and the bound timer's callback, or binds the timer,
\* leaves the invariant.
LEMMA TicksKept ==
    ASSUME TickSound, booted, booted', image' = image, timer_ticks' = timer_ticks,
           timer_slot # 0 => timer_slot' = timer_slot,
           timer_slot \in Levels /\ TimerAt(timer_slot, 3 .. 6) =>
               TimerAt(timer_slot, 3 .. 6)' /\ job'[timer_slot].no = job[timer_slot].no
    PROVE  TickSound'
  <1> SUFFICES ASSUME IdsAgree' PROVE TickSound'
    BY DEF TickSound
  <1>1. IdsAgree
    BY DEF IdsAgree
  <1>2. /\ timer_ticks \in Seq(Tick)
        /\ \A k \in DOMAIN timer_ticks :
              Whole(timer_ticks[k], timer_slot) /\ (k # Len(timer_ticks) => timer_ticks[k].end # None)
        /\ timer_slot = 0 => timer_ticks = <<>>
        /\ Open(timer_ticks) =>
              /\ timer_slot \in Levels /\ TimerAt(timer_slot, 3 .. 6)
              /\ timer_ticks[Len(timer_ticks)].start = [no |-> job[timer_slot].no, level |-> timer_slot]
    BY <1>1 DEF TickSound
  <1>3. CASE timer_slot = 0
    <2>1. timer_ticks' = <<>> /\ ~Open(timer_ticks)'
      BY <1>2, <1>3 DEF Open
    <2> QED
      BY <2>1 DEF TickSound
  <1>4. CASE timer_slot # 0
    <2>1. timer_slot' = timer_slot
      BY <1>4
    <2>2. Open(timer_ticks)' => Open(timer_ticks)
      BY DEF Open
    <2>3. Open(timer_ticks) => TimerAt(timer_slot, 3 .. 6)' /\ job'[timer_slot].no = job[timer_slot].no
      BY <1>2
    <2> QED
      BY <1>2, <2>1, <2>2, <2>3 DEF TickSound, Whole, TimerAt
  <1> QED
    BY <1>3, <1>4

\* The timer's own steps keep the slots.
LEMMA TimerStep ==
    ASSUME TimerSound, NEW l \in Levels, TimerNext(l)
    PROVE  TimerSound'
  BY DEF TimerSound, TimerNext, timer_start, timer_put, timer_bind, timer_wait, timer_wake,
         timer_end, Slot, sink

\* The steps of a timer that write no record leave its open tick open.
LEMMA SilentTimer ==
    ASSUME NInv, booted, TimerSound, TickSound, NEW l \in Levels,
           timer_start(l) \/ timer_bind(l) \/ timer_wait(l) \/ timer_wake(l) \/ timer_end(l)
    PROVE  TickSound'
  <1>1. TimerNext(l)
    BY DEF TimerNext
  <1>2. /\ UNCHANGED <<shop, booted>> /\ job[l].ok
        /\ \A k \in Levels : k # l => job'[k] = job[k]
        /\ \A s \in 1 .. 6 : Goto(l, s) =>
              job'[l].ok /\ job'[l].kind = "timer" /\ job'[l].step = s /\ job'[l].no = job[l].no
    BY <1>1, TimerEffect
  <1>3. UNCHANGED <<image, table, log>>
    BY <1>2 DEF shop, timer_start, timer_bind, timer_wait, timer_wake, timer_end
  <1>4. timer_ticks' = timer_ticks
    BY <1>3, TicksSame
  <1>5. timer_slot # 0 => timer_slot' = timer_slot
    BY DEF timer_start, timer_bind, timer_wait, timer_wake, timer_end, sink
  <1>6. ASSUME timer_slot \in Levels, TimerAt(timer_slot, 3 .. 6)
        PROVE  TimerAt(timer_slot, 3 .. 6)' /\ job'[timer_slot].no = job[timer_slot].no
    <2>0. timer_slot' = timer_slot
      BY <1>5, <1>6, LevelAssumption
    <2>1. CASE l # timer_slot
      BY <1>2, <1>6, <2>0, <2>1 DEF TimerAt
    <2>2. CASE l = timer_slot
      <3>1. Goto(l, 4) \/ Goto(l, 5) \/ Goto(l, 6)
        <4>1. ~timer_start(l)
          <5>1. timer_start(l) => job[l].step = 1
            BY DEF timer_start, At
          <5>2. job[l].step \in 3 .. 6
            BY <1>6, <2>2 DEF TimerAt
          <5> QED
            BY <5>1, <5>2
        <4> QED
          BY <4>1 DEF timer_bind, timer_wait, timer_wake, timer_end
      <3> QED
        BY <1>2, <2>0, <2>2, <3>1 DEF TimerAt
    <2> QED
      BY <2>1, <2>2
  <1> QED
    BY <1>2, <1>3, <1>4, <1>5, <1>6, TicksKept

\* The start or the end of a timer that is not bound is not forwarded.
LEMMA UnboundTimer ==
    ASSUME NInv, booted, TimerSound, TickSound, NEW l \in Levels, timer_slot # l,
           NEW n, NEW name, timer_put(l, n, name), TimerNext(l)
    PROVE  TickSound'
  <1>1. /\ UNCHANGED <<shop, booted>> /\ \A k \in Levels : k # l => job'[k] = job[k]
    BY TimerEffect
  <1>2. UNCHANGED <<image, table, log, timer_slot>>
    BY <1>1 DEF shop, timer_put, Slot, sink
  <1>3. timer_ticks' = timer_ticks
    BY <1>2, TicksSame
  <1>4. ASSUME timer_slot \in Levels, TimerAt(timer_slot, 3 .. 6)
        PROVE  TimerAt(timer_slot, 3 .. 6)' /\ job'[timer_slot].no = job[timer_slot].no
    BY <1>1, <1>2, <1>4 DEF TimerAt
  <1> QED
    BY <1>1, <1>2, <1>3, <1>4, TicksKept

\* A start opens a tick of the callback it is the start of.
LEMMA StartTick ==
    ASSUME NInv, booted, TimerSound, TickSound, NEW l \in Levels, timer_slot = l,
           timer_put(l, 2, "NROS_TIMER_START")
    PROVE  TickSound'
  <1>1. /\ job[l].ok /\ job[l].kind = "timer" /\ job[l].step = 2
        /\ UNCHANGED <<shop, booted, timer_slot>> /\ Goto(l, 3)
    BY DEF timer_put, At, Runs, Busy, sink
  <1>2. TimerNext(l)
    BY DEF TimerNext
  <1>3. /\ image' = image /\ table' = table
        /\ job'[l].ok /\ job'[l].kind = "timer" /\ job'[l].step = 3 /\ job'[l].no = job[l].no
    BY <1>1, <1>2, TimerEffect DEF shop
  <1>4. TimerAt(l, 3 .. 6)' /\ ~TimerAt(l, 3 .. 6)
    BY <1>1, <1>3 DEF TimerAt
  <1>5. timer_slot' = l /\ l # 0
    BY <1>1, LevelAssumption
  <1>6. PICK w : w = [no |-> job[l].no, level |-> l]
    OBVIOUS
  <1>7. w \in Truth /\ w.level = l
    BY <1>1, <1>6, StepContext DEF Truth
  <1>8. "NROS_TIMER_START" \in DOMAIN image.pin.ids
    BY StepContext, EventIds, NameSets
  <1>9. Put(NrosBase + NrosId("NROS_TIMER_START"), Slot(l), w)
    BY <1>6 DEF timer_put, Slot
  <1>10. PICK r : /\ log' = Append(log, r) /\ r.id = NrosBase + image.pin.ids["NROS_TIMER_START"]
                  /\ r.truth = w
    BY <1>8, <1>9, EventRecord
  <1> SUFFICES ASSUME IdsAgree' PROVE TickSound'
    BY DEF TickSound
  <1>11. IdsAgree
    BY <1>3 DEF IdsAgree
  <1>12. NameOf(r.id) = "NROS_TIMER_START"
    BY <1>8, <1>10, <1>11, NamedEvent
  <1>13. PICK out : out = timer_ticks
    OBVIOUS
  <1>14. /\ out \in Seq(Tick)
         /\ \A k \in DOMAIN out : Whole(out[k], l) /\ (k # Len(out) => out[k].end # None)
         /\ ~Open(out)
    BY <1>4, <1>11, <1>13 DEF TickSound
  <1>15. PICK t : t = [start |-> w, end |-> None]
    OBVIOUS
  <1>16. t \in Tick /\ Whole(t, l) /\ t.start = w
    BY <1>7, <1>15 DEF Tick, Whole
  <1>17. timer_ticks' = Append(out, t)
    <2>1. TimerTick(out, r) = Append(out, t)
      BY <1>10, <1>12, <1>15 DEF TimerTick
    <2> QED
      BY <2>1, <1>3, <1>10, <1>13, TicksAppend DEF NInv, LogSound
  <1>18. PICK new : new = Append(out, t)
    OBVIOUS
  <1>19. /\ new \in Seq(Tick) /\ Len(new) = Len(out) + 1 /\ new[Len(new)] = t
         /\ \A k \in DOMAIN new : k = Len(new) \/ (k \in DOMAIN out /\ new[k] = out[k])
    BY <1>14, <1>16, <1>18
  <1>20. \A k \in DOMAIN out : out[k].end # None
    BY <1>14 DEF Open
  <1>21. \A k \in DOMAIN new : Whole(new[k], l) /\ (k # Len(new) => new[k].end # None)
    BY <1>14, <1>16, <1>19, <1>20
  <1>22. new[Len(new)].start = [no |-> job'[l].no, level |-> l]
    BY <1>3, <1>6, <1>16, <1>19
  <1>23. timer_ticks' = new
    BY <1>17, <1>18
  <1> QED
    BY <1>4, <1>5, <1>19, <1>21, <1>22, <1>23 DEF TickSound, Whole

\* An end closes the tick of its own callback, if there is one.
LEMMA EndTick ==
    ASSUME NInv, booted, TimerSound, TickSound, NEW l \in Levels, timer_slot = l,
           timer_put(l, 5, "NROS_TIMER_END")
    PROVE  TickSound'
  <1>1. /\ job[l].ok /\ job[l].kind = "timer" /\ job[l].step = 5
        /\ UNCHANGED <<shop, booted, timer_slot>>
    BY DEF timer_put, At, Runs, Busy, sink
  <1>3. image' = image /\ table' = table
    BY <1>1 DEF shop
  <1>5. timer_slot' = l /\ l # 0
    BY <1>1, LevelAssumption
  <1>6. PICK w : w = [no |-> job[l].no, level |-> l]
    OBVIOUS
  <1>7. w \in Truth /\ w # None /\ w.level = l
    BY <1>1, <1>6, StepContext DEF Truth, None
  <1>8. "NROS_TIMER_END" \in DOMAIN image.pin.ids
    BY StepContext, EventIds, NameSets
  <1>9. Put(NrosBase + NrosId("NROS_TIMER_END"), Slot(l), w)
    BY <1>6 DEF timer_put, Slot
  <1>10. PICK r : /\ log' = Append(log, r) /\ r.id = NrosBase + image.pin.ids["NROS_TIMER_END"]
                  /\ r.truth = w
    BY <1>8, <1>9, EventRecord
  <1> SUFFICES ASSUME IdsAgree' PROVE TickSound'
    BY DEF TickSound
  <1>11. IdsAgree
    BY <1>3 DEF IdsAgree
  <1>12. NameOf(r.id) = "NROS_TIMER_END"
    BY <1>8, <1>10, <1>11, NamedEvent
  <1>13. PICK out : out = timer_ticks
    OBVIOUS
  <1>14. /\ out \in Seq(Tick)
         /\ \A k \in DOMAIN out : Whole(out[k], l) /\ (k # Len(out) => out[k].end # None)
    BY <1>11, <1>13 DEF TickSound
  <1>15. timer_ticks' = TimerTick(out, r)
    BY <1>3, <1>10, <1>13, TicksAppend DEF NInv, LogSound
  <1>16. CASE ~Open(out)
    <2>1. TimerTick(out, r) = out
      BY <1>12, <1>16 DEF TimerTick, Open
    <2>2. timer_ticks' = out
      BY <1>15, <2>1
    <2> QED
      BY <1>5, <1>14, <1>16, <2>2 DEF TickSound, Whole, Open
  <1>17. CASE Open(out)
    <2>1. out[Len(out)].start = w
      BY <1>6, <1>11, <1>13, <1>17 DEF TickSound
    <2>2. TimerTick(out, r) = [out EXCEPT ![Len(out)] = [out[Len(out)] EXCEPT !.end = w]]
      BY <1>10, <1>12, <1>17 DEF TimerTick, Open
    <2>3. PICK t : t = [out[Len(out)] EXCEPT !.end = w]
      OBVIOUS
    <2>4. Len(out) \in DOMAIN out /\ out[Len(out)] \in Tick
      BY <1>14, <1>17 DEF Open
    <2>5. t \in Tick /\ t.start = w /\ t.end = w
      BY <1>7, <2>1, <2>3, <2>4 DEF Tick
    <2>6. Whole(t, l)
      BY <1>7, <2>5 DEF Whole
    <2>7. PICK new : new = [out EXCEPT ![Len(out)] = t]
      OBVIOUS
    <2>8. /\ new \in Seq(Tick) /\ Len(new) = Len(out) /\ new[Len(out)] = t /\ DOMAIN new = DOMAIN out
          /\ \A k \in DOMAIN out : k # Len(out) => new[k] = out[k]
      BY <1>14, <2>4, <2>5, <2>7
    <2>9. /\ \A k \in DOMAIN new : Whole(new[k], l) /\ (k # Len(new) => new[k].end # None)
          /\ ~Open(new)
      BY <1>7, <1>14, <2>5, <2>6, <2>8 DEF Open
    <2>10. timer_ticks' = new
      BY <1>15, <2>2, <2>3, <2>7
    <2> QED
      BY <1>5, <2>8, <2>9, <2>10 DEF TickSound, Whole, Open
  <1> QED
    BY <1>16, <1>17

\* A step that is no timer's leaves the timers and the ticks.
LEMMA TicksOfOthers ==
    ASSUME NInv, booted, booted', TimerSound, TickSound, NEW l \in Levels,
           image' = image, table' = table, UNCHANGED <<last_start, timer_slot>>,
           \A k \in Levels : k # l => job'[k] = job[k],
           ~TimerAt(l, 2 .. 6), ~TimerAt(l, 2 .. 6)',
           \/ log' = log
           \/ \E r : /\ log' = Append(log, r)
                     /\ \E n \in DOMAIN image.pin.ids :
                           n \notin ToSet(TimerNames) /\ r.id = NrosBase + image.pin.ids[n]
    PROVE  TimerSound' /\ TickSound'
  <1>1. TimerSound'
    BY DEF TimerSound
  <1>2. ASSUME timer_slot \in Levels, TimerAt(timer_slot, 3 .. 6)
        PROVE  TimerAt(timer_slot, 3 .. 6)' /\ job'[timer_slot].no = job[timer_slot].no
    <2>1. timer_slot # l
      <3>1. 3 .. 6 \subseteq 2 .. 6
        OBVIOUS
      <3> QED
        BY <1>2, <3>1 DEF TimerAt
    <2> QED
      BY <1>2, <2>1 DEF TimerAt
  <1>3. CASE ~IdsAgree'
    BY <1>1, <1>3 DEF TickSound
  <1>4. CASE IdsAgree'
    <2>1. IdsAgree
      BY <1>4 DEF IdsAgree
    <2>2. timer_ticks' = timer_ticks
      <3>1. CASE log' = log
        BY <3>1, TicksSame
      <3>2. ASSUME NEW r, log' = Append(log, r), NEW n \in DOMAIN image.pin.ids,
                   n \notin ToSet(TimerNames), r.id = NrosBase + image.pin.ids[n]
            PROVE  timer_ticks' = timer_ticks
        <4>1. NameOf(r.id) = n
          BY <2>1, <3>2, NamedEvent
        <4>2. IsLog(log)
          BY DEF NInv, LogSound
        <4> QED
          BY <3>2, <4>1, <4>2, TicksOther
      <3> QED
        BY <3>1, <3>2
    <2> QED
      BY <1>1, <1>2, <2>2, TicksKept
  <1> QED
    BY <1>1, <1>3, <1>4

LEMMA InitTicks == Init => TimerSound /\ TickSound
  BY DEF Init, TimerSound, TickSound, TimerAt, None

LEMMA NextTicks == NInv /\ TimerSound /\ TickSound /\ [Next]_vars => TimerSound' /\ TickSound'
  <1> SUFFICES ASSUME NInv, TimerSound, TickSound, [Next]_vars PROVE TimerSound' /\ TickSound'
    OBVIOUS
  <1>1. CASE UNCHANGED vars
    <2>1. UNCHANGED <<image, table, booted, log, job, last_start, timer_slot>>
      BY <1>1 DEF vars, shop, sink
    <2>2. timer_ticks' = timer_ticks
      BY <2>1, TicksSame
    <2>3. TimerSound'
      BY <2>1 DEF TimerSound, TimerAt
    <2>4. TickSound'
      BY <2>1, <2>2 DEF TickSound, IdsAgree, TimerAt, Whole, Open
    <2> QED
      BY <2>3, <2>4
  <1>2. CASE ~booted /\ ShopNext /\ UNCHANGED <<booted, log, job, jobs, sink>>
    <2>1. UNCHANGED <<booted, job, last_start, timer_slot>>
      BY <1>2 DEF sink
    <2>2. TimerSound'
      BY <2>1 DEF TimerSound, TimerAt
    <2> QED
      BY <1>2, <2>1, <2>2 DEF TickSound
  <1>3. CASE Boot
    <2>1. UNCHANGED <<job, last_start, timer_slot, log>> /\ ~booted
      BY <1>3 DEF Boot, sink
    <2>2. TimerSound'
      BY <2>1 DEF TimerSound, TimerAt
    <2>3. timer_ticks' = <<>>
      <3>1. log' = <<>>
        BY <2>1 DEF NInv, BootSound
      <3> QED
        BY <3>1, TicksNone
    <2>4. ~Open(timer_ticks)'
      BY <2>3 DEF Open
    <2>5. TickSound'
      BY <2>3, <2>4 DEF TickSound
    <2> QED
      BY <2>2, <2>5
  <1>4. ASSUME booted, NEW m \in DOMAIN image.header.markers, marker(m)
        PROVE  TimerSound' /\ TickSound'
    <2>1. UNCHANGED <<shop, booted, job, last_start, timer_slot>>
      BY <1>4 DEF marker, sink
    <2>2. image' = image /\ table' = table
      BY <2>1 DEF shop
    <2>3. TimerSound'
      BY <2>1 DEF TimerSound, TimerAt
    <2>4. PICK r : r = [id |-> m, arg |-> 0, truth |-> [name |-> image.header.markers[m]]]
      OBVIOUS
    <2>5. log' = Append(log, r) /\ IsMarker(r)
      BY <1>4, <2>4 DEF marker, Put, IsMarker
    <2>6. NameOf(r.id) \notin ToSet(TimerNames)
      BY <1>4, <2>5, NamedMarker, NameSets
    <2>7. timer_ticks' = timer_ticks
      BY <2>2, <2>5, <2>6, TicksOther DEF NInv, LogSound
    <2>8. TickSound'
      BY <1>4, <2>1, <2>2, <2>7, TicksKept DEF TimerAt
    <2> QED
      BY <2>3, <2>8
  <1>5. ASSUME booted, NEW l \in Levels, Step(l)
        PROVE  TimerSound' /\ TickSound'
    <2>1. UNCHANGED <<shop, booted>>
      BY <1>5, StepEffect
    <2>2. image' = image /\ table' = table /\ booted'
      BY <1>5, <2>1 DEF shop
    <2>3. ASSUME NEW kind, NEW x, Begins(l, kind, x) PROVE TimerSound' /\ TickSound'
      <3>1. /\ \A k \in Levels : k # l => job'[k] = job[k]
            /\ job'[l].step = 1 /\ ~job[l].ok
        BY <1>5, <2>3, StepContext, BeginStep DEF Begins
      <3>2. UNCHANGED <<log, last_start, timer_slot>>
        BY <2>3 DEF Begins, Begin, sink
      <3>3. ~TimerAt(l, 2 .. 6) /\ ~TimerAt(l, 2 .. 6)'
        <4>1. ~(1 \in 2 .. 6)
          OBVIOUS
        <4> QED
          BY <3>1, <4>1 DEF TimerAt
      <3> QED
        BY <1>5, <2>2, <3>1, <3>2, <3>3, TicksOfOthers
    <2>4. CASE violation(l)
      <3>1. /\ \A k \in Levels : k # l => job'[k] = job[k]
            /\ UNCHANGED sink
            /\ job[l].kind = "violation" /\ (job'[l].ok => job'[l].kind = "violation")
            /\ job[l].step \in 1 .. 4
            /\ ViolationNames[job[l].step] \in DOMAIN image.pin.ids
            /\ \/ log' = log
               \/ \E r : log' = Append(log, r) /\ r.id = NrosBase + image.pin.ids[ViolationNames[job[l].step]]
        BY <1>5, <2>4, ViolationEffect
      <3>2. ViolationNames[job[l].step] \notin ToSet(TimerNames)
        BY <3>1, NameSets DEF ViolationNames
      <3>3. ~TimerAt(l, 2 .. 6) /\ ~TimerAt(l, 2 .. 6)'
        BY <3>1 DEF TimerAt
      <3>4. \/ log' = log
            \/ \E r : /\ log' = Append(log, r)
                      /\ \E n \in DOMAIN image.pin.ids :
                            n \notin ToSet(TimerNames) /\ r.id = NrosBase + image.pin.ids[n]
        BY <3>1, <3>2
      <3>5. UNCHANGED <<last_start, timer_slot>>
        BY <3>1 DEF sink
      <3> QED
        BY <1>5, <2>2, <3>1, <3>3, <3>4, <3>5, TicksOfOthers
    <2>5. CASE take1(l) \/ take2(l) \/ take3(l) \/ take4(l) \/ take5(l) \/ take_bind(l)
      <3>1. /\ \A k \in Levels : k # l => job'[k] = job[k]
            /\ UNCHANGED <<last_start, timer_slot>>
            /\ job[l].kind = "take" /\ (job'[l].ok => job'[l].kind = "take")
            /\ \/ log' = log
               \/ \E r : /\ log' = Append(log, r)
                         /\ \E n \in ToSet(TakeNames) : n \in DOMAIN image.pin.ids /\ r.id = NrosBase + image.pin.ids[n]
        BY <1>5, <2>5, TakeEffect
      <3>2. \A n \in ToSet(TakeNames) : n \notin ToSet(TimerNames)
        BY NameSets
      <3>3. ~TimerAt(l, 2 .. 6) /\ ~TimerAt(l, 2 .. 6)'
        BY <3>1 DEF TimerAt
      <3>4. \/ log' = log
            \/ \E r : /\ log' = Append(log, r)
                      /\ \E n \in DOMAIN image.pin.ids :
                            n \notin ToSet(TimerNames) /\ r.id = NrosBase + image.pin.ids[n]
        BY <3>1, <3>2
      <3> QED
        BY <1>5, <2>2, <3>1, <3>3, <3>4, TicksOfOthers
    <2>6. CASE TimerNext(l)
      <3>1. TimerSound'
        BY <1>5, <2>6, TimerStep
      <3>2. CASE timer_start(l) \/ timer_bind(l) \/ timer_wait(l) \/ timer_wake(l) \/ timer_end(l)
        BY <1>5, <3>1, <3>2, SilentTimer
      <3>3. CASE timer_put(l, 2, "NROS_TIMER_START")
        <4>1. CASE timer_slot = l
          BY <1>5, <3>1, <3>3, <4>1, StartTick
        <4>2. CASE timer_slot # l
          BY <1>5, <2>6, <3>1, <3>3, <4>2, UnboundTimer
        <4> QED
          BY <4>1, <4>2
      <3>4. CASE timer_put(l, 5, "NROS_TIMER_END")
        <4>1. CASE timer_slot = l
          BY <1>5, <3>1, <3>4, <4>1, EndTick
        <4>2. CASE timer_slot # l
          BY <1>5, <2>6, <3>1, <3>4, <4>2, UnboundTimer
        <4> QED
          BY <4>1, <4>2
      <3> QED
        BY <2>6, <3>1, <3>2, <3>3, <3>4 DEF TimerNext
    <2> QED
      BY <1>5, <2>3, <2>4, <2>5, <2>6, StepCases
  <1> QED
    BY <1>1, <1>2, <1>3, <1>4, <1>5 DEF Next

\* A table that was checked before the build has the ids of its nano-ros.
LEMMA CheckedAgrees == NInv /\ booted /\ image.checked => IdsAgree
  BY DEF NInv, BootSound, ShopSound, provenanceOk, None, IdsAgree

\* Every tick is one callback of the timer that was bound, from its start to its
\* end, and only the callback under way is without its end, for any number of
\* levels, preemptions and waits, when the nano-ros in the image numbers its
\* events as the header does: there is one bind, one level has the slot, and a
\* start that was not forwarded leaves no end to join.
THEOREM TicksAreWhole == Spec => [](IdsAgree => TicksWhole)
  <1>1. NInv /\ TickSound => (IdsAgree => TicksWhole)
    <2> SUFFICES ASSUME TickSound, IdsAgree, booted, NEW k \in DOMAIN timer_ticks
                 PROVE  /\ timer_ticks[k].start.level = timer_slot
                        /\ \/ timer_ticks[k].end = timer_ticks[k].start
                           \/ /\ timer_ticks[k].end = None /\ k = Len(timer_ticks)
                              /\ job[timer_slot].ok
                              /\ job[timer_slot].no = timer_ticks[k].start.no
      BY DEF TicksWhole
    <2>1. /\ timer_ticks \in Seq(Tick)
          /\ Whole(timer_ticks[k], timer_slot)
          /\ k # Len(timer_ticks) => timer_ticks[k].end # None
          /\ Open(timer_ticks) =>
                /\ TimerAt(timer_slot, 3 .. 6)
                /\ timer_ticks[Len(timer_ticks)].start = [no |-> job[timer_slot].no, level |-> timer_slot]
      BY DEF TickSound
    <2>2. CASE timer_ticks[k].end = None
      <3>1. k = Len(timer_ticks) /\ Open(timer_ticks)
        BY <2>1, <2>2 DEF Open
      <3> QED
        BY <2>1, <2>2, <3>1 DEF Whole, TimerAt
    <2>3. CASE timer_ticks[k].end # None
      BY <2>1, <2>3 DEF Whole
    <2> QED
      BY <2>2, <2>3
  <1> QED
    BY <1>1, InitNames, NextNames, InitTicks, NextTicks, PTL DEF Spec

-----------------------------------------------------------------------------
(* The violations: the scan once more.                                     *)

Unjoined == [out |-> <<>>, open |-> FALSE]
joined == Scan(JoinViolation, Unjoined)

\* f has what join_violations has after the first i records of s at i.
JoinFn(f, n, s) == f = [i \in 0 .. n |-> IF i = 0 THEN Unjoined ELSE JoinViolation(f[i - 1], s[i])]

LEMMA JoinExists ==
    ASSUME NEW s, NEW n \in Nat
    PROVE  \E f : JoinFn(f, n, s)
  <1> DEFINE Bad == {m \in Nat : ~ \E f : JoinFn(f, m, s)}
  <1> SUFFICES ASSUME Bad # {} PROVE FALSE
    OBVIOUS
  <1>1. PICK m \in Bad : \A u \in Bad : m <= u
    BY LeastNat
  <1>2. CASE m = 0
    <2>1. JoinFn([i \in 0 .. 0 |-> Unjoined], 0, s)
      BY DEF JoinFn
    <2> QED
      BY <1>1, <1>2, <2>1
  <1>3. CASE m # 0
    <2>1. m - 1 \in Nat /\ m - 1 \notin Bad
      BY <1>1, <1>3
    <2>2. PICK f : JoinFn(f, m - 1, s)
      BY <2>1
    <2>3. PICK g : g = [i \in 0 .. m |-> IF i < m THEN f[i] ELSE JoinViolation(f[m - 1], s[m])]
      OBVIOUS
    <2>4. \A i \in 0 .. m - 1 : f[i] = IF i = 0 THEN Unjoined ELSE JoinViolation(f[i - 1], s[i])
      BY <2>2 DEF JoinFn
    <2>5. \A i \in 0 .. m - 1 : g[i] = f[i]
      BY <2>1, <2>3
    <2>6. ASSUME NEW i \in 0 .. m
          PROVE  g[i] = IF i = 0 THEN Unjoined ELSE JoinViolation(g[i - 1], s[i])
      <3>1. CASE i = m
        BY <3>1, <2>3, <2>5, <1>3, <2>1
      <3>2. CASE i < m
        <4>1. i \in 0 .. m - 1 /\ (i # 0 => i - 1 \in 0 .. m - 1)
          BY <3>2, <2>1
        <4> QED
          BY <4>1, <2>4, <2>5
      <3> QED
        BY <3>1, <3>2, <2>1
    <2>7. JoinFn(g, m, s)
      BY <2>3, <2>6 DEF JoinFn
    <2> QED
      BY <1>1, <2>7
  <1> QED
    BY <1>2, <1>3

\* Two scans agree as far as their records do.
LEMMA JoinUnique ==
    ASSUME NEW n \in Nat, NEW s, NEW t, Agree(s, t, n),
           NEW f, NEW g, JoinFn(f, n, s), JoinFn(g, n + 1, t)
    PROVE  f[n] = g[n]
  <1>1. \A i \in 0 .. n : f[i] = IF i = 0 THEN Unjoined ELSE JoinViolation(f[i - 1], s[i])
    BY DEF JoinFn
  <1>2. \A i \in 0 .. n : g[i] = IF i = 0 THEN Unjoined ELSE JoinViolation(g[i - 1], t[i])
    BY DEF JoinFn
  <1> DEFINE Bad == {i \in 0 .. n : f[i] # g[i]}
  <1> SUFFICES ASSUME Bad # {} PROVE FALSE
    OBVIOUS
  <1>a. Bad \subseteq Nat
    OBVIOUS
  <1>3. PICK i \in Bad : \A u \in Bad : i <= u
    BY <1>a, LeastNat
  <1>4. i # 0
    BY <1>1, <1>2
  <1>5. i - 1 \in 0 .. n /\ i \in 1 .. n /\ i - 1 \notin Bad
    BY <1>3, <1>4
  <1>6. f[i - 1] = g[i - 1] /\ s[i] = t[i]
    BY <1>5 DEF Agree
  <1> QED
    BY <1>1, <1>2, <1>4, <1>5, <1>6

LEMMA JoinScan ==
    ASSUME IsLog(log)
    PROVE  \E f : JoinFn(f, Len(log), log) /\ joined = f[Len(log)]
  <1>1. Len(log) \in Nat
    BY DEF IsLog
  <1>2. PICK c : c = CHOOSE f : JoinFn(f, Len(log), log)
    OBVIOUS
  <1>3. JoinFn(c, Len(log), log)
    BY <1>1, <1>2, JoinExists
  <1>4. joined = c[Len(log)]
    BY <1>2 DEF joined, Scan, JoinFn
  <1> QED
    BY <1>3, <1>4

\* With the same table a record more is one step more.
LEMMA JoinAppend ==
    ASSUME IsLog(log), NEW r, log' = Append(log, r), table' = table
    PROVE  joined' = JoinViolation(joined, r)
  <1>1. \A o, x : JoinViolation(o, x)' = JoinViolation(o, x)
    BY DEF JoinViolation, NameOf, rule_name, With
  <1>2. /\ IsLog(log)' /\ Len(log) \in Nat /\ Len(log') = Len(log) + 1
        /\ \A i \in 1 .. Len(log) : log'[i] = log[i]
        /\ log'[Len(log) + 1] = r
    BY Appended
  <1>3. PICK n : n = Len(log)
    OBVIOUS
  <1>4. PICK s : s = log
    OBVIOUS
  <1>5. PICK t : t = log'
    OBVIOUS
  <1>6. PICK f : JoinFn(f, n, s) /\ joined = f[n]
    BY <1>3, <1>4, JoinScan
  <1>a. \A h : JoinFn(h, n + 1, t)' <=> JoinFn(h, n + 1, t)
    BY <1>1 DEF JoinFn
  <1>7. PICK g : g = CHOOSE h : JoinFn(h, n + 1, t)'
    OBVIOUS
  <1>8. JoinFn(g, n + 1, t)
    <2>1. \E h : JoinFn(h, n + 1, t)
      BY <1>2, <1>3, JoinExists
    <2> QED
      BY <1>a, <1>7, <2>1
  <1>b. joined' = g[n + 1]
    <2>1. log' = t /\ Len(t) = n + 1
      BY <1>2, <1>3, <1>5
    <2> QED
      BY <1>7, <2>1 DEF joined, Scan, JoinFn
  <1>9. f[n] = g[n]
    <2>1. n \in Nat /\ Agree(s, t, n)
      BY <1>2, <1>3, <1>4, <1>5 DEF Agree
    <2>2. JoinFn(f, n, s) /\ JoinFn(g, n + 1, t)
      BY <1>6, <1>8
    <2> QED
      BY <2>1, <2>2, JoinUnique
  <1>10. g[n + 1] = JoinViolation(g[n], t[n + 1])
    <2>1. n + 1 \in 0 .. n + 1 /\ n + 1 # 0 /\ (n + 1) - 1 = n
      BY <1>2, <1>3
    <2> QED
      BY <1>8, <2>1 DEF JoinFn
  <1> QED
    BY <1>2, <1>3, <1>5, <1>6, <1>b, <1>9, <1>10

LEMMA JoinNone ==
    ASSUME log' = <<>>
    PROVE  joined' = Unjoined
  <1>1. PICK g : g = CHOOSE h : JoinFn(h, 0, <<>>)'
    OBVIOUS
  <1>2. JoinFn([i \in 0 .. 0 |-> Unjoined], 0, <<>>)'
    BY DEF JoinFn
  <1>3. JoinFn(g, 0, <<>>)'
    BY <1>1, <1>2
  <1>4. g[0] = Unjoined
    BY <1>3 DEF JoinFn
  <1>5. joined' = g[0]
    <2>1. log' = <<>> /\ Len(<<>>) = 0
      OBVIOUS
    <2> QED
      BY <1>1, <2>1 DEF joined, Scan, JoinFn
  <1> QED
    BY <1>4, <1>5

LEMMA JoinSame ==
    ASSUME UNCHANGED <<log, table>>
    PROVE  joined' = joined
  BY DEF joined, Scan, JoinViolation, NameOf, rule_name, With
\* A violation that is joined is of one store: its values have its number,
\* and its rule, in a checked image, is the one judged.
ViolationAt(l) == job[l].ok /\ job[l].kind = "violation" /\ job[l].step \in 2 .. 4
IsJoined(v) == \E no, rule, truth, fields :
                  v = [no |-> no, rule |-> rule, truth |-> truth, fields |-> fields]
OfOne(v) ==
    /\ \A f \in DOMAIN v.fields : v.fields[f] = v.no
    /\ image.checked => v.rule = v.truth.rule

\* An open violation is the one the most urgent level that is storing one
\* stores, and the values it has are behind that level's step.
OpenBy(v, l) ==
    /\ ViolationAt(l) /\ job[l].no = v.no
    /\ \A i \in job[l].step .. 4 : ViolationNames[i] \notin DOMAIN v.fields
    /\ \A k \in Levels : k > l => ~ViolationAt(k)

ViolationSound ==
    booted /\ IdsAgree =>
        /\ IsLog(joined.out)
        /\ \A k \in DOMAIN joined.out : IsJoined(joined.out[k]) /\ OfOne(joined.out[k])
        /\ joined.open => /\ joined.out # <<>>
                          /\ \E l \in Levels : OpenBy(joined.out[Len(joined.out)], l)

\* A record that is no violation's leaves what is joined.
LEMMA JoinOther ==
    ASSUME IsLog(log), table' = table, NEW r, log' = Append(log, r),
           NameOf(r.id) \notin ToSet(ViolationNames)
    PROVE  joined' = joined
  <1>1. \A i \in 1 .. 4 : ViolationNames[i] \in ToSet(ViolationNames)
    BY DEF ToSet, ViolationNames
  <1>2. ToSet(Tail(ViolationNames)) \subseteq ToSet(ViolationNames)
    BY DEF ToSet, ViolationNames
  <1>3. NameOf(r.id) # ViolationNames[1] /\ NameOf(r.id) \notin ToSet(Tail(ViolationNames))
    BY <1>1, <1>2
  <1>4. JoinViolation(joined, r) = joined
    BY <1>3 DEF JoinViolation
  <1> QED
    BY <1>4, JoinAppend

\* The invariant after a step, of what is joined then.
LEMMA ViolationSoundNext ==
    ASSUME NEW s, joined' = s,
           IdsAgree' => /\ IsLog(s.out)
                        /\ \A k \in DOMAIN s.out : IsJoined(s.out[k]) /\ OfOne(s.out[k])'
                        /\ s.open => /\ s.out # <<>>
                                     /\ \E l \in Levels : OpenBy(s.out[Len(s.out)], l)'
    PROVE  ViolationSound'
  <1> SUFFICES ASSUME IdsAgree'
               PROVE  /\ IsLog(joined.out)'
                      /\ \A k \in DOMAIN joined'.out : IsJoined(joined.out[k])' /\ OfOne(joined.out[k])'
                      /\ joined'.open => /\ joined'.out # <<>>
                                         /\ \E l \in Levels : OpenBy(joined.out[Len(joined.out)], l)'
    BY DEF ViolationSound
  <1>1. IsLog(joined.out)'
    BY DEF IsLog
  <1>2. ASSUME NEW k \in DOMAIN joined'.out PROVE IsJoined(joined.out[k])' /\ OfOne(joined.out[k])'
    <2>1. IsJoined(s.out[k]) /\ OfOne(s.out[k])'
      BY <1>2
    <2> QED
      BY <2>1 DEF IsJoined, OfOne
  <1>3. ASSUME joined'.open
        PROVE  joined'.out # <<>> /\ \E l \in Levels : OpenBy(joined.out[Len(joined.out)], l)'
    <2>1. PICK l \in Levels : OpenBy(s.out[Len(s.out)], l)'
      BY <1>3
    <2>2. OpenBy(joined.out[Len(joined.out)], l)'
      BY <2>1 DEF OpenBy
    <2> QED
      BY <1>3, <2>2
  <1> QED
    BY <1>1, <1>2, <1>3

\* What leaves the joined violations and the stores under way leaves the
\* invariant.
LEMMA ViolationKept ==
    ASSUME ViolationSound, booted, booted', image' = image, joined' = joined,
           \A k \in Levels : (ViolationAt(k)' <=> ViolationAt(k)) /\ (ViolationAt(k) => job'[k] = job[k])
    PROVE  ViolationSound'
  <1>a. PICK s : s = joined
    OBVIOUS
  <1>1. IdsAgree' => IdsAgree
    BY DEF IdsAgree
  <1>2. \A v : OfOne(v)' <=> OfOne(v)
    BY DEF OfOne
  <1>3. \A v : \A l \in Levels : OpenBy(v, l) => OpenBy(v, l)'
    BY DEF OpenBy
  <1>4. IdsAgree' => /\ IsLog(s.out)
                     /\ \A k \in DOMAIN s.out : IsJoined(s.out[k]) /\ OfOne(s.out[k])
                     /\ s.open => /\ s.out # <<>>
                                  /\ \E l \in Levels : OpenBy(s.out[Len(s.out)], l)
    BY <1>a, <1>1 DEF ViolationSound
  <1>5. IdsAgree' => /\ IsLog(s.out)
                     /\ \A k \in DOMAIN s.out : IsJoined(s.out[k]) /\ OfOne(s.out[k])'
                     /\ s.open => /\ s.out # <<>>
                                  /\ \E l \in Levels : OpenBy(s.out[Len(s.out)], l)'
    BY <1>2, <1>3, <1>4
  <1> QED
    BY <1>a, <1>5, ViolationSoundNext

\* A step that is no store of a violation leaves them.
LEMMA ViolationsOfOthers ==
    ASSUME NInv, booted, booted', ViolationSound, NEW l \in Levels,
           image' = image, table' = table,
           \A k \in Levels : k # l => job'[k] = job[k],
           ~ViolationAt(l), ~ViolationAt(l)',
           \/ log' = log
           \/ \E r : /\ log' = Append(log, r)
                     /\ \E n \in DOMAIN image.pin.ids :
                           n \notin ToSet(ViolationNames) /\ r.id = NrosBase + image.pin.ids[n]
    PROVE  ViolationSound'
  <1>1. \A k \in Levels : (ViolationAt(k)' <=> ViolationAt(k)) /\ (ViolationAt(k) => job'[k] = job[k])
    BY DEF ViolationAt
  <1>2. CASE ~IdsAgree'
    BY <1>2 DEF ViolationSound
  <1>3. CASE IdsAgree'
    <2>1. IdsAgree
      BY <1>3 DEF IdsAgree
    <2>2. joined' = joined
      <3>1. CASE log' = log
        BY <3>1, JoinSame
      <3>2. ASSUME NEW r, log' = Append(log, r), NEW n \in DOMAIN image.pin.ids,
                   n \notin ToSet(ViolationNames), r.id = NrosBase + image.pin.ids[n]
            PROVE  joined' = joined
        <4>1. NameOf(r.id) = n
          BY <2>1, <3>2, NamedEvent
        <4>2. IsLog(log)
          BY DEF NInv, LogSound
        <4> QED
          BY <3>2, <4>1, <4>2, JoinOther
      <3> QED
        BY <3>1, <3>2
    <2> QED
      BY <1>1, <2>2, ViolationKept
  <1> QED
    BY <1>2, <1>3

\* With the ids of the header the sink forwards every event of a store.
LEMMA StoreRecord ==
    ASSUME NInv, booted, IdsAgree, NEW l \in Levels, violation(l)
    PROVE  \E r : /\ joined' = JoinViolation(joined, r)
                  /\ NameOf(r.id) = ViolationNames[job[l].step]
                  /\ r.arg = IF job[l].step = 1 THEN <<job[l].no, job[l].x>> ELSE job[l].no
                  /\ r.truth = [no |-> job[l].no, rule |-> image.pin.rules[job[l].x],
                                name |-> ViolationNames[job[l].step]]
  <1>1. PICK n : n = ViolationNames[job[l].step]
    OBVIOUS
  <1>a. /\ UNCHANGED <<shop, booted, jobs, sink>> /\ job[l].step \in 1 .. 4
        /\ ViolationNames[job[l].step] \in DOMAIN image.pin.ids
        /\ \/ log' = log /\ Reads(ViolationNames[job[l].step]) \intersect ToSet(ViolationNames) = {}
           \/ \E r : /\ log' = Append(log, r) /\ IsEvent(r)
                     /\ r.id = NrosBase + image.pin.ids[ViolationNames[job[l].step]]
                     /\ r.arg = IF job[l].step = 1 THEN <<job[l].no, job[l].x>> ELSE job[l].no
                     /\ r.truth = [no |-> job[l].no, rule |-> image.pin.rules[job[l].x],
                                   name |-> ViolationNames[job[l].step]]
    BY ViolationEffect
  <1>2. /\ n \in DOMAIN image.pin.ids /\ UNCHANGED shop /\ job[l].step \in 1 .. 4
        /\ \/ log' = log /\ Reads(n) \intersect ToSet(ViolationNames) = {}
           \/ \E r : /\ log' = Append(log, r) /\ IsEvent(r)
                     /\ r.id = NrosBase + image.pin.ids[n]
                     /\ r.arg = IF job[l].step = 1 THEN <<job[l].no, job[l].x>> ELSE job[l].no
                     /\ r.truth = [no |-> job[l].no, rule |-> image.pin.rules[job[l].x], name |-> n]
    BY <1>1, <1>a
  <1>3. n \in Reads(n) \intersect ToSet(ViolationNames)
    <2>1. n \in ToSet(ViolationNames)
      BY <1>1, <1>2 DEF ViolationNames, ToSet
    <2>2. n \in NrosNames
      BY <1>2, StepContext, EventIds
    <2>3. image.header.nros.ids[n] = NrosId(n)
      BY <1>2 DEF IdsAgree, NrosId
    <2> QED
      BY <2>1, <2>2, <2>3 DEF Reads
  <1>4. PICK r : /\ log' = Append(log, r)
                 /\ r.id = NrosBase + image.pin.ids[n]
                 /\ r.arg = IF job[l].step = 1 THEN <<job[l].no, job[l].x>> ELSE job[l].no
                 /\ r.truth = [no |-> job[l].no, rule |-> image.pin.rules[job[l].x], name |-> n]
    BY <1>2, <1>3
  <1>5. NameOf(r.id) = n
    BY <1>2, <1>4, NamedEvent
  <1>6. joined' = JoinViolation(joined, r)
    <2>1. IsLog(log) /\ table' = table
      BY <1>2 DEF NInv, LogSound, shop
    <2> QED
      BY <1>4, <2>1, JoinAppend
  <1> QED
    BY <1>1, <1>4, <1>5, <1>6

\* A value that is added to a joined violation changes nothing else of it.
LEMMA FieldSet ==
    ASSUME NEW v, IsJoined(v), NEW g, NEW w, w = [v EXCEPT !.fields = g]
    PROVE  IsJoined(w) /\ w.no = v.no /\ w.rule = v.rule /\ w.truth = v.truth /\ w.fields = g
  <1>1. PICK no, rule, truth, fields :
           v = [no |-> no, rule |-> rule, truth |-> truth, fields |-> fields]
    BY DEF IsJoined
  <1>2. w = [no |-> no, rule |-> rule, truth |-> truth, fields |-> g]
    BY <1>1
  <1> QED
    BY <1>1, <1>2 DEF IsJoined

\* A store never waits: no more urgent level is within one when another runs.
LEMMA NoneAbove ==
    ASSUME NEW l \in Levels, \A k \in Levels : k > l => ~Busy(k),
           \A k \in Levels : k # l => job'[k] = job[k]
    PROVE  \A k \in Levels : k > l => ~ViolationAt(k)'
  <1> SUFFICES ASSUME NEW k \in Levels, k > l PROVE ~ViolationAt(k)'
    OBVIOUS
  <1>1. k # l
    BY LevelAssumption
  <1>2. job'[k] = job[k] /\ ~Busy(k)
    BY <1>1
  <1>3. ~ViolationAt(k)
    BY <1>2 DEF Busy, Waits, ViolationAt
  <1> QED
    BY <1>2, <1>3 DEF ViolationAt

\* The head of a store opens a violation of its own.
LEMMA StoreHead ==
    ASSUME NInv, booted, ViolationSound, NEW l \in Levels, violation(l), job[l].step = 1
    PROVE  ViolationSound'
  <1>1. /\ image' = image /\ job[l].ok /\ job[l].kind = "violation"
        /\ \A k \in Levels : k > l => ~Busy(k)
        /\ \A k \in Levels : k # l => job'[k] = job[k]
        /\ job'[l].ok /\ job'[l].kind = "violation" /\ job'[l].no = job[l].no
        /\ job'[l].step = job[l].step + 1
    <2>1. job[l].step # 4
      OBVIOUS
    <2> QED
      BY <2>1, ViolationEffect
  <1>2. CASE ~IdsAgree'
    BY <1>2 DEF ViolationSound
  <1>3. CASE IdsAgree'
    <2>1. IdsAgree
      BY <1>1, <1>3 DEF IdsAgree
    <2>2. PICK r : /\ joined' = JoinViolation(joined, r)
                   /\ NameOf(r.id) = ViolationNames[1]
                   /\ r.arg = <<job[l].no, job[l].x>>
                   /\ r.truth = [no |-> job[l].no, rule |-> image.pin.rules[job[l].x],
                                 name |-> ViolationNames[1]]
      BY <2>1, StoreRecord
    <2>3. PICK out : out = joined.out
      OBVIOUS
    <2>4. IsLog(out) /\ \A k \in DOMAIN out : IsJoined(out[k]) /\ OfOne(out[k])
      BY <2>1, <2>3 DEF ViolationSound
    <2>5. PICK v : v = [no |-> r.arg[1], rule |-> rule_name(r.arg[2]), truth |-> r.truth, fields |-> <<>>]
      OBVIOUS
    <2>6. PICK s : s = [out |-> Append(out, v), open |-> TRUE]
      OBVIOUS
    <2>7. joined' = s
      BY <2>2, <2>3, <2>5, <2>6 DEF JoinViolation
    <2>8. /\ IsJoined(v) /\ v.no = job[l].no /\ v.rule = rule_name(job[l].x)
          /\ v.truth = r.truth /\ v.fields = <<>>
      <3>1. r.arg[1] = job[l].no /\ r.arg[2] = job[l].x
        BY <2>2
      <3>2. /\ v.no = r.arg[1] /\ v.rule = rule_name(r.arg[2])
            /\ v.truth = r.truth /\ v.fields = <<>>
        BY <2>5
      <3>3. IsJoined(v)
        BY <2>5 DEF IsJoined
      <3> QED
        BY <3>1, <3>2, <3>3
    <2>9. image.checked => v.rule = v.truth.rule
      <3>1. job[l].x \in DOMAIN image.pin.rules
        BY <1>1 DEF NInv, JobSound
      <3>2. table.nros.rules = image.header.nros.rules
        BY SameTable DEF NInv, BootSound
      <3>3. image.checked => image.header.nros.rules = image.pin.rules
        BY DEF NInv, BootSound, ShopSound, provenanceOk, None
      <3>4. v.truth.rule = image.pin.rules[job[l].x]
        BY <2>2, <2>8
      <3> QED
        BY <2>8, <3>1, <3>2, <3>3, <3>4 DEF rule_name
    <2>10. OfOne(v)
      BY <2>8, <2>9 DEF OfOne
    <2>11. OpenBy(v, l)'
      <3>1. ViolationAt(l)' /\ job'[l].no = v.no
        BY <1>1, <2>8 DEF ViolationAt
      <3>2. \A k \in Levels : k > l => ~ViolationAt(k)'
        BY <1>1, NoneAbove
      <3>3. \A i : ViolationNames[i] \notin DOMAIN v.fields
        BY <2>8
      <3> QED
        BY <3>1, <3>2, <3>3 DEF OpenBy
    <2>12. PICK X : out \in Seq(X)
      BY <2>4 DEF IsLog
    <2>13. PICK Y : Y = X \union {v}
      OBVIOUS
    <2>14. PICK new : new = Append(out, v)
      OBVIOUS
    <2>15. out \in Seq(Y) /\ v \in Y
      BY <2>12, <2>13
    <2>16. /\ new \in Seq(Y) /\ Len(new) = Len(out) + 1 /\ new[Len(new)] = v /\ new # <<>>
           /\ \A k \in DOMAIN new : k = Len(new) \/ (k \in DOMAIN out /\ new[k] = out[k])
      BY <2>14, <2>15
    <2>17. IsLog(new)
      BY <2>16 DEF IsLog
    <2>18. \A k \in DOMAIN new : IsJoined(new[k]) /\ OfOne(new[k])
      BY <2>4, <2>8, <2>10, <2>16
    <2>19. \A u : OfOne(u)' <=> OfOne(u)
      BY <1>1 DEF OfOne
    <2>20. s.out = new /\ s.open
      BY <2>6, <2>14
    <2>21. /\ IsLog(s.out)
           /\ \A k \in DOMAIN s.out : IsJoined(s.out[k]) /\ OfOne(s.out[k])'
           /\ s.out # <<>>
           /\ s.out[Len(s.out)] = v
      BY <2>16, <2>17, <2>18, <2>19, <2>20
    <2>22. OpenBy(s.out[Len(s.out)], l)'
      BY <2>11, <2>21 DEF OpenBy
    <2> QED
      BY <2>7, <2>21, <2>22, ViolationSoundNext
  <1> QED
    BY <1>2, <1>3

\* The level that stores a value is the one the open violation is of.
LEMMA StoredBy ==
    ASSUME NEW l \in Levels, ViolationAt(l), \A k \in Levels : k > l => ~Busy(k),
           NEW v, NEW k \in Levels, OpenBy(v, k)
    PROVE  k = l
  <1>1. ViolationAt(k) /\ ~(l > k)
    BY DEF OpenBy
  <1>2. ~(k > l)
    BY <1>1 DEF ViolationAt, Busy, Waits
  <1> QED
    BY <1>1, <1>2, LevelAssumption

\* A value goes to the violation of its own store, or is dropped with it.
LEMMA StoreValue ==
    ASSUME NInv, booted, ViolationSound, NEW l \in Levels, violation(l), job[l].step # 1
    PROVE  ViolationSound'
  <1>a. /\ image' = image /\ job[l].ok /\ job[l].kind = "violation" /\ job[l].step \in 1 .. 4
        /\ \A k \in Levels : k > l => ~Busy(k)
        /\ \A k \in Levels : k # l => job'[k] = job[k]
        /\ job[l].step # 4 => /\ job'[l].ok /\ job'[l].kind = "violation" /\ job'[l].no = job[l].no
                              /\ job'[l].step = job[l].step + 1
    BY ViolationEffect
  <1>1. /\ image' = image /\ job[l].ok /\ job[l].kind = "violation" /\ job[l].step \in 2 .. 4
        /\ \A k \in Levels : k > l => ~Busy(k)
        /\ \A k \in Levels : k # l => job'[k] = job[k]
        /\ job[l].step # 4 => /\ job'[l].ok /\ job'[l].kind = "violation" /\ job'[l].no = job[l].no
                              /\ job'[l].step = job[l].step + 1
    BY <1>a
  <1>2. CASE ~IdsAgree'
    BY <1>2 DEF ViolationSound
  <1>3. CASE IdsAgree'
    <2>1. IdsAgree
      BY <1>1, <1>3 DEF IdsAgree
    <2>2. PICK n : n = ViolationNames[job[l].step]
      OBVIOUS
    <2>3. PICK r : joined' = JoinViolation(joined, r) /\ NameOf(r.id) = n /\ r.arg = job[l].no
      BY <2>1, <2>2, StoreRecord
    <2>4. /\ n # ViolationNames[1] /\ n \in ToSet(Tail(ViolationNames))
          /\ (n = ViolationNames[4] <=> job[l].step = 4)
          /\ \A i \in job[l].step + 1 .. 4 : ViolationNames[i] # n
      <3>1. job[l].step = 2 \/ job[l].step = 3 \/ job[l].step = 4
        BY <1>1
      <3>2. /\ ViolationNames[1] = "NROS_VIOLATION" /\ ViolationNames[2] = "NROS_VIOLATION_FQN"
            /\ ViolationNames[3] = "NROS_VIOLATION_MEASURED" /\ ViolationNames[4] = "NROS_VIOLATION_DECLARED"
            /\ ToSet(Tail(ViolationNames)) = {ViolationNames[2], ViolationNames[3], ViolationNames[4]}
        BY DEF ViolationNames, ToSet
      <3>3. \A i \in 3 .. 4 : i = 3 \/ i = 4
        OBVIOUS
      <3> QED
        BY <2>2, <3>1, <3>2, <3>3
    <2>5. PICK s : s = joined
      OBVIOUS
    <2>6. /\ IsLog(s.out)
          /\ \A k \in DOMAIN s.out : IsJoined(s.out[k]) /\ OfOne(s.out[k])
          /\ s.open => s.out # <<>> /\ \E k \in Levels : OpenBy(s.out[Len(s.out)], k)
      BY <2>1, <2>5 DEF ViolationSound
    <2>7. \A u : OfOne(u)' <=> OfOne(u)
      BY <1>1 DEF OfOne
    <2>8. CASE ~s.open
      <3>1. joined' = s
        BY <2>3, <2>4, <2>5, <2>8 DEF JoinViolation
      <3>2. /\ IsLog(s.out)
            /\ \A k \in DOMAIN s.out : IsJoined(s.out[k]) /\ OfOne(s.out[k])'
        BY <2>6, <2>7
      <3> QED
        BY <2>8, <3>1, <3>2, ViolationSoundNext
    <2>9. CASE s.open
      <3>1. PICK v : v = s.out[Len(s.out)]
        OBVIOUS
      <3>2. PICK X : s.out \in Seq(X)
        BY <2>6 DEF IsLog
      <3>3. Len(s.out) \in DOMAIN s.out
        BY <2>6, <2>9, <3>2
      <3>4. IsJoined(v) /\ OfOne(v)
        BY <2>6, <3>1, <3>3
      <3>5. OpenBy(v, l)
        <4>1. ViolationAt(l)
          BY <1>1 DEF ViolationAt
        <4>2. PICK k \in Levels : OpenBy(v, k)
          BY <2>6, <2>9, <3>1
        <4>3. k = l
          BY <1>1, <4>1, <4>2, StoredBy
        <4> QED
          BY <4>2, <4>3
      <3>6. n \notin DOMAIN v.fields /\ job[l].no = v.no
        <4>1. job[l].step \in job[l].step .. 4
          BY <1>1
        <4> QED
          BY <2>2, <3>5, <4>1 DEF OpenBy
      <3>a. PICK a : a = r.arg
        OBVIOUS
      <3>b. PICK g : g = With(v.fields, n, a)
        OBVIOUS
      <3>c. PICK w : w = [v EXCEPT !.fields = g]
        OBVIOUS
      <3>d. /\ IsJoined(w) /\ w.no = v.no /\ w.rule = v.rule /\ w.truth = v.truth /\ w.fields = g
            /\ DOMAIN g = DOMAIN v.fields \union {n}
            /\ \A x \in DOMAIN g : g[x] = IF x = n THEN a ELSE v.fields[x]
        <4>1. IsJoined(w) /\ w.no = v.no /\ w.rule = v.rule /\ w.truth = v.truth /\ w.fields = g
          BY <3>4, <3>c, FieldSet
        <4>2. /\ DOMAIN g = DOMAIN v.fields \union {n}
              /\ \A x \in DOMAIN g : g[x] = IF x = n THEN a ELSE v.fields[x]
          BY <3>b DEF With
        <4> QED
          BY <4>1, <4>2
      <3>7. /\ w = [v EXCEPT !.fields = With(v.fields, n, r.arg)]
            /\ IsJoined(w) /\ w.no = v.no /\ w.rule = v.rule /\ w.truth = v.truth
            /\ DOMAIN w.fields = DOMAIN v.fields \union {n}
            /\ \A x \in DOMAIN w.fields : w.fields[x] = IF x = n THEN r.arg ELSE v.fields[x]
        BY <3>a, <3>b, <3>c, <3>d
      <3>8. OfOne(w)
        BY <2>3, <3>4, <3>6, <3>7 DEF OfOne
      <3>9. PICK new : new = [s.out EXCEPT ![Len(s.out)] = w]
        OBVIOUS
      <3>10. PICK t : t = [out |-> new, open |-> n # ViolationNames[4]]
        OBVIOUS
      <3>11. joined' = t
        <4>1. new = [s.out EXCEPT ![Len(s.out)].fields = With(@, n, r.arg)]
          BY <3>1, <3>7, <3>9
        <4>2. n \notin DOMAIN s.out[Len(s.out)].fields
          BY <3>1, <3>6
        <4>3. JoinViolation(s, r) = [out |-> [s.out EXCEPT ![Len(s.out)].fields = With(@, n, r.arg)],
                                     open |-> n # ViolationNames[4]]
          BY <2>3, <2>4, <2>9, <4>2 DEF JoinViolation
        <4> QED
          BY <2>3, <2>5, <3>10, <4>1, <4>3
      <3>12. PICK Y : Y = X \union {w}
        OBVIOUS
      <3>13. s.out \in Seq(Y) /\ w \in Y
        BY <3>2, <3>12
      <3>14. /\ new \in Seq(Y) /\ Len(new) = Len(s.out) /\ new[Len(new)] = w /\ new # <<>>
             /\ \A k \in DOMAIN new : k = Len(new) \/ (k \in DOMAIN s.out /\ new[k] = s.out[k])
        BY <3>3, <3>9, <3>13
      <3>15. IsLog(new)
        BY <3>14 DEF IsLog
      <3>16. \A k \in DOMAIN new : IsJoined(new[k]) /\ OfOne(new[k])'
        BY <2>6, <2>7, <3>7, <3>8, <3>14
      <3>17. job[l].step # 4 => OpenBy(w, l)'
        <4> SUFFICES ASSUME job[l].step # 4 PROVE OpenBy(w, l)'
          OBVIOUS
        <4>1. ViolationAt(l)' /\ job'[l].no = w.no
          BY <1>1, <3>6, <3>7 DEF ViolationAt
        <4>2. \A k \in Levels : k > l => ~ViolationAt(k)'
          BY <1>1, NoneAbove
        <4>3. ASSUME NEW i \in job[l].step + 1 .. 4 PROVE ViolationNames[i] \notin DOMAIN w.fields
          <5>1. i \in job[l].step .. 4
            BY <1>1
          <5>2. ViolationNames[i] \notin DOMAIN v.fields
            BY <3>5, <5>1 DEF OpenBy
          <5> QED
            BY <2>4, <3>7, <4>3, <5>2
        <4>4. job'[l].step = job[l].step + 1
          BY <1>1
        <4> QED
          BY <4>1, <4>2, <4>3, <4>4 DEF OpenBy
      <3>18. t.out = new /\ (t.open <=> job[l].step # 4)
        BY <2>4, <3>10
      <3>19. /\ IsLog(t.out) /\ t.out # <<>> /\ t.out[Len(t.out)] = w
             /\ \A k \in DOMAIN t.out : IsJoined(t.out[k]) /\ OfOne(t.out[k])'
        BY <3>14, <3>15, <3>16, <3>18
      <3>20. t.open => OpenBy(t.out[Len(t.out)], l)'
        BY <3>17, <3>18, <3>19 DEF OpenBy
      <3> QED
        BY <3>11, <3>19, <3>20, ViolationSoundNext
    <2> QED
      BY <2>8, <2>9
  <1> QED
    BY <1>2, <1>3

LEMMA NextViolations == NInv /\ ViolationSound /\ [Next]_vars => ViolationSound'
  <1> SUFFICES ASSUME NInv, ViolationSound, [Next]_vars PROVE ViolationSound'
    OBVIOUS
  <1>0. CASE ~booted'
    BY <1>0 DEF ViolationSound
  <1>1. CASE UNCHANGED vars
    <2>1. UNCHANGED <<image, table, booted, log, job>>
      BY <1>1 DEF vars, shop
    <2>2. joined' = joined
      BY <2>1, JoinSame
    <2>3. \A k \in Levels : (ViolationAt(k)' <=> ViolationAt(k)) /\ (ViolationAt(k) => job'[k] = job[k])
      BY <2>1 DEF ViolationAt
    <2>4. CASE booted
      BY <2>1, <2>2, <2>3, <2>4, ViolationKept
    <2> QED
      BY <1>0, <2>1, <2>4
  <1>2. CASE ~booted /\ ShopNext /\ UNCHANGED <<booted, log, job, jobs, sink>>
    BY <1>0, <1>2
  <1>3. CASE Boot
    <2>1. log' = <<>>
      BY <1>3 DEF Boot, NInv, BootSound
    <2>2. joined' = Unjoined
      BY <2>1, JoinNone
    <2>3. PICK s : s = Unjoined
      OBVIOUS
    <2>4. s.out = <<>> /\ ~s.open
      BY <2>3 DEF Unjoined
    <2>5. IsLog(s.out) /\ DOMAIN s.out = {}
      BY <2>4 DEF IsLog
    <2>6. \A k \in DOMAIN s.out : IsJoined(s.out[k]) /\ OfOne(s.out[k])'
      BY <2>5
    <2>7. s.open => s.out # <<>> /\ \E l \in Levels : OpenBy(s.out[Len(s.out)], l)'
      BY <2>4
    <2> QED
      BY <2>2, <2>3, <2>5, <2>6, <2>7, ViolationSoundNext
  <1>4. ASSUME booted, NEW m \in DOMAIN image.header.markers, marker(m)
        PROVE  ViolationSound'
    <2>1. UNCHANGED <<shop, booted, job>>
      BY <1>4 DEF marker
    <2>2. image' = image /\ table' = table
      BY <2>1 DEF shop
    <2>3. PICK r : r = [id |-> m, arg |-> 0, truth |-> [name |-> image.header.markers[m]]]
      OBVIOUS
    <2>4. log' = Append(log, r) /\ IsMarker(r)
      BY <1>4, <2>3 DEF marker, Put, IsMarker
    <2>5. NameOf(r.id) \notin ToSet(ViolationNames)
      BY <1>4, <2>4, NamedMarker, NameSets
    <2>6. joined' = joined
      BY <2>2, <2>4, <2>5, JoinOther DEF NInv, LogSound
    <2>7. \A k \in Levels : (ViolationAt(k)' <=> ViolationAt(k)) /\ (ViolationAt(k) => job'[k] = job[k])
      BY <2>1 DEF ViolationAt
    <2> QED
      BY <1>4, <2>1, <2>2, <2>6, <2>7, ViolationKept
  <1>5. ASSUME booted, NEW l \in Levels, Step(l)
        PROVE  ViolationSound'
    <2>1. UNCHANGED <<shop, booted>>
      BY <1>5, StepEffect
    <2>2. image' = image /\ table' = table /\ booted'
      BY <1>5, <2>1 DEF shop
    <2>3. ASSUME NEW kind, NEW x, Begins(l, kind, x) PROVE ViolationSound'
      <3>1. /\ \A k \in Levels : k # l => job'[k] = job[k]
            /\ job'[l].step = 1 /\ ~job[l].ok
        BY <1>5, <2>3, StepContext, BeginStep DEF Begins
      <3>2. log' = log
        BY <2>3 DEF Begins, Begin
      <3>3. ~ViolationAt(l) /\ ~ViolationAt(l)'
        <4>1. ~(1 \in 2 .. 4)
          OBVIOUS
        <4> QED
          BY <3>1, <4>1 DEF ViolationAt
      <3> QED
        BY <1>5, <2>2, <3>1, <3>2, <3>3, ViolationsOfOthers
    <2>4. CASE violation(l)
      BY <1>5, <2>4, StoreHead, StoreValue
    <2>5. CASE take1(l) \/ take2(l) \/ take3(l) \/ take4(l) \/ take5(l) \/ take_bind(l)
      <3>1. /\ \A k \in Levels : k # l => job'[k] = job[k]
            /\ job[l].kind = "take" /\ (job'[l].ok => job'[l].kind = "take")
            /\ \/ log' = log
               \/ \E r : /\ log' = Append(log, r)
                         /\ \E n \in ToSet(TakeNames) : n \in DOMAIN image.pin.ids /\ r.id = NrosBase + image.pin.ids[n]
        BY <1>5, <2>5, TakeEffect
      <3>2. \A n \in ToSet(TakeNames) : n \notin ToSet(ViolationNames)
        BY NameSets
      <3>3. ~ViolationAt(l) /\ ~ViolationAt(l)'
        BY <3>1 DEF ViolationAt
      <3>4. \/ log' = log
            \/ \E r : /\ log' = Append(log, r)
                      /\ \E n \in DOMAIN image.pin.ids :
                            n \notin ToSet(ViolationNames) /\ r.id = NrosBase + image.pin.ids[n]
        BY <3>1, <3>2
      <3> QED
        BY <1>5, <2>2, <3>1, <3>3, <3>4, ViolationsOfOthers
    <2>6. CASE TimerNext(l)
      <3>1. /\ \A k \in Levels : k # l => job'[k] = job[k]
            /\ job[l].kind = "timer"
            /\ job'[l].ok => job'[l].kind = "timer"
        <4>1. End(l) \/ Goto(l, 2) \/ Goto(l, 3) \/ Goto(l, 4) \/ Goto(l, 5) \/ Goto(l, 6)
          BY <2>6 DEF TimerNext, timer_start, timer_put, timer_bind, timer_wait, timer_wake, timer_end
        <4>2. End(l) \/ \E s \in 1 .. 6 : Goto(l, s)
          BY <4>1
        <4> QED
          BY <1>5, <2>6, <4>2, TimerEffect
      <3>2. \A n \in ToSet(TimerNames) : n \notin ToSet(ViolationNames)
        BY NameSets
      <3>3. ~ViolationAt(l) /\ ~ViolationAt(l)'
        BY <3>1 DEF ViolationAt
      <3>4. \/ log' = log
            \/ \E n \in ToSet(TimerNames) : \E arg, truth : Put(NrosBase + NrosId(n), arg, truth)
        BY <2>6, NameSets
        DEF TimerNext, timer_start, timer_put, timer_bind, timer_wait, timer_wake, timer_end
      <3>5. ToSet(TimerNames) \subseteq DOMAIN image.pin.ids
        BY <1>5, StepContext, EventIds
      <3>6. \/ log' = log
            \/ \E r : /\ log' = Append(log, r)
                      /\ \E n \in DOMAIN image.pin.ids :
                            n \notin ToSet(ViolationNames) /\ r.id = NrosBase + image.pin.ids[n]
        BY <3>2, <3>4, <3>5, EventRecord
      <3> QED
        BY <1>5, <2>2, <3>1, <3>3, <3>6, ViolationsOfOthers
    <2> QED
      BY <1>5, <2>3, <2>4, <2>5, <2>6, StepCases
  <1> QED
    BY <1>1, <1>2, <1>3, <1>4, <1>5 DEF Next

\* A joined violation is of one store, with the values stored with its head,
\* however many levels store violations between any two of its events, when the
\* nano-ros in the image numbers its events as the header does; with a table
\* that was checked before the build its rule is the one judged
\* (island_trace.py: join_violations).
THEOREM ViolationsAreTrue == Spec => [](IdsAgree => ViolationsTrue)
  <1>1. Init => ViolationSound
    BY DEF Init, ViolationSound
  <1>2. ViolationSound => (IdsAgree => ViolationsTrue)
    <2> SUFFICES ASSUME ViolationSound, IdsAgree, booted, NEW k \in DOMAIN join_violations
                 PROVE  /\ \A f \in DOMAIN join_violations[k].fields :
                              join_violations[k].fields[f] = join_violations[k].no
                        /\ image.checked => join_violations[k].rule = join_violations[k].truth.rule
      BY DEF ViolationsTrue
    <2>1. join_violations = joined.out
      BY DEF join_violations, joined, Unjoined
    <2>2. OfOne(joined.out[k])
      BY <2>1 DEF ViolationSound
    <2> QED
      BY <2>1, <2>2 DEF OfOne
  <1> QED
    BY <1>1, <1>2, InitNames, NextNames, NextViolations, PTL DEF Spec

\* Both hold of every trace of an image whose table was checked.
COROLLARY CheckedTrace == Spec => [](image.checked => TicksWhole /\ ViolationsTrue)
  <1>1. NInv /\ (IdsAgree => TicksWhole) /\ (IdsAgree => ViolationsTrue) =>
           (image.checked => TicksWhole /\ ViolationsTrue)
    <2>1. CASE ~booted
      BY <2>1 DEF TicksWhole, ViolationsTrue
    <2>2. CASE booted
      BY <2>2, CheckedAgrees
    <2> QED
      BY <2>1, <2>2
  <1> QED
    BY <1>1, NamesInvariant, TicksAreWhole, ViolationsAreTrue, PTL
=============================================================================

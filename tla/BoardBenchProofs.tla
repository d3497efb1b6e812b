-------------------------- MODULE BoardBenchProofs --------------------------
(***************************************************************************)
(* The tools beside the board that read while something else writes.       *)
(* Buttons, for a ring of any size and any number of ticks and injections: *)
(* the lines the tool prints implement PressFeed, and no injection of two  *)
(* ticks or more is lost.  The event log, however its lines are cut into   *)
(* writes and polls: the tail has what a batch read of the same file has,  *)
(* and once all is written and read the view shows the last value of       *)
(* everything the running probe evaluated.  The spin diagnosis, for any    *)
(* ring, levels and bins: whatever is filed while the record is read, what *)
(* is said of the act is of the intervals between its two reads.  The      *)
(* terms: in an ordinary act each covers what it is a budget of.  The      *)
(* supervisor's record of an image with any number of today's blocks: each *)
(* field is decoded from its own words.                                    *)
(***************************************************************************)
EXTENDS BoardBench, TLAPS, WellFoundedInduction, FiniteSetTheorems

-----------------------------------------------------------------------------
(* The invariant of the record and its reader.                             *)

Presses == Nat \X (Buttons \union {0}) \X
              {"-", "not running", "accepted", "no takeover", "not normal"}

RecordType == [debounced : SUBSET Buttons, presses : Nat, inject : [Buttons -> Nat],
               ring : [0 .. ButtonRing - 1 -> Presses]]
TickType == [pc : {"idle", "read", "count", "debounce", "entry", "presses"}, b : Buttons,
             sample : SUBSET Buttons, inj : Nat, edges : SUBSET Buttons,
             context : Contexts \union {"init"}]
ToolType == [pc : {"off", "write", "poll", "ring", "done"},
             mode : {"-", "bridge", "watch", "inject"}, seen : Nat, n : Nat]

\* Types of the buttons' state.
ButtonTypes ==
    /\ rec \in RecordType
    /\ last_sample \in SUBSET Buttons
    /\ fw \in TickType
    /\ fw.pc \in {"entry", "presses"} => fw.edges # {}
    /\ ticks \in Nat /\ injects \in Nat
    /\ tool \in ToolType
    /\ made \in Seq(Presses) /\ told \in Seq([n : Nat, press : Presses])
    /\ waited \in [Buttons -> Int]

\* The count follows its entry, and the ring holds the last ButtonRing
\* presses, the one whose count is still to be stored included.
RingHolds ==
    /\ Len(made) = rec.presses + (IF fw.pc = "presses" THEN 1 ELSE 0)
    /\ \A i \in 1 .. Len(made) :
          i + ButtonRing > Len(made) => rec.ring[(i - 1) % ButtonRing] = made[i]

\* The reader is never ahead of the count, though the count may move between
\* its two reads.
ReaderBehind ==
    /\ tool.seen <= rec.presses
    /\ tool.pc = "ring" => tool.seen <= tool.n /\ tool.n <= rec.presses
    /\ tool.pc = "off" => tool.seen = 0

FeedInv == ButtonTypes /\ RingHolds /\ ReaderBehind

-----------------------------------------------------------------------------
(* The invariant of an injection under way.                                *)

\* Every injection is of two ticks or more.
LongInjections == \A n \in InjectTicks : n >= 2

\* The tick under way, if any, has yet to read the word of b.
Unread(b) ==
    \/ fw.pc \in {"idle", "entry", "presses"}
    \/ fw.pc = "read" /\ fw.b <= b
    \/ fw.pc = "count" /\ fw.b < b

\* The tick holds a word of b that it is about to write back, counted down.
Holds(b) == fw.pc = "count" /\ fw.b = b /\ fw.inj # 0

\* The word the next tick reads, if nothing is injected until then.
Word(b) == IF Holds(b) THEN fw.inj - 1 ELSE rec.inject[b]

\* An injection under way is sampled often enough, and soon: once in a tick
\* that ends with another one to come, then in that one.
SampledSoon(b) ==
    waited[b] >= 0 =>
        /\ Unread(b) => \/ b \in last_sample /\ Word(b) >= 1 /\ waited[b] <= 2
                        \/ Word(b) >= 2 /\ waited[b] <= 1
        /\ ~Unread(b) /\ b \in fw.sample => \/ b \in last_sample /\ waited[b] <= 2
                                            \/ Word(b) >= 1 /\ waited[b] <= 1
        /\ ~Unread(b) /\ b \notin fw.sample => Word(b) >= 2 /\ waited[b] = 0

\* A word that would be lost with its last tick belongs to a button that is
\* down, or comes down with that tick.
NoOrphan(b) ==
    /\ Holds(b) => b \in fw.sample
    /\ ~Unread(b) /\ b \notin fw.sample => Word(b) # 1
    /\ waited[b] < 0 /\ b \notin rec.debounced =>
          /\ Unread(b) => Word(b) # 1 \/ b \in last_sample
          /\ Holds(b) => Word(b) # 0 \/ b \in last_sample


-----------------------------------------------------------------------------
(* The ring.                                                               *)

LEMMA Quotient ==
    ASSUME NEW R \in Int, R > 0, NEW i \in Int
    PROVE  i = R * (i \div R) + (i % R)
  BY Z3

\* Two presses less than a ring apart have slots of their own.
LEMMA SlotsDiffer ==
    ASSUME NEW R \in Nat \ {0}, NEW i \in Nat, NEW j \in Nat, i < j, j - i < R
    PROVE  i % R # j % R
  <1> DEFINE q == i \div R
             p == j \div R
  <1>1. q \in Int /\ p \in Int /\ i % R \in Int /\ j % R \in Int
    OBVIOUS
  <1>2. i = R * q + (i % R) /\ j = R * p + (j % R)
    <2>1. R \in Int /\ R > 0 /\ i \in Int /\ j \in Int
      OBVIOUS
    <2> QED
      BY <2>1, Quotient
  <1> HIDE DEF q, p
  <1> SUFFICES ASSUME i % R = j % R PROVE FALSE
    OBVIOUS
  <1>3. j - i = R * (p - q)
    BY <1>1, <1>2
  <1>4. CASE p - q <= 0
    <2>1. R * (p - q) <= 0
      BY <1>1, <1>4
    <2> QED
      BY <1>3, <2>1
  <1>5. CASE p - q >= 1
    <2>1. R * (p - q) >= R
      BY <1>1, <1>5
    <2> QED
      BY <1>3, <2>1
  <1> QED
    BY <1>1, <1>4, <1>5

LEMMA SlotInRing ==
    ASSUME NEW i \in Nat
    PROVE  i % ButtonRing \in 0 .. ButtonRing - 1
  BY ButtonAssumption

-----------------------------------------------------------------------------
(* The buttons' part of a step.                                            *)

\* A step of the bench is one of the buttons or leaves them alone.
LEMMA BenchStep == [Next]_vars => [ButtonNext]_buttonVars
  <1> SUFFICES ASSUME [Next]_vars PROVE ButtonNext \/ UNCHANGED buttonVars
    OBVIOUS
  <1>1. CASE Next
    BY <1>1 DEF Next, readSupervisor
  <1>2. CASE UNCHANGED vars
    BY <1>2 DEF vars
  <1> QED
    BY <1>1, <1>2

\* The lines of one read: those after `seen` that the ring can still hold.
LEMMA NewPresses ==
    ASSUME ButtonTypes, NEW n \in Nat, NEW seen \in Nat, seen <= n
    PROVE  LET first == IF seen > n - ButtonRing THEN seen ELSE n - ButtonRing
           IN  /\ first \in Nat /\ first <= n /\ seen <= first
               /\ new_presses(n, seen) \in Seq([n : Nat, press : Presses])
               /\ Len(new_presses(n, seen)) = n - first
               /\ \A i \in 1 .. n - first :
                     new_presses(n, seen)[i] =
                        [n |-> first + i, press |-> rec.ring[(first + i - 1) % ButtonRing]]
  <1> DEFINE first == IF seen > n - ButtonRing THEN seen ELSE n - ButtonRing
             line(i) == [n |-> first + i, press |-> rec.ring[(first + i - 1) % ButtonRing]]
  <1>1. ButtonRing \in Nat /\ first \in Nat /\ first <= n /\ seen <= first
    BY ButtonAssumption
  <1>2. new_presses(n, seen) = [i \in 1 .. n - first |-> line(i)]
    BY DEF new_presses
  <1> HIDE DEF first
  <1>3. ASSUME NEW i \in 1 .. n - first
        PROVE  line(i) \in [n : Nat, press : Presses]
    <2>1. first + i - 1 \in Nat /\ first + i \in Nat
      BY <1>1
    <2>2. (first + i - 1) % ButtonRing \in 0 .. ButtonRing - 1
      BY <2>1, SlotInRing
    <2>3. rec.ring \in [0 .. ButtonRing - 1 -> Presses]
      BY DEF ButtonTypes, RecordType
    <2>4. rec.ring[(first + i - 1) % ButtonRing] \in Presses
      BY <2>2, <2>3
    <2> QED
      BY <2>1, <2>4
  <1> HIDE DEF line
  <1>4. n - first \in Nat
    BY <1>1
  <1>5. /\ new_presses(n, seen) \in Seq([n : Nat, press : Presses])
        /\ Len(new_presses(n, seen)) = n - first
    <2> DEFINE S == [n : Nat, press : Presses]
               m == n - first
    <2>1. new_presses(n, seen) \in [1 .. m -> S]
      BY <1>2, <1>3
    <2>2. m \in Nat
      BY <1>4
    <2> HIDE DEF S, m
    <2>3. new_presses(n, seen) \in Seq(S) /\ Len(new_presses(n, seen)) = m
      BY <2>1, <2>2
    <2> QED
      BY <2>3 DEF S, m
  <1> QED
    BY <1>1, <1>2, <1>5 DEF first, line

LEMMA ButtonTypesInit == ButtonInit => ButtonTypes
  <1> SUFFICES ASSUME ButtonInit PROVE ButtonTypes
    OBVIOUS
  <1>1. rec \in RecordType
    BY DEF ButtonInit, Presses, RecordType
  <1>2. fw \in TickType
    BY DEF ButtonInit, idleTick, Buttons, TickType
  <1>3. tool \in ToolType
    BY DEF ButtonInit, detached, ToolType
  <1>4. made \in Seq(Presses) /\ told \in Seq([n : Nat, press : Presses])
    BY DEF ButtonInit
  <1>5. waited \in [Buttons -> Int] /\ ticks \in Nat /\ injects \in Nat /\ last_sample \subseteq Buttons
    BY DEF ButtonInit
  <1>6. fw.pc = "idle"
    BY DEF ButtonInit, idleTick
  <1> QED
    BY <1>1, <1>2, <1>3, <1>4, <1>5, <1>6 DEF ButtonTypes

LEMMA ButtonTypesStep == FeedInv /\ [ButtonNext]_buttonVars => ButtonTypes'
  <1> SUFFICES ASSUME FeedInv, [ButtonNext]_buttonVars PROVE ButtonTypes'
    OBVIOUS
  <1> USE DEF ButtonTypes, RecordType, TickType, ToolType
  <1>0. ButtonTypes /\ ButtonRing \in Nat \ {0} /\ InjectTicks \subseteq Nat
    BY ButtonAssumption DEF FeedInv
  <1>1. ASSUME NEW c \in Contexts, tickStart(c) PROVE ButtonTypes'
    <2>1. fw' \in TickType /\ fw'.pc = "read"
      BY <1>0, <1>1 DEF tickStart, idleTick, Buttons
    <2>2. ticks' \in Nat
      BY <1>0, <1>1 DEF tickStart
    <2> HIDE DEF TickType, RecordType, ToolType
    <2> QED
      BY <1>0, <1>1, <2>1, <2>2 DEF tickStart
  <1>2. ASSUME NEW pin \in BOOLEAN, tickRead(pin) PROVE ButtonTypes'
    <2>1. fw' \in TickType /\ fw'.pc = "count"
      BY <1>0, <1>2 DEF tickRead
    <2> QED
      BY <1>0, <1>2, <2>1 DEF tickRead
  <1>3. CASE tickCount
    <2>1. fw' \in TickType /\ fw'.pc \in {"read", "debounce"}
      BY <1>0, <1>3 DEF tickCount, Buttons
    <2>2. rec' \in RecordType
      <3>1. CASE fw.inj # 0
        <4>1. fw.inj - 1 \in Nat /\ fw.b \in Buttons
          BY <1>0, <3>1
        <4> QED
          BY <1>0, <1>3, <3>1, <4>1 DEF tickCount
      <3>2. CASE fw.inj = 0
        BY <1>0, <1>3, <3>2 DEF tickCount
      <3> QED
        BY <3>1, <3>2
    <2> QED
      BY <1>0, <1>3, <2>1, <2>2 DEF tickCount
  <1>4. CASE debounce
    <2> DEFINE now == debouncedNow(fw.sample)
    <2>1. now \subseteq Buttons
      BY DEF debouncedNow
    <2> HIDE DEF now
    <2>2. fw' \in TickType /\ (fw'.pc \in {"entry", "presses"} => fw'.edges # {})
      <3>1. fw' = IF now \ rec.debounced = {} THEN idleTick
                  ELSE [fw EXCEPT !.pc = "entry", !.edges = now \ rec.debounced]
        BY <1>4 DEF debounce, now
      <3>2. CASE now \ rec.debounced = {}
        BY <3>1, <3>2 DEF idleTick, Buttons
      <3>3. CASE now \ rec.debounced # {}
        BY <1>0, <2>1, <3>1, <3>3
      <3> QED
        BY <3>2, <3>3
    <2>3. rec' \in RecordType
      BY <1>0, <1>4, <2>1 DEF debounce, now
    <2>4. waited' \in [Buttons -> Int] /\ last_sample' \subseteq Buttons
      BY <1>0, <1>4 DEF debounce
    <2> QED
      BY <1>0, <1>4, <2>2, <2>3, <2>4 DEF debounce
  <1>5. CASE storeEntry
    <2> DEFINE press == <<ticks, firstEdge, why(firstEdge, fw.context)>>
    <2>1. press \in Presses
      <3>1. firstEdge \in Buttons
        BY DEF firstEdge, Buttons
      <3>2. why(firstEdge, fw.context) \in {"not running", "accepted", "no takeover", "not normal"}
        BY <3>1 DEF why, Buttons
      <3> QED
        BY <1>0, <3>1, <3>2 DEF Presses
    <2> HIDE DEF press
    <2>2. rec.presses \in Nat /\ slotOf(rec.presses) \in 0 .. ButtonRing - 1
      BY <1>0, SlotInRing DEF slotOf
    <2>3. /\ rec' = [rec EXCEPT !.ring[slotOf(rec.presses)] = press]
          /\ made' = Append(made, press) /\ fw' = [fw EXCEPT !.pc = "presses"]
      BY <1>5 DEF storeEntry, press
    <2>4. rec' \in RecordType
      BY <1>0, <2>1, <2>2, <2>3
    <2>5. made' \in Seq(Presses)
      BY <1>0, <2>1, <2>3
    <2>6. fw' \in TickType /\ fw'.edges # {}
      BY <1>0, <1>5, <2>3 DEF storeEntry
    <2> QED
      BY <1>0, <1>5, <2>4, <2>5, <2>6 DEF storeEntry
  <1>6. CASE storeCount
    <2>1. fw' \in TickType /\ (fw'.pc \in {"entry", "presses"} => fw'.edges # {})
      <3>1. CASE fw.edges = {firstEdge}
        BY <1>6, <3>1 DEF storeCount, idleTick, Buttons
      <3>2. CASE fw.edges # {firstEdge}
        <4>1. fw.edges # {}
          BY <1>0, <1>6 DEF storeCount
        <4>2. fw.edges \ {firstEdge} # {}
          BY <3>2, <4>1
        <4> QED
          BY <1>0, <1>6, <3>2, <4>2 DEF storeCount
      <3> QED
        BY <3>1, <3>2
    <2>2. rec' \in RecordType
      <3>1. rec' = [rec EXCEPT !.presses = rec.presses + 1]
        BY <1>6 DEF storeCount
      <3>2. rec.presses + 1 \in Nat
        BY <1>0
      <3> QED
        BY <1>0, <3>1, <3>2
    <2> QED
      BY <1>0, <1>6, <2>1, <2>2 DEF storeCount
  <1>7. ASSUME NEW mode \in {"bridge", "watch", "inject"}, attach(mode) PROVE ButtonTypes'
    <2>1. tool' \in ToolType
      BY <1>0, <1>7 DEF attach
    <2> QED
      BY <1>0, <1>7, <2>1 DEF attach
  <1>8. ASSUME NEW b \in Buttons, NEW n \in InjectTicks, inject(b, n) PROVE ButtonTypes'
    <2>1. tool' \in ToolType
      BY <1>0, <1>8 DEF inject
    <2>2. rec' \in RecordType
      BY <1>0, <1>8 DEF inject
    <2>3. waited' \in [Buttons -> Int] /\ injects' \in Nat
      <3>1. waited' = waited \/ waited' = [waited EXCEPT ![b] = 0]
        BY <1>8, Zenon DEF inject
      <3>2. waited' \in [Buttons -> Int]
        BY <1>0, <3>1
      <3>3. injects' = injects + 1 /\ injects \in Nat
        BY <1>0, <1>8 DEF inject
      <3>4. injects' \in Nat
        BY <3>3
      <3> QED
        BY <3>2, <3>4
    <2> QED
      BY <1>0, <1>8, <2>1, <2>2, <2>3 DEF inject
  <1>9. CASE readHeader
    <2>1. tool' \in ToolType
      BY <1>0, <1>9 DEF readHeader
    <2> QED
      BY <1>0, <1>9, <2>1 DEF readHeader
  <1>10. CASE readRing
    <2>1. tool.n \in Nat /\ tool.seen \in Nat /\ tool.seen <= tool.n
      BY <1>0, <1>10 DEF readRing, FeedInv, ReaderBehind
    <2>2. new_presses(tool.n, tool.seen) \in Seq([n : Nat, press : Presses])
      BY <1>0, <2>1, NewPresses
    <2>3. told' \in Seq([n : Nat, press : Presses])
      BY <1>0, <1>10, <2>2 DEF readRing
    <2>4. tool' \in ToolType
      BY <1>0, <1>10, <2>1 DEF readRing
    <2> QED
      BY <1>0, <1>10, <2>3, <2>4 DEF readRing
  <1>11. CASE leave
    <2>1. tool' \in ToolType
      BY <1>0, <1>11 DEF leave
    <2> QED
      BY <1>0, <1>11, <2>1 DEF leave
  <1>12. CASE UNCHANGED buttonVars
    BY <1>0, <1>12 DEF buttonVars
  <1> QED
    BY <1>1, <1>2, <1>3, <1>4, <1>5, <1>6, <1>7, <1>8, <1>9, <1>10, <1>11, <1>12 DEF ButtonNext

-----------------------------------------------------------------------------
(* The ring and its reader.                                                *)

LEMMA FeedInit == ButtonInit => FeedInv
  <1> SUFFICES ASSUME ButtonInit PROVE FeedInv
    OBVIOUS
  <1>1. ButtonTypes
    BY ButtonTypesInit
  <1>2. RingHolds
    BY DEF ButtonInit, RingHolds, idleTick
  <1>3. ReaderBehind
    BY DEF ButtonInit, ReaderBehind, detached
  <1> QED
    BY <1>1, <1>2, <1>3 DEF FeedInv

LEMMA RingStep == FeedInv /\ [ButtonNext]_buttonVars => RingHolds'
  <1> SUFFICES ASSUME FeedInv, [ButtonNext]_buttonVars PROVE RingHolds'
    OBVIOUS
  <1>0. /\ ButtonTypes /\ RingHolds /\ ButtonRing \in Nat \ {0}
        /\ rec.presses \in Nat /\ rec.ring \in [0 .. ButtonRing - 1 -> Presses]
        /\ made \in Seq(Presses) /\ Len(made) \in Nat
    BY ButtonAssumption DEF FeedInv, ButtonTypes, RecordType
  <1>1. CASE storeEntry
    <2> DEFINE press == <<ticks, firstEdge, why(firstEdge, fw.context)>>
               n == Len(made)
    <2>1. /\ rec' = [rec EXCEPT !.ring[slotOf(rec.presses)] = press]
          /\ made' = Append(made, press) /\ fw' = [fw EXCEPT !.pc = "presses"] /\ fw.pc = "entry"
      BY <1>1 DEF storeEntry
    <2> HIDE DEF press
    <2>2. n = rec.presses /\ rec'.presses = rec.presses /\ fw'.pc = "presses"
      BY <1>0, <2>1 DEF RingHolds, ButtonTypes, RecordType, TickType
    <2>3. Len(made') = n + 1 /\ made'[n + 1] = press /\ \A i \in 1 .. n : made'[i] = made[i]
      BY <1>0, <2>1
    <2>4. /\ n % ButtonRing \in 0 .. ButtonRing - 1
          /\ rec'.ring = [rec.ring EXCEPT ![n % ButtonRing] = press]
      BY <1>0, <2>1, <2>2, SlotInRing DEF slotOf, ButtonTypes, RecordType
    <2>5. ASSUME NEW i \in 1 .. n + 1, i + ButtonRing > n + 1
          PROVE  rec'.ring[(i - 1) % ButtonRing] = made'[i]
      <3>1. CASE i = n + 1
        <4>1. i - 1 = n
          BY <1>0, <3>1
        <4> QED
          BY <1>0, <2>3, <2>4, <3>1, <4>1
      <3>2. CASE i <= n
        <4>1. i \in 1 .. n /\ i - 1 \in Nat /\ i - 1 < n /\ n - (i - 1) < ButtonRing
              /\ i + ButtonRing > n
          BY <1>0, <2>5, <3>2
        <4>2. (i - 1) % ButtonRing # n % ButtonRing
          BY <1>0, <4>1, SlotsDiffer
        <4>3. (i - 1) % ButtonRing \in 0 .. ButtonRing - 1
          BY <4>1, SlotInRing
        <4>4. rec.ring[(i - 1) % ButtonRing] = made[i]
          BY <1>0, <4>1 DEF RingHolds
        <4> QED
          BY <1>0, <2>3, <2>4, <4>1, <4>2, <4>3, <4>4
      <3> QED
        BY <1>0, <3>1, <3>2
    <2> QED
      BY <1>0, <2>2, <2>3, <2>5 DEF RingHolds
  <1>2. CASE storeCount
    <2>1. /\ fw.pc = "presses" /\ fw'.pc # "presses" /\ made' = made
          /\ rec' = [rec EXCEPT !.presses = rec.presses + 1]
      BY <1>0, <1>2 DEF storeCount, idleTick, ButtonTypes, TickType
    <2>2. rec'.presses = rec.presses + 1 /\ rec'.ring = rec.ring
      BY <1>0, <2>1 DEF ButtonTypes, RecordType
    <2> QED
      BY <1>0, <2>1, <2>2 DEF RingHolds
  <1>3. ASSUME made' = made, rec'.ring = rec.ring, rec'.presses = rec.presses,
               (fw'.pc = "presses") = (fw.pc = "presses")
        PROVE  RingHolds'
    BY <1>0, <1>3 DEF RingHolds
  <1>4. ASSUME NEW c \in Contexts, tickStart(c) PROVE RingHolds'
    BY <1>3, <1>4 DEF tickStart, idleTick
  <1>5. ASSUME NEW pin \in BOOLEAN, tickRead(pin) PROVE RingHolds'
    <2>1. fw.pc = "read" /\ fw'.pc = "count" /\ made' = made /\ rec' = rec
      BY <1>0, <1>5 DEF tickRead, ButtonTypes, TickType
    <2> QED
      BY <1>3, <2>1
  <1>6. CASE tickCount
    <2>1. fw.pc = "count" /\ fw'.pc \in {"read", "debounce"} /\ made' = made
      BY <1>0, <1>6 DEF tickCount, ButtonTypes, TickType
    <2>2. rec'.ring = rec.ring /\ rec'.presses = rec.presses
      BY <1>0, <1>6 DEF tickCount, ButtonTypes, RecordType
    <2> QED
      BY <1>3, <2>1, <2>2
  <1>7. CASE debounce
    <2>1. fw.pc = "debounce" /\ fw'.pc \in {"idle", "entry"} /\ made' = made
      BY <1>0, <1>7 DEF debounce, idleTick, ButtonTypes, TickType
    <2>2. rec'.ring = rec.ring /\ rec'.presses = rec.presses
      BY <1>0, <1>7 DEF debounce, ButtonTypes, RecordType
    <2> QED
      BY <1>3, <2>1, <2>2
  <1>8. ASSUME NEW b \in Buttons, NEW n \in InjectTicks, inject(b, n) PROVE RingHolds'
    <2>1. rec'.ring = rec.ring /\ rec'.presses = rec.presses
      BY <1>0, <1>8 DEF inject, ButtonTypes, RecordType
    <2> QED
      BY <1>3, <1>8, <2>1 DEF inject
  <1>9. ASSUME UNCHANGED <<rec, fw, made>> PROVE RingHolds'
    BY <1>3, <1>9
  <1> QED
    BY <1>1, <1>2, <1>4, <1>5, <1>6, <1>7, <1>8, <1>9
       DEF ButtonNext, attach, readHeader, readRing, leave, buttonVars

LEMMA ReaderStep == FeedInv /\ [ButtonNext]_buttonVars => ReaderBehind'
  <1> SUFFICES ASSUME FeedInv, [ButtonNext]_buttonVars PROVE ReaderBehind'
    OBVIOUS
  <1>0. /\ ButtonTypes /\ ReaderBehind /\ tool \in ToolType /\ rec \in RecordType
        /\ rec.presses \in Nat /\ tool.seen \in Nat /\ tool.n \in Nat
    BY DEF FeedInv, ButtonTypes, RecordType, ToolType
  <1>1. ASSUME tool' = tool, rec'.presses \in Nat, rec'.presses >= rec.presses PROVE ReaderBehind'
    BY <1>0, <1>1 DEF ReaderBehind
  <1>2. ASSUME UNCHANGED <<tool, rec>> PROVE ReaderBehind'
    BY <1>0, <1>2 DEF ReaderBehind
  <1>3. CASE tickCount \/ debounce \/ storeEntry
    <2>1. tool' = tool /\ rec'.presses = rec.presses
      BY <1>0, <1>3 DEF tickCount, debounce, storeEntry, RecordType
    <2> QED
      BY <1>0, <1>1, <2>1
  <1>4. CASE storeCount
    <2>1. tool' = tool /\ rec'.presses = rec.presses + 1
      BY <1>0, <1>4 DEF storeCount, RecordType
    <2> QED
      BY <1>0, <1>1, <2>1
  <1>5. ASSUME NEW mode \in {"bridge", "watch", "inject"}, attach(mode) PROVE ReaderBehind'
    <2>1. tool'.pc \in {"write", "poll"} /\ tool'.seen = rec.presses /\ rec' = rec
      BY <1>5 DEF attach
    <2> QED
      BY <1>0, <2>1 DEF ReaderBehind
  <1>6. ASSUME NEW b \in Buttons, NEW n \in InjectTicks, inject(b, n) PROVE ReaderBehind'
    <2>1. tool'.pc = "poll" /\ tool'.seen = tool.seen /\ rec'.presses = rec.presses
      BY <1>0, <1>6 DEF inject, RecordType, ToolType
    <2> QED
      BY <1>0, <2>1 DEF ReaderBehind
  <1>7. CASE readHeader
    <2>1. tool'.pc = "ring" /\ tool'.seen = tool.seen /\ tool'.n = rec.presses /\ rec' = rec
      BY <1>0, <1>7 DEF readHeader, ToolType
    <2> QED
      BY <1>0, <2>1 DEF ReaderBehind
  <1>8. CASE readRing
    <2>1. tool.pc = "ring" /\ tool'.pc \in {"done", "poll"} /\ tool'.seen = tool.n /\ rec' = rec
      BY <1>0, <1>8 DEF readRing, ToolType
    <2> QED
      BY <1>0, <2>1 DEF ReaderBehind
  <1>9. CASE leave
    <2>1. tool'.pc = "done" /\ tool'.seen = tool.seen /\ rec' = rec
      BY <1>0, <1>9 DEF leave, ToolType
    <2> QED
      BY <1>0, <2>1 DEF ReaderBehind
  <1> QED
    BY <1>2, <1>3, <1>4, <1>5, <1>6, <1>7, <1>8, <1>9 DEF ButtonNext, tickStart, tickRead, buttonVars

-----------------------------------------------------------------------------
(* The refinement.                                                         *)

\* A read of the ring tells the presses from the last one told, or from the
\* oldest the ring can hold, up to the count read before it.
LEMMA ReadTells == FeedInv /\ readRing => Feed!Tell(tool.n)
  <1> SUFFICES ASSUME FeedInv, readRing PROVE Feed!Tell(tool.n)
    OBVIOUS
  <1> DEFINE n == tool.n
             from == IF tool.seen > n - ButtonRing THEN tool.seen ELSE n - ButtonRing
             lines == new_presses(n, tool.seen)
             S == [n : Nat, press : Presses]
  <1>0. /\ ButtonTypes /\ RingHolds /\ ButtonRing \in Nat \ {0}
        /\ n \in Nat /\ tool.seen \in Nat /\ tool.seen <= n /\ n <= rec.presses
        /\ rec.presses \in Nat /\ made \in Seq(Presses) /\ told \in Seq(S) /\ tool \in ToolType
    BY ButtonAssumption DEF FeedInv, ButtonTypes, ReaderBehind, readRing, RecordType, ToolType
  <1>1. /\ from \in Nat /\ from <= n /\ lines \in Seq(S) /\ Len(lines) = n - from
        /\ \A i \in 1 .. n - from :
              lines[i] = [n |-> from + i, press |-> rec.ring[(from + i - 1) % ButtonRing]]
    BY <1>0, NewPresses
  <1>2. /\ told' = told \o lines /\ tool'.seen = n /\ made' = made
        /\ tool.pc = "ring" /\ tool'.pc # "off"
    BY <1>0 DEF readRing, ToolType
  <1> HIDE DEF lines, S
  <1>3. /\ Len(told') = Len(told) + (n - from) /\ told' \in Seq(S)
        /\ SubSeq(told', Len(told) + 1, Len(told')) = lines
        /\ SubSeq(told', 1, Len(told)) = SubSeq(told, 1, Len(told))
        /\ Len(told) \in Nat
    <2>1. Len(told') = Len(told) + Len(lines) /\ told' \in Seq(S) /\ Len(told) \in Nat /\ Len(lines) \in Nat
      BY <1>0, <1>1, <1>2
    <2>2. \A i \in 1 .. Len(told) : told'[i] = told[i]
      BY <1>0, <1>1, <1>2
    <2>3. \A i \in 1 .. Len(lines) : told'[Len(told) + i] = lines[i]
      BY <1>0, <1>1, <1>2
    <2>4. SubSeq(told', Len(told) + 1, Len(told')) = lines
      <3> DEFINE x == SubSeq(told', Len(told) + 1, Len(told'))
      <3>1. x \in Seq(S) /\ Len(x) = Len(lines) /\ \A i \in 1 .. Len(lines) : x[i] = told'[Len(told) + i]
        BY <2>1
      <3> HIDE DEF x
      <3> QED
        BY <1>1, <2>3, <3>1 DEF x
    <2>5. SubSeq(told', 1, Len(told)) = SubSeq(told, 1, Len(told))
      BY <1>0, <2>1, <2>2
    <2> QED
      BY <1>1, <2>1, <2>4, <2>5
  <1>4. ASSUME NEW k \in 1 .. n - from
        PROVE  /\ lines[k].n = from + k
               /\ ~(lines[k].n + ButtonRing <= Len(made)) => lines[k].press = made[lines[k].n]
    <2>1. lines[k].n = from + k /\ lines[k].press = rec.ring[(from + k - 1) % ButtonRing]
      BY <1>1
    <2>2. ASSUME ~(from + k + ButtonRing <= Len(made))
          PROVE  rec.ring[(from + k - 1) % ButtonRing] = made[from + k]
      <3>1. Len(made) \in Nat /\ rec.presses <= Len(made)
        BY <1>0 DEF RingHolds
      <3> HIDE DEF from, n
      <3>2. from + k \in 1 .. Len(made) /\ from + k + ButtonRing > Len(made)
        BY <1>0, <1>1, <2>2, <3>1
      <3>3. \A i \in 1 .. Len(made) :
               i + ButtonRing > Len(made) => rec.ring[(i - 1) % ButtonRing] = made[i]
        BY <1>0 DEF RingHolds
      <3> DEFINE i == from + k
      <3>4. i \in 1 .. Len(made) /\ i + ButtonRing > Len(made)
        BY <3>2
      <3>5. from + k - 1 = i - 1
        BY <1>0, <1>1
      <3> HIDE DEF i
      <3>6. rec.ring[(i - 1) % ButtonRing] = made[i]
        BY <3>3, <3>4, Zenon
      <3> QED
        BY <3>5, <3>6 DEF i
    <2> QED
      BY <2>1, <2>2
  <1>5. (tool.pc # "off") /\ (tool.pc # "off")' = (tool.pc # "off")
    BY <1>2
  <1>6. from + 1 \in Nat /\ n - (from + 1) + 1 = n - from
    <2>1. from \in Nat /\ n \in Nat
      BY <1>0, <1>1
    <2> QED
      BY <2>1
  <1>7. DOMAIN lines = 1 .. n - from
    BY <1>1
  <1>8. \A k \in 1 .. n - from : (from + 1) + k - 1 = from + k
    BY <1>0, <1>1
  <1>9. Feed!IsPrefix(told, told')
    <2>1. n - from \in Nat
      BY <1>0, <1>1
    <2> HIDE DEF n, from
    <2>2. Len(told) <= Len(told')
      BY <1>3, <2>1
    <2> QED
      BY <1>3, <2>2, Zenon DEF Feed!IsPrefix
  <1>10. /\ tool.pc # "off"
         /\ Feed!IsPrefix(told, told') /\ Len(lines) = n - (from + 1) + 1
         /\ \A k \in DOMAIN lines :
               /\ lines[k].n = (from + 1) + k - 1
               /\ ~Feed!Overwritten(lines[k].n) => lines[k].press = made[lines[k].n]
         /\ tool'.seen = n
         /\ UNCHANGED <<made, tool.pc # "off">>
    <2> HIDE DEF n, from
    <2>1. ASSUME NEW k \in DOMAIN lines
          PROVE  /\ lines[k].n = (from + 1) + k - 1
                 /\ ~Feed!Overwritten(lines[k].n) => lines[k].press = made[lines[k].n]
      BY <1>4, <1>7, <1>8 DEF Feed!Overwritten
    <2>2. made' = made /\ (tool.pc # "off")' = (tool.pc # "off")
      BY <1>2, <1>5
    <2> QED
      BY <1>1, <1>2, <1>5, <1>6, <1>9, <2>1, <2>2
  <1> QED
    BY <1>3, <1>10, Zenon DEF Feed!Tell

LEMMA FeedStep == FeedInv /\ [ButtonNext]_buttonVars => [Feed!FeedNext]_(Feed!feedVars)
  <1> SUFFICES ASSUME FeedInv, [ButtonNext]_buttonVars
               PROVE  [Feed!FeedNext]_(Feed!feedVars)
    OBVIOUS
  <1>0. /\ ButtonTypes /\ RingHolds /\ ReaderBehind /\ rec.presses \in Nat /\ Len(made) \in Nat
        /\ made \in Seq(Presses) /\ tool \in ToolType /\ rec \in RecordType
    BY DEF FeedInv, ButtonTypes, RecordType
  <1>1. ASSUME UNCHANGED <<made, told>>, tool'.seen = tool.seen,
               (tool'.pc # "off") = (tool.pc # "off")
        PROVE  UNCHANGED Feed!feedVars
    BY <1>1 DEF Feed!feedVars
  <1>2. ASSUME UNCHANGED <<made, told, tool>> PROVE UNCHANGED Feed!feedVars
    BY <1>2 DEF Feed!feedVars
  <1>3. CASE storeEntry
    <2> DEFINE press == <<ticks, firstEdge, why(firstEdge, fw.context)>>
    <2>1. made' = Append(made, press) /\ UNCHANGED <<told, tool>>
      BY <1>3 DEF storeEntry
    <2> HIDE DEF press
    <2>2. Len(made') = Len(made) + 1 /\ \A i \in 1 .. Len(made) : made'[i] = made[i]
      BY <1>0, <2>1
    <2>3. SubSeq(made, 1, Len(made)) = SubSeq(made', 1, Len(made))
      BY <1>0, <2>1, <2>2
    <2>4. Feed!IsPrefix(made, made')
      BY <1>0, <2>2, <2>3 DEF Feed!IsPrefix
    <2>5. Feed!Make
      BY <2>1, <2>2, <2>4 DEF Feed!Make
    <2> QED
      BY <2>5 DEF Feed!FeedNext
  <1>4. ASSUME NEW mode \in {"bridge", "watch", "inject"}, attach(mode)
        PROVE  Feed!FeedNext
    <2>1. /\ tool.pc = "off" /\ tool'.pc # "off" /\ tool'.seen = rec.presses
          /\ UNCHANGED <<made, told>>
      BY <1>4 DEF attach
    <2>2. rec.presses \in {Len(made), Len(made) - 1}
      BY <1>0 DEF RingHolds
    <2>3. Feed!Join
      BY <1>0, <2>1, <2>2 DEF Feed!Join
    <2> QED
      BY <2>3 DEF Feed!FeedNext
  <1>5. CASE readRing
    <2>1. Feed!Tell(tool.n)
      BY <1>5, ReadTells
    <2>2. rec.presses <= Len(made)
      BY <1>0 DEF RingHolds
    <2>3. tool.n \in tool.seen .. Len(made)
      BY <1>0, <1>5, <2>2 DEF readRing, ReaderBehind, ToolType
    <2> QED
      BY <2>1, <2>3 DEF Feed!FeedNext
  <1>6. ASSUME NEW b \in Buttons, NEW n \in InjectTicks, inject(b, n)
        PROVE  UNCHANGED Feed!feedVars
    <2>1. tool.pc # "off" /\ tool'.pc # "off" /\ tool'.seen = tool.seen
      BY <1>0, <1>6 DEF inject, ToolType
    <2> QED
      BY <1>1, <1>6, <2>1 DEF inject
  <1>7. CASE readHeader \/ leave
    <2>1. tool.pc # "off" /\ tool'.pc # "off" /\ tool'.seen = tool.seen
      BY <1>0, <1>7 DEF readHeader, leave, ToolType
    <2> QED
      BY <1>1, <1>7, <2>1 DEF readHeader, leave
  <1> QED
    BY <1>2, <1>3, <1>4, <1>5, <1>6, <1>7
       DEF ButtonNext, tickStart, tickRead, tickCount, debounce, storeCount, buttonVars

LEMMA FeedStart == ButtonInit => Feed!FeedInit
  BY DEF ButtonInit, detached, Feed!FeedInit

\* The parts above hold in every state of the bench.
THEOREM FeedInvariant == Spec => []FeedInv
  <1>1. Init => FeedInv
    BY FeedInit DEF Init
  <1>2. FeedInv /\ [Next]_vars => FeedInv'
    BY BenchStep, ButtonTypesStep, RingStep, ReaderStep DEF FeedInv
  <1> QED
    BY <1>1, <1>2, PTL DEF Spec

\* The lines of board_buttons.py (bridge, watch, inject) implement PressFeed,
\* for a ring of any size: island_buttons_update stores the count after the
\* entry, and new_presses takes no more than the ring can hold, so every press
\* is told once, in order, under its number.
THEOREM LinesImplementFeed == Spec => LinesAreFeed
  <1>1. Init => Feed!FeedInit
    BY FeedStart DEF Init
  <1>2. FeedInv /\ [Next]_vars => [Feed!FeedNext]_(Feed!feedVars)
    BY BenchStep, FeedStep
  <1> QED
    BY <1>1, <1>2, FeedInvariant, PTL DEF Spec, LinesAreFeed, Feed!FeedSpec

-----------------------------------------------------------------------------
(* Injections.                                                             *)

\* What an injection of b depends on, unchanged.
Same(b) ==
    /\ Unread(b)' = Unread(b) /\ Holds(b)' = Holds(b) /\ Word(b)' = Word(b)
    /\ (b \in fw'.sample) = (b \in fw.sample)
    /\ (b \in last_sample') = (b \in last_sample)
    /\ (b \in rec'.debounced) = (b \in rec.debounced)
    /\ waited'[b] = waited[b]

LEMMA SameKept ==
    ASSUME NEW b \in Buttons, SampledSoon(b), NoOrphan(b), Same(b)
    PROVE  SampledSoon(b)' /\ NoOrphan(b)'
  BY DEF SampledSoon, NoOrphan, Same

\* The tick samples the word of b as it finds it.
LEMMA ReadKept ==
    ASSUME ButtonTypes, NEW b \in Buttons, SampledSoon(b), NoOrphan(b),
           NEW pin \in BOOLEAN, tickRead(pin)
    PROVE  SampledSoon(b)' /\ NoOrphan(b)'
  <1>1. /\ fw \in TickType /\ fw.b \in {1, 2} /\ b \in {1, 2} /\ fw.inj \in Nat
        /\ rec.inject \in [Buttons -> Nat] /\ rec.inject[b] \in Nat /\ rec.inject[fw.b] \in Nat
        /\ waited[b] \in Int
    BY DEF ButtonTypes, TickType, RecordType, Buttons
  <1>2. /\ fw.pc = "read" /\ fw'.pc = "count" /\ fw'.b = fw.b /\ fw'.inj = rec.inject[fw.b]
        /\ fw'.sample = IF pin \/ rec.inject[fw.b] # 0 THEN fw.sample \union {fw.b} ELSE fw.sample
        /\ UNCHANGED <<rec, last_sample, waited>>
    BY <1>1 DEF tickRead, TickType
  <1>3. CASE fw.b # b
    <2>1. Same(b)
      BY <1>1, <1>2, <1>3 DEF Same, Unread, Holds, Word
    <2> QED
      BY <2>1, SameKept
  <1>4. CASE fw.b = b
    <2> DEFINE w == rec.inject[b]
    <2>1. Unread(b) /\ ~Holds(b) /\ Word(b) = w
      BY <1>1, <1>2, <1>4 DEF Unread, Holds, Word
    <2>2. ~Unread(b)' /\ Holds(b)' = (w # 0) /\ Word(b)' = IF w # 0 THEN w - 1 ELSE 0
      BY <1>1, <1>2, <1>4 DEF Unread, Holds, Word
    <2>3. w # 0 => b \in fw'.sample
      BY <1>2, <1>4
    <2> HIDE DEF w
    <2>4. w \in Nat
      BY <1>1 DEF w
    <2>5. NoOrphan(b)'
      <3>1. Holds(b)' => b \in fw'.sample
        BY <2>2, <2>3
      <3>2. b \notin fw'.sample => Word(b)' # 1
        BY <2>2, <2>3
      <3>3. ASSUME waited'[b] < 0, b \notin rec'.debounced, Holds(b)'
            PROVE  Word(b)' # 0 \/ b \in last_sample'
        <4>1. w # 1 \/ b \in last_sample
          BY <1>2, <2>1, <3>3 DEF NoOrphan
        <4>2. w # 0
          BY <2>2, <3>3, Zenon
        <4>3. Word(b)' = w - 1
          BY <2>2, <4>2
        <4>4. last_sample' = last_sample
          BY <1>2
        <4> QED
          BY <2>4, <4>1, <4>3, <4>4
      <3> QED
        BY <2>2, <3>1, <3>2, <3>3 DEF NoOrphan
    <2>6. SampledSoon(b)'
      BY <1>1, <1>2, <2>1, <2>2, <2>3, <2>4 DEF SampledSoon
    <2> QED
      BY <2>5, <2>6
  <1> QED
    BY <1>3, <1>4

\* The word is written back, counted down from what was read.
LEMMA CountKept ==
    ASSUME ButtonTypes, NEW b \in Buttons, SampledSoon(b), NoOrphan(b), tickCount
    PROVE  SampledSoon(b)' /\ NoOrphan(b)'
  <1>1. /\ fw \in TickType /\ fw.b \in {1, 2} /\ b \in {1, 2} /\ fw.inj \in Nat
        /\ rec \in RecordType /\ rec.inject \in [Buttons -> Nat] /\ rec.inject[b] \in Nat
    BY DEF ButtonTypes, TickType, RecordType, Buttons
  <1>2. /\ fw.pc = "count" /\ fw'.sample = fw.sample /\ UNCHANGED <<last_sample, waited>>
        /\ (fw.b = 1 /\ fw'.pc = "read" /\ fw'.b = 2) \/ (fw.b = 2 /\ fw'.pc = "debounce")
    BY <1>1 DEF tickCount, TickType
  <1>3. /\ rec'.debounced = rec.debounced
        /\ rec'.inject[b] = IF fw.inj # 0 /\ fw.b = b THEN fw.inj - 1 ELSE rec.inject[b]
    <2>1. CASE fw.inj # 0
      BY <1>1, <2>1 DEF tickCount, RecordType, Buttons
    <2>2. CASE fw.inj = 0
      BY <2>2 DEF tickCount
    <2> QED
      BY <2>1, <2>2
  <1>4. Unread(b)' = Unread(b)
    BY <1>1, <1>2 DEF Unread
  <1>5. ~Holds(b)' /\ Word(b)' = Word(b)
    BY <1>1, <1>2, <1>3 DEF Holds, Word
  <1>6. SampledSoon(b)'
    BY <1>2, <1>4, <1>5 DEF SampledSoon
  <1>7. NoOrphan(b)'
    <2>1. ~Unread(b)' /\ b \notin fw'.sample => Word(b)' # 1
      BY <1>2, <1>4, <1>5 DEF NoOrphan
    <2>2. waited'[b] < 0 /\ b \notin rec'.debounced /\ Unread(b)'
             => Word(b)' # 1 \/ b \in last_sample'
      BY <1>2, <1>3, <1>4, <1>5 DEF NoOrphan
    <2> QED
      BY <1>5, <2>1, <2>2 DEF NoOrphan
  <1> QED
    BY <1>6, <1>7

\* The tick ends: b comes down, or the tick counts.
LEMMA DebounceKept ==
    ASSUME ButtonTypes, NEW b \in Buttons, SampledSoon(b), NoOrphan(b), debounce
    PROVE  SampledSoon(b)' /\ NoOrphan(b)'
  <1>1. /\ fw \in TickType /\ rec \in RecordType /\ rec.inject[b] \in Nat /\ waited[b] \in Int
        /\ waited \in [Buttons -> Int]
    BY DEF ButtonTypes, RecordType
  <1>2. /\ fw.pc = "debounce" /\ last_sample' = fw.sample /\ fw'.pc \in {"idle", "entry"}
        /\ rec'.inject = rec.inject /\ rec'.debounced = debouncedNow(fw.sample)
        /\ waited'[b] = IF waited[b] < 0 THEN waited[b]
                        ELSE IF b \in debouncedNow(fw.sample) THEN -1 ELSE waited[b] + 1
    BY <1>1 DEF debounce, idleTick, TickType, RecordType
  <1>3. b \in debouncedNow(fw.sample) <=>
           IF (b \in fw.sample) = (b \in last_sample) THEN b \in fw.sample ELSE b \in rec.debounced
    BY DEF debouncedNow
  <1>4. ~Unread(b) /\ ~Holds(b) /\ Word(b) = rec.inject[b]
    BY <1>2 DEF Unread, Holds, Word
  <1>5. Unread(b)' /\ ~Holds(b)' /\ Word(b)' = rec.inject[b]
    BY <1>2 DEF Unread, Holds, Word
  <1>6. SampledSoon(b)'
    BY <1>1, <1>2, <1>3, <1>4, <1>5 DEF SampledSoon
  <1>7. NoOrphan(b)'
    BY <1>1, <1>2, <1>3, <1>4, <1>5 DEF NoOrphan
  <1> QED
    BY <1>6, <1>7

\* The tool writes a word of two ticks or more; a tick that holds the old one
\* loses it.
LEMMA InjectKept ==
    ASSUME ButtonTypes, LongInjections, NEW b \in Buttons, SampledSoon(b), NoOrphan(b),
           NEW c \in Buttons, NEW n \in InjectTicks, inject(c, n)
    PROVE  SampledSoon(b)' /\ NoOrphan(b)'
  <1>1. /\ rec \in RecordType /\ rec.inject \in [Buttons -> Nat] /\ waited \in [Buttons -> Int]
        /\ n \in Nat /\ n >= 2 /\ fw.inj \in Nat
    BY ButtonAssumption DEF ButtonTypes, RecordType, TickType, LongInjections
  <1>2. /\ rec'.debounced = rec.debounced /\ UNCHANGED <<fw, last_sample>>
        /\ rec'.inject[b] = IF b = c THEN n ELSE rec.inject[b]
        /\ rec.inject[b] \in Nat /\ waited[b] \in Int
    BY <1>1 DEF inject, RecordType
  <1>3. waited'[b] = IF b = c /\ b \notin rec.debounced /\ waited[b] < 0 THEN 0 ELSE waited[b]
    BY <1>1 DEF inject
  <1>4. Unread(b)' = Unread(b) /\ Holds(b)' = Holds(b)
    BY <1>2 DEF Unread, Holds
  <1>5. CASE b # c
    <2>1. Same(b)
      BY <1>2, <1>3, <1>4, <1>5 DEF Same, Word
    <2> QED
      BY <2>1, SameKept
  <1>6. CASE b = c
    <2>1. Word(b)' = IF Holds(b) THEN Word(b) ELSE n
      BY <1>2, <1>4, <1>6 DEF Word
    <2>2. Holds(b) => ~Unread(b) /\ b \in fw.sample /\ Word(b) \in Nat
      <3> SUFFICES ASSUME Holds(b) PROVE ~Unread(b) /\ b \in fw.sample /\ Word(b) \in Nat
        OBVIOUS
      <3>1. fw.pc = "count" /\ fw.b = b /\ fw.inj # 0 /\ b \in {1, 2}
        BY DEF Holds, Buttons
      <3>2. ~Unread(b)
        BY <3>1 DEF Unread
      <3>3. Word(b) \in Nat
        BY <1>1, <3>1 DEF Word, Holds
      <3> QED
        BY <3>2, <3>3 DEF NoOrphan
    <2>3. SampledSoon(b)'
      BY <1>1, <1>2, <1>3, <1>4, <1>6, <2>1, <2>2 DEF SampledSoon, NoOrphan
    <2>4. NoOrphan(b)'
      BY <1>1, <1>2, <1>3, <1>4, <1>6, <2>1, <2>2 DEF NoOrphan
    <2> QED
      BY <2>3, <2>4
  <1> QED
    BY <1>5, <1>6

LEMMA InjectStep ==
    ASSUME ButtonTypes, LongInjections, [ButtonNext]_buttonVars,
           NEW b \in Buttons, SampledSoon(b), NoOrphan(b)
    PROVE  SampledSoon(b)' /\ NoOrphan(b)'
  <1>0. b \in {1, 2} /\ fw \in TickType /\ rec \in RecordType
    BY DEF ButtonTypes, Buttons
  <1>1. ASSUME NEW c \in Contexts, tickStart(c) PROVE SampledSoon(b)' /\ NoOrphan(b)'
    <2>1. /\ fw.pc = "idle" /\ fw'.pc = "read" /\ fw'.b = 1
          /\ UNCHANGED <<rec, last_sample, waited>>
      BY <1>1 DEF tickStart, idleTick
    <2>2. Unread(b) /\ Unread(b)' /\ ~Holds(b) /\ ~Holds(b)' /\ Word(b)' = Word(b)
      BY <1>0, <2>1 DEF Unread, Holds, Word
    <2> QED
      BY <2>1, <2>2 DEF SampledSoon, NoOrphan
  <1>2. CASE storeEntry \/ storeCount
    <2>1. /\ fw.pc \in {"entry", "presses"} /\ fw'.pc \in {"idle", "entry", "presses"}
          /\ rec'.inject = rec.inject /\ rec'.debounced = rec.debounced
          /\ UNCHANGED <<last_sample, waited>>
      <3>1. CASE storeEntry
        BY <1>0, <3>1 DEF storeEntry, TickType, RecordType
      <3>2. CASE storeCount
        BY <1>0, <3>2 DEF storeCount, idleTick, TickType, RecordType
      <3> QED
        BY <1>2, <3>1, <3>2
    <2>2. Unread(b) /\ Unread(b)' /\ ~Holds(b) /\ ~Holds(b)' /\ Word(b)' = Word(b)
      BY <2>1 DEF Unread, Holds, Word
    <2> QED
      BY <2>1, <2>2 DEF SampledSoon, NoOrphan
  <1>3. ASSUME UNCHANGED <<rec, last_sample, fw, waited>> PROVE SampledSoon(b)' /\ NoOrphan(b)'
    BY <1>3 DEF SampledSoon, NoOrphan, Unread, Holds, Word
  <1> QED
    BY <1>1, <1>2, <1>3, ReadKept, CountKept, DebounceKept, InjectKept
       DEF ButtonNext, attach, readHeader, readRing, leave, buttonVars

\* An injection that finds its button up is a press by the end of the third
\* tick (island_buttons_update counts the word down from what it read, so a
\* word written in between is lost), when every injection is of two ticks or
\* more; the tool's default is three.
THEOREM InjectionsPress == Spec => [](LongInjections => InjectPresses)
  <1> DEFINE Inv == LongInjections => \A b \in Buttons : SampledSoon(b) /\ NoOrphan(b)
  <1>1. Init => Inv
    BY DEF Init, ButtonInit, idleTick, SampledSoon, NoOrphan, Unread, Holds, Word
  <1>2. Inv /\ FeedInv /\ [Next]_vars => Inv'
    <2> SUFFICES ASSUME Inv, FeedInv, [Next]_vars, LongInjections, NEW b \in Buttons
                 PROVE  SampledSoon(b)' /\ NoOrphan(b)'
      BY DEF LongInjections
    <2> QED
      BY BenchStep, InjectStep DEF FeedInv
  <1>3. Inv /\ FeedInv => (LongInjections => InjectPresses)
    <2> SUFFICES ASSUME Inv, FeedInv, LongInjections, NEW b \in Buttons PROVE waited[b] <= 2
      BY DEF InjectPresses
    <2>1. waited[b] \in Int /\ SampledSoon(b)
      BY DEF FeedInv, ButtonTypes
    <2> QED
      BY <2>1 DEF SampledSoon
  <1> QED
    BY <1>1, <1>2, <1>3, FeedInvariant, PTL DEF Spec

-----------------------------------------------------------------------------
(* The event log: a scan of pieces, and one of lines, a record at a time.  *)

\* A nonempty set of numbers has a least one.
LEMMA LeastNat ==
    ASSUME NEW T, T \subseteq Nat, T # {}
    PROVE  \E t \in T : \A u \in T : t <= u
  <1>1. PICK t \in T : \A u \in T : ~(<<u, t>> \in OpToRel(<, Nat))
    BY WFMin, NatLessThanWellFounded
  <1>2. \A u \in T : ~(u < t)
    BY <1>1 DEF OpToRel
  <1> QED
    BY <1>2

Unsplit == [lines |-> <<>>, rest |-> <<>>]

\* f has the lines of the first i pieces of s at i.
SplitFn(f, n, s) == f = [i \in 0 .. n |-> IF i = 0 THEN Unsplit ELSE Split(f[i - 1], s[i])]

LEMMA SplitExists ==
    ASSUME NEW s, NEW n \in Nat
    PROVE  \E f : SplitFn(f, n, s)
  <1> DEFINE Bad == {m \in Nat : ~ \E f : SplitFn(f, m, s)}
  <1> SUFFICES ASSUME Bad # {} PROVE FALSE
    OBVIOUS
  <1>1. PICK m \in Bad : \A u \in Bad : m <= u
    BY LeastNat
  <1>2. CASE m = 0
    <2>1. SplitFn([i \in 0 .. 0 |-> Unsplit], 0, s)
      BY DEF SplitFn
    <2> QED
      BY <1>1, <1>2, <2>1
  <1>3. CASE m # 0
    <2>1. m - 1 \in Nat /\ m - 1 \notin Bad
      BY <1>1, <1>3
    <2>2. PICK f : SplitFn(f, m - 1, s)
      BY <2>1
    <2>3. PICK g : g = [i \in 0 .. m |-> IF i < m THEN f[i] ELSE Split(f[m - 1], s[m])]
      OBVIOUS
    <2>4. \A i \in 0 .. m - 1 : f[i] = IF i = 0 THEN Unsplit ELSE Split(f[i - 1], s[i])
      BY <2>2 DEF SplitFn
    <2>5. \A i \in 0 .. m - 1 : g[i] = f[i]
      BY <2>1, <2>3
    <2>6. ASSUME NEW i \in 0 .. m
          PROVE  g[i] = IF i = 0 THEN Unsplit ELSE Split(g[i - 1], s[i])
      <3>1. CASE i = m
        BY <3>1, <2>3, <2>5, <1>3, <2>1
      <3>2. CASE i < m
        <4>1. i \in 0 .. m - 1 /\ (i # 0 => i - 1 \in 0 .. m - 1)
          BY <3>2, <2>1
        <4> QED
          BY <4>1, <2>4, <2>5
      <3> QED
        BY <3>1, <3>2, <2>1
    <2>7. SplitFn(g, m, s)
      BY <2>3, <2>6 DEF SplitFn
    <2> QED
      BY <1>1, <2>7
  <1> QED
    BY <1>2, <1>3

\* Two scans agree as far as their pieces do.
Agree(s, t, n) == \A i \in 1 .. n : s[i] = t[i]

LEMMA SplitUnique ==
    ASSUME NEW n \in Nat, NEW s, NEW t, Agree(s, t, n),
           NEW f, NEW g, SplitFn(f, n, s), SplitFn(g, n + 1, t)
    PROVE  f[n] = g[n]
  <1>1. \A i \in 0 .. n : f[i] = IF i = 0 THEN Unsplit ELSE Split(f[i - 1], s[i])
    BY DEF SplitFn
  <1>2. \A i \in 0 .. n : g[i] = IF i = 0 THEN Unsplit ELSE Split(g[i - 1], t[i])
    BY DEF SplitFn
  <1> DEFINE Bad == {i \in 0 .. n : f[i] # g[i]}
  <1> SUFFICES ASSUME Bad # {} PROVE FALSE
    OBVIOUS
  <1>a. Bad \subseteq Nat
    OBVIOUS
  <1>3. PICK i \in Bad : \A u \in Bad : i <= u
    BY <1>a, LeastNat
  <1>4. i # 0
    BY <1>1, <1>2
  <1>5. i - 1 \in 0 .. n /\ i \in 1 .. n /\ i - 1 \notin Bad
    BY <1>3, <1>4
  <1>6. f[i - 1] = g[i - 1] /\ s[i] = t[i]
    BY <1>5 DEF Agree
  <1> QED
    BY <1>1, <1>2, <1>4, <1>5, <1>6

LEMMA SplitScan ==
    ASSUME NEW s, Len(s) \in Nat
    PROVE  \E f : SplitFn(f, Len(s), s) /\ split(s) = f[Len(s)]
  <1>1. PICK c : c = CHOOSE f : SplitFn(f, Len(s), s)
    OBVIOUS
  <1>2. SplitFn(c, Len(s), s)
    BY <1>1, SplitExists
  <1>3. split(s) = c[Len(s)]
    BY <1>1 DEF split, SplitFn, Unsplit
  <1> QED
    BY <1>2, <1>3

LEMMA SplitNil == split(<<>>) = Unsplit
  <1>1. PICK s : s = <<>>
    OBVIOUS
  <1>2. Len(s) = 0
    BY <1>1
  <1>3. PICK f : SplitFn(f, 0, s) /\ split(s) = f[0]
    BY <1>2, SplitScan
  <1> QED
    BY <1>1, <1>3 DEF SplitFn

\* A piece more is one step more.
LEMMA SplitAppend ==
    ASSUME NEW X, NEW s \in Seq(X), NEW x \in X
    PROVE  split(Append(s, x)) = Split(split(s), x)
  <1>1. PICK t : t = Append(s, x)
    OBVIOUS
  <1>2. PICK n : n = Len(s)
    OBVIOUS
  <1>3. n \in Nat /\ Len(t) = n + 1 /\ t[n + 1] = x /\ \A i \in 1 .. n : s[i] = t[i]
    BY <1>1, <1>2
  <1>4. PICK f : SplitFn(f, n, s) /\ split(s) = f[n]
    BY <1>2, <1>3, SplitScan
  <1>5. PICK g : SplitFn(g, n + 1, t) /\ split(t) = g[n + 1]
    BY <1>3, SplitScan
  <1>6. f[n] = g[n]
    <2>1. Agree(s, t, n)
      BY <1>3 DEF Agree
    <2> QED
      BY <1>3, <1>4, <1>5, <2>1, SplitUnique
  <1>7. g[n + 1] = Split(g[n], t[n + 1])
    <2>1. n + 1 \in 0 .. n + 1 /\ n + 1 # 0 /\ (n + 1) - 1 = n
      BY <1>3
    <2> QED
      BY <1>5, <2>1 DEF SplitFn
  <1> QED
    BY <1>1, <1>3, <1>4, <1>5, <1>6, <1>7

\* f has the events of the first i lines of s at i.
LoggedFn(f, n, s) == f = [i \in 0 .. n |-> IF i = 0 THEN <<>> ELSE Log(f[i - 1], s[i])]

LEMMA LoggedExists ==
    ASSUME NEW s, NEW n \in Nat
    PROVE  \E f : LoggedFn(f, n, s)
  <1> DEFINE Bad == {m \in Nat : ~ \E f : LoggedFn(f, m, s)}
  <1> SUFFICES ASSUME Bad # {} PROVE FALSE
    OBVIOUS
  <1>1. PICK m \in Bad : \A u \in Bad : m <= u
    BY LeastNat
  <1>2. CASE m = 0
    <2>1. LoggedFn([i \in 0 .. 0 |-> <<>>], 0, s)
      BY DEF LoggedFn
    <2> QED
      BY <1>1, <1>2, <2>1
  <1>3. CASE m # 0
    <2>1. m - 1 \in Nat /\ m - 1 \notin Bad
      BY <1>1, <1>3
    <2>2. PICK f : LoggedFn(f, m - 1, s)
      BY <2>1
    <2>3. PICK g : g = [i \in 0 .. m |-> IF i < m THEN f[i] ELSE Log(f[m - 1], s[m])]
      OBVIOUS
    <2>4. \A i \in 0 .. m - 1 : f[i] = IF i = 0 THEN <<>> ELSE Log(f[i - 1], s[i])
      BY <2>2 DEF LoggedFn
    <2>5. \A i \in 0 .. m - 1 : g[i] = f[i]
      BY <2>1, <2>3
    <2>6. ASSUME NEW i \in 0 .. m
          PROVE  g[i] = IF i = 0 THEN <<>> ELSE Log(g[i - 1], s[i])
      <3>1. CASE i = m
        BY <3>1, <2>3, <2>5, <1>3, <2>1
      <3>2. CASE i < m
        <4>1. i \in 0 .. m - 1 /\ (i # 0 => i - 1 \in 0 .. m - 1)
          BY <3>2, <2>1
        <4> QED
          BY <4>1, <2>4, <2>5
      <3> QED
        BY <3>1, <3>2, <2>1
    <2>7. LoggedFn(g, m, s)
      BY <2>3, <2>6 DEF LoggedFn
    <2> QED
      BY <1>1, <2>7
  <1> QED
    BY <1>2, <1>3

LEMMA LoggedUnique ==
    ASSUME NEW n \in Nat, NEW s, NEW t, Agree(s, t, n),
           NEW f, NEW g, LoggedFn(f, n, s), LoggedFn(g, n + 1, t)
    PROVE  f[n] = g[n]
  <1>1. \A i \in 0 .. n : f[i] = IF i = 0 THEN <<>> ELSE Log(f[i - 1], s[i])
    BY DEF LoggedFn
  <1>2. \A i \in 0 .. n : g[i] = IF i = 0 THEN <<>> ELSE Log(g[i - 1], t[i])
    BY DEF LoggedFn
  <1> DEFINE Bad == {i \in 0 .. n : f[i] # g[i]}
  <1> SUFFICES ASSUME Bad # {} PROVE FALSE
    OBVIOUS
  <1>a. Bad \subseteq Nat
    OBVIOUS
  <1>3. PICK i \in Bad : \A u \in Bad : i <= u
    BY <1>a, LeastNat
  <1>4. i # 0
    BY <1>1, <1>2
  <1>5. i - 1 \in 0 .. n /\ i \in 1 .. n /\ i - 1 \notin Bad
    BY <1>3, <1>4
  <1>6. f[i - 1] = g[i - 1] /\ s[i] = t[i]
    BY <1>5 DEF Agree
  <1> QED
    BY <1>1, <1>2, <1>4, <1>5, <1>6

LEMMA LoggedScan ==
    ASSUME NEW s, Len(s) \in Nat
    PROVE  \E f : LoggedFn(f, Len(s), s) /\ Logged(s) = f[Len(s)]
  <1>1. PICK c : c = CHOOSE f : LoggedFn(f, Len(s), s)
    OBVIOUS
  <1>2. LoggedFn(c, Len(s), s)
    BY <1>1, LoggedExists
  <1>3. Logged(s) = c[Len(s)]
    BY <1>1 DEF Logged, LoggedFn
  <1> QED
    BY <1>2, <1>3

LEMMA LoggedNil == Logged(<<>>) = <<>>
  <1>1. PICK s : s = <<>>
    OBVIOUS
  <1>2. Len(s) = 0
    BY <1>1
  <1>3. PICK f : LoggedFn(f, 0, s) /\ Logged(s) = f[0]
    BY <1>2, LoggedScan
  <1> QED
    BY <1>1, <1>3 DEF LoggedFn

\* A line more is one step more.
LEMMA LoggedAppend ==
    ASSUME NEW X, NEW s \in Seq(X), NEW x \in X
    PROVE  Logged(Append(s, x)) = Log(Logged(s), x)
  <1>1. PICK t : t = Append(s, x)
    OBVIOUS
  <1>2. PICK n : n = Len(s)
    OBVIOUS
  <1>3. n \in Nat /\ Len(t) = n + 1 /\ t[n + 1] = x /\ \A i \in 1 .. n : s[i] = t[i]
    BY <1>1, <1>2
  <1>4. PICK f : LoggedFn(f, n, s) /\ Logged(s) = f[n]
    BY <1>2, <1>3, LoggedScan
  <1>5. PICK g : LoggedFn(g, n + 1, t) /\ Logged(t) = g[n + 1]
    BY <1>3, LoggedScan
  <1>6. f[n] = g[n]
    <2>1. Agree(s, t, n)
      BY <1>3 DEF Agree
    <2> QED
      BY <1>3, <1>4, <1>5, <2>1, LoggedUnique
  <1>7. g[n + 1] = Log(g[n], t[n + 1])
    <2>1. n + 1 \in 0 .. n + 1 /\ n + 1 # 0 /\ (n + 1) - 1 = n
      BY <1>3
    <2> QED
      BY <1>5, <2>1 DEF LoggedFn
  <1> QED
    BY <1>1, <1>3, <1>4, <1>5, <1>6, <1>7

\* What split gives back: lines and a rest of pieces, and a rest that holds no
\* newline, so that splitting it again gives it back whole.
Rested(X, s) ==
    \E lines, rest :
        /\ split(s) = [lines |-> lines, rest |-> rest]
        /\ lines \in Seq(Seq(X)) /\ rest \in Seq(X)
        /\ split(rest) = [lines |-> <<>>, rest |-> rest]

LEMMA SplitRests ==
    ASSUME NEW X, NEW s \in Seq(X)
    PROVE  Rested(X, s)
  <1>0. Rested(X, <<>>)
    <2>1. split(<<>>) = [lines |-> <<>>, rest |-> <<>>]
      BY SplitNil DEF Unsplit
    <2>2. <<>> \in Seq(Seq(X)) /\ <<>> \in Seq(X)
      OBVIOUS
    <2> QED
      BY <2>1, <2>2 DEF Rested
  <1>1. ASSUME NEW a \in Seq(X), NEW x \in X, Rested(X, a)
        PROVE  Rested(X, Append(a, x))
    <2>1. PICK lines, rest :
             /\ split(a) = [lines |-> lines, rest |-> rest]
             /\ lines \in Seq(Seq(X)) /\ rest \in Seq(X)
             /\ split(rest) = [lines |-> <<>>, rest |-> rest]
      BY <1>1 DEF Rested
    <2>2. split(Append(a, x)) = Split([lines |-> lines, rest |-> rest], x)
      BY <2>1, SplitAppend
    <2>3. CASE Newline(x)
      <3>1. PICK L : L = Append(lines, rest)
        OBVIOUS
      <3>2. L \in Seq(Seq(X)) /\ <<>> \in Seq(X)
        BY <2>1, <3>1
      <3>3. split(Append(a, x)) = [lines |-> L, rest |-> <<>>]
        BY <2>2, <2>3, <3>1 DEF Split
      <3>4. split(<<>>) = [lines |-> <<>>, rest |-> <<>>]
        BY SplitNil DEF Unsplit
      <3> QED
        BY <3>2, <3>3, <3>4 DEF Rested
    <2>4. CASE ~Newline(x)
      <3>1. PICK R : R = Append(rest, x)
        OBVIOUS
      <3>2. R \in Seq(X)
        BY <2>1, <3>1
      <3>3. split(Append(a, x)) = [lines |-> lines, rest |-> R]
        BY <2>2, <2>4, <3>1 DEF Split
      <3>4. split(R) = Split([lines |-> <<>>, rest |-> rest], x)
        BY <2>1, <3>1, SplitAppend
      <3>5. split(R) = [lines |-> <<>>, rest |-> R]
        BY <2>4, <3>1, <3>4 DEF Split
      <3> QED
        BY <2>1, <3>2, <3>3, <3>5 DEF Rested
    <2> QED
      BY <2>3, <2>4
  <1> DEFINE Bad == {m \in 0 .. Len(s) : ~Rested(X, SubSeq(s, 1, m))}
  <1>2. Bad = {}
    <2> SUFFICES ASSUME Bad # {} PROVE FALSE
      OBVIOUS
    <2>1. Bad \subseteq Nat
      OBVIOUS
    <2>2. PICK m \in Bad : \A u \in Bad : m <= u
      BY <2>1, LeastNat
    <2>3. m # 0
      <3>1. SubSeq(s, 1, 0) = <<>>
        OBVIOUS
      <3> QED
        BY <1>0, <2>2, <3>1
    <2>4. m \in 1 .. Len(s) /\ m - 1 \in 0 .. Len(s) /\ m - 1 \notin Bad
      BY <2>2, <2>3
    <2>5. PICK a : a = SubSeq(s, 1, m - 1)
      OBVIOUS
    <2>6. a \in Seq(X) /\ s[m] \in X /\ SubSeq(s, 1, m) = Append(a, s[m])
      BY <2>4, <2>5
    <2>7. Rested(X, a)
      BY <2>4, <2>5
    <2>8. Rested(X, SubSeq(s, 1, m))
      BY <1>1, <2>6, <2>7
    <2> QED
      BY <2>2, <2>8
  <1>3. Len(s) \in 0 .. Len(s) /\ SubSeq(s, 1, Len(s)) = s
    OBVIOUS
  <1> QED
    BY <1>2, <1>3

LEMMA AppendBehind ==
    ASSUME NEW Y, NEW a \in Seq(Y), NEW b \in Seq(Y), NEW y \in Y
    PROVE  a \o Append(b, y) = Append(a \o b, y)
  OBVIOUS

\* The pieces that come next may be split with the rest alone.
Continues(a, b) ==
    split(a \o b) = [lines |-> split(a).lines \o split(split(a).rest \o b).lines,
                     rest |-> split(split(a).rest \o b).rest]

LEMMA SplitContinues ==
    ASSUME NEW X, NEW a \in Seq(X), NEW b \in Seq(X)
    PROVE  Continues(a, b)
  <1>1. PICK lines, rest :
           /\ split(a) = [lines |-> lines, rest |-> rest]
           /\ lines \in Seq(Seq(X)) /\ rest \in Seq(X)
           /\ split(rest) = [lines |-> <<>>, rest |-> rest]
    BY SplitRests DEF Rested
  <1>2. split(a).lines = lines /\ split(a).rest = rest
    BY <1>1
  <1> DEFINE Goes(c) == split(a \o c) = [lines |-> lines \o split(rest \o c).lines,
                                         rest |-> split(rest \o c).rest]
  <1>3. Goes(<<>>)
    <2>1. a \o <<>> = a /\ rest \o <<>> = rest /\ lines \o <<>> = lines
      BY <1>1
    <2>2. split(rest).lines = <<>> /\ split(rest).rest = rest
      BY <1>1
    <2> QED
      BY <1>1, <2>1, <2>2
  <1>4. ASSUME NEW c \in Seq(X), NEW x \in X, Goes(c)
        PROVE  Goes(Append(c, x))
    <2>1. a \o c \in Seq(X) /\ rest \o c \in Seq(X)
      BY <1>1
    <2>2. a \o Append(c, x) = Append(a \o c, x) /\ rest \o Append(c, x) = Append(rest \o c, x)
      <3>1. a \in Seq(X) /\ rest \in Seq(X) /\ c \in Seq(X) /\ x \in X
        BY <1>1, <1>4
      <3>2. a \o Append(c, x) = Append(a \o c, x)
        BY <3>1, AppendBehind
      <3>3. rest \o Append(c, x) = Append(rest \o c, x)
        BY <3>1, AppendBehind
      <3> QED
        BY <3>2, <3>3
    <2>3. PICK L, R : /\ split(rest \o c) = [lines |-> L, rest |-> R]
                      /\ L \in Seq(Seq(X)) /\ R \in Seq(X)
      BY <2>1, SplitRests DEF Rested
    <2>4. split(a \o c) = [lines |-> lines \o L, rest |-> R]
      BY <1>4, <2>3
    <2>5. /\ split(a \o Append(c, x)) = Split([lines |-> lines \o L, rest |-> R], x)
          /\ split(rest \o Append(c, x)) = Split([lines |-> L, rest |-> R], x)
      BY <2>1, <2>2, <2>3, <2>4, SplitAppend
    <2>6. lines \o Append(L, R) = Append(lines \o L, R)
      <3>1. PICK Y : Y = Seq(X)
        OBVIOUS
      <3>2. lines \in Seq(Y) /\ L \in Seq(Y) /\ R \in Y
        BY <1>1, <2>3, <3>1
      <3> QED
        BY <3>2, AppendBehind
    <2>7. CASE Newline(x)
      <3>1. /\ split(a \o Append(c, x)) = [lines |-> Append(lines \o L, R), rest |-> <<>>]
            /\ split(rest \o Append(c, x)) = [lines |-> Append(L, R), rest |-> <<>>]
        BY <2>5, <2>7 DEF Split
      <3>2. /\ split(rest \o Append(c, x)).lines = Append(L, R)
            /\ split(rest \o Append(c, x)).rest = <<>>
        BY <3>1
      <3>3. lines \o split(rest \o Append(c, x)).lines = Append(lines \o L, R)
        BY <2>6, <3>2
      <3> QED
        BY <3>1, <3>2, <3>3
    <2>8. CASE ~Newline(x)
      <3>1. /\ split(a \o Append(c, x)) = [lines |-> lines \o L, rest |-> Append(R, x)]
            /\ split(rest \o Append(c, x)) = [lines |-> L, rest |-> Append(R, x)]
        BY <2>5, <2>8 DEF Split
      <3> QED
        BY <3>1
    <2> QED
      BY <2>7, <2>8
  <1> HIDE DEF Goes
  <1> DEFINE Bad == {m \in 0 .. Len(b) : ~Goes(SubSeq(b, 1, m))}
  <1>5. Bad = {}
    <2> SUFFICES ASSUME Bad # {} PROVE FALSE
      OBVIOUS
    <2>1. Bad \subseteq Nat
      OBVIOUS
    <2>2. PICK m \in Bad : \A u \in Bad : m <= u
      BY <2>1, LeastNat
    <2>3. m # 0
      <3>1. SubSeq(b, 1, 0) = <<>>
        OBVIOUS
      <3> QED
        BY <1>3, <2>2, <3>1
    <2>4. m \in 1 .. Len(b) /\ m - 1 \in 0 .. Len(b) /\ m - 1 \notin Bad
      BY <2>2, <2>3
    <2>5. PICK c : c = SubSeq(b, 1, m - 1)
      OBVIOUS
    <2>6. c \in Seq(X) /\ b[m] \in X /\ SubSeq(b, 1, m) = Append(c, b[m])
      BY <2>4, <2>5
    <2>7. Goes(c)
      BY <2>4, <2>5
    <2>8. Goes(SubSeq(b, 1, m))
      BY <1>4, <2>6, <2>7
    <2> QED
      BY <2>2, <2>8
  <1>6. Len(b) \in 0 .. Len(b) /\ SubSeq(b, 1, Len(b)) = b
    OBVIOUS
  <1>7. Goes(b)
    BY <1>5, <1>6
  <1> QED
    BY <1>2, <1>7 DEF Goes, Continues

\* A text's line.
LineOf(text) == text[1].line

LEMMA LoggedType ==
    ASSUME NEW Y, NEW s \in Seq(Y)
    PROVE  Logged(s) \in Seq({LineOf(y) : y \in Y})
  <1>0. PICK Z : Z = {LineOf(y) : y \in Y}
    OBVIOUS
  <1>1. Logged(<<>>) \in Seq(Z)
    <2>1. PICK e : e = <<>>
      OBVIOUS
    <2>2. e \in Seq(Z)
      BY <2>1
    <2>3. Logged(<<>>) = e
      BY <2>1, LoggedNil, Zenon
    <2> QED
      BY <2>2, <2>3, Zenon
  <1>2. ASSUME NEW a \in Seq(Y), NEW x \in Y, Logged(a) \in Seq(Z)
        PROVE  Logged(Append(a, x)) \in Seq(Z)
    <2>1. Logged(Append(a, x)) = Log(Logged(a), x)
      BY LoggedAppend
    <2>2. LineOf(x) \in Z
      BY <1>0
    <2>3. Append(Logged(a), LineOf(x)) \in Seq(Z)
      BY <1>2, <2>2
    <2> QED
      BY <1>2, <2>1, <2>3 DEF Log, LineOf
  <1> DEFINE Bad == {m \in 0 .. Len(s) : Logged(SubSeq(s, 1, m)) \notin Seq(Z)}
  <1>3. Bad = {}
    <2> SUFFICES ASSUME Bad # {} PROVE FALSE
      OBVIOUS
    <2>1. Bad \subseteq Nat
      OBVIOUS
    <2>2. PICK m \in Bad : \A u \in Bad : m <= u
      BY <2>1, LeastNat
    <2>3. m # 0
      <3>1. SubSeq(s, 1, 0) = <<>>
        OBVIOUS
      <3> QED
        BY <1>1, <2>2, <3>1
    <2>4. m \in 1 .. Len(s) /\ m - 1 \in 0 .. Len(s) /\ m - 1 \notin Bad
      BY <2>2, <2>3
    <2>5. PICK a : a = SubSeq(s, 1, m - 1)
      OBVIOUS
    <2>6. a \in Seq(Y) /\ s[m] \in Y /\ SubSeq(s, 1, m) = Append(a, s[m])
      BY <2>4, <2>5
    <2>7. Logged(a) \in Seq(Z)
      BY <2>4, <2>5
    <2>8. Logged(SubSeq(s, 1, m)) \in Seq(Z)
      BY <1>2, <2>6, <2>7
    <2> QED
      BY <2>2, <2>8
  <1>4. Len(s) \in 0 .. Len(s) /\ SubSeq(s, 1, Len(s)) = s
    OBVIOUS
  <1>5. Logged(s) \in Seq(Z)
    BY <1>3, <1>4
  <1> QED
    BY <1>0, <1>5

\* The lines that come next may be read alone.
LEMMA LoggedContinues ==
    ASSUME NEW Y, NEW a \in Seq(Y), NEW b \in Seq(Y)
    PROVE  Logged(a \o b) = Logged(a) \o Logged(b)
  <1> DEFINE Goes(c) == Logged(a \o c) = Logged(a) \o Logged(c)
  <1>1. PICK Z : \A s \in Seq(Y) : Logged(s) \in Seq(Z)
    BY LoggedType
  <1>2. Goes(<<>>)
    <2>1. a \o <<>> = a /\ Logged(a) \o <<>> = Logged(a)
      BY <1>1
    <2> QED
      BY <2>1, LoggedNil
  <1>3. ASSUME NEW c \in Seq(Y), NEW x \in Y, Goes(c)
        PROVE  Goes(Append(c, x))
    <2>1. a \o c \in Seq(Y) /\ a \o Append(c, x) = Append(a \o c, x)
      OBVIOUS
    <2>2. /\ Logged(a \o Append(c, x)) = Log(Logged(a \o c), x)
          /\ Logged(Append(c, x)) = Log(Logged(c), x)
      BY <2>1, LoggedAppend
    <2>3. PICK A, C : A = Logged(a) /\ C = Logged(c)
      OBVIOUS
    <2>4. A \in Seq(Z) /\ C \in Seq(Z) /\ Logged(a \o c) = A \o C
      BY <1>1, <1>3, <2>3
    <2>5. \A v : A \o Append(C, v) = Append(A \o C, v)
      <3> TAKE v
      <3>1. PICK W : W = Z \union {v}
        OBVIOUS
      <3>2. A \in Seq(W) /\ C \in Seq(W) /\ v \in W
        BY <2>4, <3>1
      <3> QED
        BY <3>2
    <2>6. Log(A \o C, x) = A \o Log(C, x)
      BY <2>5 DEF Log
    <2> QED
      BY <2>2, <2>3, <2>4, <2>6
  <1> HIDE DEF Goes
  <1> DEFINE Bad == {m \in 0 .. Len(b) : ~Goes(SubSeq(b, 1, m))}
  <1>4. Bad = {}
    <2> SUFFICES ASSUME Bad # {} PROVE FALSE
      OBVIOUS
    <2>1. Bad \subseteq Nat
      OBVIOUS
    <2>2. PICK m \in Bad : \A u \in Bad : m <= u
      BY <2>1, LeastNat
    <2>3. m # 0
      <3>1. SubSeq(b, 1, 0) = <<>>
        OBVIOUS
      <3> QED
        BY <1>2, <2>2, <3>1
    <2>4. m \in 1 .. Len(b) /\ m - 1 \in 0 .. Len(b) /\ m - 1 \notin Bad
      BY <2>2, <2>3
    <2>5. PICK c : c = SubSeq(b, 1, m - 1)
      OBVIOUS
    <2>6. c \in Seq(Y) /\ b[m] \in Y /\ SubSeq(b, 1, m) = Append(c, b[m])
      BY <2>4, <2>5
    <2>7. Goes(c)
      BY <2>4, <2>5
    <2>8. Goes(SubSeq(b, 1, m))
      BY <1>3, <2>6, <2>7
    <2> QED
      BY <2>2, <2>8
  <1>5. Len(b) \in 0 .. Len(b) /\ SubSeq(b, 1, Len(b)) = b
    OBVIOUS
  <1>6. Goes(b)
    BY <1>4, <1>5
  <1> QED
    BY <1>6 DEF Goes

-----------------------------------------------------------------------------
(* The live view.                                                          *)

IsSeq(s) == \E X : s \in Seq(X)

\* The probe's line under way is of pieces, and the view has what a split of
\* all it has read gives: the events of the whole lines, and the rest.
ReadSoFar == SubSeq(file, 1, tail.pos)
ViewSound ==
    /\ IsSeq(file)
    /\ \E on, state, outbox, left :
          probe = [up |-> on, state |-> state, outbox |-> outbox, left |-> left] /\ IsSeq(left)
    /\ tail.pos \in 0 .. Len(file)
    /\ tail.buf = split(ReadSoFar).rest
    /\ tail.out = Logged(split(ReadSoFar).lines)

\* What a poll makes of the pieces that are new.
LEMMA PollReads ==
    ASSUME NEW X, NEW a \in Seq(X), NEW b \in Seq(X)
    PROVE  /\ split(a \o b).rest = split(split(a).rest \o b).rest
           /\ Logged(split(a \o b).lines) =
                 Logged(split(a).lines) \o Logged(split(split(a).rest \o b).lines)
  <1>1. PICK lines, rest :
           /\ split(a) = [lines |-> lines, rest |-> rest]
           /\ lines \in Seq(Seq(X)) /\ rest \in Seq(X)
    BY SplitRests DEF Rested
  <1>2. rest \o b \in Seq(X)
    BY <1>1
  <1>3. PICK L, R :
           /\ split(rest \o b) = [lines |-> L, rest |-> R]
           /\ L \in Seq(Seq(X)) /\ R \in Seq(X)
    BY <1>2, SplitRests DEF Rested
  <1>4. split(a).lines = lines /\ split(a).rest = rest
    BY <1>1
  <1>5. split(rest \o b).lines = L /\ split(rest \o b).rest = R
    BY <1>3
  <1>6. split(a \o b) = [lines |-> lines \o L, rest |-> R]
    BY <1>4, <1>5, SplitContinues DEF Continues
  <1>7. split(a \o b).lines = lines \o L /\ split(a \o b).rest = R
    BY <1>6
  <1>8. Logged(lines \o L) = Logged(lines) \o Logged(L)
    BY <1>1, <1>3, LoggedContinues
  <1> QED
    BY <1>4, <1>5, <1>7, <1>8

LEMMA LogBenchStep == [Next]_vars => [LogNext]_logVars
  BY DEF Next, vars, readSupervisor

LEMMA ViewStart == LogInit => ViewSound
  <1> SUFFICES ASSUME LogInit PROVE ViewSound
    OBVIOUS
  <1>1. file = <<>> /\ probe = stopped /\ tail = [pos |-> 0, buf |-> <<>>, out |-> <<>>]
    BY DEF LogInit
  <1>2. tail.pos = 0 /\ tail.buf = <<>> /\ tail.out = <<>>
    BY <1>1
  <1>3. IsSeq(file) /\ IsSeq(<<>>) /\ Len(file) = 0
    BY <1>1 DEF IsSeq
  <1>4. ReadSoFar = <<>>
    <2>1. SubSeq(<<>>, 1, 0) = <<>>
      OBVIOUS
    <2> QED
      BY <1>1, <1>2, <2>1 DEF ReadSoFar
  <1>5. split(ReadSoFar).lines = <<>> /\ split(ReadSoFar).rest = <<>>
    BY <1>4, SplitNil DEF Unsplit
  <1>6. Logged(split(ReadSoFar).lines) = <<>>
    BY <1>5, LoggedNil
  <1>7. probe = [up |-> FALSE, state |-> <<>>, outbox |-> <<>>, left |-> <<>>]
    BY <1>1 DEF stopped
  <1>8. \E on, state, outbox, left :
           probe = [up |-> on, state |-> state, outbox |-> outbox, left |-> left] /\ IsSeq(left)
    BY <1>3, <1>7
  <1>9. tail.pos \in 0 .. Len(file)
    BY <1>2, <1>3
  <1> QED
    BY <1>2, <1>3, <1>5, <1>6, <1>8, <1>9 DEF ViewSound

\* What appends to the file leaves what was read.
LEMMA ViewKept ==
    ASSUME ViewSound, tail' = tail, NEW X, file \in Seq(X), NEW b \in Seq(X), file' = file \o b,
           \E on, state, outbox, left :
              probe' = [up |-> on, state |-> state, outbox |-> outbox, left |-> left] /\ IsSeq(left)
    PROVE  ViewSound'
  <1>1. file' \in Seq(X) /\ Len(file') = Len(file) + Len(b) /\ Len(b) \in Nat
    OBVIOUS
  <1>2. tail.pos \in 0 .. Len(file)
    BY DEF ViewSound
  <1>3. SubSeq(file', 1, tail.pos) = SubSeq(file, 1, tail.pos)
    <2>1. \A p \in 0 .. Len(file) : SubSeq(file \o b, 1, p) = SubSeq(file, 1, p)
      OBVIOUS
    <2> QED
      BY <1>2, <2>1
  <1>4. ReadSoFar' = ReadSoFar
    BY <1>3 DEF ReadSoFar
  <1>5. IsSeq(file)'
    BY <1>1 DEF IsSeq
  <1>6. tail'.pos \in 0 .. Len(file')
    BY <1>1, <1>2
  <1> QED
    BY <1>4, <1>5, <1>6 DEF ViewSound

\* A sequence is what is before a place and what is after it.
LEMMA Joins ==
    ASSUME NEW X, NEW s \in Seq(X), NEW a \in Seq(X), NEW b \in Seq(X),
           Len(s) = Len(a) + Len(b),
           \A i \in 1 .. Len(a) : a[i] = s[i],
           \A i \in 1 .. Len(b) : b[i] = s[Len(a) + i]
    PROVE  s = a \o b
  <1>1. PICK c : c = a \o b
    OBVIOUS
  <1>2. c \in Seq(X) /\ Len(c) = Len(s)
    BY <1>1
  <1>3. ASSUME NEW i \in 1 .. Len(s) PROVE c[i] = s[i]
    <2>1. CASE i <= Len(a)
      <3>1. i \in 1 .. Len(a) /\ c[i] = a[i]
        BY <1>1, <2>1
      <3> QED
        BY <3>1
    <2>2. CASE i > Len(a)
      <3>1. i - Len(a) \in 1 .. Len(b) /\ Len(a) + (i - Len(a)) = i
        BY <2>2
      <3>2. c[i] = b[i - Len(a)]
        BY <1>1, <2>2
      <3> QED
        BY <3>1, <3>2
    <2> QED
      BY <2>1, <2>2
  <1>4. c = s
    BY <1>2, <1>3
  <1> QED
    BY <1>1, <1>4

LEMMA Cut ==
    ASSUME NEW X, NEW s \in Seq(X), NEW p \in Nat, p < Len(s)
    PROVE  /\ SubSeq(s, 1, p) \in Seq(X) /\ SubSeq(s, p + 1, Len(s)) \in Seq(X)
           /\ s = SubSeq(s, 1, p) \o SubSeq(s, p + 1, Len(s))
  <1>1. PICK a : a = SubSeq(s, 1, p)
    OBVIOUS
  <1>2. PICK b : b = SubSeq(s, p + 1, Len(s))
    OBVIOUS
  <1>3. a \in Seq(X) /\ Len(a) = p /\ \A i \in 1 .. p : a[i] = s[i]
    BY <1>1
  <1>4. b \in Seq(X) /\ Len(b) = Len(s) - p /\ \A i \in 1 .. Len(s) - p : b[i] = s[p + i]
    BY <1>2
  <1>5. s = a \o b
    <2>1. /\ Len(s) = Len(a) + Len(b)
          /\ \A i \in 1 .. Len(a) : a[i] = s[i]
          /\ \A i \in 1 .. Len(b) : b[i] = s[Len(a) + i]
      BY <1>3, <1>4
    <2> QED
      BY <1>3, <1>4, <2>1, Joins
  <1> QED
    BY <1>1, <1>2, <1>3, <1>4, <1>5

LEMMA ViewStep == ViewSound /\ [LogNext]_logVars => ViewSound'
  <1> SUFFICES ASSUME ViewSound, [LogNext]_logVars PROVE ViewSound'
    OBVIOUS
  <1>1. PICK X : file \in Seq(X)
    BY DEF ViewSound, IsSeq
  <1>2. PICK on, state, outbox, left :
           probe = [up |-> on, state |-> state, outbox |-> outbox, left |-> left] /\ IsSeq(left)
    BY DEF ViewSound
  <1>3. IsSeq(<<>>)
    BY DEF IsSeq
  <1>4. file \o <<>> = file /\ <<>> \in Seq(X)
    BY <1>1
  <1>5. CASE UNCHANGED logVars
    <2>1. UNCHANGED <<file, probe, tail>>
      BY <1>5 DEF logVars
    <2> QED
      BY <1>1, <1>2, <1>4, <2>1, ViewKept
  <1>6. CASE start \/ stop \/ die \/ \E t \in Topics, v \in Values : on_message(t, v)
    <2>1. UNCHANGED <<file, tail>>
      BY <1>6 DEF start, stop, die, on_message
    <2>2. stopped = [up |-> FALSE, state |-> <<>>, outbox |-> <<>>, left |-> <<>>]
      BY DEF stopped
    <2>3. \E u, st, o, l : probe' = [up |-> u, state |-> st, outbox |-> o, left |-> l] /\ IsSeq(l)
      <3>1. CASE start
        <4>1. probe' = [up |-> TRUE, state |-> <<>>, outbox |-> firstLines, left |-> <<>>]
          BY <2>2, <3>1 DEF start
        <4> QED
          BY <1>3, <4>1
      <3>2. CASE stop \/ die
        <4>1. probe' = [up |-> FALSE, state |-> <<>>, outbox |-> <<>>, left |-> <<>>]
          BY <2>2, <3>2 DEF stop, die
        <4> QED
          BY <1>3, <4>1
      <3>3. CASE \E t \in Topics, v \in Values : on_message(t, v)
        <4>1. PICK st, o : probe' = [probe EXCEPT !.state = st, !.outbox = o]
          BY <3>3 DEF on_message
        <4>2. probe' = [up |-> on, state |-> st, outbox |-> o, left |-> left]
          BY <1>2, <4>1
        <4> QED
          BY <1>2, <4>2
      <3> QED
        BY <1>6, <3>1, <3>2, <3>3
    <2> QED
      BY <1>1, <1>4, <2>1, <2>3, ViewKept
  <1>7. ASSUME NEW n \in 1 .. 3, write(n) PROVE ViewSound'
    <2>1. PICK now : now = IF probe.left # <<>> THEN probe.left ELSE Pieces(Head(probe.outbox))
      OBVIOUS
    <2>2. IsSeq(now)
      <3>1. CASE probe.left # <<>>
        BY <1>2, <2>1, <3>1
      <3>2. CASE probe.left = <<>>
        <4>1. PICK line : line = Head(probe.outbox)
          OBVIOUS
        <4>2. now = Pieces(line)
          BY <2>1, <3>2, <4>1
        <4>3. PICK a, b, c : now = <<a, b, c>>
          BY <4>2 DEF Pieces
        <4>4. now \in Seq({a, b, c})
          BY <4>3
        <4> QED
          BY <4>4 DEF IsSeq
      <3> QED
        BY <3>1, <3>2
    <2>3. PICK Y : now \in Seq(Y)
      BY <2>2 DEF IsSeq
    <2>4. PICK Z : Z = X \union Y
      OBVIOUS
    <2>5. /\ file' = file \o SubSeq(now, 1, n) /\ tail' = tail /\ n \in 1 .. Len(now)
          /\ \E o : probe' = [probe EXCEPT !.left = SubSeq(now, n + 1, Len(now)), !.outbox = o]
      BY <1>7, <2>1 DEF write
    <2>6. file \in Seq(Z) /\ now \in Seq(Z)
      BY <1>1, <2>3, <2>4
    <2>7. SubSeq(now, 1, n) \in Seq(Z) /\ SubSeq(now, n + 1, Len(now)) \in Seq(Z)
      BY <2>5, <2>6
    <2>8. PICK l : l = SubSeq(now, n + 1, Len(now))
      OBVIOUS
    <2>9. IsSeq(l)
      BY <2>7, <2>8 DEF IsSeq
    <2>10. PICK o : probe' = [probe EXCEPT !.left = l, !.outbox = o]
      BY <2>5, <2>8
    <2>11. probe' = [up |-> on, state |-> state, outbox |-> o, left |-> l]
      BY <1>2, <2>10
    <2>12. PICK b : b = SubSeq(now, 1, n)
      OBVIOUS
    <2>13. file' = file \o b /\ b \in Seq(Z) /\ tail' = tail
      BY <2>5, <2>7, <2>12
    <2> QED
      BY <2>6, <2>9, <2>11, <2>13, ViewKept
  <1>8. CASE poll
    <2>1. tail.pos \in 0 .. Len(file) /\ Len(file) \in Nat /\ tail.pos < Len(file)
      BY <1>1, <1>8 DEF ViewSound, poll
    <2>2. PICK a : a = SubSeq(file, 1, tail.pos)
      OBVIOUS
    <2>3. PICK b : b = SubSeq(file, tail.pos + 1, Len(file))
      OBVIOUS
    <2>4. a \in Seq(X) /\ b \in Seq(X) /\ file = a \o b
      <3>1. tail.pos \in Nat
        BY <2>1
      <3> QED
        BY <1>1, <2>1, <2>2, <2>3, <3>1, Cut
    <2>5. tail.buf = split(a).rest /\ tail.out = Logged(split(a).lines)
      BY <2>2 DEF ViewSound, ReadSoFar
    <2>6. /\ UNCHANGED <<file, probe>>
          /\ tail' = [pos |-> Len(file), buf |-> split(tail.buf \o b).rest,
                      out |-> tail.out \o Logged(split(tail.buf \o b).lines)]
      BY <1>8, <2>3 DEF poll, keptBuf
    <2>7. /\ tail'.pos = Len(file) /\ tail'.buf = split(split(a).rest \o b).rest
          /\ tail'.out = Logged(split(a).lines) \o Logged(split(split(a).rest \o b).lines)
      BY <2>5, <2>6
    <2>8. tail'.buf = split(file).rest /\ tail'.out = Logged(split(file).lines)
      BY <2>4, <2>7, PollReads
    <2>9. ReadSoFar' = file
      <3>1. SubSeq(file, 1, Len(file)) = file
        BY <1>1
      <3> QED
        BY <2>6, <2>7, <3>1 DEF ReadSoFar
    <2>10. IsSeq(file)' /\ tail'.pos \in 0 .. Len(file')
      <3>1. Len(file) \in 0 .. Len(file) /\ file' = file
        BY <2>1, <2>6
      <3> QED
        BY <1>1, <2>7, <3>1 DEF IsSeq
    <2> QED
      BY <1>2, <2>6, <2>8, <2>9, <2>10 DEF ViewSound
  <1> QED
    BY <1>5, <1>6, <1>7, <1>8 DEF LogNext

\* However the probe's writes and the view's polls fall, and wherever the
\* probe is killed and started again, the live view has what one read of the
\* file up to where it is gives, each event once and in order, but for a last
\* line that has no newline yet (tlcommon.py: Tail.poll, read_events).
THEOREM TailFollowsFile == Spec => []TailTrue
  <1>1. ViewSound => TailTrue
    <2> SUFFICES ASSUME ViewSound PROVE TailTrue
      OBVIOUS
    <2>1. PICK X : file \in Seq(X)
      BY DEF ViewSound, IsSeq
    <2>2. PICK s : s = ReadSoFar
      OBVIOUS
    <2>3. s \in Seq(X)
      <3>1. \A p \in 0 .. Len(file) : SubSeq(file, 1, p) \in Seq(X)
        BY <2>1
      <3> QED
        BY <2>2, <3>1 DEF ViewSound, ReadSoFar
    <2>4. PICK lines, rest :
             /\ split(s) = [lines |-> lines, rest |-> rest]
             /\ lines \in Seq(Seq(X)) /\ rest \in Seq(X)
      BY <2>3, SplitRests DEF Rested
    <2>5. split(s).lines = lines /\ split(s).rest = rest
      BY <2>4
    <2>6. PICK out : out = Logged(lines)
      OBVIOUS
    <2>7. tail.buf = rest /\ tail.out = out
      BY <2>2, <2>5, <2>6 DEF ViewSound
    <2>8. PICK batch : batch = read_events(s)
      OBVIOUS
    <2>9. batch = Log(out, rest)
      <3>1. batch = Logged(Append(lines, rest))
        BY <2>5, <2>8 DEF read_events
      <3> QED
        BY <2>4, <2>6, <3>1, LoggedAppend
    <2>10. PICK Z : out \in Seq(Z)
      BY <2>4, <2>6, LoggedType
    <2>11. CASE loads(rest)
      <3>1. PICK v : v = rest[1].line
        OBVIOUS
      <3>2. batch = Append(out, v)
        BY <2>9, <2>11, <3>1 DEF Log
      <3>3. PICK W : W = Z \union {v}
        OBVIOUS
      <3>4. out \in Seq(W) /\ v \in W
        BY <2>10, <3>3
      <3>5. Len(batch) = Len(out) + 1 /\ SubSeq(batch, 1, Len(out)) = SubSeq(out, 1, Len(out))
        BY <3>2, <3>4
      <3>6. IsPrefix(out, batch) /\ Len(batch) <= Len(out) + 1
        BY <2>10, <3>5 DEF IsPrefix
      <3>7. rest # <<>>
        BY <2>11 DEF loads
      <3> QED
        BY <2>2, <2>7, <2>8, <3>6, <3>7 DEF TailTrue, ReadSoFar
    <2>12. CASE ~loads(rest)
      <3>1. batch = out
        BY <2>9, <2>12 DEF Log
      <3>2. IsPrefix(out, batch) /\ Len(batch) <= Len(out) + 1
        BY <2>10, <3>1 DEF IsPrefix
      <3> QED
        BY <2>2, <2>7, <2>8, <3>1, <3>2 DEF TailTrue, ReadSoFar
    <2> QED
      BY <2>11, <2>12
  <1>2. Init => ViewSound
    BY ViewStart DEF Init
  <1> QED
    BY <1>1, <1>2, LogBenchStep, ViewStep, PTL DEF Spec
-----------------------------------------------------------------------------
(* What the probe knows and what the file shows of it.                     *)

LEMMA OfOneSet ==
    ASSUME NEW a, NEW b, IsSeq(a), IsSeq(b)
    PROVE  \E X : a \in Seq(X) /\ b \in Seq(X)
  <1>1. PICK Y, Z : a \in Seq(Y) /\ b \in Seq(Z)
    BY DEF IsSeq
  <1>2. PICK W : W = Y \union Z
    OBVIOUS
  <1>3. a \in Seq(W) /\ b \in Seq(W)
    BY <1>1, <1>2
  <1> QED
    BY <1>3

LEMMA AppendIsSeq ==
    ASSUME NEW a, NEW x, IsSeq(a)
    PROVE  IsSeq(Append(a, x))
  <1>1. PICK Y : a \in Seq(Y)
    BY DEF IsSeq
  <1>2. PICK W : W = Y \union {x}
    OBVIOUS
  <1>3. a \in Seq(W) /\ x \in W
    BY <1>1, <1>2
  <1> QED
    BY <1>3 DEF IsSeq

LEMMA JoinIsSeq ==
    ASSUME NEW a, NEW b, IsSeq(a), IsSeq(b)
    PROVE  IsSeq(a \o b)
  <1>1. PICK X : a \in Seq(X) /\ b \in Seq(X)
    BY OfOneSet
  <1>2. a \o b \in Seq(X)
    BY <1>1
  <1> QED
    BY <1>2 DEF IsSeq

LEMMA AppendsBehind ==
    ASSUME NEW a, NEW b, NEW x, IsSeq(a), IsSeq(b)
    PROVE  a \o Append(b, x) = Append(a \o b, x)
  <1>1. PICK Y : a \in Seq(Y) /\ b \in Seq(Y)
    BY OfOneSet
  <1>2. PICK W : W = Y \union {x}
    OBVIOUS
  <1>3. a \in Seq(W) /\ b \in Seq(W) /\ x \in W
    BY <1>1, <1>2
  <1> QED
    BY <1>3, AppendBehind

\* The last event of the key has the value.
LastIs(events, key, value) ==
    \E i \in DOMAIN events :
        events[i] = <<key, value>> /\ \A j \in DOMAIN events : j > i => events[j][1] # key

\* The events end with what is known, and the state has no more than that.
Known(state, events, known) ==
    /\ \A key \in DOMAIN known : LastIs(events, key, known[key])
    /\ \A key \in DOMAIN state : key \in DOMAIN known /\ state[key] = known[key]

LEMMA LastAppended ==
    ASSUME NEW events, IsSeq(events), NEW key, NEW value
    PROVE  /\ LastIs(Append(events, <<key, value>>), key, value)
           /\ \A k, v : k # key /\ LastIs(events, k, v) =>
                 LastIs(Append(events, <<key, value>>), k, v)
  <1>1. PICK X : events \in Seq(X)
    BY DEF IsSeq
  <1>2. PICK e : e = <<key, value>>
    OBVIOUS
  <1>3. e[1] = key
    BY <1>2
  <1>4. PICK more : more = Append(events, e)
    OBVIOUS
  <1>5. PICK n : n = Len(events)
    OBVIOUS
  <1>6. /\ n \in Nat /\ DOMAIN events = 1 .. n /\ DOMAIN more = 1 .. n + 1
        /\ more[n + 1] = e /\ \A i \in 1 .. n : more[i] = events[i]
    BY <1>1, <1>4, <1>5
  <1>7. LastIs(more, key, value)
    <2>1. n + 1 \in DOMAIN more /\ more[n + 1] = <<key, value>>
      BY <1>2, <1>6
    <2>2. \A j \in DOMAIN more : ~(j > n + 1)
      BY <1>6
    <2> QED
      BY <2>1, <2>2 DEF LastIs
  <1>8. ASSUME NEW k, NEW v, k # key, LastIs(events, k, v)
        PROVE  LastIs(more, k, v)
    <2>1. PICK i \in DOMAIN events :
             events[i] = <<k, v>> /\ \A j \in DOMAIN events : j > i => events[j][1] # k
      BY <1>8 DEF LastIs
    <2>2. i \in 1 .. n /\ i \in DOMAIN more /\ more[i] = <<k, v>>
      BY <1>6, <2>1
    <2>3. ASSUME NEW j \in DOMAIN more, j > i PROVE more[j][1] # k
      <3>1. CASE j = n + 1
        BY <1>3, <1>6, <1>8, <3>1
      <3>2. CASE j # n + 1
        <4>1. j \in 1 .. n
          BY <1>6, <3>2
        <4> QED
          BY <1>6, <2>1, <2>3, <4>1
      <3> QED
        BY <3>1, <3>2
    <2> QED
      BY <2>2, <2>3 DEF LastIs
  <1> QED
    BY <1>2, <1>4, <1>7, <1>8

\* What is known, with one value more.
Learns(known, more, key, v) ==
    /\ DOMAIN more = DOMAIN known \union {key} /\ more[key] = v
    /\ \A k \in DOMAIN known : k # key => more[k] = known[k]

\* A line of the value that was evaluated is written; none is where the state
\* has the value.
LEMMA LineKnown ==
    ASSUME NEW events, IsSeq(events), NEW state, NEW known, NEW more, NEW key, NEW v,
           Known(state, events, known), Learns(known, more, key, v)
    PROVE  /\ Known(With(state, key, v), Append(events, <<key, v>>), more)
           /\ key \notin DOMAIN state => Known(state, Append(events, <<key, v>>), more)
           /\ ~Differs(state, key, v) => Known(state, events, more)
  <1>1. PICK E : E = Append(events, <<key, v>>)
    OBVIOUS
  <1>2. LastIs(E, key, v) /\ \A k, w : k # key /\ LastIs(events, k, w) => LastIs(E, k, w)
    BY <1>1, LastAppended
  <1>3. \A k \in DOMAIN more : LastIs(E, k, more[k])
    <2> TAKE k \in DOMAIN more
    <2>1. CASE k = key
      BY <1>2, <2>1 DEF Learns
    <2>2. CASE k # key
      <3>1. k \in DOMAIN known /\ more[k] = known[k]
        BY <2>2 DEF Learns
      <3>2. LastIs(events, k, known[k])
        BY <3>1 DEF Known
      <3> QED
        BY <1>2, <2>2, <3>1, <3>2
    <2> QED
      BY <2>1, <2>2
  <1>4. \A k \in DOMAIN state : k \in DOMAIN more /\ (k # key => state[k] = more[k])
    BY DEF Known, Learns
  <1>5. Known(With(state, key, v), E, more)
    <2>1. PICK s : s = With(state, key, v)
      OBVIOUS
    <2>2. DOMAIN s = DOMAIN state \union {key}
      BY <2>1 DEF With
    <2>3. \A k \in DOMAIN s : s[k] = IF k = key THEN v ELSE state[k]
      BY <2>1 DEF With
    <2>4. key \in DOMAIN more /\ more[key] = v
      BY DEF Learns
    <2>5. ASSUME NEW k \in DOMAIN s PROVE k \in DOMAIN more /\ s[k] = more[k]
      BY <1>4, <2>2, <2>3, <2>4
    <2> QED
      BY <1>3, <2>1, <2>5 DEF Known
  <1>6. ASSUME key \notin DOMAIN state PROVE Known(state, E, more)
    BY <1>3, <1>4, <1>6 DEF Known
  <1>7. ASSUME ~Differs(state, key, v) PROVE Known(state, events, more)
    <2>1. key \in DOMAIN state /\ state[key] = v
      BY <1>7 DEF Differs
    <2>2. key \in DOMAIN known /\ known[key] = v
      BY <2>1 DEF Known
    <2>3. DOMAIN more = DOMAIN known /\ \A k \in DOMAIN known : more[k] = known[k]
      BY <2>2 DEF Learns
    <2> QED
      BY <2>3 DEF Known
  <1> QED
    BY <1>1, <1>5, <1>6, <1>7

-----------------------------------------------------------------------------
(* The edges of a topic's predicates.                                      *)

KeyOf(p) == <<p.kind, p.name>>
\* What a value makes of the predicate of the key.
Truth(key, v) == v \in Contract[key[1]][key[2]].when
\* What is known, with the predicates of the keys evaluated.
After(known, keys, v) ==
    [k \in DOMAIN known \union keys |-> IF k \in keys THEN Truth(k, v) ELSE known[k]]

\* No sampled topic has a lane in the state.
Unsampled(state) == \A t \in Sampled : <<"lane", t>> \notin DOMAIN state

\* So far: s has the state, and the lines behind the events, of what is known.
SoFar(s, events, known) ==
    \E state, lines :
        /\ s = [state |-> state, lines |-> lines]
        /\ IsSeq(lines) /\ Unsampled(state) /\ Known(state, events \o lines, known)

LEMMA DeclaredKinds ==
    ASSUME NEW p \in declared, NEW v
    PROVE  /\ p.kind \in {"functions", "hazards"}
           /\ evaluate(p, v) = Truth(KeyOf(p), v)
  <1>1. PICK k \in {"functions", "hazards"} : \E n \in DOMAIN Contract[k] :
           \E t \in Contract[k][n].of :
              p = [name |-> n, kind |-> k, topic |-> t, when |-> Contract[k][n].when]
    BY DEF declared
  <1>2. PICK n \in DOMAIN Contract[k] : \E t \in Contract[k][n].of :
           p = [name |-> n, kind |-> k, topic |-> t, when |-> Contract[k][n].when]
    BY <1>1
  <1>3. p.kind = k /\ p.name = n /\ p.when = Contract[k][n].when
    BY <1>2
  <1>4. PICK key : key = <<k, n>>
    OBVIOUS
  <1>5. key[1] = k /\ key[2] = n
    BY <1>4
  <1> QED
    BY <1>3, <1>4, <1>5 DEF evaluate, Truth, KeyOf

LEMMA EdgeKnown ==
    ASSUME NEW p \in declared, NEW v, NEW s, NEW events, IsSeq(events), NEW known, NEW keys,
           SoFar(s, events, After(known, keys, v))
    PROVE  SoFar(Edge(s, p, v), events, After(known, keys \union {KeyOf(p)}, v))
  <1>1. PICK state, lines :
           /\ s = [state |-> state, lines |-> lines]
           /\ IsSeq(lines) /\ Unsampled(state)
           /\ Known(state, events \o lines, After(known, keys, v))
    BY DEF SoFar
  <1>2. PICK key : key = KeyOf(p)
    OBVIOUS
  <1>3. PICK holds : holds = evaluate(p, v)
    OBVIOUS
  <1>4. holds = Truth(key, v)
    BY <1>2, <1>3, DeclaredKinds
  <1>5. PICK old : old = After(known, keys, v)
    OBVIOUS
  <1>6. PICK more : more = After(known, keys \union {key}, v)
    OBVIOUS
  <1>7. Learns(old, more, key, holds)
    <2>1. DOMAIN old = DOMAIN known \union keys
      BY <1>5 DEF After
    <2>2. DOMAIN more = DOMAIN known \union (keys \union {key})
      BY <1>6 DEF After
    <2>3. \A k \in DOMAIN old : old[k] = IF k \in keys THEN Truth(k, v) ELSE known[k]
      BY <1>5 DEF After
    <2>4. \A k \in DOMAIN more :
             more[k] = IF k \in keys \union {key} THEN Truth(k, v) ELSE known[k]
      BY <1>6 DEF After
    <2>5. DOMAIN more = DOMAIN old \union {key}
      BY <2>1, <2>2
    <2>6. more[key] = holds
      BY <1>4, <2>4, <2>5
    <2>7. \A k \in DOMAIN old : k # key => more[k] = old[k]
      BY <2>3, <2>4, <2>5
    <2> QED
      BY <2>5, <2>6, <2>7 DEF Learns
  <1>8. PICK E : E = events \o lines
    OBVIOUS
  <1>9. IsSeq(E)
    BY <1>1, <1>8, JoinIsSeq
  <1>10. Known(state, E, old)
    BY <1>1, <1>5, <1>8
  <1>11. /\ Known(With(state, key, holds), Append(E, <<key, holds>>), more)
         /\ ~Differs(state, key, holds) => Known(state, E, more)
    BY <1>7, <1>9, <1>10, LineKnown
  <1>12. s.state = state /\ s.lines = lines
    BY <1>1
  <1>13. CASE Differs(state, key, holds)
    <2>1. PICK st : st = With(state, key, holds)
      OBVIOUS
    <2>2. PICK ln : ln = Append(lines, <<key, holds>>)
      OBVIOUS
    <2>3. Edge(s, p, v) = [state |-> st, lines |-> ln]
      BY <1>2, <1>3, <1>12, <1>13, <2>1, <2>2 DEF Edge, Line, KeyOf
    <2>4. IsSeq(ln)
      BY <1>1, <2>2, AppendIsSeq
    <2>5. events \o ln = Append(E, <<key, holds>>)
      BY <1>1, <1>8, <2>2, AppendsBehind
    <2>6. Unsampled(st)
      <3>1. DOMAIN st = DOMAIN state \union {key}
        BY <2>1 DEF With
      <3>2. p.kind # "lane"
        BY DeclaredKinds
      <3>3. \A t : <<"lane", t>> # key
        BY <1>2, <3>2 DEF KeyOf
      <3> QED
        BY <1>1, <3>1, <3>3 DEF Unsampled
    <2>7. Known(st, events \o ln, more)
      BY <1>11, <2>1, <2>5
    <2> QED
      BY <1>2, <1>6, <2>3, <2>4, <2>6, <2>7 DEF SoFar
  <1>14. CASE ~Differs(state, key, holds)
    <2>1. Edge(s, p, v) = s
      BY <1>2, <1>3, <1>12, <1>14 DEF Edge, KeyOf
    <2>2. Known(state, events \o lines, more)
      BY <1>8, <1>11, <1>14
    <2> QED
      BY <1>1, <1>2, <1>6, <2>1, <2>2 DEF SoFar
  <1> QED
    BY <1>13, <1>14

\* f has the edges of the first i predicates at i.
PredFn(f, n, preds, v, state) ==
    f = [i \in 0 .. n |-> IF i = 0 THEN [state |-> state, lines |-> <<>>]
                          ELSE Edge(f[i - 1], preds[i], v)]

LEMMA PredExists ==
    ASSUME NEW preds, NEW v, NEW state, NEW n \in Nat
    PROVE  \E f : PredFn(f, n, preds, v, state)
  <1> DEFINE Bad == {m \in Nat : ~ \E f : PredFn(f, m, preds, v, state)}
  <1> SUFFICES ASSUME Bad # {} PROVE FALSE
    OBVIOUS
  <1>0. PICK none : none = [state |-> state, lines |-> <<>>]
    OBVIOUS
  <1>1. PICK m \in Bad : \A u \in Bad : m <= u
    BY LeastNat
  <1>2. CASE m = 0
    <2>1. PredFn([i \in 0 .. 0 |-> none], 0, preds, v, state)
      BY <1>0 DEF PredFn
    <2> QED
      BY <1>1, <1>2, <2>1
  <1>3. CASE m # 0
    <2>1. m - 1 \in Nat /\ m - 1 \notin Bad
      BY <1>1, <1>3
    <2>2. PICK f : PredFn(f, m - 1, preds, v, state)
      BY <2>1
    <2>3. PICK g : g = [i \in 0 .. m |-> IF i < m THEN f[i] ELSE Edge(f[m - 1], preds[m], v)]
      OBVIOUS
    <2>4. \A i \in 0 .. m - 1 : f[i] = IF i = 0 THEN none ELSE Edge(f[i - 1], preds[i], v)
      BY <1>0, <2>2 DEF PredFn
    <2>5. \A i \in 0 .. m - 1 : g[i] = f[i]
      BY <2>1, <2>3
    <2>6. ASSUME NEW i \in 0 .. m
          PROVE  g[i] = IF i = 0 THEN none ELSE Edge(g[i - 1], preds[i], v)
      <3>1. CASE i = m
        BY <3>1, <2>3, <2>5, <1>3, <2>1
      <3>2. CASE i < m
        <4>1. i \in 0 .. m - 1 /\ (i # 0 => i - 1 \in 0 .. m - 1)
          BY <3>2, <2>1
        <4> QED
          BY <4>1, <2>4, <2>5
      <3> QED
        BY <3>1, <3>2, <2>1
    <2>7. PredFn(g, m, preds, v, state)
      BY <1>0, <2>3, <2>6 DEF PredFn
    <2> QED
      BY <1>1, <2>7
  <1> QED
    BY <1>2, <1>3

LEMMA PredScan ==
    ASSUME NEW preds, NEW v, Len(preds) \in Nat
    PROVE  \E f : PredFn(f, Len(preds), preds, v, probe.state) /\ PredEdges(preds, v) = f[Len(preds)]
  <1>1. PICK c : c = CHOOSE f : PredFn(f, Len(preds), preds, v, probe.state)
    OBVIOUS
  <1>2. PredFn(c, Len(preds), preds, v, probe.state)
    <2>1. PICK state : state = probe.state
      OBVIOUS
    <2>2. \E f : PredFn(f, Len(preds), preds, v, state)
      BY PredExists
    <2> QED
      BY <1>1, <2>1, <2>2
  <1>3. PredEdges(preds, v) = c[Len(preds)]
    BY <1>1 DEF PredEdges, PredFn
  <1> QED
    BY <1>2, <1>3

\* The keys of the first i predicates.
KeysTo(preds, i) == {KeyOf(preds[j]) : j \in 1 .. i}

\* After the predicates of a message, all that they evaluated is known.
LEMMA PredsKnown ==
    ASSUME NEW preds \in Seq(declared), NEW v, NEW events, IsSeq(events), NEW known,
           Unsampled(probe.state), Known(probe.state, events, known)
    PROVE  SoFar(PredEdges(preds, v), events, After(known, KeysTo(preds, Len(preds)), v))
  <1>1. PICK n : n = Len(preds)
    OBVIOUS
  <1>2. n \in Nat /\ \A i \in 1 .. n : preds[i] \in declared
    BY <1>1
  <1>3. PICK state : state = probe.state
    OBVIOUS
  <1>4. PICK f : PredFn(f, n, preds, v, state) /\ PredEdges(preds, v) = f[n]
    BY <1>1, <1>2, <1>3, PredScan
  <1>5. PICK none : none = [state |-> state, lines |-> <<>>]
    OBVIOUS
  <1>6. \A i \in 0 .. n : f[i] = IF i = 0 THEN none ELSE Edge(f[i - 1], preds[i], v)
    BY <1>4, <1>5 DEF PredFn
  <1> DEFINE Goes(i) == SoFar(f[i], events, After(known, KeysTo(preds, i), v))
  <1>7. Goes(0)
    <2>1. f[0] = [state |-> state, lines |-> <<>>]
      BY <1>2, <1>5, <1>6
    <2>2. IsSeq(<<>>) /\ events \o <<>> = events
      BY DEF IsSeq
    <2>3. PICK after : after = After(known, KeysTo(preds, 0), v)
      OBVIOUS
    <2>4. KeysTo(preds, 0) = {}
      BY DEF KeysTo
    <2>5. DOMAIN after = DOMAIN known /\ \A k \in DOMAIN known : after[k] = known[k]
      BY <2>3, <2>4 DEF After
    <2>6. Known(state, events, after)
      BY <1>3, <2>5 DEF Known
    <2>7. Unsampled(state)
      BY <1>3
    <2> QED
      BY <2>1, <2>2, <2>3, <2>6, <2>7 DEF SoFar
  <1>8. ASSUME NEW i \in 1 .. n, Goes(i - 1)
        PROVE  Goes(i)
    <2>1. PICK p : p = preds[i]
      OBVIOUS
    <2>2. p \in declared /\ i \in 0 .. n /\ i # 0
      BY <1>2, <2>1
    <2>3. f[i] = Edge(f[i - 1], p, v)
      BY <1>6, <2>1, <2>2
    <2>4. SoFar(Edge(f[i - 1], p, v), events, After(known, KeysTo(preds, i - 1) \union {KeyOf(p)}, v))
      BY <1>8, <2>2, EdgeKnown
    <2>5. KeysTo(preds, i) = KeysTo(preds, i - 1) \union {KeyOf(p)}
      <3>1. 1 .. i = (1 .. i - 1) \union {i}
        BY <1>2
      <3> QED
        BY <2>1, <3>1, Zenon DEF KeysTo
    <2> QED
      BY <2>3, <2>4, <2>5
  <1> HIDE DEF Goes
  <1> DEFINE Bad == {m \in 0 .. n : ~Goes(m)}
  <1>9. Bad = {}
    <2> SUFFICES ASSUME Bad # {} PROVE FALSE
      OBVIOUS
    <2>1. Bad \subseteq Nat
      OBVIOUS
    <2>2. PICK m \in Bad : \A u \in Bad : m <= u
      BY <2>1, LeastNat
    <2>3. m # 0
      BY <1>7, <2>2
    <2>4. m \in 1 .. n /\ m - 1 \in 0 .. n /\ m - 1 \notin Bad
      BY <1>2, <2>2, <2>3
    <2>5. Goes(m - 1)
      BY <2>4
    <2> QED
      BY <1>8, <2>2, <2>4, <2>5
  <1>10. Goes(n)
    BY <1>2, <1>9
  <1> QED
    BY <1>1, <1>4, <1>10 DEF Goes

\* The predicates of a topic are a sequence.
LEMMA TopicPreds ==
    ASSUME NEW topic \in Topics
    PROVE  by_topic[topic] \in Seq(declared)
  <1>1. PICK S : S = {p \in declared : p.topic = topic}
    OBVIOUS
  <1>2. IsFiniteSet(S) /\ S \subseteq declared
    BY <1>1, DeclaredAssumption, FS_Subset
  <1>3. PICK n : n = Cardinality(S)
    OBVIOUS
  <1>4. n \in Nat /\ ExistsBijection(1 .. n, S)
    BY <1>2, <1>3, FS_CardinalityType
  <1>5. \E f \in [1 .. n -> S] : IsInjective(f)
    <2>1. PICK g : g \in Bijection(1 .. n, S)
      BY <1>4 DEF ExistsBijection
    <2>2. g \in Injection(1 .. n, S)
      BY <2>1 DEF Bijection
    <2> QED
      BY <2>2 DEF Injection
  <1>6. SetToSeq(S) \in [1 .. n -> S]
    <2>1. SetToSeq(S) = CHOOSE f \in [1 .. n -> S] : IsInjective(f)
      BY <1>3 DEF SetToSeq
    <2> QED
      BY <1>5, <2>1
  <1>7. by_topic[topic] = SetToSeq(S)
    BY <1>1 DEF by_topic
  <1> QED
    BY <1>2, <1>4, <1>6, <1>7

\* What the topic's message evaluates: its predicates and its lane.
LaneKey(topic) == <<"lane", topic>>
PredSeen(preds, v) == {<<KeyOf(p), evaluate(p, v)>> : p \in ToSet(preds)}
LaneSeen(topic, v) == IF topic \in Lanes \union Sampled THEN {<<LaneKey(topic), v>>} ELSE {}
Seen(preds, topic, v) == PredSeen(preds, v) \union LaneSeen(topic, v)
SeenKeys(preds, topic, v) == {x[1] : x \in Seen(preds, topic, v)}
SeenValue(preds, topic, v, key) == (CHOOSE x \in Seen(preds, topic, v) : x[1] = key)[2]

LEMMA PredsSeen ==
    ASSUME NEW preds \in Seq(declared), NEW v
    PROVE  /\ \A x \in PredSeen(preds, v) :
                 x[2] = Truth(x[1], v) /\ x[1] \in KeysTo(preds, Len(preds)) /\ x[1][1] # "lane"
           /\ \A key \in KeysTo(preds, Len(preds)) :
                 key[1] # "lane" /\ \E x \in PredSeen(preds, v) : x[1] = key
  <1>1. PICK n : n = Len(preds)
    OBVIOUS
  <1>2. DOMAIN preds = 1 .. n /\ \A i \in 1 .. n : preds[i] \in declared
    BY <1>1
  <1>3. ASSUME NEW i \in 1 .. n
        PROVE  /\ KeyOf(preds[i])[1] # "lane"
               /\ evaluate(preds[i], v) = Truth(KeyOf(preds[i]), v)
    <2>1. PICK p : p = preds[i]
      OBVIOUS
    <2>2. p \in declared
      BY <1>2, <2>1
    <2>3. p.kind # "lane" /\ evaluate(p, v) = Truth(KeyOf(p), v)
      BY <2>2, DeclaredKinds
    <2>4. KeyOf(p)[1] = p.kind
      BY DEF KeyOf
    <2> QED
      BY <2>1, <2>3, <2>4
  <1>4. ASSUME NEW x \in PredSeen(preds, v)
        PROVE  x[2] = Truth(x[1], v) /\ x[1] \in KeysTo(preds, n) /\ x[1][1] # "lane"
    <2>1. PICK i \in 1 .. n : x = <<KeyOf(preds[i]), evaluate(preds[i], v)>>
      BY <1>2 DEF PredSeen, ToSet
    <2>2. PICK key : key = KeyOf(preds[i])
      OBVIOUS
    <2>3. x[1] = key /\ x[2] = evaluate(preds[i], v)
      BY <2>1, <2>2
    <2>4. key \in KeysTo(preds, n)
      BY <2>2 DEF KeysTo
    <2> QED
      BY <1>3, <2>2, <2>3, <2>4
  <1>5. ASSUME NEW key \in KeysTo(preds, n)
        PROVE  key[1] # "lane" /\ \E x \in PredSeen(preds, v) : x[1] = key
    <2>1. PICK i \in 1 .. n : key = KeyOf(preds[i])
      BY DEF KeysTo
    <2>2. PICK x : x = <<key, evaluate(preds[i], v)>>
      OBVIOUS
    <2>3. x \in PredSeen(preds, v)
      BY <1>2, <2>1, <2>2 DEF PredSeen, ToSet
    <2>4. x[1] = key
      BY <2>2
    <2> QED
      BY <1>3, <2>1, <2>3, <2>4
  <1> QED
    BY <1>1, <1>4, <1>5

LEMMA AllSeen ==
    ASSUME NEW preds \in Seq(declared), NEW topic, NEW v
    PROVE  /\ SeenKeys(preds, topic, v) =
                 KeysTo(preds, Len(preds))
                    \union (IF topic \in Lanes \union Sampled THEN {LaneKey(topic)} ELSE {})
           /\ \A key \in KeysTo(preds, Len(preds)) : SeenValue(preds, topic, v, key) = Truth(key, v)
           /\ topic \in Lanes \union Sampled => SeenValue(preds, topic, v, LaneKey(topic)) = v
  <1>1. PICK K : K = KeysTo(preds, Len(preds))
    OBVIOUS
  <1>2. /\ \A x \in PredSeen(preds, v) : x[2] = Truth(x[1], v) /\ x[1] \in K /\ x[1][1] # "lane"
        /\ \A key \in K : key[1] # "lane" /\ \E x \in PredSeen(preds, v) : x[1] = key
    BY <1>1, PredsSeen
  <1>3. PICK lane : lane = LaneKey(topic)
    OBVIOUS
  <1>4. lane[1] = "lane"
    BY <1>3 DEF LaneKey
  <1>5. /\ topic \in Lanes \union Sampled => LaneSeen(topic, v) = {<<lane, v>>}
        /\ topic \notin Lanes \union Sampled => LaneSeen(topic, v) = {}
    BY <1>3 DEF LaneSeen
  <1>6. \A x \in LaneSeen(topic, v) : x[1] = lane /\ x[2] = v
    BY <1>5
  <1>7. SeenKeys(preds, topic, v) =
           K \union (IF topic \in Lanes \union Sampled THEN {lane} ELSE {})
    <2>1. SeenKeys(preds, topic, v) =
             {x[1] : x \in PredSeen(preds, v)} \union {x[1] : x \in LaneSeen(topic, v)}
      BY Zenon DEF SeenKeys, Seen
    <2>2. {x[1] : x \in PredSeen(preds, v)} = K
      BY <1>2
    <2>3. {x[1] : x \in LaneSeen(topic, v)} =
             (IF topic \in Lanes \union Sampled THEN {lane} ELSE {})
      BY <1>5, <1>6
    <2> QED
      BY <2>1, <2>2, <2>3
  <1>8. ASSUME NEW key, NEW x, x \in Seen(preds, topic, v), x[1] = key
        PROVE  \E y \in Seen(preds, topic, v) :
                  y[1] = key /\ SeenValue(preds, topic, v, key) = y[2]
    <2>1. PICK y : y = CHOOSE z \in Seen(preds, topic, v) : z[1] = key
      OBVIOUS
    <2>2. y \in Seen(preds, topic, v) /\ y[1] = key
      BY <1>8, <2>1
    <2> QED
      BY <2>1, <2>2 DEF SeenValue
  <1>9. ASSUME NEW key \in K
        PROVE  SeenValue(preds, topic, v, key) = Truth(key, v)
    <2>1. PICK x \in PredSeen(preds, v) : x[1] = key
      BY <1>2
    <2>2. PICK y \in Seen(preds, topic, v) :
             y[1] = key /\ SeenValue(preds, topic, v, key) = y[2]
      BY <1>8, <2>1 DEF Seen
    <2>3. y \in PredSeen(preds, v)
      BY <1>2, <1>4, <1>6, <2>2 DEF Seen
    <2> QED
      BY <1>2, <2>2, <2>3
  <1>10. ASSUME topic \in Lanes \union Sampled
         PROVE  SeenValue(preds, topic, v, lane) = v
    <2>1. PICK x \in LaneSeen(topic, v) : x[1] = lane
      BY <1>5, <1>6, <1>10
    <2>2. PICK y \in Seen(preds, topic, v) :
             y[1] = lane /\ SeenValue(preds, topic, v, lane) = y[2]
      BY <1>8, <2>1 DEF Seen
    <2>3. y \in LaneSeen(topic, v)
      BY <1>2, <1>4, <2>2 DEF Seen
    <2> QED
      BY <1>6, <2>2, <2>3
  <1> QED
    BY <1>1, <1>3, <1>7, <1>9, <1>10

\* After a message, the lines to be written and all it evaluated.
LEMMA MessageKnown ==
    ASSUME NEW topic \in Topics, NEW v \in Values, on_message(topic, v),
           NEW events, IsSeq(events), Unsampled(probe.state),
           Known(probe.state, events, latest)
    PROVE  \E state, lines :
              /\ probe' = [probe EXCEPT !.state = state, !.outbox = lines]
              /\ IsSeq(lines) /\ Unsampled(state) /\ Known(state, events \o lines, latest')
  <1>1. PICK preds : preds = by_topic[topic]
    OBVIOUS
  <1>2. preds \in Seq(declared)
    BY <1>1, TopicPreds
  <1>3. PICK K : K = KeysTo(preds, Len(preds))
    OBVIOUS
  <1>4. PICK lane : lane = LaneKey(topic)
    OBVIOUS
  <1>5. PICK known, after : known = latest /\ after = After(known, K, v)
    OBVIOUS
  <1>6. SoFar(PredEdges(preds, v), events, after)
    <2>1. Known(probe.state, events, known)
      BY <1>5
    <2> QED
      BY <1>2, <1>3, <1>5, <2>1, PredsKnown
  <1>7. PICK state, lines :
           /\ PredEdges(preds, v) = [state |-> state, lines |-> lines]
           /\ IsSeq(lines) /\ Unsampled(state) /\ Known(state, events \o lines, after)
    BY <1>6 DEF SoFar
  <1>8. PICK s : s = [state |-> state, lines |-> lines]
    OBVIOUS
  <1>9. s.state = state /\ s.lines = lines
    BY <1>8
  <1>10. PICK all : all = LaneEdge(s, topic, v)
    OBVIOUS
  <1>11. probe' = [probe EXCEPT !.state = all.state, !.outbox = all.lines]
    BY <1>1, <1>7, <1>8, <1>10 DEF on_message
  <1>12. PICK new : new = latest'
    OBVIOUS
  <1>13. new = [key \in SeenKeys(preds, topic, v) \union DOMAIN known |->
                   IF key \in SeenKeys(preds, topic, v) THEN SeenValue(preds, topic, v, key)
                   ELSE known[key]]
    BY <1>1, <1>5, <1>12
       DEF on_message, SeenKeys, SeenValue, Seen, PredSeen, LaneSeen, LaneKey, KeyOf
  <1>14. PICK keys : keys = SeenKeys(preds, topic, v)
    OBVIOUS
  <1>15. /\ keys = K \union (IF topic \in Lanes \union Sampled THEN {lane} ELSE {})
         /\ \A key \in K : SeenValue(preds, topic, v, key) = Truth(key, v)
         /\ topic \in Lanes \union Sampled => SeenValue(preds, topic, v, lane) = v
    BY <1>2, <1>3, <1>4, <1>14, AllSeen
  <1>16. /\ DOMAIN new = keys \union DOMAIN known
         /\ \A key \in keys \union DOMAIN known :
               new[key] = IF key \in keys THEN SeenValue(preds, topic, v, key) ELSE known[key]
    BY <1>13, <1>14
  <1>17. /\ DOMAIN after = DOMAIN known \union K
         /\ \A key \in DOMAIN known \union K :
               after[key] = IF key \in K THEN Truth(key, v) ELSE known[key]
    BY <1>5 DEF After
  <1>18. PICK E : E = events \o lines
    OBVIOUS
  <1>19. IsSeq(E) /\ Known(state, E, after)
    BY <1>7, <1>18, JoinIsSeq
  <1>20. CASE topic \notin Lanes \union Sampled
    <2>1. all = s
      BY <1>10, <1>20 DEF LaneEdge
    <2>2. keys = K
      BY <1>15, <1>20
    <2>3. DOMAIN new = DOMAIN after /\ \A key \in DOMAIN after : new[key] = after[key]
      BY <1>15, <1>16, <1>17, <2>2
    <2>4. Known(state, E, new)
      BY <1>19, <2>3 DEF Known
    <2> QED
      BY <1>7, <1>9, <1>11, <1>12, <1>18, <2>1, <2>4
  <1>21. CASE topic \in Lanes \union Sampled
    <2>1. keys = K \union {lane} /\ SeenValue(preds, topic, v, lane) = v
      BY <1>15, <1>21
    <2>2. Learns(after, new, lane, v)
      <3>1. DOMAIN new = DOMAIN after \union {lane}
        BY <1>16, <1>17, <2>1
      <3>2. new[lane] = v
        BY <1>16, <2>1
      <3>3. ASSUME NEW k \in DOMAIN after, k # lane PROVE new[k] = after[k]
        BY <1>15, <1>16, <1>17, <2>1, <3>3
      <3> QED
        BY <3>1, <3>2, <3>3 DEF Learns
    <2>3. PICK E1 : E1 = Append(E, <<lane, v>>)
      OBVIOUS
    <2>4. /\ Known(With(state, lane, v), E1, new)
          /\ lane \notin DOMAIN state => Known(state, E1, new)
          /\ ~Differs(state, lane, v) => Known(state, E, new)
      BY <1>19, <2>2, <2>3, LineKnown
    <2>5. PICK more : more = Append(lines, <<lane, v>>)
      OBVIOUS
    <2>6. IsSeq(more) /\ events \o more = E1
      <3>1. IsSeq(more)
        BY <1>7, <2>5, AppendIsSeq
      <3>2. events \o more = E1
        BY <1>7, <1>18, <2>3, <2>5, AppendsBehind
      <3> QED
        BY <3>1, <3>2
    <2>7. CASE topic \in Sampled
      <3>1. all = [s EXCEPT !.lines = more]
        BY <1>4, <1>9, <1>10, <2>5, <2>7 DEF LaneEdge, LaneKey, Line
      <3>2. all.state = state /\ all.lines = more
        BY <1>8, <3>1
      <3>3. lane \notin DOMAIN state
        BY <1>4, <1>7, <2>7 DEF Unsampled, LaneKey
      <3> QED
        BY <1>7, <1>11, <1>12, <2>4, <2>6, <3>2, <3>3
    <2>8. CASE topic \notin Sampled /\ Differs(state, lane, v)
      <3>1. PICK st : st = With(state, lane, v)
        OBVIOUS
      <3>2. all = [state |-> st, lines |-> more]
        BY <1>4, <1>9, <1>10, <1>21, <2>5, <2>8, <3>1 DEF LaneEdge, LaneKey, Line
      <3>3. all.state = st /\ all.lines = more
        BY <3>2
      <3>4. Unsampled(st)
        <4>1. DOMAIN st = DOMAIN state \union {lane}
          BY <3>1 DEF With
        <4>2. \A t \in Sampled : <<"lane", t>> # lane
          BY <1>4, <2>8 DEF LaneKey
        <4> QED
          BY <1>7, <4>1, <4>2 DEF Unsampled
      <3> QED
        BY <1>11, <1>12, <2>4, <2>6, <3>1, <3>3, <3>4
    <2>9. CASE topic \notin Sampled /\ ~Differs(state, lane, v)
      <3>1. all = s
        BY <1>4, <1>10, <2>9, <1>9 DEF LaneEdge, LaneKey
      <3> QED
        BY <1>7, <1>9, <1>11, <1>12, <1>18, <2>4, <2>9, <3>1
    <2> QED
      BY <2>7, <2>8, <2>9
  <1> QED
    BY <1>20, <1>21

-----------------------------------------------------------------------------
(* The lines on their way to the file.                                     *)

Piece(line, k) == [line |-> line, part |-> k]

\* Of the line that is being written, what the file has and what is left of
\* it; the line and the ones after it are still to come.
Underway(rest, left, outbox, pending) ==
    \/ left = <<>> /\ rest = <<>> /\ pending = outbox
    \/ \E line :
          /\ pending = <<line>> \o outbox
          /\ \/ left = <<Piece(line, 1), Piece(line, 2), Piece(line, 3)>> /\ rest = <<>>
             \/ left = <<Piece(line, 2), Piece(line, 3)>> /\ rest = <<Piece(line, 1)>>
             \/ left = <<Piece(line, 3)>> /\ rest = <<Piece(line, 1), Piece(line, 2)>>

\* A probe whose configuration is written: the file's events and the lines to
\* come end with what it knows.
Runs(f, outbox, left, state, known) ==
    \E lines, rest, pending :
        /\ split(f) = [lines |-> lines, rest |-> rest] /\ IsSeq(pending)
        /\ Underway(rest, left, outbox, pending)
        /\ Known(state, Logged(lines) \o pending, known)

\* A probe that writes its configuration, behind what an earlier one left of a
\* line: it knows nothing yet.
Configures(outbox, left, state, known) ==
    /\ DOMAIN state = {} /\ DOMAIN known = {}
    /\ \/ outbox = <<config>> /\ left = <<>>
       \/ outbox = <<>> /\ left \in {<<Piece(config, 1), Piece(config, 2), Piece(config, 3)>>,
                                    <<Piece(config, 2), Piece(config, 3)>>, <<Piece(config, 3)>>}

Going(f, outbox, left, state, known) ==
    /\ IsSeq(f) /\ IsSeq(outbox)
    /\ Configures(outbox, left, state, known) \/ Runs(f, outbox, left, state, known)

LEMMA TwoOfThree ==
    ASSUME NEW a, NEW b, NEW c, NEW t, NEW u, t = <<a, b, c>>, u = <<a, b>>
    PROVE  SubSeq(t, 1, 2) = u
  <1>1. PICK X : X = {a, b, c}
    OBVIOUS
  <1>2. t \in Seq(X) /\ u \in Seq(X) /\ Len(t) = 3 /\ Len(u) = 2
    BY <1>1
  <1>3. PICK w : w = SubSeq(t, 1, 2)
    OBVIOUS
  <1>4. w \in Seq(X) /\ Len(w) = 2 /\ w[1] = t[1] /\ w[2] = t[2]
    BY <1>2, <1>3
  <1>5. w[1] = u[1] /\ w[2] = u[2]
    BY <1>4
  <1>6. w = u
    BY <1>2, <1>4, <1>5
  <1> QED
    BY <1>3, <1>6

LEMMA OneMore ==
    ASSUME NEW a, NEW b, NEW s, NEW u, s = <<a>>, u = <<a, b>>
    PROVE  Append(s, b) = u
  <1>1. PICK X : X = {a, b}
    OBVIOUS
  <1>2. s \in Seq(X) /\ u \in Seq(X) /\ Len(s) = 1 /\ Len(u) = 2
    BY <1>1
  <1>3. PICK w : w = Append(s, b)
    OBVIOUS
  <1>4. w \in Seq(X) /\ Len(w) = 2 /\ w[1] = s[1] /\ w[2] = b
    BY <1>1, <1>2, <1>3
  <1>5. w[1] = u[1] /\ w[2] = u[2]
    BY <1>4
  <1>6. w = u
    BY <1>2, <1>4, <1>5
  <1> QED
    BY <1>3, <1>6

LEMMA SplitPiece ==
    ASSUME NEW f, IsSeq(f), NEW p
    PROVE  split(Append(f, p)) = Split(split(f), p)
  <1>1. PICK Y : f \in Seq(Y)
    BY DEF IsSeq
  <1>2. PICK X : X = Y \union {p}
    OBVIOUS
  <1>3. f \in Seq(X) /\ p \in X
    BY <1>1, <1>2
  <1> QED
    BY <1>3, SplitAppend

LEMMA SplitSeqs ==
    ASSUME NEW f, IsSeq(f)
    PROVE  \E lines, rest : /\ split(f) = [lines |-> lines, rest |-> rest]
                            /\ IsSeq(rest) /\ IsSeq(Logged(lines))
                            /\ \A line : rest = <<Piece(line, 1), Piece(line, 2)>> =>
                                  Logged(Append(lines, rest)) = Append(Logged(lines), line)
  <1>1. PICK X : f \in Seq(X)
    BY DEF IsSeq
  <1>2. PICK lines, rest :
           /\ split(f) = [lines |-> lines, rest |-> rest]
           /\ lines \in Seq(Seq(X)) /\ rest \in Seq(X)
    BY <1>1, SplitRests DEF Rested
  <1>3. PICK Y : Y = Seq(X)
    OBVIOUS
  <1>4. lines \in Seq(Y) /\ rest \in Y
    BY <1>2, <1>3
  <1>5. IsSeq(Logged(lines))
    BY <1>4, LoggedType DEF IsSeq
  <1>6. Logged(Append(lines, rest)) = Log(Logged(lines), rest)
    BY <1>4, LoggedAppend
  <1>7. ASSUME NEW line, rest = <<Piece(line, 1), Piece(line, 2)>>
        PROVE  Logged(Append(lines, rest)) = Append(Logged(lines), line)
    <2>1. PICK a, b, c : a = Piece(line, 1) /\ b = Piece(line, 2) /\ c = Piece(line, 3)
      OBVIOUS
    <2>2. rest = <<a, b>>
      BY <1>7, <2>1
    <2>3. 1 \in DOMAIN rest /\ rest[1] = a
      BY <2>2
    <2>4. a.line = line
      BY <2>1 DEF Piece
    <2>5. Pieces(line) = <<a, b, c>>
      BY <2>1 DEF Pieces, Piece
    <2>6. PICK t : t = <<a, b, c>>
      OBVIOUS
    <2>7. rest = SubSeq(Pieces(rest[1].line), 1, 2)
      <3>1. SubSeq(t, 1, 2) = rest
        BY <2>2, <2>6, TwoOfThree
      <3> QED
        BY <2>3, <2>4, <2>5, <2>6, <3>1
    <2>8. loads(rest)
      BY <2>3, <2>7 DEF loads
    <2> QED
      BY <1>6, <2>3, <2>4, <2>8 DEF Log
  <1>8. IsSeq(rest)
    BY <1>2 DEF IsSeq
  <1> QED
    BY <1>2, <1>5, <1>7, <1>8

\* One piece more in the file.
LEMMA PieceGoes ==
    ASSUME NEW f, NEW outbox, NEW left, NEW state, NEW known, left # <<>>,
           Going(f, outbox, left, state, known)
    PROVE  Going(Append(f, Head(left)), outbox, Tail(left), state, known)
  <1>1. IsSeq(f) /\ IsSeq(outbox)
    BY DEF Going
  <1>2. PICK p, then, g : p = Head(left) /\ then = Tail(left) /\ g = Append(f, p)
    OBVIOUS
  <1>3. IsSeq(g)
    BY <1>1, <1>2, AppendIsSeq
  <1>4. PICK lines, rest : /\ split(f) = [lines |-> lines, rest |-> rest]
                           /\ IsSeq(rest) /\ IsSeq(Logged(lines))
                           /\ \A line : rest = <<Piece(line, 1), Piece(line, 2)>> =>
                                 Logged(Append(lines, rest)) = Append(Logged(lines), line)
    BY <1>1, SplitSeqs
  <1>5. split(g) = Split([lines |-> lines, rest |-> rest], p)
    BY <1>1, <1>2, <1>4, SplitPiece
  <1>6. /\ Newline(p) => split(g) = [lines |-> Append(lines, rest), rest |-> <<>>]
        /\ ~Newline(p) => split(g) = [lines |-> lines, rest |-> Append(rest, p)]
    BY <1>5 DEF Split
  <1>7. \A line : ~Newline(Piece(line, 1)) /\ ~Newline(Piece(line, 2)) /\ Newline(Piece(line, 3))
    BY DEF Newline, Piece
  <1>8. CASE Configures(outbox, left, state, known)
    <2>1. DOMAIN state = {} /\ DOMAIN known = {} /\ outbox = <<>>
      BY <1>8 DEF Configures
    <2>2. PICK a, b, c : a = Piece(config, 1) /\ b = Piece(config, 2) /\ c = Piece(config, 3)
      OBVIOUS
    <2>3. left = <<a, b, c>> \/ left = <<b, c>> \/ left = <<c>>
      BY <1>8, <2>2 DEF Configures
    <2>4. then = <<b, c>> \/ then = <<c>> \/ (p = c /\ then = <<>>)
      <3>1. CASE left = <<a, b, c>>
        BY <1>2, <3>1
      <3>2. CASE left = <<b, c>>
        BY <1>2, <3>2
      <3>3. CASE left = <<c>>
        BY <1>2, <3>3
      <3> QED
        BY <2>3, <3>1, <3>2, <3>3
    <2>5. CASE then = <<b, c>> \/ then = <<c>>
      <3>1. Configures(outbox, then, state, known)
        BY <2>1, <2>2, <2>5 DEF Configures
      <3> QED
        BY <1>1, <1>2, <1>3, <3>1 DEF Going
    <2>6. CASE p = c /\ then = <<>>
      <3>1. split(g) = [lines |-> Append(lines, rest), rest |-> <<>>]
        BY <1>6, <1>7, <2>2, <2>6
      <3>2. Underway(<<>>, then, outbox, <<>>)
        BY <2>1, <2>6 DEF Underway
      <3>3. \A events : Known(state, events, known)
        BY <2>1 DEF Known
      <3>4. IsSeq(<<>>)
        BY DEF IsSeq
      <3>5. Runs(g, outbox, then, state, known)
        BY <3>1, <3>2, <3>3, <3>4 DEF Runs
      <3> QED
        BY <1>1, <1>2, <1>3, <3>5 DEF Going
    <2> QED
      BY <2>4, <2>5, <2>6
  <1>9. CASE Runs(f, outbox, left, state, known)
    <2>1. PICK lines1, rest1, pending :
             /\ split(f) = [lines |-> lines1, rest |-> rest1] /\ IsSeq(pending)
             /\ Underway(rest1, left, outbox, pending)
             /\ Known(state, Logged(lines1) \o pending, known)
      BY <1>9 DEF Runs
    <2>2. lines1 = lines /\ rest1 = rest
      <3>1. split(f).lines = lines /\ split(f).rest = rest
        BY <1>4
      <3>2. split(f).lines = lines1 /\ split(f).rest = rest1
        BY <2>1
      <3> QED
        BY <3>1, <3>2
    <2>3. PICK line :
             /\ pending = <<line>> \o outbox
             /\ \/ left = <<Piece(line, 1), Piece(line, 2), Piece(line, 3)>> /\ rest = <<>>
                \/ left = <<Piece(line, 2), Piece(line, 3)>> /\ rest = <<Piece(line, 1)>>
                \/ left = <<Piece(line, 3)>> /\ rest = <<Piece(line, 1), Piece(line, 2)>>
      BY <2>1, <2>2 DEF Underway
    <2>4. PICK a, b, c : a = Piece(line, 1) /\ b = Piece(line, 2) /\ c = Piece(line, 3)
      OBVIOUS
    <2>5. CASE left = <<a, b, c>> /\ rest = <<>>
      <3>1. p = a /\ then = <<b, c>>
        BY <1>2, <2>5
      <3>2. Append(rest, p) = <<a>>
        BY <2>5, <3>1
      <3>3. split(g) = [lines |-> lines, rest |-> <<a>>]
        BY <1>6, <1>7, <2>4, <3>1, <3>2
      <3>4. Underway(<<a>>, then, outbox, pending)
        BY <2>3, <2>4, <3>1 DEF Underway
      <3>5. Runs(g, outbox, then, state, known)
        BY <2>1, <2>2, <3>3, <3>4 DEF Runs
      <3> QED
        BY <1>1, <1>2, <1>3, <3>5 DEF Going
    <2>6. CASE left = <<b, c>> /\ rest = <<a>>
      <3>1. p = b /\ then = <<c>>
        BY <1>2, <2>6
      <3>2. Append(rest, p) = <<a, b>>
        <4>1. PICK u : u = <<a, b>>
          OBVIOUS
        <4> QED
          BY <2>6, <3>1, <4>1, OneMore
      <3>3. split(g) = [lines |-> lines, rest |-> <<a, b>>]
        BY <1>6, <1>7, <2>4, <3>1, <3>2
      <3>4. Underway(<<a, b>>, then, outbox, pending)
        BY <2>3, <2>4, <3>1 DEF Underway
      <3>5. Runs(g, outbox, then, state, known)
        BY <2>1, <2>2, <3>3, <3>4 DEF Runs
      <3> QED
        BY <1>1, <1>2, <1>3, <3>5 DEF Going
    <2>7. CASE left = <<c>> /\ rest = <<a, b>>
      <3>1. p = c /\ then = <<>>
        BY <1>2, <2>7
      <3>2. PICK L : L = Append(lines, rest)
        OBVIOUS
      <3>3. split(g) = [lines |-> L, rest |-> <<>>]
        BY <1>6, <1>7, <2>4, <3>1, <3>2
      <3>4. Logged(L) = Append(Logged(lines), line)
        BY <1>4, <2>4, <2>7, <3>2
      <3>5. Logged(L) \o outbox = Logged(lines) \o pending
        <4>1. PICK E : E = Logged(lines)
          OBVIOUS
        <4>2. PICK Y : E \in Seq(Y) /\ outbox \in Seq(Y)
          BY <1>1, <1>4, <4>1, OfOneSet
        <4>3. PICK Z : Z = Y \union {line}
          OBVIOUS
        <4>4. E \in Seq(Z) /\ outbox \in Seq(Z) /\ line \in Z
          BY <4>2, <4>3
        <4>5. Append(E, line) \o outbox = E \o (<<line>> \o outbox)
          BY <4>4
        <4> QED
          BY <2>3, <3>4, <4>1, <4>5
      <3>6. Underway(<<>>, then, outbox, outbox)
        BY <3>1 DEF Underway
      <3>7. Known(state, Logged(L) \o outbox, known)
        BY <2>1, <2>2, <3>5
      <3>8. Runs(g, outbox, then, state, known)
        BY <1>1, <3>3, <3>6, <3>7 DEF Runs
      <3> QED
        BY <1>1, <1>2, <1>3, <3>8 DEF Going
    <2> QED
      BY <2>3, <2>4, <2>5, <2>6, <2>7
  <1> QED
    BY <1>8, <1>9 DEF Going

\* The first line to be written is the next one under way.
LEMMA LineGoes ==
    ASSUME NEW f, NEW outbox, NEW state, NEW known, outbox # <<>>,
           Going(f, outbox, <<>>, state, known)
    PROVE  Going(f, Tail(outbox), Pieces(Head(outbox)), state, known)
  <1>1. IsSeq(f) /\ IsSeq(outbox)
    BY DEF Going
  <1>2. PICK Y : outbox \in Seq(Y)
    BY <1>1 DEF IsSeq
  <1>3. PICK line, then : line = Head(outbox) /\ then = Tail(outbox)
    OBVIOUS
  <1>4. then \in Seq(Y) /\ line \in Y /\ outbox = <<line>> \o then
    BY <1>2, <1>3
  <1>5. IsSeq(then)
    BY <1>4 DEF IsSeq
  <1>6. PICK now : now = Pieces(line)
    OBVIOUS
  <1>7. now = <<Piece(line, 1), Piece(line, 2), Piece(line, 3)>>
    BY <1>6 DEF Pieces, Piece
  <1>8. CASE Configures(outbox, <<>>, state, known)
    <2>1. DOMAIN state = {} /\ DOMAIN known = {} /\ outbox = <<config>>
      BY <1>8 DEF Configures
    <2>2. line = config /\ then = <<>>
      BY <1>3, <2>1
    <2>3. Configures(then, now, state, known)
      BY <1>7, <2>1, <2>2 DEF Configures
    <2> QED
      BY <1>1, <1>3, <1>5, <1>6, <2>3 DEF Going
  <1>9. CASE Runs(f, outbox, <<>>, state, known)
    <2>1. PICK lines, rest, pending :
             /\ split(f) = [lines |-> lines, rest |-> rest] /\ IsSeq(pending)
             /\ Underway(rest, <<>>, outbox, pending)
             /\ Known(state, Logged(lines) \o pending, known)
      BY <1>9 DEF Runs
    <2>2. rest = <<>> /\ pending = outbox
      BY <2>1 DEF Underway
    <2>3. Underway(rest, now, then, pending)
      BY <1>4, <1>7, <2>2 DEF Underway
    <2>4. Runs(f, then, now, state, known)
      BY <2>1, <2>3 DEF Runs
    <2> QED
      BY <1>1, <1>3, <1>5, <1>6, <2>4 DEF Going
  <1> QED
    BY <1>8, <1>9 DEF Going

\* The process and the file it writes, at any time.
ProbeSound ==
    \E on, state, outbox, left :
        /\ probe = [up |-> on, state |-> state, outbox |-> outbox, left |-> left]
        /\ on => Unsampled(state) /\ Going(file, outbox, left, state, latest)

\* n pieces more, one after the other.
LEMMA PiecesGo ==
    ASSUME NEW f, NEW outbox, NEW now, NEW state, NEW known, IsSeq(now),
           NEW n \in 1 .. 3, n <= Len(now), Going(f, outbox, now, state, known)
    PROVE  Going(f \o SubSeq(now, 1, n), outbox, SubSeq(now, n + 1, Len(now)), state, known)
  <1>1. IsSeq(f)
    BY DEF Going
  <1>2. PICK X : f \in Seq(X) /\ now \in Seq(X)
    BY <1>1, OfOneSet
  <1>3. PICK m : m = Len(now)
    OBVIOUS
  <1>4. m \in Nat /\ n <= m
    BY <1>2, <1>3
  <1> DEFINE Goes(i) == Going(f \o SubSeq(now, 1, i), outbox, SubSeq(now, i + 1, m), state, known)
  <1>5. Goes(0)
    <2>1. f \o SubSeq(now, 1, 0) = f
      BY <1>2
    <2>2. SubSeq(now, 0 + 1, m) = now
      BY <1>2, <1>3
    <2> QED
      BY <2>1, <2>2
  <1>6. ASSUME NEW i \in 0 .. m - 1, Goes(i)
        PROVE  Goes(i + 1)
    <2>1. PICK g, left : g = f \o SubSeq(now, 1, i) /\ left = SubSeq(now, i + 1, m)
      OBVIOUS
    <2>2. Going(g, outbox, left, state, known)
      BY <1>6, <2>1
    <2>3. left \in Seq(X) /\ Len(left) = m - i /\ left # <<>>
      <3>1. i \in Nat /\ i + 1 \in 1 .. m
        BY <1>4
      <3>2. \A k \in 1 .. m : SubSeq(now, k, m) \in Seq(X) /\ Len(SubSeq(now, k, m)) = (m - k) + 1
        BY <1>2, <1>3
      <3>3. left \in Seq(X) /\ Len(left) = (m - (i + 1)) + 1
        BY <2>1, <3>1, <3>2
      <3>4. Len(left) = m - i /\ Len(left) # 0
        BY <1>4, <3>1, <3>3
      <3>5. Len(<<>>) = 0
        OBVIOUS
      <3> QED
        BY <3>3, <3>4, <3>5
    <2>4. Head(left) = now[i + 1]
      BY <1>2, <1>3, <1>4, <2>1, <2>3
    <2>5. Tail(left) = SubSeq(now, (i + 1) + 1, m)
      BY <1>2, <1>3, <1>4, <2>1, <2>3
    <2>6. Append(g, now[i + 1]) = f \o SubSeq(now, 1, i + 1)
      <3>1. PICK a : a = SubSeq(now, 1, i)
        OBVIOUS
      <3>2. a \in Seq(X) /\ now[i + 1] \in X
        BY <1>2, <1>3, <1>4, <3>1
      <3>3. SubSeq(now, 1, i + 1) = Append(a, now[i + 1])
        BY <1>2, <1>3, <1>4, <3>1
      <3> QED
        <4>1. f \o Append(a, now[i + 1]) = Append(f \o a, now[i + 1])
          BY <1>2, <3>2, AppendBehind
        <4> QED
          BY <2>1, <3>1, <3>3, <4>1
    <2>7. Going(Append(g, Head(left)), outbox, Tail(left), state, known)
      BY <2>2, <2>3, PieceGoes
    <2> QED
      BY <2>4, <2>5, <2>6, <2>7
  <1> HIDE DEF Goes
  <1>7. Goes(1)
    <2>1. 0 \in 0 .. m - 1 /\ 0 + 1 = 1
      BY <1>4
    <2> QED
      BY <1>5, <1>6, <2>1
  <1>8. n >= 2 => Goes(2)
    <2>1. n >= 2 => 1 \in 0 .. m - 1 /\ 1 + 1 = 2
      BY <1>4
    <2> QED
      BY <1>6, <1>7, <2>1
  <1>9. n >= 3 => Goes(3)
    <2>1. n >= 3 => 2 \in 0 .. m - 1 /\ 2 + 1 = 3
      BY <1>4
    <2> QED
      BY <1>6, <1>8, <2>1
  <1>10. Goes(n)
    <2>1. n = 1 \/ n = 2 \/ n = 3
      OBVIOUS
    <2> QED
      BY <1>7, <1>8, <1>9, <2>1
  <1> QED
    BY <1>3, <1>10 DEF Goes

LEMMA ProbeStart == LogInit => ProbeSound
  <1> SUFFICES ASSUME LogInit PROVE ProbeSound
    OBVIOUS
  <1>1. probe = [up |-> FALSE, state |-> <<>>, outbox |-> <<>>, left |-> <<>>]
    BY DEF LogInit, stopped
  <1> QED
    BY <1>1 DEF ProbeSound

LEMMA ProbeStep == ViewSound /\ ProbeSound /\ [LogNext]_logVars => ProbeSound'
  <1> SUFFICES ASSUME ViewSound, ProbeSound, [LogNext]_logVars PROVE ProbeSound'
    OBVIOUS
  <1>1. PICK on, state, outbox, left :
           /\ probe = [up |-> on, state |-> state, outbox |-> outbox, left |-> left]
           /\ on => Unsampled(state) /\ Going(file, outbox, left, state, latest)
    BY DEF ProbeSound
  <1>2. probe.up = on /\ probe.state = state /\ probe.outbox = outbox /\ probe.left = left
    BY <1>1
  <1>3. PICK f, known : f = file /\ known = latest
    OBVIOUS
  <1>4. on => Unsampled(state) /\ Going(f, outbox, left, state, known)
    BY <1>1, <1>3
  <1>5. IsSeq(f) /\ IsSeq(left)
    <2>1. IsSeq(f)
      BY <1>3 DEF ViewSound
    <2>2. \E l : probe.left = l /\ IsSeq(l)
      BY DEF ViewSound
    <2> QED
      BY <1>2, <2>1, <2>2
  <1>6. CASE UNCHANGED <<file, probe, latest>>
    BY <1>1, <1>6 DEF ProbeSound
  <1>7. CASE start
    <2>1. PICK none : none = <<>>
      OBVIOUS
    <2>2. probe' = [up |-> TRUE, state |-> none, outbox |-> <<config>>, left |-> none]
      BY <1>7, <2>1 DEF start, stopped, firstLines
    <2>3. file' = f /\ latest' = none
      BY <1>3, <1>7, <2>1 DEF start
    <2>4. DOMAIN none = {}
      BY <2>1
    <2>5. Configures(<<config>>, none, none, none)
      BY <2>1, <2>4 DEF Configures
    <2>6. IsSeq(<<config>>)
      <3>1. <<config>> \in Seq({config})
        OBVIOUS
      <3> QED
        BY <3>1 DEF IsSeq
    <2>7. Going(f, <<config>>, none, none, none)
      BY <1>5, <2>5, <2>6 DEF Going
    <2>8. Unsampled(none)
      BY <2>4 DEF Unsampled
    <2> QED
      BY <2>2, <2>3, <2>7, <2>8 DEF ProbeSound
  <1>8. CASE stop \/ die
    <2>1. probe' = [up |-> FALSE, state |-> <<>>, outbox |-> <<>>, left |-> <<>>]
      BY <1>8 DEF stop, die, stopped
    <2> QED
      BY <2>1 DEF ProbeSound
  <1>9. ASSUME NEW topic \in Topics, NEW v \in Values, on_message(topic, v)
        PROVE  ProbeSound'
    <2>1. on /\ outbox = <<>> /\ left = <<>> /\ file' = f
      BY <1>2, <1>3, <1>9 DEF on_message
    <2>2. Going(f, <<>>, <<>>, state, known)
      BY <1>4, <2>1
    <2>3. ~Configures(<<>>, <<>>, state, known)
      <3>1. \A a, b, c : <<>> # <<a, b, c>> /\ <<>> # <<b, c>> /\ <<>> # <<c>>
        OBVIOUS
      <3> QED
        BY <3>1 DEF Configures
    <2>4. PICK lines, rest, pending :
             /\ split(f) = [lines |-> lines, rest |-> rest] /\ IsSeq(pending)
             /\ Underway(rest, <<>>, <<>>, pending)
             /\ Known(state, Logged(lines) \o pending, known)
      BY <2>2, <2>3 DEF Going, Runs
    <2>5. rest = <<>> /\ pending = <<>>
      BY <2>4 DEF Underway
    <2>6. PICK E : E = Logged(lines)
      OBVIOUS
    <2>7. IsSeq(E)
      <3>1. split(f).lines = lines
        BY <2>4
      <3>2. IsSeq(Logged(split(f).lines))
        <4>1. PICK l, r : split(f) = [lines |-> l, rest |-> r] /\ IsSeq(Logged(l))
          BY <1>5, SplitSeqs
        <4>2. split(f).lines = l
          BY <4>1
        <4> QED
          BY <4>1, <4>2
      <3> QED
        BY <2>6, <3>1, <3>2
    <2>8. Known(state, E, known)
      <3>1. E \o <<>> = E
        BY <2>7 DEF IsSeq
      <3> QED
        BY <2>4, <2>5, <2>6, <3>1
    <2>9. PICK st, more :
             /\ probe' = [probe EXCEPT !.state = st, !.outbox = more]
             /\ IsSeq(more) /\ Unsampled(st) /\ Known(st, E \o more, latest')
      <3>1. Unsampled(probe.state) /\ Known(probe.state, E, latest)
        BY <1>2, <1>3, <1>4, <2>1, <2>8
      <3> QED
        BY <1>9, <2>7, <3>1, MessageKnown
    <2>10. probe' = [up |-> on, state |-> st, outbox |-> more, left |-> <<>>]
      BY <1>1, <2>1, <2>9
    <2>11. PICK new : new = latest'
      OBVIOUS
    <2>12. Runs(f, more, <<>>, st, new)
      <3>1. Underway(rest, <<>>, more, more)
        BY <2>5 DEF Underway
      <3>2. Known(st, Logged(lines) \o more, new)
        BY <2>6, <2>9, <2>11
      <3> QED
        BY <2>4, <2>9, <3>1, <3>2 DEF Runs
    <2>13. Going(f, more, <<>>, st, new)
      BY <1>5, <2>9, <2>12 DEF Going
    <2> QED
      BY <2>1, <2>9, <2>10, <2>11, <2>13 DEF ProbeSound
  <1>10. ASSUME NEW n \in 1 .. 3, write(n)
         PROVE  ProbeSound'
    <2>1. PICK now : now = IF left # <<>> THEN left ELSE Pieces(Head(outbox))
      OBVIOUS
    <2>2. PICK o : o = IF left # <<>> THEN outbox ELSE Tail(outbox)
      OBVIOUS
    <2>3. /\ on /\ (left # <<>> \/ outbox # <<>>) /\ n \in 1 .. Len(now)
          /\ file' = f \o SubSeq(now, 1, n) /\ latest' = known
      BY <1>2, <1>3, <1>10, <2>1 DEF write
    <2>4. PICK l : l = SubSeq(now, n + 1, Len(now))
      OBVIOUS
    <2>5. probe' = [up |-> on, state |-> state, outbox |-> o, left |-> l]
      <3>1. probe' = [probe EXCEPT !.left = l, !.outbox = IF left # <<>> THEN @ ELSE Tail(@)]
        BY <1>2, <1>10, <2>1, <2>4 DEF write
      <3>2. probe' = [probe EXCEPT !.left = l, !.outbox = o]
        BY <1>2, <2>2, <3>1
      <3> QED
        BY <1>1, <3>2
    <2>6. Unsampled(state) /\ Going(f, outbox, left, state, known)
      BY <1>4, <2>3
    <2>7. Going(f, o, now, state, known) /\ IsSeq(now)
      <3>1. CASE left # <<>>
        BY <1>5, <2>1, <2>2, <2>6, <3>1
      <3>2. CASE left = <<>>
        <4>1. outbox # <<>> /\ now = Pieces(Head(outbox)) /\ o = Tail(outbox)
          BY <2>1, <2>2, <2>3, <3>2
        <4>2. Going(f, outbox, <<>>, state, known)
          BY <2>6, <3>2
        <4>3. Going(f, o, now, state, known)
          BY <4>1, <4>2, LineGoes
        <4>4. PICK a, b, c : now = <<a, b, c>>
          BY <4>1 DEF Pieces
        <4>5. now \in Seq({a, b, c})
          BY <4>4
        <4> QED
          BY <4>3, <4>5 DEF IsSeq
      <3> QED
        BY <3>1, <3>2
    <2>8. PICK g : g = f \o SubSeq(now, 1, n)
      OBVIOUS
    <2>9. Going(g, o, l, state, known)
      <3>1. n <= Len(now)
        BY <2>3
      <3> QED
        BY <2>4, <2>7, <2>8, <3>1, PiecesGo
    <2> QED
      BY <2>3, <2>5, <2>6, <2>8, <2>9 DEF ProbeSound
  <1>11. CASE poll
    BY <1>6, <1>11 DEF poll
  <1>12. CASE UNCHANGED logVars
    BY <1>6, <1>12 DEF logVars
  <1> QED
    BY <1>7, <1>8, <1>9, <1>10, <1>11, <1>12 DEF LogNext

\* Once all is written and read, the view shows the last value of everything
\* the running probe evaluated, though an earlier one was killed in the middle
\* of a line.
THEOREM ViewIsTrue == Spec => []ViewTrue
  <1>1. ViewSound /\ ProbeSound => ViewTrue
    <2> SUFFICES ASSUME ViewSound, ProbeSound,
                        probe.up, probe.outbox = <<>>, probe.left = <<>>, tail.pos = Len(file),
                        NEW key \in DOMAIN latest
                 PROVE  Shown(key) = <<latest[key]>>
      BY DEF ViewTrue
    <2>1. PICK state : Going(file, <<>>, <<>>, state, latest)
      <3>1. PICK on, state, outbox, left :
               /\ probe = [up |-> on, state |-> state, outbox |-> outbox, left |-> left]
               /\ on => Unsampled(state) /\ Going(file, outbox, left, state, latest)
        BY DEF ProbeSound
      <3>2. on /\ outbox = <<>> /\ left = <<>>
        BY <3>1
      <3> QED
        BY <3>1, <3>2
    <2>2. ~Configures(<<>>, <<>>, state, latest)
      <3>1. \A a, b, c : <<>> # <<a, b, c>> /\ <<>> # <<b, c>> /\ <<>> # <<c>>
        OBVIOUS
      <3> QED
        BY <3>1 DEF Configures
    <2>3. PICK lines, rest, pending :
             /\ split(file) = [lines |-> lines, rest |-> rest]
             /\ Underway(rest, <<>>, <<>>, pending)
             /\ Known(state, Logged(lines) \o pending, latest)
      BY <2>1, <2>2 DEF Going, Runs
    <2>4. pending = <<>>
      BY <2>3 DEF Underway
    <2>5. PICK E : E = Logged(lines)
      OBVIOUS
    <2>6. PICK f : f = file
      OBVIOUS
    <2>7. IsSeq(f) /\ split(f) = [lines |-> lines, rest |-> rest]
      BY <2>3, <2>6 DEF ViewSound
    <2>8. split(f).lines = lines
      BY <2>7
    <2>9. PICK Z : E \in Seq(Z)
      <3>1. PICK l, r : split(f) = [lines |-> l, rest |-> r] /\ IsSeq(Logged(l))
        BY <2>7, SplitSeqs
      <3>2. split(f).lines = l
        BY <3>1
      <3> QED
        BY <2>5, <2>8, <3>1, <3>2 DEF IsSeq
    <2>10. tail.out = E
      <3>1. ReadSoFar = f
        <4>1. PICK X : f \in Seq(X)
          BY <2>7 DEF IsSeq
        <4>2. SubSeq(f, 1, Len(f)) = f
          BY <4>1
        <4> QED
          BY <2>6, <4>2 DEF ReadSoFar
      <3> QED
        BY <2>5, <2>8, <3>1 DEF ViewSound
    <2>11. PICK w : w = latest[key]
      OBVIOUS
    <2>12. LastIs(E, key, w)
      <3>1. E \o <<>> = E
        BY <2>9
      <3>2. Known(state, E, latest)
        BY <2>3, <2>4, <2>5, <3>1
      <3> QED
        BY <2>11, <3>2 DEF Known
    <2>13. PICK i \in DOMAIN E :
              E[i] = <<key, w>> /\ \A j \in DOMAIN E : j > i => E[j][1] # key
      BY <2>12 DEF LastIs
    <2>14. PICK mine : mine = {j \in DOMAIN E : E[j][1] = key}
      OBVIOUS
    <2>15. DOMAIN E = 1 .. Len(E) /\ Len(E) \in Nat
      BY <2>9
    <2>16. E[i][1] = key /\ E[i][2] = w
      BY <2>13
    <2>17. i \in mine /\ \A j \in mine : i >= j
      BY <2>13, <2>14, <2>15, <2>16
    <2>18. Max(mine) = i
      <3>1. \A x \in mine : (\A y \in mine : x >= y) => x = i
        BY <2>14, <2>15, <2>17
      <3> QED
        BY <2>17, <3>1 DEF Max
    <2>19. Shown(key) = IF mine = {} THEN <<>> ELSE <<E[Max(mine)][2]>>
      BY <2>10, <2>14 DEF Shown
    <2> QED
      BY <2>11, <2>16, <2>17, <2>18, <2>19
  <1>2. Init => ViewSound /\ ProbeSound
    BY ViewStart, ProbeStart DEF Init
  <1>3. ViewSound /\ ProbeSound /\ [Next]_vars => (ViewSound /\ ProbeSound)'
    BY LogBenchStep, ViewStep, ProbeStep
  <1> QED
    BY <1>1, <1>2, <1>3, PTL DEF Spec

-----------------------------------------------------------------------------
(* Counting.                                                               *)

\* How many of the first n are in Q.
Upto(Q, n) == Cardinality(Q \intersect (1 .. n))

LEMMA UptoNat ==
    ASSUME NEW Q, NEW n \in Nat
    PROVE  /\ Upto(Q, n) \in Nat /\ IsFiniteSet(Q \intersect (1 .. n))
           /\ Upto(Q, 0) = 0
  <1>1. IsFiniteSet(1 .. n)
    BY FS_Interval
  <1>2. IsFiniteSet(Q \intersect (1 .. n))
    BY <1>1, FS_Intersection
  <1>3. Q \intersect (1 .. 0) = {}
    OBVIOUS
  <1> QED
    BY <1>2, <1>3, FS_CardinalityType, FS_EmptySet DEF Upto

\* What is counted beyond m is the difference.
LEMMA UptoApart ==
    ASSUME NEW Q, NEW m \in Nat, NEW n \in Nat, m <= n
    PROVE  /\ Upto(Q, n) = Upto(Q, m) + Cardinality(Q \intersect (m + 1 .. n))
           /\ IsFiniteSet(Q \intersect (m + 1 .. n))
           /\ Cardinality(Q \intersect (m + 1 .. n)) \in Nat
  <1>1. PICK S, T : S = Q \intersect (1 .. m) /\ T = Q \intersect (m + 1 .. n)
    OBVIOUS
  <1>2. IsFiniteSet(S) /\ IsFiniteSet(T)
    <2>1. m + 1 \in Int
      OBVIOUS
    <2>2. IsFiniteSet(1 .. m) /\ IsFiniteSet(m + 1 .. n)
      BY <2>1, FS_Interval
    <2> QED
      BY <1>1, <2>2, FS_Intersection
  <1>3. S \union T = Q \intersect (1 .. n) /\ S \intersect T = {}
    BY <1>1
  <1>4. Cardinality(S \union T) = Cardinality(S) + Cardinality(T) - Cardinality({})
    BY <1>2, <1>3, FS_Union
  <1>5. Cardinality({}) = 0 /\ Cardinality(S) \in Nat /\ Cardinality(T) \in Nat
    BY <1>2, FS_EmptySet, FS_CardinalityType
  <1>6. Upto(Q, n) = Cardinality(S \union T) /\ Upto(Q, m) = Cardinality(S)
    BY <1>1, <1>3 DEF Upto
  <1>7. Upto(Q, n) = Upto(Q, m) + Cardinality(T)
    BY <1>4, <1>5, <1>6
  <1> QED
    BY <1>1, <1>2, <1>5, <1>7

LEMMA UptoGrows ==
    ASSUME NEW Q, NEW m \in Nat, NEW n \in Nat, m <= n
    PROVE  /\ Upto(Q, m) <= Upto(Q, n)
           /\ \A j \in m + 1 .. n : j \in Q => Upto(Q, m) < Upto(Q, n)
  <1>1. PICK T : T = Q \intersect (m + 1 .. n)
    OBVIOUS
  <1>2. Upto(Q, n) = Upto(Q, m) + Cardinality(T) /\ IsFiniteSet(T) /\ Cardinality(T) \in Nat
    BY <1>1, UptoApart
  <1>3. Upto(Q, m) \in Nat
    BY UptoNat
  <1>4. ASSUME NEW j \in m + 1 .. n, j \in Q PROVE Upto(Q, m) < Upto(Q, n)
    <2>1. T # {}
      BY <1>1, <1>4
    <2>2. Cardinality(T) # 0
      BY <1>2, <2>1, FS_EmptySet
    <2> QED
      BY <1>2, <1>3, <2>2
  <1> QED
    BY <1>2, <1>3, <1>4

LEMMA UptoNext ==
    ASSUME NEW Q, NEW n \in Nat
    PROVE  Upto(Q, n + 1) = IF n + 1 \in Q THEN Upto(Q, n) + 1 ELSE Upto(Q, n)
  <1>1. PICK S : S = Q \intersect (1 .. n)
    OBVIOUS
  <1>2. IsFiniteSet(S) /\ Upto(Q, n) = Cardinality(S)
    BY <1>1, UptoNat DEF Upto
  <1>3. CASE n + 1 \in Q
    <2>1. Q \intersect (1 .. n + 1) = S \union {n + 1} /\ n + 1 \notin S
      BY <1>1, <1>3
    <2> QED
      BY <1>2, <1>3, <2>1, FS_AddElement DEF Upto
  <1>4. CASE n + 1 \notin Q
    <2>1. Q \intersect (1 .. n + 1) = S
      BY <1>1, <1>4
    <2> QED
      BY <1>2, <1>4, <2>1 DEF Upto
  <1> QED
    BY <1>3, <1>4

LEMMA UptoSame ==
    ASSUME NEW Q, NEW R, NEW n \in Nat, \A i \in 1 .. n : i \in Q <=> i \in R,
           NEW m \in Nat, m <= n
    PROVE  Upto(Q, m) = Upto(R, m)
  <1>1. Q \intersect (1 .. m) = R \intersect (1 .. m)
    OBVIOUS
  <1> QED
    BY <1>1 DEF Upto

-----------------------------------------------------------------------------
(* The intervals and what the record has of them.                          *)

Intervals == [level : SpinLevels, late : Lates]
LevelType == [spins : Nat, nobound : Nat, late : Nat, max : Nat, hist : [0 .. Bins - 1 -> Nat]]
RingType == [0 .. SpinRing - 1 -> [level : Nat, late : Nat]]
DiagType == [nlev : 0 .. LastLevel, ring_next : Nat, lev : [SpinLevels -> LevelType], ring : RingType]

\* The intervals of s that a word of the record counts.
OfLevel(s, l) == {i \in 1 .. Len(s) : s[i].level = l}
LateOf(s, l) == {i \in 1 .. Len(s) : s[i].level = l /\ s[i].late >= LateFrom}
InBin(s, l, b) == {i \in 1 .. Len(s) : s[i].level = l /\ s[i].late # NoBound /\ binOf(s[i].late) = b}
AllLate(s) == {i \in 1 .. Len(s) : s[i].late >= LateFrom}

\* A word that counts Q was read between the filing of the first `from` and
\* the beginning of the first `to`.
Counts(x, Q, from, to) == Upto(Q, from) <= x /\ x <= Upto(Q, to)

HeadRead(r, s, from, to) ==
    /\ \A i \in 1 .. from : s[i].level <= r.nlev
    /\ Counts(r.ring_next, AllLate(s), from, to)
CountsRead(x, s, l, from, to) ==
    /\ Counts(x.spins, OfLevel(s, l), from, to)
    /\ Counts(x.late, LateOf(s, l), from, to)
    /\ \A i \in 1 .. from : s[i].level = l => s[i].late <= x.max
HistRead(x, s, l, from, to) ==
    \A b \in 0 .. Bins - 1 : Counts(x.hist[b], InBin(s, l, b), from, to)
\* The ring has every late record of the first `from` that none of the first
\* `to` has overtaken, and nothing else of a level.
RingRead(ring, s, from, to) ==
    /\ ring \in RingType
    /\ \A j \in 1 .. from :
          j \in AllLate(s) /\ Upto(AllLate(s), j) + SpinRing > Upto(AllLate(s), to) =>
             ring[(Upto(AllLate(s), j) - 1) % SpinRing] = s[j]
    /\ \A k \in 0 .. SpinRing - 1 : ring[k].level # 0 => ring[k].late >= LateFrom

\* t has what s has, and perhaps more.
Longer(s, t) ==
    /\ Len(s) \in Nat /\ Len(t) \in Nat /\ Len(s) <= Len(t)
    /\ \A i \in 1 .. Len(s) : t[i] = s[i]

LEMMA SameCounted ==
    ASSUME NEW s, NEW t, Longer(s, t)
    PROVE  /\ \A l : \A i \in 1 .. Len(s) : i \in OfLevel(s, l) <=> i \in OfLevel(t, l)
           /\ \A l : \A i \in 1 .. Len(s) : i \in LateOf(s, l) <=> i \in LateOf(t, l)
           /\ \A l, b : \A i \in 1 .. Len(s) : i \in InBin(s, l, b) <=> i \in InBin(t, l, b)
           /\ \A i \in 1 .. Len(s) : i \in AllLate(s) <=> i \in AllLate(t)
  <1>1. \A i \in 1 .. Len(s) : i \in 1 .. Len(t) /\ t[i] = s[i]
    BY DEF Longer
  <1>2. \A l, i : i \in 1 .. Len(s) => (i \in OfLevel(s, l) <=> i \in OfLevel(t, l))
    BY <1>1 DEF OfLevel
  <1>3. \A l, i : i \in 1 .. Len(s) => (i \in LateOf(s, l) <=> i \in LateOf(t, l))
    BY <1>1 DEF LateOf
  <1>4. \A l, b, i : i \in 1 .. Len(s) => (i \in InBin(s, l, b) <=> i \in InBin(t, l, b))
    BY <1>1 DEF InBin
  <1>5. \A i : i \in 1 .. Len(s) => (i \in AllLate(s) <=> i \in AllLate(t))
    BY <1>1 DEF AllLate
  <1> QED
    BY <1>2, <1>3, <1>4, <1>5

LEMMA SameUpto ==
    ASSUME NEW s, NEW t, Longer(s, t), NEW m \in 0 .. Len(s)
    PROVE  /\ \A l : Upto(OfLevel(t, l), m) = Upto(OfLevel(s, l), m)
           /\ \A l : Upto(LateOf(t, l), m) = Upto(LateOf(s, l), m)
           /\ \A l, b : Upto(InBin(t, l, b), m) = Upto(InBin(s, l, b), m)
           /\ Upto(AllLate(t), m) = Upto(AllLate(s), m)
  <1>1. PICK n : n = Len(s)
    OBVIOUS
  <1>2. n \in Nat /\ m \in Nat /\ m <= n
    BY <1>1 DEF Longer
  <1>3. ASSUME NEW l PROVE Upto(OfLevel(t, l), m) = Upto(OfLevel(s, l), m)
    <2>1. \A i \in 1 .. n : i \in OfLevel(t, l) <=> i \in OfLevel(s, l)
      BY <1>1, SameCounted
    <2> QED
      BY <1>2, <2>1, UptoSame
  <1>4. ASSUME NEW l PROVE Upto(LateOf(t, l), m) = Upto(LateOf(s, l), m)
    <2>1. \A i \in 1 .. n : i \in LateOf(t, l) <=> i \in LateOf(s, l)
      BY <1>1, SameCounted
    <2> QED
      BY <1>2, <2>1, UptoSame
  <1>5. ASSUME NEW l, NEW b PROVE Upto(InBin(t, l, b), m) = Upto(InBin(s, l, b), m)
    <2>1. \A i \in 1 .. n : i \in InBin(t, l, b) <=> i \in InBin(s, l, b)
      BY <1>1, SameCounted
    <2> QED
      BY <1>2, <2>1, UptoSame
  <1>6. Upto(AllLate(t), m) = Upto(AllLate(s), m)
    <2>1. \A i \in 1 .. n : i \in AllLate(t) <=> i \in AllLate(s)
      BY <1>1, SameCounted
    <2> QED
      BY <1>2, <2>1, UptoSame
  <1> QED
    BY <1>3, <1>4, <1>5, <1>6

\* What was read stays so, whatever is begun and filed later.
LEMMA CountsLater ==
    ASSUME NEW Q, NEW R, NEW x \in Nat, NEW from, NEW to \in Nat, NEW later \in Nat, to <= later,
           Counts(x, Q, from, to), Upto(R, from) = Upto(Q, from), Upto(R, to) = Upto(Q, to)
    PROVE  Counts(x, R, from, later)
  <1>1. Upto(R, to) <= Upto(R, later) /\ Upto(R, to) \in Nat /\ Upto(R, later) \in Nat
    BY UptoGrows, UptoNat
  <1> QED
    BY <1>1 DEF Counts

LEMMA LevelLater ==
    ASSUME NEW x \in LevelType, NEW s, NEW t, Longer(s, t), NEW l,
           NEW from \in 0 .. Len(s), NEW to \in 0 .. Len(s), NEW later \in Nat, to <= later
    PROVE  /\ CountsRead(x, s, l, from, to) => CountsRead(x, t, l, from, later)
           /\ HistRead(x, s, l, from, to) => HistRead(x, t, l, from, later)
  <1>1. to \in Nat /\ from \in Nat /\ Len(s) \in Nat
    BY DEF Longer
  <1>2. x.spins \in Nat /\ x.late \in Nat /\ \A b \in 0 .. Bins - 1 : x.hist[b] \in Nat
    BY DEF LevelType
  <1>3. /\ \A k : Upto(OfLevel(t, k), from) = Upto(OfLevel(s, k), from)
        /\ \A k : Upto(LateOf(t, k), from) = Upto(LateOf(s, k), from)
        /\ \A k, b : Upto(InBin(t, k, b), from) = Upto(InBin(s, k, b), from)
    BY SameUpto
  <1>4. /\ \A k : Upto(OfLevel(t, k), to) = Upto(OfLevel(s, k), to)
        /\ \A k : Upto(LateOf(t, k), to) = Upto(LateOf(s, k), to)
        /\ \A k, b : Upto(InBin(t, k, b), to) = Upto(InBin(s, k, b), to)
    BY SameUpto
  <1>5. ASSUME CountsRead(x, s, l, from, to) PROVE CountsRead(x, t, l, from, later)
    <2>1. Counts(x.spins, OfLevel(t, l), from, later)
      <3>1. Counts(x.spins, OfLevel(s, l), from, to)
        BY <1>5 DEF CountsRead
      <3> QED
        BY <1>1, <1>2, <1>3, <1>4, <3>1, CountsLater
    <2>2. Counts(x.late, LateOf(t, l), from, later)
      <3>1. Counts(x.late, LateOf(s, l), from, to)
        BY <1>5 DEF CountsRead
      <3> QED
        BY <1>1, <1>2, <1>3, <1>4, <3>1, CountsLater
    <2>3. \A i \in 1 .. from : t[i] = s[i]
      BY <1>1 DEF Longer
    <2>4. \A i \in 1 .. from : t[i].level = l => t[i].late <= x.max
      BY <1>5, <2>3 DEF CountsRead
    <2> QED
      BY <2>1, <2>2, <2>4 DEF CountsRead
  <1>6. ASSUME HistRead(x, s, l, from, to) PROVE HistRead(x, t, l, from, later)
    <2>1. ASSUME NEW b \in 0 .. Bins - 1 PROVE Counts(x.hist[b], InBin(t, l, b), from, later)
      <3>1. Counts(x.hist[b], InBin(s, l, b), from, to)
        BY <1>6 DEF HistRead
      <3>2. x.hist[b] \in Nat
        BY <1>2
      <3> QED
        BY <1>1, <1>3, <1>4, <3>1, <3>2, CountsLater
    <2> QED
      BY <2>1 DEF HistRead
  <1> QED
    BY <1>5, <1>6

LEMMA HeadLater ==
    ASSUME NEW r, r.ring_next \in Nat, NEW s, NEW t, Longer(s, t),
           NEW from \in 0 .. Len(s), NEW to \in 0 .. Len(s), NEW later \in Nat, to <= later,
           HeadRead(r, s, from, to)
    PROVE  HeadRead(r, t, from, later)
  <1>1. to \in Nat /\ from \in Nat /\ Len(s) \in Nat
    BY DEF Longer
  <1>2. Upto(AllLate(t), from) = Upto(AllLate(s), from)
    BY SameUpto
  <1>3. Upto(AllLate(t), to) = Upto(AllLate(s), to)
    BY SameUpto
  <1>4. Counts(r.ring_next, AllLate(t), from, later)
    <2>1. Counts(r.ring_next, AllLate(s), from, to)
      BY DEF HeadRead
    <2> QED
      BY <1>1, <1>2, <1>3, <2>1, CountsLater
  <1>5. \A i \in 1 .. from : t[i] = s[i]
    BY <1>1 DEF Longer
  <1> QED
    BY <1>4, <1>5 DEF HeadRead

LEMMA RingLater ==
    ASSUME NEW ring, NEW s, NEW t, Longer(s, t), NEW from \in 0 .. Len(s), NEW to \in 0 .. Len(s),
           RingRead(ring, s, from, to)
    PROVE  RingRead(ring, t, from, to)
  <1>1. Len(s) \in Nat
    BY DEF Longer
  <1>2. PICK Q, R : Q = AllLate(s) /\ R = AllLate(t)
    OBVIOUS
  <1>3. \A m \in 0 .. Len(s) : Upto(R, m) = Upto(Q, m)
    BY <1>2, SameUpto
  <1>4. \A j \in 1 .. from : j \in 0 .. Len(s) /\ t[j] = s[j] /\ (j \in R <=> j \in Q)
    BY <1>1, <1>2, SameCounted DEF Longer
  <1>5. ASSUME NEW j \in 1 .. from, j \in R, Upto(R, j) + SpinRing > Upto(R, to)
        PROVE  ring[(Upto(R, j) - 1) % SpinRing] = t[j]
    <2>1. j \in Q /\ Upto(R, j) = Upto(Q, j) /\ Upto(R, to) = Upto(Q, to) /\ t[j] = s[j]
      BY <1>3, <1>4, <1>5
    <2> QED
      BY <1>2, <1>5, <2>1 DEF RingRead
  <1> QED
    BY <1>2, <1>5 DEF RingRead

-----------------------------------------------------------------------------
(* The record while an interval is being filed.                            *)

\* How far each word has the intervals of s: the last one is being filed.
LateAt(f, s) == IF f.pc \in {"judge", "late"} THEN Len(s) - 1 ELSE Len(s)
HistAt(f, s) == IF f.pc = "judge" THEN Len(s) - 1 ELSE Len(s)
NextAt(f, s) == IF f.pc \in {"judge", "late", "ring"} THEN Len(s) - 1 ELSE Len(s)
FiledOf(f, s) == IF f = notFiling THEN Len(s) ELSE Len(s) - 1

FilingOk(f, s) ==
    \/ f = notFiling
    \/ /\ f.pc \in {"judge", "late", "ring", "max"}
       /\ Len(s) # 0 /\ s[Len(s)] = [level |-> f.l, late |-> f.late]
       /\ f.pc # "judge" => f.late # NoBound
       /\ f.pc \in {"late", "ring"} => f.late >= LateFrom

LevelOk(x, l, f, s) ==
    /\ x.spins = Upto(OfLevel(s, l), Len(s))
    /\ x.late = Upto(LateOf(s, l), LateAt(f, s))
    /\ \A b \in 0 .. Bins - 1 : x.hist[b] = Upto(InBin(s, l, b), HistAt(f, s))
    /\ \A i \in 1 .. FiledOf(f, s) : s[i].level = l => s[i].late <= x.max

RingOk(next, ring, f, s) ==
    /\ next = Upto(AllLate(s), NextAt(f, s))
    /\ RingRead(ring, s, LateAt(f, s), LateAt(f, s))

DiagOk(d, f, s) ==
    /\ FilingOk(f, s)
    /\ \A l \in SpinLevels : LevelOk(d.lev[l], l, f, s)
    /\ RingOk(d.ring_next, d.ring, f, s)
    /\ \A i \in 1 .. Len(s) : s[i].level <= d.nlev

LEMMA SpinTypes ==
    /\ LastLevel \in Nat /\ SpinLevels = 1 .. LastLevel
    /\ Bins \in Nat /\ Bins > 0 /\ SpinRing \in Nat /\ SpinRing > 0 /\ Ms \in Nat /\ Ms > 0
    /\ LateFrom \in Nat /\ NoBound = -1 /\ Lates \subseteq Int
    /\ \A v \in Lates : v # NoBound => v \in Nat
  <1>1. LastLevel \in Nat /\ SpinLevels = 1 .. LastLevel
    BY SpinAssumption, FS_CardinalityType DEF LastLevel
  <1>2. NoBound = -1 /\ Lates \subseteq Nat \union {-1}
    BY SpinAssumption DEF NoBound
  <1>3. {Bins, SpinRing, Ms} \subseteq Nat \ {0} /\ LateFrom \in Nat
    BY SpinAssumption
  <1> QED
    BY <1>1, <1>2, <1>3

LEMMA BinType ==
    ASSUME NEW v \in Nat
    PROVE  /\ binOf(v) \in 0 .. Bins - 1
           /\ v < (binOf(v) + 1) * Ms \/ binOf(v) = Bins - 1
  <1>1. PICK q : q = v \div Ms
    OBVIOUS
  <1>2. q \in Nat /\ v < (q + 1) * Ms
    <2>1. Ms \in Int /\ Ms > 0 /\ v \in Int /\ v >= 0
      BY SpinTypes
    <2>2. q \in Int /\ v % Ms \in Int /\ v % Ms >= 0 /\ v % Ms < Ms
      BY <1>1, <2>1
    <2>3. v = Ms * q + (v % Ms)
      BY <1>1, <2>1, Quotient
    <2>4. q >= 0
      BY <1>1, <2>1, Z3
    <2>5. v < Ms * q + Ms
      BY <2>1, <2>2, <2>3
    <2>6. Ms * q + Ms = (q + 1) * Ms
      BY <2>1, <2>2, Z3
    <2> QED
      BY <2>2, <2>4, <2>5, <2>6
  <1>3. Bins - 1 \in Nat
    BY SpinTypes
  <1>4. PICK m : m = Min({q, Bins - 1})
    OBVIOUS
  <1>5. (q <= Bins - 1 => m = q) /\ (q > Bins - 1 => m = Bins - 1)
    <2>1. m = CHOOSE x \in {q, Bins - 1} : \A y \in {q, Bins - 1} : x <= y
      BY <1>4 DEF Min
    <2>2. CASE q <= Bins - 1
      BY <1>2, <1>3, <2>1, <2>2
    <2>3. CASE q > Bins - 1
      BY <1>2, <1>3, <2>1, <2>3
    <2> QED
      BY <1>2, <1>3, <2>2, <2>3
  <1>6. binOf(v) = m
    BY <1>1, <1>4 DEF binOf
  <1> QED
    BY <1>2, <1>3, <1>5, <1>6

\* The record with y at level l.
AtLevel(d, l, y) == [d EXCEPT !.lev[l] = y]

LEMMA LevelChanged ==
    ASSUME NEW d \in DiagType, NEW l \in SpinLevels, NEW y \in LevelType,
           NEW e, e = AtLevel(d, l, y)
    PROVE  /\ e \in DiagType
           /\ e.nlev = d.nlev /\ e.ring_next = d.ring_next /\ e.ring = d.ring
           /\ e.lev[l] = y /\ \A k \in SpinLevels : k # l => e.lev[k] = d.lev[k]
  BY DEF DiagType, AtLevel

\* y is x, one word of it changed.
SpinsSet(x, y, c) == y.spins = c /\ y.late = x.late /\ y.hist = x.hist /\ y.max = x.max
LateSet(x, y, c) == y.spins = x.spins /\ y.late = c /\ y.hist = x.hist /\ y.max = x.max
HistSet(x, y, c) == y.spins = x.spins /\ y.late = x.late /\ y.hist = c /\ y.max = x.max
MaxSet(x, y, c) == y.spins = x.spins /\ y.late = x.late /\ y.hist = x.hist /\ y.max = c

Judging(l, v) == [pc |-> "judge", l |-> l, late |-> v]
WithInterval(s, l, v) == Append(s, [level |-> l, late |-> v])

\* An interval begins.
LEMMA CountOk ==
    ASSUME NEW d \in DiagType, NEW s \in Seq(Intervals), DiagOk(d, notFiling, s),
           NEW l \in SpinLevels, l <= d.nlev, NEW v \in Lates,
           NEW y \in LevelType, SpinsSet(d.lev[l], y, d.lev[l].spins + 1),
           NEW e, e = AtLevel(d, l, y),
           NEW g, g = Judging(l, v), NEW t, t = WithInterval(s, l, v)
    PROVE  e \in DiagType /\ t \in Seq(Intervals) /\ Longer(s, t) /\ DiagOk(e, g, t)
  <1>1. PICK r, n : r = [level |-> l, late |-> v] /\ n = Len(s)
    OBVIOUS
  <1>2. r \in Intervals /\ r.level = l /\ r.late = v
    BY <1>1 DEF Intervals
  <1>3. /\ t \in Seq(Intervals) /\ n \in Nat /\ Len(t) = n + 1 /\ t[n + 1] = r
        /\ \A i \in 1 .. n : t[i] = s[i]
    BY <1>1, <1>2 DEF WithInterval
  <1>4. Longer(s, t)
    BY <1>1, <1>3 DEF Longer
  <1>5. PICK x : x = d.lev[l]
    OBVIOUS
  <1>6. y.spins = x.spins + 1 /\ y.late = x.late /\ y.max = x.max /\ y.hist = x.hist
    BY <1>5 DEF SpinsSet
  <1>7. /\ e \in DiagType
         /\ e.nlev = d.nlev /\ e.ring_next = d.ring_next /\ e.ring = d.ring
         /\ e.lev[l] = y /\ \A k \in SpinLevels : k # l => e.lev[k] = d.lev[k]
    BY LevelChanged
  <1>8. /\ LateAt(g, t) = n /\ HistAt(g, t) = n /\ NextAt(g, t) = n /\ FiledOf(g, t) = n
         /\ LateAt(notFiling, s) = n /\ HistAt(notFiling, s) = n
         /\ NextAt(notFiling, s) = n /\ FiledOf(notFiling, s) = n
    BY <1>1, <1>3 DEF LateAt, HistAt, NextAt, FiledOf, notFiling, Judging
  <1>9. n \in 0 .. Len(s)
    BY <1>1, <1>3
  <1>10. /\ \A k : Upto(OfLevel(t, k), n) = Upto(OfLevel(s, k), n)
         /\ \A k : Upto(LateOf(t, k), n) = Upto(LateOf(s, k), n)
         /\ \A k, b : Upto(InBin(t, k, b), n) = Upto(InBin(s, k, b), n)
         /\ Upto(AllLate(t), n) = Upto(AllLate(s), n)
    BY <1>4, <1>9, SameUpto
  <1>11. \A k : Upto(OfLevel(t, k), n + 1) =
                   IF k = l THEN Upto(OfLevel(s, k), n) + 1 ELSE Upto(OfLevel(s, k), n)
    <2> TAKE k
    <2>1. n + 1 \in OfLevel(t, k) <=> k = l
      BY <1>2, <1>3 DEF OfLevel
    <2>2. Upto(OfLevel(t, k), n + 1) =
             IF n + 1 \in OfLevel(t, k) THEN Upto(OfLevel(t, k), n) + 1 ELSE Upto(OfLevel(t, k), n)
      BY <1>3, UptoNext
    <2> QED
      BY <1>10, <2>1, <2>2
  <1>12. ASSUME NEW k \in SpinLevels PROVE LevelOk(e.lev[k], k, g, t)
    <2>1. PICK z, w : z = d.lev[k] /\ w = e.lev[k]
      OBVIOUS
    <2>2. LevelOk(z, k, notFiling, s)
      BY <2>1 DEF DiagOk
    <2>3. /\ w.late = z.late /\ w.max = z.max /\ w.hist = z.hist
          /\ w.spins = IF k = l THEN z.spins + 1 ELSE z.spins
      <3>1. CASE k = l
        BY <1>5, <1>6, <1>7, <2>1, <3>1
      <3>2. CASE k # l
        BY <1>7, <2>1, <3>2
      <3> QED
        BY <3>1, <3>2
    <2>4. w.spins = Upto(OfLevel(t, k), n + 1)
      BY <1>1, <1>11, <2>2, <2>3 DEF LevelOk
    <2>5. w.late = Upto(LateOf(t, k), n)
      BY <1>8, <1>10, <2>2, <2>3 DEF LevelOk
    <2>6. \A b \in 0 .. Bins - 1 : w.hist[b] = Upto(InBin(t, k, b), n)
      BY <1>8, <1>10, <2>2, <2>3 DEF LevelOk
    <2>7. \A i \in 1 .. n : t[i].level = k => t[i].late <= w.max
      BY <1>3, <1>8, <2>2, <2>3 DEF LevelOk
    <2> QED
      BY <1>3, <1>8, <2>1, <2>4, <2>5, <2>6, <2>7 DEF LevelOk
  <1>13. RingOk(e.ring_next, e.ring, g, t)
    <2>1. d.ring_next = Upto(AllLate(s), n) /\ RingRead(d.ring, s, n, n)
      BY <1>8 DEF DiagOk, RingOk
    <2>2. RingRead(d.ring, t, n, n)
      BY <1>4, <1>9, <2>1, RingLater
    <2> QED
      BY <1>7, <1>8, <1>10, <2>1, <2>2 DEF RingOk
  <1>14. FilingOk(g, t)
    BY <1>1, <1>3 DEF FilingOk, Judging
  <1>15. \A i \in 1 .. Len(t) : t[i].level <= e.nlev
    <2>1. \A i \in 1 .. n : s[i].level <= d.nlev
      BY <1>1 DEF DiagOk
    <2>2. ASSUME NEW i \in 1 .. n + 1 PROVE t[i].level <= e.nlev
      <3>1. CASE i = n + 1
        BY <1>2, <1>3, <1>7, <3>1
      <3>2. CASE i # n + 1
        <4>1. i \in 1 .. n
          BY <1>3, <3>2
        <4> QED
          BY <1>3, <1>7, <2>1, <4>1
      <3> QED
        BY <3>1, <3>2
    <2> QED
      BY <1>3, <2>2
  <1> QED
    BY <1>3, <1>4, <1>7, <1>12, <1>13, <1>14, <1>15 DEF DiagOk

\* What the last interval adds to each count.
LEMMA LastCounted ==
    ASSUME NEW s \in Seq(Intervals), NEW n, n = Len(s), n # 0
    PROVE  /\ n \in Nat /\ n - 1 \in Nat
           /\ \A k : Upto(LateOf(s, k), n) =
                 IF s[n].level = k /\ s[n].late >= LateFrom THEN Upto(LateOf(s, k), n - 1) + 1
                 ELSE Upto(LateOf(s, k), n - 1)
           /\ \A k, b : Upto(InBin(s, k, b), n) =
                 IF s[n].level = k /\ s[n].late # NoBound /\ binOf(s[n].late) = b
                 THEN Upto(InBin(s, k, b), n - 1) + 1 ELSE Upto(InBin(s, k, b), n - 1)
           /\ Upto(AllLate(s), n) =
                 IF s[n].late >= LateFrom THEN Upto(AllLate(s), n - 1) + 1
                 ELSE Upto(AllLate(s), n - 1)
  <1>1. n \in Nat /\ n - 1 \in Nat /\ (n - 1) + 1 = n /\ n \in 1 .. Len(s)
    OBVIOUS
  <1>2. \A Q : Upto(Q, n) = IF n \in Q THEN Upto(Q, n - 1) + 1 ELSE Upto(Q, n - 1)
    <2> TAKE Q
    <2>1. PICK m : m = n - 1
      OBVIOUS
    <2>2. m \in Nat /\ m + 1 = n
      BY <1>1, <2>1
    <2>3. Upto(Q, m + 1) = IF m + 1 \in Q THEN Upto(Q, m) + 1 ELSE Upto(Q, m)
      BY <2>2, UptoNext
    <2> QED
      BY <2>1, <2>2, <2>3
  <1>3. \A k : n \in LateOf(s, k) <=> s[n].level = k /\ s[n].late >= LateFrom
    BY <1>1 DEF LateOf
  <1>4. \A k, b : n \in InBin(s, k, b) <=>
           s[n].level = k /\ s[n].late # NoBound /\ binOf(s[n].late) = b
    BY <1>1 DEF InBin
  <1>5. n \in AllLate(s) <=> s[n].late >= LateFrom
    BY <1>1 DEF AllLate
  <1> QED
    BY <1>1, <1>2, <1>3, <1>4, <1>5

\* A store while the last interval is being filed is of its level.
LEMMA FilingStep ==
    ASSUME NEW d \in DiagType, NEW s \in Seq(Intervals), NEW f, f # notFiling, DiagOk(d, f, s),
           NEW x, x = d.lev[f.l],
           NEW g, FilingOk(g, s),
           NEW e \in DiagType, e.nlev = d.nlev, \A k \in SpinLevels : k # f.l => e.lev[k] = d.lev[k],
           NEW y, y = e.lev[f.l], y.spins = x.spins,
           y.late = Upto(LateOf(s, f.l), LateAt(g, s)),
           \A b \in 0 .. Bins - 1 : y.hist[b] = Upto(InBin(s, f.l, b), HistAt(g, s)),
           x.max <= y.max, g = notFiling => f.late <= y.max,
           RingOk(e.ring_next, e.ring, g, s)
    PROVE  DiagOk(e, g, s)
  <1>1. PICK n : n = Len(s)
    OBVIOUS
  <1>2. n # 0 /\ s[n] = [level |-> f.l, late |-> f.late]
    BY <1>1 DEF DiagOk, FilingOk
  <1>3. s[n].level = f.l /\ s[n].late = f.late
    BY <1>2
  <1>4. n \in Nat /\ n - 1 \in Nat /\ n \in 1 .. Len(s)
    BY <1>1, <1>2
  <1>5. f.l \in SpinLevels /\ \A i \in 1 .. n : s[i].late \in Lates /\ s[i].level \in SpinLevels
    <2>1. \A i \in 1 .. n : s[i] \in Intervals
      BY <1>1
    <2>2. \A i \in 1 .. n : s[i].late \in Lates /\ s[i].level \in SpinLevels
      BY <2>1 DEF Intervals
    <2> QED
      BY <1>3, <1>4, <2>2
  <1>6. {LateAt(f, s), LateAt(g, s), HistAt(f, s), HistAt(g, s)} \subseteq {n - 1, n}
    BY <1>1 DEF LateAt, HistAt
  <1>7. FiledOf(f, s) = n - 1 /\ FiledOf(g, s) = IF g = notFiling THEN n ELSE n - 1
    BY <1>1 DEF FiledOf
  <1>8. LevelOk(x, f.l, f, s)
    BY <1>5 DEF DiagOk
  <1>9. x \in LevelType /\ y \in LevelType
    BY <1>5 DEF DiagType
  <1>10. x.max \in Nat /\ y.max \in Nat
    BY <1>9 DEF LevelType
  <1>11. LevelOk(e.lev[f.l], f.l, g, s)
    <2>1. y.spins = Upto(OfLevel(s, f.l), Len(s))
      BY <1>8 DEF LevelOk
    <2>2. ASSUME NEW i \in 1 .. FiledOf(g, s), s[i].level = f.l PROVE s[i].late <= y.max
      <3>1. i \in 1 .. n /\ (i = n => g = notFiling)
        BY <1>4, <1>7, <2>2
      <3>2. CASE i = n
        BY <1>3, <3>1, <3>2
      <3>3. CASE i # n
        <4>1. i \in 1 .. FiledOf(f, s)
          BY <1>4, <1>7, <3>1, <3>3
        <4>2. s[i].late <= x.max
          BY <1>8, <2>2, <4>1 DEF LevelOk
        <4>3. s[i].late \in Int
          BY <1>5, <3>1, SpinTypes
        <4> QED
          BY <1>10, <4>2, <4>3
      <3> QED
        BY <3>2, <3>3
    <2> QED
      BY <2>1, <2>2 DEF LevelOk
  <1>12. ASSUME NEW k \in SpinLevels, k # f.l PROVE LevelOk(e.lev[k], k, g, s)
    <2>1. PICK z : z = d.lev[k]
      OBVIOUS
    <2>2. e.lev[k] = z
      BY <1>12, <2>1
    <2>3. LevelOk(z, k, f, s)
      BY <2>1 DEF DiagOk
    <2>4. Upto(LateOf(s, k), n) = Upto(LateOf(s, k), n - 1)
      BY <1>1, <1>2, <1>3, <1>12, LastCounted
    <2>5. \A b : Upto(InBin(s, k, b), n) = Upto(InBin(s, k, b), n - 1)
      BY <1>1, <1>2, <1>3, <1>12, LastCounted
    <2>6. z.late = Upto(LateOf(s, k), LateAt(g, s))
      BY <1>6, <2>3, <2>4 DEF LevelOk
    <2>7. \A b \in 0 .. Bins - 1 : z.hist[b] = Upto(InBin(s, k, b), HistAt(g, s))
      BY <1>6, <2>3, <2>5 DEF LevelOk
    <2>8. ASSUME NEW i \in 1 .. FiledOf(g, s), s[i].level = k PROVE s[i].late <= z.max
      <3>1. i \in 1 .. n /\ i # n
        BY <1>3, <1>4, <1>7, <1>12, <2>8
      <3>2. i \in 1 .. FiledOf(f, s)
        BY <1>4, <1>7, <3>1
      <3> QED
        BY <2>3, <2>8, <3>2 DEF LevelOk
    <2>9. z.spins = Upto(OfLevel(s, k), Len(s))
      BY <2>3 DEF LevelOk
    <2> QED
      BY <2>2, <2>6, <2>7, <2>8, <2>9 DEF LevelOk
  <1>13. \A i \in 1 .. Len(s) : s[i].level <= e.nlev
    BY DEF DiagOk
  <1> QED
    BY <1>11, <1>12, <1>13 DEF DiagOk

\* What is known of the interval being filed.
LEMMA FilingFacts ==
    ASSUME NEW d \in DiagType, NEW s \in Seq(Intervals), NEW f, f # notFiling, DiagOk(d, f, s),
           NEW n, n = Len(s)
    PROVE  /\ n \in Nat /\ n # 0 /\ n - 1 \in Nat /\ n \in 1 .. n
           /\ f.l \in SpinLevels /\ f.late \in Lates /\ s[n].level = f.l /\ s[n].late = f.late
           /\ f.pc \in {"judge", "late", "ring", "max"}
           /\ f.pc # "judge" => f.late # NoBound
           /\ f.pc \in {"late", "ring"} => f.late >= LateFrom
           /\ d.lev[f.l] \in LevelType /\ LevelOk(d.lev[f.l], f.l, f, s)
           /\ RingOk(d.ring_next, d.ring, f, s)
  <1>1. /\ n \in Nat /\ n # 0 /\ s[n] = [level |-> f.l, late |-> f.late]
        /\ f.pc \in {"judge", "late", "ring", "max"}
        /\ f.pc # "judge" => f.late # NoBound
        /\ f.pc \in {"late", "ring"} => f.late >= LateFrom
    BY DEF DiagOk, FilingOk
  <1>2. n \in 1 .. n /\ n - 1 \in Nat
    BY <1>1
  <1>3. s[n] \in Intervals
    BY <1>2
  <1>4. s[n].level = f.l /\ s[n].late = f.late
    BY <1>1
  <1>5. f.l \in SpinLevels /\ f.late \in Lates
    BY <1>3, <1>4 DEF Intervals
  <1>6. d.lev[f.l] \in LevelType
    BY <1>5 DEF DiagType
  <1>7. LevelOk(d.lev[f.l], f.l, f, s) /\ RingOk(d.ring_next, d.ring, f, s)
    BY <1>5 DEF DiagOk
  <1> QED
    BY <1>1, <1>2, <1>4, <1>5, <1>6, <1>7

\* An interval that is not late adds nothing to the ring.
LEMMA RingSkips ==
    ASSUME NEW s \in Seq(Intervals), NEW n, n = Len(s), n # 0, ~(s[n].late >= LateFrom),
           NEW ring, RingRead(ring, s, n - 1, n - 1)
    PROVE  RingRead(ring, s, n, n)
  <1>1. PICK Q : Q = AllLate(s)
    OBVIOUS
  <1>2. n \in Nat /\ n - 1 \in Nat /\ Upto(Q, n) = Upto(Q, n - 1)
    BY <1>1, LastCounted
  <1>3. n \notin Q
    BY <1>1 DEF AllLate
  <1>4. ASSUME NEW j \in 1 .. n, j \in Q, Upto(Q, j) + SpinRing > Upto(Q, n)
        PROVE  ring[(Upto(Q, j) - 1) % SpinRing] = s[j]
    <2>1. j \in 1 .. n - 1
      BY <1>2, <1>3, <1>4
    <2> QED
      BY <1>1, <1>2, <1>4, <2>1 DEF RingRead
  <1>5. /\ ring \in RingType
        /\ \A k \in 0 .. SpinRing - 1 : ring[k].level # 0 => ring[k].late >= LateFrom
    BY DEF RingRead
  <1> QED
    BY <1>1, <1>4, <1>5 DEF RingRead

\* No bound to judge by: the interval is only counted.
LEMMA UnboundOk ==
    ASSUME NEW d \in DiagType, NEW s \in Seq(Intervals), NEW f, f # notFiling, DiagOk(d, f, s),
           f.pc = "judge", f.late = NoBound,
           NEW y \in LevelType, SpinsSet(d.lev[f.l], y, d.lev[f.l].spins),
           NEW e, e = AtLevel(d, f.l, y)
    PROVE  e \in DiagType /\ DiagOk(e, notFiling, s)
  <1>1. PICK n, x : n = Len(s) /\ x = d.lev[f.l]
    OBVIOUS
  <1>2. /\ n \in Nat /\ n # 0 /\ n - 1 \in Nat
        /\ f.l \in SpinLevels /\ s[n].level = f.l /\ s[n].late = f.late
        /\ LevelOk(x, f.l, f, s) /\ RingOk(d.ring_next, d.ring, f, s) /\ x \in LevelType
    BY <1>1, FilingFacts
  <1>3. ~(s[n].late >= LateFrom)
    BY <1>2, SpinTypes
  <1>4. /\ Upto(LateOf(s, f.l), n) = Upto(LateOf(s, f.l), n - 1)
        /\ Upto(AllLate(s), n) = Upto(AllLate(s), n - 1)
        /\ \A b : Upto(InBin(s, f.l, b), n) = Upto(InBin(s, f.l, b), n - 1)
    BY <1>1, <1>2, <1>3, LastCounted
  <1>5. /\ LateAt(f, s) = n - 1 /\ HistAt(f, s) = n - 1 /\ NextAt(f, s) = n - 1
        /\ LateAt(notFiling, s) = n /\ HistAt(notFiling, s) = n /\ NextAt(notFiling, s) = n
    BY <1>1 DEF LateAt, HistAt, NextAt, notFiling
  <1>6. y.spins = x.spins /\ y.late = x.late /\ y.hist = x.hist /\ y.max = x.max
    BY <1>1 DEF SpinsSet
  <1>7. y.late = Upto(LateOf(s, f.l), LateAt(notFiling, s))
    BY <1>2, <1>4, <1>5, <1>6 DEF LevelOk
  <1>8. \A b \in 0 .. Bins - 1 : y.hist[b] = Upto(InBin(s, f.l, b), HistAt(notFiling, s))
    BY <1>2, <1>4, <1>5, <1>6 DEF LevelOk
  <1>9. /\ e \in DiagType /\ e.nlev = d.nlev /\ e.ring_next = d.ring_next /\ e.ring = d.ring
        /\ e.lev[f.l] = y /\ \A k \in SpinLevels : k # f.l => e.lev[k] = d.lev[k]
    BY <1>2, LevelChanged
  <1>10. RingRead(d.ring, s, n, n)
    <2>1. RingRead(d.ring, s, n - 1, n - 1)
      BY <1>2, <1>5 DEF RingOk
    <2> QED
      BY <1>1, <1>2, <1>3, <2>1, RingSkips
  <1>11. RingOk(e.ring_next, e.ring, notFiling, s)
    BY <1>2, <1>4, <1>5, <1>9, <1>10 DEF RingOk
  <1>12. x.max <= y.max /\ f.late <= y.max
    <2>1. x.max \in Nat
      BY <1>2 DEF LevelType
    <2> QED
      BY <1>6, <2>1, SpinTypes
  <1>13. FilingOk(notFiling, s)
    BY DEF FilingOk
  <1>14. DiagOk(e, notFiling, s)
    BY <1>1, <1>6, <1>7, <1>8, <1>9, <1>11, <1>12, <1>13, FilingStep
  <1> QED
    BY <1>9, <1>14

\* h is hist with one more in bin b; ring has r at k; c is d with that ring.
Bumped(hist, b, h) == h = [hist EXCEPT ![b] = @ + 1]
RingSet(old, k, r, ring) == ring = [old EXCEPT ![k] = r]
WithRing(d, ring) == [d EXCEPT !.ring = ring]

\* A judged interval is in its bin.
LEMMA HistOk ==
    ASSUME NEW d \in DiagType, NEW s \in Seq(Intervals), NEW f, f # notFiling, DiagOk(d, f, s),
           f.pc = "judge", f.late # NoBound,
           NEW h, Bumped(d.lev[f.l].hist, binOf(f.late), h),
           NEW y \in LevelType, HistSet(d.lev[f.l], y, h),
           NEW e, e = AtLevel(d, f.l, y),
           NEW g, g # notFiling, g.l = f.l, g.late = f.late,
           g.pc = IF f.late >= LateFrom THEN "late" ELSE "max"
    PROVE  e \in DiagType /\ DiagOk(e, g, s)
  <1>1. PICK n, x : n = Len(s) /\ x = d.lev[f.l]
    OBVIOUS
  <1>2. /\ n \in Nat /\ n # 0 /\ n - 1 \in Nat
        /\ f.l \in SpinLevels /\ f.late \in Lates /\ s[n].level = f.l /\ s[n].late = f.late
        /\ LevelOk(x, f.l, f, s) /\ RingOk(d.ring_next, d.ring, f, s) /\ x \in LevelType
    BY <1>1, FilingFacts
  <1>3. f.late \in Nat
    BY <1>2, SpinTypes
  <1>4. PICK b : b = binOf(f.late)
    OBVIOUS
  <1>5. b \in 0 .. Bins - 1
    BY <1>3, <1>4, BinType
  <1>6. /\ LateAt(f, s) = n - 1 /\ HistAt(f, s) = n - 1 /\ NextAt(f, s) = n - 1 /\ HistAt(g, s) = n
        /\ f.late >= LateFrom => LateAt(g, s) = n - 1 /\ NextAt(g, s) = n - 1
        /\ ~(f.late >= LateFrom) => LateAt(g, s) = n /\ NextAt(g, s) = n
    BY <1>1 DEF LateAt, HistAt, NextAt
  <1>7. y.spins = x.spins /\ y.late = x.late /\ y.hist = h /\ y.max = x.max
    BY <1>1 DEF HistSet
  <1>8. x.hist \in [0 .. Bins - 1 -> Nat]
    BY <1>2 DEF LevelType
  <1>9. \A c \in 0 .. Bins - 1 : h[c] = IF c = b THEN x.hist[c] + 1 ELSE x.hist[c]
    BY <1>1, <1>4, <1>8 DEF Bumped
  <1>10. ASSUME NEW c \in 0 .. Bins - 1 PROVE y.hist[c] = Upto(InBin(s, f.l, c), HistAt(g, s))
    <2>1. Upto(InBin(s, f.l, c), n) =
             IF s[n].level = f.l /\ s[n].late # NoBound /\ binOf(s[n].late) = c
             THEN Upto(InBin(s, f.l, c), n - 1) + 1 ELSE Upto(InBin(s, f.l, c), n - 1)
      BY <1>1, <1>2, LastCounted
    <2>2. (s[n].level = f.l /\ s[n].late # NoBound /\ binOf(s[n].late) = c) <=> c = b
      BY <1>2, <1>4
    <2>3. x.hist[c] = Upto(InBin(s, f.l, c), n - 1)
      BY <1>2, <1>6 DEF LevelOk
    <2> QED
      BY <1>6, <1>7, <1>9, <2>1, <2>2, <2>3
  <1>11. x.late = Upto(LateOf(s, f.l), n - 1) /\ d.ring_next = Upto(AllLate(s), n - 1)
         /\ RingRead(d.ring, s, n - 1, n - 1)
    BY <1>2, <1>6 DEF LevelOk, RingOk
  <1>12. ~(f.late >= LateFrom) => /\ Upto(LateOf(s, f.l), n) = Upto(LateOf(s, f.l), n - 1)
                                  /\ Upto(AllLate(s), n) = Upto(AllLate(s), n - 1)
                                  /\ RingRead(d.ring, s, n, n)
    <2> SUFFICES ASSUME ~(f.late >= LateFrom)
                 PROVE  /\ Upto(LateOf(s, f.l), n) = Upto(LateOf(s, f.l), n - 1)
                        /\ Upto(AllLate(s), n) = Upto(AllLate(s), n - 1)
                        /\ RingRead(d.ring, s, n, n)
      OBVIOUS
    <2>1. ~(s[n].late >= LateFrom)
      BY <1>2
    <2>2. RingRead(d.ring, s, n, n)
      BY <1>1, <1>2, <1>11, <2>1, RingSkips
    <2> QED
      BY <1>1, <1>2, <2>1, <2>2, LastCounted
  <1>13. y.late = Upto(LateOf(s, f.l), LateAt(g, s))
    BY <1>6, <1>7, <1>11, <1>12
  <1>14. /\ e \in DiagType /\ e.nlev = d.nlev /\ e.ring_next = d.ring_next /\ e.ring = d.ring
         /\ e.lev[f.l] = y /\ \A k \in SpinLevels : k # f.l => e.lev[k] = d.lev[k]
    BY <1>2, LevelChanged
  <1>15. RingOk(e.ring_next, e.ring, g, s)
    BY <1>6, <1>11, <1>12, <1>14 DEF RingOk
  <1>16. x.max <= y.max
    BY <1>2, <1>7 DEF LevelType
  <1>17. FilingOk(g, s)
    <2>1. s[Len(s)] = [level |-> g.l, late |-> g.late]
      BY DEF DiagOk, FilingOk
    <2> QED
      BY <1>1, <1>2, <2>1 DEF FilingOk
  <1>18. DiagOk(e, g, s)
    BY <1>1, <1>7, <1>10, <1>13, <1>14, <1>15, <1>16, <1>17, FilingStep
  <1> QED
    BY <1>14, <1>18

\* The late record is in the ring before its index tells of it.
LEMMA LateOk ==
    ASSUME NEW d \in DiagType, NEW s \in Seq(Intervals), NEW f, f # notFiling, DiagOk(d, f, s),
           f.pc = "late",
           NEW y \in LevelType, LateSet(d.lev[f.l], y, d.lev[f.l].late + 1),
           NEW c, c = AtLevel(d, f.l, y),
           NEW ring,
           RingSet(d.ring, d.ring_next % SpinRing, [level |-> f.l, late |-> f.late], ring),
           NEW e, e = WithRing(c, ring),
           NEW g, g # notFiling, g.l = f.l, g.late = f.late, g.pc = "ring"
    PROVE  e \in DiagType /\ DiagOk(e, g, s)
  <1>1. PICK n, x : n = Len(s) /\ x = d.lev[f.l]
    OBVIOUS
  <1>2. /\ n \in Nat /\ n # 0 /\ n - 1 \in Nat /\ n \in 1 .. n
        /\ f.l \in SpinLevels /\ f.late \in Lates /\ s[n].level = f.l /\ s[n].late = f.late
        /\ f.late # NoBound /\ f.late >= LateFrom
        /\ LevelOk(x, f.l, f, s) /\ RingOk(d.ring_next, d.ring, f, s) /\ x \in LevelType
    BY <1>1, FilingFacts
  <1>3. f.late \in Nat /\ f.l \in Nat /\ f.l # 0
    BY <1>2, SpinTypes
  <1>4. /\ LateAt(f, s) = n - 1 /\ HistAt(f, s) = n /\ NextAt(f, s) = n - 1
        /\ LateAt(g, s) = n /\ HistAt(g, s) = n /\ NextAt(g, s) = n - 1
    BY <1>1 DEF LateAt, HistAt, NextAt
  <1>5. y.spins = x.spins /\ y.late = x.late + 1 /\ y.hist = x.hist /\ y.max = x.max
    BY <1>1 DEF LateSet
  <1>6. PICK Q : Q = AllLate(s)
    OBVIOUS
  <1>7. PICK m : m = Upto(Q, n - 1)
    OBVIOUS
  <1>8. /\ Upto(LateOf(s, f.l), n) = Upto(LateOf(s, f.l), n - 1) + 1
        /\ Upto(Q, n) = m + 1 /\ m \in Nat
    <2>1. /\ Upto(LateOf(s, f.l), n) = Upto(LateOf(s, f.l), n - 1) + 1
          /\ Upto(Q, n) = m + 1
      BY <1>1, <1>2, <1>6, <1>7, LastCounted
    <2> QED
      BY <1>2, <1>7, <2>1, UptoNat
  <1>9. y.late = Upto(LateOf(s, f.l), LateAt(g, s))
    BY <1>2, <1>4, <1>5, <1>8 DEF LevelOk
  <1>10. \A b \in 0 .. Bins - 1 : y.hist[b] = Upto(InBin(s, f.l, b), HistAt(g, s))
    BY <1>2, <1>4, <1>5 DEF LevelOk
  <1>11. /\ c \in DiagType /\ c.nlev = d.nlev /\ c.ring_next = d.ring_next /\ c.ring = d.ring
         /\ c.lev[f.l] = y /\ \A k \in SpinLevels : k # f.l => c.lev[k] = d.lev[k]
    BY <1>2, LevelChanged
  <1>12. d.ring_next = m /\ RingRead(d.ring, s, n - 1, n - 1)
    BY <1>2, <1>4, <1>6, <1>7 DEF RingOk
  <1>13. PICK k : k = m % SpinRing
    OBVIOUS
  <1>14. k \in 0 .. SpinRing - 1
    BY <1>8, <1>13, SpinTypes
  <1>15. d.ring \in RingType
    BY DEF DiagType
  <1>16. /\ ring \in RingType /\ ring[k] = [level |-> f.l, late |-> f.late]
         /\ \A j \in 0 .. SpinRing - 1 : j # k => ring[j] = d.ring[j]
    BY <1>3, <1>12, <1>13, <1>14, <1>15 DEF RingType, RingSet
  <1>17. /\ e \in DiagType /\ e.nlev = d.nlev /\ e.ring_next = d.ring_next /\ e.ring = ring
         /\ e.lev = c.lev
    <2>1. c \in DiagType
      BY <1>11
    <2> QED
      BY <1>11, <1>16, <2>1 DEF DiagType, WithRing
  <1>18. RingRead(ring, s, n, n)
    <2>1. ASSUME NEW j \in 1 .. n, j \in Q, Upto(Q, j) + SpinRing > Upto(Q, n)
          PROVE  ring[(Upto(Q, j) - 1) % SpinRing] = s[j]
      <3>1. PICK u : u = Upto(Q, j)
        OBVIOUS
      <3>2. u \in Nat /\ u > 0
        <4>1. j \in 0 + 1 .. j /\ j \in Nat /\ 0 <= j
          OBVIOUS
        <4>2. Upto(Q, 0) = 0 /\ Upto(Q, j) \in Nat
          BY <4>1, UptoNat
        <4>3. Upto(Q, 0) < Upto(Q, j)
          BY <2>1, <4>1, UptoGrows
        <4> QED
          BY <3>1, <4>2, <4>3
      <3>3. CASE j = n
        <4>1. (u - 1) % SpinRing = k
          BY <1>8, <1>13, <3>1, <3>3
        <4>2. s[n] = [level |-> f.l, late |-> f.late]
          BY <1>1, <1>2, <1>3 DEF DiagOk, FilingOk
        <4> QED
          BY <1>16, <3>1, <3>3, <4>1, <4>2
      <3>4. CASE j # n
        <4>1. j \in 1 .. n - 1 /\ j \in Nat /\ j <= n - 1
          BY <1>2, <3>4
        <4>2. u <= m
          BY <1>2, <1>7, <3>1, <4>1, UptoGrows
        <4>3. u - 1 \in Nat /\ u - 1 < m /\ m - (u - 1) < SpinRing /\ u + SpinRing > m
          BY <1>8, <2>1, <3>1, <3>2, <4>2, SpinTypes
        <4>4. (u - 1) % SpinRing # m % SpinRing
          <5>1. SpinRing \in Nat \ {0}
            BY SpinTypes
          <5> QED
            BY <1>8, <4>3, <5>1, SlotsDiffer
        <4>5. (u - 1) % SpinRing \in 0 .. SpinRing - 1
          BY <4>3, SpinTypes
        <4>6. d.ring[(u - 1) % SpinRing] = s[j]
          BY <1>6, <1>7, <1>12, <2>1, <3>1, <4>1, <4>3 DEF RingRead
        <4> QED
          BY <1>13, <1>16, <3>1, <4>4, <4>5, <4>6
      <3> QED
        BY <3>3, <3>4
    <2>2. \A j \in 0 .. SpinRing - 1 : ring[j].level # 0 => ring[j].late >= LateFrom
      <3>1. \A j \in 0 .. SpinRing - 1 : d.ring[j].level # 0 => d.ring[j].late >= LateFrom
        BY <1>12 DEF RingRead
      <3>2. ring[k].late >= LateFrom
        BY <1>2, <1>16
      <3> QED
        BY <1>16, <3>1, <3>2
    <2> QED
      BY <1>6, <1>16, <2>1, <2>2 DEF RingRead
  <1>19. RingOk(e.ring_next, e.ring, g, s)
    BY <1>4, <1>6, <1>7, <1>12, <1>17, <1>18 DEF RingOk
  <1>20. x.max <= y.max
    BY <1>2, <1>5 DEF LevelType
  <1>21. FilingOk(g, s)
    <2>1. s[Len(s)] = [level |-> g.l, late |-> g.late]
      BY DEF DiagOk, FilingOk
    <2> QED
      BY <1>1, <1>2, <2>1 DEF FilingOk
  <1>22. e.lev[f.l] = y /\ \A j \in SpinLevels : j # f.l => e.lev[j] = d.lev[j]
    BY <1>11, <1>17
  <1>23. DiagOk(e, g, s)
    BY <1>1, <1>5, <1>9, <1>10, <1>17, <1>19, <1>20, <1>21, <1>22, FilingStep
  <1> QED
    BY <1>17, <1>23

\* c is d with another index, or with another number of levels.
WithNext(d, k) == [d EXCEPT !.ring_next = k]
WithLevels(d, k) == [d EXCEPT !.nlev = k]

\* The index tells of the late record.
LEMMA NextOk ==
    ASSUME NEW d \in DiagType, NEW s \in Seq(Intervals), NEW f, f # notFiling, DiagOk(d, f, s),
           f.pc = "ring",
           NEW e, e = WithNext(d, d.ring_next + 1),
           NEW g, g # notFiling, g.l = f.l, g.late = f.late, g.pc = "max"
    PROVE  e \in DiagType /\ DiagOk(e, g, s)
  <1>1. PICK n, x : n = Len(s) /\ x = d.lev[f.l]
    OBVIOUS
  <1>2. /\ n \in Nat /\ n # 0 /\ n - 1 \in Nat
        /\ f.l \in SpinLevels /\ s[n].level = f.l /\ s[n].late = f.late
        /\ f.late # NoBound /\ f.late >= LateFrom
        /\ LevelOk(x, f.l, f, s) /\ RingOk(d.ring_next, d.ring, f, s) /\ x \in LevelType
    BY <1>1, FilingFacts
  <1>3. /\ LateAt(f, s) = n /\ HistAt(f, s) = n /\ NextAt(f, s) = n - 1
        /\ LateAt(g, s) = n /\ HistAt(g, s) = n /\ NextAt(g, s) = n
    BY <1>1 DEF LateAt, HistAt, NextAt
  <1>4. d.ring_next \in Nat
    BY DEF DiagType
  <1>5. /\ e \in DiagType /\ e.nlev = d.nlev /\ e.ring_next = d.ring_next + 1 /\ e.ring = d.ring
        /\ e.lev = d.lev
    BY <1>4 DEF DiagType, WithNext
  <1>6. Upto(AllLate(s), n) = Upto(AllLate(s), n - 1) + 1
    BY <1>1, <1>2, LastCounted
  <1>7. RingOk(e.ring_next, e.ring, g, s)
    BY <1>2, <1>3, <1>5, <1>6 DEF RingOk
  <1>8. x.late = Upto(LateOf(s, f.l), LateAt(g, s))
    BY <1>2, <1>3 DEF LevelOk
  <1>9. \A b \in 0 .. Bins - 1 : x.hist[b] = Upto(InBin(s, f.l, b), HistAt(g, s))
    BY <1>2, <1>3 DEF LevelOk
  <1>10. x.max <= x.max
    BY <1>2 DEF LevelType
  <1>11. FilingOk(g, s)
    <2>1. s[Len(s)] = [level |-> g.l, late |-> g.late]
      BY DEF DiagOk, FilingOk
    <2> QED
      BY <1>1, <1>2, <2>1 DEF FilingOk
  <1>12. x = e.lev[f.l] /\ \A k \in SpinLevels : k # f.l => e.lev[k] = d.lev[k]
    BY <1>1, <1>5
  <1>13. DiagOk(e, g, s)
    BY <1>1, <1>5, <1>7, <1>8, <1>9, <1>10, <1>11, <1>12, FilingStep
  <1> QED
    BY <1>5, <1>13

\* The greater of two.
LEMMA MaxOfTwo ==
    ASSUME NEW a \in Int, NEW b \in Int
    PROVE  Max({a, b}) \in {a, b} /\ a <= Max({a, b}) /\ b <= Max({a, b})
  <1>1. PICK m : m = Max({a, b})
    OBVIOUS
  <1>2. m = CHOOSE x \in {a, b} : \A y \in {a, b} : x >= y
    BY <1>1 DEF Max
  <1>3. CASE a <= b
    BY <1>1, <1>2, <1>3
  <1>4. CASE a > b
    BY <1>1, <1>2, <1>4
  <1> QED
    BY <1>3, <1>4

\* The last store: the interval is filed.
LEMMA MaxOk ==
    ASSUME NEW d \in DiagType, NEW s \in Seq(Intervals), NEW f, f # notFiling, DiagOk(d, f, s),
           f.pc = "max",
           NEW y, MaxSet(d.lev[f.l], y, Max({d.lev[f.l].max, f.late})),
           y.max \in Nat => y \in LevelType,
           NEW e, e = AtLevel(d, f.l, y)
    PROVE  e \in DiagType /\ DiagOk(e, notFiling, s)
  <1>1. PICK n, x : n = Len(s) /\ x = d.lev[f.l]
    OBVIOUS
  <1>2. /\ n \in Nat /\ n # 0 /\ n - 1 \in Nat
        /\ f.l \in SpinLevels /\ f.late \in Lates /\ s[n].level = f.l /\ s[n].late = f.late
        /\ f.late # NoBound
        /\ LevelOk(x, f.l, f, s) /\ RingOk(d.ring_next, d.ring, f, s) /\ x \in LevelType
    BY <1>1, FilingFacts
  <1>3. /\ LateAt(f, s) = n /\ HistAt(f, s) = n /\ NextAt(f, s) = n
        /\ LateAt(notFiling, s) = n /\ HistAt(notFiling, s) = n /\ NextAt(notFiling, s) = n
    BY <1>1 DEF LateAt, HistAt, NextAt, notFiling
  <1>4. y.spins = x.spins /\ y.late = x.late /\ y.hist = x.hist /\ y.max = Max({x.max, f.late})
    BY <1>1 DEF MaxSet
  <1>5. x.max \in Nat /\ f.late \in Nat
    BY <1>2, SpinTypes DEF LevelType
  <1>6. y.max \in Nat /\ x.max <= y.max /\ f.late <= y.max
    <2>1. x.max \in Int /\ f.late \in Int
      BY <1>5
    <2>2. Max({x.max, f.late}) \in {x.max, f.late} /\ x.max <= Max({x.max, f.late})
          /\ f.late <= Max({x.max, f.late})
      BY <2>1, MaxOfTwo
    <2> QED
      BY <1>4, <1>5, <2>2
  <1>7. /\ e \in DiagType /\ e.nlev = d.nlev /\ e.ring_next = d.ring_next /\ e.ring = d.ring
        /\ e.lev[f.l] = y /\ \A k \in SpinLevels : k # f.l => e.lev[k] = d.lev[k]
    BY <1>2, <1>6, LevelChanged
  <1>8. y.late = Upto(LateOf(s, f.l), LateAt(notFiling, s))
    BY <1>2, <1>3, <1>4 DEF LevelOk
  <1>9. \A b \in 0 .. Bins - 1 : y.hist[b] = Upto(InBin(s, f.l, b), HistAt(notFiling, s))
    BY <1>2, <1>3, <1>4 DEF LevelOk
  <1>10. RingOk(e.ring_next, e.ring, notFiling, s)
    BY <1>2, <1>3, <1>7 DEF RingOk
  <1>11. FilingOk(notFiling, s)
    BY DEF FilingOk
  <1>12. DiagOk(e, notFiling, s)
    BY <1>1, <1>4, <1>6, <1>7, <1>8, <1>9, <1>10, <1>11, FilingStep
  <1> QED
    BY <1>7, <1>12

\* A level more has nothing yet.
LEMMA RegisterOk ==
    ASSUME NEW d \in DiagType, NEW s \in Seq(Intervals), DiagOk(d, notFiling, s),
           NEW l \in SpinLevels, l = d.nlev + 1, NEW e, e = WithLevels(d, l)
    PROVE  e \in DiagType /\ DiagOk(e, notFiling, s)
  <1>1. /\ e \in DiagType /\ e.nlev = l /\ e.ring_next = d.ring_next /\ e.ring = d.ring
        /\ e.lev = d.lev
    BY SpinTypes DEF DiagType, WithLevels
  <1>2. ASSUME NEW i \in 1 .. Len(s) PROVE s[i].level <= l
    <2>1. s[i].level <= d.nlev /\ s[i] \in Intervals /\ d.nlev \in Nat
      BY SpinTypes DEF DiagOk, DiagType
    <2>2. s[i].level \in Nat
      BY <2>1, SpinTypes DEF Intervals
    <2> QED
      BY <2>1, <2>2
  <1> QED
    BY <1>1, <1>2 DEF DiagOk

-----------------------------------------------------------------------------
(* The reads.                                                              *)

ReadType == [done : BOOLEAN, nlev : 0 .. LastLevel, ring_next : Nat,
             lev : [SpinLevels -> LevelType], ring : RingType \union {<<>>}]

\* The first q pieces of r were read in the window.
ReadOk(r, s, from, to, q) ==
    /\ q > 0 => HeadRead(r, s, from, to)
    /\ \A l \in SpinLevels : q > 2 * l - 1 => CountsRead(r.lev[l], s, l, from, to)
    /\ \A l \in SpinLevels : q > 2 * l => HistRead(r.lev[l], s, l, from, to)
    /\ q > 2 * LastLevel + 1 => RingRead(r.ring, s, from, to)

\* ... which begins with intervals that are filed and ends with one begun.
HalfOk(r, from, to, q, f, s) ==
    /\ r \in ReadType /\ from \in Nat /\ to \in Nat /\ Len(s) \in Nat /\ FiledOf(f, s) \in Nat
    /\ from <= FiledOf(f, s) /\ from <= to /\ to <= Len(s) /\ FiledOf(f, s) <= Len(s)
    /\ ReadOk(r, s, from, to, q)

\* The words of a level that only grow.
Grown(x, y) == x.spins <= y.spins /\ x.late <= y.late

LEMMA HalfLater ==
    ASSUME NEW r, NEW from, NEW to, NEW q, NEW f, NEW s, HalfOk(r, from, to, q, f, s),
           NEW g, NEW t, Longer(s, t), FiledOf(f, s) <= FiledOf(g, t), FiledOf(g, t) \in Nat,
           FiledOf(g, t) <= Len(t),
           NEW later \in Nat, to <= later, later <= Len(t)
    PROVE  HalfOk(r, from, later, q, g, t)
  <1>1. /\ r \in ReadType /\ from \in 0 .. Len(s) /\ to \in 0 .. Len(s) /\ Len(s) \in Nat
        /\ FiledOf(f, s) \in Nat /\ from <= FiledOf(f, s) /\ from <= to /\ ReadOk(r, s, from, to, q)
    BY DEF HalfOk
  <1>2. Len(t) \in Nat
    BY DEF Longer
  <1>3. q > 0 => HeadRead(r, t, from, later)
    <2> HAVE q > 0
    <2>1. HeadRead(r, s, from, to)
      BY <1>1 DEF ReadOk
    <2>2. r.ring_next \in Nat
      BY <1>1 DEF ReadType
    <2> QED
      BY <1>1, <2>1, <2>2, HeadLater
  <1>4. ASSUME NEW l \in SpinLevels
        PROVE  /\ q > 2 * l - 1 => CountsRead(r.lev[l], t, l, from, later)
               /\ q > 2 * l => HistRead(r.lev[l], t, l, from, later)
    <2>1. PICK x : x = r.lev[l]
      OBVIOUS
    <2>2. x \in LevelType
      BY <1>1, <2>1 DEF ReadType
    <2>3. /\ CountsRead(x, s, l, from, to) => CountsRead(x, t, l, from, later)
          /\ HistRead(x, s, l, from, to) => HistRead(x, t, l, from, later)
      BY <1>1, <2>2, LevelLater
    <2> QED
      BY <1>1, <2>1, <2>3 DEF ReadOk
  <1>5. q > 2 * LastLevel + 1 => RingRead(r.ring, t, from, later)
    <2> HAVE q > 2 * LastLevel + 1
    <2>1. PICK ring, Q : ring = r.ring /\ Q = AllLate(t)
      OBVIOUS
    <2>2. RingRead(ring, s, from, to)
      BY <1>1, <2>1 DEF ReadOk
    <2>3. RingRead(ring, t, from, to)
      BY <1>1, <2>2, RingLater
    <2>4. Upto(Q, to) <= Upto(Q, later) /\ Upto(Q, to) \in Nat /\ Upto(Q, later) \in Nat
      <3>1. to \in Nat
        BY DEF HalfOk
      <3> QED
        BY <3>1, UptoGrows, UptoNat
    <2>5. ASSUME NEW j \in 1 .. from, j \in Q, Upto(Q, j) + SpinRing > Upto(Q, later)
          PROVE  ring[(Upto(Q, j) - 1) % SpinRing] = t[j]
      <3>1. Upto(Q, j) \in Nat /\ SpinRing \in Nat
        <4>1. j \in Nat
          BY <1>1
        <4> QED
          BY <4>1, UptoNat, SpinTypes
      <3>2. Upto(Q, j) + SpinRing > Upto(Q, to)
        BY <2>4, <2>5, <3>1
      <3> QED
        BY <2>1, <2>3, <2>5, <3>2 DEF RingRead
    <2> QED
      BY <2>1, <2>3, <2>5 DEF RingRead
  <1>6. ReadOk(r, t, from, later, q)
    BY <1>3, <1>4, <1>5 DEF ReadOk
  <1> QED
    BY <1>1, <1>2, <1>6 DEF HalfOk

\* What the reader finds in the record.
LEMMA DiagRead ==
    ASSUME NEW d \in DiagType, NEW s \in Seq(Intervals), NEW f, DiagOk(d, f, s),
           NEW from \in Nat, from <= FiledOf(f, s)
    PROVE  /\ HeadRead(d, s, from, Len(s))
           /\ \A l \in SpinLevels : /\ CountsRead(d.lev[l], s, l, from, Len(s))
                                    /\ HistRead(d.lev[l], s, l, from, Len(s))
           /\ RingRead(d.ring, s, from, Len(s))
  <1>1. PICK n, m, h, k : n = Len(s) /\ m = LateAt(f, s) /\ h = HistAt(f, s) /\ k = NextAt(f, s)
    OBVIOUS
  <1>2. n \in Nat /\ FiledOf(f, s) \in {n - 1, n} /\ (f # notFiling => n # 0)
    BY <1>1 DEF FiledOf, DiagOk, FilingOk
  <1>3. /\ m \in {n - 1, n} /\ FiledOf(f, s) <= m /\ h \in {n - 1, n} /\ FiledOf(f, s) <= h
        /\ k \in {n - 1, n} /\ FiledOf(f, s) <= k
    <2>1. CASE f = notFiling
      BY <1>1, <1>2, <2>1 DEF FiledOf, LateAt, HistAt, NextAt, notFiling
    <2>2. CASE f # notFiling
      BY <1>1, <1>2, <2>2 DEF FiledOf, LateAt, HistAt, NextAt
    <2> QED
      BY <2>1, <2>2
  <1>4. /\ m \in Nat /\ from <= m /\ m <= n /\ h \in Nat /\ from <= h /\ h <= n
        /\ k \in Nat /\ from <= k /\ k <= n /\ from <= n
    BY <1>2, <1>3
  <1>5. \A Q : Counts(Upto(Q, m), Q, from, n) /\ Counts(Upto(Q, h), Q, from, n)
               /\ Counts(Upto(Q, k), Q, from, n) /\ Counts(Upto(Q, n), Q, from, n)
    <2> TAKE Q
    <2>1. Upto(Q, from) <= Upto(Q, m) /\ Upto(Q, m) <= Upto(Q, n)
      BY <1>2, <1>4, UptoGrows
    <2>2. Upto(Q, from) <= Upto(Q, h) /\ Upto(Q, h) <= Upto(Q, n)
      BY <1>2, <1>4, UptoGrows
    <2>3. Upto(Q, from) <= Upto(Q, k) /\ Upto(Q, k) <= Upto(Q, n)
      BY <1>2, <1>4, UptoGrows
    <2>4. Upto(Q, n) \in Nat /\ Upto(Q, from) <= Upto(Q, n)
      BY <1>2, <1>4, UptoGrows, UptoNat
    <2> QED
      BY <2>1, <2>2, <2>3, <2>4 DEF Counts
  <1>6. HeadRead(d, s, from, n)
    <2>1. d.ring_next = Upto(AllLate(s), k)
      BY <1>1 DEF DiagOk, RingOk
    <2>2. \A i \in 1 .. from : s[i].level <= d.nlev
      BY <1>1, <1>2, <1>4 DEF DiagOk
    <2> QED
      BY <1>5, <2>1, <2>2 DEF HeadRead
  <1>7. ASSUME NEW l \in SpinLevels
        PROVE  CountsRead(d.lev[l], s, l, from, n) /\ HistRead(d.lev[l], s, l, from, n)
    <2>1. PICK x : x = d.lev[l]
      OBVIOUS
    <2>2. LevelOk(x, l, f, s)
      BY <2>1 DEF DiagOk
    <2>3. Counts(x.spins, OfLevel(s, l), from, n) /\ Counts(x.late, LateOf(s, l), from, n)
      BY <1>1, <1>5, <2>2 DEF LevelOk
    <2>4. \A b \in 0 .. Bins - 1 : Counts(x.hist[b], InBin(s, l, b), from, n)
      BY <1>1, <1>5, <2>2 DEF LevelOk
    <2>5. \A i \in 1 .. from : s[i].level = l => s[i].late <= x.max
      BY <1>2, <2>2 DEF LevelOk
    <2> QED
      BY <2>1, <2>3, <2>4, <2>5 DEF CountsRead, HistRead
  <1>8. RingRead(d.ring, s, from, n)
    <2>1. PICK Q : Q = AllLate(s)
      OBVIOUS
    <2>2. RingRead(d.ring, s, m, m)
      BY <1>1 DEF DiagOk, RingOk
    <2>3. Upto(Q, m) <= Upto(Q, n) /\ Upto(Q, m) \in Nat /\ Upto(Q, n) \in Nat
      BY <1>2, <1>4, UptoGrows, UptoNat
    <2>4. ASSUME NEW j \in 1 .. from, j \in Q, Upto(Q, j) + SpinRing > Upto(Q, n)
          PROVE  d.ring[(Upto(Q, j) - 1) % SpinRing] = s[j]
      <3>1. j \in Nat /\ j \in 1 .. m
        BY <1>4
      <3>2. Upto(Q, j) \in Nat /\ SpinRing \in Nat
        BY <3>1, UptoNat, SpinTypes
      <3>3. Upto(Q, j) + SpinRing > Upto(Q, m)
        BY <2>3, <2>4, <3>2
      <3> QED
        BY <2>1, <2>2, <2>4, <3>1, <3>3 DEF RingRead
    <2> QED
      BY <2>1, <2>2, <2>4 DEF RingRead
  <1> QED
    BY <1>1, <1>6, <1>7, <1>8

\* The head is read.
LEMMA HalfHead ==
    ASSUME NEW d \in DiagType, NEW s \in Seq(Intervals), NEW f, DiagOk(d, f, s),
           NEW r \in ReadType, r.nlev = d.nlev, r.ring_next = d.ring_next
    PROVE  HalfOk(r, FiledOf(f, s), Len(s), 1, f, s)
  <1>1. PICK n, m : n = Len(s) /\ m = FiledOf(f, s)
    OBVIOUS
  <1>2. n \in Nat /\ m \in Nat /\ m <= n
    BY <1>1 DEF FiledOf, DiagOk, FilingOk
  <1>3. HeadRead(d, s, m, n)
    BY <1>1, <1>2, DiagRead
  <1>4. HeadRead(r, s, m, n)
    BY <1>3 DEF HeadRead
  <1>5. ReadOk(r, s, m, n, 1)
    <2>1. \A l \in SpinLevels : ~(1 > 2 * l - 1) /\ ~(1 > 2 * l)
      BY SpinTypes
    <2>2. ~(1 > 2 * LastLevel + 1)
      BY SpinTypes
    <2> QED
      BY <1>4, <2>1, <2>2 DEF ReadOk
  <1> QED
    BY <1>1, <1>2, <1>5 DEF HalfOk

\* Then the counts of level l ...
LEMMA HalfCounts ==
    ASSUME NEW d \in DiagType, NEW s \in Seq(Intervals), NEW f, DiagOk(d, f, s),
           NEW l \in SpinLevels, NEW r, NEW from, HalfOk(r, from, Len(s), 2 * l - 1, f, s),
           NEW x, x = d.lev[l],
           NEW y, y.spins = x.spins, y.late = x.late, y.max = x.max,
           NEW w \in ReadType, w.nlev = r.nlev, w.ring_next = r.ring_next, w.lev[l] = y,
           \A k \in SpinLevels : k # l => w.lev[k] = r.lev[k]
    PROVE  HalfOk(w, from, Len(s), 2 * l, f, s)
  <1>1. PICK n : n = Len(s)
    OBVIOUS
  <1>2. /\ from \in Nat /\ n \in Nat /\ FiledOf(f, s) \in Nat /\ from <= FiledOf(f, s)
        /\ from <= n /\ FiledOf(f, s) <= n /\ ReadOk(r, s, from, n, 2 * l - 1)
    BY <1>1 DEF HalfOk
  <1>3. l \in Nat /\ l > 0 /\ l <= LastLevel /\ LastLevel \in Nat
        /\ \A k \in SpinLevels : k \in Nat
    BY SpinTypes
  <1>4. HeadRead(w, s, from, n)
    <2>1. HeadRead(r, s, from, n)
      BY <1>2, <1>3 DEF ReadOk
    <2> QED
      BY <2>1 DEF HeadRead
  <1>5. ASSUME NEW k \in SpinLevels, 2 * l > 2 * k - 1 PROVE CountsRead(w.lev[k], s, k, from, n)
    <2>1. CASE k = l
      <3>1. CountsRead(x, s, l, from, n)
        BY <1>1, <1>2, DiagRead
      <3>2. CountsRead(y, s, l, from, n)
        BY <3>1 DEF CountsRead
      <3> QED
        BY <2>1, <3>2
    <2>2. CASE k # l
      <3>1. 2 * l - 1 > 2 * k - 1
        BY <1>3, <1>5, <2>2
      <3> QED
        BY <1>2, <2>2, <3>1 DEF ReadOk
    <2> QED
      BY <2>1, <2>2
  <1>6. ASSUME NEW k \in SpinLevels, 2 * l > 2 * k PROVE HistRead(w.lev[k], s, k, from, n)
    <2>1. k # l /\ 2 * l - 1 > 2 * k
      BY <1>3, <1>6
    <2> QED
      BY <1>2, <2>1 DEF ReadOk
  <1>7. ~(2 * l > 2 * LastLevel + 1)
    BY <1>3
  <1>8. ReadOk(w, s, from, n, 2 * l)
    BY <1>4, <1>5, <1>6, <1>7 DEF ReadOk
  <1> QED
    BY <1>1, <1>2, <1>8 DEF HalfOk

\* ... and its histogram ...
LEMMA HalfHist ==
    ASSUME NEW d \in DiagType, NEW s \in Seq(Intervals), NEW f, DiagOk(d, f, s),
           NEW l \in SpinLevels, NEW r, NEW from, HalfOk(r, from, Len(s), 2 * l, f, s),
           NEW x, x = r.lev[l],
           NEW y, y.spins = x.spins, y.late = x.late, y.max = x.max, y.hist = d.lev[l].hist,
           NEW w \in ReadType, w.nlev = r.nlev, w.ring_next = r.ring_next, w.lev[l] = y,
           \A k \in SpinLevels : k # l => w.lev[k] = r.lev[k]
    PROVE  HalfOk(w, from, Len(s), 2 * l + 1, f, s)
  <1>1. PICK n : n = Len(s)
    OBVIOUS
  <1>2. /\ from \in Nat /\ n \in Nat /\ FiledOf(f, s) \in Nat /\ from <= FiledOf(f, s)
        /\ from <= n /\ FiledOf(f, s) <= n /\ ReadOk(r, s, from, n, 2 * l)
    BY <1>1 DEF HalfOk
  <1>3. l \in Nat /\ l > 0 /\ l <= LastLevel /\ LastLevel \in Nat
        /\ \A k \in SpinLevels : k \in Nat
    BY SpinTypes
  <1>4. HeadRead(w, s, from, n)
    <2>1. HeadRead(r, s, from, n)
      BY <1>2, <1>3 DEF ReadOk
    <2> QED
      BY <2>1 DEF HeadRead
  <1>5. ASSUME NEW k \in SpinLevels, 2 * l + 1 > 2 * k - 1 PROVE CountsRead(w.lev[k], s, k, from, n)
    <2>1. 2 * l > 2 * k - 1
      BY <1>3, <1>5
    <2>2. CountsRead(r.lev[k], s, k, from, n)
      BY <1>2, <2>1 DEF ReadOk
    <2>3. CASE k = l
      <3>1. CountsRead(y, s, l, from, n)
        BY <2>2, <2>3 DEF CountsRead
      <3> QED
        BY <2>3, <3>1
    <2>4. CASE k # l
      BY <2>2, <2>4
    <2> QED
      BY <2>3, <2>4
  <1>6. ASSUME NEW k \in SpinLevels, 2 * l + 1 > 2 * k PROVE HistRead(w.lev[k], s, k, from, n)
    <2>1. CASE k = l
      <3>1. HistRead(d.lev[l], s, l, from, n)
        BY <1>1, <1>2, DiagRead
      <3>2. HistRead(y, s, l, from, n)
        BY <3>1 DEF HistRead
      <3> QED
        BY <2>1, <3>2
    <2>2. CASE k # l
      <3>1. 2 * l > 2 * k
        BY <1>3, <1>6, <2>2
      <3> QED
        BY <1>2, <2>2, <3>1 DEF ReadOk
    <2> QED
      BY <2>1, <2>2
  <1>7. ~(2 * l + 1 > 2 * LastLevel + 1)
    BY <1>3
  <1>8. ReadOk(w, s, from, n, 2 * l + 1)
    BY <1>4, <1>5, <1>6, <1>7 DEF ReadOk
  <1> QED
    BY <1>1, <1>2, <1>8 DEF HalfOk

\* ... and the ring at the end.
LEMMA HalfRing ==
    ASSUME NEW d \in DiagType, NEW s \in Seq(Intervals), NEW f, DiagOk(d, f, s),
           NEW r, NEW from, HalfOk(r, from, Len(s), 2 * LastLevel + 1, f, s),
           NEW w \in ReadType, w.nlev = r.nlev, w.ring_next = r.ring_next, w.lev = r.lev,
           w.ring = d.ring
    PROVE  HalfOk(w, from, Len(s), 2 * LastLevel + 2, f, s)
  <1>1. PICK n : n = Len(s)
    OBVIOUS
  <1>2. /\ from \in Nat /\ n \in Nat /\ FiledOf(f, s) \in Nat /\ from <= FiledOf(f, s)
        /\ from <= n /\ FiledOf(f, s) <= n /\ ReadOk(r, s, from, n, 2 * LastLevel + 1)
    BY <1>1 DEF HalfOk
  <1>3. /\ LastLevel \in Nat /\ 2 * LastLevel + 1 > 0
        /\ \A k \in SpinLevels : 2 * LastLevel + 1 > 2 * k - 1 /\ 2 * LastLevel + 1 > 2 * k
    BY SpinTypes
  <1>4. HeadRead(w, s, from, n)
    <2>1. HeadRead(r, s, from, n)
      BY <1>2, <1>3 DEF ReadOk
    <2> QED
      BY <2>1 DEF HeadRead
  <1>5. \A k \in SpinLevels : CountsRead(w.lev[k], s, k, from, n) /\ HistRead(w.lev[k], s, k, from, n)
    BY <1>2, <1>3 DEF ReadOk
  <1>6. RingRead(w.ring, s, from, n)
    BY <1>1, <1>2, DiagRead
  <1>7. ReadOk(w, s, from, n, 2 * LastLevel + 2)
    BY <1>4, <1>5, <1>6 DEF ReadOk
  <1> QED
    BY <1>1, <1>2, <1>7 DEF HalfOk

-----------------------------------------------------------------------------
(* Every step.                                                             *)

FilingType == [pc : {"-", "judge", "late", "ring", "max"}, l : Nat, late : Int]

\* The record went from one filing to the next.
Advanced(d, f, s, e, g, t) ==
    /\ e \in DiagType /\ g \in FilingType /\ t \in Seq(Intervals) /\ DiagOk(e, g, t) /\ Longer(s, t)
    /\ FiledOf(f, s) <= FiledOf(g, t) /\ LateAt(f, s) <= LateAt(g, t)

GrownOk(pre, act, d, p, q) ==
    /\ \A l \in SpinLevels : p > 2 * l - 1 => Grown(pre.lev[l], d.lev[l])
    /\ \A l \in SpinLevels : q > 2 * l - 1 => Grown(pre.lev[l], act.lev[l])

\* How many pieces each read has, and when the last of them was read.
AllPieces == 2 * LastLevel + 2
PreHas == IF reads.pre.done THEN AllPieces ELSE piece
ActHas == IF reads.act.done THEN AllPieces ELSE IF reads.pre.done THEN piece ELSE 0
PreTo == IF reads.pre.done THEN span.pre[2] ELSE Len(begun)
ActTo == IF reads.act.done THEN span.act[2] ELSE Len(begun)

ImageSound ==
    /\ diag \in DiagType /\ filing \in FilingType /\ begun \in Seq(Intervals)
    /\ DiagOk(diag, filing, begun)

Windows(u) == u = [pre |-> <<u.pre[1], u.pre[2]>>, act |-> <<u.act[1], u.act[2]>>]

ReadsSound ==
    /\ reads = [pre |-> reads.pre, act |-> reads.act]
    /\ Windows(span)
    /\ piece \in 0 .. 2 * LastLevel + 1
    /\ reads.act.done => reads.pre.done
    /\ HalfOk(reads.pre, span.pre[1], PreTo, PreHas, filing, begun)
    /\ HalfOk(reads.act, span.act[1], ActTo, ActHas, filing, begun)
    /\ ActHas > 0 => span.pre[1] <= span.act[1] /\ span.pre[2] <= span.act[1] + 1
    /\ GrownOk(reads.pre, reads.act, diag, PreHas, ActHas)

LEMMA WordsGrow ==
    ASSUME NEW d \in DiagType, NEW f, NEW s \in Seq(Intervals), DiagOk(d, f, s),
           NEW e, NEW g, NEW t, Advanced(d, f, s, e, g, t)
    PROVE  \A l \in SpinLevels : Grown(d.lev[l], e.lev[l])
  <1> SUFFICES ASSUME NEW l \in SpinLevels PROVE Grown(d.lev[l], e.lev[l])
    OBVIOUS
  <1>1. PICK x, y, m, k : x = d.lev[l] /\ y = e.lev[l] /\ m = LateAt(f, s) /\ k = LateAt(g, t)
    OBVIOUS
  <1>2. LevelOk(x, l, f, s) /\ LevelOk(y, l, g, t) /\ DiagOk(e, g, t) /\ Longer(s, t) /\ m <= k
    BY <1>1 DEF Advanced, DiagOk
  <1>3. Len(s) \in Nat /\ Len(t) \in Nat /\ Len(s) <= Len(t)
    BY <1>2 DEF Longer
  <1>4. /\ m \in {Len(s) - 1, Len(s)} /\ k \in {Len(t) - 1, Len(t)}
        /\ (m = Len(s) - 1 => Len(s) # 0) /\ (k = Len(t) - 1 => Len(t) # 0)
    <2>1. f = notFiling \/ Len(s) # 0
      BY DEF DiagOk, FilingOk
    <2>2. g = notFiling \/ Len(t) # 0
      BY <1>2 DEF DiagOk, FilingOk
    <2> QED
      BY <1>1, <1>3, <2>1, <2>2 DEF LateAt, notFiling
  <1>5. m \in 0 .. Len(s) /\ m \in Nat /\ k \in Nat /\ Len(s) \in 0 .. Len(s)
    BY <1>3, <1>4
  <1>6. x.spins = Upto(OfLevel(s, l), Len(s)) /\ x.late = Upto(LateOf(s, l), m)
    BY <1>1, <1>2 DEF LevelOk
  <1>7. y.spins = Upto(OfLevel(t, l), Len(t)) /\ y.late = Upto(LateOf(t, l), k)
    BY <1>1, <1>2 DEF LevelOk
  <1>8. Upto(OfLevel(t, l), Len(s)) = Upto(OfLevel(s, l), Len(s))
    BY <1>2, <1>5, SameUpto
  <1>9. Upto(LateOf(t, l), m) = Upto(LateOf(s, l), m)
    BY <1>2, <1>5, SameUpto
  <1>10. Upto(OfLevel(t, l), Len(s)) <= Upto(OfLevel(t, l), Len(t))
    BY <1>3, UptoGrows
  <1>11. Upto(LateOf(t, l), m) <= Upto(LateOf(t, l), k)
    BY <1>2, <1>5, UptoGrows
  <1> QED
    BY <1>1, <1>6, <1>7, <1>8, <1>9, <1>10, <1>11 DEF Grown

\* The image's steps leave the reads as they are.
LEMMA ImageKeeps ==
    /\ ImageSound /\ ReadsSound /\ ~reads.act.done
    /\ Advanced(diag, filing, begun, diag', filing', begun')
    /\ UNCHANGED <<piece, reads, span>>
    => ImageSound' /\ ReadsSound'
  <1> SUFFICES ASSUME ImageSound, ReadsSound, ~reads.act.done,
                      Advanced(diag, filing, begun, diag', filing', begun'),
                      UNCHANGED <<piece, reads, span>>
               PROVE  ImageSound' /\ ReadsSound'
    OBVIOUS
  <1>1. PICK f, s, g, t : f = filing /\ s = begun /\ g = filing' /\ t = begun'
    OBVIOUS
  <1>2. PICK pre, act, p1, a1, p, q, to :
           /\ pre = reads.pre /\ act = reads.act /\ p1 = span.pre[1] /\ a1 = span.act[1]
           /\ p = PreHas /\ q = ActHas /\ to = PreTo
    OBVIOUS
  <1>3. ImageSound'
    BY DEF ImageSound, Advanced
  <1>4. /\ Longer(s, t) /\ FiledOf(f, s) <= FiledOf(g, t)
        /\ Len(t) \in Nat /\ Len(s) \in Nat /\ Len(s) <= Len(t)
    BY <1>1 DEF Advanced, Longer
  <1>5. FiledOf(g, t) \in Nat /\ FiledOf(g, t) <= Len(t)
    <2>1. g = notFiling \/ Len(t) # 0
      BY <1>1, <1>3 DEF ImageSound, DiagOk, FilingOk
    <2> QED
      BY <1>4, <2>1 DEF FiledOf
  <1>6. /\ PreHas' = p /\ ActHas' = q /\ ActTo' = Len(t)
        /\ PreTo' = IF pre.done THEN to ELSE Len(t)
    BY <1>1, <1>2 DEF PreHas, ActHas, ActTo, PreTo
  <1>7. HalfOk(pre, p1, IF pre.done THEN to ELSE Len(t), p, g, t)
    <2>1. HalfOk(pre, p1, to, p, f, s)
      BY <1>1, <1>2 DEF ReadsSound
    <2>2. to \in Nat /\ to <= Len(s)
      BY <2>1 DEF HalfOk
    <2>3. PICK later : later = IF pre.done THEN to ELSE Len(t)
      OBVIOUS
    <2>4. later \in Nat /\ to <= later /\ later <= Len(t)
      BY <1>4, <2>2, <2>3
    <2>5. HalfOk(pre, p1, later, p, g, t)
      BY <1>4, <1>5, <2>1, <2>4, HalfLater
    <2> QED
      BY <2>3, <2>5
  <1>8. HalfOk(act, a1, Len(t), q, g, t)
    <2>1. HalfOk(act, a1, Len(s), q, f, s)
      BY <1>1, <1>2 DEF ReadsSound, ActTo
    <2> QED
      BY <1>4, <1>5, <2>1, HalfLater
  <1>9. GrownOk(pre, act, diag', p, q)
    <2>1. \A l \in SpinLevels : Grown(diag.lev[l], diag'.lev[l])
      BY WordsGrow DEF ImageSound
    <2>2. GrownOk(pre, act, diag, p, q)
      BY <1>2 DEF ReadsSound
    <2>3. ASSUME NEW l \in SpinLevels, p > 2 * l - 1 PROVE Grown(pre.lev[l], diag'.lev[l])
      <3>1. PICK x, y, z : x = pre.lev[l] /\ y = diag.lev[l] /\ z = diag'.lev[l]
        OBVIOUS
      <3>2. Grown(x, y) /\ Grown(y, z)
        BY <2>1, <2>2, <2>3, <3>1 DEF GrownOk
      <3>3. x \in LevelType /\ y \in LevelType /\ z \in LevelType
        <4>1. pre \in ReadType
          BY <1>7 DEF HalfOk
        <4>2. diag \in DiagType /\ diag' \in DiagType
          BY <1>3 DEF ImageSound
        <4> QED
          BY <3>1, <4>1, <4>2 DEF ReadType, DiagType
      <3>4. {x.spins, y.spins, z.spins, x.late, y.late, z.late} \subseteq Nat
        BY <3>3 DEF LevelType
      <3>5. x.spins <= y.spins /\ x.late <= y.late /\ y.spins <= z.spins /\ y.late <= z.late
        BY <3>2 DEF Grown
      <3>6. x.spins <= z.spins /\ x.late <= z.late
        BY <3>4, <3>5
      <3> QED
        BY <3>1, <3>6 DEF Grown
    <2> QED
      BY <2>2, <2>3 DEF GrownOk
  <1>10. piece' = piece /\ reads' = reads /\ span' = span
    OBVIOUS
  <1>11. ReadsSound'
    BY <1>1, <1>2, <1>6, <1>7, <1>8, <1>9, <1>10 DEF ReadsSound
  <1> QED
    BY <1>3, <1>11

LEMMA EmptyLevel == emptyLevel \in LevelType
  <1>1. Bins - 1 \in Int
    BY SpinTypes
  <1> QED
    BY DEF emptyLevel, LevelType

\* One more interval.
LEMMA CountMoves ==
    ASSUME ImageSound, NEW l \in SpinLevels, NEW v \in Lates, closeCount(l, v)
    PROVE  Advanced(diag, filing, begun, diag', filing', begun')
  <1>1. PICK x, y : x = diag.lev[l] /\ y = [x EXCEPT !.spins = x.spins + 1]
    OBVIOUS
  <1>2. diag \in DiagType /\ begun \in Seq(Intervals) /\ DiagOk(diag, notFiling, begun)
        /\ filing = notFiling
    BY DEF ImageSound, closeCount
  <1>3. x \in LevelType
    BY <1>1, <1>2 DEF DiagType
  <1>4. y \in LevelType /\ SpinsSet(x, y, x.spins + 1)
    <2>1. x.spins + 1 \in Nat
      BY <1>3 DEF LevelType
    <2> QED
      BY <1>1, <1>3, <2>1 DEF LevelType, SpinsSet
  <1>5. diag' = AtLevel(diag, l, y)
    BY <1>1, <1>2 DEF closeCount, AtLevel, DiagType
  <1>6. /\ l <= diag.nlev /\ filing' = [pc |-> "judge", l |-> l, late |-> v]
        /\ begun' = Append(begun, [level |-> l, late |-> v])
    BY DEF closeCount
  <1>7. diag' \in DiagType /\ begun' \in Seq(Intervals) /\ Longer(begun, begun')
        /\ DiagOk(diag', filing', begun')
    <2>1. SpinsSet(diag.lev[l], y, diag.lev[l].spins + 1) /\ y \in LevelType
      BY <1>1, <1>4
    <2>2. PICK e, g, t : e = diag' /\ g = filing' /\ t = begun'
      OBVIOUS
    <2>3. e = AtLevel(diag, l, y) /\ g = Judging(l, v) /\ t = WithInterval(begun, l, v)
      BY <1>5, <1>6, <2>2 DEF Judging, WithInterval
    <2>4. l <= diag.nlev
      BY <1>6
    <2>5. e \in DiagType /\ t \in Seq(Intervals) /\ Longer(begun, t) /\ DiagOk(e, g, t)
      BY <1>2, <2>1, <2>3, <2>4, CountOk
    <2> QED
      BY <2>2, <2>5
  <1>8. filing' \in FilingType
    BY <1>6, SpinTypes DEF FilingType
  <1>9. Len(begun') = Len(begun) + 1 /\ Len(begun) \in Nat
    <2>1. [level |-> l, late |-> v] \in Intervals
      BY DEF Intervals
    <2> QED
      BY <1>2, <1>6, <2>1
  <1>10. /\ FiledOf(filing, begun) <= FiledOf(filing', begun')
         /\ LateAt(filing, begun) <= LateAt(filing', begun')
    BY <1>2, <1>6, <1>9 DEF FiledOf, LateAt, notFiling
  <1> QED
    BY <1>7, <1>8, <1>10 DEF Advanced

\* A store of the interval being filed.
StoreOf(e, g) ==
    /\ e \in DiagType /\ g \in FilingType /\ DiagOk(e, g, begun) /\ begun' = begun
    /\ filing # notFiling
    /\ filing.pc \in {"ring", "max"} => g.pc \notin {"judge", "late"}

LEMMA StoreMoves ==
    ASSUME ImageSound, StoreOf(diag', filing')
    PROVE  Advanced(diag, filing, begun, diag', filing', begun')
  <1>1. begun \in Seq(Intervals) /\ DiagOk(diag, filing, begun) /\ begun' = begun
        /\ filing # notFiling
    BY DEF ImageSound, StoreOf
  <1>2. Len(begun) \in Nat /\ filing.pc \in {"judge", "late", "ring", "max"}
    BY <1>1 DEF DiagOk, FilingOk
  <1>3. Longer(begun, begun)
    BY <1>2 DEF Longer
  <1>4. FiledOf(filing, begun) <= FiledOf(filing', begun)
    BY <1>1, <1>2 DEF FiledOf
  <1>5. LateAt(filing, begun) <= LateAt(filing', begun)
    BY <1>2 DEF LateAt, StoreOf
  <1> QED
    BY <1>1, <1>3, <1>4, <1>5 DEF Advanced, StoreOf

LEMMA UnboundMoves ==
    ASSUME ImageSound, closeUnbound
    PROVE  Advanced(diag, filing, begun, diag', filing', begun')
  <1>1. PICK f, x, y : f = filing /\ x = diag.lev[f.l] /\ y = [x EXCEPT !.nobound = x.nobound + 1]
    OBVIOUS
  <1>2. /\ diag \in DiagType /\ begun \in Seq(Intervals) /\ DiagOk(diag, f, begun)
        /\ f \in FilingType /\ f.pc = "judge" /\ f.late = NoBound /\ f # notFiling
        /\ filing' = notFiling /\ begun' = begun
    BY <1>1 DEF ImageSound, closeUnbound, Filing, notFiling
  <1>3. f.l \in SpinLevels /\ x \in LevelType
    BY <1>1, <1>2, FilingFacts
  <1>4. y \in LevelType /\ SpinsSet(x, y, x.spins)
    <2>1. x.nobound + 1 \in Nat
      BY <1>3 DEF LevelType
    <2> QED
      BY <1>1, <1>3, <2>1 DEF LevelType, SpinsSet
  <1>5. diag' = AtLevel(diag, f.l, y)
    BY <1>1, <1>2 DEF closeUnbound, AtLevel, DiagType
  <1>6. diag' \in DiagType /\ DiagOk(diag', notFiling, begun)
    BY <1>1, <1>2, <1>4, <1>5, UnboundOk
  <1>7. StoreOf(diag', filing')
    BY <1>1, <1>2, <1>6 DEF StoreOf, FilingType, notFiling
  <1> QED
    BY <1>7, StoreMoves

LEMMA HistMoves ==
    ASSUME ImageSound, closeHist
    PROVE  Advanced(diag, filing, begun, diag', filing', begun')
  <1>1. PICK f, x, b : f = filing /\ x = diag.lev[f.l] /\ b = binOf(f.late)
    OBVIOUS
  <1>2. PICK h : h = [x.hist EXCEPT ![b] = x.hist[b] + 1]
    OBVIOUS
  <1>3. PICK y : y = [x EXCEPT !.hist = h]
    OBVIOUS
  <1>4. /\ diag \in DiagType /\ begun \in Seq(Intervals) /\ DiagOk(diag, f, begun)
        /\ f \in FilingType /\ f.pc = "judge" /\ f.late # NoBound /\ f # notFiling
        /\ begun' = begun
        /\ filing' = [f EXCEPT !.pc = IF f.late >= LateFrom THEN "late" ELSE "max"]
    BY <1>1 DEF ImageSound, closeHist, Filing, notFiling
  <1>5. f.l \in SpinLevels /\ x \in LevelType /\ f.late \in Nat
    BY <1>1, <1>4, FilingFacts, SpinTypes
  <1>6. h \in [0 .. Bins - 1 -> Nat] /\ Bumped(x.hist, b, h)
    <2>1. x.hist \in [0 .. Bins - 1 -> Nat] /\ b \in 0 .. Bins - 1
      BY <1>1, <1>5, BinType DEF LevelType
    <2>2. x.hist[b] \in Nat
      BY <2>1
    <2>3. x.hist[b] + 1 \in Nat
      BY <2>2
    <2> QED
      BY <1>2, <2>1, <2>3 DEF Bumped
  <1>7. y \in LevelType /\ HistSet(x, y, h)
    BY <1>3, <1>5, <1>6 DEF LevelType, HistSet
  <1>8. diag' = AtLevel(diag, f.l, y)
    BY <1>1, <1>2, <1>3, <1>4 DEF closeHist, AtLevel, DiagType
  <1>9. PICK g : g = filing'
    OBVIOUS
  <1>10. /\ g \in FilingType /\ g # notFiling /\ g.l = f.l /\ g.late = f.late
         /\ g.pc = IF f.late >= LateFrom THEN "late" ELSE "max"
    BY <1>4, <1>9 DEF FilingType, notFiling
  <1>11. diag' \in DiagType /\ DiagOk(diag', g, begun)
    <2>1. Bumped(diag.lev[f.l].hist, binOf(f.late), h) /\ HistSet(diag.lev[f.l], y, h)
      BY <1>1, <1>6, <1>7
    <2> QED
      BY <1>4, <1>7, <1>8, <1>10, <2>1, HistOk
  <1>12. StoreOf(diag', filing')
    BY <1>1, <1>4, <1>9, <1>10, <1>11 DEF StoreOf
  <1> QED
    BY <1>12, StoreMoves

LEMMA LateMoves ==
    ASSUME ImageSound, closeLate
    PROVE  Advanced(diag, filing, begun, diag', filing', begun')
  <1>1. PICK f, x, y : f = filing /\ x = diag.lev[f.l] /\ y = [x EXCEPT !.late = x.late + 1]
    OBVIOUS
  <1>2. /\ diag \in DiagType /\ begun \in Seq(Intervals) /\ DiagOk(diag, f, begun)
        /\ f \in FilingType /\ f.pc = "late" /\ f # notFiling
        /\ begun' = begun /\ filing' = [f EXCEPT !.pc = "ring"]
    BY <1>1 DEF ImageSound, closeLate, Filing, notFiling
  <1>3. f.l \in SpinLevels /\ x \in LevelType
    BY <1>1, <1>2, FilingFacts
  <1>4. y \in LevelType /\ LateSet(x, y, x.late + 1)
    <2>1. x.late + 1 \in Nat
      BY <1>3 DEF LevelType
    <2> QED
      BY <1>1, <1>3, <2>1 DEF LevelType, LateSet
  <1>5. PICK c, ring : /\ c = AtLevel(diag, f.l, y)
                       /\ RingSet(diag.ring, diag.ring_next % SpinRing,
                                  [level |-> f.l, late |-> f.late], ring)
    BY DEF RingSet
  <1>6. diag' = WithRing(c, ring)
    BY <1>1, <1>2, <1>5 DEF closeLate, AtLevel, DiagType, WithRing, RingSet
  <1>7. PICK g : g = filing'
    OBVIOUS
  <1>8. g \in FilingType /\ g # notFiling /\ g.l = f.l /\ g.late = f.late /\ g.pc = "ring"
    BY <1>2, <1>7 DEF FilingType, notFiling
  <1>9. diag' \in DiagType /\ DiagOk(diag', g, begun)
    BY <1>1, <1>2, <1>4, <1>5, <1>6, <1>8, LateOk
  <1>10. StoreOf(diag', filing')
    BY <1>1, <1>2, <1>7, <1>8, <1>9 DEF StoreOf
  <1> QED
    BY <1>10, StoreMoves

LEMMA NextMoves ==
    ASSUME ImageSound, closeRing
    PROVE  Advanced(diag, filing, begun, diag', filing', begun')
  <1>1. PICK f : f = filing
    OBVIOUS
  <1>2. /\ diag \in DiagType /\ begun \in Seq(Intervals) /\ DiagOk(diag, f, begun)
        /\ f \in FilingType /\ f.pc = "ring" /\ f # notFiling
        /\ begun' = begun /\ filing' = [f EXCEPT !.pc = "max"]
    BY <1>1 DEF ImageSound, closeRing, Filing, notFiling
  <1>3. diag' = WithNext(diag, diag.ring_next + 1)
    BY <1>2 DEF closeRing, WithNext, DiagType
  <1>4. PICK g : g = filing'
    OBVIOUS
  <1>5. g \in FilingType /\ g # notFiling /\ g.l = f.l /\ g.late = f.late /\ g.pc = "max"
    BY <1>2, <1>4 DEF FilingType, notFiling
  <1>6. diag' \in DiagType /\ DiagOk(diag', g, begun)
    BY <1>2, <1>3, <1>5, NextOk
  <1>7. StoreOf(diag', filing')
    BY <1>1, <1>2, <1>4, <1>5, <1>6 DEF StoreOf
  <1> QED
    BY <1>7, StoreMoves

LEMMA MaxMoves ==
    ASSUME ImageSound, closeMax
    PROVE  Advanced(diag, filing, begun, diag', filing', begun')
  <1>1. PICK f, x, y : f = filing /\ x = diag.lev[f.l] /\ y = [x EXCEPT !.max = Max({x.max, f.late})]
    OBVIOUS
  <1>2. /\ diag \in DiagType /\ begun \in Seq(Intervals) /\ DiagOk(diag, f, begun)
        /\ f \in FilingType /\ f.pc = "max" /\ f # notFiling
        /\ filing' = notFiling /\ begun' = begun
    BY <1>1 DEF ImageSound, closeMax, Filing, notFiling
  <1>3. f.l \in SpinLevels /\ x \in LevelType
    BY <1>1, <1>2, FilingFacts
  <1>4. MaxSet(x, y, Max({x.max, f.late})) /\ (y.max \in Nat => y \in LevelType)
    BY <1>1, <1>3 DEF LevelType, MaxSet
  <1>5. diag' = AtLevel(diag, f.l, y)
    BY <1>1, <1>2 DEF closeMax, AtLevel, DiagType
  <1>6. diag' \in DiagType /\ DiagOk(diag', notFiling, begun)
    BY <1>1, <1>2, <1>4, <1>5, MaxOk
  <1>7. StoreOf(diag', filing')
    BY <1>1, <1>2, <1>6 DEF StoreOf, FilingType, notFiling
  <1> QED
    BY <1>7, StoreMoves

LEMMA RegisterMoves ==
    ASSUME ImageSound, NEW l \in SpinLevels, sd_register(l)
    PROVE  Advanced(diag, filing, begun, diag', filing', begun')
  <1>1. /\ diag \in DiagType /\ begun \in Seq(Intervals) /\ DiagOk(diag, notFiling, begun)
        /\ filing = notFiling /\ filing' = filing /\ begun' = begun /\ l = diag.nlev + 1
        /\ filing \in FilingType
    BY DEF ImageSound, sd_register
  <1>2. diag' = WithLevels(diag, l)
    BY DEF sd_register, WithLevels
  <1>3. diag' \in DiagType /\ DiagOk(diag', notFiling, begun)
    BY <1>1, <1>2, RegisterOk
  <1>4. Len(begun) \in Nat /\ Longer(begun, begun)
    BY <1>1 DEF Longer
  <1>5. LateAt(filing, begun) \in Int /\ FiledOf(filing, begun) \in Int
    BY <1>4 DEF LateAt, FiledOf
  <1> QED
    BY <1>1, <1>3, <1>4, <1>5 DEF Advanced

\* w is r with the head of the record, the counts of a level, its histogram,
\* or the ring.
HeadTaken(w, r, d) == w = [r EXCEPT !.nlev = d.nlev, !.ring_next = d.ring_next]
CountsTaken(w, r, d, l) == w = [r EXCEPT !.lev[l] = [d.lev[l] EXCEPT !.hist = emptyLevel.hist]]
HistTaken(w, r, d, l) == w = [r EXCEPT !.lev[l] = [r.lev[l] EXCEPT !.hist = d.lev[l].hist]]
RingTaken(w, r, d) == w = [r EXCEPT !.ring = d.ring, !.done = TRUE]

LEMMA HeadTakes ==
    ASSUME NEW d \in DiagType, NEW r \in ReadType, NEW w, HeadTaken(w, r, d)
    PROVE  w \in ReadType /\ w.done = r.done /\ w.nlev = d.nlev /\ w.ring_next = d.ring_next
  BY DEF HeadTaken, DiagType, ReadType

LEMMA CountsTakes ==
    ASSUME NEW d \in DiagType, NEW r \in ReadType, NEW l \in SpinLevels,
           NEW w, CountsTaken(w, r, d, l)
    PROVE  /\ w \in ReadType /\ w.done = r.done /\ w.nlev = r.nlev /\ w.ring_next = r.ring_next
           /\ w.lev[l].spins = d.lev[l].spins /\ w.lev[l].late = d.lev[l].late
           /\ w.lev[l].max = d.lev[l].max
           /\ \A k \in SpinLevels : k # l => w.lev[k] = r.lev[k]
  <1>1. PICK x, y : x = d.lev[l] /\ y = [x EXCEPT !.hist = emptyLevel.hist]
    OBVIOUS
  <1>2. x \in LevelType
    BY <1>1 DEF DiagType
  <1>3. emptyLevel.hist \in [0 .. Bins - 1 -> Nat]
    BY EmptyLevel DEF LevelType
  <1>4. y \in LevelType /\ y.spins = x.spins /\ y.late = x.late /\ y.max = x.max
    BY <1>1, <1>2, <1>3 DEF LevelType
  <1>5. w = [r EXCEPT !.lev[l] = y]
    BY <1>1 DEF CountsTaken
  <1>6. /\ w \in ReadType /\ w.done = r.done /\ w.nlev = r.nlev /\ w.ring_next = r.ring_next
        /\ w.lev[l] = y /\ \A k \in SpinLevels : k # l => w.lev[k] = r.lev[k]
    BY <1>4, <1>5 DEF ReadType
  <1> QED
    BY <1>1, <1>4, <1>6

LEMMA HistTakes ==
    ASSUME NEW d \in DiagType, NEW r \in ReadType, NEW l \in SpinLevels,
           NEW w, HistTaken(w, r, d, l)
    PROVE  /\ w \in ReadType /\ w.done = r.done /\ w.nlev = r.nlev /\ w.ring_next = r.ring_next
           /\ w.lev[l].spins = r.lev[l].spins /\ w.lev[l].late = r.lev[l].late
           /\ w.lev[l].max = r.lev[l].max /\ w.lev[l].hist = d.lev[l].hist
           /\ \A k \in SpinLevels : k # l => w.lev[k] = r.lev[k]
  <1>1. PICK x, y, h : h = d.lev[l].hist /\ x = r.lev[l] /\ y = [x EXCEPT !.hist = h]
    OBVIOUS
  <1>2. x \in LevelType
    BY <1>1 DEF ReadType
  <1>3. h \in [0 .. Bins - 1 -> Nat]
    <2>1. d.lev[l] \in LevelType
      BY DEF DiagType
    <2> QED
      BY <1>1, <2>1 DEF LevelType
  <1>4. y \in LevelType /\ y.spins = x.spins /\ y.late = x.late /\ y.max = x.max /\ y.hist = h
    BY <1>1, <1>2, <1>3 DEF LevelType
  <1>5. w = [r EXCEPT !.lev[l] = y]
    BY <1>1 DEF HistTaken
  <1>6. /\ w \in ReadType /\ w.done = r.done /\ w.nlev = r.nlev /\ w.ring_next = r.ring_next
        /\ w.lev[l] = y /\ \A k \in SpinLevels : k # l => w.lev[k] = r.lev[k]
    BY <1>4, <1>5 DEF ReadType
  <1> QED
    BY <1>1, <1>4, <1>6

LEMMA RingTakes ==
    ASSUME NEW d \in DiagType, NEW r \in ReadType, NEW w, RingTaken(w, r, d)
    PROVE  /\ w \in ReadType /\ w.done /\ w.nlev = r.nlev /\ w.ring_next = r.ring_next
           /\ w.lev = r.lev /\ w.ring = d.ring
  BY DEF RingTaken, DiagType, ReadType

\* A piece is read before the act ...
LEMMA PreRead ==
    ASSUME ReadsSound, ~reads.pre.done, UNCHANGED <<diag, filing, begun>>,
           NEW w, NEW from, NEW to, NEW k \in 0 .. 2 * LastLevel + 1,
           reads' = [pre |-> w, act |-> reads.act],
           span' = [pre |-> <<from, to>>, act |-> span.act], piece' = k,
           w.done => to = Len(begun),
           HalfOk(w, from, Len(begun), IF w.done THEN AllPieces ELSE k, filing, begun),
           w.done => k = 0,
           \A l \in SpinLevels :
              (IF w.done THEN AllPieces ELSE k) > 2 * l - 1 => Grown(w.lev[l], diag.lev[l])
    PROVE  ReadsSound'
  <1>1. PICK act, a1, a2 : act = reads.act /\ a1 = span.act[1] /\ a2 = span.act[2]
    OBVIOUS
  <1>2. /\ ~act.done /\ HalfOk(act, a1, Len(begun), 0, filing, begun)
        /\ span.act = <<a1, a2>>
    BY <1>1 DEF ReadsSound, ActTo, ActHas, Windows
  <1>3. reads'.pre = w /\ reads'.act = act /\ reads' = [pre |-> reads'.pre, act |-> reads'.act]
    BY <1>1
  <1>4. span'.pre[1] = from /\ span'.pre[2] = to /\ span'.act[1] = a1 /\ span'.act[2] = a2
    BY <1>1, <1>2
  <1>5. Windows(span')
    BY <1>2, <1>4 DEF Windows
  <1>6. PICK p : p = IF w.done THEN AllPieces ELSE k
    OBVIOUS
  <1>7. PreHas' = p /\ ActHas' = 0
    BY <1>2, <1>3, <1>6 DEF PreHas, ActHas, AllPieces
  <1>8. PreTo' = Len(begun) /\ ActTo' = Len(begun)
    BY <1>2, <1>3, <1>4 DEF PreTo, ActTo
  <1>9. HalfOk(w, from, Len(begun), p, filing, begun)
    BY <1>6
  <1>10. GrownOk(w, act, diag, p, 0)
    <2>1. \A l \in SpinLevels : ~(0 > 2 * l - 1)
      BY SpinTypes
    <2> QED
      BY <1>6, <2>1 DEF GrownOk
  <1> QED
    BY <1>2, <1>3, <1>4, <1>5, <1>7, <1>8, <1>9, <1>10 DEF ReadsSound

\* ... or after it.
LEMMA ActRead ==
    ASSUME ReadsSound, reads.pre.done, ~reads.act.done, UNCHANGED <<diag, filing, begun>>,
           NEW w, NEW from, NEW to, NEW k \in 0 .. 2 * LastLevel + 1,
           reads' = [pre |-> reads.pre, act |-> w],
           span' = [pre |-> span.pre, act |-> <<from, to>>], piece' = k,
           w.done => to = Len(begun),
           HalfOk(w, from, Len(begun), IF w.done THEN AllPieces ELSE k, filing, begun),
           w.done => k = 0,
           span.pre[1] <= from, span.pre[2] <= from + 1,
           \A l \in SpinLevels :
              (IF w.done THEN AllPieces ELSE k) > 2 * l - 1 => Grown(reads.pre.lev[l], w.lev[l])
    PROVE  ReadsSound'
  <1>1. PICK pre, p1, p2 : pre = reads.pre /\ p1 = span.pre[1] /\ p2 = span.pre[2]
    OBVIOUS
  <1>2. /\ pre.done /\ HalfOk(pre, p1, p2, AllPieces, filing, begun)
        /\ span.pre = <<p1, p2>> /\ PreHas = AllPieces
    BY <1>1 DEF ReadsSound, PreTo, PreHas, Windows
  <1>3. reads'.pre = pre /\ reads'.act = w /\ reads' = [pre |-> reads'.pre, act |-> reads'.act]
    BY <1>1
  <1>4. span'.pre[1] = p1 /\ span'.pre[2] = p2 /\ span'.act[1] = from /\ span'.act[2] = to
    BY <1>1, <1>2
  <1>5. Windows(span')
    BY <1>2, <1>4 DEF Windows
  <1>6. PICK q : q = IF w.done THEN AllPieces ELSE k
    OBVIOUS
  <1>7. PreHas' = AllPieces /\ ActHas' = q
    BY <1>2, <1>3, <1>6 DEF PreHas, ActHas, AllPieces
  <1>8. PreTo' = p2 /\ ActTo' = Len(begun)
    BY <1>2, <1>3, <1>4 DEF PreTo, ActTo
  <1>9. HalfOk(w, from, Len(begun), q, filing, begun)
    BY <1>6
  <1>10. GrownOk(pre, w, diag, AllPieces, q)
    BY <1>1, <1>2, <1>6 DEF GrownOk, ReadsSound
  <1>11. p1 <= from /\ p2 <= from + 1
    BY <1>1
  <1> QED
    BY <1>2, <1>3, <1>4, <1>5, <1>7, <1>8, <1>9, <1>10, <1>11 DEF ReadsSound

LEMMA Replaced ==
    ASSUME NEW x, NEW y, NEW z, NEW u, u = [pre |-> x, act |-> y]
    PROVE  [u EXCEPT !["pre"] = z] = [pre |-> z, act |-> y]
           /\ [u EXCEPT !["act"] = z] = [pre |-> x, act |-> z]
  <1>1. [u EXCEPT !["pre"] = z] = [pre |-> z, act |-> y]
    OBVIOUS
  <1>2. [u EXCEPT !["act"] = z] = [pre |-> x, act |-> z]
    OBVIOUS
  <1> QED
    BY <1>1, <1>2

\* One end of one read's window.
LEMMA SpanSet ==
    ASSUME NEW u, Windows(u), NEW m
    PROVE  /\ [u EXCEPT !["pre"][1] = m] = [pre |-> <<m, u.pre[2]>>, act |-> u.act]
           /\ [u EXCEPT !["pre"][2] = m] = [pre |-> <<u.pre[1], m>>, act |-> u.act]
           /\ [u EXCEPT !["act"][1] = m] = [pre |-> u.pre, act |-> <<m, u.act[2]>>]
           /\ [u EXCEPT !["act"][2] = m] = [pre |-> u.pre, act |-> <<u.act[1], m>>]
  <1>1. PICK x, y, x1, x2, y1, y2 : x = u.pre /\ y = u.act /\ x1 = x[1] /\ x2 = x[2] /\ y1 = y[1] /\ y2 = y[2]
    OBVIOUS
  <1>2. x = <<x1, x2>> /\ y = <<y1, y2>> /\ u = [pre |-> x, act |-> y]
    BY <1>1 DEF Windows
  <1>3. /\ [x EXCEPT ![1] = m] = <<m, x2>> /\ [x EXCEPT ![2] = m] = <<x1, m>>
        /\ [y EXCEPT ![1] = m] = <<m, y2>> /\ [y EXCEPT ![2] = m] = <<y1, m>>
    BY <1>2
  <1>4. u = [pre |-> x, act |-> y]
    BY <1>2
  <1>5. u["pre"] = x /\ u["act"] = y
    BY <1>2
  <1>6. [u EXCEPT !["pre"][1] = m] = [pre |-> <<m, x2>>, act |-> y]
    <2>1. PICK c : c = [x EXCEPT ![1] = m]
      OBVIOUS
    <2>2. [u EXCEPT !["pre"] = c] = [pre |-> c, act |-> y]
      BY <1>4, Replaced
    <2> QED
      BY <1>3, <1>5, <2>1, <2>2
  <1>7. [u EXCEPT !["pre"][2] = m] = [pre |-> <<x1, m>>, act |-> y]
    <2>1. PICK c : c = [x EXCEPT ![2] = m]
      OBVIOUS
    <2>2. [u EXCEPT !["pre"] = c] = [pre |-> c, act |-> y]
      BY <1>4, Replaced
    <2> QED
      BY <1>3, <1>5, <2>1, <2>2
  <1>8. [u EXCEPT !["act"][1] = m] = [pre |-> x, act |-> <<m, y2>>]
    <2>1. PICK c : c = [y EXCEPT ![1] = m]
      OBVIOUS
    <2>2. [u EXCEPT !["act"] = c] = [pre |-> x, act |-> c]
      BY <1>4, Replaced
    <2> QED
      BY <1>3, <1>5, <2>1, <2>2
  <1>9. [u EXCEPT !["act"][2] = m] = [pre |-> x, act |-> <<y1, m>>]
    <2>1. PICK c : c = [y EXCEPT ![2] = m]
      OBVIOUS
    <2>2. [u EXCEPT !["act"] = c] = [pre |-> x, act |-> c]
      BY <1>4, Replaced
    <2> QED
      BY <1>3, <1>5, <2>1, <2>2
  <1> QED
    BY <1>1, <1>6, <1>7, <1>8, <1>9

LEMMA HeadKeeps ==
    ASSUME ImageSound, ReadsSound, ~reads.act.done, readHead
    PROVE  ReadsSound'
  <1>1. PICK pre, act, m : pre = reads.pre /\ act = reads.act /\ m = Filed
    OBVIOUS
  <1>2. /\ reads = [pre |-> pre, act |-> act] /\ ~act.done /\ pre \in ReadType /\ act \in ReadType
        /\ Windows(span)
    BY <1>1 DEF ReadsSound, HalfOk
  <1>3. m = FiledOf(filing, begun)
    BY <1>1 DEF Filed, FiledOf
  <1>4. UNCHANGED <<diag, filing, begun>> /\ piece' = 1 /\ 1 \in 0 .. 2 * LastLevel + 1
    BY SpinTypes DEF readHead
  <1>5. diag \in DiagType /\ begun \in Seq(Intervals) /\ DiagOk(diag, filing, begun)
    BY DEF ImageSound
  <1>6. \A l \in SpinLevels : ~(1 > 2 * l - 1)
    BY SpinTypes
  <1>7. CASE ~pre.done
    <2>1. Into = "pre"
      BY <1>1, <1>7 DEF Into
    <2>2. PICK w : HeadTaken(w, pre, diag)
      BY DEF HeadTaken
    <2>3. reads' = [pre |-> w, act |-> act]
      BY <1>2, <2>1, <2>2 DEF readHead, HeadTaken
    <2>4. PICK p2 : p2 = span.pre[2]
      OBVIOUS
    <2>5. span' = [pre |-> <<m, p2>>, act |-> span.act]
      <3>1. span' = [span EXCEPT !["pre"][1] = m]
        BY <1>1, <2>1 DEF readHead
      <3> QED
        BY <1>2, <2>4, <3>1, SpanSet
    <2>6. w \in ReadType /\ w.done = pre.done /\ w.nlev = diag.nlev /\ w.ring_next = diag.ring_next
      BY <1>2, <1>5, <2>2, HeadTakes
    <2>7. HalfOk(w, m, Len(begun), 1, filing, begun)
      BY <1>3, <1>5, <2>6, HalfHead
    <2>8. ~w.done /\ HalfOk(w, m, Len(begun), IF w.done THEN AllPieces ELSE 1, filing, begun)
          /\ \A l \in SpinLevels :
                (IF w.done THEN AllPieces ELSE 1) > 2 * l - 1 => Grown(w.lev[l], diag.lev[l])
      BY <1>6, <1>7, <2>6, <2>7
    <2>9. ~reads.pre.done
      BY <1>1, <1>7
    <2> QED
      BY <1>1, <1>4, <2>3, <2>5, <2>8, <2>9, PreRead
  <1>8. CASE pre.done
    <2>1. Into = "act"
      BY <1>1, <1>8 DEF Into
    <2>2. PICK w : HeadTaken(w, act, diag)
      BY DEF HeadTaken
    <2>3. reads' = [pre |-> pre, act |-> w]
      BY <1>2, <2>1, <2>2 DEF readHead, HeadTaken
    <2>4. PICK a2 : a2 = span.act[2]
      OBVIOUS
    <2>5. span' = [pre |-> span.pre, act |-> <<m, a2>>]
      <3>1. span' = [span EXCEPT !["act"][1] = m]
        BY <1>1, <2>1 DEF readHead
      <3> QED
        BY <1>2, <2>4, <3>1, SpanSet
    <2>6. w \in ReadType /\ w.done = act.done /\ w.nlev = diag.nlev /\ w.ring_next = diag.ring_next
      BY <1>2, <1>5, <2>2, HeadTakes
    <2>7. HalfOk(w, m, Len(begun), 1, filing, begun)
      BY <1>3, <1>5, <2>6, HalfHead
    <2>8. ~w.done /\ HalfOk(w, m, Len(begun), IF w.done THEN AllPieces ELSE 1, filing, begun)
          /\ \A l \in SpinLevels :
                (IF w.done THEN AllPieces ELSE 1) > 2 * l - 1 => Grown(reads.pre.lev[l], w.lev[l])
      BY <1>2, <1>6, <2>6, <2>7
    <2>9. span.pre[1] <= m /\ span.pre[2] <= m + 1
      <3>1. PreTo = span.pre[2]
        BY <1>1, <1>8 DEF PreTo
      <3>4. span.pre[1] <= m
        BY <1>3 DEF ReadsSound, HalfOk
      <3>2. span.pre[2] \in Nat /\ span.pre[2] <= Len(begun)
        BY <3>1 DEF ReadsSound, HalfOk
      <3>3. Len(begun) \in Nat /\ m \in {Len(begun) - 1, Len(begun)}
        BY <1>3, <1>5 DEF FiledOf
      <3> QED
        BY <3>2, <3>3, <3>4
    <2>10. reads.pre.done
      BY <1>1, <1>8
    <2> QED
      BY <1>1, <1>4, <2>3, <2>5, <2>8, <2>9, <2>10, ActRead
  <1> QED
    BY <1>7, <1>8

\* The pieces of level l are 2l - 1 and 2l.
LEMMA PieceLevel ==
    ASSUME NEW p \in 1 .. 2 * LastLevel
    PROVE  /\ (p + 1) \div 2 \in SpinLevels
           /\ p = IF p % 2 = 1 THEN 2 * ((p + 1) \div 2) - 1 ELSE 2 * ((p + 1) \div 2)
  BY SpinTypes

LEMMA LevelKeeps ==
    ASSUME ImageSound, ReadsSound, ~reads.act.done, readLevel
    PROVE  ReadsSound'
  <1>1. PICK pre, act, l, k : pre = reads.pre /\ act = reads.act /\ l = (piece + 1) \div 2 /\ k = piece + 1
    OBVIOUS
  <1>2. /\ reads = [pre |-> pre, act |-> act] /\ ~act.done /\ pre \in ReadType /\ act \in ReadType
        /\ Windows(span)
    BY <1>1 DEF ReadsSound, HalfOk
  <1>3. piece \in 1 .. 2 * LastLevel
    BY DEF readLevel
  <1>4. l \in SpinLevels /\ piece = IF piece % 2 = 1 THEN 2 * l - 1 ELSE 2 * l
    BY <1>1, <1>3, PieceLevel
  <1>5. /\ UNCHANGED <<diag, filing, begun>> /\ piece' = k /\ k \in 0 .. 2 * LastLevel + 1
        /\ span' = [pre |-> span.pre, act |-> span.act]
    BY <1>1, <1>2, <1>3, SpinTypes DEF readLevel, Windows
  <1>6. diag \in DiagType /\ begun \in Seq(Intervals) /\ DiagOk(diag, filing, begun)
    BY DEF ImageSound
  <1>7. l \in Nat /\ \A j \in SpinLevels : j \in Nat
    BY <1>4, SpinTypes
  <1>8. \A j \in SpinLevels : diag.lev[j].spins \in Nat /\ diag.lev[j].late \in Nat
    BY <1>6 DEF DiagType, LevelType
  <1>9. reads' = IF piece % 2 = 1
                 THEN [reads EXCEPT ![Into].lev[l] = [diag.lev[l] EXCEPT !.hist = emptyLevel.hist]]
                 ELSE [reads EXCEPT ![Into].lev[l] = [@ EXCEPT !.hist = diag.lev[l].hist]]
    BY <1>1 DEF readLevel
  <1>10. CASE ~pre.done
    <2>1. Into = "pre" /\ ~reads.pre.done
      BY <1>1, <1>10 DEF Into
    <2>2. PICK p1, p2 : span.pre = <<p1, p2>> /\ p1 = span.pre[1] /\ p2 = span.pre[2]
      BY <1>2 DEF Windows
    <2>3. HalfOk(pre, p1, Len(begun), piece, filing, begun) /\ GrownOk(pre, act, diag, piece, 0)
      BY <1>1, <1>2, <1>10, <2>2 DEF ReadsSound, PreTo, PreHas, ActHas
    <2>4. PICK w : IF piece % 2 = 1 THEN CountsTaken(w, pre, diag, l) ELSE HistTaken(w, pre, diag, l)
      BY DEF CountsTaken, HistTaken
    <2>5. reads' = [pre |-> w, act |-> act]
      BY <1>2, <1>9, <2>1, <2>4 DEF CountsTaken, HistTaken
    <2>6. /\ w.done = pre.done /\ HalfOk(w, p1, Len(begun), k, filing, begun)
          /\ \A j \in SpinLevels : k > 2 * j - 1 => Grown(w.lev[j], diag.lev[j])
      <3>1. CASE piece % 2 = 1
        <4>1. piece = 2 * l - 1 /\ k = 2 * l /\ CountsTaken(w, pre, diag, l)
          BY <1>1, <1>4, <1>7, <2>4, <3>1
        <4>2. /\ w \in ReadType /\ w.done = pre.done /\ w.nlev = pre.nlev /\ w.ring_next = pre.ring_next
              /\ w.lev[l].spins = diag.lev[l].spins /\ w.lev[l].late = diag.lev[l].late
              /\ w.lev[l].max = diag.lev[l].max
              /\ \A j \in SpinLevels : j # l => w.lev[j] = pre.lev[j]
          BY <1>2, <1>4, <1>6, <4>1, CountsTakes
        <4>3. HalfOk(pre, p1, Len(begun), 2 * l - 1, filing, begun)
          BY <2>3, <4>1
        <4>4. HalfOk(w, p1, Len(begun), 2 * l, filing, begun)
          BY <1>4, <1>6, <4>2, <4>3, HalfCounts
        <4>5. ASSUME NEW j \in SpinLevels, k > 2 * j - 1 PROVE Grown(w.lev[j], diag.lev[j])
          <5>1. CASE j = l
            BY <1>8, <4>2, <5>1 DEF Grown
          <5>2. CASE j # l
            <6>1. piece > 2 * j - 1
              BY <1>7, <4>1, <4>5, <5>2
            <6> QED
              BY <2>3, <4>2, <5>2, <6>1 DEF GrownOk
          <5> QED
            BY <5>1, <5>2
        <4> QED
          BY <4>1, <4>2, <4>4, <4>5
      <3>2. CASE piece % 2 # 1
        <4>1. piece = 2 * l /\ k = 2 * l + 1 /\ HistTaken(w, pre, diag, l)
          BY <1>1, <1>4, <1>7, <2>4, <3>2
        <4>2. /\ w \in ReadType /\ w.done = pre.done /\ w.nlev = pre.nlev /\ w.ring_next = pre.ring_next
              /\ w.lev[l].spins = pre.lev[l].spins /\ w.lev[l].late = pre.lev[l].late
              /\ w.lev[l].max = pre.lev[l].max /\ w.lev[l].hist = diag.lev[l].hist
              /\ \A j \in SpinLevels : j # l => w.lev[j] = pre.lev[j]
          BY <1>2, <1>4, <1>6, <4>1, HistTakes
        <4>3. HalfOk(pre, p1, Len(begun), 2 * l, filing, begun)
          BY <2>3, <4>1
        <4>4. HalfOk(w, p1, Len(begun), 2 * l + 1, filing, begun)
          BY <1>4, <1>6, <4>2, <4>3, HalfHist
        <4>5. ASSUME NEW j \in SpinLevels, k > 2 * j - 1 PROVE Grown(w.lev[j], diag.lev[j])
          <5>1. piece > 2 * j - 1
            BY <1>7, <4>1, <4>5
          <5>2. Grown(pre.lev[j], diag.lev[j])
            BY <2>3, <5>1 DEF GrownOk
          <5>3. w.lev[j].spins = pre.lev[j].spins /\ w.lev[j].late = pre.lev[j].late
            BY <4>2
          <5> QED
            BY <5>2, <5>3 DEF Grown
        <4> QED
          BY <4>1, <4>2, <4>4, <4>5
      <3> QED
        BY <3>1, <3>2
    <2>7. /\ ~w.done /\ HalfOk(w, p1, Len(begun), IF w.done THEN AllPieces ELSE k, filing, begun)
          /\ \A j \in SpinLevels :
                (IF w.done THEN AllPieces ELSE k) > 2 * j - 1 => Grown(w.lev[j], diag.lev[j])
      BY <1>10, <2>6
    <2>8. span' = [pre |-> <<p1, p2>>, act |-> span.act]
      BY <1>5, <2>2
    <2> QED
      BY <1>1, <1>5, <2>1, <2>5, <2>7, <2>8, PreRead
  <1>11. CASE pre.done
    <2>1. Into = "act" /\ reads.pre.done
      BY <1>1, <1>11 DEF Into
    <2>2. PICK a1, a2 : span.act = <<a1, a2>> /\ a1 = span.act[1] /\ a2 = span.act[2]
      BY <1>2 DEF Windows
    <2>3. /\ HalfOk(act, a1, Len(begun), piece, filing, begun)
          /\ GrownOk(pre, act, diag, AllPieces, piece)
          /\ span.pre[1] <= a1 /\ span.pre[2] <= a1 + 1
      <3>1. PreHas = AllPieces /\ ActHas = piece /\ ActTo = Len(begun) /\ piece > 0
        BY <1>1, <1>2, <1>3, <1>11 DEF ActTo, PreHas, ActHas
      <3> QED
        BY <1>1, <2>2, <3>1 DEF ReadsSound
    <2>4. PICK w : IF piece % 2 = 1 THEN CountsTaken(w, act, diag, l) ELSE HistTaken(w, act, diag, l)
      BY DEF CountsTaken, HistTaken
    <2>5. reads' = [pre |-> pre, act |-> w]
      BY <1>2, <1>9, <2>1, <2>4 DEF CountsTaken, HistTaken
    <2>6. /\ w.done = act.done /\ HalfOk(w, a1, Len(begun), k, filing, begun)
          /\ \A j \in SpinLevels : k > 2 * j - 1 => Grown(pre.lev[j], w.lev[j])
      <3>1. CASE piece % 2 = 1
        <4>1. piece = 2 * l - 1 /\ k = 2 * l /\ CountsTaken(w, act, diag, l)
          BY <1>1, <1>4, <1>7, <2>4, <3>1
        <4>2. /\ w \in ReadType /\ w.done = act.done /\ w.nlev = act.nlev /\ w.ring_next = act.ring_next
              /\ w.lev[l].spins = diag.lev[l].spins /\ w.lev[l].late = diag.lev[l].late
              /\ w.lev[l].max = diag.lev[l].max
              /\ \A j \in SpinLevels : j # l => w.lev[j] = act.lev[j]
          BY <1>2, <1>4, <1>6, <4>1, CountsTakes
        <4>3. HalfOk(act, a1, Len(begun), 2 * l - 1, filing, begun)
          BY <2>3, <4>1
        <4>4. HalfOk(w, a1, Len(begun), 2 * l, filing, begun)
          BY <1>4, <1>6, <4>2, <4>3, HalfCounts
        <4>5. ASSUME NEW j \in SpinLevels, k > 2 * j - 1 PROVE Grown(pre.lev[j], w.lev[j])
          <5>1. CASE j = l
            <6>1. AllPieces > 2 * l - 1
              BY <1>4, SpinTypes DEF AllPieces
            <6>2. Grown(pre.lev[l], diag.lev[l])
              BY <1>4, <2>3, <6>1 DEF GrownOk
            <6> QED
              BY <4>2, <5>1, <6>2 DEF Grown
          <5>2. CASE j # l
            <6>1. piece > 2 * j - 1
              BY <1>7, <4>1, <4>5, <5>2
            <6> QED
              BY <2>3, <4>2, <5>2, <6>1 DEF GrownOk
          <5> QED
            BY <5>1, <5>2
        <4> QED
          BY <4>1, <4>2, <4>4, <4>5
      <3>2. CASE piece % 2 # 1
        <4>1. piece = 2 * l /\ k = 2 * l + 1 /\ HistTaken(w, act, diag, l)
          BY <1>1, <1>4, <1>7, <2>4, <3>2
        <4>2. /\ w \in ReadType /\ w.done = act.done /\ w.nlev = act.nlev /\ w.ring_next = act.ring_next
              /\ w.lev[l].spins = act.lev[l].spins /\ w.lev[l].late = act.lev[l].late
              /\ w.lev[l].max = act.lev[l].max /\ w.lev[l].hist = diag.lev[l].hist
              /\ \A j \in SpinLevels : j # l => w.lev[j] = act.lev[j]
          BY <1>2, <1>4, <1>6, <4>1, HistTakes
        <4>3. HalfOk(act, a1, Len(begun), 2 * l, filing, begun)
          BY <2>3, <4>1
        <4>4. HalfOk(w, a1, Len(begun), 2 * l + 1, filing, begun)
          BY <1>4, <1>6, <4>2, <4>3, HalfHist
        <4>5. ASSUME NEW j \in SpinLevels, k > 2 * j - 1 PROVE Grown(pre.lev[j], w.lev[j])
          <5>1. piece > 2 * j - 1
            BY <1>7, <4>1, <4>5
          <5>2. Grown(pre.lev[j], act.lev[j])
            BY <2>3, <5>1 DEF GrownOk
          <5>3. w.lev[j].spins = act.lev[j].spins /\ w.lev[j].late = act.lev[j].late
            BY <4>2
          <5> QED
            BY <5>2, <5>3 DEF Grown
        <4> QED
          BY <4>1, <4>2, <4>4, <4>5
      <3> QED
        BY <3>1, <3>2
    <2>7. /\ ~w.done /\ HalfOk(w, a1, Len(begun), IF w.done THEN AllPieces ELSE k, filing, begun)
          /\ \A j \in SpinLevels :
                (IF w.done THEN AllPieces ELSE k) > 2 * j - 1 => Grown(reads.pre.lev[j], w.lev[j])
      BY <1>1, <1>2, <2>6
    <2>8. span' = [pre |-> span.pre, act |-> <<a1, a2>>]
      BY <1>5, <2>2
    <2> QED
      BY <1>1, <1>5, <2>1, <2>3, <2>5, <2>7, <2>8, ActRead
  <1> QED
    BY <1>10, <1>11

LEMMA RingKeeps ==
    ASSUME ImageSound, ReadsSound, ~reads.act.done, readSpinRing
    PROVE  ReadsSound'
  <1>1. PICK pre, act, n : pre = reads.pre /\ act = reads.act /\ n = Len(begun)
    OBVIOUS
  <1>2. /\ reads = [pre |-> pre, act |-> act] /\ ~act.done /\ pre \in ReadType /\ act \in ReadType
        /\ Windows(span)
    BY <1>1 DEF ReadsSound, HalfOk
  <1>3. /\ UNCHANGED <<diag, filing, begun>> /\ piece' = 0 /\ 0 \in 0 .. 2 * LastLevel + 1
        /\ piece = 2 * LastLevel + 1
    BY SpinTypes DEF readSpinRing
  <1>4. diag \in DiagType /\ begun \in Seq(Intervals) /\ DiagOk(diag, filing, begun)
    BY DEF ImageSound
  <1>5. /\ AllPieces = 2 * LastLevel + 2
        /\ \A l \in SpinLevels : 2 * LastLevel + 1 > 2 * l - 1
    BY SpinTypes DEF AllPieces
  <1>6. CASE ~pre.done
    <2>1. Into = "pre" /\ ~reads.pre.done
      BY <1>1, <1>6 DEF Into
    <2>2. PICK p1 : p1 = span.pre[1]
      OBVIOUS
    <2>3. HalfOk(pre, p1, n, 2 * LastLevel + 1, filing, begun) /\ GrownOk(pre, act, diag, piece, 0)
      BY <1>1, <1>2, <1>3, <1>6, <2>2 DEF ReadsSound, PreTo, PreHas, ActHas
    <2>4. PICK w : RingTaken(w, pre, diag)
      BY DEF RingTaken
    <2>5. reads' = [pre |-> w, act |-> act]
      BY <1>2, <2>1, <2>4 DEF readSpinRing, RingTaken
    <2>6. span' = [pre |-> <<p1, n>>, act |-> span.act]
      <3>1. span' = [span EXCEPT !["pre"][2] = n]
        BY <1>1, <2>1 DEF readSpinRing
      <3> QED
        BY <1>2, <2>2, <3>1, SpanSet
    <2>7. /\ w \in ReadType /\ w.done /\ w.nlev = pre.nlev /\ w.ring_next = pre.ring_next
          /\ w.lev = pre.lev /\ w.ring = diag.ring
      BY <1>2, <1>4, <2>4, RingTakes
    <2>8. HalfOk(w, p1, n, AllPieces, filing, begun)
      BY <1>1, <1>4, <1>5, <2>3, <2>7, HalfRing
    <2>9. \A l \in SpinLevels : Grown(w.lev[l], diag.lev[l])
      BY <1>3, <1>5, <2>3, <2>7 DEF GrownOk
    <2>10. /\ w.done => n = Len(begun)
           /\ HalfOk(w, p1, Len(begun), IF w.done THEN AllPieces ELSE 0, filing, begun)
           /\ \A l \in SpinLevels :
                 (IF w.done THEN AllPieces ELSE 0) > 2 * l - 1 => Grown(w.lev[l], diag.lev[l])
      BY <1>1, <2>7, <2>8, <2>9
    <2> QED
      BY <1>1, <1>3, <2>1, <2>5, <2>6, <2>10, PreRead
  <1>7. CASE pre.done
    <2>1. Into = "act" /\ reads.pre.done
      BY <1>1, <1>7 DEF Into
    <2>2. PICK a1 : a1 = span.act[1]
      OBVIOUS
    <2>3. /\ HalfOk(act, a1, n, 2 * LastLevel + 1, filing, begun)
          /\ GrownOk(pre, act, diag, AllPieces, piece)
          /\ span.pre[1] <= a1 /\ span.pre[2] <= a1 + 1
      <3>1. PreHas = AllPieces /\ ActHas = piece /\ ActTo = n /\ piece > 0
        BY <1>1, <1>2, <1>3, <1>7, SpinTypes DEF ActTo, PreHas, ActHas
      <3> QED
        BY <1>1, <1>3, <2>2, <3>1 DEF ReadsSound
    <2>4. PICK w : RingTaken(w, act, diag)
      BY DEF RingTaken
    <2>5. reads' = [pre |-> pre, act |-> w]
      BY <1>2, <2>1, <2>4 DEF readSpinRing, RingTaken
    <2>6. span' = [pre |-> span.pre, act |-> <<a1, n>>]
      <3>1. span' = [span EXCEPT !["act"][2] = n]
        BY <1>1, <2>1 DEF readSpinRing
      <3> QED
        BY <1>2, <2>2, <3>1, SpanSet
    <2>7. /\ w \in ReadType /\ w.done /\ w.nlev = act.nlev /\ w.ring_next = act.ring_next
          /\ w.lev = act.lev /\ w.ring = diag.ring
      BY <1>2, <1>4, <2>4, RingTakes
    <2>8. HalfOk(w, a1, n, AllPieces, filing, begun)
      BY <1>1, <1>4, <1>5, <2>3, <2>7, HalfRing
    <2>9. \A l \in SpinLevels : Grown(pre.lev[l], w.lev[l])
      BY <1>3, <1>5, <2>3, <2>7 DEF GrownOk
    <2>10. /\ w.done => n = Len(begun)
           /\ HalfOk(w, a1, Len(begun), IF w.done THEN AllPieces ELSE 0, filing, begun)
           /\ \A l \in SpinLevels :
                 (IF w.done THEN AllPieces ELSE 0) > 2 * l - 1 => Grown(reads.pre.lev[l], w.lev[l])
      BY <1>1, <2>7, <2>8, <2>9
    <2> QED
      BY <1>1, <1>3, <2>1, <2>3, <2>5, <2>6, <2>10, ActRead
  <1> QED
    BY <1>6, <1>7

SpinInv == ImageSound /\ ReadsSound

LEMMA SpinInitOk == SpinInit => SpinInv
  <1> SUFFICES ASSUME SpinInit PROVE SpinInv
    OBVIOUS
  <1>1. PICK d, f, s : d = diag /\ f = filing /\ s = begun
    OBVIOUS
  <1>2. /\ d = [nlev |-> 0, ring_next |-> 0, lev |-> [l \in SpinLevels |-> emptyLevel],
                ring |-> [i \in 0 .. SpinRing - 1 |-> [level |-> 0, late |-> 0]]]
        /\ f = notFiling /\ s = <<>>
    BY <1>1 DEF SpinInit
  <1>3. d \in DiagType
    <2>1. [i \in 0 .. SpinRing - 1 |-> [level |-> 0, late |-> 0]] \in RingType
      BY DEF RingType
    <2> QED
      BY <1>2, <2>1, SpinTypes, EmptyLevel DEF DiagType
  <1>4. s \in Seq(Intervals) /\ Len(s) = 0 /\ f \in FilingType
    BY <1>2 DEF FilingType, notFiling
  <1>5. /\ LateAt(f, s) = 0 /\ HistAt(f, s) = 0 /\ NextAt(f, s) = 0 /\ FiledOf(f, s) = 0
    BY <1>2, <1>4 DEF LateAt, HistAt, NextAt, FiledOf, notFiling
  <1>6. \A Q : Upto(Q, 0) = 0
    BY UptoNat
  <1>7. ASSUME NEW l \in SpinLevels PROVE LevelOk(d.lev[l], l, f, s)
    <2>1. d.lev[l] = emptyLevel
      BY <1>2
    <2>2. /\ emptyLevel.spins = 0 /\ emptyLevel.late = 0
          /\ \A b \in 0 .. Bins - 1 : emptyLevel.hist[b] = 0
      BY DEF emptyLevel
    <2> QED
      BY <1>4, <1>5, <1>6, <2>1, <2>2 DEF LevelOk
  <1>8. RingOk(d.ring_next, d.ring, f, s)
    <2>1. /\ d.ring_next = 0 /\ d.ring \in RingType
          /\ \A k \in 0 .. SpinRing - 1 : d.ring[k].level = 0
      BY <1>2, <1>3 DEF DiagType
    <2>2. RingRead(d.ring, s, 0, 0)
      BY <2>1 DEF RingRead
    <2> QED
      BY <1>5, <1>6, <2>1, <2>2 DEF RingOk
  <1>9. DiagOk(d, f, s)
    BY <1>2, <1>4, <1>7, <1>8 DEF DiagOk, FilingOk
  <1>10. ImageSound
    BY <1>1, <1>3, <1>4, <1>9 DEF ImageSound
  <1>11. noRead \in ReadType /\ ~noRead.done
    BY SpinTypes, EmptyLevel DEF noRead, ReadType
  <1>12. /\ reads = [pre |-> noRead, act |-> noRead] /\ span = [pre |-> <<0, 0>>, act |-> <<0, 0>>]
         /\ piece = 0
    BY DEF SpinInit
  <1>13. reads.pre = noRead /\ reads.act = noRead /\ span.pre[1] = 0 /\ span.act[1] = 0
         /\ Windows(span) /\ reads = [pre |-> reads.pre, act |-> reads.act]
    BY <1>12 DEF Windows
  <1>14. PreHas = 0 /\ ActHas = 0 /\ PreTo = Len(s) /\ ActTo = Len(s)
    BY <1>1, <1>11, <1>12, <1>13 DEF PreHas, ActHas, PreTo, ActTo
  <1>15. \A l \in SpinLevels : ~(0 > 2 * l - 1) /\ ~(0 > 2 * l)
    BY SpinTypes
  <1>16. HalfOk(noRead, 0, Len(s), 0, f, s)
    <2>1. ~(0 > 2 * LastLevel + 1)
      BY SpinTypes
    <2>2. ReadOk(noRead, s, 0, 0, 0)
      BY <1>15, <2>1 DEF ReadOk
    <2> QED
      BY <1>4, <1>5, <1>11, <2>2 DEF HalfOk
  <1>17. GrownOk(noRead, noRead, d, 0, 0)
    BY <1>15 DEF GrownOk
  <1>18. piece \in 0 .. 2 * LastLevel + 1
    BY <1>12, SpinTypes
  <1>19. ReadsSound
    BY <1>1, <1>11, <1>13, <1>14, <1>16, <1>17, <1>18 DEF ReadsSound
  <1> QED
    BY <1>10, <1>19 DEF SpinInv

LEMMA SpinStepOk == SpinInv /\ SpinNext => SpinInv'
  <1> SUFFICES ASSUME SpinInv, SpinNext PROVE SpinInv'
    OBVIOUS
  <1>1. ImageSound /\ ReadsSound /\ ~reads.act.done
    BY DEF SpinInv, SpinNext
  <1>2. ASSUME Advanced(diag, filing, begun, diag', filing', begun'), UNCHANGED <<piece, reads, span>>
        PROVE  SpinInv'
    BY <1>1, <1>2, ImageKeeps DEF SpinInv
  <1>3. ASSUME ReadsSound', UNCHANGED <<diag, filing, begun>> PROVE SpinInv'
    <2>1. ImageSound'
      BY <1>1, <1>3 DEF ImageSound
    <2> QED
      BY <1>3, <2>1 DEF SpinInv
  <1>4. ASSUME NEW l \in SpinLevels, sd_register(l) PROVE SpinInv'
    <2>1. UNCHANGED <<piece, reads, span>>
      BY <1>4 DEF sd_register
    <2> QED
      BY <1>1, <1>2, <1>4, <2>1, RegisterMoves
  <1>5. ASSUME NEW l \in SpinLevels, NEW late \in Lates, closeCount(l, late) PROVE SpinInv'
    <2>1. UNCHANGED <<piece, reads, span>>
      BY <1>5 DEF closeCount
    <2> QED
      BY <1>1, <1>2, <1>5, <2>1, CountMoves
  <1>6. CASE closeUnbound
    <2>1. UNCHANGED <<piece, reads, span>>
      BY <1>6 DEF closeUnbound, Filing
    <2> QED
      BY <1>1, <1>2, <1>6, <2>1, UnboundMoves
  <1>7. CASE closeHist
    <2>1. UNCHANGED <<piece, reads, span>>
      BY <1>7 DEF closeHist, Filing
    <2> QED
      BY <1>1, <1>2, <1>7, <2>1, HistMoves
  <1>8. CASE closeLate
    <2>1. UNCHANGED <<piece, reads, span>>
      BY <1>8 DEF closeLate, Filing
    <2> QED
      BY <1>1, <1>2, <1>8, <2>1, LateMoves
  <1>9. CASE closeRing
    <2>1. UNCHANGED <<piece, reads, span>>
      BY <1>9 DEF closeRing, Filing
    <2> QED
      BY <1>1, <1>2, <1>9, <2>1, NextMoves
  <1>10. CASE closeMax
    <2>1. UNCHANGED <<piece, reads, span>>
      BY <1>10 DEF closeMax, Filing
    <2> QED
      BY <1>1, <1>2, <1>10, <2>1, MaxMoves
  <1>11. CASE readHead
    <2>1. UNCHANGED <<diag, filing, begun>>
      BY <1>11 DEF readHead
    <2> QED
      BY <1>1, <1>3, <1>11, <2>1, HeadKeeps
  <1>12. CASE readLevel
    <2>1. UNCHANGED <<diag, filing, begun>>
      BY <1>12 DEF readLevel
    <2> QED
      BY <1>1, <1>3, <1>12, <2>1, LevelKeeps
  <1>13. CASE readSpinRing
    <2>1. UNCHANGED <<diag, filing, begun>>
      BY <1>13 DEF readSpinRing
    <2> QED
      BY <1>1, <1>3, <1>13, <2>1, RingKeeps
  <1> QED
    BY <1>4, <1>5, <1>6, <1>7, <1>8, <1>9, <1>10, <1>11, <1>12, <1>13 DEF SpinNext

LEMMA SpinSame == SpinInv /\ UNCHANGED spinVars => SpinInv'
  BY DEF SpinInv, ImageSound, ReadsSound, PreHas, ActHas, PreTo, ActTo, spinVars

-----------------------------------------------------------------------------
(* The act's segment.                                                      *)

\* A difference of two counts is of what came in between.
LEMMA CountDiff ==
    ASSUME NEW Q, NEW p1 \in Nat, NEW p2 \in Nat, NEW a1 \in Nat, NEW a2 \in Nat,
           p1 <= p2, a1 <= a2, p2 <= a1 + 1, p1 <= a2,
           NEW x \in Nat, NEW y \in Nat, x <= y, Counts(x, Q, p1, p2), Counts(y, Q, a1, a2)
    PROVE  y - x \in Cardinality(Q \intersect (p2 + 1 .. a1)) .. Cardinality(Q \intersect (p1 + 1 .. a2))
  <1>1. PICK i, o : /\ i = Cardinality(Q \intersect (p2 + 1 .. a1))
                    /\ o = Cardinality(Q \intersect (p1 + 1 .. a2))
    OBVIOUS
  <1>2. Upto(Q, a2) = Upto(Q, p1) + o /\ o \in Nat
    BY <1>1, UptoApart
  <1>3. {Upto(Q, p1), Upto(Q, p2), Upto(Q, a1), Upto(Q, a2)} \subseteq Nat
    BY UptoNat
  <1>4. /\ Upto(Q, p1) <= x /\ x <= Upto(Q, p2) /\ Upto(Q, a1) <= y /\ y <= Upto(Q, a2)
    BY DEF Counts
  <1>5. y - x <= o
    BY <1>2, <1>3, <1>4
  <1>6. i \in Nat /\ i <= y - x
    <2>1. CASE p2 <= a1
      <3>1. Upto(Q, a1) = Upto(Q, p2) + i /\ i \in Nat
        BY <1>1, <2>1, UptoApart
      <3> QED
        BY <1>3, <1>4, <3>1
    <2>2. CASE ~(p2 <= a1)
      <3>1. Q \intersect (p2 + 1 .. a1) = {}
        BY <2>2
      <3>2. i = 0
        BY <1>1, <3>1, FS_EmptySet
      <3> QED
        BY <3>2
    <2> QED
      BY <2>1, <2>2
  <1> QED
    BY <1>1, <1>2, <1>5, <1>6

\* A finite set of numbers has a greatest one.
LEMMA HasMax ==
    ASSUME NEW S, S \subseteq Int, IsFiniteSet(S), S # {}
    PROVE  Max(S) \in S /\ \A y \in S : y <= Max(S)
  <1> DEFINE Has(T) == \E x \in T : \A y \in T : y <= x
             Bad == {m \in Nat : \E T \in SUBSET Int :
                        IsFiniteSet(T) /\ T # {} /\ Cardinality(T) = m /\ ~Has(T)}
  <1>1. Bad \subseteq Nat
    OBVIOUS
  <1>2. Bad = {}
    <2> SUFFICES ASSUME Bad # {} PROVE FALSE
      OBVIOUS
    <2>1. PICK m \in Bad : \A u \in Bad : m <= u
      BY <1>1, LeastNat
    <2>2. PICK T \in SUBSET Int : IsFiniteSet(T) /\ T # {} /\ Cardinality(T) = m /\ ~Has(T)
      OBVIOUS
    <2>3. PICK x : x \in T
      BY <2>2
    <2>4. PICK R : R = T \ {x}
      OBVIOUS
    <2>5. IsFiniteSet(R) /\ Cardinality(R) = m - 1 /\ R \in SUBSET Int
      BY <2>2, <2>3, <2>4, FS_RemoveElement
    <2>6. x \in Int /\ \A y \in T : y = x \/ y \in R
      BY <2>3, <2>4
    <2>7. CASE R = {}
      <3>1. \A y \in T : y <= x
        BY <2>6, <2>7
      <3> QED
        BY <2>2, <2>3, <3>1
    <2>8. CASE R # {}
      <3>1. Cardinality(R) \in Nat
        BY <2>5, FS_CardinalityType
      <3>2. m - 1 \notin Bad
        BY <2>1, <2>5, <3>1
      <3>3. Has(R)
        BY <2>5, <2>8, <3>1, <3>2
      <3>4. PICK z \in R : \A y \in R : y <= z
        BY <3>3
      <3>5. z \in Int /\ z \in T
        BY <2>4, <2>5, <3>4
      <3>6. CASE z <= x
        <4>1. \A y \in T : y <= x
          BY <2>5, <2>6, <3>4, <3>5, <3>6
        <4> QED
          BY <2>2, <2>3, <4>1
      <3>7. CASE x <= z
        <4>1. \A y \in T : y <= z
          BY <2>6, <3>4, <3>5, <3>7
        <4> QED
          BY <2>2, <3>5, <4>1
      <3> QED
        BY <2>6, <3>5, <3>6, <3>7
    <2> QED
      BY <2>7, <2>8
  <1>3. Has(S)
    <2>1. Cardinality(S) \in Nat
      BY FS_CardinalityType
    <2> QED
      BY <1>2, <2>1
  <1>4. PICK x \in S : \A y \in S : y <= x
    BY <1>3
  <1>5. \A y \in S : x >= y
    BY <1>4
  <1>6. Max(S) = CHOOSE v \in S : \A y \in S : v >= y
    BY DEF Max
  <1>7. Max(S) \in S /\ \A y \in S : Max(S) >= y
    BY <1>5, <1>6
  <1> QED
    BY <1>7

\* What two complete reads have of the intervals.
ActOf(p, a, s, p1, p2, a1, a2) ==
    /\ s \in Seq(Intervals) /\ p \in ReadType /\ a \in ReadType
    /\ {p1, p2, a1, a2} \subseteq Nat /\ p1 <= p2 /\ a1 <= a2 /\ a2 <= Len(s)
    /\ p1 <= a1 /\ p2 <= a1 + 1
    /\ HeadRead(p, s, p1, p2) /\ HeadRead(a, s, a1, a2) /\ RingRead(a.ring, s, a1, a2)
    /\ \A l \in SpinLevels : /\ CountsRead(p.lev[l], s, l, p1, p2) /\ HistRead(p.lev[l], s, l, p1, p2)
                             /\ CountsRead(a.lev[l], s, l, a1, a2) /\ HistRead(a.lev[l], s, l, a1, a2)
                             /\ Grown(p.lev[l], a.lev[l])

LEMMA ActIsOf ==
    SpinInv /\ reads.act.done =>
        ActOf(reads.pre, reads.act, begun, span.pre[1], span.pre[2], span.act[1], span.act[2])
  <1> SUFFICES ASSUME SpinInv, reads.act.done
               PROVE  ActOf(reads.pre, reads.act, begun, span.pre[1], span.pre[2], span.act[1], span.act[2])
    OBVIOUS
  <1>1. PICK p, a, s, p1, p2, a1, a2 :
           /\ p = reads.pre /\ a = reads.act /\ s = begun
           /\ p1 = span.pre[1] /\ p2 = span.pre[2] /\ a1 = span.act[1] /\ a2 = span.act[2]
    OBVIOUS
  <1>2. reads.pre.done
    BY DEF SpinInv, ReadsSound
  <1>3. PreHas = AllPieces /\ ActHas = AllPieces /\ PreTo = p2 /\ ActTo = a2
    BY <1>1, <1>2 DEF PreHas, ActHas, PreTo, ActTo
  <1>4. AllPieces > 0 /\ AllPieces > 2 * LastLevel + 1
        /\ \A l \in SpinLevels : AllPieces > 2 * l - 1 /\ AllPieces > 2 * l
    BY SpinTypes DEF AllPieces
  <1>5. /\ HalfOk(p, p1, p2, AllPieces, filing, s) /\ HalfOk(a, a1, a2, AllPieces, filing, s)
        /\ p1 <= a1 /\ p2 <= a1 + 1 /\ GrownOk(p, a, diag, AllPieces, AllPieces)
    BY <1>1, <1>3, <1>4 DEF SpinInv, ReadsSound
  <1>6. s \in Seq(Intervals)
    BY <1>1 DEF SpinInv, ImageSound
  <1>7. /\ p \in ReadType /\ a \in ReadType /\ {p1, p2, a1, a2} \subseteq Nat
        /\ p1 <= p2 /\ a1 <= a2 /\ a2 <= Len(s)
        /\ ReadOk(p, s, p1, p2, AllPieces) /\ ReadOk(a, s, a1, a2, AllPieces)
    BY <1>5 DEF HalfOk
  <1>8. HeadRead(p, s, p1, p2) /\ HeadRead(a, s, a1, a2) /\ RingRead(a.ring, s, a1, a2)
    BY <1>4, <1>7 DEF ReadOk
  <1>9. ASSUME NEW l \in SpinLevels
        PROVE  /\ CountsRead(p.lev[l], s, l, p1, p2) /\ HistRead(p.lev[l], s, l, p1, p2)
               /\ CountsRead(a.lev[l], s, l, a1, a2) /\ HistRead(a.lev[l], s, l, a1, a2)
               /\ Grown(p.lev[l], a.lev[l])
    BY <1>4, <1>5, <1>7 DEF ReadOk, GrownOk
  <1>10. ActOf(p, a, s, p1, p2, a1, a2)
    BY <1>5, <1>6, <1>7, <1>8, <1>9 DEF ActOf
  <1> QED
    BY <1>1, <1>10

\* The level as it was before the act, whether that read had it or not.
LEMMA BeforeRead ==
    ASSUME NEW p, NEW a, NEW s, NEW p1, NEW p2, NEW a1, NEW a2, ActOf(p, a, s, p1, p2, a1, a2),
           NEW l \in SpinLevels, NEW q, q = before(l, p)
    PROVE  /\ q \in LevelType /\ Grown(q, a.lev[l])
           /\ CountsRead(q, s, l, p1, p2) /\ HistRead(q, s, l, p1, p2)
  <1>1. CASE l <= p.nlev
    <2>1. q = p.lev[l]
      BY <1>1 DEF before
    <2> QED
      BY <2>1 DEF ActOf, ReadType
  <1>2. CASE ~(l <= p.nlev)
    <2>1. q = emptyLevel
      BY <1>2 DEF before
    <2>2. q \in LevelType /\ q.spins = 0 /\ q.late = 0 /\ \A b \in 0 .. Bins - 1 : q.hist[b] = 0
      BY <2>1, EmptyLevel DEF emptyLevel
    <2>3. p1 \in Nat /\ p2 \in Nat /\ a \in ReadType
      BY DEF ActOf
    <2>4. \A i \in 1 .. p1 : s[i].level # l
      BY <1>2 DEF ActOf, HeadRead
    <2>5. ASSUME NEW Q, \A i \in Q : s[i].level = l PROVE Counts(0, Q, p1, p2)
      <3>1. Q \intersect (1 .. p1) = {}
        BY <2>4, <2>5
      <3>2. Upto(Q, p1) = 0 /\ Upto(Q, p2) \in Nat
        BY <2>3, <3>1, FS_EmptySet, UptoNat DEF Upto
      <3> QED
        BY <3>2 DEF Counts
    <2>6. Counts(0, OfLevel(s, l), p1, p2) /\ Counts(0, LateOf(s, l), p1, p2)
      <3>1. \A i \in OfLevel(s, l) : s[i].level = l
        BY DEF OfLevel
      <3>2. \A i \in LateOf(s, l) : s[i].level = l
        BY DEF LateOf
      <3> QED
        BY <2>5, <3>1, <3>2
    <2>7. \A b : Counts(0, InBin(s, l, b), p1, p2)
      <3> TAKE b
      <3>1. \A i \in InBin(s, l, b) : s[i].level = l
        BY DEF InBin
      <3> QED
        BY <2>5, <3>1
    <2>8. CountsRead(q, s, l, p1, p2) /\ HistRead(q, s, l, p1, p2)
      BY <2>2, <2>4, <2>6, <2>7 DEF CountsRead, HistRead
    <2>9. Grown(q, a.lev[l])
      <3>1. a.lev[l].spins \in Nat /\ a.lev[l].late \in Nat
        BY <2>3 DEF ReadType, LevelType
      <3> QED
        BY <2>2, <3>1 DEF Grown
    <2> QED
      BY <2>2, <2>8, <2>9
  <1> QED
    BY <1>1, <1>2

\* The late records a read keeps, the oldest first.
Kept(r) == Min({r.ring_next, SpinRing})

LEMMA KeptType ==
    ASSUME NEW r \in ReadType, r.ring \in RingType
    PROVE  /\ Kept(r) \in Nat /\ Kept(r) <= r.ring_next /\ Kept(r) <= SpinRing
           /\ Kept(r) \in {r.ring_next, SpinRing}
           /\ Len(parse(r).ring) = Kept(r) /\ DOMAIN parse(r).ring = 1 .. Kept(r)
           /\ \A k \in 1 .. Kept(r) :
                 /\ (r.ring_next - Kept(r) + k - 1) % SpinRing \in 0 .. SpinRing - 1
                 /\ parse(r).ring[k] = r.ring[(r.ring_next - Kept(r) + k - 1) % SpinRing]
  <1>1. PICK n, m, R : n = Kept(r) /\ m = r.ring_next /\ R = r.ring
    OBVIOUS
  <1>2. m \in Nat /\ SpinRing \in Nat /\ SpinRing > 0
    BY <1>1, SpinTypes DEF ReadType
  <1>3. n = CHOOSE x \in {m, SpinRing} : \A y \in {m, SpinRing} : x <= y
    BY <1>1 DEF Kept, Min
  <1>4. n \in Nat /\ n <= m /\ n <= SpinRing /\ n \in {m, SpinRing}
    <2>1. CASE m <= SpinRing
      BY <1>2, <1>3, <2>1
    <2>2. CASE m > SpinRing
      BY <1>2, <1>3, <2>2
    <2> QED
      BY <1>2, <2>1, <2>2
  <1>5. PICK f : f = parse(r).ring
    OBVIOUS
  <1>6. f = [i \in 1 .. n |-> R[(m - n + i - 1) % SpinRing]]
    BY <1>1, <1>5 DEF parse, Kept
  <1>7. \A k \in 1 .. n : /\ (m - n + k - 1) % SpinRing \in 0 .. SpinRing - 1
                         /\ f[k] = R[(m - n + k - 1) % SpinRing]
    <2> TAKE k \in 1 .. n
    <2>1. m - n + k - 1 \in Nat
      BY <1>2, <1>4
    <2> QED
      BY <1>2, <1>6, <2>1
  <1>8. DOMAIN f = 1 .. n
    BY <1>6
  <1>9. Len(f) = n
    <2>1. \A k \in 1 .. n : f[k] \in [level : Nat, late : Nat]
      BY <1>1, <1>7 DEF RingType
    <2>2. PICK X : X = [level : Nat, late : Nat]
      OBVIOUS
    <2>3. f \in [1 .. n -> X]
      BY <1>6, <1>8, <2>1, <2>2
    <2>4. f \in Seq(X)
      BY <1>4, <2>3
    <2> QED
      BY <1>4, <1>8, <2>4
  <1> QED
    BY <1>1, <1>4, <1>5, <1>7, <1>8, <1>9

\* The late records of level l that are new.
NewLate(l, a, p) ==
    LET ringed == parse(a).ring
    IN  {ringed[i].late : i \in {j \in DOMAIN ringed :
            j > Len(ringed) - (a.ring_next - p.ring_next) /\ ringed[j].level = l}}

LEMMA NewLateType ==
    ASSUME NEW p \in ReadType, NEW a \in ReadType, a.ring \in RingType, NEW l
    PROVE  NewLate(l, a, p) \subseteq Int /\ IsFiniteSet(NewLate(l, a, p))
  <1>1. PICK f, n, new : f = parse(a).ring /\ n = Kept(a) /\ new = a.ring_next - p.ring_next
    OBVIOUS
  <1>2. n \in Nat /\ Len(f) = n /\ DOMAIN f = 1 .. n
    BY <1>1, KeptType
  <1>3. \A k \in 1 .. n : f[k].late \in Nat
    <2> TAKE k \in 1 .. n
    <2>1. PICK j : j = (a.ring_next - n + k - 1) % SpinRing
      OBVIOUS
    <2>2. j \in 0 .. SpinRing - 1 /\ f[k] = a.ring[j]
      BY <1>1, <2>1, KeptType
    <2> QED
      BY <2>2 DEF RingType
  <1>4. PICK J : J = {j \in 1 .. n : j > n - new /\ f[j].level = l}
    OBVIOUS
  <1>5. NewLate(l, a, p) = {f[i].late : i \in J}
    BY <1>1, <1>2, <1>4 DEF NewLate
  <1>6. J \subseteq 1 .. n
    BY <1>4
  <1>7. IsFiniteSet(J)
    <2>1. IsFiniteSet(1 .. n)
      BY <1>2, FS_Interval
    <2>2. J \in SUBSET (1 .. n)
      BY <1>6
    <2> QED
      BY <2>1, <2>2, FS_Subset
  <1>8. PICK S : S = {f[i].late : i \in J}
    OBVIOUS
  <1>9. [i \in J |-> f[i].late] \in Surjection(J, S)
    BY <1>8 DEF Surjection
  <1>10. IsFiniteSet(S)
    BY <1>7, <1>9, FS_Surjection
  <1>11. S \subseteq Int
    BY <1>3, <1>6, <1>8
  <1> QED
    BY <1>5, <1>8, <1>10, <1>11

\* The ring answers for the act when no late record overtook the reader in it.
LEMMA RingAnswers ==
    ASSUME NEW p, NEW a, NEW s, NEW p1, NEW p2, NEW a1, NEW a2, ActOf(p, a, s, p1, p2, a1, a2),
           NEW l \in SpinLevels, NEW i \in p2 + 1 .. a1, s[i].level = l,
           NEW new, new = a.ring_next - p.ring_next, new <= SpinRing,
           NEW ov, ov = Cardinality(AllLate(s) \intersect (a1 + 1 .. a2)),
           ~(ov > 0 /\ new + ov > SpinRing),
           NewLate(l, a, p) # {}
    PROVE  s[i].late <= Max(NewLate(l, a, p))
  <1>1. PICK f, n, S, Q, m : /\ f = parse(a).ring /\ n = Kept(a) /\ S = NewLate(l, a, p)
                             /\ Q = AllLate(s) /\ m = a.ring_next
    OBVIOUS
  <1>2. /\ s \in Seq(Intervals) /\ p \in ReadType /\ a \in ReadType /\ a.ring \in RingType
        /\ {p1, p2, a1, a2} \subseteq Nat /\ p1 <= p2 /\ a1 <= a2 /\ a2 <= Len(s) /\ p2 <= a1 + 1
        /\ RingRead(a.ring, s, a1, a2)
    BY DEF ActOf, RingRead
  <1>3. /\ n \in Nat /\ n <= m /\ n <= SpinRing /\ n \in {m, SpinRing}
        /\ Len(f) = n /\ DOMAIN f = 1 .. n
        /\ \A k \in 1 .. n : /\ (m - n + k - 1) % SpinRing \in 0 .. SpinRing - 1
                             /\ f[k] = a.ring[(m - n + k - 1) % SpinRing]
    BY <1>1, <1>2, KeptType
  <1>4. m \in Nat /\ p.ring_next \in Nat /\ SpinRing \in Nat /\ new = m - p.ring_next /\ l \in Nat /\ l # 0
        /\ LateFrom \in Nat
    BY <1>1, <1>2, SpinTypes DEF ReadType
  <1>5. S = {f[k].late : k \in {j \in 1 .. n : j > n - new /\ f[j].level = l}}
    BY <1>1, <1>3, <1>4 DEF NewLate
  <1>6. Max(S) \in S /\ \A y \in S : y <= Max(S)
    <2>1. S \subseteq Int /\ IsFiniteSet(S) /\ S # {}
      BY <1>1, <1>2, NewLateType
    <2> QED
      BY <2>1, HasMax
  <1>7. i \in Nat /\ i \in 1 .. Len(s) /\ i \in 1 .. a1 /\ i > p2
    BY <1>2
  <1>8. s[i].late \in Int
    <2>1. s[i] \in Intervals
      BY <1>2, <1>7
    <2> QED
      BY <2>1, SpinTypes DEF Intervals
  <1>9. CASE ~(s[i].late >= LateFrom)
    <2>1. PICK k \in 1 .. n : f[k].level = l /\ Max(S) = f[k].late
      BY <1>5, <1>6
    <2>2. PICK j : j = (m - n + k - 1) % SpinRing
      OBVIOUS
    <2>3. j \in 0 .. SpinRing - 1 /\ f[k] = a.ring[j]
      BY <1>3, <2>2
    <2>4. a.ring[j].late >= LateFrom /\ a.ring[j].late \in Nat
      BY <1>2, <1>4, <2>1, <2>3 DEF RingRead, RingType
    <2> QED
      BY <1>1, <1>4, <1>8, <1>9, <2>1, <2>3, <2>4
  <1>10. CASE s[i].late >= LateFrom
    <2>1. i \in Q
      BY <1>1, <1>7, <1>10 DEF AllLate
    <2>2. PICK u, b, c, e : u = Upto(Q, i) /\ b = Upto(Q, p2) /\ c = Upto(Q, a1) /\ e = Upto(Q, a2)
      OBVIOUS
    <2>3. {u, b, c, e} \subseteq Nat
      BY <1>2, <1>7, <2>2, UptoNat
    <2>4. b < u
      <3>1. i \in p2 + 1 .. i /\ p2 <= i /\ p2 \in Nat
        BY <1>2, <1>7
      <3> QED
        BY <1>7, <2>1, <2>2, <3>1, UptoGrows
    <2>5. u <= c
      <3>1. i <= a1 /\ a1 \in Nat
        BY <1>2, <1>7
      <3> QED
        BY <1>7, <2>2, <3>1, UptoGrows
    <2>6. e = c + ov /\ ov \in Nat
      BY <1>1, <1>2, <2>2, UptoApart
    <2>7. p.ring_next <= b
      BY <1>1, <2>2 DEF ActOf, HeadRead, Counts
    <2>8. c <= m /\ m <= e
      BY <1>1, <2>2 DEF ActOf, HeadRead, Counts
    <2>9. u + SpinRing > e
      <3>1. CASE ov = 0
        BY <1>4, <2>3, <2>4, <2>6, <2>7, <2>8, <3>1
      <3>2. CASE ov # 0
        <4>1. new + ov <= SpinRing
          BY <1>4, <2>6, <3>2
        <4> QED
          BY <1>4, <2>3, <2>4, <2>6, <2>7, <2>8, <4>1
      <3> QED
        BY <3>1, <3>2
    <2>10. a.ring[(u - 1) % SpinRing] = s[i]
      BY <1>1, <1>2, <1>7, <2>1, <2>2, <2>9 DEF RingRead
    <2>11. PICK k : k = u - (m - n)
      OBVIOUS
    <2>12. k \in 1 .. n /\ k > n - new /\ m - n + k - 1 = u - 1
      <3>1. k \in Int /\ k <= n /\ k > n - new /\ m - n + k - 1 = u - 1
        <4>1. /\ u \in Int /\ b \in Int /\ c \in Int /\ m \in Int /\ n \in Int
              /\ new \in Int /\ p.ring_next \in Int /\ new = m - p.ring_next
          BY <1>3, <1>4, <2>3
        <4>2. u <= m /\ p.ring_next < u
          BY <2>4, <2>5, <2>7, <2>8, <4>1
        <4> QED
          BY <2>11, <4>1, <4>2
      <3>2. k >= 1
        <4>1. CASE n = m
          BY <1>3, <1>4, <2>3, <2>4, <2>11, <4>1
        <4>2. CASE n = SpinRing
          BY <1>3, <1>4, <2>3, <2>8, <2>9, <2>11, <4>2
        <4> QED
          BY <1>3, <4>1, <4>2
      <3> QED
        BY <1>3, <3>1, <3>2
    <2>13. f[k] = s[i]
      BY <1>3, <2>10, <2>12
    <2>14. s[i].late \in S
      BY <1>5, <2>12, <2>13
    <2> QED
      BY <1>1, <1>6, <2>14
  <1> QED
    BY <1>9, <1>10

\* The highest bin that grew has the latest interval, or is the last.
Grew(l, a, p) == {b \in 0 .. Bins - 1 : a.lev[l].hist[b] > before(l, p).hist[b]}

LEMMA BinAnswers ==
    ASSUME NEW p, NEW a, NEW s, NEW p1, NEW p2, NEW a1, NEW a2, ActOf(p, a, s, p1, p2, a1, a2),
           NEW l \in SpinLevels, NEW i \in p2 + 1 .. a1, s[i].level = l, s[i].late # NoBound
    PROVE  /\ Grew(l, a, p) # {}
           /\ \/ s[i].late < (Max(Grew(l, a, p)) + 1) * Ms
              \/ (Max(Grew(l, a, p)) + 1) * Ms = Bins * Ms
  <1>1. PICK q, x, G, v, b, Q :
           /\ q = before(l, p) /\ x = a.lev[l] /\ G = Grew(l, a, p) /\ v = s[i].late /\ b = binOf(v)
           /\ Q = InBin(s, l, b)
    OBVIOUS
  <1>2. /\ s \in Seq(Intervals) /\ a \in ReadType
        /\ {p1, p2, a1, a2} \subseteq Nat /\ a1 <= a2 /\ a2 <= Len(s) /\ p2 <= a1 + 1
    BY DEF ActOf
  <1>3. i \in Nat /\ i \in 1 .. Len(s) /\ i > p2 /\ i <= a1
    BY <1>2
  <1>4. v \in Nat
    <2>1. s[i] \in Intervals
      BY <1>2, <1>3
    <2> QED
      BY <1>1, <2>1, SpinTypes DEF Intervals
  <1>5. b \in 0 .. Bins - 1 /\ (v < (b + 1) * Ms \/ b = Bins - 1)
    BY <1>1, <1>4, BinType
  <1>6. q \in LevelType /\ HistRead(q, s, l, p1, p2)
    BY <1>1, BeforeRead
  <1>7. x \in LevelType /\ HistRead(x, s, l, a1, a2)
    BY <1>1, <1>2 DEF ActOf, ReadType
  <1>8. i \in Q
    BY <1>1, <1>3 DEF InBin
  <1>9. Upto(Q, p2) < Upto(Q, a1)
    <2>1. p2 \in Nat /\ a1 \in Nat /\ p2 <= a1 /\ i \in p2 + 1 .. a1
      BY <1>2, <1>3
    <2> QED
      BY <1>8, <2>1, UptoGrows
  <1>10. q.hist[b] <= Upto(Q, p2) /\ Upto(Q, a1) <= x.hist[b]
    BY <1>1, <1>5, <1>6, <1>7 DEF HistRead, Counts
  <1>11. q.hist[b] \in Nat /\ x.hist[b] \in Nat /\ Upto(Q, p2) \in Nat /\ Upto(Q, a1) \in Nat
    <2>1. q.hist[b] \in Nat /\ x.hist[b] \in Nat
      BY <1>5, <1>6, <1>7 DEF LevelType
    <2> QED
      BY <1>2, <2>1, UptoNat
  <1>12. b \in G
    BY <1>1, <1>5, <1>9, <1>10, <1>11 DEF Grew
  <1>13. G \subseteq 0 .. Bins - 1 /\ Bins \in Nat /\ Ms \in Nat
    BY <1>1, SpinTypes DEF Grew
  <1>14. PICK g : g = Max(G)
    OBVIOUS
  <1>15. g \in G /\ b <= g
    <2>1. IsFiniteSet(0 .. Bins - 1)
      BY <1>13, FS_Interval
    <2>2. G \in SUBSET (0 .. Bins - 1)
      BY <1>13
    <2>3. IsFiniteSet(G)
      BY <2>1, <2>2, FS_Subset
    <2>4. G \subseteq Int /\ G # {}
      BY <1>12, <2>2
    <2> QED
      BY <1>12, <1>14, <2>3, <2>4, HasMax
  <1>16. g \in 0 .. Bins - 1
    BY <1>13, <1>15
  <1>17. v < (g + 1) * Ms \/ (g + 1) * Ms = Bins * Ms
    <2>1. CASE b = Bins - 1
      <3>1. g + 1 = Bins
        BY <1>5, <1>13, <1>15, <1>16, <2>1
      <3> QED
        BY <3>1
    <2>2. CASE v < (b + 1) * Ms
      <3>1. b \in Nat /\ g \in Nat /\ b <= g /\ Ms \in Nat /\ v \in Nat
        BY <1>4, <1>5, <1>13, <1>15, <1>16
      <3>2. (b + 1) * Ms <= (g + 1) * Ms
        BY <3>1, Z3
      <3>3. (b + 1) * Ms \in Nat /\ (g + 1) * Ms \in Nat
        BY <3>1, Z3
      <3> QED
        BY <2>2, <3>1, <3>2, <3>3
    <2> QED
      BY <1>5, <2>1, <2>2
  <1> QED
    BY <1>1, <1>12, <1>14, <1>17

\* What the tool prints as the worst.
LEMMA WorstIs ==
    ASSUME NEW l, NEW a, NEW p, NEW new, new = a.ring_next - p.ring_next,
           NEW w, w = segmentWorst(l, a, p)
    PROVE  /\ a.lev[l].max > before(l, p).max => w.exact /\ w.v = a.lev[l].max
           /\ ~(a.lev[l].max > before(l, p).max) /\ NewLate(l, a, p) # {} /\ new <= SpinRing =>
                 w.exact /\ w.v = Max(NewLate(l, a, p))
           /\ ~(a.lev[l].max > before(l, p).max) /\ ~(NewLate(l, a, p) # {} /\ new <= SpinRing) =>
                 ~w.exact /\ w.v = IF Grew(l, a, p) = {} THEN 0 ELSE (Max(Grew(l, a, p)) + 1) * Ms
  <1>1. PICK L, G : L = NewLate(l, a, p) /\ G = Grew(l, a, p)
    OBVIOUS
  <1>2. w = IF a.lev[l].max > before(l, p).max THEN [exact |-> TRUE, v |-> a.lev[l].max]
            ELSE IF L # {} /\ new <= SpinRing THEN [exact |-> TRUE, v |-> Max(L)]
            ELSE [exact |-> FALSE, v |-> IF G = {} THEN 0 ELSE (Max(G) + 1) * Ms]
    BY <1>1 DEF segmentWorst, NewLate, Grew
  <1> QED
    BY <1>1, <1>2

LEMMA SegmentFollows == SpinInv => SegmentTrue
  <1> SUFFICES ASSUME SpinInv, reads.act.done, NEW l \in 1 .. reads.act.nlev
               PROVE  LET row == segment(l, reads.act, reads.pre)
                          inside == Inside(l)
                          around == Around(l)
                          new == reads.act.ring_next - reads.pre.ring_next
                          Late(S) == {i \in S : IsLate(i)}
                      IN  /\ row.spins \in Cardinality(inside) .. Cardinality(around)
                          /\ row.late \in Cardinality(Late(inside)) .. Cardinality(Late(around))
                          /\ \A i \in inside :
                                IF row.worst.exact
                                THEN begun[i].late <= row.worst.v
                                     \/ (Overtaken > 0 /\ new + Overtaken > SpinRing)
                                ELSE begun[i].late < row.worst.v \/ begun[i].late = NoBound
                                     \/ row.worst.v = Bins * Ms
    BY DEF SegmentTrue
  <1>1. PICK p, a, s, p1, p2, a1, a2 :
           /\ p = reads.pre /\ a = reads.act /\ s = begun
           /\ p1 = span.pre[1] /\ p2 = span.pre[2] /\ a1 = span.act[1] /\ a2 = span.act[2]
    OBVIOUS
  <1>2. ActOf(p, a, s, p1, p2, a1, a2)
    BY <1>1, ActIsOf
  <1>3. /\ s \in Seq(Intervals) /\ a \in ReadType /\ p \in ReadType
        /\ p1 \in Nat /\ p2 \in Nat /\ a1 \in Nat /\ a2 \in Nat
        /\ p1 <= p2 /\ a1 <= a2 /\ a2 <= Len(s) /\ p1 <= a1 /\ p2 <= a1 + 1
    BY <1>2 DEF ActOf
  <1>4. l \in SpinLevels
    <2>1. a.nlev \in 0 .. LastLevel
      BY <1>3 DEF ReadType
    <2> QED
      BY <1>1, <2>1, SpinTypes
  <1>5. PICK q, x, row, new, ov :
           /\ q = before(l, p) /\ x = a.lev[l] /\ row = segment(l, a, p)
           /\ new = a.ring_next - p.ring_next /\ ov = Overtaken
    OBVIOUS
  <1>6. row.spins = x.spins - q.spins /\ row.late = x.late - q.late /\ row.worst = segmentWorst(l, a, p)
    BY <1>5 DEF segment
  <1>7. q \in LevelType /\ Grown(q, x) /\ CountsRead(q, s, l, p1, p2)
    BY <1>2, <1>4, <1>5, BeforeRead
  <1>8. x \in LevelType /\ CountsRead(x, s, l, a1, a2)
    BY <1>2, <1>3, <1>4, <1>5 DEF ActOf, ReadType
  <1>9. /\ \A i \in p1 + 1 .. a2 : i \in 1 .. Len(s)
        /\ \A i \in p2 + 1 .. a1 : i \in 1 .. Len(s)
        /\ \A i \in a1 + 1 .. a2 : i \in 1 .. Len(s)
    BY <1>3
  <1>10. PICK inside, around, lateIn, lateAround :
            /\ inside = OfLevel(s, l) \intersect (p2 + 1 .. a1)
            /\ around = OfLevel(s, l) \intersect (p1 + 1 .. a2)
            /\ lateIn = LateOf(s, l) \intersect (p2 + 1 .. a1)
            /\ lateAround = LateOf(s, l) \intersect (p1 + 1 .. a2)
    OBVIOUS
  <1>11. Inside(l) = inside /\ Around(l) = around
    BY <1>1, <1>9, <1>10 DEF Inside, Around, OfLevel
  <1>12. {i \in inside : IsLate(i)} = lateIn /\ {i \in around : IsLate(i)} = lateAround
    BY <1>1, <1>10 DEF IsLate, OfLevel, LateOf
  <1>13. ov = Cardinality(AllLate(s) \intersect (a1 + 1 .. a2))
    <2>1. AllLate(s) \intersect (a1 + 1 .. a2) = {i \in a1 + 1 .. a2 : IsLate(i)}
      BY <1>1, <1>9 DEF AllLate, IsLate
    <2> QED
      BY <1>1, <1>5, <2>1 DEF Overtaken
  <1>14. q.spins \in Nat /\ q.late \in Nat /\ x.spins \in Nat /\ x.late \in Nat
    BY <1>7, <1>8 DEF LevelType
  <1>15. row.spins \in Cardinality(inside) .. Cardinality(around)
    <2>1. Counts(q.spins, OfLevel(s, l), p1, p2) /\ Counts(x.spins, OfLevel(s, l), a1, a2)
      BY <1>7, <1>8 DEF CountsRead
    <2>2. q.spins <= x.spins /\ p1 <= a2
      BY <1>3, <1>7 DEF Grown
    <2>3. PICK u, v : u = q.spins /\ v = x.spins
      OBVIOUS
    <2>4. v - u \in Cardinality(OfLevel(s, l) \intersect (p2 + 1 .. a1))
                    .. Cardinality(OfLevel(s, l) \intersect (p1 + 1 .. a2))
      BY <1>3, <1>14, <2>1, <2>2, <2>3, CountDiff
    <2> QED
      BY <1>6, <1>10, <2>3, <2>4
  <1>16. row.late \in Cardinality(lateIn) .. Cardinality(lateAround)
    <2>1. Counts(q.late, LateOf(s, l), p1, p2) /\ Counts(x.late, LateOf(s, l), a1, a2)
      BY <1>7, <1>8 DEF CountsRead
    <2>2. q.late <= x.late /\ p1 <= a2
      BY <1>3, <1>7 DEF Grown
    <2>3. PICK u, v : u = q.late /\ v = x.late
      OBVIOUS
    <2>4. v - u \in Cardinality(LateOf(s, l) \intersect (p2 + 1 .. a1))
                    .. Cardinality(LateOf(s, l) \intersect (p1 + 1 .. a2))
      BY <1>3, <1>14, <2>1, <2>2, <2>3, CountDiff
    <2> QED
      BY <1>6, <1>10, <2>3, <2>4
  <1>17. ASSUME NEW i \in inside
         PROVE  IF row.worst.exact
                THEN s[i].late <= row.worst.v \/ (ov > 0 /\ new + ov > SpinRing)
                ELSE s[i].late < row.worst.v \/ s[i].late = NoBound \/ row.worst.v = Bins * Ms
    <2>1. i \in p2 + 1 .. a1 /\ s[i].level = l /\ i \in 1 .. a1
      BY <1>3, <1>10 DEF OfLevel
    <2>2. PICK w : w = row.worst
      OBVIOUS
    <2>3. /\ x.max > q.max => w.exact /\ w.v = x.max
          /\ ~(x.max > q.max) /\ NewLate(l, a, p) # {} /\ new <= SpinRing =>
                w.exact /\ w.v = Max(NewLate(l, a, p))
          /\ ~(x.max > q.max) /\ ~(NewLate(l, a, p) # {} /\ new <= SpinRing) =>
                ~w.exact /\ w.v = IF Grew(l, a, p) = {} THEN 0 ELSE (Max(Grew(l, a, p)) + 1) * Ms
      BY <1>5, <1>6, <2>2, WorstIs
    <2>4. CASE x.max > q.max
      <3>1. s[i].late <= x.max
        BY <1>8, <2>1 DEF CountsRead
      <3> QED
        BY <2>2, <2>3, <2>4, <3>1
    <2>5. CASE ~(x.max > q.max) /\ NewLate(l, a, p) # {} /\ new <= SpinRing
      <3>1. ASSUME ~(ov > 0 /\ new + ov > SpinRing) PROVE s[i].late <= Max(NewLate(l, a, p))
        BY <1>2, <1>4, <1>5, <1>13, <2>1, <2>5, <3>1, RingAnswers
      <3> QED
        BY <2>2, <2>3, <2>5, <3>1
    <2>6. CASE ~(x.max > q.max) /\ ~(NewLate(l, a, p) # {} /\ new <= SpinRing)
      <3>1. ASSUME s[i].late # NoBound
            PROVE  s[i].late < w.v \/ w.v = Bins * Ms
        <4>1. /\ Grew(l, a, p) # {}
              /\ \/ s[i].late < (Max(Grew(l, a, p)) + 1) * Ms
                 \/ (Max(Grew(l, a, p)) + 1) * Ms = Bins * Ms
          BY <1>2, <1>4, <2>1, <3>1, BinAnswers
        <4> QED
          BY <2>3, <2>6, <4>1
      <3> QED
        BY <2>2, <2>3, <2>6, <3>1
    <2> QED
      BY <2>4, <2>5, <2>6
  <1> QED
    BY <1>1, <1>5, <1>11, <1>12, <1>15, <1>16, <1>17

\* Whatever is filed while the record is read, a level's row is of the act:
\* every interval between the two reads is counted, none from outside is, and
\* none was later than the worst the row prints (segment of spin_diag.py).
THEOREM SegmentIsTrue == Spec => []SegmentTrue
  <1>1. Init => SpinInv
    BY SpinInitOk DEF Init
  <1>2. SpinInv /\ [Next]_vars => SpinInv'
    <2> SUFFICES ASSUME SpinInv, [Next]_vars PROVE SpinInv'
      OBVIOUS
    <2>1. CASE SpinNext
      BY <2>1, SpinStepOk
    <2>2. CASE UNCHANGED spinVars
      BY <2>2, SpinSame
    <2>3. SpinNext \/ UNCHANGED spinVars
      BY DEF Next, vars, readSupervisor
    <2> QED
      BY <2>1, <2>2, <2>3
  <1>3. SpinInv => SegmentTrue
    BY SegmentFollows
  <1> QED
    BY <1>1, <1>2, <1>3, PTL DEF Spec

-----------------------------------------------------------------------------
(* The invariant of an act.                                                *)

ActTick == [at : Nat, exit : Nat, kept : BOOLEAN, limit : Nat]
ActSample == [at : Nat, value : {0, 1}, take : Nat]

TickOk(e) == /\ \E d \in Durations : e.exit = e.at + d
             /\ e.limit # 0 => \E m \in LimitDelays : e.limit = e.at + m
SampleOk(x) == \E d \in Delays : x.take = x.at + d

\* A tick comes a gap after the one before it, and samples a SampleGap apart.
TicksApart(s) ==
    \A i, j \in DOMAIN s : i < j => s[i + 1].at <= s[j].at /\ \E g \in Gaps : s[i + 1].at = s[i].at + g
SamplesApart(s) == \A i, j \in DOMAIN s : i < j => s[j].at >= s[i].at + SampleGap

ActInv ==
    /\ execs \in Seq(ActTick) /\ samples \in Seq(ActSample)
    /\ \A i \in DOMAIN execs : TickOk(execs[i])
    /\ \A i \in DOMAIN samples : SampleOk(samples[i])
    /\ TicksApart(execs) /\ SamplesApart(samples)

LEMMA ActTypes ==
    /\ Period \in Nat /\ Period > 0 /\ SampleGap \in Nat /\ SampleGap > 0
    /\ Gaps \subseteq Nat /\ Durations \subseteq Nat /\ LimitDelays \subseteq Nat /\ Delays \subseteq Nat
  BY ActAssumption

\* A tick more.
LEMMA TickKeeps ==
    ASSUME ActInv, NEW g \in Gaps, NEW d \in Durations, NEW k \in BOOLEAN, NEW m \in LimitDelays,
           Tick(g, d, k, m)
    PROVE  ActInv'
  <1> DEFINE n == Len(execs)
             b == LastOf(execs, "at") + g
             e == [at |-> b, exit |-> b + d, kept |-> k, limit |-> IF m = 0 THEN 0 ELSE b + m]
  <1>1. g \in Nat /\ d \in Nat /\ m \in Nat
    BY ActTypes
  <1>2. n \in Nat /\ DOMAIN execs = 1 .. n /\ \A i \in 1 .. n : execs[i] \in ActTick
    BY DEF ActInv
  <1>3. LastOf(execs, "at") \in Nat /\ (n > 0 => LastOf(execs, "at") = execs[n].at)
    BY <1>2 DEF LastOf, ActTick
  <1>4. e \in ActTick
    BY <1>1, <1>3 DEF ActTick
  <1>5. TickOk(e)
    BY <1>1, <1>3 DEF TickOk
  <1>6. execs' = Append(execs, e) /\ samples' = samples
    BY DEF Tick
  <1>7. execs' \in Seq(ActTick) /\ DOMAIN execs' = 1 .. n + 1 /\ execs'[n + 1] = e
        /\ \A i \in 1 .. n : execs'[i] = execs[i]
    BY <1>2, <1>4, <1>6 DEF ActInv
  <1>8. \A i \in DOMAIN execs' : TickOk(execs'[i])
    BY <1>2, <1>5, <1>7 DEF ActInv
  <1>9. TicksApart(execs')
    <2> SUFFICES ASSUME NEW i \in 1 .. n + 1, NEW j \in 1 .. n + 1, i < j
                 PROVE  execs'[i + 1].at <= execs'[j].at /\ \E h \in Gaps : execs'[i + 1].at = execs'[i].at + h
      BY <1>7 DEF TicksApart
    <2>1. i \in 1 .. n /\ i + 1 \in 1 .. n + 1
      BY <1>2
    <2>2. CASE j \in 1 .. n
      <3>1. execs[i + 1].at <= execs[j].at /\ \E h \in Gaps : execs[i + 1].at = execs[i].at + h
        BY <1>2, <2>1, <2>2 DEF ActInv, TicksApart
      <3>2. i + 1 \in 1 .. n
        BY <2>1, <2>2
      <3> QED
        BY <1>7, <2>1, <2>2, <3>1, <3>2
    <2>3. CASE j = n + 1 /\ i = n
      <3>1. execs'[i + 1].at = b /\ execs'[j].at = b /\ execs'[i].at = execs[n].at
        BY <1>7, <2>1, <2>3
      <3>2. b = execs[n].at + g
        BY <1>3, <2>1, <2>3
      <3> QED
        BY <1>1, <1>3, <3>1, <3>2
    <2>4. CASE j = n + 1 /\ i < n
      <3>1. execs[i + 1].at <= execs[n].at /\ \E h \in Gaps : execs[i + 1].at = execs[i].at + h
        BY <1>2, <2>1, <2>4 DEF ActInv, TicksApart
      <3>2. execs'[j].at = execs[n].at + g
        BY <1>3, <1>7, <2>1, <2>4
      <3>3. i + 1 \in 1 .. n
        BY <1>2, <2>1, <2>4
      <3>4. execs[i + 1].at \in Nat /\ execs[n].at \in Nat
        BY <1>2, <2>1, <3>3 DEF ActTick
      <3>5. PICK x, y, z, w : x = execs[i + 1].at /\ y = execs[n].at /\ z = execs'[j].at /\ w = execs[i].at
        OBVIOUS
      <3>6. x <= z
        BY <1>1, <3>1, <3>2, <3>4, <3>5
      <3>7. \E h \in Gaps : x = w + h
        BY <3>1, <3>5
      <3>8. execs'[i + 1] = execs[i + 1] /\ execs'[i] = execs[i]
        BY <1>7, <2>1, <3>3
      <3> QED
        BY <3>5, <3>6, <3>7, <3>8
    <2> QED
      BY <1>2, <2>1, <2>2, <2>3, <2>4
  <1> QED
    BY <1>6, <1>7, <1>8, <1>9 DEF ActInv

\* A sample more.
LEMMA SampleKeeps ==
    ASSUME ActInv, NEW v \in {0, 1}, NEW d \in Delays, Sample(v, d)
    PROVE  ActInv'
  <1> DEFINE n == Len(samples)
             b == LastOf(samples, "at") + SampleGap
             e == [at |-> b, value |-> v, take |-> b + d]
  <1>1. d \in Nat /\ SampleGap \in Nat
    BY ActTypes
  <1>2. n \in Nat /\ DOMAIN samples = 1 .. n /\ \A i \in 1 .. n : samples[i] \in ActSample
    BY DEF ActInv
  <1>3. LastOf(samples, "at") \in Nat /\ (n > 0 => LastOf(samples, "at") = samples[n].at)
    BY <1>2 DEF LastOf, ActSample
  <1>4. e \in ActSample
    BY <1>1, <1>3 DEF ActSample
  <1>5. SampleOk(e)
    BY <1>1, <1>3 DEF SampleOk
  <1>6. samples' = Append(samples, e) /\ execs' = execs
    BY DEF Sample
  <1>7. samples' \in Seq(ActSample) /\ DOMAIN samples' = 1 .. n + 1 /\ samples'[n + 1] = e
        /\ \A i \in 1 .. n : samples'[i] = samples[i]
    BY <1>2, <1>4, <1>6 DEF ActInv
  <1>8. \A i \in DOMAIN samples' : SampleOk(samples'[i])
    BY <1>2, <1>5, <1>7 DEF ActInv
  <1>9. SamplesApart(samples')
    <2> SUFFICES ASSUME NEW i \in 1 .. n + 1, NEW j \in 1 .. n + 1, i < j
                 PROVE  samples'[j].at >= samples'[i].at + SampleGap
      BY <1>7 DEF SamplesApart
    <2>1. i \in 1 .. n /\ samples[i].at \in Nat /\ samples'[i] = samples[i]
      BY <1>2, <1>7 DEF ActSample
    <2>2. CASE j \in 1 .. n
      BY <1>2, <1>7, <2>1, <2>2 DEF ActInv, SamplesApart
    <2>3. CASE j = n + 1
      <3>1. samples'[j].at = samples[n].at + SampleGap
        BY <1>2, <1>3, <1>7, <2>1, <2>3
      <3>2. n \in 1 .. n /\ samples[n].at \in Nat
        BY <1>2, <2>1 DEF ActSample
      <3>3. i = n \/ samples[n].at >= samples[i].at + SampleGap
        BY <1>2, <2>1, <3>2 DEF ActInv, SamplesApart
      <3> QED
        BY <1>1, <2>1, <3>1, <3>2, <3>3
    <2> QED
      BY <1>2, <2>2, <2>3
  <1> QED
    BY <1>6, <1>7, <1>8, <1>9 DEF ActInv

-----------------------------------------------------------------------------
(* The budgets of an act.                                                  *)

\* What the tool's limits take for granted of an act: two ticks that follow
\* each other are less than 1.5 periods apart and others are not, a tick and
\* its velocity limit are over before the next tick, and a sample is taken
\* within 500 ms, and before 50 ms ahead of the sample after next.
OrdinaryAct ==
    /\ \A g, h \in Gaps : 2 * g < 3 * Period /\ 2 * (g + h) >= 3 * Period
    /\ \A g \in Gaps : \A d \in Durations \union LimitDelays : d < g
    /\ \A d \in Durations : d < Period
    /\ \A d \in Delays : d < 500 /\ d + 50 < 2 * SampleGap

LEMMA TickIs ==
    ASSUME ActInv
    PROVE  /\ Len(execs) \in Nat /\ DOMAIN execs = 1 .. Len(execs) /\ kept \subseteq 1 .. Len(execs)
           /\ \A i \in 1 .. Len(execs) :
                 /\ execs[i].at \in Nat /\ execs[i].exit \in Nat /\ execs[i].limit \in Nat
                 /\ \E d \in Durations : execs[i].exit = execs[i].at + d
                 /\ execs[i].limit # 0 => \E m \in LimitDelays : execs[i].limit = execs[i].at + m
  <1>1. Len(execs) \in Nat /\ DOMAIN execs = 1 .. Len(execs) /\ \A i \in 1 .. Len(execs) : execs[i] \in ActTick
    BY DEF ActInv
  <1>2. kept \subseteq 1 .. Len(execs)
    BY <1>1 DEF kept
  <1> QED
    BY <1>1, <1>2 DEF ActInv, ActTick, TickOk

\* Two ticks are a gap apart at least, and two gaps if one is between them.
LEMMA TicksFar ==
    ASSUME ActInv, NEW i \in DOMAIN execs, NEW j \in DOMAIN execs, i < j
    PROVE  /\ execs[i].at \in Nat /\ execs[j].at \in Nat
           /\ \E g \in Gaps : execs[i].at + g <= execs[j].at
           /\ i + 1 < j => \E g, h \in Gaps : execs[i].at + g + h <= execs[j].at
  <1>1. execs[i].at \in Nat /\ execs[j].at \in Nat /\ DOMAIN execs = 1 .. Len(execs) /\ Len(execs) \in Nat
    BY TickIs
  <1>2. execs[i + 1].at <= execs[j].at /\ \E g \in Gaps : execs[i + 1].at = execs[i].at + g
    BY DEF ActInv, TicksApart
  <1>3. ASSUME i + 1 < j PROVE \E g, h \in Gaps : execs[i].at + g + h <= execs[j].at
    <2>1. i + 1 \in DOMAIN execs
      BY <1>1, <1>3
    <2>2. execs[i + 1 + 1].at <= execs[j].at /\ \E g \in Gaps : execs[i + 1 + 1].at = execs[i + 1].at + g
      BY <1>3, <2>1 DEF ActInv, TicksApart
    <2> QED
      BY <1>1, <1>2, <2>2, ActTypes
  <1> QED
    BY <1>1, <1>2, <1>3, ActTypes

\* The tool's spacings are those of adjacent ticks.
LEMMA SpacingIs ==
    ASSUME ActInv, OrdinaryAct
    PROVE  spacing = {execs[i + 1].at - execs[i].at : i \in Adjacent}
  <1>1. DOMAIN execs = 1 .. Len(execs) /\ Len(execs) \in Nat /\ kept \subseteq 1 .. Len(execs)
    BY DEF ActInv, kept
  <1>2. ASSUME NEW p \in neighbours, 2 * (execs[p[2]].at - execs[p[1]].at) < 3 * Period
        PROVE  p[1] \in Adjacent /\ p[2] = p[1] + 1
    <2>1. p[1] \in kept /\ p[2] \in kept /\ p[1] < p[2]
      BY DEF neighbours
    <2>2. ~(p[1] + 1 < p[2])
      <3> SUFFICES ASSUME p[1] + 1 < p[2] PROVE FALSE
        OBVIOUS
      <3>1. execs[p[1]].at \in Nat /\ execs[p[2]].at \in Nat
            /\ \E g, h \in Gaps : execs[p[1]].at + g + h <= execs[p[2]].at
        BY <1>1, <2>1, TicksFar
      <3>2. PICK g \in Gaps, h \in Gaps : execs[p[1]].at + g + h <= execs[p[2]].at
        BY <3>1
      <3>3. 2 * (g + h) >= 3 * Period /\ g \in Nat /\ h \in Nat
        BY ActTypes DEF OrdinaryAct
      <3> QED
        BY <1>2, <3>1, <3>2, <3>3, ActTypes
    <2>3. PICK a, b : a = p[1] /\ b = p[2]
      OBVIOUS
    <2>4. a \in 1 .. Len(execs) /\ b \in 1 .. Len(execs) /\ a < b /\ ~(a + 1 < b)
      BY <1>1, <2>1, <2>2, <2>3
    <2>5. b = a + 1 /\ a \in 1 .. Len(execs) - 1
      BY <1>1, <2>4
    <2>6. a \in kept /\ a + 1 \in kept
      BY <2>1, <2>3, <2>5
    <2> QED
      BY <2>3, <2>5, <2>6 DEF Adjacent
  <1>3. ASSUME NEW i \in Adjacent
        PROVE  /\ <<i, i + 1>> \in neighbours
               /\ 2 * (execs[i + 1].at - execs[i].at) < 3 * Period
    <2>1. i \in kept /\ i + 1 \in kept /\ i \in Nat
      BY DEF Adjacent
    <2>2. <<i, i + 1>> \in kept \X kept /\ \A k \in kept : k <= i \/ k >= i + 1
      BY <1>1, <2>1
    <2>3. <<i, i + 1>> \in neighbours
      BY <2>1, <2>2 DEF neighbours
    <2>4. PICK g \in Gaps : execs[i + 1].at = execs[i].at + g
      <3>1. i \in DOMAIN execs /\ i + 1 \in DOMAIN execs /\ i < i + 1
        BY <1>1, <2>1
      <3> QED
        BY <3>1 DEF ActInv, TicksApart
    <2>5. execs[i].at \in Nat
      BY <1>1, <2>1, TickIs
    <2> QED
      BY <2>3, <2>4, <2>5, ActTypes DEF OrdinaryAct
  <1>4. spacing \subseteq {execs[i + 1].at - execs[i].at : i \in Adjacent}
    <2> SUFFICES ASSUME NEW p \in neighbours, 2 * (execs[p[2]].at - execs[p[1]].at) < 3 * Period
                 PROVE  \E i \in Adjacent : execs[p[2]].at - execs[p[1]].at = execs[i + 1].at - execs[i].at
      BY DEF spacing
    <2> QED
      BY <1>2
  <1>5. ASSUME NEW i \in Adjacent PROVE execs[i + 1].at - execs[i].at \in spacing
    <2>1. PICK p : p = <<i, i + 1>>
      OBVIOUS
    <2>2. p \in neighbours /\ p[1] = i /\ p[2] = i + 1
      BY <1>3, <2>1
    <2> QED
      BY <1>3, <2>2 DEF spacing
  <1> QED
    BY <1>4, <1>5

\* Nothing is marked after the last tick and its limit.
LastMark == IF execs = <<>> THEN 0 ELSE execs[Len(execs)].at + execs[Len(execs)].limit

LEMMA MarksBounded ==
    ASSUME ActInv, OrdinaryAct
    PROVE  /\ LastMark \in Nat
           /\ \A i \in DOMAIN execs : execs[i].at <= LastMark /\ execs[i].limit <= LastMark
  <1> DEFINE n == Len(execs)
  <1>1. DOMAIN execs = 1 .. n /\ n \in Nat /\ \A i \in 1 .. n : execs[i].at \in Nat /\ execs[i].limit \in Nat
    BY TickIs
  <1>2. CASE n = 0
    BY <1>1, <1>2 DEF LastMark, ActInv
  <1>3. CASE n > 0
    <2>1. n \in 1 .. n /\ execs # <<>>
      BY <1>1, <1>3
    <2>2. LastMark = execs[n].at + execs[n].limit
      BY <2>1 DEF LastMark
    <2>3. ASSUME NEW i \in 1 .. n, i < n PROVE execs[i].at <= execs[n].at /\ execs[i].limit <= execs[n].at
      <3>1. PICK g \in Gaps : execs[i].at + g <= execs[n].at
        BY <1>1, <2>1, <2>3, TicksFar
      <3>2. execs[i].at \in Nat /\ execs[i].limit \in Nat /\ execs[n].at \in Nat /\ execs[n].limit \in Nat
        BY <1>1, <2>1, <2>3
      <3>3. g \in Nat /\ \A m \in LimitDelays : m \in Nat /\ m < g
        BY ActTypes DEF OrdinaryAct
      <3>4. execs[i].limit = 0 \/ \E m \in LimitDelays : execs[i].limit = execs[i].at + m
        BY <1>1, <2>3, TickIs
      <3>5. execs[i].limit <= execs[n].at
        BY <3>1, <3>2, <3>3, <3>4
      <3> QED
        BY <3>1, <3>2, <3>3, <3>5
    <2> QED
      BY <1>1, <2>1, <2>2, <2>3
  <1> QED
    BY <1>1, <1>2, <1>3

\* The work of a tick the trace has is among the tool's.
LEMMA WorkHas ==
    ASSUME ActInv, OrdinaryAct, NEW i \in kept
    PROVE  execs[i].exit - execs[i].at \in work
  <1>1. i \in DOMAIN execs /\ i \in 1 .. Len(execs) /\ i \in Nat
    BY TickIs
  <1>2. execs[i].at \in Nat /\ \E d \in Durations : execs[i].exit = execs[i].at + d
    BY <1>1, TickIs
  <1>3. ASSUME NEW k \in kept, execs[k].exit >= execs[i].at PROVE execs[i].exit <= execs[k].exit
    <2>1. k \in DOMAIN execs /\ k \in 1 .. Len(execs) /\ k \in Nat
      BY TickIs
    <2>2. execs[k].at \in Nat /\ \E d \in Durations : execs[k].exit = execs[k].at + d
      BY <2>1, TickIs
    <2>3. CASE k < i
      <3>1. PICK g \in Gaps : execs[k].at + g <= execs[i].at
        BY <1>1, <2>1, <2>3, TicksFar
      <3>2. g \in Nat /\ \A d \in Durations : d \in Nat /\ d < g
        BY ActTypes DEF OrdinaryAct
      <3> QED
        BY <1>2, <1>3, <2>2, <3>1, <3>2
    <2>4. CASE k > i
      <3>1. PICK g \in Gaps : execs[i].at + g <= execs[k].at
        BY <1>1, <2>1, <2>4, TicksFar
      <3>2. g \in Nat /\ \A d \in Durations : d \in Nat /\ d < g
        BY ActTypes DEF OrdinaryAct
      <3> QED
        BY <1>2, <2>2, <3>1, <3>2
    <2>5. CASE k = i
      BY <1>2, <2>5, ActTypes
    <2> QED
      BY <1>1, <2>1, <2>3, <2>4, <2>5
  <1>4. execs[i].exit \in exits /\ \A y \in exits : y >= execs[i].at => execs[i].exit <= y
    BY <1>3 DEF exits
  <1>5. execs[i].exit \in Nearest(exits, execs[i].at)
    BY <1>2, <1>4, ActTypes DEF Nearest
  <1>6. execs[i].exit - execs[i].at < Period
    BY <1>2, ActTypes DEF OrdinaryAct
  <1> QED
    BY <1>5, <1>6 DEF work

\* The delay of a call's velocity limit is, when the trace has its tick.
LEMMA LimitHas ==
    ASSUME ActInv, OrdinaryAct, NEW i \in kept, execs[i].limit # 0
    PROVE  execs[i].limit - execs[i].at \in limit
  <1>1. i \in DOMAIN execs /\ i \in 1 .. Len(execs) /\ i \in Nat
    BY TickIs
  <1>2. execs[i].at \in Nat /\ \E d \in LimitDelays : execs[i].limit = execs[i].at + d
    BY <1>1, TickIs
  <1>3. ASSUME NEW k \in DOMAIN execs, execs[k].limit # 0, execs[k].limit >= execs[i].at
        PROVE  execs[i].limit <= execs[k].limit
    <2>1. k \in Nat /\ k \in 1 .. Len(execs)
      BY TickIs
    <2>2. execs[k].at \in Nat /\ \E d \in LimitDelays : execs[k].limit = execs[k].at + d
      BY <1>3, <2>1, TickIs
    <2>3. CASE k < i
      <3>1. PICK g \in Gaps : execs[k].at + g <= execs[i].at
        BY <1>1, <2>1, <2>3, TicksFar
      <3>2. g \in Nat /\ \A d \in LimitDelays : d \in Nat /\ d < g
        BY ActTypes DEF OrdinaryAct
      <3> QED
        BY <1>2, <1>3, <2>2, <3>1, <3>2
    <2>4. CASE k > i
      <3>1. PICK g \in Gaps : execs[i].at + g <= execs[k].at
        BY <1>1, <2>1, <2>4, TicksFar
      <3>2. g \in Nat /\ \A d \in LimitDelays : d \in Nat /\ d < g
        BY ActTypes DEF OrdinaryAct
      <3> QED
        BY <1>2, <2>2, <3>1, <3>2
    <2>5. CASE k = i
      BY <1>2, <2>5, ActTypes
    <2> QED
      BY <1>1, <2>1, <2>3, <2>4, <2>5
  <1>4. execs[i].limit \in limits /\ \A y \in limits : y >= execs[i].at => execs[i].limit <= y
    BY <1>1, <1>3 DEF limits
  <1>5. execs[i].limit \in Nearest(limits, execs[i].at)
    BY <1>2, <1>4, ActTypes DEF Nearest
  <1>6. \A k \in kept : execs[k].at <= execs[i].at => k <= i
    <2> SUFFICES ASSUME NEW k \in kept, execs[k].at <= execs[i].at, k > i PROVE FALSE
      BY <1>1, TickIs
    <2>1. k \in DOMAIN execs /\ execs[k].at \in Nat
      BY TickIs
    <2>2. \E g \in Gaps : execs[i].at + g <= execs[k].at
      BY <1>1, <2>1, TicksFar
    <2>3. \A g \in Gaps : g > 0
      <3>1. \E d \in LimitDelays : TRUE
        BY <1>2
      <3> QED
        BY <3>1, ActTypes DEF OrdinaryAct
    <2> QED
      BY <1>2, <2>1, <2>2, <2>3, ActTypes
  <1>7. execs[i].at \in tick_before(execs[i].at)
    BY <1>2, <1>6 DEF tick_before
  <1>8. execs[i].at \in calls
    BY <1>1 DEF calls
  <1> QED
    BY <1>5, <1>7, <1>8 DEF limit

-----------------------------------------------------------------------------
(* What is proposed.                                                       *)

LEMMA UpCovers ==
    ASSUME NEW m \in Nat
    PROVE  up(m) \in Nat /\ m <= up(m)
  <1>1. PICK q \in Int : q = (-(m * 6)) \div 5
    OBVIOUS
  <1>2. 5 * q <= -(m * 6) /\ -(m * 6) < 5 * q + 5
    BY <1>1, Z3
  <1>3. up(m) = -q
    BY <1>1 DEF up
  <1> QED
    BY <1>2, <1>3

\* The budget of the work covers all that was measured.
LEMMA WorkCovers ==
    ASSUME ActInv, OrdinaryAct, NEW x \in work \union limit
    PROVE  propose.work \in Nat /\ x <= propose.work
  <1>1. PICK M : M = LastMark
    OBVIOUS
  <1>2. M \in Nat /\ \A i \in DOMAIN execs : execs[i].at <= M /\ execs[i].limit <= M
    BY <1>1, MarksBounded
  <1>3. work \subseteq 0 .. Period
    <2> SUFFICES ASSUME NEW i \in kept, NEW y \in Nearest(exits, execs[i].at), y - execs[i].at < Period
                 PROVE  y - execs[i].at \in 0 .. Period
      BY DEF work
    <2>1. y \in exits /\ y >= execs[i].at
      BY DEF Nearest
    <2>2. y \in Nat /\ execs[i].at \in Nat
      BY <2>1, TickIs DEF exits
    <2> QED
      BY <2>1, <2>2, ActTypes
  <1>4. limit \subseteq 0 .. M
    <2> SUFFICES ASSUME NEW c \in calls, NEW m \in Nearest(limits, c), NEW b \in tick_before(c)
                 PROVE  m - b \in 0 .. M
      BY DEF limit
    <2>1. m \in limits /\ m >= c
      BY DEF Nearest
    <2>2. PICK i \in DOMAIN execs : m = execs[i].limit
      BY <2>1 DEF limits
    <2>3. PICK j \in kept : b = execs[j].at /\ b <= c
      BY DEF tick_before
    <2>4. PICK k \in DOMAIN execs : c = execs[k].at
      BY DEF calls
    <2>5. m \in Nat /\ m <= M /\ b \in Nat /\ c \in Nat
      BY <1>2, <2>2, <2>3, <2>4, TickIs
    <2> QED
      BY <1>2, <2>1, <2>3, <2>5
  <1>5. PICK W : W = work \union limit
    OBVIOUS
  <1>6. W \subseteq 0 .. Period + M
    BY <1>2, <1>3, <1>4, <1>5, ActTypes
  <1>7. IsFiniteSet(W) /\ W \subseteq Int /\ W # {}
    <2>1. IsFiniteSet(0 .. Period + M)
      BY <1>2, ActTypes, FS_Interval
    <2>2. W \in SUBSET (0 .. Period + M)
      BY <1>6
    <2>3. IsFiniteSet(W)
      BY <2>1, <2>2, FS_Subset
    <2>4. W \subseteq Int
      <3>1. 0 .. Period + M \subseteq Int
        BY <1>2, ActTypes
      <3> QED
        BY <2>2, <3>1
    <2>5. W # {}
      BY <1>5
    <2> QED
      BY <2>3, <2>4, <2>5
  <1>8. Max(W) \in W /\ \A y \in W : y <= Max(W)
    BY <1>7, HasMax
  <1>9. Max(W) \in Nat /\ x <= Max(W) /\ x \in Nat
    BY <1>2, <1>5, <1>6, <1>8, ActTypes
  <1>10. up(Max(W)) \in Nat /\ Max(W) <= up(Max(W))
    BY <1>9, UpCovers
  <1>11. propose.work = up(Max(W))
    BY <1>5, <1>7 DEF propose
  <1> QED
    BY <1>9, <1>10, <1>11

\* The budget of the tick covers every spacing.
LEMMA TickCovers ==
    ASSUME ActInv, OrdinaryAct, NEW x \in spacing
    PROVE  propose.tick \in Nat /\ x <= propose.tick
  <1>1. PICK S : S = {0} \union {m - Period : m \in spacing}
    OBVIOUS
  <1>2. spacing \subseteq 0 .. 2 * Period
    <2> SUFFICES ASSUME NEW i \in Adjacent PROVE execs[i + 1].at - execs[i].at \in 0 .. 2 * Period
      BY SpacingIs
    <2>1. i \in DOMAIN execs /\ i + 1 \in DOMAIN execs /\ i < i + 1
      BY TickIs DEF Adjacent
    <2>2. PICK g \in Gaps : execs[i + 1].at = execs[i].at + g
      BY <2>1 DEF ActInv, TicksApart
    <2>3. g \in Nat /\ 2 * g < 3 * Period /\ execs[i].at \in Nat
      BY <2>1, TickIs, ActTypes DEF OrdinaryAct
    <2> QED
      BY <2>2, <2>3, ActTypes
  <1>3. S \subseteq -Period .. Period
    BY <1>1, <1>2, ActTypes
  <1>4. IsFiniteSet(S) /\ S \subseteq Int /\ S # {}
    <2>1. IsFiniteSet(-Period .. Period)
      BY ActTypes, FS_Interval
    <2>2. S \in SUBSET (-Period .. Period)
      BY <1>3
    <2>3. IsFiniteSet(S)
      BY <2>1, <2>2, FS_Subset
    <2>4. S \subseteq Int
      <3>1. -Period .. Period \subseteq Int
        BY ActTypes
      <3> QED
        BY <2>2, <3>1
    <2>5. S # {}
      BY <1>1
    <2> QED
      BY <2>3, <2>4, <2>5
  <1>5. Max(S) \in S /\ \A y \in S : y <= Max(S)
    BY <1>4, HasMax
  <1>6. Max(S) \in Nat /\ x - Period <= Max(S) /\ x \in Nat
    BY <1>1, <1>2, <1>4, <1>5, ActTypes
  <1>7. up(Max(S)) \in Nat /\ Max(S) <= up(Max(S))
    BY <1>6, UpCovers
  <1>8. propose.tick = Period + up(Max(S))
    BY <1>1 DEF propose
  <1> QED
    BY <1>6, <1>7, <1>8, ActTypes

\* The budget of the link covers every edge of the gate's verdict.
LEMMA LinkCovers ==
    ASSUME ActInv, OrdinaryAct, NEW i \in Edges
    PROVE  samples[i].take - samples[i].at <= propose.link
  <1>1. /\ Len(samples) \in Nat /\ DOMAIN samples = 1 .. Len(samples)
        /\ \A j \in 1 .. Len(samples) : samples[j].at \in Nat /\ samples[j].take \in Nat
                /\ \E d \in Delays : samples[j].take = samples[j].at + d
    <2>1. Len(samples) \in Nat /\ DOMAIN samples = 1 .. Len(samples)
          /\ \A j \in 1 .. Len(samples) : samples[j] \in ActSample
      BY DEF ActInv
    <2> QED
      BY <2>1 DEF ActInv, ActSample, SampleOk
  <1>2. i \in 1 .. Len(samples) /\ i > 1 /\ i - 1 \in 1 .. Len(samples) /\ samples[i].value # samples[i - 1].value
    BY <1>1 DEF Edges
  <1>3. PICK d \in Delays : samples[i].take = samples[i].at + d
    BY <1>1, <1>2
  <1>4. d \in Nat /\ d < 500 /\ samples[i].at \in Nat
    BY <1>1, <1>2, ActTypes DEF OrdinaryAct
  <1>5. ASSUME NEW j \in DOMAIN samples, samples[j].take >= samples[i].at - 50, samples[j].value = samples[i].value
        PROVE  i <= j
    <2> SUFFICES ASSUME j < i PROVE FALSE
      BY <1>1, <1>2
    <2>1. j # i - 1
      BY <1>2, <1>5
    <2>2. j < i - 1 /\ j \in 1 .. Len(samples)
      BY <1>1, <1>2, <2>1
    <2>3. samples[i].at >= samples[i - 1].at + SampleGap /\ samples[i - 1].at >= samples[j].at + SampleGap
      <3>1. SamplesApart(samples)
        BY DEF ActInv
      <3>2. \A x, y \in 1 .. Len(samples) : x < y => samples[y].at >= samples[x].at + SampleGap
        BY <1>1, <3>1 DEF SamplesApart
      <3>3. i - 1 < i /\ j < i - 1
        BY <1>2, <2>2
      <3> QED
        BY <1>2, <2>2, <3>2, <3>3
    <2>4. PICK c \in Delays : samples[j].take = samples[j].at + c
      BY <1>1, <2>2
    <2>5. c \in Nat /\ c + 50 < 2 * SampleGap
      BY ActTypes DEF OrdinaryAct
    <2>6. samples[j].at \in Nat /\ samples[i - 1].at \in Nat
      BY <1>1, <1>2, <2>2
    <2> QED
      BY <1>4, <1>5, <2>3, <2>4, <2>5, <2>6, ActTypes
  <1>6. PICK F : F = linkOf(samples[i])
    OBVIOUS
  <1>7. d \in F
    <2> DEFINE match == {j \in DOMAIN samples :
                            /\ samples[j].take >= samples[i].at - 50 /\ samples[j].value = samples[i].value
                            /\ j > 1 => samples[j - 1].value # samples[i].value}
               first == {j \in match : \A k \in match : j <= k}
    <2>1. i \in match
      BY <1>1, <1>2, <1>3, <1>4
    <2>2. i \in first
      BY <1>5, <2>1
    <2>3. samples[i].take - samples[i].at = d
      BY <1>3, <1>4
    <2>4. F = {samples[j].take - samples[i].at : j \in {k \in first : samples[k].take - samples[i].at < 500}}
      BY <1>6 DEF linkOf
    <2> HIDE DEF first
    <2> QED
      BY <1>4, <2>2, <2>3, <2>4
  <1>8. PICK L : L = link
    OBVIOUS
  <1>9. d \in L
    BY <1>1, <1>2, <1>6, <1>7, <1>8 DEF link
  <1>10. L \subseteq -50 .. 500
    <2> SUFFICES ASSUME NEW j \in DOMAIN samples, NEW y \in linkOf(samples[j]) PROVE y \in -50 .. 500
      BY <1>8 DEF link
    <2>1. PICK k \in DOMAIN samples : /\ samples[k].take >= samples[j].at - 50
                                       /\ samples[k].take - samples[j].at < 500
                                       /\ y = samples[k].take - samples[j].at
      BY DEF linkOf
    <2>2. samples[k].take \in Nat /\ samples[j].at \in Nat
      BY <1>1
    <2> QED
      BY <2>1, <2>2
  <1>11. IsFiniteSet(L) /\ L \subseteq Int /\ L # {}
    <2>1. IsFiniteSet(-50 .. 500)
      <3>1. -50 \in Int /\ 500 \in Int
        OBVIOUS
      <3> QED
        BY <3>1, FS_Interval
    <2>2. L \in SUBSET (-50 .. 500)
      BY <1>10
    <2>3. IsFiniteSet(L)
      BY <2>1, <2>2, FS_Subset
    <2>4. L \subseteq Int
      <3>1. -50 .. 500 \subseteq Int
        OBVIOUS
      <3> QED
        BY <2>2, <3>1
    <2>5. L # {}
      BY <1>9
    <2> QED
      BY <2>3, <2>4, <2>5
  <1>12. Max(L) \in L /\ \A y \in L : y <= Max(L)
    BY <1>11, HasMax
  <1>13. Max(L) \in Nat /\ d <= Max(L)
    <2>1. PICK m : m = Max(L)
      OBVIOUS
    <2>2. m \in Int /\ d <= m
      BY <1>9, <1>11, <1>12, <2>1
    <2> QED
      BY <1>4, <2>1, <2>2
  <1>14. up(Max(L)) \in Nat /\ Max(L) <= up(Max(L))
    BY <1>13, UpCovers
  <1>15. propose.link = up(Max(L))
    BY <1>8, <1>11 DEF propose
  <1> QED
    BY <1>3, <1>4, <1>13, <1>14, <1>15

LEMMA BudgetsHold == ASSUME ActInv, OrdinaryAct PROVE BudgetsTrue
  <1> DEFINE spaced == {execs[i + 1].at - execs[i].at : i \in Adjacent}
  <1>1. spacing = spaced
    BY SpacingIs
  <1>2. propose.tick = IF spaced = {} THEN NoTerm ELSE Period + up(Max({0} \union {d - Period : d \in spaced}))
    BY <1>1 DEF propose
  <1>3. \A i \in kept : execs[i].exit - execs[i].at <= propose.work
    BY WorkHas, WorkCovers
  <1>4. \A i \in kept : execs[i].limit # 0 => execs[i].limit - execs[i].at <= propose.work
    BY LimitHas, WorkCovers
  <1>5. ASSUME NEW i \in Adjacent PROVE execs[i + 1].exit - execs[i].at <= propose.call_mrm
    <2>1. i \in 1 .. Len(execs) /\ i + 1 \in 1 .. Len(execs) /\ i + 1 \in kept
      BY TickIs DEF Adjacent
    <2>2. execs[i + 1].at - execs[i].at \in spacing
      BY <1>1
    <2>3. propose.tick \in Nat /\ execs[i + 1].at - execs[i].at <= propose.tick
      BY <2>2, TickCovers
    <2>4. execs[i + 1].exit - execs[i + 1].at \in work
      BY <2>1, WorkHas
    <2>5. propose.work \in Nat /\ execs[i + 1].exit - execs[i + 1].at <= propose.work
      BY <2>4, WorkCovers
    <2>6. propose.call_mrm = propose.tick + propose.work
      <3>1. propose.tick # NoTerm /\ propose.work # NoTerm
        BY <2>3, <2>5 DEF NoTerm
      <3> QED
        BY <3>1 DEF propose
    <2>7. execs[i + 1].exit \in Nat /\ execs[i + 1].at \in Nat /\ execs[i].at \in Nat
      BY <2>1, TickIs
    <2> QED
      BY <2>3, <2>5, <2>6, <2>7
  <1>6. \A i \in Edges : samples[i].take - samples[i].at <= propose.link
    BY LinkCovers
  <1> QED
    BY <1>2, <1>3, <1>4, <1>5, <1>6 DEF BudgetsTrue

\* The budgets terms.py proposes are of what ran, though it sees the markers
\* only and the trace thins them: no tick left out widens one, and each covers
\* every tick, call and sample it is for, in any act that is as ordinary as
\* the tool's limits suppose (run_terms, propose).
THEOREM BudgetsAreTrue == Spec => [](OrdinaryAct => BudgetsTrue)
  <1>1. Init => ActInv
    BY DEF Init, ActInit, ActInv, TicksApart, SamplesApart
  <1>2. ActInv /\ [Next]_vars => ActInv'
    <2> SUFFICES ASSUME ActInv, [Next]_vars PROVE ActInv'
      OBVIOUS
    <2>1. CASE UNCHANGED actVars
      <3>1. execs' = execs /\ samples' = samples
        BY <2>1 DEF actVars
      <3> QED
        BY <3>1 DEF ActInv, TicksApart, SamplesApart
    <2>2. CASE ActNext
      BY <2>2, TickKeeps, SampleKeeps DEF ActNext
    <2> QED
      BY <2>1, <2>2 DEF Next, vars, readSupervisor
  <1>3. ActInv => (OrdinaryAct => BudgetsTrue)
    BY BudgetsHold
  <1> QED
    BY <1>1, <1>2, <1>3, PTL DEF Spec

-----------------------------------------------------------------------------
(* What stands where in a supervisor record.                               *)

LEMMA Sizes ==
    /\ HEADER = 18 /\ ROUTE = 7 /\ DIRECT = 5 /\ DIRECT_SLOTS = 2 /\ TAIL = 3 /\ PRIO = 10 /\ THREADS = 60
    /\ LATE = 5 /\ LEVELS = 8 /\ LEVEL = 10 /\ FLOOR = 7 /\ UNSEEN = 1 /\ RESUME = 11 /\ RESPONSE = 9
  BY DEF HEADER, ROUTE, DIRECT, DIRECT_SLOTS, TAIL, PRIO, THREADS, LATE, LEVELS, LEVEL, FLOOR, UNSEEN,
         RESUME, RESPONSE

PartKinds == {"header", "route", "direct", "tail", "prio", "threads", "late", "levels", "level", "floor",
              "unseen", "resume", "response"}
PartNames == PartKinds \X Nat
RecordWords == PartNames \X Nat

\* The n words of a part are at offset o.
Stands(s, part, o, n) == o + n <= Len(s) /\ \A i \in 1 .. n : s[o + i] = <<part, i>>
\* The parts of size words each are in order from offset o.
StandSlots(s, name, o, n, size) == \A i \in 1 .. n : Stands(s, <<name, i - 1>>, o + (i - 1) * size, size)
\* Every word is of a part of P.
AllOf(s, P) == \A i \in DOMAIN s : s[i][1] \in P
IsStart(s, t) == Len(s) <= Len(t) /\ \A i \in 1 .. Len(s) : t[i] = s[i]

LEMMA WordsStand ==
    ASSUME NEW part \in PartNames, NEW n \in Nat
    PROVE  /\ Words(part, n) \in Seq(RecordWords) /\ Len(Words(part, n)) = n
           /\ Stands(Words(part, n), part, 0, n) /\ AllOf(Words(part, n), {part})
  <1>1. PICK s : s = Words(part, n)
    OBVIOUS
  <1>2. s = [i \in 1 .. n |-> <<part, i>>]
    BY <1>1 DEF Words
  <1>3. \A i \in 1 .. n : <<part, i>> \in RecordWords
    BY DEF RecordWords
  <1>4. s \in [1 .. n -> RecordWords]
    BY <1>2, <1>3
  <1>5. s \in Seq(RecordWords) /\ Len(s) = n
    BY <1>4
  <1>6. \A i \in 1 .. n : s[i] = <<part, i>>
    BY <1>2
  <1>7. Stands(s, part, 0, n)
    BY <1>5, <1>6 DEF Stands
  <1>8. AllOf(s, {part})
    BY <1>4, <1>6 DEF AllOf
  <1> QED
    BY <1>1, <1>5, <1>7, <1>8

LEMMA SlotWord ==
    ASSUME NEW size \in {ROUTE, DIRECT, LEVEL}, NEW i \in Nat, NEW k \in 1 .. size
    PROVE  (i * size + k - 1) \div size = i /\ (i * size + k - 1) % size = k - 1
  <1>1. CASE size = ROUTE
    <2>1. size = 7 /\ k \in 1 .. 7
      BY <1>1, Sizes
    <2> QED
      BY <2>1, Z3
  <1>2. CASE size = DIRECT
    <2>1. size = 5 /\ k \in 1 .. 5
      BY <1>2, Sizes
    <2> QED
      BY <2>1, Z3
  <1>3. CASE size = LEVEL
    <2>1. size = 10 /\ k \in 1 .. 10
      BY <1>3, Sizes
    <2> QED
      BY <2>1, Z3
  <1> QED
    BY <1>1, <1>2, <1>3

LEMMA SlotsStand ==
    ASSUME NEW name \in PartKinds, NEW n \in Nat, NEW size \in {ROUTE, DIRECT, LEVEL}
    PROVE  /\ Slots(name, n, size) \in Seq(RecordWords) /\ Len(Slots(name, n, size)) = n * size
           /\ StandSlots(Slots(name, n, size), name, 0, n, size)
           /\ AllOf(Slots(name, n, size), {<<name, i - 1>> : i \in 1 .. n})
  <1>1. PICK s : s = Slots(name, n, size)
    OBVIOUS
  <1>2. size \in {5, 7, 10}
    BY Sizes
  <1>3. PICK m : m = n * size
    OBVIOUS
  <1>4. m \in Nat
    BY <1>2, <1>3
  <1>5. s = [j \in 1 .. m |-> <<<<name, (j - 1) \div size>>, ((j - 1) % size) + 1>>]
    BY <1>1, <1>3 DEF Slots
  <1>6. \A j \in 1 .. m : /\ (j - 1) \div size \in 0 .. n - 1
                          /\ ((j - 1) % size) + 1 \in Nat
    <2> SUFFICES ASSUME NEW j \in 1 .. m PROVE (j - 1) \div size \in 0 .. n - 1 /\ ((j - 1) % size) + 1 \in Nat
      OBVIOUS
    <2>1. CASE size = 5
      <3>1. m = n * 5
        BY <1>3, <2>1
      <3>2. (j - 1) \div 5 \in 0 .. n - 1 /\ ((j - 1) % 5) + 1 \in Nat
        BY <1>4, <3>1, Z3
      <3> QED
        BY <2>1, <3>2
    <2>2. CASE size = 7
      <3>1. m = n * 7
        BY <1>3, <2>2
      <3>2. (j - 1) \div 7 \in 0 .. n - 1 /\ ((j - 1) % 7) + 1 \in Nat
        BY <1>4, <3>1, Z3
      <3> QED
        BY <2>2, <3>2
    <2>3. CASE size = 10
      <3>1. m = n * 10
        BY <1>3, <2>3
      <3>2. (j - 1) \div 10 \in 0 .. n - 1 /\ ((j - 1) % 10) + 1 \in Nat
        BY <1>4, <3>1, Z3
      <3> QED
        BY <2>3, <3>2
    <2> QED
      BY <1>2, <2>1, <2>2, <2>3
  <1>7. \A j \in 1 .. m : s[j] \in RecordWords
    <2> SUFFICES ASSUME NEW j \in 1 .. m PROVE s[j] \in RecordWords
      OBVIOUS
    <2>1. PICK q, k : q = (j - 1) \div size /\ k = ((j - 1) % size) + 1
      OBVIOUS
    <2>2. q \in Nat /\ k \in Nat
      BY <1>6, <2>1
    <2>3. s[j] = <<<<name, q>>, k>>
      BY <1>5, <2>1
    <2>4. PICK part : part = <<name, q>>
      OBVIOUS
    <2>5. part \in PartNames
      BY <2>2, <2>4 DEF PartNames
    <2>6. <<part, k>> \in RecordWords
      BY <2>2, <2>5 DEF RecordWords
    <2> QED
      BY <2>3, <2>4, <2>6
  <1>8. s \in Seq(RecordWords) /\ Len(s) = m /\ DOMAIN s = 1 .. m
    <2>1. s \in [1 .. m -> RecordWords]
      BY <1>5, <1>7
    <2> QED
      BY <1>4, <2>1
  <1>9. AllOf(s, {<<name, i - 1>> : i \in 1 .. n})
    <2> SUFFICES ASSUME NEW j \in 1 .. m PROVE s[j][1] \in {<<name, i - 1>> : i \in 1 .. n}
      BY <1>8 DEF AllOf
    <2>1. PICK q : q = (j - 1) \div size
      OBVIOUS
    <2>2. q \in 0 .. n - 1
      BY <1>6, <2>1
    <2>3. s[j][1] = <<name, q>>
      BY <1>5, <2>1
    <2>4. q + 1 \in 1 .. n /\ q = (q + 1) - 1
      BY <2>2
    <2> QED
      BY <2>3, <2>4
  <1>10. ASSUME NEW i \in 1 .. n PROVE Stands(s, <<name, i - 1>>, 0 + (i - 1) * size, size)
    <2>1. PICK o : o = (i - 1) * size
      OBVIOUS
    <2>2. o \in Nat /\ o + size <= m
      BY <1>2, <1>3, <2>1, Z3
    <2>3. \A k \in 1 .. size : (o + k - 1) \div size = i - 1 /\ (o + k - 1) % size = k - 1
      BY <2>1, SlotWord
    <2>4. ASSUME NEW k \in 1 .. size PROVE s[o + k] = <<<<name, i - 1>>, k>>
      <3>1. o + k \in 1 .. m /\ (o + k) - 1 = o + k - 1
        BY <1>2, <1>4, <2>2
      <3>2. s[o + k] = <<<<name, (o + k - 1) \div size>>, ((o + k - 1) % size) + 1>>
        BY <1>5, <3>1
      <3>3. ((o + k - 1) % size) + 1 = k
        BY <1>2, <2>3
      <3> QED
        BY <2>3, <3>2, <3>3
    <2>5. 0 + (i - 1) * size = o
      BY <2>1, <2>2
    <2> QED
      BY <1>8, <2>2, <2>4, <2>5 DEF Stands
  <1> QED
    BY <1>1, <1>3, <1>8, <1>9, <1>10 DEF StandSlots

\* What a part of a record becomes when a block is appended, if it is.
LEMMA BlockAppended ==
    ASSUME NEW s \in Seq(RecordWords), NEW t \in Seq(RecordWords), NEW c \in BOOLEAN,
           NEW u, u = s \o (IF c THEN t ELSE <<>>)
    PROVE  /\ u \in Seq(RecordWords) /\ IsStart(s, u)
           /\ Len(u) = Len(s) + (IF c THEN Len(t) ELSE 0)
           /\ c => \A part, n, o : o \in Nat /\ n \in Nat /\ Stands(t, part, o, n) => Stands(u, part, Len(s) + o, n)
           /\ \A P, Q : AllOf(s, P) /\ AllOf(t, Q) => AllOf(u, P \union (IF c THEN Q ELSE {}))
  <1>1. CASE ~c
    <2>1. u = s
      BY <1>1
    <2> QED
      BY <1>1, <2>1 DEF IsStart
  <1>2. CASE c
    <2>1. /\ u \in Seq(RecordWords) /\ Len(u) = Len(s) + Len(t)
          /\ \A i \in 1 .. Len(s) : u[i] = s[i]
          /\ \A i \in 1 .. Len(t) : u[Len(s) + i] = t[i]
          /\ Len(s) \in Nat /\ Len(t) \in Nat
      BY <1>2
    <2>2. ASSUME NEW part, NEW n \in Nat, NEW o \in Nat, Stands(t, part, o, n)
          PROVE  Stands(u, part, Len(s) + o, n)
      <3>1. o + n <= Len(t) /\ \A i \in 1 .. n : t[o + i] = <<part, i>>
        BY <2>2 DEF Stands
      <3>2. ASSUME NEW i \in 1 .. n PROVE u[Len(s) + o + i] = <<part, i>>
        <4>1. o + i \in 1 .. Len(t) /\ Len(s) + o + i = Len(s) + (o + i)
          BY <2>1, <3>1
        <4> QED
          BY <2>1, <3>1, <4>1
      <3>3. Len(s) + o + n <= Len(u)
        BY <2>1, <3>1
      <3> QED
        BY <3>2, <3>3 DEF Stands
    <2>3. ASSUME NEW P, NEW Q, AllOf(s, P), AllOf(t, Q) PROVE AllOf(u, P \union Q)
      <3> SUFFICES ASSUME NEW i \in 1 .. Len(u) PROVE u[i][1] \in P \union Q
        BY <2>1 DEF AllOf
      <3>1. CASE i \in 1 .. Len(s)
        BY <2>1, <2>3, <3>1 DEF AllOf
      <3>2. CASE i > Len(s)
        <4>1. i - Len(s) \in 1 .. Len(t) /\ i = Len(s) + (i - Len(s))
          BY <2>1, <3>2
        <4>2. u[i] = t[i - Len(s)]
          BY <2>1, <4>1
        <4> QED
          BY <2>3, <4>1, <4>2 DEF AllOf
      <3> QED
        BY <2>1, <3>1, <3>2
    <2> QED
      BY <1>2, <2>1, <2>2, <2>3 DEF IsStart
  <1> QED
    BY <1>1, <1>2

LEMMA StartsKeep ==
    ASSUME NEW s \in Seq(RecordWords), NEW u \in Seq(RecordWords), IsStart(s, u),
           NEW part, NEW o \in Nat, NEW n \in Nat, Stands(s, part, o, n)
    PROVE  Stands(u, part, o, n)
  <1>1. Len(s) \in Nat /\ Len(u) \in Nat /\ Len(s) <= Len(u) /\ o + n <= Len(s)
    BY DEF IsStart, Stands
  <1>2. ASSUME NEW i \in 1 .. n PROVE u[o + i] = <<part, i>>
    <2>1. o + i \in 1 .. Len(s)
      BY <1>1
    <2> QED
      BY <2>1 DEF IsStart, Stands
  <1>3. o + n <= Len(u)
    BY <1>1
  <1> QED
    BY <1>2, <1>3 DEF Stands

LEMMA StartsChain ==
    ASSUME NEW s \in Seq(RecordWords), NEW t \in Seq(RecordWords), NEW u \in Seq(RecordWords),
           IsStart(s, t), IsStart(t, u)
    PROVE  IsStart(s, u)
  BY DEF IsStart

\* The record of an image with routes r, level slots v and blocks B: its
\* length and what it has of each part, each at the offset the code gives it.
RecordLen(B, r, v) ==
    18 + 7 * r + (IF B >= 2 THEN 10 ELSE 0) + (IF B >= 3 THEN 3 ELSE 0) + (IF B >= 4 THEN 70 ELSE 0)
    + (IF B >= 5 THEN 5 ELSE 0) + (IF B >= 6 THEN 8 + 10 * v ELSE 0) + (IF B >= 7 THEN 14 ELSE 0)
    + (IF B >= 8 THEN 1 ELSE 0) + (IF B >= 9 THEN 11 ELSE 0) + (IF B >= 10 THEN 16 ELSE 0)

Written(B, r, v) ==
    {<<"header", 0>>} \union {<<"route", i - 1>> : i \in 1 .. r}
    \union (IF B >= 2 THEN {<<"direct", i - 1>> : i \in 1 .. 2} ELSE {})
    \union (IF B >= 3 THEN {<<"tail", 0>>} ELSE {})
    \union (IF B >= 4 THEN {<<"prio", 0>>} \union {<<"threads", 0>>} ELSE {})
    \union (IF B >= 5 THEN {<<"late", 0>>} ELSE {})
    \union (IF B >= 6 THEN {<<"levels", 0>>} \union {<<"level", i - 1>> : i \in 1 .. v} ELSE {})
    \union (IF B >= 7 THEN {<<"route", r>>} \union {<<"floor", 0>>} ELSE {})
    \union (IF B >= 8 THEN {<<"unseen", 0>>} ELSE {})
    \union (IF B >= 9 THEN {<<"resume", 0>>} ELSE {})
    \union (IF B >= 10 THEN {<<"route", r + 1>>} \union {<<"response", 0>>} ELSE {})

LaidOut(s, B, r, v) ==
    /\ s \in Seq(RecordWords) /\ Len(s) = RecordLen(B, r, v) /\ AllOf(s, Written(B, r, v))
    /\ Stands(s, <<"header", 0>>, 0, 18) /\ StandSlots(s, "route", 18, r, 7)
    /\ B >= 2 => StandSlots(s, "direct", 18 + 7 * r, 2, 5)
    /\ B >= 3 => Stands(s, <<"tail", 0>>, 28 + 7 * r, 3)
    /\ B >= 4 => Stands(s, <<"prio", 0>>, 31 + 7 * r, 10) /\ Stands(s, <<"threads", 0>>, 41 + 7 * r, 60)
    /\ B >= 5 => Stands(s, <<"late", 0>>, 101 + 7 * r, 5)
    /\ B >= 6 => Stands(s, <<"levels", 0>>, 106 + 7 * r, 8) /\ StandSlots(s, "level", 114 + 7 * r, v, 10)
    /\ B >= 7 => Stands(s, <<"route", r>>, 114 + 7 * r + 10 * v, 7) /\ Stands(s, <<"floor", 0>>, 121 + 7 * r + 10 * v, 7)
    /\ B >= 8 => Stands(s, <<"unseen", 0>>, 128 + 7 * r + 10 * v, 1)
    /\ B >= 9 => Stands(s, <<"resume", 0>>, 129 + 7 * r + 10 * v, 11)
    /\ B >= 10 => Stands(s, <<"route", r + 1>>, 140 + 7 * r + 10 * v, 7)
                   /\ Stands(s, <<"response", 0>>, 147 + 7 * r + 10 * v, 9)

\* A block appended behind the record's words s, when the image has it.
Followed(c, s, t) == s \o (IF c THEN t ELSE <<>>)

\* Two runs of words, one behind the other.
Behind(s, t) == s \o t
SlotSizes == {ROUTE, DIRECT, LEVEL}
RunLen(m, n, size) == m + n * size
Both(p, q) == {p} \union {q}
Several(p, name, n) == {p} \union {<<name, i - 1>> : i \in 1 .. n}

\* Two parts, one behind the other.
LEMMA PairStands ==
    ASSUME NEW p \in PartNames, NEW m \in Nat, NEW q \in PartNames, NEW n \in Nat,
           NEW t, t = Behind(Words(p, m), Words(q, n))
    PROVE  /\ t \in Seq(RecordWords) /\ Len(t) = m + n
           /\ Stands(t, p, 0, m) /\ Stands(t, q, m, n) /\ AllOf(t, Both(p, q))
  <1>1. PICK a, b : a = Words(p, m) /\ b = Words(q, n)
    OBVIOUS
  <1>2. /\ a \in Seq(RecordWords) /\ Len(a) = m /\ Stands(a, p, 0, m) /\ AllOf(a, {p})
        /\ b \in Seq(RecordWords) /\ Len(b) = n /\ Stands(b, q, 0, n) /\ AllOf(b, {q})
    BY <1>1, WordsStand
  <1>3. t = a \o (IF TRUE THEN b ELSE <<>>)
    BY <1>1 DEF Behind
  <1>4. /\ t \in Seq(RecordWords) /\ IsStart(a, t)
        /\ Len(t) = Len(a) + (IF TRUE THEN Len(b) ELSE 0)
        /\ \A part, k, o : o \in Nat /\ k \in Nat /\ Stands(b, part, o, k) => Stands(t, part, Len(a) + o, k)
        /\ \A P, Q : AllOf(a, P) /\ AllOf(b, Q) => AllOf(t, P \union (IF TRUE THEN Q ELSE {}))
    BY <1>2, <1>3, BlockAppended
  <1>5. Stands(t, p, 0, m)
    BY <1>2, <1>4, StartsKeep
  <1>6. Stands(t, q, m + 0, n)
    BY <1>2, <1>4
  <1>7. m + 0 = m
    OBVIOUS
  <1>8. AllOf(t, {p} \union {q})
    BY <1>2, <1>4
  <1>9. AllOf(t, Both(p, q))
    BY <1>8 DEF Both
  <1> QED
    BY <1>2, <1>4, <1>5, <1>6, <1>7, <1>9

\* A part and the slots behind it.
LEMMA HeadStands ==
    ASSUME NEW p \in PartNames, NEW m \in Nat, NEW name \in PartKinds, NEW n \in Nat,
           NEW size \in SlotSizes, NEW t, t = Behind(Words(p, m), Slots(name, n, size))
    PROVE  /\ t \in Seq(RecordWords) /\ Len(t) = RunLen(m, n, size)
           /\ Stands(t, p, 0, m) /\ StandSlots(t, name, m, n, size)
           /\ AllOf(t, Several(p, name, n))
  <1>1. PICK a, b, S : a = Words(p, m) /\ b = Slots(name, n, size) /\ S = {<<name, i - 1>> : i \in 1 .. n}
    OBVIOUS
  <1>2. /\ a \in Seq(RecordWords) /\ Len(a) = m /\ Stands(a, p, 0, m) /\ AllOf(a, {p})
    BY <1>1, WordsStand
  <1>3. /\ b \in Seq(RecordWords) /\ Len(b) = n * size /\ StandSlots(b, name, 0, n, size) /\ AllOf(b, S)
    BY <1>1, SlotsStand DEF SlotSizes
  <1>4. t = a \o (IF TRUE THEN b ELSE <<>>)
    BY <1>1 DEF Behind
  <1>5. /\ t \in Seq(RecordWords) /\ IsStart(a, t)
        /\ Len(t) = Len(a) + (IF TRUE THEN Len(b) ELSE 0)
        /\ \A part, k, o : o \in Nat /\ k \in Nat /\ Stands(b, part, o, k) => Stands(t, part, Len(a) + o, k)
        /\ \A P, Q : AllOf(a, P) /\ AllOf(b, Q) => AllOf(t, P \union (IF TRUE THEN Q ELSE {}))
    BY <1>2, <1>3, <1>4, BlockAppended
  <1>6. Stands(t, p, 0, m)
    BY <1>2, <1>5, StartsKeep
  <1>7. StandSlots(t, name, m, n, size)
    <2> SUFFICES ASSUME NEW i \in 1 .. n PROVE Stands(t, <<name, i - 1>>, m + (i - 1) * size, size)
      BY DEF StandSlots
    <2>1. size \in Nat
      BY Sizes DEF SlotSizes
    <2>2. PICK o : o = (i - 1) * size
      OBVIOUS
    <2>3. o \in Nat /\ 0 + o = o
      BY <2>1, <2>2
    <2>4. Stands(b, <<name, i - 1>>, o, size)
      BY <1>3, <2>2, <2>3 DEF StandSlots
    <2> QED
      BY <1>2, <1>5, <2>1, <2>2, <2>3, <2>4
  <1>8. AllOf(t, {p} \union S)
    BY <1>2, <1>3, <1>5
  <1>9. AllOf(t, Several(p, name, n))
    BY <1>1, <1>8 DEF Several
  <1> QED
    BY <1>1, <1>2, <1>3, <1>5, <1>6, <1>7, <1>9 DEF RunLen

\* Where the words of a block come to stand in the whole record.
LEMMA BlockPlaced ==
    ASSUME NEW s \in Seq(RecordWords), NEW t \in Seq(RecordWords), NEW u, u = Followed(TRUE, s, t),
           NEW w \in Seq(RecordWords), IsStart(u, w), NEW part, NEW o \in Nat, NEW n \in Nat,
           Stands(t, part, o, n), NEW x, x = Len(s) + o
    PROVE  Stands(w, part, x, n)
  <1>1. u = s \o (IF TRUE THEN t ELSE <<>>)
    BY DEF Followed
  <1>2. u \in Seq(RecordWords) /\ Stands(u, part, Len(s) + o, n)
    BY <1>1, BlockAppended
  <1>3. x \in Nat
    OBVIOUS
  <1> QED
    BY <1>2, <1>3, StartsKeep

LEMMA SlotsPlaced ==
    ASSUME NEW s \in Seq(RecordWords), NEW t \in Seq(RecordWords), NEW u, u = Followed(TRUE, s, t),
           NEW w \in Seq(RecordWords), IsStart(u, w), NEW name, NEW o \in Nat, NEW n \in Nat, NEW size \in Nat,
           StandSlots(t, name, o, n, size), NEW x, x = Len(s) + o
    PROVE  StandSlots(w, name, x, n, size)
  <1> SUFFICES ASSUME NEW i \in 1 .. n PROVE Stands(w, <<name, i - 1>>, x + (i - 1) * size, size)
    BY DEF StandSlots
  <1>1. PICK y : y = (i - 1) * size
    OBVIOUS
  <1>2. y \in Nat /\ Len(s) \in Nat
    BY <1>1
  <1>5. o + y \in Nat /\ x + y = Len(s) + (o + y)
    BY <1>2
  <1>3. Stands(t, <<name, i - 1>>, o + y, size)
    BY <1>1 DEF StandSlots
  <1>4. Stands(w, <<name, i - 1>>, x + y, size)
    BY <1>3, <1>5, BlockPlaced
  <1> QED
    BY <1>1, <1>4

LEMMA FollowedIs ==
    ASSUME NEW s \in Seq(RecordWords), NEW t \in Seq(RecordWords), NEW c \in BOOLEAN, NEW u, u = Followed(c, s, t)
    PROVE  /\ u \in Seq(RecordWords) /\ IsStart(s, u)
           /\ Len(u) = Len(s) + (IF c THEN Len(t) ELSE 0)
           /\ \A P, Q : AllOf(s, P) /\ AllOf(t, Q) => AllOf(u, P \union (IF c THEN Q ELSE {}))
  <1>1. u = s \o (IF c THEN t ELSE <<>>)
    BY DEF Followed
  <1> QED
    BY <1>1, BlockAppended

LEMMA RecordIs ==
    ASSUME NEW img, NEW B \in 1 .. Blocks, NEW r \in Nat, NEW v \in Nat,
           img.blocks = B, img.routes = r, img.levels = v, ~OfI1(img)
    PROVE  LaidOut(record(img), B, r, v)
  <1>1. /\ {18, 7, 5, 2, 3, 10, 60, 8, 1, 11, 9} \subseteq Nat /\ B \in Nat /\ r + 1 \in Nat
        /\ {ROUTE, DIRECT, LEVEL} = {7, 5, 10}
    BY Sizes
  <1>2. PICK t2, t3, t4, t5, t6, t7, t8, t9, t10 :
           /\ t2 = Slots("direct", DIRECT_SLOTS, DIRECT)
           /\ t3 = Words(<<"tail", 0>>, TAIL)
           /\ t4 = Behind(Words(<<"prio", 0>>, PRIO), Words(<<"threads", 0>>, THREADS))
           /\ t5 = Words(<<"late", 0>>, LATE)
           /\ t6 = Behind(Words(<<"levels", 0>>, LEVELS), Slots("level", v, LEVEL))
           /\ t7 = Behind(Words(<<"route", r>>, ROUTE), Words(<<"floor", 0>>, FLOOR))
           /\ t8 = Words(<<"unseen", 0>>, UNSEEN)
           /\ t9 = Words(<<"resume", 0>>, RESUME)
           /\ t10 = Behind(Words(<<"route", r + 1>>, ROUTE), Words(<<"response", 0>>, RESPONSE))
    OBVIOUS
  <1>3. PICK Q2, Q3, Q4, Q5, Q6, Q7, Q8, Q9, Q10 :
           /\ Q2 = {<<"direct", i - 1>> : i \in 1 .. 2}
           /\ Q3 = {<<"tail", 0>>}
           /\ Q4 = {<<"prio", 0>>} \union {<<"threads", 0>>}
           /\ Q5 = {<<"late", 0>>}
           /\ Q6 = {<<"levels", 0>>} \union {<<"level", i - 1>> : i \in 1 .. v}
           /\ Q7 = {<<"route", r>>} \union {<<"floor", 0>>}
           /\ Q8 = {<<"unseen", 0>>}
           /\ Q9 = {<<"resume", 0>>}
           /\ Q10 = {<<"route", r + 1>>} \union {<<"response", 0>>}
    OBVIOUS
  <1>4. PICK s1 : s1 = Behind(Words(<<"header", 0>>, HEADER), Slots("route", r, ROUTE))
    OBVIOUS
  <1>5. PICK s2 : s2 = Followed(B >= 2, s1, t2)
    OBVIOUS
  <1>6. PICK s3 : s3 = Followed(B >= 3, s2, t3)
    OBVIOUS
  <1>7. PICK s4 : s4 = Followed(B >= 4, s3, t4)
    OBVIOUS
  <1>8. PICK s5 : s5 = Followed(B >= 5, s4, t5)
    OBVIOUS
  <1>9. PICK s6 : s6 = Followed(B >= 6, s5, t6)
    OBVIOUS
  <1>10. PICK s7 : s7 = Followed(B >= 7, s6, t7)
    OBVIOUS
  <1>11. PICK s8 : s8 = Followed(B >= 8, s7, t8)
    OBVIOUS
  <1>12. PICK s9 : s9 = Followed(B >= 9, s8, t9)
    OBVIOUS
  <1>13. PICK s10 : s10 = Followed(B >= 10, s9, t10)
    OBVIOUS
  <1>14. record(img) = s10
    <2>1. PICK t : t = levelBlock(img)
      OBVIOUS
    <2>2. record(img) = Followed(img.blocks >= 10, Followed(img.blocks >= 9, Followed(img.blocks >= 8, Followed(img.blocks >= 7,
              Followed(img.blocks >= 6, Followed(img.blocks >= 5, Followed(img.blocks >= 4, Followed(img.blocks >= 3,
              Followed(img.blocks >= 2, Behind(Words(<<"header", 0>>, HEADER), Slots("route", img.routes, ROUTE)),
                   Slots("direct", DIRECT_SLOTS, DIRECT)), Words(<<"tail", 0>>, TAIL)),
                   Behind(Words(<<"prio", 0>>, PRIO), Words(<<"threads", 0>>, THREADS))), Words(<<"late", 0>>, LATE)),
                   t),
                   Behind(Words(<<"route", img.routes>>, ROUTE), Words(<<"floor", 0>>, FLOOR))),
                   Words(<<"unseen", 0>>, UNSEEN)), Words(<<"resume", 0>>, RESUME)),
                   Behind(Words(<<"route", img.routes + 1>>, ROUTE), Words(<<"response", 0>>, RESPONSE)))
      BY <2>1 DEF record, Followed, Behind
    <2>3. Followed(B >= 6, s5, t) = s6
      <3>1. CASE B >= 6
        <4>1. img.p9b
          BY <3>1 DEF OfI1
        <4>2. levelBlock(img) = Behind(Words(<<"levels", 0>>, LEVELS), Slots("level", v, LEVEL))
          BY <4>1 DEF levelBlock, Behind
        <4>3. t = t6
          BY <1>2, <2>1, <4>2
        <4> QED
          BY <1>9, <4>3
      <3>2. CASE ~(B >= 6)
        BY <1>9, <3>2 DEF Followed
      <3> QED
        BY <3>1, <3>2
    <2> QED
      BY <1>2, <1>4, <1>5, <1>6, <1>7, <1>8, <1>10, <1>11, <1>12, <1>13, <2>2, <2>3
  <1>15. /\ s1 \in Seq(RecordWords) /\ Len(s1) = 18 + 7 * r /\ Stands(s1, <<"header", 0>>, 0, 18)
         /\ StandSlots(s1, "route", 18, r, 7)
         /\ AllOf(s1, {<<"header", 0>>} \union {<<"route", i - 1>> : i \in 1 .. r})
    <2>1. <<"header", 0>> \in PartNames
      BY DEF PartNames, PartKinds
    <2>2. s1 = Behind(Words(<<"header", 0>>, 18), Slots("route", r, 7)) /\ 7 \in {ROUTE, DIRECT, LEVEL}
      BY <1>4, Sizes
    <2>3. "route" \in PartKinds /\ 18 \in Nat
      BY DEF PartKinds
    <2>4. PICK p, m, name, size : p = <<"header", 0>> /\ m = 18 /\ name = "route" /\ size = 7
      OBVIOUS
    <2>5. /\ p \in PartNames /\ m \in Nat /\ name \in PartKinds /\ size \in SlotSizes
          /\ s1 = Behind(Words(p, m), Slots(name, r, size))
      BY <2>1, <2>2, <2>3, <2>4 DEF SlotSizes
    <2>6. /\ s1 \in Seq(RecordWords) /\ Len(s1) = RunLen(m, r, size) /\ Stands(s1, p, 0, m)
          /\ StandSlots(s1, name, m, r, size) /\ AllOf(s1, Several(p, name, r))
      BY <2>5, HeadStands
    <2> QED
      BY <2>4, <2>6 DEF Several, RunLen
  <1>16. /\ t2 \in Seq(RecordWords) /\ Len(t2) = 10 /\ AllOf(t2, Q2)
         /\ StandSlots(t2, "direct", 0, 2, 5)
    <2>1. t2 = Slots("direct", 2, 5) /\ 5 \in {ROUTE, DIRECT, LEVEL} /\ "direct" \in PartKinds
      BY <1>2, Sizes DEF PartKinds
    <2>2. /\ t2 \in Seq(RecordWords) /\ Len(t2) = 2 * 5 /\ StandSlots(t2, "direct", 0, 2, 5)
          /\ AllOf(t2, {<<"direct", i - 1>> : i \in 1 .. 2})
      BY <2>1, SlotsStand
    <2> QED
      BY <1>3, <2>2
  <1>17. /\ t3 \in Seq(RecordWords) /\ Len(t3) = 3 /\ AllOf(t3, Q3)
         /\ Stands(t3, <<"tail", 0>>, 0, 3)
    <2>1. <<"tail", 0>> \in PartNames
      BY DEF PartNames, PartKinds
    <2>2. t3 = Words(<<"tail", 0>>, 3)
      BY <1>2, Sizes
    <2>3. t3 \in Seq(RecordWords) /\ Len(t3) = 3 /\ Stands(t3, <<"tail", 0>>, 0, 3) /\ AllOf(t3, {<<"tail", 0>>})
      BY <2>1, <2>2, WordsStand
    <2> QED
      BY <1>3, <2>3
  <1>18. /\ t4 \in Seq(RecordWords) /\ Len(t4) = 70 /\ AllOf(t4, Q4)
         /\ Stands(t4, <<"prio", 0>>, 0, 10) /\ Stands(t4, <<"threads", 0>>, 10, 60)
    <2>1. <<"prio", 0>> \in PartNames /\ <<"threads", 0>> \in PartNames
      BY <1>1 DEF PartNames, PartKinds
    <2>2. t4 = Behind(Words(<<"prio", 0>>, 10), Words(<<"threads", 0>>, 60))
      BY <1>2, Sizes
    <2>3. PICK p, q, m, n : p = <<"prio", 0>> /\ q = <<"threads", 0>> /\ m = 10 /\ n = 60
      OBVIOUS
    <2>4. p \in PartNames /\ q \in PartNames /\ m \in Nat /\ n \in Nat /\ t4 = Behind(Words(p, m), Words(q, n))
      BY <2>1, <2>2, <2>3
    <2>5. /\ t4 \in Seq(RecordWords) /\ Len(t4) = m + n
          /\ Stands(t4, p, 0, m) /\ Stands(t4, q, m, n) /\ AllOf(t4, Both(p, q))
      BY <2>4, PairStands
    <2> QED
      BY <1>3, <2>3, <2>5 DEF Both
  <1>19. /\ t5 \in Seq(RecordWords) /\ Len(t5) = 5 /\ AllOf(t5, Q5)
         /\ Stands(t5, <<"late", 0>>, 0, 5)
    <2>1. <<"late", 0>> \in PartNames
      BY DEF PartNames, PartKinds
    <2>2. t5 = Words(<<"late", 0>>, 5)
      BY <1>2, Sizes
    <2>3. t5 \in Seq(RecordWords) /\ Len(t5) = 5 /\ Stands(t5, <<"late", 0>>, 0, 5) /\ AllOf(t5, {<<"late", 0>>})
      BY <2>1, <2>2, WordsStand
    <2> QED
      BY <1>3, <2>3
  <1>20. /\ t6 \in Seq(RecordWords) /\ Len(t6) = 8 + 10 * v /\ AllOf(t6, Q6)
         /\ Stands(t6, <<"levels", 0>>, 0, 8) /\ StandSlots(t6, "level", 8, v, 10)
    <2>1. <<"levels", 0>> \in PartNames
      BY DEF PartNames, PartKinds
    <2>2. t6 = Behind(Words(<<"levels", 0>>, 8), Slots("level", v, 10)) /\ 10 \in {ROUTE, DIRECT, LEVEL} /\ "level" \in PartKinds
      BY <1>2, Sizes DEF PartKinds
    <2>4. PICK p, m, name, size : p = <<"levels", 0>> /\ m = 8 /\ name = "level" /\ size = 10
      OBVIOUS
    <2>5. /\ p \in PartNames /\ m \in Nat /\ name \in PartKinds /\ size \in SlotSizes
          /\ t6 = Behind(Words(p, m), Slots(name, v, size))
      BY <2>1, <2>2, <2>4 DEF SlotSizes
    <2>6. /\ t6 \in Seq(RecordWords) /\ Len(t6) = RunLen(m, v, size) /\ Stands(t6, p, 0, m)
          /\ StandSlots(t6, name, m, v, size) /\ AllOf(t6, Several(p, name, v))
      BY <2>5, HeadStands
    <2> QED
      BY <1>3, <2>4, <2>6 DEF Several, RunLen
  <1>21. /\ t7 \in Seq(RecordWords) /\ Len(t7) = 14 /\ AllOf(t7, Q7)
         /\ Stands(t7, <<"route", r>>, 0, 7) /\ Stands(t7, <<"floor", 0>>, 7, 7)
    <2>1. <<"route", r>> \in PartNames /\ <<"floor", 0>> \in PartNames
      BY <1>1 DEF PartNames, PartKinds
    <2>2. t7 = Behind(Words(<<"route", r>>, 7), Words(<<"floor", 0>>, 7))
      BY <1>2, Sizes
    <2>3. PICK p, q, m, n : p = <<"route", r>> /\ q = <<"floor", 0>> /\ m = 7 /\ n = 7
      OBVIOUS
    <2>4. p \in PartNames /\ q \in PartNames /\ m \in Nat /\ n \in Nat /\ t7 = Behind(Words(p, m), Words(q, n))
      BY <2>1, <2>2, <2>3
    <2>5. /\ t7 \in Seq(RecordWords) /\ Len(t7) = m + n
          /\ Stands(t7, p, 0, m) /\ Stands(t7, q, m, n) /\ AllOf(t7, Both(p, q))
      BY <2>4, PairStands
    <2> QED
      BY <1>3, <2>3, <2>5 DEF Both
  <1>22. /\ t8 \in Seq(RecordWords) /\ Len(t8) = 1 /\ AllOf(t8, Q8)
         /\ Stands(t8, <<"unseen", 0>>, 0, 1)
    <2>1. <<"unseen", 0>> \in PartNames
      BY DEF PartNames, PartKinds
    <2>2. t8 = Words(<<"unseen", 0>>, 1)
      BY <1>2, Sizes
    <2>3. t8 \in Seq(RecordWords) /\ Len(t8) = 1 /\ Stands(t8, <<"unseen", 0>>, 0, 1) /\ AllOf(t8, {<<"unseen", 0>>})
      BY <2>1, <2>2, WordsStand
    <2> QED
      BY <1>3, <2>3
  <1>23. /\ t9 \in Seq(RecordWords) /\ Len(t9) = 11 /\ AllOf(t9, Q9)
         /\ Stands(t9, <<"resume", 0>>, 0, 11)
    <2>1. <<"resume", 0>> \in PartNames
      BY DEF PartNames, PartKinds
    <2>2. t9 = Words(<<"resume", 0>>, 11)
      BY <1>2, Sizes
    <2>3. t9 \in Seq(RecordWords) /\ Len(t9) = 11 /\ Stands(t9, <<"resume", 0>>, 0, 11) /\ AllOf(t9, {<<"resume", 0>>})
      BY <2>1, <2>2, WordsStand
    <2> QED
      BY <1>3, <2>3
  <1>24. /\ t10 \in Seq(RecordWords) /\ Len(t10) = 16 /\ AllOf(t10, Q10)
         /\ Stands(t10, <<"route", r + 1>>, 0, 7) /\ Stands(t10, <<"response", 0>>, 7, 9)
    <2>1. <<"route", r + 1>> \in PartNames /\ <<"response", 0>> \in PartNames
      BY <1>1 DEF PartNames, PartKinds
    <2>2. t10 = Behind(Words(<<"route", r + 1>>, 7), Words(<<"response", 0>>, 9))
      BY <1>2, Sizes
    <2>3. PICK p, q, m, n : p = <<"route", r + 1>> /\ q = <<"response", 0>> /\ m = 7 /\ n = 9
      OBVIOUS
    <2>4. p \in PartNames /\ q \in PartNames /\ m \in Nat /\ n \in Nat /\ t10 = Behind(Words(p, m), Words(q, n))
      BY <2>1, <2>2, <2>3
    <2>5. /\ t10 \in Seq(RecordWords) /\ Len(t10) = m + n
          /\ Stands(t10, p, 0, m) /\ Stands(t10, q, m, n) /\ AllOf(t10, Both(p, q))
      BY <2>4, PairStands
    <2> QED
      BY <1>3, <2>3, <2>5 DEF Both
  <1>25. /\ s2 \in Seq(RecordWords) /\ IsStart(s1, s2) /\ Len(s2) = Len(s1) + (IF B >= 2 THEN Len(t2) ELSE 0)
         /\ \A P, Q : AllOf(s1, P) /\ AllOf(t2, Q) => AllOf(s2, P \union (IF B >= 2 THEN Q ELSE {}))
    <2>1. PICK c \in BOOLEAN : c <=> B >= 2
      OBVIOUS
    <2>2. s1 \in Seq(RecordWords) /\ t2 \in Seq(RecordWords)
      BY <1>15, <1>16
    <2>3. s2 = Followed(c, s1, t2)
      BY <1>5, <2>1 DEF Followed
    <2>4. /\ s2 \in Seq(RecordWords) /\ IsStart(s1, s2) /\ Len(s2) = Len(s1) + (IF c THEN Len(t2) ELSE 0)
          /\ \A P, Q : AllOf(s1, P) /\ AllOf(t2, Q) => AllOf(s2, P \union (IF c THEN Q ELSE {}))
      BY <2>2, <2>3, FollowedIs
    <2> QED
      BY <2>1, <2>4
  <1>26. /\ s3 \in Seq(RecordWords) /\ IsStart(s2, s3) /\ Len(s3) = Len(s2) + (IF B >= 3 THEN Len(t3) ELSE 0)
         /\ \A P, Q : AllOf(s2, P) /\ AllOf(t3, Q) => AllOf(s3, P \union (IF B >= 3 THEN Q ELSE {}))
    <2>1. PICK c \in BOOLEAN : c <=> B >= 3
      OBVIOUS
    <2>2. s2 \in Seq(RecordWords) /\ t3 \in Seq(RecordWords)
      BY <1>15, <1>25, <1>17
    <2>3. s3 = Followed(c, s2, t3)
      BY <1>6, <2>1 DEF Followed
    <2>4. /\ s3 \in Seq(RecordWords) /\ IsStart(s2, s3) /\ Len(s3) = Len(s2) + (IF c THEN Len(t3) ELSE 0)
          /\ \A P, Q : AllOf(s2, P) /\ AllOf(t3, Q) => AllOf(s3, P \union (IF c THEN Q ELSE {}))
      BY <2>2, <2>3, FollowedIs
    <2> QED
      BY <2>1, <2>4
  <1>27. /\ s4 \in Seq(RecordWords) /\ IsStart(s3, s4) /\ Len(s4) = Len(s3) + (IF B >= 4 THEN Len(t4) ELSE 0)
         /\ \A P, Q : AllOf(s3, P) /\ AllOf(t4, Q) => AllOf(s4, P \union (IF B >= 4 THEN Q ELSE {}))
    <2>1. PICK c \in BOOLEAN : c <=> B >= 4
      OBVIOUS
    <2>2. s3 \in Seq(RecordWords) /\ t4 \in Seq(RecordWords)
      BY <1>15, <1>26, <1>18
    <2>3. s4 = Followed(c, s3, t4)
      BY <1>7, <2>1 DEF Followed
    <2>4. /\ s4 \in Seq(RecordWords) /\ IsStart(s3, s4) /\ Len(s4) = Len(s3) + (IF c THEN Len(t4) ELSE 0)
          /\ \A P, Q : AllOf(s3, P) /\ AllOf(t4, Q) => AllOf(s4, P \union (IF c THEN Q ELSE {}))
      BY <2>2, <2>3, FollowedIs
    <2> QED
      BY <2>1, <2>4
  <1>28. /\ s5 \in Seq(RecordWords) /\ IsStart(s4, s5) /\ Len(s5) = Len(s4) + (IF B >= 5 THEN Len(t5) ELSE 0)
         /\ \A P, Q : AllOf(s4, P) /\ AllOf(t5, Q) => AllOf(s5, P \union (IF B >= 5 THEN Q ELSE {}))
    <2>1. PICK c \in BOOLEAN : c <=> B >= 5
      OBVIOUS
    <2>2. s4 \in Seq(RecordWords) /\ t5 \in Seq(RecordWords)
      BY <1>15, <1>27, <1>19
    <2>3. s5 = Followed(c, s4, t5)
      BY <1>8, <2>1 DEF Followed
    <2>4. /\ s5 \in Seq(RecordWords) /\ IsStart(s4, s5) /\ Len(s5) = Len(s4) + (IF c THEN Len(t5) ELSE 0)
          /\ \A P, Q : AllOf(s4, P) /\ AllOf(t5, Q) => AllOf(s5, P \union (IF c THEN Q ELSE {}))
      BY <2>2, <2>3, FollowedIs
    <2> QED
      BY <2>1, <2>4
  <1>29. /\ s6 \in Seq(RecordWords) /\ IsStart(s5, s6) /\ Len(s6) = Len(s5) + (IF B >= 6 THEN Len(t6) ELSE 0)
         /\ \A P, Q : AllOf(s5, P) /\ AllOf(t6, Q) => AllOf(s6, P \union (IF B >= 6 THEN Q ELSE {}))
    <2>1. PICK c \in BOOLEAN : c <=> B >= 6
      OBVIOUS
    <2>2. s5 \in Seq(RecordWords) /\ t6 \in Seq(RecordWords)
      BY <1>15, <1>28, <1>20
    <2>3. s6 = Followed(c, s5, t6)
      BY <1>9, <2>1 DEF Followed
    <2>4. /\ s6 \in Seq(RecordWords) /\ IsStart(s5, s6) /\ Len(s6) = Len(s5) + (IF c THEN Len(t6) ELSE 0)
          /\ \A P, Q : AllOf(s5, P) /\ AllOf(t6, Q) => AllOf(s6, P \union (IF c THEN Q ELSE {}))
      BY <2>2, <2>3, FollowedIs
    <2> QED
      BY <2>1, <2>4
  <1>30. /\ s7 \in Seq(RecordWords) /\ IsStart(s6, s7) /\ Len(s7) = Len(s6) + (IF B >= 7 THEN Len(t7) ELSE 0)
         /\ \A P, Q : AllOf(s6, P) /\ AllOf(t7, Q) => AllOf(s7, P \union (IF B >= 7 THEN Q ELSE {}))
    <2>1. PICK c \in BOOLEAN : c <=> B >= 7
      OBVIOUS
    <2>2. s6 \in Seq(RecordWords) /\ t7 \in Seq(RecordWords)
      BY <1>15, <1>29, <1>21
    <2>3. s7 = Followed(c, s6, t7)
      BY <1>10, <2>1 DEF Followed
    <2>4. /\ s7 \in Seq(RecordWords) /\ IsStart(s6, s7) /\ Len(s7) = Len(s6) + (IF c THEN Len(t7) ELSE 0)
          /\ \A P, Q : AllOf(s6, P) /\ AllOf(t7, Q) => AllOf(s7, P \union (IF c THEN Q ELSE {}))
      BY <2>2, <2>3, FollowedIs
    <2> QED
      BY <2>1, <2>4
  <1>31. /\ s8 \in Seq(RecordWords) /\ IsStart(s7, s8) /\ Len(s8) = Len(s7) + (IF B >= 8 THEN Len(t8) ELSE 0)
         /\ \A P, Q : AllOf(s7, P) /\ AllOf(t8, Q) => AllOf(s8, P \union (IF B >= 8 THEN Q ELSE {}))
    <2>1. PICK c \in BOOLEAN : c <=> B >= 8
      OBVIOUS
    <2>2. s7 \in Seq(RecordWords) /\ t8 \in Seq(RecordWords)
      BY <1>15, <1>30, <1>22
    <2>3. s8 = Followed(c, s7, t8)
      BY <1>11, <2>1 DEF Followed
    <2>4. /\ s8 \in Seq(RecordWords) /\ IsStart(s7, s8) /\ Len(s8) = Len(s7) + (IF c THEN Len(t8) ELSE 0)
          /\ \A P, Q : AllOf(s7, P) /\ AllOf(t8, Q) => AllOf(s8, P \union (IF c THEN Q ELSE {}))
      BY <2>2, <2>3, FollowedIs
    <2> QED
      BY <2>1, <2>4
  <1>32. /\ s9 \in Seq(RecordWords) /\ IsStart(s8, s9) /\ Len(s9) = Len(s8) + (IF B >= 9 THEN Len(t9) ELSE 0)
         /\ \A P, Q : AllOf(s8, P) /\ AllOf(t9, Q) => AllOf(s9, P \union (IF B >= 9 THEN Q ELSE {}))
    <2>1. PICK c \in BOOLEAN : c <=> B >= 9
      OBVIOUS
    <2>2. s8 \in Seq(RecordWords) /\ t9 \in Seq(RecordWords)
      BY <1>15, <1>31, <1>23
    <2>3. s9 = Followed(c, s8, t9)
      BY <1>12, <2>1 DEF Followed
    <2>4. /\ s9 \in Seq(RecordWords) /\ IsStart(s8, s9) /\ Len(s9) = Len(s8) + (IF c THEN Len(t9) ELSE 0)
          /\ \A P, Q : AllOf(s8, P) /\ AllOf(t9, Q) => AllOf(s9, P \union (IF c THEN Q ELSE {}))
      BY <2>2, <2>3, FollowedIs
    <2> QED
      BY <2>1, <2>4
  <1>33. /\ s10 \in Seq(RecordWords) /\ IsStart(s9, s10) /\ Len(s10) = Len(s9) + (IF B >= 10 THEN Len(t10) ELSE 0)
         /\ \A P, Q : AllOf(s9, P) /\ AllOf(t10, Q) => AllOf(s10, P \union (IF B >= 10 THEN Q ELSE {}))
    <2>1. PICK c \in BOOLEAN : c <=> B >= 10
      OBVIOUS
    <2>2. s9 \in Seq(RecordWords) /\ t10 \in Seq(RecordWords)
      BY <1>15, <1>32, <1>24
    <2>3. s10 = Followed(c, s9, t10)
      BY <1>13, <2>1 DEF Followed
    <2>4. /\ s10 \in Seq(RecordWords) /\ IsStart(s9, s10) /\ Len(s10) = Len(s9) + (IF c THEN Len(t10) ELSE 0)
          /\ \A P, Q : AllOf(s9, P) /\ AllOf(t10, Q) => AllOf(s10, P \union (IF c THEN Q ELSE {}))
      BY <2>2, <2>3, FollowedIs
    <2> QED
      BY <2>1, <2>4
  <1>34. IsStart(s10, s10)
    BY DEF IsStart
  <1>35. IsStart(s9, s10)
    BY <1>15, <1>32, <1>33, <1>34, StartsChain
  <1>36. IsStart(s8, s10)
    BY <1>15, <1>31, <1>32, <1>33, <1>35, StartsChain
  <1>37. IsStart(s7, s10)
    BY <1>15, <1>30, <1>31, <1>33, <1>36, StartsChain
  <1>38. IsStart(s6, s10)
    BY <1>15, <1>29, <1>30, <1>33, <1>37, StartsChain
  <1>39. IsStart(s5, s10)
    BY <1>15, <1>28, <1>29, <1>33, <1>38, StartsChain
  <1>40. IsStart(s4, s10)
    BY <1>15, <1>27, <1>28, <1>33, <1>39, StartsChain
  <1>41. IsStart(s3, s10)
    BY <1>15, <1>26, <1>27, <1>33, <1>40, StartsChain
  <1>42. IsStart(s2, s10)
    BY <1>15, <1>25, <1>26, <1>33, <1>41, StartsChain
  <1>43. IsStart(s1, s10)
    BY <1>15, <1>25, <1>33, <1>42, StartsChain
  <1>44. Len(s10) = RecordLen(B, r, v)
    BY <1>1, <1>15, <1>16, <1>17, <1>18, <1>19, <1>20, <1>21, <1>22, <1>23, <1>24, <1>25, <1>26, <1>27, <1>28, <1>29, <1>30, <1>31, <1>32, <1>33 DEF RecordLen
  <1>45. AllOf(s10, Written(B, r, v))
    <2>1. PICK P1 : P1 = {<<"header", 0>>} \union {<<"route", i - 1>> : i \in 1 .. r}
      OBVIOUS
    <2>2. PICK P2 : P2 = P1 \union (IF B >= 2 THEN Q2 ELSE {})
      OBVIOUS
    <2>3. PICK P3 : P3 = P2 \union (IF B >= 3 THEN Q3 ELSE {})
      OBVIOUS
    <2>4. PICK P4 : P4 = P3 \union (IF B >= 4 THEN Q4 ELSE {})
      OBVIOUS
    <2>5. PICK P5 : P5 = P4 \union (IF B >= 5 THEN Q5 ELSE {})
      OBVIOUS
    <2>6. PICK P6 : P6 = P5 \union (IF B >= 6 THEN Q6 ELSE {})
      OBVIOUS
    <2>7. PICK P7 : P7 = P6 \union (IF B >= 7 THEN Q7 ELSE {})
      OBVIOUS
    <2>8. PICK P8 : P8 = P7 \union (IF B >= 8 THEN Q8 ELSE {})
      OBVIOUS
    <2>9. PICK P9 : P9 = P8 \union (IF B >= 9 THEN Q9 ELSE {})
      OBVIOUS
    <2>10. PICK P10 : P10 = P9 \union (IF B >= 10 THEN Q10 ELSE {})
      OBVIOUS
    <2>11. AllOf(s1, P1)
      BY <1>15, <2>1
    <2>12. AllOf(s2, P2)
      BY <1>16, <1>25, <2>2, <2>11
    <2>13. AllOf(s3, P3)
      BY <1>17, <1>26, <2>3, <2>12
    <2>14. AllOf(s4, P4)
      BY <1>18, <1>27, <2>4, <2>13
    <2>15. AllOf(s5, P5)
      BY <1>19, <1>28, <2>5, <2>14
    <2>16. AllOf(s6, P6)
      BY <1>20, <1>29, <2>6, <2>15
    <2>17. AllOf(s7, P7)
      BY <1>21, <1>30, <2>7, <2>16
    <2>18. AllOf(s8, P8)
      BY <1>22, <1>31, <2>8, <2>17
    <2>19. AllOf(s9, P9)
      BY <1>23, <1>32, <2>9, <2>18
    <2>20. AllOf(s10, P10)
      BY <1>24, <1>33, <2>10, <2>19
    <2>21. P10 = Written(B, r, v)
      BY <1>3, <2>1, <2>2, <2>3, <2>4, <2>5, <2>6, <2>7, <2>8, <2>9, <2>10 DEF Written
    <2> QED
      BY <2>20, <2>21
  <1>46. B >= 2 => Len(s1) = 18 + 7 * r
    BY <1>1, <1>15
  <1>47. ASSUME B >= 3 PROVE Len(s2) = 28 + 7 * r
    <2>1. B >= 2
      BY <1>1, <1>47
    <2>2. Len(s1) = 18 + 7 * r
      BY <1>46, <2>1
    <2>3. Len(s2) = Len(s1) + Len(t2)
      BY <1>25, <2>1
    <2>4. Len(t2) = 10
      BY <1>16
    <2> QED
      BY <1>1, <2>2, <2>3, <2>4
  <1>48. ASSUME B >= 4 PROVE Len(s3) = 31 + 7 * r
    <2>1. B >= 3
      BY <1>1, <1>48
    <2>2. Len(s2) = 28 + 7 * r
      BY <1>47, <2>1
    <2>3. Len(s3) = Len(s2) + Len(t3)
      BY <1>26, <2>1
    <2>4. Len(t3) = 3
      BY <1>17
    <2> QED
      BY <1>1, <2>2, <2>3, <2>4
  <1>49. ASSUME B >= 5 PROVE Len(s4) = 101 + 7 * r
    <2>1. B >= 4
      BY <1>1, <1>49
    <2>2. Len(s3) = 31 + 7 * r
      BY <1>48, <2>1
    <2>3. Len(s4) = Len(s3) + Len(t4)
      BY <1>27, <2>1
    <2>4. Len(t4) = 70
      BY <1>18
    <2> QED
      BY <1>1, <2>2, <2>3, <2>4
  <1>50. ASSUME B >= 6 PROVE Len(s5) = 106 + 7 * r
    <2>1. B >= 5
      BY <1>1, <1>50
    <2>2. Len(s4) = 101 + 7 * r
      BY <1>49, <2>1
    <2>3. Len(s5) = Len(s4) + Len(t5)
      BY <1>28, <2>1
    <2>4. Len(t5) = 5
      BY <1>19
    <2> QED
      BY <1>1, <2>2, <2>3, <2>4
  <1>51. ASSUME B >= 7 PROVE Len(s6) = 114 + 7 * r + 10 * v
    <2>1. B >= 6
      BY <1>1, <1>51
    <2>2. Len(s5) = 106 + 7 * r
      BY <1>50, <2>1
    <2>3. Len(s6) = Len(s5) + Len(t6)
      BY <1>29, <2>1
    <2>4. Len(t6) = 8 + 10 * v
      BY <1>20
    <2> QED
      BY <1>1, <2>2, <2>3, <2>4
  <1>52. ASSUME B >= 8 PROVE Len(s7) = 128 + 7 * r + 10 * v
    <2>1. B >= 7
      BY <1>1, <1>52
    <2>2. Len(s6) = 114 + 7 * r + 10 * v
      BY <1>51, <2>1
    <2>3. Len(s7) = Len(s6) + Len(t7)
      BY <1>30, <2>1
    <2>4. Len(t7) = 14
      BY <1>21
    <2> QED
      BY <1>1, <2>2, <2>3, <2>4
  <1>53. ASSUME B >= 9 PROVE Len(s8) = 129 + 7 * r + 10 * v
    <2>1. B >= 8
      BY <1>1, <1>53
    <2>2. Len(s7) = 128 + 7 * r + 10 * v
      BY <1>52, <2>1
    <2>3. Len(s8) = Len(s7) + Len(t8)
      BY <1>31, <2>1
    <2>4. Len(t8) = 1
      BY <1>22
    <2> QED
      BY <1>1, <2>2, <2>3, <2>4
  <1>54. ASSUME B >= 10 PROVE Len(s9) = 140 + 7 * r + 10 * v
    <2>1. B >= 9
      BY <1>1, <1>54
    <2>2. Len(s8) = 129 + 7 * r + 10 * v
      BY <1>53, <2>1
    <2>3. Len(s9) = Len(s8) + Len(t9)
      BY <1>32, <2>1
    <2>4. Len(t9) = 11
      BY <1>23
    <2> QED
      BY <1>1, <2>2, <2>3, <2>4
  <1>55. ASSUME B >= 2 PROVE StandSlots(s10, "direct", 18 + 7 * r, 2, 5)
    <2>1. s2 = Followed(TRUE, s1, t2)
      BY <1>5, <1>55 DEF Followed
    <2>2. 18 + 7 * r = Len(s1) + 0 /\ {0, 2, 5} \subseteq Nat
      BY <1>1, <1>46, <1>55
    <2>3. s1 \in Seq(RecordWords) /\ t2 \in Seq(RecordWords) /\ s10 \in Seq(RecordWords) /\ IsStart(s2, s10)
      BY <1>15, <1>16, <1>33, <1>42
    <2>4. StandSlots(t2, "direct", 0, 2, 5)
      BY <1>16
    <2>5. PICK o, n, size, x : o = 0 /\ n = 2 /\ size = 5 /\ x = 18 + 7 * r
      OBVIOUS
    <2>6. o \in Nat /\ n \in Nat /\ size \in Nat /\ x = Len(s1) + o
      BY <2>2, <2>5
    <2>7. StandSlots(t2, "direct", o, n, size)
      BY <2>4, <2>5
    <2>8. StandSlots(s10, "direct", x, n, size)
      BY <2>1, <2>3, <2>6, <2>7, SlotsPlaced
    <2> QED
      BY <2>5, <2>8
  <1>56. ASSUME B >= 3 PROVE Stands(s10, <<"tail", 0>>, 28 + 7 * r, 3)
    <2>1. s3 = Followed(TRUE, s2, t3)
      BY <1>6, <1>56 DEF Followed
    <2>2. 28 + 7 * r = Len(s2) + 0 /\ {0, 3} \subseteq Nat
      BY <1>1, <1>47, <1>56
    <2>3. s2 \in Seq(RecordWords) /\ t3 \in Seq(RecordWords) /\ s10 \in Seq(RecordWords) /\ IsStart(s3, s10)
      BY <1>15, <1>17, <1>25, <1>33, <1>41
    <2>4. Stands(t3, <<"tail", 0>>, 0, 3)
      BY <1>17
    <2>5. PICK o, n, x, p : o = 0 /\ n = 3 /\ x = 28 + 7 * r /\ p = <<"tail", 0>>
      OBVIOUS
    <2>6. o \in Nat /\ n \in Nat /\ x = Len(s2) + o
      BY <2>2, <2>5
    <2>7. Stands(t3, p, o, n)
      BY <2>4, <2>5
    <2>8. Stands(s10, p, x, n)
      BY <2>1, <2>3, <2>6, <2>7, BlockPlaced
    <2> QED
      BY <2>5, <2>8
  <1>57. ASSUME B >= 4 PROVE Stands(s10, <<"prio", 0>>, 31 + 7 * r, 10)
    <2>1. s4 = Followed(TRUE, s3, t4)
      BY <1>7, <1>57 DEF Followed
    <2>2. 31 + 7 * r = Len(s3) + 0 /\ {0, 10} \subseteq Nat
      BY <1>1, <1>48, <1>57
    <2>3. s3 \in Seq(RecordWords) /\ t4 \in Seq(RecordWords) /\ s10 \in Seq(RecordWords) /\ IsStart(s4, s10)
      BY <1>15, <1>18, <1>26, <1>33, <1>40
    <2>4. Stands(t4, <<"prio", 0>>, 0, 10)
      BY <1>18
    <2>5. PICK o, n, x, p : o = 0 /\ n = 10 /\ x = 31 + 7 * r /\ p = <<"prio", 0>>
      OBVIOUS
    <2>6. o \in Nat /\ n \in Nat /\ x = Len(s3) + o
      BY <2>2, <2>5
    <2>7. Stands(t4, p, o, n)
      BY <2>4, <2>5
    <2>8. Stands(s10, p, x, n)
      BY <2>1, <2>3, <2>6, <2>7, BlockPlaced
    <2> QED
      BY <2>5, <2>8
  <1>58. ASSUME B >= 4 PROVE Stands(s10, <<"threads", 0>>, 41 + 7 * r, 60)
    <2>1. s4 = Followed(TRUE, s3, t4)
      BY <1>7, <1>58 DEF Followed
    <2>2. 41 + 7 * r = Len(s3) + 10 /\ {10, 60} \subseteq Nat
      BY <1>1, <1>48, <1>58
    <2>3. s3 \in Seq(RecordWords) /\ t4 \in Seq(RecordWords) /\ s10 \in Seq(RecordWords) /\ IsStart(s4, s10)
      BY <1>15, <1>18, <1>26, <1>33, <1>40
    <2>4. Stands(t4, <<"threads", 0>>, 10, 60)
      BY <1>18
    <2>5. PICK o, n, x, p : o = 10 /\ n = 60 /\ x = 41 + 7 * r /\ p = <<"threads", 0>>
      OBVIOUS
    <2>6. o \in Nat /\ n \in Nat /\ x = Len(s3) + o
      BY <2>2, <2>5
    <2>7. Stands(t4, p, o, n)
      BY <2>4, <2>5
    <2>8. Stands(s10, p, x, n)
      BY <2>1, <2>3, <2>6, <2>7, BlockPlaced
    <2> QED
      BY <2>5, <2>8
  <1>59. ASSUME B >= 5 PROVE Stands(s10, <<"late", 0>>, 101 + 7 * r, 5)
    <2>1. s5 = Followed(TRUE, s4, t5)
      BY <1>8, <1>59 DEF Followed
    <2>2. 101 + 7 * r = Len(s4) + 0 /\ {0, 5} \subseteq Nat
      BY <1>1, <1>49, <1>59
    <2>3. s4 \in Seq(RecordWords) /\ t5 \in Seq(RecordWords) /\ s10 \in Seq(RecordWords) /\ IsStart(s5, s10)
      BY <1>15, <1>19, <1>27, <1>33, <1>39
    <2>4. Stands(t5, <<"late", 0>>, 0, 5)
      BY <1>19
    <2>5. PICK o, n, x, p : o = 0 /\ n = 5 /\ x = 101 + 7 * r /\ p = <<"late", 0>>
      OBVIOUS
    <2>6. o \in Nat /\ n \in Nat /\ x = Len(s4) + o
      BY <2>2, <2>5
    <2>7. Stands(t5, p, o, n)
      BY <2>4, <2>5
    <2>8. Stands(s10, p, x, n)
      BY <2>1, <2>3, <2>6, <2>7, BlockPlaced
    <2> QED
      BY <2>5, <2>8
  <1>60. ASSUME B >= 6 PROVE Stands(s10, <<"levels", 0>>, 106 + 7 * r, 8)
    <2>1. s6 = Followed(TRUE, s5, t6)
      BY <1>9, <1>60 DEF Followed
    <2>2. 106 + 7 * r = Len(s5) + 0 /\ {0, 8} \subseteq Nat
      BY <1>1, <1>50, <1>60
    <2>3. s5 \in Seq(RecordWords) /\ t6 \in Seq(RecordWords) /\ s10 \in Seq(RecordWords) /\ IsStart(s6, s10)
      BY <1>15, <1>20, <1>28, <1>33, <1>38
    <2>4. Stands(t6, <<"levels", 0>>, 0, 8)
      BY <1>20
    <2>5. PICK o, n, x, p : o = 0 /\ n = 8 /\ x = 106 + 7 * r /\ p = <<"levels", 0>>
      OBVIOUS
    <2>6. o \in Nat /\ n \in Nat /\ x = Len(s5) + o
      BY <2>2, <2>5
    <2>7. Stands(t6, p, o, n)
      BY <2>4, <2>5
    <2>8. Stands(s10, p, x, n)
      BY <2>1, <2>3, <2>6, <2>7, BlockPlaced
    <2> QED
      BY <2>5, <2>8
  <1>61. ASSUME B >= 6 PROVE StandSlots(s10, "level", 114 + 7 * r, v, 10)
    <2>1. s6 = Followed(TRUE, s5, t6)
      BY <1>9, <1>61 DEF Followed
    <2>2. 114 + 7 * r = Len(s5) + 8 /\ {8, v, 10} \subseteq Nat
      BY <1>1, <1>50, <1>61
    <2>3. s5 \in Seq(RecordWords) /\ t6 \in Seq(RecordWords) /\ s10 \in Seq(RecordWords) /\ IsStart(s6, s10)
      BY <1>15, <1>20, <1>28, <1>33, <1>38
    <2>4. StandSlots(t6, "level", 8, v, 10)
      BY <1>20
    <2>5. PICK o, n, size, x : o = 8 /\ n = v /\ size = 10 /\ x = 114 + 7 * r
      OBVIOUS
    <2>6. o \in Nat /\ n \in Nat /\ size \in Nat /\ x = Len(s5) + o
      BY <2>2, <2>5
    <2>7. StandSlots(t6, "level", o, n, size)
      BY <2>4, <2>5
    <2>8. StandSlots(s10, "level", x, n, size)
      BY <2>1, <2>3, <2>6, <2>7, SlotsPlaced
    <2> QED
      BY <2>5, <2>8
  <1>62. ASSUME B >= 7 PROVE Stands(s10, <<"route", r>>, 114 + 7 * r + 10 * v, 7)
    <2>1. s7 = Followed(TRUE, s6, t7)
      BY <1>10, <1>62 DEF Followed
    <2>2. 114 + 7 * r + 10 * v = Len(s6) + 0 /\ {0, 7} \subseteq Nat
      BY <1>1, <1>51, <1>62
    <2>3. s6 \in Seq(RecordWords) /\ t7 \in Seq(RecordWords) /\ s10 \in Seq(RecordWords) /\ IsStart(s7, s10)
      BY <1>15, <1>21, <1>29, <1>33, <1>37
    <2>4. Stands(t7, <<"route", r>>, 0, 7)
      BY <1>21
    <2>5. PICK o, n, x, p : o = 0 /\ n = 7 /\ x = 114 + 7 * r + 10 * v /\ p = <<"route", r>>
      OBVIOUS
    <2>6. o \in Nat /\ n \in Nat /\ x = Len(s6) + o
      BY <2>2, <2>5
    <2>7. Stands(t7, p, o, n)
      BY <2>4, <2>5
    <2>8. Stands(s10, p, x, n)
      BY <2>1, <2>3, <2>6, <2>7, BlockPlaced
    <2> QED
      BY <2>5, <2>8
  <1>63. ASSUME B >= 7 PROVE Stands(s10, <<"floor", 0>>, 121 + 7 * r + 10 * v, 7)
    <2>1. s7 = Followed(TRUE, s6, t7)
      BY <1>10, <1>63 DEF Followed
    <2>2. 121 + 7 * r + 10 * v = Len(s6) + 7 /\ {7, 7} \subseteq Nat
      BY <1>1, <1>51, <1>63
    <2>3. s6 \in Seq(RecordWords) /\ t7 \in Seq(RecordWords) /\ s10 \in Seq(RecordWords) /\ IsStart(s7, s10)
      BY <1>15, <1>21, <1>29, <1>33, <1>37
    <2>4. Stands(t7, <<"floor", 0>>, 7, 7)
      BY <1>21
    <2>5. PICK o, n, x, p : o = 7 /\ n = 7 /\ x = 121 + 7 * r + 10 * v /\ p = <<"floor", 0>>
      OBVIOUS
    <2>6. o \in Nat /\ n \in Nat /\ x = Len(s6) + o
      BY <2>2, <2>5
    <2>7. Stands(t7, p, o, n)
      BY <2>4, <2>5
    <2>8. Stands(s10, p, x, n)
      BY <2>1, <2>3, <2>6, <2>7, BlockPlaced
    <2> QED
      BY <2>5, <2>8
  <1>64. ASSUME B >= 8 PROVE Stands(s10, <<"unseen", 0>>, 128 + 7 * r + 10 * v, 1)
    <2>1. s8 = Followed(TRUE, s7, t8)
      BY <1>11, <1>64 DEF Followed
    <2>2. 128 + 7 * r + 10 * v = Len(s7) + 0 /\ {0, 1} \subseteq Nat
      BY <1>1, <1>52, <1>64
    <2>3. s7 \in Seq(RecordWords) /\ t8 \in Seq(RecordWords) /\ s10 \in Seq(RecordWords) /\ IsStart(s8, s10)
      BY <1>15, <1>22, <1>30, <1>33, <1>36
    <2>4. Stands(t8, <<"unseen", 0>>, 0, 1)
      BY <1>22
    <2>5. PICK o, n, x, p : o = 0 /\ n = 1 /\ x = 128 + 7 * r + 10 * v /\ p = <<"unseen", 0>>
      OBVIOUS
    <2>6. o \in Nat /\ n \in Nat /\ x = Len(s7) + o
      BY <2>2, <2>5
    <2>7. Stands(t8, p, o, n)
      BY <2>4, <2>5
    <2>8. Stands(s10, p, x, n)
      BY <2>1, <2>3, <2>6, <2>7, BlockPlaced
    <2> QED
      BY <2>5, <2>8
  <1>65. ASSUME B >= 9 PROVE Stands(s10, <<"resume", 0>>, 129 + 7 * r + 10 * v, 11)
    <2>1. s9 = Followed(TRUE, s8, t9)
      BY <1>12, <1>65 DEF Followed
    <2>2. 129 + 7 * r + 10 * v = Len(s8) + 0 /\ {0, 11} \subseteq Nat
      BY <1>1, <1>53, <1>65
    <2>3. s8 \in Seq(RecordWords) /\ t9 \in Seq(RecordWords) /\ s10 \in Seq(RecordWords) /\ IsStart(s9, s10)
      BY <1>15, <1>23, <1>31, <1>33, <1>35
    <2>4. Stands(t9, <<"resume", 0>>, 0, 11)
      BY <1>23
    <2>5. PICK o, n, x, p : o = 0 /\ n = 11 /\ x = 129 + 7 * r + 10 * v /\ p = <<"resume", 0>>
      OBVIOUS
    <2>6. o \in Nat /\ n \in Nat /\ x = Len(s8) + o
      BY <2>2, <2>5
    <2>7. Stands(t9, p, o, n)
      BY <2>4, <2>5
    <2>8. Stands(s10, p, x, n)
      BY <2>1, <2>3, <2>6, <2>7, BlockPlaced
    <2> QED
      BY <2>5, <2>8
  <1>66. ASSUME B >= 10 PROVE Stands(s10, <<"route", r + 1>>, 140 + 7 * r + 10 * v, 7)
    <2>1. s10 = Followed(TRUE, s9, t10)
      BY <1>13, <1>66 DEF Followed
    <2>2. 140 + 7 * r + 10 * v = Len(s9) + 0 /\ {0, 7} \subseteq Nat
      BY <1>1, <1>54, <1>66
    <2>3. s9 \in Seq(RecordWords) /\ t10 \in Seq(RecordWords) /\ s10 \in Seq(RecordWords) /\ IsStart(s10, s10)
      BY <1>15, <1>24, <1>32, <1>33, <1>34
    <2>4. Stands(t10, <<"route", r + 1>>, 0, 7)
      BY <1>24
    <2>5. PICK o, n, x, p : o = 0 /\ n = 7 /\ x = 140 + 7 * r + 10 * v /\ p = <<"route", r + 1>>
      OBVIOUS
    <2>6. o \in Nat /\ n \in Nat /\ x = Len(s9) + o
      BY <2>2, <2>5
    <2>7. Stands(t10, p, o, n)
      BY <2>4, <2>5
    <2>8. Stands(s10, p, x, n)
      BY <2>1, <2>3, <2>6, <2>7, BlockPlaced
    <2> QED
      BY <2>5, <2>8
  <1>67. ASSUME B >= 10 PROVE Stands(s10, <<"response", 0>>, 147 + 7 * r + 10 * v, 9)
    <2>1. s10 = Followed(TRUE, s9, t10)
      BY <1>13, <1>67 DEF Followed
    <2>2. 147 + 7 * r + 10 * v = Len(s9) + 7 /\ {7, 9} \subseteq Nat
      BY <1>1, <1>54, <1>67
    <2>3. s9 \in Seq(RecordWords) /\ t10 \in Seq(RecordWords) /\ s10 \in Seq(RecordWords) /\ IsStart(s10, s10)
      BY <1>15, <1>24, <1>32, <1>33, <1>34
    <2>4. Stands(t10, <<"response", 0>>, 7, 9)
      BY <1>24
    <2>5. PICK o, n, x, p : o = 7 /\ n = 9 /\ x = 147 + 7 * r + 10 * v /\ p = <<"response", 0>>
      OBVIOUS
    <2>6. o \in Nat /\ n \in Nat /\ x = Len(s9) + o
      BY <2>2, <2>5
    <2>7. Stands(t10, p, o, n)
      BY <2>4, <2>5
    <2>8. Stands(s10, p, x, n)
      BY <2>1, <2>3, <2>6, <2>7, BlockPlaced
    <2> QED
      BY <2>5, <2>8
  <1>68. Stands(s10, <<"header", 0>>, 0, 18)
    BY <1>1, <1>15, <1>33, <1>43, StartsKeep
  <1>69. StandSlots(s10, "route", 18, r, 7)
    <2> SUFFICES ASSUME NEW i \in 1 .. r PROVE Stands(s10, <<"route", i - 1>>, 18 + (i - 1) * 7, 7)
      BY DEF StandSlots
    <2>1. PICK o : o = 18 + (i - 1) * 7
      OBVIOUS
    <2>2. o \in Nat
      BY <2>1
    <2>3. Stands(s1, <<"route", i - 1>>, o, 7)
      BY <1>15, <2>1 DEF StandSlots
    <2> QED
      BY <1>1, <1>15, <1>33, <1>43, <2>1, <2>2, <2>3, StartsKeep
  <1>70. LaidOut(s10, B, r, v)
    BY <1>33, <1>44, <1>45, <1>55, <1>56, <1>57, <1>58, <1>59, <1>60, <1>61, <1>62, <1>63, <1>64, <1>65, <1>66, <1>67, <1>68, <1>69 DEF LaidOut
  <1> QED
    BY <1>14, <1>70

-----------------------------------------------------------------------------
(* What the decoder takes of it.                                           *)

\* A part with its own words.
Whole(part, n) == <<part, Words(part, n)>>
\* Every field has its own words.
AllWhole(G) == \A f \in G : f[2] = Words(f[1], Len(f[2]))
Named(G, P) == \A f \in G : f[1] \in P
Taken(G, part) == \E g \in G : g[1] = part

LEMMA FieldThere ==
    ASSUME NEW s \in Seq(RecordWords), NEW part \in PartNames, NEW o \in Nat, NEW n \in Nat, Stands(s, part, o, n)
    PROVE  Field(part, s, o, n) = {Whole(part, n)}
  <1>0. Len(s) \in Nat
    OBVIOUS
  <1>1. Len(s) \in Nat /\ o + n <= Len(s) /\ \A i \in 1 .. n : s[o + i] = <<part, i>>
    BY <1>0 DEF Stands
  <1>2. PICK w : w = SubSeq(s, o + 1, o + n)
    OBVIOUS
  <1>3. PICK e : e = Words(part, n)
    OBVIOUS
  <1>4. e \in Seq(RecordWords) /\ Len(e) = n /\ Stands(e, part, 0, n)
    BY <1>3, WordsStand
  <1>5. \A i \in 1 .. n : e[0 + i] = <<part, i>>
    BY <1>4 DEF Stands
  <1>6. w \in Seq(RecordWords) /\ Len(w) = n
    BY <1>1, <1>2
  <1>7. ASSUME NEW i \in 1 .. n PROVE w[i] = e[i]
    <2>1. w[i] = s[o + 1 + i - 1]
      BY <1>1, <1>2, <1>7
    <2>2. o + 1 + i - 1 = o + i /\ 0 + i = i
      OBVIOUS
    <2> QED
      BY <1>1, <1>5, <2>1, <2>2
  <1>8. w = e
    BY <1>4, <1>6, <1>7
  <1>9. Field(part, s, o, n) = {<<part, w>>}
    BY <1>1, <1>2 DEF Field
  <1> QED
    BY <1>3, <1>8, <1>9 DEF Whole

LEMMA FieldGone ==
    ASSUME NEW s \in Seq(RecordWords), NEW part, NEW o \in Nat, NEW n \in Nat, Len(s) < o + n
    PROVE  Field(part, s, o, n) = {}
  <1>1. Len(s) \in Nat
    OBVIOUS
  <1>2. ~ (o + n <= Len(s))
    BY <1>1
  <1> QED
    BY <1>2 DEF Field

LEMMA WholeIs ==
    ASSUME NEW part \in PartNames, NEW n \in Nat
    PROVE  AllWhole({Whole(part, n)}) /\ Named({Whole(part, n)}, {part}) /\ Taken({Whole(part, n)}, part)
  <1>1. PICK e : e = Words(part, n)
    OBVIOUS
  <1>2. Len(e) = n
    BY <1>1, WordsStand
  <1>3. Whole(part, n) = <<part, e>>
    BY <1>1 DEF Whole
  <1>4. \A f \in {Whole(part, n)} : f[1] = part /\ f[2] = e
    BY <1>3
  <1> QED
    BY <1>1, <1>2, <1>4 DEF AllWhole, Named, Taken

\* A field, whether the record has it or ends before.
LEMMA FieldTold ==
    ASSUME NEW s \in Seq(RecordWords), NEW part \in PartNames, NEW o \in Nat, NEW n \in Nat, NEW c \in BOOLEAN,
           c => Stands(s, part, o, n), ~c => Len(s) < o + n, NEW G, G = Field(part, s, o, n)
    PROVE  AllWhole(G) /\ Named(G, {part}) /\ (c => Taken(G, part))
  <1>1. CASE c
    <2>1. G = {Whole(part, n)}
      BY <1>1, FieldThere
    <2> QED
      BY <2>1, WholeIs
  <1>2. CASE ~c
    <2>1. G = {}
      BY <1>2, FieldGone
    <2> QED
      BY <1>2, <2>1 DEF AllWhole, Named
  <1> QED
    BY <1>1, <1>2

\* The slots of a part, whether the record has them or ends before.
LEMMA EachTold ==
    ASSUME NEW s \in Seq(RecordWords), NEW name \in PartKinds, NEW o \in Nat, NEW n \in Nat, NEW size \in Nat,
           NEW c \in BOOLEAN, c => StandSlots(s, name, o, n, size), ~c => Len(s) < o + size,
           NEW G, G = Each(name, s, o, n, size)
    PROVE  /\ AllWhole(G) /\ Named(G, {<<name, i - 1>> : i \in 1 .. n})
           /\ c => \A i \in 1 .. n : Taken(G, <<name, i - 1>>)
  <1>1. G = UNION {Field(<<name, i - 1>>, s, o + (i - 1) * size, size) : i \in 1 .. n}
    BY DEF Each
  <1>2. ASSUME NEW i \in 1 .. n, NEW H, H = Field(<<name, i - 1>>, s, o + (i - 1) * size, size)
        PROVE  AllWhole(H) /\ Named(H, {<<name, i - 1>>}) /\ (c => Taken(H, <<name, i - 1>>))
    <2>1. PICK x, p : x = (i - 1) * size /\ p = <<name, i - 1>>
      OBVIOUS
    <2>2. x \in Nat
      BY <2>1, Z3
    <2>3. p \in PartNames
      BY <2>1 DEF PartNames
    <2>4. PICK y : y = o + x
      OBVIOUS
    <2>5. y \in Nat
      BY <2>2, <2>4
    <2>6. c => Stands(s, p, y, size)
      BY <2>1, <2>4 DEF StandSlots
    <2>7. ~c => Len(s) < y + size
      <3>1. Len(s) \in Nat
        OBVIOUS
      <3> QED
        BY <2>2, <2>4, <3>1
    <2>8. H = Field(p, s, y, size)
      BY <1>2, <2>1, <2>4
    <2>9. AllWhole(H) /\ Named(H, {p}) /\ (c => Taken(H, p))
      BY <2>3, <2>5, <2>6, <2>7, <2>8, FieldTold
    <2> QED
      BY <2>1, <2>9
  <1>3. AllWhole(G)
    <2> SUFFICES ASSUME NEW f \in G PROVE f[2] = Words(f[1], Len(f[2]))
      BY DEF AllWhole
    <2>1. PICK i \in 1 .. n : f \in Field(<<name, i - 1>>, s, o + (i - 1) * size, size)
      BY <1>1
    <2>2. PICK H : H = Field(<<name, i - 1>>, s, o + (i - 1) * size, size)
      OBVIOUS
    <2>3. AllWhole(H)
      BY <1>2, <2>2
    <2> QED
      BY <2>1, <2>2, <2>3 DEF AllWhole
  <1>4. Named(G, {<<name, i - 1>> : i \in 1 .. n})
    <2> SUFFICES ASSUME NEW f \in G PROVE f[1] \in {<<name, i - 1>> : i \in 1 .. n}
      BY DEF Named
    <2>1. PICK i \in 1 .. n : f \in Field(<<name, i - 1>>, s, o + (i - 1) * size, size)
      BY <1>1
    <2>2. PICK H : H = Field(<<name, i - 1>>, s, o + (i - 1) * size, size)
      OBVIOUS
    <2>3. Named(H, {<<name, i - 1>>})
      BY <1>2, <2>2
    <2>4. f[1] = <<name, i - 1>>
      BY <2>1, <2>2, <2>3 DEF Named
    <2> QED
      BY <2>4
  <1>5. ASSUME c, NEW i \in 1 .. n PROVE Taken(G, <<name, i - 1>>)
    <2>1. PICK H : H = Field(<<name, i - 1>>, s, o + (i - 1) * size, size)
      OBVIOUS
    <2>2. Taken(H, <<name, i - 1>>)
      BY <1>2, <1>5, <2>1
    <2>3. H \subseteq G
      BY <1>1, <2>1
    <2> QED
      BY <2>2, <2>3 DEF Taken
  <1> QED
    BY <1>3, <1>4, <1>5

\* The decoder's fields by where it finds them, from the last block back.
Got4(s, r, v) ==
    IF Len(s) < 156 + 7 * r + 10 * v THEN {}
    ELSE Field(<<"route", r + 1>>, s, 140 + 7 * r + 10 * v, 7)
         \union Field(<<"response", 0>>, s, 147 + 7 * r + 10 * v, 9)
Got3(s, r, v) ==
    IF Len(s) < 128 + 7 * r + 10 * v THEN {}
    ELSE Field(<<"route", r>>, s, 114 + 7 * r + 10 * v, 7)
         \union Field(<<"floor", 0>>, s, 121 + 7 * r + 10 * v, 7)
         \union Field(<<"unseen", 0>>, s, 128 + 7 * r + 10 * v, 1)
         \union Field(<<"resume", 0>>, s, 129 + 7 * r + 10 * v, 11)
         \union Got4(s, r, v)
Got2(s, r, v, u) ==
    IF Len(s) < 114 + 7 * r THEN {}
    ELSE Field(<<"levels", 0>>, s, 106 + 7 * r, 8)
         \union Each("level", s, 114 + 7 * r, u, 10)
         \union Got3(s, r, v)
Got1(s, r, v, u) ==
    IF Len(s) < 41 + 7 * r THEN {}
    ELSE Field(<<"prio", 0>>, s, 31 + 7 * r, 10)
         \union Field(<<"threads", 0>>, s, 41 + 7 * r, 60)
         \union Field(<<"late", 0>>, s, 101 + 7 * r, 5)
         \union Got2(s, r, v, u)

LEMMA DecodeIs ==
    ASSUME NEW s \in Seq(RecordWords), NEW img, NEW r \in Nat, NEW v \in Nat, NEW u \in Nat,
           img.routes = r, img.levels = v, img.used = u
    PROVE  decode(img, s) = Field(<<"header", 0>>, s, 0, 18)
                            \union Each("route", s, 18, r, 7)
                            \union Each("direct", s, 18 + 7 * r, 2, 5)
                            \union Field(<<"tail", 0>>, s, 28 + 7 * r, 3)
                            \union Got1(s, r, v, u)
  <1> DEFINE off == HEADER + img.routes * ROUTE
             tl == off + DIRECT_SLOTS * DIRECT
             o == tl + TAIL
             o2 == o + PRIO + THREADS
             o3 == o2 + LATE
             o4 == o3 + LEVELS + img.levels * LEVEL
             o5 == o4 + ROUTE
             o6 == o5 + FLOOR
             o7 == o6 + UNSEEN
             o8 == o7 + RESUME
             Has(x) == x <= Len(s)
  <1>2. /\ off = 18 + 7 * r /\ tl = 28 + 7 * r /\ o = 31 + 7 * r /\ o2 = 101 + 7 * r /\ o3 = 106 + 7 * r
        /\ o4 = 114 + 7 * r + 10 * v /\ o5 = 121 + 7 * r + 10 * v /\ o6 = 128 + 7 * r + 10 * v
        /\ o7 = 129 + 7 * r + 10 * v /\ o8 = 140 + 7 * r + 10 * v
    BY Sizes
  <1>3. Len(s) \in Nat
    OBVIOUS
  <1> DEFINE H1 == Field(<<"header", 0>>, s, 0, HEADER)
             H2 == Each("route", s, HEADER, img.routes, ROUTE)
             H3 == Each("direct", s, off, DIRECT_SLOTS, DIRECT)
             H4 == Field(<<"tail", 0>>, s, tl, TAIL)
             H5 == Field(<<"prio", 0>>, s, o, PRIO)
             H6 == Field(<<"threads", 0>>, s, o + PRIO, THREADS)
             H7 == Field(<<"late", 0>>, s, o2, LATE)
             H8 == Field(<<"levels", 0>>, s, o3, LEVELS)
             H9 == Each("level", s, o3 + LEVELS, img.used, LEVEL)
             H10 == Field(<<"route", img.routes>>, s, o4, ROUTE)
             H11 == Field(<<"floor", 0>>, s, o5, FLOOR)
             H12 == Field(<<"unseen", 0>>, s, o6, UNSEEN)
             H13 == Field(<<"resume", 0>>, s, o7, RESUME)
             H14 == Field(<<"route", img.routes + 1>>, s, o8, ROUTE)
             H15 == Field(<<"response", 0>>, s, o8 + ROUTE, RESPONSE)
  <1>6. decode(img, s) =
          H1 \union H2 \union H3 \union H4
          \union (IF ~ Has(o + PRIO) THEN {}
                  ELSE H5 \union H6 \union H7
                       \union (IF ~ Has(o3 + LEVELS) THEN {}
                               ELSE H8 \union H9
                                    \union (IF ~ Has(o4 + ROUTE + FLOOR) THEN {}
                                            ELSE H10 \union H11 \union H12 \union H13
                                                 \union (IF ~ Has(o8 + ROUTE + RESPONSE) THEN {} ELSE H14 \union H15))))
    BY Zenon DEF decode, afterLevels
  <1> DEFINE G1 == Field(<<"header", 0>>, s, 0, 18)
             G2 == Each("route", s, 18, r, 7)
             G3 == Each("direct", s, 18 + 7 * r, 2, 5)
             G4 == Field(<<"tail", 0>>, s, 28 + 7 * r, 3)
             G5 == Field(<<"prio", 0>>, s, 31 + 7 * r, 10)
             G6 == Field(<<"threads", 0>>, s, 41 + 7 * r, 60)
             G7 == Field(<<"late", 0>>, s, 101 + 7 * r, 5)
             G8 == Field(<<"levels", 0>>, s, 106 + 7 * r, 8)
             G9 == Each("level", s, 114 + 7 * r, u, 10)
             G10 == Field(<<"route", r>>, s, 114 + 7 * r + 10 * v, 7)
             G11 == Field(<<"floor", 0>>, s, 121 + 7 * r + 10 * v, 7)
             G12 == Field(<<"unseen", 0>>, s, 128 + 7 * r + 10 * v, 1)
             G13 == Field(<<"resume", 0>>, s, 129 + 7 * r + 10 * v, 11)
             G14 == Field(<<"route", r + 1>>, s, 140 + 7 * r + 10 * v, 7)
             G15 == Field(<<"response", 0>>, s, 147 + 7 * r + 10 * v, 9)
  <1>7. H1 = G1
    BY <1>2, Sizes
  <1>8. H2 = G2
    BY <1>2, Sizes
  <1>9. H3 = G3
    BY <1>2, Sizes
  <1>10. H4 = G4
    BY <1>2, Sizes
  <1>11. H5 = G5
    BY <1>2, Sizes
  <1>12. H6 = G6
    BY <1>2, Sizes
  <1>13. H7 = G7
    BY <1>2, Sizes
  <1>14. H8 = G8
    BY <1>2, Sizes
  <1>15. H9 = G9
    BY <1>2, Sizes
  <1>16. H10 = G10
    BY <1>2, Sizes
  <1>17. H11 = G11
    BY <1>2, Sizes
  <1>18. H12 = G12
    BY <1>2, Sizes
  <1>19. H13 = G13
    BY <1>2, Sizes
  <1>20. H14 = G14
    BY <1>2, Sizes
  <1>21. H15 = G15
    BY <1>2, Sizes
  <1> DEFINE c1 == Has(o + PRIO)
             c2 == Has(o3 + LEVELS)
             c3 == Has(o4 + ROUTE + FLOOR)
             c4 == Has(o8 + ROUTE + RESPONSE)
  <1>22. c1 <=> ~ (Len(s) < 41 + 7 * r)
    <2>1. PICK x, y : x = o + PRIO /\ y = Len(s)
      OBVIOUS
    <2>2. x = 41 + 7 * r /\ x \in Nat
      BY <1>2, <2>1, Sizes
    <2>3. y \in Nat
      BY <1>3, <2>1
    <2>4. x <= y <=> ~ (y < x)
      BY <2>2, <2>3
    <2> QED
      BY <2>1, <2>2, <2>4
  <1>23. c2 <=> ~ (Len(s) < 114 + 7 * r)
    <2>1. PICK x, y : x = o3 + LEVELS /\ y = Len(s)
      OBVIOUS
    <2>2. x = 114 + 7 * r /\ x \in Nat
      BY <1>2, <2>1, Sizes
    <2>3. y \in Nat
      BY <1>3, <2>1
    <2>4. x <= y <=> ~ (y < x)
      BY <2>2, <2>3
    <2> QED
      BY <2>1, <2>2, <2>4
  <1>24. c3 <=> ~ (Len(s) < 128 + 7 * r + 10 * v)
    <2>1. PICK x, y : x = o4 + ROUTE + FLOOR /\ y = Len(s)
      OBVIOUS
    <2>2. x = 128 + 7 * r + 10 * v /\ x \in Nat
      BY <1>2, <2>1, Sizes
    <2>3. y \in Nat
      BY <1>3, <2>1
    <2>4. x <= y <=> ~ (y < x)
      BY <2>2, <2>3
    <2> QED
      BY <2>1, <2>2, <2>4
  <1>25. c4 <=> ~ (Len(s) < 156 + 7 * r + 10 * v)
    <2>1. PICK x, y : x = o8 + ROUTE + RESPONSE /\ y = Len(s)
      OBVIOUS
    <2>2. x = 156 + 7 * r + 10 * v /\ x \in Nat
      BY <1>2, <2>1, Sizes
    <2>3. y \in Nat
      BY <1>3, <2>1
    <2>4. x <= y <=> ~ (y < x)
      BY <2>2, <2>3
    <2> QED
      BY <2>1, <2>2, <2>4
  <1>26. decode(img, s) =
          H1 \union H2 \union H3 \union H4
          \union (IF ~ c1 THEN {}
                  ELSE H5 \union H6 \union H7
                       \union (IF ~ c2 THEN {}
                               ELSE H8 \union H9
                                    \union (IF ~ c3 THEN {}
                                            ELSE H10 \union H11 \union H12 \union H13
                                                 \union (IF ~ c4 THEN {} ELSE H14 \union H15))))
    BY <1>6, Zenon
  <1> DEFINE d1 == Len(s) < 41 + 7 * r
             d2 == Len(s) < 114 + 7 * r
             d3 == Len(s) < 128 + 7 * r + 10 * v
             d4 == Len(s) < 156 + 7 * r + 10 * v
  <1>27. (c1 <=> ~ d1) /\ (c2 <=> ~ d2) /\ (c3 <=> ~ d3) /\ (c4 <=> ~ d4)
    BY <1>22, <1>23, <1>24, <1>25
  <1>28. PICK X1, X2, X3, X4 : /\ X1 = Got1(s, r, v, u) /\ X2 = Got2(s, r, v, u)
                               /\ X3 = Got3(s, r, v) /\ X4 = Got4(s, r, v)
    OBVIOUS
  <1>29. X4 = IF d4 THEN {} ELSE G14 \union G15
    BY <1>28, Zenon DEF Got4
  <1>30. X3 = IF d3 THEN {} ELSE G10 \union G11 \union G12 \union G13 \union X4
    BY <1>28, Zenon DEF Got3
  <1>31. X2 = IF d2 THEN {} ELSE G8 \union G9 \union X3
    BY <1>28, Zenon DEF Got2
  <1>32. X1 = IF d1 THEN {} ELSE G5 \union G6 \union G7 \union X2
    BY <1>28, Zenon DEF Got1
  <1> HIDE DEF H1, H2, H3, H4, H5, H6, H7, H8, H9, H10, H11, H12, H13, H14, H15, c1, c2, c3, c4, G1, G2, G3, G4, G5, G6, G7, G8, G9, G10, G11, G12, G13, G14, G15,
              d1, d2, d3, d4
  <1>33. X4 = IF ~ c4 THEN {} ELSE H14 \union H15
    BY <1>20, <1>21, <1>27, <1>29
  <1>34. X3 = IF ~ c3 THEN {} ELSE H10 \union H11 \union H12 \union H13 \union X4
    BY <1>16, <1>17, <1>18, <1>19, <1>27, <1>30
  <1>35. X2 = IF ~ c2 THEN {} ELSE H8 \union H9 \union X3
    BY <1>14, <1>15, <1>27, <1>31
  <1>36. X1 = IF ~ c1 THEN {} ELSE H5 \union H6 \union H7 \union X2
    BY <1>11, <1>12, <1>13, <1>27, <1>32
  <1>37. decode(img, s) = H1 \union H2 \union H3 \union H4 \union X1
    BY <1>26, <1>33, <1>34, <1>35, <1>36, Zenon
  <1>38. decode(img, s) = G1 \union G2 \union G3 \union G4 \union Got1(s, r, v, u)
    BY <1>7, <1>8, <1>9, <1>10, <1>28, <1>37
  <1> QED
    BY <1>38, Zenon DEF G1, G2, G3, G4

\* What is taken of a record, by its blocks: the parts each of its blocks has.
TakenAll(G, B, r, u) ==
    /\ Taken(G, <<"header", 0>>) /\ \A i \in 1 .. r : Taken(G, <<"route", i - 1>>)
    /\ B >= 2 => \A i \in 1 .. 2 : Taken(G, <<"direct", i - 1>>)
    /\ B >= 3 => Taken(G, <<"tail", 0>>)
    /\ B >= 4 => Taken(G, <<"prio", 0>>) /\ Taken(G, <<"threads", 0>>)
    /\ B >= 5 => Taken(G, <<"late", 0>>)
    /\ B >= 6 => Taken(G, <<"levels", 0>>) /\ \A i \in 1 .. u : Taken(G, <<"level", i - 1>>)
    /\ B >= 7 => Taken(G, <<"route", r>>) /\ Taken(G, <<"floor", 0>>)
    /\ B >= 8 => Taken(G, <<"unseen", 0>>)
    /\ B >= 9 => Taken(G, <<"resume", 0>>)
    /\ B >= 10 => Taken(G, <<"route", r + 1>>) /\ Taken(G, <<"response", 0>>)

LEMMA TakenOf ==
    ASSUME NEW G, NEW H, G \subseteq H, NEW part, Taken(G, part)
    PROVE  Taken(H, part)
  BY DEF Taken

LEMMA WholeOf ==
    ASSUME NEW G, NEW H, NEW X, X \subseteq G \union H, AllWhole(G), AllWhole(H)
    PROVE  AllWhole(X)
  BY DEF AllWhole

LEMMA GotTold ==
    ASSUME NEW s, NEW B \in 1 .. Blocks, NEW r \in Nat, NEW v \in Nat, NEW u \in 0 .. v, LaidOut(s, B, r, v),
           NEW img, img.routes = r, img.levels = v, img.used = u
    PROVE  /\ AllWhole(decode(img, s)) /\ TakenAll(decode(img, s), B, r, u)
           /\ Taken(decode(img, s), <<"prio", 0>>) => B >= 4
  <1>1. s \in Seq(RecordWords) /\ Len(s) = RecordLen(B, r, v)
    BY DEF LaidOut
  <1>2. B \in 1 .. 10 /\ u \in Nat /\ r + 1 \in Nat
    BY DEF Blocks
  <1>3. PICK m : m = Len(s)
    OBVIOUS
  <1>4. m \in Nat
    BY <1>1, <1>3
  <1>5. B < 2 => m <= 18 + 7 * r
    BY <1>1, <1>2, <1>3 DEF RecordLen
  <1>6. B < 3 => m <= 28 + 7 * r
    BY <1>1, <1>2, <1>3 DEF RecordLen
  <1>7. B < 4 => m <= 31 + 7 * r
    BY <1>1, <1>2, <1>3 DEF RecordLen
  <1>8. B < 5 => m <= 101 + 7 * r
    BY <1>1, <1>2, <1>3 DEF RecordLen
  <1>9. B < 6 => m <= 106 + 7 * r
    BY <1>1, <1>2, <1>3 DEF RecordLen
  <1>10. B < 7 => m <= 114 + 7 * r + 10 * v
    BY <1>1, <1>2, <1>3 DEF RecordLen
  <1>11. B < 8 => m <= 128 + 7 * r + 10 * v
    BY <1>1, <1>2, <1>3 DEF RecordLen
  <1>12. B < 9 => m <= 129 + 7 * r + 10 * v
    BY <1>1, <1>2, <1>3 DEF RecordLen
  <1>13. B < 10 => m <= 140 + 7 * r + 10 * v
    BY <1>1, <1>2, <1>3 DEF RecordLen
  <1>14. B >= 4 => m >= 41 + 7 * r
    BY <1>1, <1>2, <1>3 DEF RecordLen
  <1>15. B >= 6 => m >= 114 + 7 * r
    BY <1>1, <1>2, <1>3 DEF RecordLen
  <1>16. B >= 7 => m >= 128 + 7 * r + 10 * v
    BY <1>1, <1>2, <1>3 DEF RecordLen
  <1>17. B >= 10 => m >= 156 + 7 * r + 10 * v
    BY <1>1, <1>2, <1>3 DEF RecordLen
  <1>18. PICK G1 : G1 = Field(<<"header", 0>>, s, 0, 18)
    OBVIOUS
  <1>19. /\ AllWhole(G1) /\ Named(G1, {<<"header", 0>>})
         /\ B >= 1 => Taken(G1, <<"header", 0>>)
    <2>1. PICK c \in BOOLEAN : c <=> B >= 1
      OBVIOUS
    <2>2. PICK p, o, n : p = <<"header", 0>> /\ o = 0 /\ n = 18
      OBVIOUS
    <2>3. p \in PartNames /\ o \in Nat /\ n \in Nat
      <3>1. <<"header", 0>> \in PartNames
        BY <1>2 DEF PartNames, PartKinds
      <3> QED
        BY <2>2, <3>1
    <2>4. c => Stands(s, p, o, n)
      BY <2>1, <2>2 DEF LaidOut
    <2>5. ~ c => Len(s) < o + n
      BY <1>2, <1>3, <1>4, <2>1, <2>2
    <2>6. G1 = Field(p, s, o, n)
      BY <1>18, <2>2
    <2>7. AllWhole(G1) /\ Named(G1, {p}) /\ (c => Taken(G1, p))
      BY <1>1, <2>3, <2>4, <2>5, <2>6, FieldTold
    <2> QED
      BY <2>1, <2>2, <2>7
  <1>20. PICK G2 : G2 = Each("route", s, 18, r, 7)
    OBVIOUS
  <1>21. /\ AllWhole(G2) /\ Named(G2, {<<"route", i - 1>> : i \in 1 .. r})
         /\ B >= 1 => \A i \in 1 .. r : Taken(G2, <<"route", i - 1>>)
    <2>1. PICK c \in BOOLEAN : c <=> B >= 1
      OBVIOUS
    <2>2. PICK p, o, n, z : p = "route" /\ o = 18 /\ n = r /\ z = 7
      OBVIOUS
    <2>3. p \in PartKinds /\ o \in Nat /\ n \in Nat /\ z \in Nat
      BY <1>2, <2>2 DEF PartKinds
    <2>4. c => StandSlots(s, p, o, n, z)
      BY <2>1, <2>2 DEF LaidOut
    <2>5. ~ c => Len(s) < o + z
      BY <1>2, <1>3, <1>4, <2>1, <2>2
    <2>6. G2 = Each(p, s, o, n, z)
      BY <1>20, <2>2
    <2>7. /\ AllWhole(G2) /\ Named(G2, {<<p, i - 1>> : i \in 1 .. n})
          /\ c => \A i \in 1 .. n : Taken(G2, <<p, i - 1>>)
      BY <1>1, <2>3, <2>4, <2>5, <2>6, EachTold
    <2> QED
      BY <2>1, <2>2, <2>7
  <1>22. PICK G3 : G3 = Each("direct", s, 18 + 7 * r, 2, 5)
    OBVIOUS
  <1>23. /\ AllWhole(G3) /\ Named(G3, {<<"direct", i - 1>> : i \in 1 .. 2})
         /\ B >= 2 => \A i \in 1 .. 2 : Taken(G3, <<"direct", i - 1>>)
    <2>1. PICK c \in BOOLEAN : c <=> B >= 2
      OBVIOUS
    <2>2. PICK p, o, n, z : p = "direct" /\ o = 18 + 7 * r /\ n = 2 /\ z = 5
      OBVIOUS
    <2>3. p \in PartKinds /\ o \in Nat /\ n \in Nat /\ z \in Nat
      BY <1>2, <2>2 DEF PartKinds
    <2>4. c => StandSlots(s, p, o, n, z)
      BY <2>1, <2>2 DEF LaidOut
    <2>5. ~ c => Len(s) < o + z
      BY <1>2, <1>3, <1>4, <2>1, <2>2, <1>5
    <2>6. G3 = Each(p, s, o, n, z)
      BY <1>22, <2>2
    <2>7. /\ AllWhole(G3) /\ Named(G3, {<<p, i - 1>> : i \in 1 .. n})
          /\ c => \A i \in 1 .. n : Taken(G3, <<p, i - 1>>)
      BY <1>1, <2>3, <2>4, <2>5, <2>6, EachTold
    <2> QED
      BY <2>1, <2>2, <2>7
  <1>24. PICK G4 : G4 = Field(<<"tail", 0>>, s, 28 + 7 * r, 3)
    OBVIOUS
  <1>25. /\ AllWhole(G4) /\ Named(G4, {<<"tail", 0>>})
         /\ B >= 3 => Taken(G4, <<"tail", 0>>)
    <2>1. PICK c \in BOOLEAN : c <=> B >= 3
      OBVIOUS
    <2>2. PICK p, o, n : p = <<"tail", 0>> /\ o = 28 + 7 * r /\ n = 3
      OBVIOUS
    <2>3. p \in PartNames /\ o \in Nat /\ n \in Nat
      <3>1. <<"tail", 0>> \in PartNames
        BY <1>2 DEF PartNames, PartKinds
      <3> QED
        BY <2>2, <3>1
    <2>4. c => Stands(s, p, o, n)
      BY <2>1, <2>2 DEF LaidOut
    <2>5. ~ c => Len(s) < o + n
      BY <1>2, <1>3, <1>4, <2>1, <2>2, <1>6
    <2>6. G4 = Field(p, s, o, n)
      BY <1>24, <2>2
    <2>7. AllWhole(G4) /\ Named(G4, {p}) /\ (c => Taken(G4, p))
      BY <1>1, <2>3, <2>4, <2>5, <2>6, FieldTold
    <2> QED
      BY <2>1, <2>2, <2>7
  <1>26. PICK G5 : G5 = Field(<<"prio", 0>>, s, 31 + 7 * r, 10)
    OBVIOUS
  <1>27. /\ AllWhole(G5) /\ Named(G5, {<<"prio", 0>>})
         /\ B >= 4 => Taken(G5, <<"prio", 0>>)
    <2>1. PICK c \in BOOLEAN : c <=> B >= 4
      OBVIOUS
    <2>2. PICK p, o, n : p = <<"prio", 0>> /\ o = 31 + 7 * r /\ n = 10
      OBVIOUS
    <2>3. p \in PartNames /\ o \in Nat /\ n \in Nat
      <3>1. <<"prio", 0>> \in PartNames
        BY <1>2 DEF PartNames, PartKinds
      <3> QED
        BY <2>2, <3>1
    <2>4. c => Stands(s, p, o, n)
      BY <2>1, <2>2 DEF LaidOut
    <2>5. ~ c => Len(s) < o + n
      BY <1>2, <1>3, <1>4, <2>1, <2>2, <1>7
    <2>6. G5 = Field(p, s, o, n)
      BY <1>26, <2>2
    <2>7. AllWhole(G5) /\ Named(G5, {p}) /\ (c => Taken(G5, p))
      BY <1>1, <2>3, <2>4, <2>5, <2>6, FieldTold
    <2> QED
      BY <2>1, <2>2, <2>7
  <1>28. PICK G6 : G6 = Field(<<"threads", 0>>, s, 41 + 7 * r, 60)
    OBVIOUS
  <1>29. /\ AllWhole(G6) /\ Named(G6, {<<"threads", 0>>})
         /\ B >= 4 => Taken(G6, <<"threads", 0>>)
    <2>1. PICK c \in BOOLEAN : c <=> B >= 4
      OBVIOUS
    <2>2. PICK p, o, n : p = <<"threads", 0>> /\ o = 41 + 7 * r /\ n = 60
      OBVIOUS
    <2>3. p \in PartNames /\ o \in Nat /\ n \in Nat
      <3>1. <<"threads", 0>> \in PartNames
        BY <1>2 DEF PartNames, PartKinds
      <3> QED
        BY <2>2, <3>1
    <2>4. c => Stands(s, p, o, n)
      BY <2>1, <2>2 DEF LaidOut
    <2>5. ~ c => Len(s) < o + n
      BY <1>2, <1>3, <1>4, <2>1, <2>2, <1>7
    <2>6. G6 = Field(p, s, o, n)
      BY <1>28, <2>2
    <2>7. AllWhole(G6) /\ Named(G6, {p}) /\ (c => Taken(G6, p))
      BY <1>1, <2>3, <2>4, <2>5, <2>6, FieldTold
    <2> QED
      BY <2>1, <2>2, <2>7
  <1>30. PICK G7 : G7 = Field(<<"late", 0>>, s, 101 + 7 * r, 5)
    OBVIOUS
  <1>31. /\ AllWhole(G7) /\ Named(G7, {<<"late", 0>>})
         /\ B >= 5 => Taken(G7, <<"late", 0>>)
    <2>1. PICK c \in BOOLEAN : c <=> B >= 5
      OBVIOUS
    <2>2. PICK p, o, n : p = <<"late", 0>> /\ o = 101 + 7 * r /\ n = 5
      OBVIOUS
    <2>3. p \in PartNames /\ o \in Nat /\ n \in Nat
      <3>1. <<"late", 0>> \in PartNames
        BY <1>2 DEF PartNames, PartKinds
      <3> QED
        BY <2>2, <3>1
    <2>4. c => Stands(s, p, o, n)
      BY <2>1, <2>2 DEF LaidOut
    <2>5. ~ c => Len(s) < o + n
      BY <1>2, <1>3, <1>4, <2>1, <2>2, <1>8
    <2>6. G7 = Field(p, s, o, n)
      BY <1>30, <2>2
    <2>7. AllWhole(G7) /\ Named(G7, {p}) /\ (c => Taken(G7, p))
      BY <1>1, <2>3, <2>4, <2>5, <2>6, FieldTold
    <2> QED
      BY <2>1, <2>2, <2>7
  <1>32. PICK G8 : G8 = Field(<<"levels", 0>>, s, 106 + 7 * r, 8)
    OBVIOUS
  <1>33. /\ AllWhole(G8) /\ Named(G8, {<<"levels", 0>>})
         /\ B >= 6 => Taken(G8, <<"levels", 0>>)
    <2>1. PICK c \in BOOLEAN : c <=> B >= 6
      OBVIOUS
    <2>2. PICK p, o, n : p = <<"levels", 0>> /\ o = 106 + 7 * r /\ n = 8
      OBVIOUS
    <2>3. p \in PartNames /\ o \in Nat /\ n \in Nat
      <3>1. <<"levels", 0>> \in PartNames
        BY <1>2 DEF PartNames, PartKinds
      <3> QED
        BY <2>2, <3>1
    <2>4. c => Stands(s, p, o, n)
      BY <2>1, <2>2 DEF LaidOut
    <2>5. ~ c => Len(s) < o + n
      BY <1>2, <1>3, <1>4, <2>1, <2>2, <1>9
    <2>6. G8 = Field(p, s, o, n)
      BY <1>32, <2>2
    <2>7. AllWhole(G8) /\ Named(G8, {p}) /\ (c => Taken(G8, p))
      BY <1>1, <2>3, <2>4, <2>5, <2>6, FieldTold
    <2> QED
      BY <2>1, <2>2, <2>7
  <1>34. PICK G9 : G9 = Each("level", s, 114 + 7 * r, u, 10)
    OBVIOUS
  <1>35. /\ AllWhole(G9) /\ Named(G9, {<<"level", i - 1>> : i \in 1 .. u})
         /\ B >= 6 => \A i \in 1 .. u : Taken(G9, <<"level", i - 1>>)
    <2>1. PICK c \in BOOLEAN : c <=> B >= 6
      OBVIOUS
    <2>2. PICK p, o, n, z : p = "level" /\ o = 114 + 7 * r /\ n = u /\ z = 10
      OBVIOUS
    <2>3. p \in PartKinds /\ o \in Nat /\ n \in Nat /\ z \in Nat
      BY <1>2, <2>2 DEF PartKinds
    <2>4. c => StandSlots(s, p, o, n, z)
      <3>1. c => StandSlots(s, "level", 114 + 7 * r, v, 10)
        BY <2>1 DEF LaidOut
      <3>2. \A i \in 1 .. u : i \in 1 .. v
        OBVIOUS
      <3> QED
        BY <2>2, <3>1, <3>2 DEF StandSlots
    <2>5. ~ c => Len(s) < o + z
      BY <1>2, <1>3, <1>4, <2>1, <2>2, <1>9
    <2>6. G9 = Each(p, s, o, n, z)
      BY <1>34, <2>2
    <2>7. /\ AllWhole(G9) /\ Named(G9, {<<p, i - 1>> : i \in 1 .. n})
          /\ c => \A i \in 1 .. n : Taken(G9, <<p, i - 1>>)
      BY <1>1, <2>3, <2>4, <2>5, <2>6, EachTold
    <2> QED
      BY <2>1, <2>2, <2>7
  <1>36. PICK G10 : G10 = Field(<<"route", r>>, s, 114 + 7 * r + 10 * v, 7)
    OBVIOUS
  <1>37. /\ AllWhole(G10) /\ Named(G10, {<<"route", r>>})
         /\ B >= 7 => Taken(G10, <<"route", r>>)
    <2>1. PICK c \in BOOLEAN : c <=> B >= 7
      OBVIOUS
    <2>2. PICK p, o, n : p = <<"route", r>> /\ o = 114 + 7 * r + 10 * v /\ n = 7
      OBVIOUS
    <2>3. p \in PartNames /\ o \in Nat /\ n \in Nat
      <3>1. <<"route", r>> \in PartNames
        BY <1>2 DEF PartNames, PartKinds
      <3> QED
        BY <2>2, <3>1
    <2>4. c => Stands(s, p, o, n)
      BY <2>1, <2>2 DEF LaidOut
    <2>5. ~ c => Len(s) < o + n
      BY <1>2, <1>3, <1>4, <2>1, <2>2, <1>10
    <2>6. G10 = Field(p, s, o, n)
      BY <1>36, <2>2
    <2>7. AllWhole(G10) /\ Named(G10, {p}) /\ (c => Taken(G10, p))
      BY <1>1, <2>3, <2>4, <2>5, <2>6, FieldTold
    <2> QED
      BY <2>1, <2>2, <2>7
  <1>38. PICK G11 : G11 = Field(<<"floor", 0>>, s, 121 + 7 * r + 10 * v, 7)
    OBVIOUS
  <1>39. /\ AllWhole(G11) /\ Named(G11, {<<"floor", 0>>})
         /\ B >= 7 => Taken(G11, <<"floor", 0>>)
    <2>1. PICK c \in BOOLEAN : c <=> B >= 7
      OBVIOUS
    <2>2. PICK p, o, n : p = <<"floor", 0>> /\ o = 121 + 7 * r + 10 * v /\ n = 7
      OBVIOUS
    <2>3. p \in PartNames /\ o \in Nat /\ n \in Nat
      <3>1. <<"floor", 0>> \in PartNames
        BY <1>2 DEF PartNames, PartKinds
      <3> QED
        BY <2>2, <3>1
    <2>4. c => Stands(s, p, o, n)
      BY <2>1, <2>2 DEF LaidOut
    <2>5. ~ c => Len(s) < o + n
      BY <1>2, <1>3, <1>4, <2>1, <2>2, <1>10
    <2>6. G11 = Field(p, s, o, n)
      BY <1>38, <2>2
    <2>7. AllWhole(G11) /\ Named(G11, {p}) /\ (c => Taken(G11, p))
      BY <1>1, <2>3, <2>4, <2>5, <2>6, FieldTold
    <2> QED
      BY <2>1, <2>2, <2>7
  <1>40. PICK G12 : G12 = Field(<<"unseen", 0>>, s, 128 + 7 * r + 10 * v, 1)
    OBVIOUS
  <1>41. /\ AllWhole(G12) /\ Named(G12, {<<"unseen", 0>>})
         /\ B >= 8 => Taken(G12, <<"unseen", 0>>)
    <2>1. PICK c \in BOOLEAN : c <=> B >= 8
      OBVIOUS
    <2>2. PICK p, o, n : p = <<"unseen", 0>> /\ o = 128 + 7 * r + 10 * v /\ n = 1
      OBVIOUS
    <2>3. p \in PartNames /\ o \in Nat /\ n \in Nat
      <3>1. <<"unseen", 0>> \in PartNames
        BY <1>2 DEF PartNames, PartKinds
      <3> QED
        BY <2>2, <3>1
    <2>4. c => Stands(s, p, o, n)
      BY <2>1, <2>2 DEF LaidOut
    <2>5. ~ c => Len(s) < o + n
      BY <1>2, <1>3, <1>4, <2>1, <2>2, <1>11
    <2>6. G12 = Field(p, s, o, n)
      BY <1>40, <2>2
    <2>7. AllWhole(G12) /\ Named(G12, {p}) /\ (c => Taken(G12, p))
      BY <1>1, <2>3, <2>4, <2>5, <2>6, FieldTold
    <2> QED
      BY <2>1, <2>2, <2>7
  <1>42. PICK G13 : G13 = Field(<<"resume", 0>>, s, 129 + 7 * r + 10 * v, 11)
    OBVIOUS
  <1>43. /\ AllWhole(G13) /\ Named(G13, {<<"resume", 0>>})
         /\ B >= 9 => Taken(G13, <<"resume", 0>>)
    <2>1. PICK c \in BOOLEAN : c <=> B >= 9
      OBVIOUS
    <2>2. PICK p, o, n : p = <<"resume", 0>> /\ o = 129 + 7 * r + 10 * v /\ n = 11
      OBVIOUS
    <2>3. p \in PartNames /\ o \in Nat /\ n \in Nat
      <3>1. <<"resume", 0>> \in PartNames
        BY <1>2 DEF PartNames, PartKinds
      <3> QED
        BY <2>2, <3>1
    <2>4. c => Stands(s, p, o, n)
      BY <2>1, <2>2 DEF LaidOut
    <2>5. ~ c => Len(s) < o + n
      BY <1>2, <1>3, <1>4, <2>1, <2>2, <1>12
    <2>6. G13 = Field(p, s, o, n)
      BY <1>42, <2>2
    <2>7. AllWhole(G13) /\ Named(G13, {p}) /\ (c => Taken(G13, p))
      BY <1>1, <2>3, <2>4, <2>5, <2>6, FieldTold
    <2> QED
      BY <2>1, <2>2, <2>7
  <1>44. PICK G14 : G14 = Field(<<"route", r + 1>>, s, 140 + 7 * r + 10 * v, 7)
    OBVIOUS
  <1>45. /\ AllWhole(G14) /\ Named(G14, {<<"route", r + 1>>})
         /\ B >= 10 => Taken(G14, <<"route", r + 1>>)
    <2>1. PICK c \in BOOLEAN : c <=> B >= 10
      OBVIOUS
    <2>2. PICK p, o, n : p = <<"route", r + 1>> /\ o = 140 + 7 * r + 10 * v /\ n = 7
      OBVIOUS
    <2>3. p \in PartNames /\ o \in Nat /\ n \in Nat
      <3>1. <<"route", r + 1>> \in PartNames
        BY <1>2 DEF PartNames, PartKinds
      <3> QED
        BY <2>2, <3>1
    <2>4. c => Stands(s, p, o, n)
      BY <2>1, <2>2 DEF LaidOut
    <2>5. ~ c => Len(s) < o + n
      BY <1>2, <1>3, <1>4, <2>1, <2>2, <1>13
    <2>6. G14 = Field(p, s, o, n)
      BY <1>44, <2>2
    <2>7. AllWhole(G14) /\ Named(G14, {p}) /\ (c => Taken(G14, p))
      BY <1>1, <2>3, <2>4, <2>5, <2>6, FieldTold
    <2> QED
      BY <2>1, <2>2, <2>7
  <1>46. PICK G15 : G15 = Field(<<"response", 0>>, s, 147 + 7 * r + 10 * v, 9)
    OBVIOUS
  <1>47. /\ AllWhole(G15) /\ Named(G15, {<<"response", 0>>})
         /\ B >= 10 => Taken(G15, <<"response", 0>>)
    <2>1. PICK c \in BOOLEAN : c <=> B >= 10
      OBVIOUS
    <2>2. PICK p, o, n : p = <<"response", 0>> /\ o = 147 + 7 * r + 10 * v /\ n = 9
      OBVIOUS
    <2>3. p \in PartNames /\ o \in Nat /\ n \in Nat
      <3>1. <<"response", 0>> \in PartNames
        BY <1>2 DEF PartNames, PartKinds
      <3> QED
        BY <2>2, <3>1
    <2>4. c => Stands(s, p, o, n)
      BY <2>1, <2>2 DEF LaidOut
    <2>5. ~ c => Len(s) < o + n
      BY <1>2, <1>3, <1>4, <2>1, <2>2, <1>13
    <2>6. G15 = Field(p, s, o, n)
      BY <1>46, <2>2
    <2>7. AllWhole(G15) /\ Named(G15, {p}) /\ (c => Taken(G15, p))
      BY <1>1, <2>3, <2>4, <2>5, <2>6, FieldTold
    <2> QED
      BY <2>1, <2>2, <2>7
  <1>48. PICK X1, X2, X3, X4, X : /\ X1 = Got1(s, r, v, u) /\ X2 = Got2(s, r, v, u)
           /\ X3 = Got3(s, r, v) /\ X4 = Got4(s, r, v) /\ X = decode(img, s)
    OBVIOUS
  <1>49. X4 = IF m < 156 + 7 * r + 10 * v THEN {} ELSE G14 \union G15
    BY <1>3, <1>48, <1>44, <1>46, Zenon DEF Got4
  <1>50. /\ X4 \subseteq G14 \union G15
         /\ B >= 10 => X4 = G14 \union G15
    BY <1>2, <1>4, <1>49, <1>17
  <1>51. X3 = IF m < 128 + 7 * r + 10 * v THEN {} ELSE G10 \union G11 \union G12 \union G13 \union X4
    BY <1>3, <1>48, <1>36, <1>38, <1>40, <1>42, Zenon DEF Got3
  <1>52. /\ X3 \subseteq G10 \union G11 \union G12 \union G13 \union X4
         /\ B >= 7 => X3 = G10 \union G11 \union G12 \union G13 \union X4
    BY <1>2, <1>4, <1>51, <1>16
  <1>53. X2 = IF m < 114 + 7 * r THEN {} ELSE G8 \union G9 \union X3
    BY <1>3, <1>48, <1>32, <1>34, Zenon DEF Got2
  <1>54. /\ X2 \subseteq G8 \union G9 \union X3
         /\ B >= 6 => X2 = G8 \union G9 \union X3
    BY <1>2, <1>4, <1>53, <1>15
  <1>55. X1 = IF m < 41 + 7 * r THEN {} ELSE G5 \union G6 \union G7 \union X2
    BY <1>3, <1>48, <1>26, <1>28, <1>30, Zenon DEF Got1
  <1>56. /\ X1 \subseteq G5 \union G6 \union G7 \union X2
         /\ B >= 4 => X1 = G5 \union G6 \union G7 \union X2
    BY <1>2, <1>4, <1>55, <1>14
  <1>57. B < 4 => X1 = {}
    BY <1>2, <1>4, <1>55, <1>7
  <1>58. X = G1 \union G2 \union G3 \union G4 \union X1
    <2>1. decode(img, s) = Field(<<"header", 0>>, s, 0, 18) \union Each("route", s, 18, r, 7)
             \union Each("direct", s, 18 + 7 * r, 2, 5) \union Field(<<"tail", 0>>, s, 28 + 7 * r, 3) \union Got1(s, r, v, u)
      BY <1>1, <1>2, DecodeIs
    <2> QED
      BY <1>48, <2>1, <1>18, <1>20, <1>22, <1>24
  <1>59. AllWhole(X4)
    BY <1>50, <1>45, <1>47, WholeOf
  <1>60. AllWhole(X3)
    BY <1>52, <1>59, <1>37, <1>39, <1>41, <1>43 DEF AllWhole
  <1>61. AllWhole(X2)
    BY <1>54, <1>60, <1>33, <1>35 DEF AllWhole
  <1>62. AllWhole(X1)
    BY <1>56, <1>61, <1>27, <1>29, <1>31 DEF AllWhole
  <1>63. AllWhole(X)
    BY <1>58, <1>62, <1>19, <1>21, <1>23, <1>25 DEF AllWhole
  <1>64. X1 \subseteq X
    BY <1>58
  <1>65. ASSUME B >= 4 PROVE G5 \subseteq X /\ G6 \subseteq X /\ G7 \subseteq X /\ X2 \subseteq X
    BY <1>65, <1>56, <1>64
  <1>66. ASSUME B >= 6 PROVE G8 \subseteq X /\ G9 \subseteq X /\ X3 \subseteq X
    <2>1. B >= 4
      BY <1>2, <1>66
    <2>2. X2 \subseteq X
      BY <1>65, <2>1
    <2> QED
      BY <1>66, <1>54, <2>2
  <1>67. ASSUME B >= 7 PROVE G10 \subseteq X /\ G11 \subseteq X /\ G12 \subseteq X /\ G13 \subseteq X /\ X4 \subseteq X
    <2>1. B >= 6
      BY <1>2, <1>67
    <2>2. X3 \subseteq X
      BY <1>66, <2>1
    <2> QED
      BY <1>67, <1>52, <2>2
  <1>68. ASSUME B >= 10 PROVE G14 \subseteq X /\ G15 \subseteq X
    <2>1. B >= 7
      BY <1>2, <1>68
    <2>2. X4 \subseteq X
      BY <1>67, <2>1
    <2> QED
      BY <1>68, <1>50, <2>2
  <1>69. ASSUME B >= 1 PROVE Taken(X, <<"header", 0>>)
    <2>1. G1 \subseteq X
      BY <1>2, <1>69, <1>58
    <2>2. Taken(G1, <<"header", 0>>)
      BY <1>69, <1>19
    <2> QED
      BY <2>1, <2>2, TakenOf
  <1>70. ASSUME B >= 1 PROVE \A i \in 1 .. r : Taken(X, <<"route", i - 1>>)
    <2>1. G2 \subseteq X
      BY <1>2, <1>70, <1>58
    <2> SUFFICES ASSUME NEW i \in 1 .. r PROVE Taken(X, <<"route", i - 1>>)
      OBVIOUS
    <2>2. Taken(G2, <<"route", i - 1>>)
      BY <1>70, <1>21
    <2> QED
      BY <2>1, <2>2, TakenOf
  <1>71. ASSUME B >= 2 PROVE \A i \in 1 .. 2 : Taken(X, <<"direct", i - 1>>)
    <2>1. G3 \subseteq X
      BY <1>2, <1>71, <1>58
    <2> SUFFICES ASSUME NEW i \in 1 .. 2 PROVE Taken(X, <<"direct", i - 1>>)
      OBVIOUS
    <2>2. Taken(G3, <<"direct", i - 1>>)
      BY <1>71, <1>23
    <2> QED
      BY <2>1, <2>2, TakenOf
  <1>72. ASSUME B >= 3 PROVE Taken(X, <<"tail", 0>>)
    <2>1. G4 \subseteq X
      BY <1>2, <1>72, <1>58
    <2>2. Taken(G4, <<"tail", 0>>)
      BY <1>72, <1>25
    <2> QED
      BY <2>1, <2>2, TakenOf
  <1>73. ASSUME B >= 4 PROVE Taken(X, <<"prio", 0>>)
    <2>1. G5 \subseteq X
      BY <1>2, <1>73, <1>65
    <2>2. Taken(G5, <<"prio", 0>>)
      BY <1>73, <1>27
    <2> QED
      BY <2>1, <2>2, TakenOf
  <1>74. ASSUME B >= 4 PROVE Taken(X, <<"threads", 0>>)
    <2>1. G6 \subseteq X
      BY <1>2, <1>74, <1>65
    <2>2. Taken(G6, <<"threads", 0>>)
      BY <1>74, <1>29
    <2> QED
      BY <2>1, <2>2, TakenOf
  <1>75. ASSUME B >= 5 PROVE Taken(X, <<"late", 0>>)
    <2>1. G7 \subseteq X
      BY <1>2, <1>75, <1>65
    <2>2. Taken(G7, <<"late", 0>>)
      BY <1>75, <1>31
    <2> QED
      BY <2>1, <2>2, TakenOf
  <1>76. ASSUME B >= 6 PROVE Taken(X, <<"levels", 0>>)
    <2>1. G8 \subseteq X
      BY <1>2, <1>76, <1>66
    <2>2. Taken(G8, <<"levels", 0>>)
      BY <1>76, <1>33
    <2> QED
      BY <2>1, <2>2, TakenOf
  <1>77. ASSUME B >= 6 PROVE \A i \in 1 .. u : Taken(X, <<"level", i - 1>>)
    <2>1. G9 \subseteq X
      BY <1>2, <1>77, <1>66
    <2> SUFFICES ASSUME NEW i \in 1 .. u PROVE Taken(X, <<"level", i - 1>>)
      OBVIOUS
    <2>2. Taken(G9, <<"level", i - 1>>)
      BY <1>77, <1>35
    <2> QED
      BY <2>1, <2>2, TakenOf
  <1>78. ASSUME B >= 7 PROVE Taken(X, <<"route", r>>)
    <2>1. G10 \subseteq X
      BY <1>2, <1>78, <1>67
    <2>2. Taken(G10, <<"route", r>>)
      BY <1>78, <1>37
    <2> QED
      BY <2>1, <2>2, TakenOf
  <1>79. ASSUME B >= 7 PROVE Taken(X, <<"floor", 0>>)
    <2>1. G11 \subseteq X
      BY <1>2, <1>79, <1>67
    <2>2. Taken(G11, <<"floor", 0>>)
      BY <1>79, <1>39
    <2> QED
      BY <2>1, <2>2, TakenOf
  <1>80. ASSUME B >= 8 PROVE Taken(X, <<"unseen", 0>>)
    <2>1. G12 \subseteq X
      BY <1>2, <1>80, <1>67
    <2>2. Taken(G12, <<"unseen", 0>>)
      BY <1>80, <1>41
    <2> QED
      BY <2>1, <2>2, TakenOf
  <1>81. ASSUME B >= 9 PROVE Taken(X, <<"resume", 0>>)
    <2>1. G13 \subseteq X
      BY <1>2, <1>81, <1>67
    <2>2. Taken(G13, <<"resume", 0>>)
      BY <1>81, <1>43
    <2> QED
      BY <2>1, <2>2, TakenOf
  <1>82. ASSUME B >= 10 PROVE Taken(X, <<"route", r + 1>>)
    <2>1. G14 \subseteq X
      BY <1>2, <1>82, <1>68
    <2>2. Taken(G14, <<"route", r + 1>>)
      BY <1>82, <1>45
    <2> QED
      BY <2>1, <2>2, TakenOf
  <1>83. ASSUME B >= 10 PROVE Taken(X, <<"response", 0>>)
    <2>1. G15 \subseteq X
      BY <1>2, <1>83, <1>68
    <2>2. Taken(G15, <<"response", 0>>)
      BY <1>83, <1>47
    <2> QED
      BY <2>1, <2>2, TakenOf
  <1>84. TakenAll(X, B, r, u)
    <2>1. B >= 1
      BY <1>2
    <2> QED
      BY <2>1, <1>69, <1>70, <1>71, <1>72, <1>73, <1>74, <1>75, <1>76, <1>77, <1>78, <1>79, <1>80, <1>81, <1>82, <1>83 DEF TakenAll
  <1>85. ASSUME Taken(X, <<"prio", 0>>), B < 4 PROVE FALSE
    <2>1. X = G1 \union G2 \union G3 \union G4
      BY <1>58, <1>57, <1>85
    <2>2. PICK f \in X : f[1] = <<"prio", 0>>
      BY <1>85 DEF Taken
    <2>3. PICK a : a = f[1]
      OBVIOUS
    <2>4. a \in {<<"header", 0>>} \/ a \in {<<"route", i - 1>> : i \in 1 .. r}
          \/ a \in {<<"direct", i - 1>> : i \in 1 .. 2} \/ a \in {<<"tail", 0>>}
      BY <2>1, <2>3, <1>19, <1>21, <1>23, <1>25 DEF Named
    <2>5. a[1] \in {"header", "route", "direct", "tail"}
      BY <2>4
    <2>6. a[1] = "prio"
      BY <2>2, <2>3
    <2> QED
      BY <2>5, <2>6
  <1> QED
    BY <1>2, <1>48, <1>63, <1>84, <1>85

\* What the report reads is what it has, the threads with their priorities.
LEMMA ReportReads ==
    ASSUME NEW has, <<"header", 0>> \in has, <<"prio", 0>> \in has => <<"threads", 0>> \in has, NEW shows
    PROVE  reportReads(has, shows) \subseteq has
  BY DEF reportReads

\* Each part of the record is taken, but the slots of the levels not in use.
LEMMA WrittenTaken ==
    ASSUME NEW G, NEW B \in Nat, NEW r \in Nat, NEW v \in Nat, NEW u \in 0 .. v, TakenAll(G, B, r, u),
           NEW part \in Written(B, r, v), part \notin {<<"level", i>> : i \in u .. v - 1}
    PROVE  Taken(G, part)
  <1>1. CASE part = <<"header", 0>> \/ part \in {<<"route", i - 1>> : i \in 1 .. r}
    BY <1>1 DEF TakenAll
  <1>2. CASE B >= 2 /\ part \in {<<"direct", i - 1>> : i \in 1 .. 2}
    BY <1>2 DEF TakenAll
  <1>3. CASE \/ B >= 3 /\ part = <<"tail", 0>>
             \/ B >= 4 /\ part \in {<<"prio", 0>>, <<"threads", 0>>}
             \/ B >= 5 /\ part = <<"late", 0>>
             \/ B >= 6 /\ part = <<"levels", 0>>
    BY <1>3 DEF TakenAll
  <1>4. CASE \/ B >= 7 /\ part \in {<<"route", r>>, <<"floor", 0>>}
             \/ B >= 8 /\ part = <<"unseen", 0>>
             \/ B >= 9 /\ part = <<"resume", 0>>
             \/ B >= 10 /\ part \in {<<"route", r + 1>>, <<"response", 0>>}
    BY <1>4 DEF TakenAll
  <1>5. CASE B >= 6 /\ part \in {<<"level", i - 1>> : i \in 1 .. v}
    <2>1. PICK i \in 1 .. v : part = <<"level", i - 1>>
      BY <1>5
    <2>2. i - 1 \notin u .. v - 1
      BY <2>1
    <2>3. i \in 1 .. u
      BY <2>2
    <2>4. \A j \in 1 .. u : Taken(G, <<"level", j - 1>>)
      BY <1>5 DEF TakenAll
    <2> QED
      BY <2>1, <2>3, <2>4
  <1> QED
    BY <1>1, <1>2, <1>3, <1>4, <1>5 DEF Written

LEMMA LayoutHolds ==
    ASSUME NEW img \in Images, ~OfI1(img)
    PROVE  Decoded(img)
  <1>1. PICK B, r, v, u : B = img.blocks /\ r = img.routes /\ v = img.levels /\ u = img.used
    OBVIOUS
  <1>2. B \in 1 .. Blocks /\ r \in Nat /\ v \in Nat /\ u \in Nat /\ u <= v
    BY <1>1, ImageAssumption
  <1>3. u \in 0 .. v /\ B \in Nat
    BY <1>2 DEF Blocks
  <1>4. PICK s : s = record(img)
    OBVIOUS
  <1>5. LaidOut(s, B, r, v)
    BY <1>1, <1>2, <1>4, RecordIs
  <1>6. PICK G : G = decode(img, s)
    OBVIOUS
  <1>7. AllWhole(G) /\ TakenAll(G, B, r, u) /\ (Taken(G, <<"prio", 0>>) => B >= 4)
    BY <1>1, <1>2, <1>3, <1>5, <1>6, GotTold
  <1>8. \A f \in G : f[2] = Words(f[1], Len(f[2]))
    BY <1>7 DEF AllWhole
  <1>9. ASSUME NEW i \in DOMAIN s, s[i][1] \notin {<<"level", j>> : j \in u .. v - 1}
        PROVE  \E g \in G : g[1] = s[i][1]
    <2>1. PICK part : part = s[i][1]
      OBVIOUS
    <2>2. part \in Written(B, r, v)
      BY <1>5, <2>1 DEF LaidOut, AllOf
    <2>3. part \notin {<<"level", j>> : j \in u .. v - 1}
      BY <1>9, <2>1
    <2>4. Taken(G, part)
      BY <1>2, <1>3, <1>7, <2>2, <2>3, WrittenTaken
    <2> QED
      BY <2>1, <2>4 DEF Taken
  <1>10. PICK H : H = {f[1] : f \in G}
    OBVIOUS
  <1>11. \A part : part \in H <=> Taken(G, part)
    BY <1>10 DEF Taken
  <1>12. <<"header", 0>> \in H
    BY <1>7, <1>11 DEF TakenAll
  <1>13. <<"prio", 0>> \in H => <<"threads", 0>> \in H
    BY <1>7, <1>11 DEF TakenAll
  <1>14. \A shows \in SUBSET {"resumed", "taken"} : reportReads(H, shows) \subseteq H
    BY <1>12, <1>13, ReportReads
  <1>15. B = Blocks => Len(s) = supervisor_layout_words(r, v)
    <2>1. ASSUME B = Blocks PROVE Len(s) = supervisor_layout_words(r, v)
      <3>1. Len(s) = RecordLen(10, r, v)
        BY <1>5, <2>1 DEF LaidOut, Blocks
      <3>2. RecordLen(10, r, v) = 156 + 7 * r + 10 * v
        BY <1>2 DEF RecordLen
      <3>3. supervisor_layout_words(r, v) = 156 + 7 * r + 10 * v
        BY <1>2, Sizes DEF supervisor_layout_words
      <3> QED
        BY <3>1, <3>2, <3>3
    <2> QED
      BY <2>1
  <1>16. \A f \in {s[i][1] : i \in DOMAIN s} \ {<<"level", i>> : i \in u .. v - 1} : \E g \in G : g[1] = f
    BY <1>9
  <1> QED
    BY <1>1, <1>4, <1>6, <1>8, <1>10, <1>14, <1>15, <1>16 DEF Decoded

\* Whatever its routes and its levels, each field of the record of an image
\* with any number of today's blocks is decoded from its own words, all that
\* the record has of the levels in use, the report reads none that is not
\* there, and the newest layout's size is the record's (supervisor_decode,
\* supervisor_report, supervisor_layout_words).  The level block of phase 509
\* I1, which P9b replaced, is not among them.
THEOREM LayoutIsTrue == Spec => []LayoutTrue
  <1> DEFINE Read == image = NoImage \/ image \in Images
  <1>1. Init => Read
    BY DEF Init
  <1>2. Read /\ [Next]_vars => Read'
    <2> SUFFICES ASSUME Read, [Next]_vars PROVE Read'
      OBVIOUS
    <2>1. CASE UNCHANGED image
      BY <2>1
    <2>2. CASE readSupervisor
      BY <2>2 DEF readSupervisor
    <2> QED
      BY <2>1, <2>2 DEF Next, vars
  <1>3. Read => LayoutTrue
    BY LayoutHolds DEF LayoutTrue
  <1> QED
    BY <1>1, <1>2, <1>3, PTL DEF Spec
=============================================================================

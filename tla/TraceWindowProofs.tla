------------------------- MODULE TraceWindowProofs -------------------------
(***************************************************************************)
(* The trace window, for every record policy, size of the ring and of the  *)
(* buffer, period of the heartbeat and wrap of the stamp.  What the image  *)
(* holds after a re-arm that the tool reported was recorded after its      *)
(* write (the first part).  WInv says what the buffer and the ring hold at *)
(* every moment, by the records' neighbours; from it, a trace that passes  *)
(* the check has whole spans, true times and every record kept.            *)
(***************************************************************************)
EXTENDS TraceWindow, TLAPS, NaturalsInduction, WellFoundedInduction, FiniteSetTheorems

-----------------------------------------------------------------------------
(* The inductive invariant.                                                *)

\* The buffer and the ring hold records of S.
Stores(S) ==
    /\ ram \in [recs : Seq(S), full : BOOLEAN]
    /\ ring \in [old : Seq(S), cur : Seq(S)]

\* Every record in the buffer and in the ring is of t or later.
Since(t) == \E S : Stores(S) /\ \A r \in S : r.at >= t

\* A tool that polls a cleared word, or has reported, has a fresh image: only
\* the image clears the word, and it empties both stores when it does.  An
\* earlier session may have left a re-arm behind, which the count tells from
\* the tool's own.
SessionFresh ==
    /\ tool.pc \in {"polling", "ok"} => tool.at <= now
    /\ tool.pc = "polling" /\ rearm = 0 => Since(tool.at)
    /\ tool.pc = "ok" => rearm = 0 /\ rearms = tool.before + 1 /\ Since(tool.at)

SessionTypes ==
    /\ now \in Nat /\ rearms \in Nat /\ rearm \in {0, 1}
    /\ tool \in [pc : {"idle", "ready", "polling", "ok"}, before : Nat, at : Nat]
    /\ tool.pc # "idle" => windowed

IInv == SessionTypes /\ SessionFresh

-----------------------------------------------------------------------------
(* What a write does to the stores.                                        *)

LEMMA SeqGrows ==
    ASSUME NEW S, NEW T, S \subseteq T, NEW s \in Seq(S)
    PROVE  s \in Seq(T)
  OBVIOUS

LEMMA RamHolds ==
    ASSUME NEW S, NEW store \in [recs : Seq(S), full : BOOLEAN], NEW new \in Seq(S)
    PROVE  ramWrite(store, new) \in [recs : Seq(S), full : BOOLEAN]
  <1>1. store.recs \o new \in Seq(S)
    OBVIOUS
  <1>2. [store EXCEPT !.full = TRUE] \in [recs : Seq(S), full : BOOLEAN]
    OBVIOUS
  <1>3. [store EXCEPT !.recs = store.recs \o new] \in [recs : Seq(S), full : BOOLEAN]
    BY <1>1
  <1> QED
    BY <1>2, <1>3 DEF ramWrite

LEMMA RingHolds ==
    ASSUME NEW S, NEW halves \in [old : Seq(S), cur : Seq(S)], NEW r \in S
    PROVE  pre_put(halves, r) \in [old : Seq(S), cur : Seq(S)]
  <1>1. <<r>> \in Seq(S) /\ Append(halves.cur, r) \in Seq(S)
    OBVIOUS
  <1>2. [old |-> halves.cur, cur |-> <<r>>] \in [old : Seq(S), cur : Seq(S)]
    BY <1>1
  <1>3. [halves EXCEPT !.cur = Append(halves.cur, r)] \in [old : Seq(S), cur : Seq(S)]
    BY <1>1
  <1> QED
    BY <1>2, <1>3 DEF pre_put

\* A set of positions has a first one, and one with a bound a last one.
LEMMA LeastOf ==
    ASSUME NEW I, I \subseteq Nat, I # {}
    PROVE  Min(I) \in I /\ \A j \in I : Min(I) <= j
  <1>1. PICK i \in I : \A j \in I : ~(<<j, i>> \in OpToRel(<, Nat))
    BY NatLessThanWellFounded, WFMin
  <1>2. \A j \in I : ~(j < i)
    BY <1>1 DEF OpToRel
  <1>3. \A j \in I : i <= j
    BY <1>2
  <1> QED
    BY <1>3 DEF Min

LEMMA GreatestOf ==
    ASSUME NEW I, NEW n \in Nat, I \subseteq 0 .. n, I # {}
    PROVE  Max(I) \in I /\ \A j \in I : j <= Max(I)
  <1> DEFINE Gaps == {g \in 0 .. n : n - g \in I}
  <1>a. PICK h \in I : TRUE
    OBVIOUS
  <1>b. h \in 0 .. n
    OBVIOUS
  <1>c. n - h \in Gaps
    <2>1. n - (n - h) = h /\ n - h \in 0 .. n
      BY <1>b
    <2> QED
      BY <2>1
  <1>e. \A g \in Gaps : g \in Nat
    OBVIOUS
  <1>1. Gaps \subseteq Nat /\ Gaps # {}
    BY <1>c, <1>e
  <1> HIDE DEF Gaps
  <1>2. Min(Gaps) \in Gaps /\ \A g \in Gaps : Min(Gaps) <= g
    BY <1>1, LeastOf
  <1> USE DEF Gaps
  <1>3. PICK i : i = n - Min(Gaps)
    OBVIOUS
  <1>d. Min(Gaps) \in 0 .. n /\ i \in I
    BY <1>2, <1>3
  <1>4. ASSUME NEW j \in I
        PROVE  j <= i
    <2>1. j \in 0 .. n
      OBVIOUS
    <2>2. n - j \in Gaps
      BY <2>1
    <2>3. Min(Gaps) <= n - j
      BY <1>2, <2>2
    <2> QED
      BY <1>3, <1>d, <2>1, <2>3
  <1>5. \A j \in I : i >= j
    <2> SUFFICES ASSUME NEW j \in I PROVE i >= j
      OBVIOUS
    <2>1. j \in 0 .. n /\ i \in 0 .. n
      BY <1>d
    <2> QED
      BY <1>4, <2>1
  <1>6. Max(I) \in I /\ \A j \in I : Max(I) >= j
    BY <1>5, <1>d DEF Max
  <1> QED
    <2> SUFFICES ASSUME NEW j \in I PROVE j <= Max(I)
      BY <1>6
    <2>1. Max(I) >= j /\ j \in 0 .. n /\ Max(I) \in 0 .. n
      BY <1>6
    <2> QED
      BY <2>1

\* What the trigger flushes of either half was in the ring.
LEMMA FlushHolds ==
    ASSUME NEW S, ring \in [old : Seq(S), cur : Seq(S)]
    PROVE  flush[1] \in Seq(S) /\ flush[2] \in Seq(S)
  <1> DEFINE all == ring.old \o ring.cur
             rel == RelTimes(all)
             nowRel == rel[Len(all)] + ((Stamp - all[Len(all)].ts) % Wrap)
             In(i) == nowRel - rel[i] <= Pre
             From(lo, hi) == LET in == {i \in lo .. hi : In(i)}
                             IN  IF in = {} THEN <<>>
                                 ELSE SubSeq(all, Min(in), hi)
  <1>1. /\ all \in Seq(S) /\ Len(ring.old) \in Nat /\ Len(all) \in Nat
        /\ Len(ring.old) <= Len(all)
    OBVIOUS
  <1>2. flush = IF all = <<>> THEN << <<>>, <<>> >>
                ELSE <<From(1, Len(ring.old)), From(Len(ring.old) + 1, Len(all))>>
    BY DEF flush
  <1> HIDE DEF all, In
  <1>3. ASSUME NEW lo \in Nat, lo >= 1, NEW hi \in Nat, hi <= Len(all)
        PROVE  From(lo, hi) \in Seq(S)
    <2> DEFINE in == {i \in lo .. hi : In(i)}
               first == Min(in)
    <2>1. CASE in = {}
      BY <2>1
    <2>2. CASE in # {}
      <3>1. in \subseteq Nat /\ in \subseteq lo .. hi
        BY <1>3
      <3> HIDE DEF in
      <3>2. first \in in
        BY <2>2, <3>1, LeastOf
      <3>3. first \in lo .. hi
        BY <3>1, <3>2
      <3> USE DEF in
      <3>4. From(lo, hi) = SubSeq(all, first, hi)
        BY <2>2
      <3> HIDE DEF first, From
      <3>5. SubSeq(all, first, hi) \in Seq(S)
        BY <1>1, <1>3, <3>3
      <3> QED
        BY <3>4, <3>5
    <2> QED
      BY <2>1, <2>2
  <1> HIDE DEF From
  <1>4. From(1, Len(ring.old)) \in Seq(S) /\ From(Len(ring.old) + 1, Len(all)) \in Seq(S)
    BY <1>1, <1>3
  <1> QED
    BY <1>2, <1>4

LEMMA FireHolds ==
    ASSUME NEW S, Stores(S), NEW m, Trigger(m) \in S
    PROVE  fireRam(m) \in [recs : Seq(S), full : BOOLEAN]
  <1> DEFINE one == IF flush[1] = <<>> THEN ram ELSE ramWrite(ram, flush[1])
             two == IF flush[2] = <<>> THEN one ELSE ramWrite(one, flush[2])
  <1>1. flush[1] \in Seq(S) /\ flush[2] \in Seq(S)
    BY FlushHolds DEF Stores
  <1>2. ramWrite(ram, flush[1]) \in [recs : Seq(S), full : BOOLEAN]
    BY <1>1, RamHolds DEF Stores
  <1>3. one \in [recs : Seq(S), full : BOOLEAN]
    BY <1>2 DEF Stores
  <1> HIDE DEF one
  <1>4. ramWrite(one, flush[2]) \in [recs : Seq(S), full : BOOLEAN]
    BY <1>1, <1>3, RamHolds
  <1>5. two \in [recs : Seq(S), full : BOOLEAN]
    BY <1>3, <1>4
  <1> HIDE DEF two
  <1>6. <<Trigger(m)>> \in Seq(S)
    OBVIOUS
  <1>7. ramWrite(two, <<Trigger(m)>>) \in [recs : Seq(S), full : BOOLEAN]
    BY <1>5, <1>6, RamHolds
  <1>8. fireRam(m) = ramWrite(two, <<Trigger(m)>>)
    BY DEF fireRam, one, two
  <1> QED
    BY <1>7, <1>8

\* A marker leaves the records that were there, its own and a trigger's.
LEMMA MarkerHolds ==
    ASSUME NEW S, Stores(S), NEW m, NEW arg, NEW run,
           Trigger(m) \in S, Marker(m, arg, run) \in S, marker_windowed(m, arg, run)
    PROVE  /\ ram' \in [recs : Seq(S), full : BOOLEAN]
           /\ ring' \in [old : Seq(S), cur : Seq(S)]
  <1> DEFINE r == Marker(m, arg, run)
             store == IF Fires(m) THEN fireRam(m) ELSE ram
  <1>1. store \in [recs : Seq(S), full : BOOLEAN]
    BY FireHolds DEF Stores
  <1>2. /\ ram' \in {ramWrite(ram, <<r>>), ramWrite(store, <<r>>), store}
        /\ ring' \in {ring, pre_put(ring, r)}
    BY DEF marker_windowed
  <1> HIDE DEF store, r
  <1>3. r \in S /\ <<r>> \in Seq(S)
    BY DEF r
  <1>4. ramWrite(store, <<r>>) \in [recs : Seq(S), full : BOOLEAN]
    BY <1>1, <1>3, RamHolds
  <1>5. ramWrite(ram, <<r>>) \in [recs : Seq(S), full : BOOLEAN]
    BY <1>3, RamHolds DEF Stores
  <1>6. pre_put(ring, r) \in [old : Seq(S), cur : Seq(S)]
    BY <1>3, RingHolds DEF Stores
  <1> QED
    BY <1>1, <1>2, <1>4, <1>5, <1>6 DEF Stores

-----------------------------------------------------------------------------
(* A step that is not a re-arm keeps what the image holds as late as it    *)
(* was, a re-arm makes it as late as the heartbeat.                        *)

LEMMA StoreStep ==
    ASSUME SessionTypes, NEW t \in Nat, t <= now, Since(t), [Next]_vars
    PROVE  Since(t)'
  <1>1. PICK S : Stores(S) /\ \A r \in S : r.at >= t
    BY DEF Since
  <1>2. ASSUME NEW e \in Emits, Trace(e[1], e[2])
        PROVE  Since(t)'
    <2> DEFINE mark == Marker(e[1], e[2], runs')
               trig == Trigger(e[1])
    <2>1. mark.at = now /\ trig.at = now
      BY DEF Marker, Trigger
    <2>2. PICK run : run = runs'
      OBVIOUS
    <2>3. marker_windowed(e[1], e[2], run)
      BY <1>2, <2>2 DEF Trace
    <2>4. PICK T : T = S \cup {Marker(e[1], e[2], run), Trigger(e[1])}
      OBVIOUS
    <2>5. \A r \in T : r.at >= t
      BY <1>1, <2>1, <2>2, <2>4 DEF SessionTypes
    <2>6. Stores(T)
      BY <1>1, <2>4, SeqGrows DEF Stores
    <2>7. Trigger(e[1]) \in T /\ Marker(e[1], e[2], run) \in T
      BY <2>4
    <2> HIDE DEF mark, trig
    <2>8. /\ ram' \in [recs : Seq(T), full : BOOLEAN]
          /\ ring' \in [old : Seq(T), cur : Seq(T)]
      BY <2>3, <2>6, <2>7, MarkerHolds
    <2> QED
      BY <2>5, <2>8 DEF Since, Stores
  <1>3. ASSUME heartbeat
        PROVE  Since(t)'
    <2> DEFINE again == windowed /\ rearm # 0
               r == IF again THEN [Heartbeat EXCEPT !.after = Never] ELSE Heartbeat
               store == IF again THEN ramWrite(ramInit, <<Provenance>>) ELSE ram
               halves == IF again THEN emptyRing ELSE ring
    <2>1. r.at = now /\ Provenance.at = now
      BY DEF Heartbeat, Provenance
    <2>2. /\ ram' \in {store, ramWrite(store, <<r>>)}
          /\ ring' \in {ring, pre_put(halves, r)}
      BY <1>3 DEF heartbeat, rearmRing
    <2>3. PICK T : T = S \cup {r, Provenance}
      OBVIOUS
    <2>4. \A x \in T : x.at >= t
      BY <1>1, <2>1, <2>3 DEF SessionTypes
    <2>5. Stores(T)
      BY <1>1, <2>3, SeqGrows DEF Stores
    <2> HIDE DEF r
    <2>6. r \in T /\ <<r>> \in Seq(T) /\ <<Provenance>> \in Seq(T)
      BY <2>3
    <2>7. ramInit \in [recs : Seq(T), full : BOOLEAN] /\ emptyRing \in [old : Seq(T), cur : Seq(T)]
      BY DEF ramInit, emptyRing
    <2>8. ramWrite(ramInit, <<Provenance>>) \in [recs : Seq(T), full : BOOLEAN]
      BY <2>6, <2>7, RamHolds
    <2>9. /\ store \in [recs : Seq(T), full : BOOLEAN]
          /\ halves \in [old : Seq(T), cur : Seq(T)]
      BY <2>5, <2>7, <2>8 DEF Stores
    <2> HIDE DEF store, halves
    <2>10. ramWrite(store, <<r>>) \in [recs : Seq(T), full : BOOLEAN]
      BY <2>6, <2>9, RamHolds
    <2>11. pre_put(halves, r) \in [old : Seq(T), cur : Seq(T)]
      BY <2>6, <2>9, RingHolds
    <2> QED
      BY <2>2, <2>4, <2>5, <2>9, <2>10, <2>11 DEF Since, Stores
  <1>4. ASSUME UNCHANGED <<ram, ring>>
        PROVE  Since(t)'
    BY <1>1, <1>4 DEF Since, Stores
  <1> QED
    BY <1>2, <1>3, <1>4 DEF Next, Advance, rearmAttach, rearmCancel, rearmWrite, rearmPoll,
       rearmTimeout, readout, vars, image

LEMMA RearmSince ==
    ASSUME SessionTypes, NEW t \in Nat, t <= now, windowed, rearm # 0, heartbeat
    PROVE  Since(t)'
  <1> DEFINE r == [Heartbeat EXCEPT !.after = Never]
  <1>1. r.at = now /\ Provenance.at = now
    BY DEF Heartbeat, Provenance
  <1>2. ram' = ramWrite(ramInit, <<Provenance>>) /\ ring' = pre_put(emptyRing, r)
    BY DEF heartbeat, rearmRing
  <1>3. PICK T : T = {r, Provenance}
    OBVIOUS
  <1>4. \A x \in T : x.at >= t
    BY <1>1, <1>3 DEF SessionTypes
  <1> HIDE DEF r
  <1>5. r \in T /\ <<Provenance>> \in Seq(T)
    BY <1>3
  <1>6. ramInit \in [recs : Seq(T), full : BOOLEAN] /\ emptyRing \in [old : Seq(T), cur : Seq(T)]
    BY DEF ramInit, emptyRing
  <1>7. ramWrite(ramInit, <<Provenance>>) \in [recs : Seq(T), full : BOOLEAN]
    BY <1>5, <1>6, RamHolds
  <1>8. pre_put(emptyRing, r) \in [old : Seq(T), cur : Seq(T)]
    BY <1>5, <1>6, RingHolds
  <1> QED
    BY <1>2, <1>4, <1>7, <1>8 DEF Since, Stores

-----------------------------------------------------------------------------
(* The session.                                                            *)

LEMMA InitHolds == Init => IInv
  BY DEF Init, IInv, SessionTypes, SessionFresh, idle

LEMMA TypesStep ==
    ASSUME SessionTypes, [Next]_vars
    PROVE  SessionTypes'
  <1>1. ASSUME NEW e \in Emits, Trace(e[1], e[2])
        PROVE  SessionTypes'
    BY <1>1 DEF SessionTypes, Trace, marker_windowed
  <1>2. CASE heartbeat
    BY <1>2 DEF SessionTypes, heartbeat
  <1>3. CASE Advance
    BY <1>3 DEF SessionTypes, Advance, image
  <1>4. CASE rearmAttach
    BY <1>4 DEF SessionTypes, rearmAttach, image, idle
  <1>5. CASE rearmCancel
    BY <1>5 DEF SessionTypes, rearmCancel, image, idle
  <1>6. CASE rearmWrite
    BY <1>6 DEF SessionTypes, rearmWrite
  <1>7. CASE rearmPoll
    BY <1>7 DEF SessionTypes, rearmPoll, image, idle
  <1>8. CASE rearmTimeout
    BY <1>8 DEF SessionTypes, rearmTimeout, image, idle
  <1>9. ASSUME NEW no_resume \in BOOLEAN, readout(no_resume)
        PROVE  SessionTypes'
    BY <1>9 DEF SessionTypes, readout, image
  <1>10. CASE UNCHANGED vars
    BY <1>10 DEF SessionTypes, vars, image
  <1> QED
    BY <1>1, <1>2, <1>3, <1>4, <1>5, <1>6, <1>7, <1>8, <1>9, <1>10 DEF Next

\* A step that leaves the session, its words and the count alone leaves what
\* it says of the stores.
LEMMA SessionCarried ==
    ASSUME IInv, [Next]_vars, UNCHANGED <<tool, rearm, rearms>>, now <= now'
    PROVE  SessionFresh'
  <1>1. now' \in Nat
    BY TypesStep DEF IInv, SessionTypes
  <1>2. tool.pc \in {"polling", "ok"} => tool.at <= now' /\ tool.at \in Nat
    BY <1>1 DEF IInv, SessionTypes, SessionFresh
  <1>3. tool.pc \in {"polling", "ok"} /\ Since(tool.at) => Since(tool.at)'
    <2> SUFFICES ASSUME tool.pc \in {"polling", "ok"}, Since(tool.at)
                 PROVE  Since(tool.at)'
      OBVIOUS
    <2>1. PICK t : t = tool.at
      OBVIOUS
    <2>2. t \in Nat /\ t <= now /\ Since(t)
      BY <2>1 DEF IInv, SessionTypes, SessionFresh
    <2>3. Since(t)'
      BY <2>2, StoreStep DEF IInv
    <2> QED
      BY <2>1, <2>3
  <1> QED
    BY <1>2, <1>3 DEF IInv, SessionFresh

LEMMA HeartbeatFresh ==
    ASSUME IInv, heartbeat
    PROVE  SessionFresh'
  <1>1. PICK t : t = tool.at
    OBVIOUS
  <1>2. t \in Nat /\ rearm' = 0 /\ tool' = tool /\ now' = now
    BY <1>1 DEF IInv, SessionTypes, heartbeat
  <1>3. tool.pc = "polling" => Since(t)'
    <2> SUFFICES ASSUME tool.pc = "polling"
                 PROVE  Since(t)'
      OBVIOUS
    <2>1. t <= now /\ windowed
      BY <1>1 DEF IInv, SessionTypes, SessionFresh
    <2>2. CASE rearm = 0
      <3>1. Since(t)
        BY <1>1, <2>2 DEF IInv, SessionFresh
      <3> QED
        BY <1>2, <2>1, <3>1, StoreStep DEF IInv, Next
    <2>3. CASE rearm # 0
      BY <1>2, <2>1, <2>3, RearmSince DEF IInv
    <2> QED
      BY <2>2, <2>3
  <1>4. tool.pc = "ok" => Since(t)' /\ rearms' = tool.before + 1
    <2> SUFFICES ASSUME tool.pc = "ok"
                 PROVE  Since(t)' /\ rearms' = tool.before + 1
      OBVIOUS
    <2>1. t <= now /\ Since(t) /\ rearm = 0 /\ rearms = tool.before + 1
      BY <1>1 DEF IInv, SessionFresh
    <2>2. Since(t)'
      BY <1>2, <2>1, StoreStep DEF IInv, Next
    <2> QED
      BY <2>1, <2>2 DEF heartbeat
  <1>5. Since(tool.at)' <=> Since(t)'
    BY <1>1, <1>2
  <1>6. tool.pc \in {"polling", "ok"} => tool.at <= now
    BY DEF IInv, SessionFresh
  <1> QED
    BY <1>2, <1>3, <1>4, <1>5, <1>6 DEF SessionFresh

LEMMA FreshStep ==
    ASSUME IInv, [Next]_vars
    PROVE  SessionFresh'
  <1>1. now \in Nat
    BY DEF IInv, SessionTypes
  <1>2. ASSUME NEW e \in Emits, Trace(e[1], e[2])
        PROVE  SessionFresh'
    <2>1. UNCHANGED <<tool, rearm, rearms, now>>
      BY <1>2 DEF Trace, marker_windowed
    <2> QED
      BY <1>1, <2>1, SessionCarried
  <1>3. CASE heartbeat
    BY <1>3, HeartbeatFresh
  <1>4. CASE Advance
    <2>1. UNCHANGED <<tool, rearm, rearms>> /\ now <= now'
      BY <1>1, <1>4 DEF Advance, image
    <2> QED
      BY <2>1, SessionCarried
  <1>5. CASE rearmAttach \/ rearmCancel \/ rearmTimeout
    <2>1. tool' = idle \/ tool' = [idle EXCEPT !.pc = "ready", !.before = rearms]
      BY <1>5 DEF rearmAttach, rearmCancel, rearmTimeout
    <2>2. idle.pc = "idle" /\ [idle EXCEPT !.pc = "ready", !.before = rearms].pc = "ready"
      BY DEF idle
    <2>3. tool'.pc \in {"idle", "ready"}
      BY <2>1, <2>2
    <2> QED
      BY <2>3 DEF SessionFresh
  <1>6. CASE rearmWrite
    BY <1>1, <1>6 DEF IInv, SessionTypes, SessionFresh, rearmWrite
  <1>7. CASE rearmPoll
    <2>1. Since(tool.at) /\ tool.at <= now /\ rearm = 0
      BY <1>7 DEF IInv, SessionFresh, rearmPoll
    <2>2. UNCHANGED <<ram, ring, rearm, rearms, now>>
      BY <1>7 DEF rearmPoll, image
    <2>3. CASE tool' = idle
      BY <2>3 DEF SessionFresh, idle
    <2>4. CASE rearms = tool.before + 1 /\ tool' = [tool EXCEPT !.pc = "ok"]
      <3>1. tool'.at = tool.at /\ tool'.pc = "ok" /\ tool'.before = tool.before
        BY <2>4 DEF IInv, SessionTypes
      <3>2. Since(tool.at)'
        BY <2>1, <2>2, <3>1 DEF Since, Stores
      <3> QED
        BY <2>1, <2>2, <2>4, <3>1, <3>2 DEF SessionFresh
    <2> QED
      BY <1>7, <2>3, <2>4 DEF rearmPoll
  <1>8. ASSUME NEW no_resume \in BOOLEAN, readout(no_resume)
        PROVE  SessionFresh'
    <2>1. UNCHANGED <<tool, rearm, rearms, now>>
      BY <1>8 DEF readout, image
    <2> QED
      BY <1>1, <2>1, SessionCarried
  <1>9. CASE UNCHANGED vars
    <2>1. UNCHANGED <<tool, rearm, rearms, now>>
      BY <1>9 DEF vars, image
    <2> QED
      BY <1>1, <2>1, SessionCarried
  <1> QED
    BY <1>2, <1>3, <1>4, <1>5, <1>6, <1>7, <1>8, <1>9 DEF Next

-----------------------------------------------------------------------------
(* The theorems.                                                           *)

\* The session's words and the image's stores stay as the protocol leaves
\* them.
THEOREM SessionInvariant == Spec => []IInv
  <1>1. IInv /\ [Next]_vars => IInv'
    BY TypesStep, FreshStep DEF IInv
  <1> QED
    BY <1>1, InitHolds, PTL DEF Spec

\* Once readout.py --rearm-only has reported, neither the RAM buffer nor the
\* ring of the image holds a record from before its write, and no other
\* re-arm has come between.
THEOREM RearmIsFresh == Spec => []RearmFresh
  <1>1. IInv => RearmFresh
    <2> SUFFICES ASSUME IInv, tool.pc = "ok",
                        NEW r \in ToSet(ram.recs \o ring.old \o ring.cur)
                 PROVE  r.at >= tool.at
      BY DEF RearmFresh, IInv, SessionFresh
    <2>1. PICK S : Stores(S) /\ \A x \in S : x.at >= tool.at
      BY DEF IInv, SessionFresh, Since
    <2>2. ram.recs \in Seq(S) /\ ring.old \in Seq(S) /\ ring.cur \in Seq(S)
      BY <2>1 DEF Stores
    <2>3. PICK all : all = ram.recs \o ring.old \o ring.cur
      OBVIOUS
    <2>4. all \in Seq(S)
      BY <2>2, <2>3
    <2>5. \A i \in DOMAIN all : all[i] \in S
      BY <2>4
    <2>6. r \in S
      BY <2>3, <2>5 DEF ToSet
    <2> QED
      BY <2>1, <2>6
  <1> QED
    BY <1>1, SessionInvariant, PTL
-----------------------------------------------------------------------------
(* Sequences of records, told by three kinds of neighbours.                *)

\* What the image writes.
Stamped(r) == r.ts = r.at % Wrap
Markers == {r \in [kind : {"marker"}, ts : Nat, marker : {e[1] : e \in Emits}, arg : {e[2] : e \in Emits},
                   at : Nat, n : Nat, after : Nat \union {Never}, run : Nat] : Stamped(r)}
Heartbeats == {r \in [kind : {"heartbeat"}, ts : Nat, seq : Nat, uptime : Nat,
                      at : Nat, n : Nat, after : Nat \union {Never}] : Stamped(r) /\ r.uptime = r.at}
Provenances == {r \in [kind : {"provenance"}, ts : Nat, sha : {TableSha}, windowed : BOOLEAN, at : Nat] :
                    Stamped(r)}
Triggers == {r \in [kind : {"trigger"}, ts : Nat, marker : {e[1] : e \in Emits}, pre_kept : Nat, pre_lost : Int,
                    filtered : Nat, at : Nat] : Stamped(r)}
Event == Markers \union Heartbeats
Records == Event \union Provenances \union Triggers

\* Of two records of X with none between, both are in R.
Linked(s, X, R) ==
    \A i, j \in DOMAIN s :
        i < j /\ s[i] \in X /\ s[j] \in X /\ (\A k \in i + 1 .. j - 1 : s[k] \notin X) => <<s[i], s[j]>> \in R

\* The last record of X is in P.
LastIn(s, X, P) ==
    \A i \in DOMAIN s : s[i] \in X /\ (\A k \in i + 1 .. Len(s) : s[k] \notin X) => s[i] \in P

\* An EXIT follows its own ENTRY.
OfPath == {r \in Markers : r.marker \in {Entry, Exit}}
PathPairs == {p \in OfPath \X OfPath : p[2].marker = Exit => p[1].marker = Entry /\ p[1].run = p[2].run}

\* Records kept are numbered, and know when the one before was.
EventPairs == {p \in Event \X Event : p[2].n = p[1].n + 1 /\ p[2].after = p[1].at}

\* Within a segment no two records are further apart than heartbeats.
Timed == {r \in Records : ~Opens(r)}
TimedPairs == {p \in Timed \X Timed : p[1].at <= p[2].at /\ p[2].at - p[1].at <= HbPeriod}

Stream(s) ==
    /\ Linked(s, OfPath, PathPairs)
    /\ Linked(s, Event, EventPairs)
    /\ Linked(s, Timed, TimedPairs)

\* What the next record goes to ends with the latest execution of the path,
\* unless that was dropped, the last record kept and one since the last beat.
LastPath == {r \in OfPath : inPath /\ ~policy.skip[Entry] => r.marker = Entry /\ r.run = runs}
LastEvent == {r \in Event : r.n = emitted /\ r.at = lastAt}
LastTimed == {r \in Timed : nextBeat - HbPeriod <= r.at /\ r.at <= now}
LiveAs(s, P, E, T) == LastIn(s, OfPath, P) /\ LastIn(s, Event, E) /\ LastIn(s, Timed, T)
Live(s) == LiveAs(s, LastPath, LastEvent, LastTimed)

-----------------------------------------------------------------------------
Args == {0} \union {e[2] : e \in Emits}
WindowTypes ==
    /\ windowed \in BOOLEAN /\ inPath \in BOOLEAN
    /\ now \in Nat /\ nextBeat \in Nat /\ hb_seq \in Nat /\ runs \in Nat /\ emitted \in Nat
    /\ nextBeat - HbPeriod <= now /\ now <= nextBeat
    /\ lastAt \in Nat \union {Never}
    /\ flags \in [armed : BOOLEAN, reopen : BOOLEAN, triggered : BOOLEAN]
    /\ counts \in [filtered : Nat, pre_n : Nat, pre_lost : Int]
    /\ policy \in [seen : [1 .. MarkerCount -> BOOLEAN], last : [1 .. MarkerCount -> Args],
                   skip : [1 .. MarkerCount -> BOOLEAN], spins : [1 .. MarkerCount -> Nat]]
    /\ ram \in [recs : Seq(Records), full : BOOLEAN]
    /\ ring \in [old : Seq(Event), cur : Seq(Event)]
    /\ ~windowed => ~policy.skip[Entry] /\ ~flags.triggered

AllOfRing == ring.old \o ring.cur

\* The ring has every record kept so far, or a whole half of them.
RingSound ==
    /\ Stream(AllOfRing) /\ Live(AllOfRing)
    /\ AllOfRing = <<>> => lastAt = Never
    /\ ring.old = <<>> /\ ring.cur # <<>> => ring.cur[1].after = Never
    /\ ring.old # <<>> => Bytes(ring.old) + 14 > Half

\* The history before the trigger at ti begins at lo.
Reaches(recs, lo, ti) ==
    \/ recs[lo].after = Never
    \/ recs[ti].at - recs[lo].after > Pre
    \/ Bytes(SubSeq(recs, lo, ti - 1)) + 14 > Half

FirstEvent(recs, i) == recs[i] \in Event /\ \A k \in 1 .. i - 1 : recs[k] \notin Event

\* A window that has opened: provenance, history, trigger, the rest.
OpenSound(recs) ==
    /\ recs # <<>> => recs[1] \in Provenances /\ recs[1].windowed
    /\ \A i \in 2 .. Len(recs) : recs[i] \notin Provenances
    /\ \A i \in DOMAIN recs : recs[i] \in Triggers =>
          /\ recs[i].pre_kept = i - 2
          /\ \A k \in DOMAIN recs : k # i => recs[k] \notin Triggers
          /\ \A k \in 2 .. i - 1 : recs[k].at <= recs[i].at /\ recs[i].at - recs[k].at <= Pre
          /\ \A lo \in DOMAIN recs : FirstEvent(recs, lo) => Reaches(recs, lo, i)

\* The first record after a trigger without history will know it.
OpenLiveAs(recs, last) ==
    \E i \in DOMAIN recs : recs[i] \in Triggers /\
        ((\A k \in DOMAIN recs : recs[k] \notin Event) => last = Never \/ recs[i].at - last > Pre)
OpenLive(recs) == OpenLiveAs(recs, lastAt)

BootSound(recs) ==
    /\ recs # <<>> /\ recs[1] \in Provenances /\ ~recs[1].windowed /\ recs[1].at = 0
    /\ \A i \in 2 .. Len(recs) : recs[i] \in Event
    /\ \A lo \in DOMAIN recs : FirstEvent(recs, lo) => recs[lo].n = 1

\* The first record of a trace since boot is the first one kept.
BootLiveAs(recs, count) == (\A k \in DOMAIN recs : recs[k] \notin Event) => count = 0

WaitSound(recs) == Len(recs) <= 1 /\ \A i \in DOMAIN recs : recs[i] \in Provenances /\ recs[i].windowed

WInv ==
    /\ WindowTypes
    /\ Stream(ram.recs)
    /\ windowed /\ ~flags.triggered => RingSound /\ WaitSound(ram.recs) /\ (ram.recs = <<>> => ram.full)
    /\ windowed /\ flags.triggered =>
          OpenSound(ram.recs) /\ (~ram.full => Live(ram.recs) /\ OpenLive(ram.recs))
    /\ ~windowed =>
          /\ BootSound(ram.recs)
          /\ ~ram.full => Live(ram.recs) /\ BootLiveAs(ram.recs, emitted)

-----------------------------------------------------------------------------
(* Neighbours: what a sequence keeps when it grows, is cut or gets a head. *)

\* t is s with r behind it, t is the part of s from position d + 1.
Grown(s, t, r) ==
    /\ Len(s) \in Nat /\ DOMAIN s = 1 .. Len(s) /\ DOMAIN t = 1 .. Len(t)
    /\ Len(t) = Len(s) + 1 /\ t[Len(t)] = r
    /\ \A i \in 1 .. Len(s) : t[i] = s[i]
Part(s, t, d) ==
    /\ Len(s) \in Nat /\ Len(t) \in Nat /\ d \in Nat /\ Len(t) + d <= Len(s)
    /\ DOMAIN s = 1 .. Len(s) /\ DOMAIN t = 1 .. Len(t)
    /\ \A i \in 1 .. Len(t) : t[i] = s[i + d]
Headed(s, t, p) ==
    /\ Len(s) \in Nat /\ DOMAIN s = 1 .. Len(s) /\ DOMAIN t = 1 .. Len(t)
    /\ Len(t) = Len(s) + 1 /\ t[1] = p
    /\ \A i \in 1 .. Len(s) : t[i + 1] = s[i]

LEMMA GrownBy ==
    ASSUME NEW Z, NEW s \in Seq(Z), NEW r \in Z
    PROVE  Grown(s, Append(s, r), r) /\ Grown(s, s \o <<r>>, r)
  <1>1. s \o <<r>> \in Seq(Z) /\ Append(s, r) \in Seq(Z) /\ Len(s \o <<r>>) = Len(s) + 1
    OBVIOUS
  <1>2. \A i \in 1 .. Len(s) : (s \o <<r>>)[i] = s[i] /\ Append(s, r)[i] = s[i]
    OBVIOUS
  <1>3. (s \o <<r>>)[Len(s) + 1] = r /\ Append(s, r)[Len(s) + 1] = r
    OBVIOUS
  <1> QED
    BY <1>1, <1>2, <1>3 DEF Grown

LEMMA LinkedGrows ==
    ASSUME NEW s, NEW t, NEW r, Grown(s, t, r), NEW X, NEW R, NEW P,
           Linked(s, X, R), LastIn(s, X, P),
           r \in X => \A q \in P : <<q, r>> \in R
    PROVE  Linked(t, X, R)
  <1> SUFFICES ASSUME NEW i \in DOMAIN t, NEW j \in DOMAIN t, i < j, t[i] \in X, t[j] \in X,
                      \A k \in i + 1 .. j - 1 : t[k] \notin X
               PROVE  <<t[i], t[j]>> \in R
    BY DEF Linked
  <1>1. i \in 1 .. Len(s) /\ t[i] = s[i] /\ i \in DOMAIN s
    BY DEF Grown
  <1>2. CASE j <= Len(s)
    <2>1. t[j] = s[j] /\ j \in DOMAIN s /\ \A k \in i + 1 .. j - 1 : t[k] = s[k]
      BY <1>1, <1>2 DEF Grown
    <2> QED
      BY <1>1, <2>1 DEF Linked
  <1>3. CASE j > Len(s)
    <2>1. j = Len(s) + 1 /\ t[j] = r
      BY <1>3 DEF Grown
    <2>2. \A k \in i + 1 .. Len(s) : t[k] = s[k] /\ k \in i + 1 .. j - 1
      BY <1>1, <2>1 DEF Grown
    <2>3. s[i] \in P
      BY <1>1, <2>2 DEF LastIn
    <2> QED
      BY <1>1, <2>1, <2>3
  <1> QED
    BY <1>1, <1>2, <1>3 DEF Grown

LEMMA LastGrows ==
    ASSUME NEW s, NEW t, NEW r, Grown(s, t, r), NEW X, NEW P,
           IF r \in X THEN r \in P ELSE LastIn(s, X, P)
    PROVE  LastIn(t, X, P)
  <1> SUFFICES ASSUME NEW i \in DOMAIN t, t[i] \in X, \A k \in i + 1 .. Len(t) : t[k] \notin X
               PROVE  t[i] \in P
    BY DEF LastIn
  <1>1. i \in 1 .. Len(s) \/ i = Len(s) + 1
    BY DEF Grown
  <1>2. CASE i = Len(s) + 1
    BY <1>2 DEF Grown
  <1>3. CASE i \in 1 .. Len(s)
    <2>1. Len(t) \in i + 1 .. Len(t)
      BY <1>3 DEF Grown
    <2>2. r \notin X
      BY <2>1 DEF Grown
    <2>3. \A k \in i + 1 .. Len(s) : k \in i + 1 .. Len(t) /\ s[k] = t[k]
      BY <1>3 DEF Grown
    <2>4. i \in DOMAIN s /\ s[i] = t[i]
      BY <1>3 DEF Grown
    <2> QED
      BY <2>2, <2>3, <2>4 DEF LastIn
  <1> QED
    BY <1>1, <1>2, <1>3

LEMMA LinkedPart ==
    ASSUME NEW s, NEW t, NEW d, Part(s, t, d), NEW X, NEW R, Linked(s, X, R)
    PROVE  Linked(t, X, R)
  <1> SUFFICES ASSUME NEW i \in DOMAIN t, NEW j \in DOMAIN t, i < j, t[i] \in X, t[j] \in X,
                      \A k \in i + 1 .. j - 1 : t[k] \notin X
               PROVE  <<t[i], t[j]>> \in R
    BY DEF Linked
  <1>1. i \in 1 .. Len(t) /\ j \in 1 .. Len(t) /\ d \in Nat /\ Len(t) \in Nat
    BY DEF Part
  <1>2. i + d \in DOMAIN s /\ j + d \in DOMAIN s /\ i + d < j + d
    BY <1>1 DEF Part
  <1>3. ASSUME NEW k \in (i + d) + 1 .. (j + d) - 1
        PROVE  s[k] \notin X
    <2>1. k - d \in i + 1 .. j - 1 /\ k - d \in 1 .. Len(t) /\ (k - d) + d = k
      BY <1>1
    <2> QED
      BY <2>1 DEF Part
  <1>4. t[i] = s[i + d] /\ t[j] = s[j + d]
    BY <1>1 DEF Part
  <1> QED
    BY <1>2, <1>3, <1>4 DEF Linked

LEMMA LastPart ==
    ASSUME NEW s, NEW t, NEW d, Part(s, t, d), Len(t) + d = Len(s), NEW X, NEW P, LastIn(s, X, P)
    PROVE  LastIn(t, X, P)
  <1> SUFFICES ASSUME NEW i \in DOMAIN t, t[i] \in X, \A k \in i + 1 .. Len(t) : t[k] \notin X
               PROVE  t[i] \in P
    BY DEF LastIn
  <1>1. i \in 1 .. Len(t) /\ d \in Nat /\ Len(t) \in Nat
    BY DEF Part
  <1>2. i + d \in DOMAIN s
    BY <1>1 DEF Part
  <1>3. ASSUME NEW k \in (i + d) + 1 .. Len(s)
        PROVE  s[k] \notin X
    <2>1. k - d \in i + 1 .. Len(t) /\ k - d \in 1 .. Len(t) /\ (k - d) + d = k
      BY <1>1
    <2> QED
      BY <2>1 DEF Part
  <1>4. t[i] = s[i + d]
    BY <1>1 DEF Part
  <1> QED
    BY <1>2, <1>3, <1>4 DEF LastIn

LEMMA LinkedHead ==
    ASSUME NEW s, NEW t, NEW p, Headed(s, t, p), NEW X, NEW R, p \notin X, Linked(s, X, R)
    PROVE  Linked(t, X, R)
  <1> SUFFICES ASSUME NEW i \in DOMAIN t, NEW j \in DOMAIN t, i < j, t[i] \in X, t[j] \in X,
                      \A k \in i + 1 .. j - 1 : t[k] \notin X
               PROVE  <<t[i], t[j]>> \in R
    BY DEF Linked
  <1>1. i # 1
    BY DEF Headed
  <1>2. i - 1 \in 1 .. Len(s) /\ j - 1 \in 1 .. Len(s) /\ Len(s) \in Nat /\ i \in Nat /\ j \in Nat
    BY <1>1 DEF Headed
  <1>3. ASSUME NEW k \in (i - 1) + 1 .. (j - 1) - 1
        PROVE  s[k] \notin X
    <2>1. k + 1 \in i + 1 .. j - 1 /\ k \in 1 .. Len(s)
      BY <1>2
    <2> QED
      BY <2>1 DEF Headed
  <1>4. t[(i - 1) + 1] = s[i - 1] /\ t[(j - 1) + 1] = s[j - 1]
    BY <1>2 DEF Headed
  <1>5. (i - 1) + 1 = i /\ (j - 1) + 1 = j /\ i - 1 < j - 1
    BY <1>2
  <1>6. i - 1 \in DOMAIN s /\ j - 1 \in DOMAIN s
    BY <1>2 DEF Headed
  <1> QED
    BY <1>3, <1>4, <1>5, <1>6 DEF Linked

LEMMA LastHead ==
    ASSUME NEW s, NEW t, NEW p, Headed(s, t, p), NEW X, NEW P, p \notin X, LastIn(s, X, P)
    PROVE  LastIn(t, X, P)
  <1> SUFFICES ASSUME NEW i \in DOMAIN t, t[i] \in X, \A k \in i + 1 .. Len(t) : t[k] \notin X
               PROVE  t[i] \in P
    BY DEF LastIn
  <1>1. i # 1
    BY DEF Headed
  <1>2. i - 1 \in 1 .. Len(s) /\ Len(s) \in Nat /\ i \in Nat
    BY <1>1 DEF Headed
  <1>3. ASSUME NEW k \in (i - 1) + 1 .. Len(s)
        PROVE  s[k] \notin X
    <2>1. k + 1 \in i + 1 .. Len(t) /\ k \in 1 .. Len(s)
      BY <1>2 DEF Headed
    <2> QED
      BY <2>1 DEF Headed
  <1>4. t[(i - 1) + 1] = s[i - 1] /\ (i - 1) + 1 = i /\ i - 1 \in DOMAIN s
    BY <1>2 DEF Headed
  <1> QED
    BY <1>3, <1>4 DEF LastIn

LEMMA LastWeaker ==
    ASSUME NEW s, NEW X, NEW P, NEW Q, P \subseteq Q, LastIn(s, X, P)
    PROVE  LastIn(s, X, Q)
  BY DEF LastIn

LEMMA NothingLinked ==
    ASSUME NEW s, DOMAIN s = {}, NEW X, NEW R, NEW P
    PROVE  Linked(s, X, R) /\ LastIn(s, X, P)
  BY DEF Linked, LastIn

-----------------------------------------------------------------------------
(* Arithmetic of the stamps.                                               *)

LEMMA ModOf ==
    ASSUME NEW W \in Nat, W > 0, NEW x \in Int, NEW k \in Int, NEW y \in Int,
           x = y + W * k, 0 <= y, y < W
    PROVE  x % W = y
  <1>1. PICK q \in Int : q = x \div W
    OBVIOUS
  <1>2. x = W * q + (x % W) /\ x % W \in Int /\ 0 <= x % W /\ x % W < W
    BY <1>1, Z3
  <1>3. PICK m \in Int : m = x % W
    BY <1>2
  <1>4. W * (q - k) = y - m
    <2>1. W * (q - k) = W * q - W * k
      BY Z3
    <2> QED
      BY <1>2, <1>3, <2>1
  <1>5. q - k = 0
    <2>1. CASE q - k >= 1
      <3>1. W * (q - k) >= W
        BY <2>1, Z3
      <3> QED
        BY <1>2, <1>3, <1>4, <3>1
    <2>2. CASE q - k <= -1
      <3>1. W * (q - k) <= -W
        BY <2>2, Z3
      <3> QED
        BY <1>2, <1>3, <1>4, <3>1
    <2> QED
      BY <2>1, <2>2
  <1>6. W * (q - k) = 0
    BY <1>5
  <1> QED
    BY <1>2, <1>3, <1>4, <1>6

LEMMA ModParts ==
    ASSUME NEW W \in Nat, W > 0, NEW x \in Nat
    PROVE  \E k \in Nat : x = (x % W) + W * k /\ x % W \in Nat /\ x % W < W
  <1>1. PICK q \in Int : q = x \div W
    OBVIOUS
  <1>2. x = W * q + (x % W) /\ x % W \in Nat /\ x % W < W
    BY <1>1, Z3
  <1>3. q >= 0
    <2>1. CASE q <= -1
      <3>1. W * q <= -W
        BY <2>1, Z3
      <3> QED
        BY <1>2, <3>1
    <2> QED
      BY <2>1
  <1> QED
    BY <1>2, <1>3

\* Two stamps less than a wrap apart tell how far.
LEMMA StampsApart ==
    ASSUME NEW W \in Nat, W > 0, NEW a \in Nat, NEW b \in Nat, a <= b, b - a < W
    PROVE  ((b % W) - (a % W)) % W = b - a
  <1>1. PICK j \in Nat : a = (a % W) + W * j /\ a % W \in Nat /\ a % W < W
    BY ModParts
  <1>2. PICK k \in Nat : b = (b % W) + W * k /\ b % W \in Nat /\ b % W < W
    BY ModParts
  <1>3. PICK x \in Int : x = (b % W) - (a % W)
    BY <1>1, <1>2
  <1>4. W * (j - k) = W * j - W * k
    BY Z3
  <1>5. x = (b - a) + W * (j - k)
    BY <1>1, <1>2, <1>3, <1>4
  <1>6. x % W = b - a
    BY <1>5, ModOf
  <1> QED
    BY <1>3, <1>6

-----------------------------------------------------------------------------
(* The sums the code keeps while it walks a sequence.                      *)

\* f adds up the steps b, and begins with a wherever it begins anew.
SumFn(f, lo, n, B, a, b) == f = [i \in lo .. n |-> IF i \in B THEN a[i] ELSE f[i - 1] + b[i]]

LEMMA SumExists ==
    ASSUME NEW lo \in Nat, NEW n \in Nat, NEW B, lo \in B, NEW a, NEW b
    PROVE  \E f : SumFn(f, lo, n, B, a, b)
  <1> DEFINE Bad == {m \in Nat : ~ \E f : SumFn(f, lo, m, B, a, b)}
  <1> SUFFICES ASSUME Bad # {} PROVE FALSE
    OBVIOUS
  <1>a. Bad \subseteq Nat
    OBVIOUS
  <1> HIDE DEF Bad
  <1>1. PICK m : m = Min(Bad)
    OBVIOUS
  <1>b. m \in Bad /\ \A u \in Bad : m <= u
    BY <1>1, <1>a, LeastOf
  <1> USE DEF Bad
  <1>c. m \in Nat
    BY <1>b
  <1>2. CASE m < lo
    <2>1. lo .. m = {}
      BY <1>2, <1>b
    <2>2. PICK f : f = [i \in lo .. m |-> a[i]]
      OBVIOUS
    <2>3. SumFn(f, lo, m, B, a, b)
      BY <2>1, <2>2 DEF SumFn
    <2> QED
      BY <1>b, <2>3
  <1>3. CASE m = lo
    <2>1. PICK f : f = [i \in lo .. m |-> a[i]]
      OBVIOUS
    <2>2. \A i \in lo .. m : i = lo
      BY <1>3, <1>b
    <2>3. SumFn(f, lo, m, B, a, b)
      BY <2>1, <2>2 DEF SumFn
    <2> QED
      BY <1>b, <2>3
  <1>4. CASE m > lo
    <2>1. m - 1 \in Nat /\ m - 1 \notin Bad
      BY <1>b, <1>4
    <2>2. PICK f : SumFn(f, lo, m - 1, B, a, b)
      BY <2>1
    <2>3. PICK g : g = [i \in lo .. m |-> IF i < m THEN f[i] ELSE IF m \in B THEN a[m] ELSE f[m - 1] + b[m]]
      OBVIOUS
    <2>4. \A i \in lo .. m - 1 : f[i] = IF i \in B THEN a[i] ELSE f[i - 1] + b[i]
      BY <2>2 DEF SumFn
    <2>5. \A i \in lo .. m - 1 : g[i] = f[i]
      BY <1>c, <2>1, <2>3
    <2>6. ASSUME NEW i \in lo .. m
          PROVE  g[i] = IF i \in B THEN a[i] ELSE g[i - 1] + b[i]
      <3>1. CASE i = m
        <4>1. g[m] = IF m \in B THEN a[m] ELSE f[m - 1] + b[m]
          BY <1>4, <1>c, <2>3
        <4>2. g[m - 1] = f[m - 1]
          BY <1>4, <1>c, <2>1, <2>5
        <4> QED
          BY <3>1, <4>1, <4>2
      <3>2. CASE i < m
        <4>1. i \in lo .. m - 1 /\ (i # lo => i - 1 \in lo .. m - 1)
          BY <1>c, <3>2, <2>1
        <4> QED
          BY <3>2, <4>1, <2>3, <2>4, <2>5
      <3> QED
        BY <1>c, <3>1, <3>2, <2>1
    <2>7. SumFn(g, lo, m, B, a, b)
      BY <2>3, <2>6 DEF SumFn
    <2> QED
      BY <1>b, <2>7
  <1> QED
    BY <1>c, <1>2, <1>3, <1>4

\* The sizes of the records, added up.
SizeFn(f, recs, n) == f = [i \in 0 .. n |-> IF i = 0 THEN 0 ELSE f[i - 1] + RecLen(recs[i])]

LEMMA BytesAre ==
    ASSUME NEW recs, Len(recs) \in Nat
    PROVE  \E f : SizeFn(f, recs, Len(recs)) /\ Bytes(recs) = f[Len(recs)]
  <1> DEFINE n == Len(recs)
             b == [i \in 0 .. n |-> RecLen(recs[i])]
             a == [i \in 0 .. n |-> 0]
  <1>1. PICK f : SumFn(f, 0, n, {0}, a, b)
    <2>1. 0 \in {0}
      OBVIOUS
    <2> HIDE DEF a, b
    <2> QED
      BY <2>1, SumExists
  <1>2. SizeFn(f, recs, n)
    BY <1>1 DEF SumFn, SizeFn
  <1>3. PICK c : c = CHOOSE g : SizeFn(g, recs, n)
    OBVIOUS
  <1>4. SizeFn(c, recs, n)
    BY <1>2, <1>3
  <1>5. Bytes(recs) = c[n]
    BY <1>3 DEF Bytes, SizeFn
  <1> QED
    BY <1>4, <1>5

LEMMA RecLenOf ==
    ASSUME NEW r \in Records
    PROVE  RecLen(r) \in Nat /\ (r \in Event => RecLen(r) <= 14)
  BY WindowAssumption DEF RecLen, Records, Event, Markers, Heartbeats, Provenances, Triggers

\* More records take no less.
LEMMA BytesGrow ==
    ASSUME NEW s \in Seq(Records), NEW t \in Seq(Records), Part(t, s, 0)
    PROVE  Bytes(s) \in Nat /\ Bytes(s) <= Bytes(t)
  <1>1. PICK m : m = Len(s)
    OBVIOUS
  <1>2. PICK n : n = Len(t)
    OBVIOUS
  <1>3. m \in Nat /\ n \in Nat /\ m <= n
    BY <1>1, <1>2 DEF Part
  <1>4. PICK f : SizeFn(f, s, m) /\ Bytes(s) = f[m]
    BY <1>1, <1>3, BytesAre
  <1>5. PICK g : SizeFn(g, t, n) /\ Bytes(t) = g[n]
    BY <1>2, <1>3, BytesAre
  <1>6. \A i \in 0 .. m : f[i] = IF i = 0 THEN 0 ELSE f[i - 1] + RecLen(s[i])
    BY <1>4 DEF SizeFn
  <1>7. \A i \in 0 .. n : g[i] = IF i = 0 THEN 0 ELSE g[i - 1] + RecLen(t[i])
    BY <1>5 DEF SizeFn
  <1>8. \A i \in 1 .. n : RecLen(t[i]) \in Nat
    <2> SUFFICES ASSUME NEW i \in 1 .. n PROVE RecLen(t[i]) \in Nat
      OBVIOUS
    <2>1. t[i] \in Records
      BY <1>2
    <2> QED
      BY <2>1, RecLenOf
  <1>9. \A i \in 1 .. m : s[i] = t[i]
    BY <1>1, <1>3 DEF Part
  <1> DEFINE Good(i) == g[i] \in Nat /\ (i <= m => f[i] = g[i]) /\ (i >= m => f[m] <= g[i])
             Bad == {i \in 0 .. n : ~Good(i)}
  <1>10. Bad = {}
    <2> SUFFICES ASSUME Bad # {} PROVE FALSE
      OBVIOUS
    <2>1. Bad \subseteq Nat
      OBVIOUS
    <2> HIDE DEF Bad
    <2>2. PICK i : i = Min(Bad)
      OBVIOUS
    <2>3. i \in Bad /\ \A u \in Bad : i <= u
      BY <2>1, <2>2, LeastOf
    <2> USE DEF Bad
    <2>4. i \in 0 .. n /\ ~Good(i)
      BY <2>3
    <2>5. CASE i = 0
      <3>1. g[0] = 0 /\ f[0] = 0
        BY <1>3, <1>6, <1>7
      <3> QED
        BY <1>3, <2>4, <2>5, <3>1
    <2>6. CASE i # 0
      <3>1. i - 1 \in 0 .. n /\ i \in 1 .. n
        BY <1>3, <2>4, <2>6
      <3>2. Good(i - 1)
        BY <2>3, <3>1
      <3>3. g[i] = g[i - 1] + RecLen(t[i]) /\ RecLen(t[i]) \in Nat
        BY <1>7, <1>8, <3>1, <2>4, <2>6
      <3>4. i <= m => f[i] = f[i - 1] + RecLen(s[i]) /\ s[i] = t[i]
        BY <1>6, <1>9, <3>1, <2>6
      <3>5. i <= m => f[i] = g[i]
        BY <3>1, <3>2, <3>3, <3>4, <1>3
      <3>6. g[i] \in Nat
        BY <3>2, <3>3
      <3>7. i >= m => f[m] <= g[i]
        <4>1. CASE i = m
          BY <4>1, <3>5, <3>6, <1>3
        <4>2. CASE i > m
          <5>1. f[m] <= g[i - 1]
            BY <4>2, <3>1, <3>2, <1>3
          <5>2. f[m] = g[m] /\ g[m] \in Nat
            <6>1. m \in 0 .. n /\ m \notin Bad
              BY <1>3, <2>3, <2>4, <4>2
            <6> QED
              BY <6>1, <1>3
          <5> QED
            BY <5>1, <5>2, <3>2, <3>3
        <4> QED
          BY <4>1, <4>2, <1>3, <3>1
      <3> QED
        BY <2>4, <3>5, <3>6, <3>7
    <2> QED
      BY <2>5, <2>6
  <1>11. m \in 0 .. n /\ n \in 0 .. n
    BY <1>3
  <1>12. Good(m) /\ Good(n)
    BY <1>10, <1>11
  <1> QED
    BY <1>3, <1>4, <1>5, <1>12

LEMMA BytesOf ==
    ASSUME NEW s \in Seq(Records)
    PROVE  Bytes(s) \in Nat
  <1>1. Part(s, s, 0)
    BY DEF Part
  <1> QED
    BY <1>1, BytesGrow

LEMMA BytesNone == Bytes(<<>>) = 0
  <1>1. PICK s : s = <<>>
    OBVIOUS
  <1>2. Len(s) = 0
    BY <1>1
  <1>3. PICK f : SizeFn(f, s, 0) /\ Bytes(s) = f[0]
    BY <1>2, BytesAre
  <1> QED
    BY <1>1, <1>3 DEF SizeFn

-----------------------------------------------------------------------------
(* Records in the order of their times.                                    *)

LEMMA Neighbours ==
    ASSUME NEW s, NEW X, NEW R, Linked(s, X, R), NEW i \in Nat,
           i \in DOMAIN s, i + 1 \in DOMAIN s, s[i] \in X, s[i + 1] \in X
    PROVE  <<s[i], s[i + 1]>> \in R
  <1>1. i < i + 1 /\ \A k \in i + 1 .. (i + 1) - 1 : s[k] \notin X
    OBVIOUS
  <1> QED
    BY <1>1 DEF Linked

\* From lo on s is of one segment.
Segmented(s, lo) ==
    /\ lo \in Nat \ {0} /\ Len(s) \in Nat /\ DOMAIN s = 1 .. Len(s)
    /\ \A i \in lo .. Len(s) : s[i] \in Timed
    /\ Linked(s, Timed, TimedPairs)

LEMMA RecordTimes ==
    ASSUME NEW r \in Records
    PROVE  r.at \in Nat /\ r.ts = r.at % Wrap
  BY DEF Records, Event, Markers, Heartbeats, Provenances, Triggers, Stamped

LEMMA NextTime ==
    ASSUME NEW s, NEW lo, Segmented(s, lo), NEW i \in Nat, lo <= i, i + 1 <= Len(s)
    PROVE  /\ s[i].at \in Nat /\ s[i + 1].at \in Nat
           /\ s[i].at <= s[i + 1].at /\ s[i + 1].at - s[i].at <= HbPeriod
  <1>1. i \in lo .. Len(s) /\ i + 1 \in lo .. Len(s) /\ i \in DOMAIN s /\ i + 1 \in DOMAIN s
    BY DEF Segmented
  <1>2. s[i] \in Timed /\ s[i + 1] \in Timed
    BY <1>1 DEF Segmented
  <1>3. Linked(s, Timed, TimedPairs)
    BY DEF Segmented
  <1>4. <<s[i], s[i + 1]>> \in TimedPairs
    BY <1>1, <1>2, <1>3, Neighbours
  <1>5. s[i].at \in Nat /\ s[i + 1].at \in Nat
    BY <1>2, RecordTimes DEF Timed
  <1> QED
    BY <1>4, <1>5 DEF TimedPairs

LEMMA TimesRise ==
    ASSUME NEW s, NEW lo, Segmented(s, lo), NEW i \in lo .. Len(s), NEW j \in lo .. Len(s), i <= j
    PROVE  s[i].at <= s[j].at
  <1>1. \A k \in lo .. Len(s) : s[k].at \in Nat
    BY RecordTimes DEF Segmented, Timed
  <1>2. lo \in Nat /\ Len(s) \in Nat
    BY DEF Segmented
  <1> DEFINE Bad == {k \in i .. Len(s) : s[i].at > s[k].at}
  <1>3. Bad = {}
    <2> SUFFICES ASSUME Bad # {} PROVE FALSE
      OBVIOUS
    <2>1. \A k \in Bad : k \in Nat
      BY <1>2
    <2> HIDE DEF Bad
    <2>2. PICK k : k = Min(Bad)
      OBVIOUS
    <2>3. k \in Bad /\ \A u \in Bad : k <= u
      <3>1. Bad \subseteq Nat
        BY <2>1
      <3> QED
        BY <2>2, <3>1, LeastOf
    <2> USE DEF Bad
    <2>4. k \in i .. Len(s) /\ k # i /\ s[i].at > s[k].at
      BY <1>1, <2>3
    <2>5. k - 1 \in i .. Len(s) /\ k - 1 \notin Bad
      BY <1>2, <2>3, <2>4
    <2>6. s[i].at <= s[k - 1].at
      BY <1>1, <1>2, <2>5
    <2>7. k - 1 \in Nat /\ lo <= k - 1 /\ (k - 1) + 1 <= Len(s) /\ (k - 1) + 1 = k
      BY <1>2, <2>4
    <2>8. s[k - 1].at <= s[(k - 1) + 1].at
      BY <2>7, NextTime
    <2>9. s[k - 1].at \in Nat /\ s[k].at \in Nat /\ s[i].at \in Nat
      BY <1>1, <1>2, <2>4, <2>7
    <2> QED
      BY <2>4, <2>6, <2>7, <2>8, <2>9
  <1>4. j \in i .. Len(s)
    BY <1>2
  <1>5. s[i].at \in Nat /\ s[j].at \in Nat
    BY <1>1
  <1> QED
    BY <1>3, <1>4, <1>5

\* A sum of the differences is the difference.
SumsUp(f, h, lo, n, c) ==
    /\ lo \in Nat /\ n \in Nat /\ c \in Int
    /\ \A i \in lo .. n : h[i] \in Int
    /\ lo <= n => f[lo] = c
    /\ \A i \in lo + 1 .. n : f[i] = f[i - 1] + (h[i] - h[i - 1])

LEMMA SumOfDifferences ==
    ASSUME NEW f, NEW h, NEW lo, NEW n, NEW c, SumsUp(f, h, lo, n, c)
    PROVE  \A i \in lo .. n : f[i] = c + (h[i] - h[lo])
  <1>0. /\ lo \in Nat /\ n \in Nat /\ c \in Int
        /\ \A i \in lo .. n : h[i] \in Int
        /\ lo <= n => f[lo] = c
        /\ \A i \in lo + 1 .. n : f[i] = f[i - 1] + (h[i] - h[i - 1])
    BY DEF SumsUp
  <1> DEFINE Bad == {i \in lo .. n : f[i] # c + (h[i] - h[lo])}
  <1> SUFFICES ASSUME Bad # {} PROVE FALSE
    OBVIOUS
  <1>1. Bad \subseteq Nat
    BY <1>0
  <1> HIDE DEF Bad
  <1>2. PICK k : k = Min(Bad)
    OBVIOUS
  <1>3. k \in Bad /\ \A u \in Bad : k <= u
    BY <1>1, <1>2, LeastOf
  <1> USE DEF Bad
  <1>4. k \in lo .. n /\ f[k] # c + (h[k] - h[lo])
    BY <1>3
  <1>5. k # lo
    BY <1>0, <1>4
  <1>6. k \in lo + 1 .. n /\ k - 1 \in lo .. n /\ lo \in lo .. n
    BY <1>0, <1>4, <1>5
  <1>7. k - 1 \notin Bad
    BY <1>0, <1>3, <1>6
  <1>8. f[k - 1] = c + (h[k - 1] - h[lo])
    BY <1>6, <1>7
  <1>9. f[k] = f[k - 1] + (h[k] - h[k - 1])
    BY <1>0, <1>6
  <1>10. h[k] \in Int /\ h[k - 1] \in Int /\ h[lo] \in Int
    BY <1>0, <1>4, <1>6
  <1> QED
    BY <1>0, <1>4, <1>8, <1>9, <1>10

-----------------------------------------------------------------------------
(* The trigger: what it makes of the ring.                                 *)

RelFn(f, recs) ==
    f = [i \in DOMAIN recs |-> IF i = 1 THEN 0 ELSE f[i - 1] + ((recs[i].ts - recs[i - 1].ts) % Wrap)]

LEMMA RelAre ==
    ASSUME NEW recs, Len(recs) \in Nat, DOMAIN recs = 1 .. Len(recs)
    PROVE  RelFn(RelTimes(recs), recs)
  <1> DEFINE n == Len(recs)
             b == [i \in 1 .. n |-> (recs[i].ts - recs[i - 1].ts) % Wrap]
             a == [i \in 1 .. n |-> 0]
  <1>1. PICK f : SumFn(f, 1, n, {1}, a, b)
    <2>1. 1 \in {1}
      OBVIOUS
    <2> HIDE DEF a, b
    <2> QED
      BY <2>1, SumExists
  <1>2. RelFn(f, recs)
    BY <1>1 DEF SumFn, RelFn
  <1>3. RelTimes(recs) = CHOOSE g : RelFn(g, recs)
    BY DEF RelTimes, RelFn
  <1> QED
    BY <1>2, <1>3

\* The times the trigger computes from the stamps are the records' ages.
LEMMA RelTrue ==
    ASSUME NEW s \in Seq(Records), Segmented(s, 1), NEW i \in 1 .. Len(s)
    PROVE  RelTimes(s)[i] = s[i].at - s[1].at
  <1>1. PICK f : f = RelTimes(s)
    OBVIOUS
  <1>2. PICK n : n = Len(s)
    OBVIOUS
  <1>3. n \in Nat /\ DOMAIN s = 1 .. n /\ 1 <= n
    BY <1>2
  <1>4. RelFn(f, s)
    BY <1>1, <1>2, <1>3, RelAre
  <1>5. \A k \in 1 .. n : f[k] = IF k = 1 THEN 0 ELSE f[k - 1] + ((s[k].ts - s[k - 1].ts) % Wrap)
    BY <1>3, <1>4 DEF RelFn
  <1>6. PICK h : h = [k \in 1 .. n |-> s[k].at]
    OBVIOUS
  <1>7. \A k \in 1 .. n : s[k] \in Records
    BY <1>3
  <1>8. \A k \in 1 .. n : h[k] = s[k].at /\ h[k] \in Nat /\ s[k].ts = h[k] % Wrap
    BY <1>6, <1>7, RecordTimes
  <1>9. ASSUME NEW k \in 1 + 1 .. n
        PROVE  f[k] = f[k - 1] + (h[k] - h[k - 1])
    <2>1. k \in 1 .. n /\ k # 1 /\ k - 1 \in 1 .. n /\ k - 1 \in Nat /\ 1 <= k - 1 /\ (k - 1) + 1 = k
      BY <1>3
    <2>2. h[k - 1] <= h[k] /\ h[k] - h[k - 1] <= HbPeriod
      <3>1. PICK j : j = k - 1
        OBVIOUS
      <3>2. j \in Nat /\ 1 <= j /\ j + 1 <= Len(s) /\ j + 1 = k
        BY <1>2, <1>3, <2>1, <3>1
      <3>3. s[j].at <= s[j + 1].at /\ s[j + 1].at - s[j].at <= HbPeriod
        BY <3>2, NextTime
      <3> QED
        BY <1>8, <2>1, <3>1, <3>2, <3>3
    <2>3. h[k] \in Nat /\ h[k - 1] \in Nat
      BY <1>8, <2>1
    <2>4. HbPeriod < Wrap /\ Wrap \in Nat /\ Wrap > 0 /\ HbPeriod \in Nat
      BY WindowAssumption
    <2>5. h[k] - h[k - 1] < Wrap
      BY <2>2, <2>3, <2>4
    <2>6. ((h[k] % Wrap) - (h[k - 1] % Wrap)) % Wrap = h[k] - h[k - 1]
      BY <2>2, <2>3, <2>4, <2>5, StampsApart
    <2>7. s[k].ts = h[k] % Wrap /\ s[k - 1].ts = h[k - 1] % Wrap
      BY <1>8, <2>1
    <2> QED
      BY <1>5, <2>1, <2>6, <2>7
  <1>10. f[1] = 0
    BY <1>3, <1>5
  <1>11. \A k \in 1 .. n : h[k] \in Int
    BY <1>8
  <1>12. \A k \in 1 .. n : f[k] = 0 + (h[k] - h[1])
    <2>1. \A k \in 1 + 1 .. n : f[k] = f[k - 1] + (h[k] - h[k - 1])
      BY <1>9
    <2>2. 1 \in Nat /\ 0 \in Int /\ (1 <= n => f[1] = 0)
      BY <1>10
    <2>3. SumsUp(f, h, 1, n, 0)
      BY <1>3, <1>11, <2>1, <2>2 DEF SumsUp
    <2> QED
      BY <2>3, SumOfDifferences
  <1>13. i \in 1 .. n /\ 1 \in 1 .. n
    BY <1>2, <1>3
  <1>14. f[i] = 0 + (h[i] - h[1]) /\ h[i] = s[i].at /\ h[1] = s[1].at /\ h[i] \in Nat /\ h[1] \in Nat
    BY <1>8, <1>12, <1>13
  <1> QED
    BY <1>1, <1>14

LEMMA Kinds ==
    ASSUME NEW r \in Records
    PROVE  /\ r \in Event => r \in Timed /\ r \notin Provenances /\ r \notin Triggers /\ r.kind \in Events
           /\ r \in Triggers => /\ r \in Timed /\ r \notin Event /\ r \notin OfPath /\ r \notin Provenances
                                /\ r.kind = "trigger"
           /\ r \in Provenances => /\ r \notin Event /\ r \notin OfPath /\ r \notin Triggers
                                   /\ r.kind = "provenance" /\ (r \in Timed <=> ~r.windowed)
           /\ r \in OfPath => r \in Event
           /\ r \in Heartbeats <=> r.kind = "heartbeat"
           /\ r \in Markers <=> r.kind = "marker"
  BY DEF Records, Event, Timed, Opens, OfPath, Markers, Heartbeats, Provenances, Triggers, Events

\* What a half has of a set of positions that ends with the sequence.
FromIn(s, I, lo, hi) ==
    LET in == {i \in lo .. hi : i \in I} IN IF in = {} THEN <<>> ELSE SubSeq(s, Min(in), hi)

EndsFrom(I, k, n) == \A i \in 1 .. n : i \in I <=> i >= k

StartsAt(first, k, lo, hi, n) ==
    /\ k \in Nat /\ lo \in Nat /\ hi \in Nat /\ first \in Nat
    /\ 1 <= lo /\ hi <= n /\ first = IF lo >= k THEN lo ELSE k
Copies(f, s, first, hi) ==
    /\ f \in Seq(Event)
    /\ Len(f) = IF first <= hi THEN (hi - first) + 1 ELSE 0
    /\ \A i \in 1 .. Len(f) : f[i] = s[(first - 1) + i]

LEMMA FromOf ==
    ASSUME NEW s \in Seq(Event), NEW I, NEW k, NEW lo, NEW hi, NEW first, NEW n, n = Len(s),
           EndsFrom(I, k, n), StartsAt(first, k, lo, hi, n)
    PROVE  Copies(FromIn(s, I, lo, hi), s, first, hi)
  <1>0. PICK f : f = FromIn(s, I, lo, hi)
    OBVIOUS
  <1>a. /\ k \in Nat /\ lo \in Nat /\ hi \in Nat /\ first \in Nat
        /\ 1 <= lo /\ hi <= Len(s) /\ first = IF lo >= k THEN lo ELSE k
    BY DEF StartsAt
  <1> DEFINE in == {i \in lo .. hi : i \in I}
  <1>1. \A i \in lo .. hi : i \in in <=> i >= first
    BY <1>a DEF EndsFrom
  <1>2. \A i \in in : i \in lo .. hi /\ i \in Nat
    BY <1>a
  <1>3. f = IF in = {} THEN <<>> ELSE SubSeq(s, Min(in), hi)
    BY <1>0 DEF FromIn
  <1> HIDE DEF in
  <1>4. CASE first > hi
    <2>1. in = {}
      BY <1>a, <1>1, <1>2, <1>4
    <2>2. f = <<>>
      BY <1>3, <2>1
    <2>3. f \in Seq(Event) /\ Len(f) = 0
      BY <2>2
    <2> QED
      BY <1>a, <1>0, <1>4, <2>2, <2>3 DEF Copies
  <1>5. CASE first <= hi
    <2>1. first \in lo .. hi
      BY <1>a, <1>5
    <2>2. first \in in /\ \A i \in in : first <= i
      BY <1>a, <1>1, <1>2, <2>1
    <2>3. Min(in) = first
      <3>1. in \subseteq Nat /\ in # {}
        BY <1>2, <2>2
      <3>2. Min(in) \in in /\ \A j \in in : Min(in) <= j
        BY <3>1, LeastOf
      <3>3. Min(in) <= first /\ first <= Min(in) /\ Min(in) \in Nat
        BY <1>a, <1>2, <2>2, <3>2
      <3> QED
        BY <1>a, <3>3
    <2>4. f = SubSeq(s, first, hi)
      BY <1>3, <2>2, <2>3
    <2>5. 1 <= first /\ first <= hi /\ hi <= Len(s)
      BY <1>a, <2>1
    <2>6. SubSeq(s, first, hi) \in Seq(Event) /\ Len(SubSeq(s, first, hi)) = (hi - first) + 1
      BY <1>a, <2>5
    <2>7. \A i \in 1 .. (hi - first) + 1 : SubSeq(s, first, hi)[i] = s[(first - 1) + i]
      BY <1>a, <2>5
    <2> QED
      BY <1>0, <1>5, <2>4, <2>6, <2>7 DEF Copies
  <1> QED
    BY <1>a, <1>4, <1>5

LEMMA RingIs ==
    ASSUME WindowTypes, NEW all, all = AllOfRing
    PROVE  /\ all \in Seq(Event) /\ all \in Seq(Records)
           /\ Len(ring.old) \in Nat /\ Len(all) \in Nat /\ Len(ring.old) <= Len(all)
           /\ Len(all) = Len(ring.old) + Len(ring.cur)
           /\ \A i \in 1 .. Len(ring.old) : all[i] = ring.old[i]
           /\ \A i \in 1 .. Len(ring.cur) : all[i + Len(ring.old)] = ring.cur[i]
  <1>1. ring.old \in Seq(Event) /\ ring.cur \in Seq(Event)
    BY DEF WindowTypes
  <1>2. all = ring.old \o ring.cur
    BY DEF AllOfRing
  <1>3. all \in Seq(Event) /\ Len(all) = Len(ring.old) + Len(ring.cur)
    BY <1>1, <1>2
  <1>4. Event \subseteq Records
    BY DEF Records
  <1>5. all \in Seq(Records)
    BY <1>3, <1>4, SeqGrows
  <1>6. PICK a : a = ring.old
    OBVIOUS
  <1>7. PICK c : c = ring.cur
    OBVIOUS
  <1>8. a \in Seq(Event) /\ c \in Seq(Event) /\ all = a \o c
    BY <1>1, <1>2, <1>6, <1>7
  <1>9. \A i \in 1 .. Len(a) : all[i] = a[i]
    BY <1>8
  <1>10. \A i \in 1 .. Len(c) : all[i + Len(a)] = c[i]
    <2> SUFFICES ASSUME NEW i \in 1 .. Len(c)
                 PROVE  all[i + Len(a)] = c[i]
      OBVIOUS
    <2>1. i + Len(a) \in 1 .. Len(a) + Len(c) /\ ~(i + Len(a) <= Len(a)) /\ (i + Len(a)) - Len(a) = i
      BY <1>8
    <2> QED
      BY <1>8, <2>1
  <1>11. Len(a) \in Nat /\ Len(c) \in Nat /\ Len(all) = Len(a) + Len(c) /\ Len(a) <= Len(all)
    BY <1>8
  <1>12. Len(all) \in Nat
    BY <1>11
  <1> QED
    BY <1>3, <1>5, <1>6, <1>7, <1>9, <1>10, <1>11, <1>12

LEMMA RingSegment ==
    ASSUME WindowTypes, RingSound, NEW all, all = AllOfRing
    PROVE  /\ Segmented(all, 1)
           /\ all # <<>> => /\ all[Len(all)].at <= now /\ now - all[Len(all)].at <= HbPeriod
                            /\ all[Len(all)].n = emitted /\ all[Len(all)].at = lastAt
  <1>1. all \in Seq(Event) /\ all \in Seq(Records) /\ Len(all) \in Nat
    BY RingIs
  <1>2. \A i \in 1 .. Len(all) : all[i] \in Event /\ all[i] \in Timed
    <2> SUFFICES ASSUME NEW i \in 1 .. Len(all)
                 PROVE  all[i] \in Event /\ all[i] \in Timed
      OBVIOUS
    <2>1. all[i] \in Event /\ all[i] \in Records
      BY <1>1
    <2> QED
      BY <2>1, Kinds
  <1>3. Linked(all, Timed, TimedPairs)
    BY DEF RingSound, Stream
  <1>4. Segmented(all, 1)
    BY <1>1, <1>2, <1>3 DEF Segmented
  <1>5. ASSUME all # <<>>
        PROVE  all[Len(all)] \in LastTimed /\ all[Len(all)] \in LastEvent
    <2>1. Len(all) \in 1 .. Len(all) /\ Len(all) \in DOMAIN all /\ Len(all) + 1 .. Len(all) = {}
      BY <1>1, <1>5
    <2>2. LastIn(all, Event, LastEvent) /\ LastIn(all, Timed, LastTimed)
      BY DEF RingSound, Live, LiveAs
    <2>3. all[Len(all)] \in Event /\ all[Len(all)] \in Timed
      BY <1>2, <2>1
    <2> QED
      BY <2>1, <2>2, <2>3 DEF LastIn
  <1>6. ASSUME all # <<>>
        PROVE  all[Len(all)].at \in Nat
    <2>1. Len(all) \in 1 .. Len(all)
      BY <1>1, <1>6
    <2>2. all[Len(all)] \in Records
      BY <1>1, <2>1
    <2> QED
      BY <2>2, RecordTimes
  <1>7. now \in Nat /\ nextBeat \in Nat /\ now <= nextBeat /\ HbPeriod \in Nat
    BY WindowAssumption DEF WindowTypes
  <1> QED
    BY <1>4, <1>5, <1>6, <1>7 DEF LastTimed, LastEvent

\* What is flushed is the end of the ring, and all that is within Pre.
LEMMA FlushIs ==
    ASSUME WindowTypes, RingSound, NEW all, all = AllOfRing
    PROVE  \E k \in Nat \ {0} :
              /\ k <= Len(all) + 1
              /\ \A i \in 1 .. Len(all) : i >= k <=> now - all[i].at <= Pre
              /\ flush[1] \in Seq(Event) /\ flush[2] \in Seq(Event)
              /\ Len(flush[1]) + Len(flush[2]) = Len(all) - (k - 1)
              /\ \A i \in 1 .. Len(flush[1]) : flush[1][i] = all[(k - 1) + i]
              /\ \A i \in 1 .. Len(flush[2]) : flush[2][i] = all[(k - 1) + (Len(flush[1]) + i)]
  <1>1. PICK n : n = Len(all)
    OBVIOUS
  <1>2. PICK o : o = Len(ring.old)
    OBVIOUS
  <1>3. all \in Seq(Event) /\ all \in Seq(Records) /\ n \in Nat /\ o \in Nat /\ o <= n
    BY <1>1, <1>2, RingIs
  <1>4. CASE all = <<>>
    <2>1. n = 0
      BY <1>1, <1>4
    <2>2. PICK fl : fl = flush
      OBVIOUS
    <2>3. fl = << <<>>, <<>> >>
      BY <1>4, <2>2 DEF flush, AllOfRing
    <2>4. fl[1] \in Seq(Event) /\ fl[2] \in Seq(Event) /\ Len(fl[1]) = 0 /\ Len(fl[2]) = 0
      BY <2>3
    <2>5. 1 \in Nat \ {0} /\ 1 <= n + 1 /\ n - (1 - 1) = 0 /\ 1 .. n = {} /\ 1 .. 0 = {}
      BY <2>1
    <2> QED
      BY <1>1, <2>1, <2>2, <2>4, <2>5
  <1>5. CASE all # <<>>
    <2>1. n >= 1 /\ n \in 1 .. n /\ 1 \in 1 .. n
      BY <1>1, <1>3, <1>5
    <2>2. Segmented(all, 1) /\ all[n].at <= now /\ now - all[n].at <= HbPeriod
      BY <1>1, <1>5, RingSegment
    <2>3. \A i \in 1 .. n : all[i].at \in Nat /\ all[i].ts = all[i].at % Wrap
      <3> SUFFICES ASSUME NEW i \in 1 .. n
                   PROVE  all[i].at \in Nat /\ all[i].ts = all[i].at % Wrap
        OBVIOUS
      <3>1. all[i] \in Records
        BY <1>1, <1>3
      <3> QED
        BY <3>1, RecordTimes
    <2>4. PICK rel : rel = RelTimes(all)
      OBVIOUS
    <2>5. \A i \in 1 .. n : rel[i] = all[i].at - all[1].at
      BY <1>1, <1>3, <2>2, <2>4, RelTrue
    <2>6. PICK a : a = all[n].at
      OBVIOUS
    <2>7. a \in Nat /\ now \in Nat /\ a <= now /\ now - a < Wrap /\ Wrap \in Nat /\ Wrap > 0
      <3>1. now \in Nat
        BY DEF WindowTypes
      <3>2. HbPeriod \in Nat /\ Wrap \in Nat /\ HbPeriod < Wrap /\ Wrap > 0
        BY WindowAssumption
      <3>3. a \in Nat /\ a <= now /\ now - a <= HbPeriod
        BY <2>1, <2>2, <2>3, <2>6
      <3> QED
        BY <3>1, <3>2, <3>3
    <2>8. (Stamp - all[n].ts) % Wrap = now - a
      <3>1. ((now % Wrap) - (a % Wrap)) % Wrap = now - a
        BY <2>7, StampsApart
      <3> QED
        BY <2>1, <2>3, <2>6, <3>1 DEF Stamp
    <2>9. PICK nowRel : nowRel = rel[n] + ((Stamp - all[n].ts) % Wrap)
      OBVIOUS
    <2>10. nowRel = now - all[1].at
      <3>1. rel[n] = a - all[1].at /\ all[1].at \in Nat
        BY <2>1, <2>3, <2>5, <2>6
      <3> QED
        BY <2>7, <2>8, <2>9, <3>1
    <2>11. \A i \in 1 .. n : (nowRel - rel[i] <= Pre) <=> (now - all[i].at <= Pre)
      <3> SUFFICES ASSUME NEW i \in 1 .. n
                   PROVE  (nowRel - rel[i] <= Pre) <=> (now - all[i].at <= Pre)
        OBVIOUS
      <3>1. rel[i] = all[i].at - all[1].at /\ all[1].at \in Nat /\ all[i].at \in Nat
        BY <2>1, <2>3, <2>5
      <3>2. nowRel - rel[i] = now - all[i].at
        BY <2>7, <2>10, <3>1
      <3> QED
        BY <3>2
    <2> DEFINE I == {i \in 1 .. n : nowRel - rel[i] <= Pre}
               In(i) == nowRel - rel[i] <= Pre
               From(lo, hi) == LET in == {i \in lo .. hi : In(i)}
                               IN  IF in = {} THEN <<>> ELSE SubSeq(all, Min(in), hi)
    <2>12. flush = <<From(1, o), From(o + 1, n)>>
      BY <1>1, <1>2, <1>5, <2>4, <2>9 DEF flush, AllOfRing
    <2>13. ASSUME NEW lo \in Nat, NEW hi \in Nat, 1 <= lo, hi <= n
           PROVE  From(lo, hi) = FromIn(all, I, lo, hi)
      <3>1. {i \in lo .. hi : In(i)} = {i \in lo .. hi : i \in I}
        <4>1. \A i \in lo .. hi : i \in 1 .. n
          BY <1>3, <2>13
        <4> QED
          BY <4>1
      <3> QED
        BY <3>1 DEF FromIn
    <2>14. flush = <<FromIn(all, I, 1, o), FromIn(all, I, o + 1, n)>>
      <3>a. 1 \in Nat /\ 1 <= 1 /\ o + 1 \in Nat /\ 1 <= o + 1 /\ n <= n
        BY <1>3
      <3> HIDE DEF From, I
      <3>1. From(1, o) = FromIn(all, I, 1, o)
        BY <1>3, <2>13, <3>a
      <3>2. From(o + 1, n) = FromIn(all, I, o + 1, n)
        BY <1>3, <2>13, <3>a
      <3> QED
        BY <2>12, <3>1, <3>2
    <2> HIDE DEF From, In
    <2>15. \A i \in 1 .. n : i \in I <=> now - all[i].at <= Pre
      BY <2>11
    <2>16. \A i \in I : i \in 1 .. n
      OBVIOUS
    <2> HIDE DEF I
    <2>17. PICK k : k = Min(I \union {n + 1})
      OBVIOUS
    <2>18. k \in I \union {n + 1} /\ \A j \in I \union {n + 1} : k <= j
      <3>1. I \union {n + 1} \subseteq Nat /\ I \union {n + 1} # {}
        BY <1>3, <2>16
      <3> QED
        BY <2>17, <3>1, LeastOf
    <2>19. k \in Nat /\ 1 <= k /\ k <= n + 1
      BY <1>3, <2>16, <2>18
    <2>20. \A i \in 1 .. n : i \in I <=> i >= k
      <3> SUFFICES ASSUME NEW i \in 1 .. n
                   PROVE  i \in I <=> i >= k
        OBVIOUS
      <3>1. i \in I => i >= k
        BY <2>18, <2>19
      <3>2. ASSUME i >= k
            PROVE  i \in I
        <4>1. k \in 1 .. n /\ k \in I
          BY <1>3, <2>18, <2>19, <3>2
        <4>2. all[k].at <= all[i].at
          BY <1>1, <2>2, <3>2, <4>1, TimesRise
        <4>3. now - all[k].at <= Pre
          BY <2>15, <4>1
        <4>4. all[k].at \in Nat /\ all[i].at \in Nat /\ Pre \in Nat
          BY <2>3, <4>1, WindowAssumption
        <4>5. now - all[i].at <= Pre
          BY <2>7, <4>2, <4>3, <4>4
        <4> QED
          BY <2>15, <4>5
      <3> QED
        BY <3>1, <3>2
    <2>21. PICK f : f = FromIn(all, I, 1, o)
      OBVIOUS
    <2>22. PICK g : g = FromIn(all, I, o + 1, n)
      OBVIOUS
    <2>23. Copies(f, all, k, o)
      <3>1. StartsAt(k, k, 1, o, n)
        BY <1>3, <2>19 DEF StartsAt
      <3>2. EndsFrom(I, k, n)
        BY <2>20 DEF EndsFrom
      <3>3. Copies(FromIn(all, I, 1, o), all, k, o)
        BY <1>1, <1>3, <3>1, <3>2, FromOf
      <3> QED
        BY <2>21, <3>3
    <2>24. PICK first : first = IF o + 1 >= k THEN o + 1 ELSE k
      OBVIOUS
    <2>25. Copies(g, all, first, n)
      <3>1. StartsAt(first, k, o + 1, n, n)
        BY <1>3, <2>19, <2>24 DEF StartsAt
      <3>2. EndsFrom(I, k, n)
        BY <2>20 DEF EndsFrom
      <3>3. Copies(FromIn(all, I, o + 1, n), all, first, n)
        BY <1>1, <1>3, <3>1, <3>2, FromOf
      <3> QED
        BY <2>22, <3>3
    <2>26. Len(f) + Len(g) = n - (k - 1) /\ (Len(g) > 0 => (first - 1) = (k - 1) + Len(f))
      <3>1. PICK lf : lf = Len(f)
        OBVIOUS
      <3>2. PICK lg : lg = Len(g)
        OBVIOUS
      <3>3. lf = IF k <= o THEN (o - k) + 1 ELSE 0
        BY <2>23, <3>1 DEF Copies
      <3>4. lg = IF first <= n THEN (n - first) + 1 ELSE 0
        BY <2>25, <3>2 DEF Copies
      <3>5. lf + lg = n - (k - 1) /\ (lg > 0 => (first - 1) = (k - 1) + lf)
        BY <1>3, <2>19, <2>24, <3>3, <3>4
      <3> QED
        BY <3>1, <3>2, <3>5
    <2>27. \A i \in 1 .. Len(g) : g[i] = all[(k - 1) + (Len(f) + i)]
      <3> SUFFICES ASSUME NEW i \in 1 .. Len(g)
                   PROVE  g[i] = all[(k - 1) + (Len(f) + i)]
        OBVIOUS
      <3>1. Len(f) \in Nat /\ Len(g) \in Nat /\ i \in Nat /\ i <= Len(g) /\ 1 <= i
        BY <2>23, <2>25 DEF Copies
      <3>2. first \in Int /\ (first - 1) = (k - 1) + Len(f)
        BY <1>3, <2>19, <2>24, <2>26, <3>1
      <3>3. (first - 1) + i = (k - 1) + (Len(f) + i)
        BY <2>19, <3>1, <3>2
      <3> QED
        BY <2>25, <3>3 DEF Copies
    <2>28. flush[1] = f /\ flush[2] = g
      BY <2>14, <2>21, <2>22
    <2>29. \A i \in 1 .. n : i >= k <=> now - all[i].at <= Pre
      BY <2>15, <2>20
    <2>30. k \in Nat \ {0}
      BY <2>19
    <2> QED
      BY <1>1, <2>19, <2>23, <2>25, <2>26, <2>27, <2>28, <2>29, <2>30 DEF Copies
  <1> QED
    BY <1>4, <1>5

Stores1 == [recs : Seq(Records), full : BOOLEAN]

\* A write is whole or ends the recording.
LEMMA WriteIs ==
    ASSUME NEW store \in Stores1, NEW new \in Seq(Records), NEW w, w = ramWrite(store, new)
    PROVE  /\ w \in Stores1
           /\ \/ w.full /\ w.recs = store.recs
              \/ ~store.full /\ ~w.full /\ w.recs = store.recs \o new
  <1>1. w \in Stores1
    BY RamHolds DEF Stores1
  <1>2. CASE store.full \/ Bytes(store.recs) + Bytes(new) > Capacity
    BY <1>1, <1>2 DEF ramWrite, Stores1
  <1>3. CASE ~(store.full \/ Bytes(store.recs) + Bytes(new) > Capacity)
    <2>1. w = [store EXCEPT !.recs = store.recs \o new]
      BY <1>3 DEF ramWrite
    <2>2. w.recs = store.recs \o new /\ w.full = store.full
      BY <2>1 DEF Stores1
    <2> QED
      BY <1>1, <1>3, <2>2
  <1> QED
    BY <1>2, <1>3

LEMMA HeadedBy ==
    ASSUME NEW Z, NEW t \in Seq(Z), NEW p \in Z, NEW s, s = <<p>> \o t
    PROVE  s \in Seq(Z) /\ Headed(t, s, p)
  <1>1. s \in Seq(Z) /\ Len(s) = 1 + Len(t) /\ s[1] = p
    OBVIOUS
  <1>2. ASSUME NEW i \in 1 .. Len(t)
        PROVE  s[i + 1] = t[i]
    <2>1. i + 1 \in 1 .. 1 + Len(t) /\ ~(i + 1 <= 1) /\ (i + 1) - 1 = i
      OBVIOUS
    <2> QED
      BY <2>1
  <1> QED
    BY <1>1, <1>2 DEF Headed

LEMMA EndsEmpty ==
    ASSUME NEW Z, NEW s \in Seq(Z), NEW e, e = <<>>
    PROVE  s \o e = s
  OBVIOUS

LEMMA Regroup ==
    ASSUME NEW Z, NEW a \in Seq(Z), NEW b \in Seq(Z), NEW c \in Seq(Z)
    PROVE  (a \o b) \o c = a \o (b \o c)
  OBVIOUS

LEMMA OneOf ==
    ASSUME NEW Z, NEW s \in Seq(Z), Len(s) = 1
    PROVE  s = <<s[1]>> /\ s[1] \in Z
  OBVIOUS

LEMMA PutIs ==
    ASSUME NEW store \in Stores1, NEW new \in Seq(Records), NEW w,
           w = IF new = <<>> THEN store ELSE ramWrite(store, new)
    PROVE  /\ w \in Stores1
           /\ \/ w.full /\ w.recs = store.recs
              \/ ~store.full /\ ~w.full /\ w.recs = store.recs \o new
  <1>1. CASE new = <<>>
    <2>1. w = store /\ store.recs \in Seq(Records)
      BY <1>1 DEF Stores1
    <2>2. store.recs \o new = store.recs
      BY <1>1, <2>1, EndsEmpty
    <2> QED
      BY <2>1, <2>2
  <1>2. CASE new # <<>>
    BY <1>2, WriteIs
  <1> QED
    BY <1>1, <1>2

\* Both flushed parts together are the end of the ring.
LEMMA FlushJoined ==
    ASSUME WindowTypes, RingSound, NEW all, all = AllOfRing
    PROVE  \E d \in Nat :
              /\ \A i \in 1 .. Len(all) : i > d <=> now - all[i].at <= Pre
              /\ flush[1] \in Seq(Event) /\ flush[2] \in Seq(Event)
              /\ kept = Len(flush[1] \o flush[2]) /\ Len(flush[1] \o flush[2]) + d = Len(all)
              /\ Part(all, flush[1], d) /\ Part(all, flush[1] \o flush[2], d)
  <1>1. PICK k \in Nat \ {0} :
              /\ k <= Len(all) + 1
              /\ \A i \in 1 .. Len(all) : i >= k <=> now - all[i].at <= Pre
              /\ flush[1] \in Seq(Event) /\ flush[2] \in Seq(Event)
              /\ Len(flush[1]) + Len(flush[2]) = Len(all) - (k - 1)
              /\ \A i \in 1 .. Len(flush[1]) : flush[1][i] = all[(k - 1) + i]
              /\ \A i \in 1 .. Len(flush[2]) : flush[2][i] = all[(k - 1) + (Len(flush[1]) + i)]
    BY FlushIs
  <1>2. PICK d : d = k - 1
    OBVIOUS
  <1>3. PICK n : n = Len(all)
    OBVIOUS
  <1>4. PICK f : f = flush[1]
    OBVIOUS
  <1>5. PICK g : g = flush[2]
    OBVIOUS
  <1>6. all \in Seq(Event) /\ n \in Nat
    BY <1>3, RingIs
  <1>7. d \in Nat /\ d <= n /\ k = d + 1
    BY <1>1, <1>2, <1>3, <1>6
  <1>8. f \in Seq(Event) /\ g \in Seq(Event) /\ Len(f) + Len(g) = n - d
    BY <1>1, <1>2, <1>3, <1>4, <1>5
  <1>9. \A i \in 1 .. Len(f) : f[i] = all[i + d]
    <2> SUFFICES ASSUME NEW i \in 1 .. Len(f)
                 PROVE  f[i] = all[i + d]
      OBVIOUS
    <2>1. f[i] = all[d + i]
      BY <1>1, <1>2, <1>4
    <2>2. d + i = i + d
      BY <1>7
    <2> QED
      BY <2>1, <2>2
  <1>10. \A i \in 1 .. Len(g) : g[i] = all[(Len(f) + i) + d]
    <2> SUFFICES ASSUME NEW i \in 1 .. Len(g)
                 PROVE  g[i] = all[(Len(f) + i) + d]
      OBVIOUS
    <2>1. g[i] = all[d + (Len(f) + i)]
      BY <1>1, <1>2, <1>4, <1>5
    <2>2. Len(f) \in Nat /\ i \in Nat
      BY <1>8
    <2>3. d + (Len(f) + i) = (Len(f) + i) + d
      BY <1>7, <2>2
    <2> QED
      BY <2>1, <2>3
  <1>11. PICK t : t = f \o g
    OBVIOUS
  <1>12. t \in Seq(Event) /\ Len(t) = Len(f) + Len(g) /\ Len(f) \in Nat /\ Len(g) \in Nat
    BY <1>8, <1>11
  <1>13. ASSUME NEW i \in 1 .. Len(t)
         PROVE  t[i] = all[i + d]
    <2>1. CASE i <= Len(f)
      <3>1. i \in 1 .. Len(f) /\ t[i] = f[i]
        BY <1>8, <1>11, <1>12, <2>1
      <3> QED
        BY <1>9, <3>1
    <2>2. CASE i > Len(f)
      <3>1. PICK j : j = i - Len(f)
        OBVIOUS
      <3>2. j \in 1 .. Len(g) /\ Len(f) + j = i
        BY <1>12, <2>2, <3>1
      <3>3. i \in 1 .. Len(f) + Len(g) /\ ~(i <= Len(f)) /\ i - Len(f) = j
        BY <1>12, <2>2, <3>1
      <3>4. t[i] = g[j]
        BY <1>8, <1>11, <3>3
      <3> QED
        BY <1>10, <3>2, <3>4
    <2> QED
      BY <1>12, <2>1, <2>2
  <1>14. Part(all, t, d)
    <2>1. Len(t) + d <= Len(all)
      BY <1>3, <1>6, <1>7, <1>8, <1>12
    <2>2. DOMAIN all = 1 .. Len(all) /\ DOMAIN t = 1 .. Len(t) /\ Len(t) \in Nat
      BY <1>6, <1>12
    <2> QED
      BY <1>3, <1>6, <1>7, <1>13, <2>1, <2>2 DEF Part
  <1>15. Part(all, f, d)
    <2>1. Len(f) + d <= Len(all)
      BY <1>3, <1>6, <1>7, <1>8, <1>12
    <2>2. DOMAIN all = 1 .. Len(all) /\ DOMAIN f = 1 .. Len(f)
      BY <1>6, <1>8
    <2> QED
      BY <1>3, <1>6, <1>7, <1>9, <1>12, <2>1, <2>2 DEF Part
  <1>16. kept = Len(t) /\ Len(t) + d = Len(all)
    <2>1. kept = Len(f) + Len(g)
      BY <1>4, <1>5 DEF kept
    <2>2. Len(t) + d = n
      BY <1>6, <1>7, <1>8, <1>12
    <2> QED
      BY <1>3, <1>12, <2>1, <2>2
  <1>17. \A i \in 1 .. Len(all) : i > d <=> now - all[i].at <= Pre
    <2> SUFFICES ASSUME NEW i \in 1 .. Len(all)
                 PROVE  i > d <=> now - all[i].at <= Pre
      OBVIOUS
    <2>1. i >= k <=> now - all[i].at <= Pre
      BY <1>1
    <2>2. i >= k <=> i > d
      BY <1>3, <1>6, <1>7
    <2> QED
      BY <2>1, <2>2
  <1> QED
    BY <1>4, <1>5, <1>7, <1>8, <1>11, <1>14, <1>15, <1>16, <1>17

\* The buffer ends before the trigger, or has it behind all of the flush.
LEMMA FireIs ==
    ASSUME WindowTypes, RingSound, WaitSound(ram.recs), ram.recs = <<>> => ram.full,
           NEW m, Trigger(m) \in Triggers, NEW all, all = AllOfRing, NEW s, s = fireRam(m)
    PROVE  /\ s \in Stores1
           /\ \/ s.full /\ s.recs = ram.recs
              \/ /\ s.full /\ ram.recs # <<>>
                 /\ \E t \in Seq(Event), d \in Nat : Part(all, t, d) /\ Headed(t, s.recs, ram.recs[1])
              \/ /\ ~s.full /\ ram.recs # <<>>
                 /\ \E t \in Seq(Event), u \in Seq(Records), d \in Nat :
                       /\ Part(all, t, d) /\ Len(t) + d = Len(all) /\ kept = Len(t)
                       /\ \A i \in 1 .. Len(all) : i > d <=> now - all[i].at <= Pre
                       /\ Headed(t, u, ram.recs[1]) /\ Grown(u, s.recs, Trigger(m))
  <1>1. PICK d \in Nat :
              /\ \A i \in 1 .. Len(all) : i > d <=> now - all[i].at <= Pre
              /\ flush[1] \in Seq(Event) /\ flush[2] \in Seq(Event)
              /\ kept = Len(flush[1] \o flush[2]) /\ Len(flush[1] \o flush[2]) + d = Len(all)
              /\ Part(all, flush[1], d) /\ Part(all, flush[1] \o flush[2], d)
    BY FlushJoined
  <1>2. PICK f : f = flush[1]
    OBVIOUS
  <1>3. PICK g : g = flush[2]
    OBVIOUS
  <1>4. f \in Seq(Event) /\ g \in Seq(Event) /\ f \in Seq(Records) /\ g \in Seq(Records)
    <2>1. Event \subseteq Records
      BY DEF Records
    <2> QED
      BY <1>1, <1>2, <1>3, <2>1, SeqGrows
  <1>5. PICK one : one = IF f = <<>> THEN ram ELSE ramWrite(ram, f)
    OBVIOUS
  <1>6. PICK two : two = IF g = <<>> THEN one ELSE ramWrite(one, g)
    OBVIOUS
  <1>7. s = ramWrite(two, <<Trigger(m)>>)
    BY <1>2, <1>3, <1>5, <1>6 DEF fireRam
  <1>8. ram \in Stores1
    BY DEF WindowTypes, Stores1
  <1>9. /\ one \in Stores1
        /\ \/ one.full /\ one.recs = ram.recs
           \/ ~ram.full /\ ~one.full /\ one.recs = ram.recs \o f
    BY <1>4, <1>5, <1>8, PutIs
  <1>10. /\ two \in Stores1
         /\ \/ two.full /\ two.recs = one.recs
            \/ ~one.full /\ ~two.full /\ two.recs = one.recs \o g
    BY <1>4, <1>6, <1>9, PutIs
  <1>11. PICK tr : tr = Trigger(m)
    OBVIOUS
  <1>12. tr \in Records /\ <<tr>> \in Seq(Records)
    <2>1. tr \in Records
      BY <1>11 DEF Records
    <2> QED
      BY <2>1
  <1>13. /\ s \in Stores1
         /\ \/ s.full /\ s.recs = two.recs
            \/ ~two.full /\ ~s.full /\ s.recs = two.recs \o <<tr>>
    <2>1. PICK e : e = <<tr>>
      OBVIOUS
    <2>2. s = ramWrite(two, e) /\ e \in Seq(Records) /\ two \in Stores1
      BY <1>7, <1>10, <1>11, <1>12, <2>1
    <2> QED
      BY <2>1, <2>2, WriteIs
  <1>14. CASE one.full
    BY <1>9, <1>10, <1>13, <1>14
  <1>15. CASE ~one.full
    <2>1. PICK p : p = ram.recs[1]
      OBVIOUS
    <2>2. ram.recs # <<>> /\ Len(ram.recs) = 1
      <3>1. ram.recs \in Seq(Records)
        BY DEF WindowTypes
      <3>2. ram.recs # <<>>
        BY <1>9, <1>15
      <3>3. Len(ram.recs) # 0 /\ Len(ram.recs) \in Nat
        BY <3>1, <3>2
      <3>4. PICK l : l = Len(ram.recs)
        OBVIOUS
      <3>5. l <= 1
        BY <3>4 DEF WaitSound
      <3>6. l # 0 /\ l \in Nat
        BY <3>3, <3>4
      <3>7. l = 1
        BY <3>5, <3>6
      <3> QED
        BY <3>2, <3>4, <3>7
    <2>3. ram.recs = <<p>> /\ p \in Records
      <3>1. ram.recs \in Seq(Records)
        BY DEF WindowTypes
      <3> QED
        BY <2>1, <2>2, <3>1, OneOf
    <2>4. PICK w : w = one.recs
      OBVIOUS
    <2>5. w = <<p>> \o f
      BY <1>9, <1>15, <2>3, <2>4
    <2>6. w \in Seq(Records) /\ Headed(f, w, p)
      BY <1>4, <2>3, <2>5, HeadedBy
    <2>7. CASE two.full
      <3>1. s.full /\ s.recs = w
        BY <1>10, <1>13, <1>15, <2>4, <2>7
      <3> QED
        BY <1>1, <1>2, <1>4, <1>13, <2>1, <2>2, <2>6, <3>1
    <2>8. CASE ~two.full
      <3>1. PICK t : t = f \o g
        OBVIOUS
      <3>2. PICK u : u = two.recs
        OBVIOUS
      <3>3. u = <<p>> \o t
        <4>1. u = (<<p>> \o f) \o g
          BY <1>10, <2>4, <2>5, <2>8, <3>2
        <4>2. <<p>> \in Seq(Records)
          BY <2>3
        <4>3. PICK h : h = <<p>>
          OBVIOUS
        <4>4. (h \o f) \o g = h \o (f \o g)
          BY <1>4, <4>2, <4>3, Regroup
        <4> QED
          BY <3>1, <4>1, <4>3, <4>4
      <3>4. t \in Seq(Event) /\ t \in Seq(Records)
        BY <1>4, <3>1
      <3>5. u \in Seq(Records) /\ Headed(t, u, p)
        BY <2>3, <3>3, <3>4, HeadedBy
      <3>6. CASE s.full
        <4>1. s.recs = u
          BY <1>13, <3>2, <3>6
        <4> QED
          BY <1>1, <1>2, <1>3, <1>13, <2>1, <2>2, <3>1, <3>4, <3>5, <3>6, <4>1
      <3>7. CASE ~s.full
        <4>1. s.recs = u \o <<tr>>
          BY <1>13, <3>2, <3>7
        <4>2. Grown(u, s.recs, tr)
          BY <1>12, <3>5, <4>1, GrownBy
        <4> QED
          BY <1>1, <1>2, <1>3, <1>11, <1>13, <2>1, <2>2, <3>1, <3>4, <3>5, <3>7, <4>2
      <3> QED
        BY <3>6, <3>7
    <2> QED
      BY <2>7, <2>8
  <1> QED
    BY <1>14, <1>15

-----------------------------------------------------------------------------
(* What a write of one record, a cut and a provenance make of a stream.    *)

\* r may follow what ends in P, E and T.
JoinsAs(r, P, E, T) ==
    /\ r \in OfPath => \A q \in P : <<q, r>> \in PathPairs
    /\ r \in Event => \A q \in E : <<q, r>> \in EventPairs
    /\ r \in Timed => \A q \in T : <<q, r>> \in TimedPairs

\* With r written, what ended in P, E and T ends in the others.
EndsAs(r, P, E, T, P1, E1, T1) ==
    /\ IF r \in OfPath THEN r \in P1 ELSE P \subseteq P1
    /\ IF r \in Event THEN r \in E1 ELSE E \subseteq E1
    /\ IF r \in Timed THEN r \in T1 ELSE T \subseteq T1

LEMMA StreamGrows ==
    ASSUME NEW s, NEW t, NEW r, NEW P, NEW E, NEW T, Grown(s, t, r), Stream(s), LiveAs(s, P, E, T),
           JoinsAs(r, P, E, T)
    PROVE  Stream(t)
  <1>1. Linked(t, OfPath, PathPairs)
    <2>1. Linked(s, OfPath, PathPairs) /\ LastIn(s, OfPath, P)
      BY DEF Stream, LiveAs
    <2>2. r \in OfPath => \A q \in P : <<q, r>> \in PathPairs
      BY DEF JoinsAs
    <2> QED
      BY <2>1, <2>2, LinkedGrows
  <1>2. Linked(t, Event, EventPairs)
    <2>1. Linked(s, Event, EventPairs) /\ LastIn(s, Event, E)
      BY DEF Stream, LiveAs
    <2>2. r \in Event => \A q \in E : <<q, r>> \in EventPairs
      BY DEF JoinsAs
    <2> QED
      BY <2>1, <2>2, LinkedGrows
  <1>3. Linked(t, Timed, TimedPairs)
    <2>1. Linked(s, Timed, TimedPairs) /\ LastIn(s, Timed, T)
      BY DEF Stream, LiveAs
    <2>2. r \in Timed => \A q \in T : <<q, r>> \in TimedPairs
      BY DEF JoinsAs
    <2> QED
      BY <2>1, <2>2, LinkedGrows
  <1> QED
    BY <1>1, <1>2, <1>3 DEF Stream

LEMMA LastMoves ==
    ASSUME NEW s, NEW t, NEW r, NEW X, NEW P, NEW P1, Grown(s, t, r), LastIn(s, X, P),
           IF r \in X THEN r \in P1 ELSE P \subseteq P1
    PROVE  LastIn(t, X, P1)
  <1>1. CASE r \in X
    BY <1>1, LastGrows
  <1>2. CASE r \notin X
    <2>1. LastIn(s, X, P1)
      BY <1>2, LastWeaker
    <2> QED
      BY <1>2, <2>1, LastGrows
  <1> QED
    BY <1>1, <1>2

LEMMA LiveGrows ==
    ASSUME NEW s, NEW t, NEW r, NEW P, NEW E, NEW T, NEW P1, NEW E1, NEW T1, Grown(s, t, r),
           LiveAs(s, P, E, T), EndsAs(r, P, E, T, P1, E1, T1)
    PROVE  LiveAs(t, P1, E1, T1)
  <1>1. LastIn(t, OfPath, P1)
    <2>1. LastIn(s, OfPath, P) /\ (IF r \in OfPath THEN r \in P1 ELSE P \subseteq P1)
      BY DEF LiveAs, EndsAs
    <2> QED
      BY <2>1, LastMoves
  <1>2. LastIn(t, Event, E1)
    <2>1. LastIn(s, Event, E) /\ (IF r \in Event THEN r \in E1 ELSE E \subseteq E1)
      BY DEF LiveAs, EndsAs
    <2> QED
      BY <2>1, LastMoves
  <1>3. LastIn(t, Timed, T1)
    <2>1. LastIn(s, Timed, T) /\ (IF r \in Timed THEN r \in T1 ELSE T \subseteq T1)
      BY DEF LiveAs, EndsAs
    <2> QED
      BY <2>1, LastMoves
  <1> QED
    BY <1>1, <1>2, <1>3 DEF LiveAs

LEMMA LiveWeaker ==
    ASSUME NEW s, NEW P, NEW E, NEW T, NEW P1, NEW E1, NEW T1, LiveAs(s, P, E, T),
           P \subseteq P1, E \subseteq E1, T \subseteq T1
    PROVE  LiveAs(s, P1, E1, T1)
  BY LastWeaker DEF LiveAs

LEMMA StreamPart ==
    ASSUME NEW s, NEW t, NEW d, Part(s, t, d), Stream(s)
    PROVE  Stream(t)
  BY LinkedPart DEF Stream

LEMMA LivePart ==
    ASSUME NEW s, NEW t, NEW d, NEW P, NEW E, NEW T, Part(s, t, d), Len(t) + d = Len(s), LiveAs(s, P, E, T)
    PROVE  LiveAs(t, P, E, T)
  BY LastPart DEF LiveAs

\* The provenance of a window is of none of the three kinds.
LEMMA ProvenanceAlone ==
    ASSUME NEW p \in Provenances, p.windowed
    PROVE  p \in Records /\ p \notin OfPath /\ p \notin Event /\ p \notin Timed /\ p \notin Triggers
  <1>1. p \in Records
    BY DEF Records
  <1> QED
    BY <1>1, Kinds

LEMMA StreamHead ==
    ASSUME NEW s, NEW t, NEW p \in Provenances, p.windowed, Headed(s, t, p), Stream(s)
    PROVE  Stream(t)
  BY LinkedHead, ProvenanceAlone DEF Stream

LEMMA LiveHead ==
    ASSUME NEW s, NEW t, NEW p \in Provenances, p.windowed, NEW P, NEW E, NEW T, Headed(s, t, p),
           LiveAs(s, P, E, T)
    PROVE  LiveAs(t, P, E, T)
  BY LastHead, ProvenanceAlone DEF LiveAs

LEMMA NothingStreams ==
    ASSUME NEW s, DOMAIN s = {}, NEW P, NEW E, NEW T
    PROVE  Stream(s) /\ LiveAs(s, P, E, T)
  BY NothingLinked DEF Stream, LiveAs

-----------------------------------------------------------------------------
(* The window as it opens.                                                 *)

\* What waits for the trigger, and what a full buffer has of the flush.
LEMMA HeadSound ==
    ASSUME NEW t \in Seq(Event), NEW recs, NEW p \in Provenances, p.windowed, Headed(t, recs, p)
    PROVE  OpenSound(recs)
  <1>1. recs[1] = p /\ Len(recs) = Len(t) + 1 /\ Len(t) \in Nat /\ DOMAIN recs = 1 .. Len(recs)
    BY DEF Headed
  <1>2. ASSUME NEW i \in 2 .. Len(recs)
        PROVE  recs[i] \notin Provenances /\ recs[i] \notin Triggers
    <2>1. i - 1 \in 1 .. Len(t) /\ (i - 1) + 1 = i
      BY <1>1
    <2>2. recs[i] = t[i - 1]
      BY <2>1 DEF Headed
    <2>3. t[i - 1] \in Event
      BY <2>1
    <2>4. recs[i] \in Records
      BY <2>2, <2>3 DEF Records
    <2> QED
      BY <2>2, <2>3, <2>4, Kinds
  <1>3. recs[1] \notin Triggers
    BY <1>1, ProvenanceAlone
  <1>4. \A i \in DOMAIN recs : recs[i] \notin Triggers
    <2> SUFFICES ASSUME NEW i \in DOMAIN recs
                 PROVE  recs[i] \notin Triggers
      OBVIOUS
    <2>1. i = 1 \/ i \in 2 .. Len(recs)
      BY <1>1
    <2> QED
      BY <1>2, <1>3, <2>1
  <1> QED
    BY <1>1, <1>2, <1>4 DEF OpenSound

LEMMA WaitOpens ==
    ASSUME NEW recs \in Seq(Records), WaitSound(recs)
    PROVE  OpenSound(recs) /\ Stream(recs)
  <1>1. PICK l : l = Len(recs)
    OBVIOUS
  <1>2. l \in Nat /\ l <= 1 /\ DOMAIN recs = 1 .. l
    <2>1. Len(recs) <= 1
      BY DEF WaitSound
    <2> QED
      BY <1>1, <2>1
  <1>3. \A i, j \in DOMAIN recs : ~(i < j)
    BY <1>2
  <1>4. Stream(recs)
    BY <1>3 DEF Stream, Linked
  <1>5. 2 .. l = {}
    BY <1>2
  <1>6. \A i \in DOMAIN recs : recs[i] \in Provenances /\ recs[i].windowed
    BY DEF WaitSound
  <1>7. \A i \in DOMAIN recs : recs[i] \notin Triggers
    BY <1>6, ProvenanceAlone
  <1>8. recs # <<>> => 1 \in DOMAIN recs
    BY <1>1, <1>2
  <1> QED
    BY <1>1, <1>4, <1>5, <1>6, <1>7, <1>8 DEF OpenSound

\* A provenance, the flush, the trigger.
Opened(recs, p, t, tr) ==
    /\ Len(t) \in Nat /\ Len(recs) = Len(t) + 2 /\ DOMAIN recs = 1 .. Len(recs)
    /\ recs[1] = p /\ recs[Len(t) + 2] = tr
    /\ \A i \in 1 .. Len(t) : recs[i + 1] = t[i]

LEMMA OpenedBy ==
    ASSUME NEW recs, NEW p, NEW t, NEW tr, NEW u, Headed(t, u, p), Grown(u, recs, tr)
    PROVE  Opened(recs, p, t, tr)
  <1>1. Len(t) \in Nat /\ Len(u) = Len(t) + 1 /\ Len(recs) = Len(t) + 2 /\ DOMAIN recs = 1 .. Len(recs)
    BY DEF Headed, Grown
  <1>2. recs[Len(t) + 2] = tr
    BY <1>1 DEF Grown
  <1>3. recs[1] = p
    <2>1. 1 \in 1 .. Len(u) /\ u[1] = p
      BY <1>1 DEF Headed
    <2> QED
      BY <2>1 DEF Grown
  <1>4. ASSUME NEW i \in 1 .. Len(t)
        PROVE  recs[i + 1] = t[i]
    <2>1. i + 1 \in 1 .. Len(u) /\ u[i + 1] = t[i]
      BY <1>1 DEF Headed
    <2> QED
      BY <2>1 DEF Grown
  <1> QED
    BY <1>1, <1>2, <1>3, <1>4 DEF Opened

\* What the ring still has, from d + 1 on, is within Pre, and the rest is not.
CutAt(all, t, d) ==
    /\ Part(all, t, d) /\ Len(t) + d = Len(all)
    /\ \A i \in 1 .. Len(all) : i > d <=> now - all[i].at <= Pre

LEMMA CutAges ==
    ASSUME WindowTypes, RingSound, NEW all, all = AllOfRing, NEW t, NEW d \in Nat, CutAt(all, t, d)
    PROVE  /\ \A i \in 1 .. Len(t) : t[i].at \in Nat /\ t[i].at <= now /\ now - t[i].at <= Pre
           /\ d > 0 => all[d].at \in Nat /\ now - all[d].at > Pre
           /\ d > 0 /\ Len(t) > 0 => t[1].after = all[d].at
  <1>1. PICK n : n = Len(all)
    OBVIOUS
  <1>2. all \in Seq(Event) /\ all \in Seq(Records) /\ n \in Nat /\ DOMAIN all = 1 .. n
    <2>1. all \in Seq(Event) /\ all \in Seq(Records)
      BY RingIs
    <2> QED
      BY <1>1, <2>1
  <1>3. Len(t) \in Nat /\ Len(t) + d = n /\ \A i \in 1 .. Len(t) : t[i] = all[i + d]
    BY <1>1 DEF CutAt, Part
  <1>4. \A i \in 1 .. n : all[i].at \in Nat
    <2> SUFFICES ASSUME NEW i \in 1 .. n PROVE all[i].at \in Nat
      OBVIOUS
    <2>1. all[i] \in Records
      BY <1>1, <1>2
    <2> QED
      BY <2>1, RecordTimes
  <1>5. ASSUME NEW i \in 1 .. n
        PROVE  all[i].at <= now
    <2>1. all # <<>> /\ n \in 1 .. n
      BY <1>1, <1>2
    <2>2. Segmented(all, 1) /\ all[n].at <= now
      BY <1>1, <2>1, RingSegment
    <2>3. i <= n /\ i \in 1 .. Len(all) /\ n \in 1 .. Len(all)
      BY <1>1, <1>2, <2>1
    <2>4. all[i].at <= all[n].at
      BY <2>2, <2>3, TimesRise
    <2>5. all[i].at \in Nat /\ all[n].at \in Nat /\ now \in Nat
      BY <1>4, <2>1 DEF WindowTypes
    <2> QED
      BY <2>2, <2>4, <2>5
  <1>6. ASSUME NEW i \in 1 .. Len(t)
        PROVE  t[i].at \in Nat /\ t[i].at <= now /\ now - t[i].at <= Pre
    <2>1. i + d \in 1 .. n /\ i + d > d /\ t[i] = all[i + d]
      BY <1>3
    <2>2. now - all[i + d].at <= Pre
      BY <1>1, <2>1 DEF CutAt
    <2> QED
      BY <1>4, <1>5, <2>1, <2>2
  <1>7. ASSUME d > 0
        PROVE  all[d].at \in Nat /\ now - all[d].at > Pre
    <2>1. d \in 1 .. n /\ ~(d > d)
      BY <1>3, <1>7
    <2>2. ~(now - all[d].at <= Pre)
      BY <1>1, <2>1 DEF CutAt
    <2>3. all[d].at \in Nat /\ now \in Nat /\ Pre \in Nat
      BY <1>4, <2>1, WindowAssumption DEF WindowTypes
    <2> QED
      BY <2>2, <2>3
  <1>8. ASSUME d > 0, Len(t) > 0
        PROVE  t[1].after = all[d].at
    <2>1. d \in 1 .. n /\ d + 1 \in 1 .. n /\ 1 \in 1 .. Len(t) /\ 1 + d = d + 1
      BY <1>3, <1>8
    <2>2. all[d] \in Event /\ all[d + 1] \in Event
      BY <1>1, <1>2, <2>1
    <2>3. Linked(all, Event, EventPairs)
      BY DEF RingSound, Stream
    <2>4. d \in DOMAIN all /\ d + 1 \in DOMAIN all
      BY <1>2, <2>1
    <2>5. <<all[d], all[d + 1]>> \in EventPairs
      BY <2>2, <2>3, <2>4, Neighbours
    <2>6. t[1] = all[d + 1]
      BY <1>3, <2>1
    <2> QED
      BY <2>5, <2>6 DEF EventPairs
  <1> QED
    BY <1>6, <1>7, <1>8

\* The history of a window that opens: it reaches back Pre, or to the
\* re-arm, or a whole half.
LEMMA HistoryReaches ==
    ASSUME WindowTypes, RingSound, NEW all, all = AllOfRing, NEW t \in Seq(Event), NEW d \in Nat, CutAt(all, t, d),
           Len(t) > 0, NEW p, NEW tr, tr.at = now, NEW recs \in Seq(Records), Opened(recs, p, t, tr)
    PROVE  Reaches(recs, 2, Len(t) + 2)
  <1>1. Len(t) \in Nat /\ 1 \in 1 .. Len(t)
    OBVIOUS
  <1>2. recs[1 + 1] = t[1] /\ 1 + 1 = 2 /\ recs[Len(t) + 2] = tr
    BY <1>1 DEF Opened
  <1>3. recs[2] = t[1]
    BY <1>2
  <1>4. CASE d > 0
    <2>1. now - t[1].after > Pre
      BY <1>4, CutAges
    <2> QED
      BY <1>2, <1>3, <2>1 DEF Reaches
  <1>5. CASE d = 0
    <2>1. Len(all) = Len(t) /\ \A i \in 1 .. Len(t) : t[i] = all[i]
      <3>1. \A i \in 1 .. Len(t) : t[i] = all[i + d] /\ i + d = i
        BY <1>5 DEF CutAt, Part
      <3>2. Len(t) + d = Len(all) /\ Len(t) + d = Len(t)
        BY <1>1, <1>5 DEF CutAt
      <3> QED
        BY <3>1, <3>2
    <2>2. CASE ring.old = <<>>
      <3>1. Len(ring.old) = 0
        <4>1. PICK e : e = ring.old
          OBVIOUS
        <4> QED
          BY <2>2, <4>1
      <3>2. Len(ring.cur) = Len(all) /\ \A i \in 1 .. Len(ring.cur) : all[i + Len(ring.old)] = ring.cur[i]
        <4>1. Len(all) = Len(ring.old) + Len(ring.cur) /\ Len(all) \in Nat
          BY RingIs
        <4>2. \A i \in 1 .. Len(ring.cur) : all[i + Len(ring.old)] = ring.cur[i]
          BY RingIs
        <4>3. Len(ring.cur) \in Nat
          BY DEF WindowTypes
        <4> QED
          BY <3>1, <4>1, <4>2, <4>3
      <3>3. 1 \in 1 .. Len(ring.cur) /\ 1 + Len(ring.old) = 1
        BY <1>1, <2>1, <3>1, <3>2
      <3>4. all[1] = ring.cur[1]
        BY <3>2, <3>3
      <3>5. ring.cur # <<>>
        <4>1. PICK c : c = ring.cur
          OBVIOUS
        <4>2. Len(c) > 0
          BY <1>1, <2>1, <3>2, <4>1
        <4> QED
          BY <4>1, <4>2
      <3>6. ring.cur[1].after = Never
        BY <2>2, <3>5 DEF RingSound
      <3>7. recs[2].after = Never
        BY <1>1, <1>3, <2>1, <3>4, <3>6
      <3> QED
        BY <3>7 DEF Reaches
    <2>3. CASE ring.old # <<>>
      <3>1. PICK o : o = ring.old
        OBVIOUS
      <3>2. PICK n : n = Len(t)
        OBVIOUS
      <3>3. PICK b : b = SubSeq(recs, 2, n + 1)
        OBVIOUS
      <3>4. n \in Nat /\ Len(recs) = n + 2 /\ n >= 1
        BY <1>1, <3>2 DEF Opened
      <3>5. b \in Seq(Records) /\ Len(b) = n /\ \A i \in 1 .. n : b[i] = recs[1 + i]
        <4>1. 2 <= n + 1 /\ n + 1 <= Len(recs) /\ ((n + 1) - 2) + 1 = n /\ 2 \in Nat /\ n + 1 \in Nat
          BY <3>4
        <4>2. b \in Seq(Records) /\ Len(b) = ((n + 1) - 2) + 1
          BY <3>3, <4>1
        <4>3. \A i \in 1 .. ((n + 1) - 2) + 1 : b[i] = recs[(2 + i) - 1]
          BY <3>3, <4>1
        <4>4. \A i \in 1 .. n : (2 + i) - 1 = 1 + i
          BY <3>4
        <4> QED
          BY <4>1, <4>2, <4>3, <4>4
      <3>6. o \in Seq(Event) /\ o \in Seq(Records)
        <4>1. o \in Seq(Event) /\ Event \subseteq Records
          BY <3>1 DEF WindowTypes, Records
        <4> QED
          BY <4>1, SeqGrows
      <3>7. Len(o) <= n /\ \A i \in 1 .. Len(o) : all[i] = o[i]
        BY <2>1, <3>1, <3>2, RingIs
      <3>8. \A i \in 1 .. Len(o) : o[i] = b[i + 0]
        <4> SUFFICES ASSUME NEW i \in 1 .. Len(o)
                     PROVE  o[i] = b[i + 0]
          OBVIOUS
        <4>1. i \in 1 .. n /\ i + 0 = i /\ 1 + i = i + 1
          BY <3>4, <3>6, <3>7
        <4>2. recs[i + 1] = t[i] /\ t[i] = all[i]
          BY <2>1, <3>2, <4>1 DEF Opened
        <4> QED
          BY <3>5, <3>7, <4>1, <4>2
      <3>9. Part(b, o, 0)
        BY <3>4, <3>5, <3>6, <3>7, <3>8 DEF Part
      <3>10. Bytes(o) \in Nat /\ Bytes(b) \in Nat /\ Bytes(o) <= Bytes(b)
        BY <3>5, <3>6, <3>9, BytesGrow, BytesOf
      <3>11. Bytes(o) + 14 > Half
        BY <2>3, <3>1 DEF RingSound
      <3>12. Bytes(b) + 14 > Half
        BY <3>10, <3>11, WindowAssumption
      <3>13. (Len(t) + 2) - 1 = n + 1
        BY <3>2, <3>4
      <3> QED
        BY <3>3, <3>12, <3>13 DEF Reaches
    <2> QED
      BY <2>2, <2>3
  <1> QED
    BY <1>4, <1>5

LEMMA WindowSound ==
    ASSUME WindowTypes, RingSound, NEW all, all = AllOfRing, NEW t \in Seq(Event), NEW d \in Nat, CutAt(all, t, d),
           NEW p \in Provenances, p.windowed,
           NEW tr \in Triggers, tr.at = now, tr.pre_kept = Len(t), NEW recs \in Seq(Records), Opened(recs, p, t, tr)
    PROVE  OpenSound(recs) /\ OpenLive(recs)
  <1>1. PICK n : n = Len(t)
    OBVIOUS
  <1>2. n \in Nat /\ Len(recs) = n + 2 /\ DOMAIN recs = 1 .. n + 2 /\ recs[1] = p /\ recs[n + 2] = tr
    BY <1>1 DEF Opened
  <1>3. p \in Records /\ p \notin Event /\ p \notin Triggers
    BY ProvenanceAlone
  <1>4. tr \in Records /\ tr \notin Event /\ tr \notin Provenances
    <2>1. tr \in Records
      BY DEF Records
    <2> QED
      BY <2>1, Kinds
  <1>5. ASSUME NEW i \in 2 .. n + 1
        PROVE  recs[i] = t[i - 1] /\ i - 1 \in 1 .. n /\ recs[i] \in Event
               /\ recs[i] \notin Provenances /\ recs[i] \notin Triggers
    <2>1. i - 1 \in 1 .. n /\ (i - 1) + 1 = i
      BY <1>2
    <2>2. recs[i] = t[i - 1] /\ t[i - 1] \in Event
      BY <1>1, <2>1 DEF Opened
    <2>3. recs[i] \in Records
      BY <2>2 DEF Records
    <2> QED
      BY <2>1, <2>2, <2>3, Kinds
  <1>6. \A i \in DOMAIN recs : i = 1 \/ i \in 2 .. n + 1 \/ i = n + 2
    BY <1>2
  <1>7. \A i \in DOMAIN recs : recs[i] \in Triggers <=> i = n + 2
    BY <1>2, <1>3, <1>5, <1>6
  <1>8. \A i \in 2 .. Len(recs) : recs[i] \notin Provenances
    <2> SUFFICES ASSUME NEW i \in 2 .. Len(recs) PROVE recs[i] \notin Provenances
      OBVIOUS
    <2>1. i \in 2 .. n + 1 \/ i = n + 2
      BY <1>2
    <2> QED
      BY <1>2, <1>4, <1>5, <2>1
  <1>9. ASSUME NEW k \in 2 .. n + 1
        PROVE  recs[k].at <= tr.at /\ tr.at - recs[k].at <= Pre
    <2>1. \A i \in 1 .. Len(t) : t[i].at \in Nat /\ t[i].at <= now /\ now - t[i].at <= Pre
      BY CutAges
    <2> QED
      BY <1>1, <1>5, <2>1
  <1>10. ASSUME NEW lo \in DOMAIN recs, FirstEvent(recs, lo)
         PROVE  lo = 2 /\ n > 0
    <2>1. recs[lo] \in Event /\ \A k \in 1 .. lo - 1 : recs[k] \notin Event
      BY <1>10 DEF FirstEvent
    <2>2. lo \in 2 .. n + 1
      BY <1>2, <1>3, <1>4, <1>6, <2>1
    <2>3. n > 0 /\ 2 \in 2 .. n + 1
      BY <1>2, <2>2
    <2>4. recs[2] \in Event
      BY <1>5, <2>3
    <2>5. ~(2 \in 1 .. lo - 1)
      BY <2>1, <2>4
    <2>6. lo \in Nat /\ lo >= 2
      BY <1>2, <2>2
    <2> QED
      BY <2>3, <2>5, <2>6
  <1>11. OpenSound(recs)
    <2>1. ASSUME NEW i \in DOMAIN recs, recs[i] \in Triggers
          PROVE  /\ recs[i].pre_kept = i - 2
                 /\ \A k \in DOMAIN recs : k # i => recs[k] \notin Triggers
                 /\ \A k \in 2 .. i - 1 : recs[k].at <= recs[i].at /\ recs[i].at - recs[k].at <= Pre
                 /\ \A lo \in DOMAIN recs : FirstEvent(recs, lo) => Reaches(recs, lo, i)
      <3>1. i = n + 2 /\ recs[i] = tr
        BY <1>2, <1>7, <2>1
      <3>2. i - 2 = n /\ i - 1 = n + 1
        BY <1>2, <3>1
      <3>3. tr.pre_kept = n
        BY <1>1
      <3>4. ASSUME NEW lo \in DOMAIN recs, FirstEvent(recs, lo)
            PROVE  Reaches(recs, lo, i)
        <4>1. lo = 2 /\ Len(t) > 0
          BY <1>1, <1>10, <3>4
        <4>2. Reaches(recs, 2, Len(t) + 2)
          BY <4>1, HistoryReaches
        <4> QED
          BY <1>1, <3>1, <4>1, <4>2
      <3> QED
        BY <1>7, <1>9, <3>1, <3>2, <3>3, <3>4
    <2>2. recs[1] \in Provenances /\ recs[1].windowed
      BY <1>2
    <2> QED
      BY <1>8, <2>1, <2>2 DEF OpenSound
  <1>12. OpenLive(recs)
    <2>1. n + 2 \in DOMAIN recs /\ recs[n + 2] \in Triggers
      BY <1>2
    <2>2. ASSUME \A k \in DOMAIN recs : recs[k] \notin Event
          PROVE  lastAt = Never \/ recs[n + 2].at - lastAt > Pre
      <3>1. n = 0
        <4> SUFFICES ASSUME n # 0 PROVE FALSE
          OBVIOUS
        <4>1. 2 \in 2 .. n + 1 /\ 2 \in DOMAIN recs
          BY <1>2
        <4> QED
          BY <1>5, <2>2, <4>1
      <3>2. Len(all) = d /\ all \in Seq(Event)
        <4>1. Len(t) + d = Len(all)
          BY DEF CutAt
        <4>2. all \in Seq(Event)
          BY RingIs
        <4> QED
          BY <1>1, <3>1, <4>1, <4>2
      <3>3. CASE d = 0
        <4>1. all = <<>>
          BY <3>2, <3>3
        <4> QED
          BY <4>1 DEF RingSound
      <3>4. CASE d # 0
        <4>1. all # <<>> /\ d > 0
          BY <3>2, <3>4
        <4>2. all[Len(all)].at = lastAt
          BY <4>1, RingSegment
        <4>3. now - all[d].at > Pre
          BY <4>1, CutAges
        <4> QED
          BY <1>2, <3>2, <4>2, <4>3
      <3> QED
        BY <3>3, <3>4
    <2> QED
      BY <2>1, <2>2 DEF OpenLive, OpenLiveAs
  <1> QED
    BY <1>11, <1>12

\* Time runs while a heartbeat is not due.
LEMMA TimedNow ==
    ASSUME WindowTypes, NEW r \in Timed, r.at = now
    PROVE  r \in LastTimed /\ \A q \in LastTimed : <<q, r>> \in TimedPairs
  <1>1. now \in Nat /\ nextBeat \in Nat /\ HbPeriod \in Nat /\ nextBeat - HbPeriod <= now /\ now <= nextBeat
    BY WindowAssumption DEF WindowTypes
  <1>2. r \in LastTimed
    BY <1>1 DEF LastTimed
  <1>3. ASSUME NEW q \in LastTimed
        PROVE  <<q, r>> \in TimedPairs
    <2>1. q \in Timed /\ nextBeat - HbPeriod <= q.at /\ q.at <= now
      BY DEF LastTimed
    <2>2. q.at \in Nat
      BY <2>1, RecordTimes DEF Timed
    <2>3. q.at <= r.at /\ r.at - q.at <= HbPeriod
      BY <1>1, <2>1, <2>2
    <2> QED
      BY <2>1, <2>3 DEF TimedPairs
  <1> QED
    BY <1>2, <1>3

LEMMA FireSound ==
    ASSUME WindowTypes, RingSound, WaitSound(ram.recs), ram.recs = <<>> => ram.full,
           NEW m, Trigger(m) \in Triggers, NEW s, s = fireRam(m)
    PROVE  /\ s \in Stores1 /\ Stream(s.recs) /\ OpenSound(s.recs)
           /\ ~s.full => Live(s.recs) /\ OpenLive(s.recs)
  <1>1. PICK all : all = AllOfRing
    OBVIOUS
  <1>2. PICK p : p = ram.recs[1]
    OBVIOUS
  <1>3. PICK tr : tr = Trigger(m)
    OBVIOUS
  <1>4. /\ s \in Stores1
        /\ \/ s.full /\ s.recs = ram.recs
           \/ /\ s.full /\ ram.recs # <<>>
              /\ \E t \in Seq(Event), d \in Nat : Part(all, t, d) /\ Headed(t, s.recs, p)
           \/ /\ ~s.full /\ ram.recs # <<>>
              /\ \E t \in Seq(Event), u \in Seq(Records), d \in Nat :
                    /\ Part(all, t, d) /\ Len(t) + d = Len(all) /\ kept = Len(t)
                    /\ \A i \in 1 .. Len(all) : i > d <=> now - all[i].at <= Pre
                    /\ Headed(t, u, p) /\ Grown(u, s.recs, tr)
    BY <1>1, <1>2, <1>3, FireIs
  <1>5. PICK recs : recs = s.recs
    OBVIOUS
  <1>6. recs \in Seq(Records)
    BY <1>4, <1>5 DEF Stores1
  <1>7. ram.recs # <<>> => p \in Provenances /\ p.windowed
    <2>1. ram.recs \in Seq(Records)
      BY DEF WindowTypes
    <2>2. ram.recs # <<>> => 1 \in DOMAIN ram.recs
      BY <2>1
    <2> QED
      BY <1>2, <2>2 DEF WaitSound
  <1>8. Stream(all) /\ Live(all)
    BY <1>1 DEF RingSound
  <1>9. CASE s.full /\ s.recs = ram.recs
    <2>1. OpenSound(recs) /\ Stream(recs)
      BY <1>5, <1>6, <1>9, WaitOpens
    <2> QED
      BY <1>4, <1>5, <1>9, <2>1
  <1>10. CASE /\ s.full /\ ram.recs # <<>>
              /\ \E t \in Seq(Event), d \in Nat : Part(all, t, d) /\ Headed(t, s.recs, p)
    <2>1. PICK t \in Seq(Event), d \in Nat : Part(all, t, d) /\ Headed(t, recs, p)
      BY <1>5, <1>10
    <2>2. Stream(t)
      BY <1>8, <2>1, StreamPart
    <2>3. Stream(recs) /\ OpenSound(recs)
      BY <1>7, <1>10, <2>1, <2>2, StreamHead, HeadSound
    <2> QED
      BY <1>4, <1>5, <1>10, <2>3
  <1>11. CASE /\ ~s.full /\ ram.recs # <<>>
              /\ \E t \in Seq(Event), u \in Seq(Records), d \in Nat :
                    /\ Part(all, t, d) /\ Len(t) + d = Len(all) /\ kept = Len(t)
                    /\ \A i \in 1 .. Len(all) : i > d <=> now - all[i].at <= Pre
                    /\ Headed(t, u, p) /\ Grown(u, s.recs, tr)
    <2>1. PICK t \in Seq(Event), u \in Seq(Records), d \in Nat :
                    /\ Part(all, t, d) /\ Len(t) + d = Len(all) /\ kept = Len(t)
                    /\ \A i \in 1 .. Len(all) : i > d <=> now - all[i].at <= Pre
                    /\ Headed(t, u, p) /\ Grown(u, recs, tr)
      BY <1>5, <1>11
    <2>2. p \in Provenances /\ p.windowed
      BY <1>7, <1>11
    <2>3. Stream(t) /\ LiveAs(t, LastPath, LastEvent, LastTimed)
      BY <1>8, <2>1, StreamPart, LivePart DEF Live
    <2>4. Stream(u) /\ LiveAs(u, LastPath, LastEvent, LastTimed)
      BY <2>1, <2>2, <2>3, StreamHead, LiveHead
    <2>5. tr \in Triggers /\ tr.at = now /\ tr.pre_kept = kept
      BY <1>3 DEF Trigger
    <2>6. tr \in Timed /\ tr \notin Event /\ tr \notin OfPath
      <3>1. tr \in Records
        BY <2>5 DEF Records
      <3> QED
        BY <2>5, <3>1, Kinds
    <2>7. tr \in LastTimed /\ \A q \in LastTimed : <<q, tr>> \in TimedPairs
      BY <2>5, <2>6, TimedNow
    <2>8. JoinsAs(tr, LastPath, LastEvent, LastTimed)
          /\ EndsAs(tr, LastPath, LastEvent, LastTimed, LastPath, LastEvent, LastTimed)
      BY <2>6, <2>7 DEF JoinsAs, EndsAs
    <2>9. Stream(recs) /\ LiveAs(recs, LastPath, LastEvent, LastTimed)
      <3>1. Grown(u, recs, tr)
        BY <2>1
      <3> QED
        BY <2>4, <2>8, <3>1, StreamGrows, LiveGrows
    <2>10. Opened(recs, p, t, tr) /\ CutAt(all, t, d)
      <3>1. Headed(t, u, p) /\ Grown(u, recs, tr)
        BY <2>1
      <3>2. Opened(recs, p, t, tr)
        BY <3>1, OpenedBy
      <3>3. CutAt(all, t, d)
        BY <2>1 DEF CutAt
      <3> QED
        BY <3>2, <3>3
    <2>11. tr.pre_kept = Len(t)
      BY <2>1, <2>5
    <2>12. OpenSound(recs) /\ OpenLive(recs)
      BY <1>1, <1>6, <2>2, <2>5, <2>10, <2>11, WindowSound
    <2> QED
      BY <1>4, <1>5, <2>9, <2>12 DEF Live
  <1> QED
    BY <1>4, <1>9, <1>10, <1>11

-----------------------------------------------------------------------------
(* A record kept, in the ring, in an open window and in a buffer since     *)
(* boot.                                                                   *)

\* The ring sound, for what it ends with and when the last record was.
HalvesSound(halves) ==
    /\ halves.old = <<>> /\ halves.cur # <<>> => halves.cur[1].after = Never
    /\ halves.old # <<>> => Bytes(halves.old) + 14 > Half
RingAs(halves, all, P, E, T, last) ==
    /\ all = halves.old \o halves.cur
    /\ Stream(all) /\ LiveAs(all, P, E, T)
    /\ all = <<>> => last = Never
    /\ HalvesSound(halves)

LEMMA RingSoundIs ==
    ASSUME NEW all, all = AllOfRing
    PROVE  RingSound <=> RingAs(ring, all, LastPath, LastEvent, LastTimed, lastAt)
  BY DEF RingSound, RingAs, HalvesSound, AllOfRing, Live

\* A record put in the ring follows the end of it.
LEMMA PutInRing ==
    ASSUME NEW halves \in [old : Seq(Event), cur : Seq(Event)], NEW r \in Event, HalvesSound(halves),
           halves.old \o halves.cur = <<>> => r.after = Never,
           NEW put, put = pre_put(halves, r)
    PROVE  /\ put \in [old : Seq(Event), cur : Seq(Event)] /\ HalvesSound(put)
           /\ put.old \o put.cur # <<>>
           /\ \E u \in Seq(Event), d \in Nat :
                 /\ Part(halves.old \o halves.cur, u, d) /\ Len(u) + d = Len(halves.old \o halves.cur)
                 /\ Grown(u, put.old \o put.cur, r)
  <1>1. put \in [old : Seq(Event), cur : Seq(Event)]
    BY RingHolds
  <1>2. PICK o : o = halves.old
    OBVIOUS
  <1>3. PICK c : c = halves.cur
    OBVIOUS
  <1>4. o \in Seq(Event) /\ c \in Seq(Event) /\ c \in Seq(Records)
    <2>1. o \in Seq(Event) /\ c \in Seq(Event) /\ Event \subseteq Records
      BY <1>2, <1>3 DEF Records
    <2> QED
      BY <2>1, SeqGrows
  <1>5. RecLen(r) \in Nat /\ RecLen(r) <= 14 /\ Bytes(c) \in Nat
    <2>1. r \in Records
      BY DEF Records
    <2> QED
      BY <1>4, <2>1, RecLenOf, BytesOf
  <1>6. PICK all : all = o \o c
    OBVIOUS
  <1>7. all \in Seq(Event) /\ Len(all) = Len(o) + Len(c) /\ Len(o) \in Nat /\ Len(c) \in Nat
    BY <1>4, <1>6
  <1>8. CASE Bytes(c) + RecLen(r) > Half
    <2>1. put.old = c /\ put.cur = <<r>>
      BY <1>3, <1>8 DEF pre_put
    <2>2. Bytes(c) + 14 > Half
      BY <1>5, <1>8, WindowAssumption
    <2>3. c # <<>>
      <3> SUFFICES ASSUME c = <<>> PROVE FALSE
        OBVIOUS
      <3>1. Bytes(c) = 0
        BY BytesNone
      <3> QED
        BY <1>5, <1>8, <3>1, WindowAssumption
    <2>4. HalvesSound(put)
      BY <2>1, <2>2, <2>3 DEF HalvesSound
    <2>5. Grown(c, put.old \o put.cur, r)
      BY <1>4, <2>1, GrownBy
    <2>6. Part(all, c, Len(o))
      <3>1. ASSUME NEW i \in 1 .. Len(c)
            PROVE  all[i + Len(o)] = c[i]
        <4>1. i + Len(o) \in 1 .. Len(o) + Len(c) /\ ~(i + Len(o) <= Len(o)) /\ (i + Len(o)) - Len(o) = i
          BY <1>7
        <4> QED
          BY <1>4, <1>6, <4>1
      <3>2. Len(c) + Len(o) <= Len(all) /\ Len(all) \in Nat
        BY <1>7
      <3>3. DOMAIN all = 1 .. Len(all) /\ DOMAIN c = 1 .. Len(c)
        BY <1>4, <1>7
      <3> QED
        BY <1>7, <3>1, <3>2, <3>3 DEF Part
    <2>7. Len(c) + Len(o) = Len(all)
      BY <1>7
    <2>8. put.old \o put.cur # <<>>
      <3>1. PICK x : x = put.old \o put.cur
        OBVIOUS
      <3>2. Len(x) = Len(c) + 1
        BY <2>5, <3>1 DEF Grown
      <3>3. Len(x) # 0
        BY <1>7, <3>2
      <3> QED
        BY <3>1, <3>3
    <2> QED
      BY <1>1, <1>2, <1>3, <1>4, <1>6, <1>7, <2>4, <2>5, <2>6, <2>7, <2>8
  <1>9. CASE ~(Bytes(c) + RecLen(r) > Half)
    <2>1. put.old = o /\ put.cur = Append(c, r)
      <3>1. put = [halves EXCEPT !.cur = Append(c, r)]
        BY <1>3, <1>9 DEF pre_put
      <3> QED
        BY <1>2, <3>1
    <2>2. o \o Append(c, r) = Append(all, r)
      BY <1>4, <1>6
    <2>3. Grown(all, put.old \o put.cur, r)
      BY <1>7, <2>1, <2>2, GrownBy
    <2>4. Part(all, all, 0) /\ Len(all) + 0 = Len(all)
      BY <1>7 DEF Part
    <2>5. HalvesSound(put)
      <3>1. put.old # <<>> => Bytes(put.old) + 14 > Half
        BY <1>2, <2>1 DEF HalvesSound
      <3>2. ASSUME put.old = <<>>
            PROVE  put.cur[1].after = Never
        <4>1. CASE c = <<>>
          <5>1. all = <<>>
            BY <1>4, <1>6, <2>1, <3>2, <4>1
          <5>2. Append(c, r)[1] = r
            <6>1. Len(c) = 0 /\ 1 = Len(c) + 1
              BY <1>4, <4>1
            <6> QED
              BY <1>4, <6>1
          <5> QED
            BY <1>2, <1>3, <1>6, <2>1, <5>1, <5>2
        <4>2. CASE c # <<>>
          <5>1. 1 \in 1 .. Len(c)
            BY <1>4, <4>2
          <5>2. Append(c, r)[1] = c[1]
            BY <1>4, <5>1
          <5> QED
            BY <1>2, <1>3, <2>1, <3>2, <4>2, <5>2 DEF HalvesSound
        <4> QED
          BY <4>1, <4>2
      <3> QED
        BY <3>1, <3>2 DEF HalvesSound
    <2>6. put.old \o put.cur # <<>>
      <3>1. PICK x : x = put.old \o put.cur
        OBVIOUS
      <3>2. Len(x) = Len(all) + 1
        BY <2>3, <3>1 DEF Grown
      <3>3. Len(x) # 0
        BY <1>7, <3>2
      <3> QED
        BY <3>1, <3>3
    <2> QED
      BY <1>1, <1>2, <1>3, <1>6, <1>7, <2>3, <2>4, <2>5, <2>6
  <1> QED
    BY <1>8, <1>9

Rings == [old : Seq(Event), cur : Seq(Event)]
Puts(halves, r, put, new) == put = pre_put(halves, r) /\ new = put.old \o put.cur

LEMMA RingGrows ==
    ASSUME NEW halves \in Rings, NEW r \in Event, NEW all, NEW P, NEW E, NEW T, NEW last,
           RingAs(halves, all, P, E, T, last), r.after = last, JoinsAs(r, P, E, T),
           NEW P1, NEW E1, NEW T1, EndsAs(r, P, E, T, P1, E1, T1), NEW last1,
           NEW put, NEW new, Puts(halves, r, put, new)
    PROVE  put \in Rings /\ RingAs(put, new, P1, E1, T1, last1)
  <1>1. all = halves.old \o halves.cur /\ HalvesSound(halves) /\ Stream(all) /\ LiveAs(all, P, E, T)
    BY DEF RingAs
  <1>2. halves.old \o halves.cur = <<>> => r.after = Never
    BY DEF RingAs
  <1>3. /\ put \in [old : Seq(Event), cur : Seq(Event)] /\ HalvesSound(put)
        /\ new # <<>>
        /\ \E u \in Seq(Event), d \in Nat :
                 /\ Part(all, u, d) /\ Len(u) + d = Len(all)
                 /\ Grown(u, new, r)
    <2>1. halves \in [old : Seq(Event), cur : Seq(Event)]
      BY DEF Rings
    <2> QED
      BY <1>1, <1>2, <2>1, PutInRing DEF Puts
  <1>4. PICK u \in Seq(Event), d \in Nat : Part(all, u, d) /\ Len(u) + d = Len(all) /\ Grown(u, new, r)
    BY <1>3
  <1>5. Stream(u) /\ LiveAs(u, P, E, T)
    BY <1>1, <1>4, StreamPart, LivePart
  <1>6. Stream(new) /\ LiveAs(new, P1, E1, T1)
    <2>1. Grown(u, new, r)
      BY <1>4
    <2> QED
      BY <1>5, <2>1, StreamGrows, LiveGrows
  <1> QED
    BY <1>1, <1>3, <1>6 DEF RingAs, Rings, Puts

\* A prefix of a sequence has its subsequences.
LEMMA SamePart ==
    ASSUME NEW s \in Seq(Records), NEW t \in Seq(Records), NEW r, Grown(s, t, r),
           NEW lo \in Nat, 1 <= lo, NEW hi \in Nat, hi <= Len(s)
    PROVE  SubSeq(t, lo, hi) = SubSeq(s, lo, hi)
  <1>1. Len(s) \in Nat /\ hi <= Len(t)
    BY DEF Grown
  <1>2. CASE lo > hi
    BY <1>2
  <1>3. CASE lo <= hi
    <2>1. PICK a : a = SubSeq(s, lo, hi)
      OBVIOUS
    <2>2. PICK b : b = SubSeq(t, lo, hi)
      OBVIOUS
    <2>3. a \in Seq(Records) /\ Len(a) = (hi - lo) + 1 /\ \A i \in 1 .. (hi - lo) + 1 : a[i] = s[(lo + i) - 1]
      BY <1>1, <1>3, <2>1
    <2>4. b \in Seq(Records) /\ Len(b) = (hi - lo) + 1 /\ \A i \in 1 .. (hi - lo) + 1 : b[i] = t[(lo + i) - 1]
      BY <1>1, <1>3, <2>2
    <2>5. \A i \in 1 .. (hi - lo) + 1 : a[i] = b[i]
      <3> SUFFICES ASSUME NEW i \in 1 .. (hi - lo) + 1
                   PROVE  a[i] = b[i]
        OBVIOUS
      <3>1. (lo + i) - 1 \in 1 .. Len(s)
        BY <1>1, <1>3
      <3>2. t[(lo + i) - 1] = s[(lo + i) - 1]
        BY <3>1 DEF Grown
      <3> QED
        BY <2>3, <2>4, <3>2
    <2>6. a = b
      BY <2>3, <2>4, <2>5
    <2> QED
      BY <2>1, <2>2, <2>6
  <1> QED
    BY <1>2, <1>3

\* The first record of a grown sequence was the first, or is the new one.
LEMMA FirstGrows ==
    ASSUME NEW s, NEW t, NEW r, Grown(s, t, r), NEW lo \in DOMAIN t, FirstEvent(t, lo)
    PROVE  \/ lo \in DOMAIN s /\ lo \in 1 .. Len(s) /\ t[lo] = s[lo] /\ FirstEvent(s, lo)
           \/ lo = Len(s) + 1 /\ t[lo] = r /\ \A k \in DOMAIN s : s[k] \notin Event
  <1>1. /\ Len(s) \in Nat /\ DOMAIN s = 1 .. Len(s) /\ DOMAIN t = 1 .. Len(s) + 1 /\ t[Len(s) + 1] = r
        /\ \A i \in 1 .. Len(s) : t[i] = s[i]
    BY DEF Grown
  <1>2. t[lo] \in Event /\ \A k \in 1 .. lo - 1 : t[k] \notin Event
    BY DEF FirstEvent
  <1>3. CASE lo \in 1 .. Len(s)
    <2>1. \A k \in 1 .. lo - 1 : k \in 1 .. Len(s)
      BY <1>1, <1>3
    <2>2. \A k \in 1 .. lo - 1 : s[k] \notin Event
      BY <1>1, <1>2, <2>1
    <2> QED
      BY <1>1, <1>2, <1>3, <2>2 DEF FirstEvent
  <1>4. CASE lo = Len(s) + 1
    <2>1. \A k \in 1 .. Len(s) : k \in 1 .. lo - 1
      BY <1>1, <1>4
    <2> QED
      BY <1>1, <1>2, <1>4, <2>1
  <1> QED
    BY <1>1, <1>3, <1>4

LEMMA OpenGrows ==
    ASSUME NEW s \in Seq(Records), NEW t \in Seq(Records), NEW r \in Event, Grown(s, t, r), NEW last \in Int,
           OpenSound(s), OpenLiveAs(s, last), r.after = last, NEW last1
    PROVE  OpenSound(t) /\ OpenLiveAs(t, last1)
  <1>1. /\ Len(s) \in Nat /\ DOMAIN s = 1 .. Len(s) /\ DOMAIN t = 1 .. Len(t) /\ Len(t) = Len(s) + 1
        /\ t[Len(s) + 1] = r /\ \A i \in 1 .. Len(s) : t[i] = s[i]
    BY DEF Grown
  <1>2. r \notin Provenances /\ r \notin Triggers
    <2>1. r \in Records
      BY DEF Records
    <2> QED
      BY <2>1, Kinds
  <1>3. PICK ti \in DOMAIN s : /\ s[ti] \in Triggers
                               /\ (\A k \in DOMAIN s : s[k] \notin Event) =>
                                     last = Never \/ s[ti].at - last > Pre
    BY DEF OpenLiveAs
  <1>4. ti \in 1 .. Len(s) /\ t[ti] = s[ti] /\ ti \in DOMAIN t
    BY <1>1, <1>3
  <1>5. s[1] \in Provenances /\ s[1].windowed /\ t[1] = s[1] /\ s # <<>> /\ 1 \in 1 .. Len(s)
    <2>1. 1 \in 1 .. Len(s) /\ s # <<>>
      BY <1>1, <1>4
    <2> QED
      BY <1>1, <2>1 DEF OpenSound
  <1>6. ASSUME NEW i \in 2 .. Len(t)
        PROVE  t[i] \notin Provenances
    <2>1. CASE i <= Len(s)
      BY <1>1, <2>1 DEF OpenSound
    <2>2. CASE i > Len(s)
      BY <1>1, <1>2, <2>2
    <2> QED
      BY <1>1, <2>1, <2>2
  <1>7. ASSUME NEW i \in DOMAIN t, t[i] \in Triggers
        PROVE  /\ t[i].pre_kept = i - 2
               /\ \A k \in DOMAIN t : k # i => t[k] \notin Triggers
               /\ \A k \in 2 .. i - 1 : t[k].at <= t[i].at /\ t[i].at - t[k].at <= Pre
               /\ \A lo \in DOMAIN t : FirstEvent(t, lo) => Reaches(t, lo, i)
    <2>1. i \in 1 .. Len(s) /\ t[i] = s[i] /\ s[i] \in Triggers /\ i \in DOMAIN s
      BY <1>1, <1>2, <1>7
    <2>2. /\ s[i].pre_kept = i - 2
          /\ \A k \in DOMAIN s : k # i => s[k] \notin Triggers
          /\ \A k \in 2 .. i - 1 : s[k].at <= s[i].at /\ s[i].at - s[k].at <= Pre
          /\ \A lo \in DOMAIN s : FirstEvent(s, lo) => Reaches(s, lo, i)
      BY <2>1 DEF OpenSound
    <2>3. \A k \in DOMAIN t : k # i => t[k] \notin Triggers
      BY <1>1, <1>2, <2>2
    <2>4. ASSUME NEW k \in 2 .. i - 1
          PROVE  t[k].at <= t[i].at /\ t[i].at - t[k].at <= Pre
      <3>1. k \in 1 .. Len(s)
        BY <1>1, <2>1
      <3>2. t[k] = s[k]
        BY <1>1, <3>1
      <3> QED
        BY <2>1, <2>2, <3>2
    <2>5. ASSUME NEW lo \in DOMAIN t, FirstEvent(t, lo)
          PROVE  Reaches(t, lo, i)
      <3>1. CASE lo \in DOMAIN s /\ lo \in 1 .. Len(s) /\ t[lo] = s[lo] /\ FirstEvent(s, lo)
        <4>1. Reaches(s, lo, i)
          BY <2>2, <3>1
        <4>2. SubSeq(t, lo, i - 1) = SubSeq(s, lo, i - 1)
          <5>1. lo \in Nat /\ 1 <= lo /\ i - 1 \in Nat /\ i - 1 <= Len(s)
            BY <1>1, <2>1, <3>1
          <5>2. PICK hi : hi = i - 1
            OBVIOUS
          <5>3. hi \in Nat /\ hi <= Len(s)
            BY <5>1, <5>2
          <5>4. SubSeq(t, lo, hi) = SubSeq(s, lo, hi)
            BY <5>1, <5>3, SamePart
          <5> QED
            BY <5>2, <5>4
        <4> QED
          BY <2>1, <3>1, <4>1, <4>2 DEF Reaches
      <3>2. CASE lo = Len(s) + 1 /\ t[lo] = r /\ \A k \in DOMAIN s : s[k] \notin Event
        <4>1. ti = i
          BY <1>3, <2>2
        <4>2. last = Never \/ t[i].at - t[lo].after > Pre
          BY <1>3, <1>4, <3>2, <4>1
        <4> QED
          BY <3>2, <4>2 DEF Reaches
      <3> QED
        BY <2>5, <3>1, <3>2, FirstGrows
    <2> QED
      BY <2>1, <2>2, <2>3, <2>4, <2>5
  <1>8. OpenSound(t)
    BY <1>5, <1>6, <1>7 DEF OpenSound
  <1>9. OpenLiveAs(t, last1)
    <2>1. Len(s) + 1 \in DOMAIN t /\ t[Len(s) + 1] \in Event
      BY <1>1
    <2> QED
      BY <1>3, <1>4, <2>1 DEF OpenLiveAs
  <1> QED
    BY <1>8, <1>9

LEMMA BootGrows ==
    ASSUME NEW s \in Seq(Records), NEW t \in Seq(Records), NEW r \in Event, Grown(s, t, r), NEW count \in Nat,
           BootSound(s), BootLiveAs(s, count), r.n = count + 1, NEW count1
    PROVE  BootSound(t) /\ BootLiveAs(t, count1)
  <1>1. /\ Len(s) \in Nat /\ DOMAIN s = 1 .. Len(s) /\ DOMAIN t = 1 .. Len(t) /\ Len(t) = Len(s) + 1
        /\ t[Len(s) + 1] = r /\ \A i \in 1 .. Len(s) : t[i] = s[i]
    BY DEF Grown
  <1>2. /\ s # <<>> /\ s[1] \in Provenances /\ ~s[1].windowed /\ s[1].at = 0
        /\ \A i \in 2 .. Len(s) : s[i] \in Event
        /\ \A lo \in DOMAIN s : FirstEvent(s, lo) => s[lo].n = 1
    BY DEF BootSound
  <1>3. 1 \in 1 .. Len(s) /\ t[1] = s[1] /\ t # <<>>
    <2>1. 1 \in 1 .. Len(s)
      BY <1>2
    <2>2. Len(t) # 0
      BY <1>1
    <2> QED
      BY <1>1, <2>1, <2>2
  <1>4. ASSUME NEW i \in 2 .. Len(t)
        PROVE  t[i] \in Event
    <2>1. CASE i <= Len(s)
      BY <1>1, <1>2, <2>1
    <2>2. CASE i > Len(s)
      BY <1>1, <2>2
    <2> QED
      BY <1>1, <2>1, <2>2
  <1>5. ASSUME NEW lo \in DOMAIN t, FirstEvent(t, lo)
        PROVE  t[lo].n = 1
    <2>1. CASE lo \in DOMAIN s /\ lo \in 1 .. Len(s) /\ t[lo] = s[lo] /\ FirstEvent(s, lo)
      BY <1>2, <2>1
    <2>2. CASE lo = Len(s) + 1 /\ t[lo] = r /\ \A k \in DOMAIN s : s[k] \notin Event
      BY <2>2 DEF BootLiveAs
    <2> QED
      BY <1>5, <2>1, <2>2, FirstGrows
  <1>6. Len(s) + 1 \in DOMAIN t /\ t[Len(s) + 1] \in Event
    BY <1>1
  <1> QED
    BY <1>2, <1>3, <1>4, <1>5, <1>6 DEF BootSound, BootLiveAs

\* The same for the RAM backend, which may be full or fill up.
OpenStore(store, P, E, T, last) ==
    /\ store \in Stores1 /\ Stream(store.recs) /\ OpenSound(store.recs)
    /\ ~store.full => LiveAs(store.recs, P, E, T) /\ OpenLiveAs(store.recs, last)
BootStore(store, P, E, T, count) ==
    /\ store \in Stores1 /\ Stream(store.recs) /\ BootSound(store.recs)
    /\ ~store.full => LiveAs(store.recs, P, E, T) /\ BootLiveAs(store.recs, count)

LEMMA OneWritten ==
    ASSUME NEW store \in Stores1, NEW r \in Event, NEW w, w = ramWrite(store, <<r>>)
    PROVE  /\ w \in Stores1
           /\ \/ w.full /\ w.recs = store.recs
              \/ ~store.full /\ ~w.full /\ store.recs \in Seq(Records) /\ w.recs \in Seq(Records)
                 /\ Grown(store.recs, w.recs, r)
  <1>1. r \in Records
    BY DEF Records
  <1>2. PICK e : e = <<r>>
    OBVIOUS
  <1>3. e \in Seq(Records) /\ w = ramWrite(store, e)
    BY <1>1, <1>2
  <1>4. /\ w \in Stores1
        /\ \/ w.full /\ w.recs = store.recs
           \/ ~store.full /\ ~w.full /\ w.recs = store.recs \o e
    BY <1>3, WriteIs
  <1>5. store.recs \in Seq(Records) /\ w.recs \in Seq(Records)
    BY <1>4 DEF Stores1
  <1>6. PICK s : s = store.recs
    OBVIOUS
  <1>7. Grown(s, s \o <<r>>, r)
    BY <1>1, <1>5, <1>6, GrownBy
  <1> QED
    BY <1>2, <1>4, <1>5, <1>6, <1>7

LEMMA OpenWritten ==
    ASSUME NEW store, NEW P, NEW E, NEW T, NEW last \in Int, OpenStore(store, P, E, T, last),
           NEW r \in Event, r.after = last, JoinsAs(r, P, E, T),
           NEW P1, NEW E1, NEW T1, EndsAs(r, P, E, T, P1, E1, T1), NEW last1,
           NEW w, w = ramWrite(store, <<r>>)
    PROVE  OpenStore(w, P1, E1, T1, last1)
  <1>1. store \in Stores1 /\ Stream(store.recs) /\ OpenSound(store.recs)
    BY DEF OpenStore
  <1>2. /\ w \in Stores1
        /\ \/ w.full /\ w.recs = store.recs
           \/ ~store.full /\ ~w.full /\ store.recs \in Seq(Records) /\ w.recs \in Seq(Records)
              /\ Grown(store.recs, w.recs, r)
    BY <1>1, OneWritten
  <1>3. CASE w.full /\ w.recs = store.recs
    BY <1>1, <1>2, <1>3 DEF OpenStore
  <1>4. CASE ~store.full /\ ~w.full /\ store.recs \in Seq(Records) /\ w.recs \in Seq(Records)
              /\ Grown(store.recs, w.recs, r)
    <2>1. PICK s : s = store.recs
      OBVIOUS
    <2>2. PICK t : t = w.recs
      OBVIOUS
    <2>3. s \in Seq(Records) /\ t \in Seq(Records) /\ Grown(s, t, r) /\ Stream(s) /\ OpenSound(s)
      BY <1>1, <1>4, <2>1, <2>2
    <2>4. LiveAs(s, P, E, T) /\ OpenLiveAs(s, last)
      BY <1>4, <2>1 DEF OpenStore
    <2>5. Stream(t) /\ LiveAs(t, P1, E1, T1)
      BY <2>3, <2>4, StreamGrows, LiveGrows
    <2>6. OpenSound(t) /\ OpenLiveAs(t, last1)
      BY <2>3, <2>4, OpenGrows
    <2> QED
      BY <1>2, <2>2, <2>5, <2>6 DEF OpenStore
  <1> QED
    BY <1>2, <1>3, <1>4

LEMMA BootWritten ==
    ASSUME NEW store, NEW P, NEW E, NEW T, NEW count \in Nat, BootStore(store, P, E, T, count),
           NEW r \in Event, r.n = count + 1, JoinsAs(r, P, E, T),
           NEW P1, NEW E1, NEW T1, EndsAs(r, P, E, T, P1, E1, T1), NEW count1,
           NEW w, w = ramWrite(store, <<r>>)
    PROVE  BootStore(w, P1, E1, T1, count1)
  <1>1. store \in Stores1 /\ Stream(store.recs) /\ BootSound(store.recs)
    BY DEF BootStore
  <1>2. /\ w \in Stores1
        /\ \/ w.full /\ w.recs = store.recs
           \/ ~store.full /\ ~w.full /\ store.recs \in Seq(Records) /\ w.recs \in Seq(Records)
              /\ Grown(store.recs, w.recs, r)
    BY <1>1, OneWritten
  <1>3. CASE w.full /\ w.recs = store.recs
    BY <1>1, <1>2, <1>3 DEF BootStore
  <1>4. CASE ~store.full /\ ~w.full /\ store.recs \in Seq(Records) /\ w.recs \in Seq(Records)
              /\ Grown(store.recs, w.recs, r)
    <2>1. PICK s : s = store.recs
      OBVIOUS
    <2>2. PICK t : t = w.recs
      OBVIOUS
    <2>3. s \in Seq(Records) /\ t \in Seq(Records) /\ Grown(s, t, r) /\ Stream(s) /\ BootSound(s)
      BY <1>1, <1>4, <2>1, <2>2
    <2>4. LiveAs(s, P, E, T) /\ BootLiveAs(s, count)
      BY <1>4, <2>1 DEF BootStore
    <2>5. Stream(t) /\ LiveAs(t, P1, E1, T1)
      BY <2>3, <2>4, StreamGrows, LiveGrows
    <2>6. BootSound(t) /\ BootLiveAs(t, count1)
      BY <2>3, <2>4, BootGrows
    <2> QED
      BY <1>2, <2>2, <2>5, <2>6 DEF BootStore
  <1> QED
    BY <1>2, <1>3, <1>4

-----------------------------------------------------------------------------
(* What a marker's record joins, and what a dropped one leaves.            *)

LEMMA EntryIs ==
    /\ MarkerCount \in Nat /\ Entry \in 1 .. MarkerCount /\ Exit \in 1 .. MarkerCount
    /\ Exit - 1 = Entry /\ Exit # Entry
    /\ Policy[Entry] = SPIN_ENTRY /\ Policy[Exit] = SPIN_EXIT
  <1>1. MarkerCount \in Nat
    BY PolicyAssumption DEF MarkerCount
  <1>2. Entry \in 1 .. MarkerCount /\ Policy[Entry] = SPIN_ENTRY
    BY PolicyAssumption DEF Entry
  <1>3. Entry < MarkerCount /\ Policy[Entry + 1] = SPIN_EXIT
    BY <1>2, PolicyAssumption
  <1>4. PICK e : e = Entry
    OBVIOUS
  <1>5. e + 1 \in 1 .. MarkerCount /\ (e + 1) - 1 = e /\ e + 1 # e
    BY <1>1, <1>2, <1>3, <1>4
  <1> QED
    BY <1>1, <1>2, <1>3, <1>4, <1>5 DEF Exit

LEMMA ExitKept ==
    ASSUME NEW p, NEW arg
    PROVE  keeps(p, Exit, arg) <=> ~p.skip[Entry]
  <1>1. ~(Exit > MarkerCount) /\ Exit - 1 = Entry /\ Policy[Exit] = SPIN_EXIT
    BY EntryIs
  <1>2. SPIN_EXIT # EVERY /\ SPIN_EXIT # CHANGE /\ SPIN_EXIT # SPIN_ENTRY
    BY DEF SPIN_EXIT, EVERY, CHANGE, SPIN_ENTRY
  <1> QED
    BY <1>1, <1>2 DEF keeps

PolicyAt(m) == IF Fires(m) THEN firePolicy ELSE policy
Kept(m, arg) == ~windowed \/ keeps(PolicyAt(m), m, arg)

PolicyTypes == [seen : [1 .. MarkerCount -> BOOLEAN], last : [1 .. MarkerCount -> Args],
                skip : [1 .. MarkerCount -> BOOLEAN], spins : [1 .. MarkerCount -> Nat]]

LEMMA PolicyAtIs ==
    ASSUME WindowTypes, NEW m
    PROVE  PolicyAt(m) \in PolicyTypes /\ PolicyAt(m).skip = policy.skip
  <1>1. policy \in PolicyTypes
    BY DEF WindowTypes, PolicyTypes
  <1>2. clearPolicy.seen \in [1 .. MarkerCount -> BOOLEAN] /\ clearPolicy.spins \in [1 .. MarkerCount -> Nat]
    BY DEF clearPolicy
  <1>3. PICK a : a = clearPolicy.seen
    OBVIOUS
  <1>4. PICK b : b = clearPolicy.spins
    OBVIOUS
  <1>5. firePolicy = [policy EXCEPT !.seen = a, !.spins = b]
    BY <1>3, <1>4 DEF firePolicy
  <1>6. firePolicy \in PolicyTypes /\ firePolicy.skip = policy.skip
    BY <1>1, <1>2, <1>3, <1>4, <1>5 DEF PolicyTypes
  <1> QED
    BY <1>1, <1>6 DEF PolicyAt

LEMMA KeepStateIs ==
    ASSUME NEW p \in PolicyTypes, NEW m, NEW arg \in Args
    PROVE  /\ keepState(p, m, arg) \in PolicyTypes
           /\ m # Entry => keepState(p, m, arg).skip[Entry] = p.skip[Entry]
           /\ m = Entry => keepState(p, m, arg).skip[Entry] = ~keeps(p, m, arg)
  <1>1. PICK k \in BOOLEAN : k = keeps(p, m, arg)
    BY DEF keeps
  <1>2. CASE m > MarkerCount \/ Policy[m] \notin {CHANGE, SPIN_ENTRY}
    <2>1. keepState(p, m, arg) = p
      BY <1>2 DEF keepState
    <2>2. m # Entry
      BY <1>2, EntryIs
    <2> QED
      BY <2>1, <2>2
  <1>3. CASE ~(m > MarkerCount \/ Policy[m] \notin {CHANGE, SPIN_ENTRY})
    <2>1. PICK noted : noted = [p EXCEPT !.seen[m] = TRUE, !.last[m] = arg]
      OBVIOUS
    <2>2. noted \in PolicyTypes /\ noted.skip = p.skip /\ noted.spins = p.spins
      <3>1. PICK a : a = [p.seen EXCEPT ![m] = TRUE]
        OBVIOUS
      <3>2. PICK b : b = [p.last EXCEPT ![m] = arg]
        OBVIOUS
      <3>3. a \in [1 .. MarkerCount -> BOOLEAN] /\ b \in [1 .. MarkerCount -> Args]
        BY <3>1, <3>2 DEF PolicyTypes
      <3>4. noted = [p EXCEPT !.seen = a, !.last = b]
        BY <2>1, <3>1, <3>2 DEF PolicyTypes
      <3> QED
        BY <3>3, <3>4 DEF PolicyTypes
    <2>3. CASE Policy[m] = CHANGE
      <3>1. keepState(p, m, arg) = noted
        BY <1>3, <2>1, <2>3 DEF keepState
      <3>2. m # Entry
        BY <2>3, EntryIs DEF CHANGE, SPIN_ENTRY
      <3> QED
        BY <2>2, <3>1, <3>2
    <2>4. CASE Policy[m] # CHANGE
      <3>1. PICK c : c = [p.skip EXCEPT ![m] = ~k]
        OBVIOUS
      <3>2. PICK d : d = [p.spins EXCEPT ![m] = IF k THEN 0 ELSE p.spins[m] + 1]
        OBVIOUS
      <3>3. c \in [1 .. MarkerCount -> BOOLEAN]
        BY <3>1 DEF PolicyTypes
      <3>4. d \in [1 .. MarkerCount -> Nat]
        <4>1. p.spins \in [1 .. MarkerCount -> Nat]
          BY DEF PolicyTypes
        <4>2. PICK f : f = p.spins
          OBVIOUS
        <4>3. PICK v : v = IF k THEN 0 ELSE p.spins[m] + 1
          OBVIOUS
        <4>4. f \in [1 .. MarkerCount -> Nat] /\ d = [f EXCEPT ![m] = v]
          BY <3>2, <4>1, <4>2, <4>3
        <4>5. CASE m \in 1 .. MarkerCount
          <5>1. f[m] \in Nat
            BY <4>4, <4>5
          <5>2. v \in Nat
            BY <4>2, <4>3, <5>1
          <5> QED
            BY <4>4, <5>2
        <4>6. CASE m \notin 1 .. MarkerCount
          <5>1. d = f
            BY <4>4, <4>6
          <5> QED
            BY <4>4, <5>1
        <4> QED
          BY <4>5, <4>6
      <3>5. keepState(p, m, arg) = [noted EXCEPT !.skip = c, !.spins = d]
        <4>1. keepState(p, m, arg) = [noted EXCEPT !.skip[m] = ~k, !.spins[m] = IF k THEN 0 ELSE @ + 1]
          BY <1>1, <1>3, <2>1, <2>4 DEF keepState
        <4> QED
          BY <2>2, <3>1, <3>2, <4>1 DEF PolicyTypes
      <3>6. keepState(p, m, arg) \in PolicyTypes /\ keepState(p, m, arg).skip = c
        BY <2>2, <3>3, <3>4, <3>5 DEF PolicyTypes
      <3>7. p.skip \in [1 .. MarkerCount -> BOOLEAN] /\ Entry \in 1 .. MarkerCount
        BY EntryIs DEF PolicyTypes
      <3> QED
        BY <1>1, <3>1, <3>6, <3>7
    <2> QED
      BY <2>3, <2>4
  <1> QED
    BY <1>2, <1>3

\* The next step's ends, as rigid sets.
EndsNext(P1, E1, T1) ==
    /\ P1 = {x \in OfPath : inPath' /\ ~policy'.skip[Entry] => x.marker = Entry /\ x.run = runs'}
    /\ E1 = {x \in Event : x.n = emitted' /\ x.at = lastAt'}
    /\ T1 = {x \in Timed : nextBeat' - HbPeriod <= x.at /\ x.at <= now'}

LEMMA MarkerDoes ==
    ASSUME NEW m, NEW arg, Trace(m, arg)
    PROVE  /\ emitted' = IF Kept(m, arg) THEN emitted + 1 ELSE emitted
           /\ lastAt' = IF Kept(m, arg) THEN now ELSE lastAt
           /\ policy' = IF windowed THEN keepState(PolicyAt(m), m, arg) ELSE policy
           /\ m = Exit => inPath
           /\ inPath' = IF m \in {Entry, Exit} THEN m = Entry ELSE inPath
           /\ runs' = IF m = Entry THEN runs + 1 ELSE runs
           /\ UNCHANGED <<windowed, now, nextBeat, hb_seq>>
  <1>1. marker_windowed(m, arg, runs')
    BY DEF Trace
  <1>2. PICK run : run = runs'
    OBVIOUS
  <1>3. marker_windowed(m, arg, run)
    BY <1>1, <1>2
  <1>4. /\ emitted' = IF Kept(m, arg) THEN emitted + 1 ELSE emitted
        /\ lastAt' = IF Kept(m, arg) THEN now ELSE lastAt
        /\ policy' = IF windowed THEN keepState(PolicyAt(m), m, arg) ELSE policy
        /\ hb_seq' = hb_seq
    BY <1>3 DEF marker_windowed, Kept, PolicyAt
  <1>5. m = Exit => inPath
    BY EntryIs DEF Trace
  <1> QED
    BY <1>4, <1>5 DEF Trace

LEMMA MarkerKept ==
    ASSUME WindowTypes, NEW e \in Emits, NEW m, m = e[1], NEW arg, arg = e[2], Trace(m, arg),
           NEW r, r = Marker(m, arg, runs'), NEW P1, NEW E1, NEW T1, EndsNext(P1, E1, T1)
    PROVE  /\ r \in Event /\ r.at = now /\ r.n = emitted + 1 /\ r.after = lastAt
           /\ Kept(m, arg) => /\ JoinsAs(r, LastPath, LastEvent, LastTimed)
                              /\ EndsAs(r, LastPath, LastEvent, LastTimed, P1, E1, T1)
           /\ ~Kept(m, arg) => LastPath \subseteq P1 /\ LastEvent \subseteq E1 /\ LastTimed \subseteq T1
  <1>1. /\ emitted' = IF Kept(m, arg) THEN emitted + 1 ELSE emitted
        /\ lastAt' = IF Kept(m, arg) THEN now ELSE lastAt
        /\ policy' = IF windowed THEN keepState(PolicyAt(m), m, arg) ELSE policy
        /\ m = Exit => inPath
        /\ inPath' = IF m \in {Entry, Exit} THEN m = Entry ELSE inPath
        /\ runs' = IF m = Entry THEN runs + 1 ELSE runs
        /\ now' = now /\ nextBeat' = nextBeat
    BY MarkerDoes
  <1>2. /\ now \in Nat /\ nextBeat \in Nat /\ runs \in Nat /\ emitted \in Nat /\ lastAt \in Nat \union {Never}
        /\ windowed \in BOOLEAN
        /\ ~windowed => ~policy.skip[Entry]
    BY DEF WindowTypes
  <1>3. PICK run \in Nat : run = runs'
    BY <1>1, <1>2
  <1>4. r = Marker(m, arg, run)
    BY <1>3
  <1>5. /\ r.marker = m /\ r.at = now /\ r.n = emitted + 1 /\ r.after = lastAt /\ r.run = run
        /\ r \in Markers
    <2>1. now % Wrap \in Nat
      <3>1. Wrap \in Nat /\ Wrap > 0
        BY WindowAssumption
      <3> QED
        BY <1>2, <3>1
    <2> QED
      BY <1>2, <1>4, <2>1 DEF Marker, Markers, Stamped, Stamp
  <1>6. r \in Event /\ r \in Timed /\ (r \in OfPath <=> m \in {Entry, Exit})
    <2>1. r \in Event /\ r \in Records
      BY <1>5 DEF Event, Records
    <2> QED
      BY <1>5, <2>1, Kinds DEF OfPath
  <1>7. r \in LastTimed /\ \A q \in LastTimed : <<q, r>> \in TimedPairs
    BY <1>5, <1>6, TimedNow
  <1>8. LastTimed = T1
    BY <1>1 DEF EndsNext, LastTimed
  <1>9. \A q \in LastEvent : <<q, r>> \in EventPairs
    BY <1>5, <1>6 DEF LastEvent, EventPairs
  <1>10. PICK skip : skip = policy.skip[Entry]
    OBVIOUS
  <1>11. PICK skip1 : skip1 = policy'.skip[Entry]
    OBVIOUS
  <1>12. /\ m # Entry => skip1 = skip
         /\ windowed /\ m = Entry => skip1 = ~Kept(m, arg)
         /\ m = Exit /\ Kept(m, arg) => ~skip
    <2>1. PICK p : p = PolicyAt(m)
      OBVIOUS
    <2>2. p \in PolicyTypes /\ p.skip[Entry] = skip
      BY <1>10, <2>1, PolicyAtIs
    <2>3. arg \in Args
      BY DEF Args
    <2>4. PICK q : q = keepState(p, m, arg)
      OBVIOUS
    <2>5. /\ m # Entry => q.skip[Entry] = p.skip[Entry]
          /\ m = Entry => q.skip[Entry] = ~keeps(p, m, arg)
      BY <2>2, <2>3, <2>4, KeepStateIs
    <2>6. windowed => skip1 = q.skip[Entry]
      BY <1>1, <1>11, <2>1, <2>4
    <2>7. ~windowed => skip1 = skip
      BY <1>1, <1>10, <1>11
    <2>8. windowed => (Kept(m, arg) <=> keeps(p, m, arg))
      BY <2>1 DEF Kept
    <2>9. keeps(p, m, arg) \in BOOLEAN /\ Kept(m, arg) \in BOOLEAN
      BY DEF keeps, Kept
    <2>10. m # Entry => skip1 = skip
      BY <1>2, <2>2, <2>5, <2>6, <2>7
    <2>11. windowed /\ m = Entry => skip1 = ~Kept(m, arg)
      <3>1. windowed => (keeps(p, m, arg) = Kept(m, arg))
        BY <2>8, <2>9
      <3> QED
        BY <2>5, <2>6, <3>1
    <2>12. m = Exit /\ Kept(m, arg) => ~skip
      <3>1. keeps(p, Exit, arg) <=> ~p.skip[Entry]
        BY ExitKept
      <3>2. CASE windowed
        BY <2>2, <2>8, <3>1, <3>2
      <3>3. CASE ~windowed
        BY <1>2, <1>10, <3>3
      <3> QED
        BY <3>2, <3>3
    <2> QED
      BY <2>10, <2>11, <2>12
  <1>13. P1 = {x \in OfPath : inPath' /\ ~skip1 => x.marker = Entry /\ x.run = run}
    BY <1>3, <1>11 DEF EndsNext
  <1>14. LastPath = {x \in OfPath : inPath /\ ~skip => x.marker = Entry /\ x.run = runs}
    BY <1>10 DEF LastPath
  <1>15. ASSUME Kept(m, arg)
         PROVE  JoinsAs(r, LastPath, LastEvent, LastTimed)
    <2>1. ASSUME r \in OfPath, NEW q \in LastPath
          PROVE  <<q, r>> \in PathPairs
      <3>1. q \in OfPath
        BY <1>14
      <3>2. CASE m = Entry
        <4>1. r.marker # Exit
          BY <1>5, <3>2, EntryIs
        <4> QED
          BY <2>1, <3>1, <4>1 DEF PathPairs
      <3>3. CASE m = Exit
        <4>1. inPath /\ ~skip /\ run = runs
          BY <1>1, <1>3, <1>12, <1>15, <3>3, EntryIs
        <4>2. q.marker = Entry /\ q.run = runs
          BY <1>14, <4>1
        <4> QED
          BY <1>5, <2>1, <3>1, <4>1, <4>2 DEF PathPairs
      <3> QED
        BY <1>6, <2>1, <3>2, <3>3
    <2> QED
      BY <1>7, <1>9, <2>1 DEF JoinsAs
  <1>16. ASSUME Kept(m, arg)
         PROVE  EndsAs(r, LastPath, LastEvent, LastTimed, P1, E1, T1)
    <2>1. r \in E1
      BY <1>1, <1>5, <1>6, <1>16 DEF EndsNext
    <2>2. r \in T1
      BY <1>7, <1>8
    <2>3. ASSUME r \in OfPath
          PROVE  r \in P1
      <3>1. CASE m = Entry
        BY <1>5, <1>13, <2>3, <3>1
      <3>2. CASE m = Exit
        <4>1. ~inPath'
          BY <1>1, <3>2, EntryIs
        <4> QED
          BY <1>13, <2>3, <4>1
      <3> QED
        BY <1>6, <2>3, <3>1, <3>2
    <2>4. ASSUME r \notin OfPath
          PROVE  LastPath \subseteq P1
      <3>1. m # Entry /\ m # Exit
        BY <1>6, <2>4
      <3>2. inPath' = inPath /\ run = runs /\ skip1 = skip
        BY <1>1, <1>3, <1>12, <3>1
      <3> QED
        BY <1>13, <1>14, <3>2
    <2> QED
      BY <1>6, <2>1, <2>2, <2>3, <2>4 DEF EndsAs
  <1>17. ASSUME ~Kept(m, arg)
         PROVE  LastPath \subseteq P1 /\ LastEvent \subseteq E1 /\ LastTimed \subseteq T1
    <2>1. LastEvent \subseteq E1
      BY <1>1, <1>17 DEF EndsNext, LastEvent
    <2>2. windowed
      BY <1>2, <1>17 DEF Kept
    <2>3. CASE m = Entry
      <3>1. skip1
        BY <1>12, <1>17, <2>2, <2>3
      <3> QED
        BY <1>8, <1>13, <1>14, <2>1, <3>1
    <2>4. CASE m = Exit
      <3>1. ~inPath'
        BY <1>1, <2>4, EntryIs
      <3> QED
        BY <1>8, <1>13, <1>14, <2>1, <3>1
    <2>5. CASE m # Entry /\ m # Exit
      <3>1. inPath' = inPath /\ run = runs /\ skip1 = skip
        BY <1>1, <1>3, <1>12, <2>5
      <3> QED
        BY <1>8, <1>13, <1>14, <2>1, <3>1
    <2> QED
      BY <2>3, <2>4, <2>5
  <1> QED
    BY <1>5, <1>6, <1>15, <1>16, <1>17

-----------------------------------------------------------------------------
(* The window's invariant, step by step.                                   *)

\* A window that waits, by what the ring ends with.
WaitStore(store, halves, all, P, E, T, last) ==
    /\ RingAs(halves, all, P, E, T, last)
    /\ Stream(store.recs) /\ WaitSound(store.recs) /\ (store.recs = <<>> => store.full)

LEMMA WInvGives ==
    ASSUME WInv, NEW all, all = AllOfRing
    PROVE  /\ WindowTypes
           /\ windowed /\ ~flags.triggered =>
                 RingSound /\ WaitStore(ram, ring, all, LastPath, LastEvent, LastTimed, lastAt)
           /\ windowed /\ flags.triggered => OpenStore(ram, LastPath, LastEvent, LastTimed, lastAt)
           /\ ~windowed => BootStore(ram, LastPath, LastEvent, LastTimed, emitted)
  <1>1. WindowTypes /\ Stream(ram.recs)
    BY DEF WInv
  <1>2. ram \in Stores1
    BY <1>1 DEF WindowTypes, Stores1
  <1>3. windowed /\ ~flags.triggered => RingSound /\ WaitSound(ram.recs) /\ (ram.recs = <<>> => ram.full)
    BY DEF WInv
  <1>4. RingSound => RingAs(ring, all, LastPath, LastEvent, LastTimed, lastAt)
    BY RingSoundIs
  <1>5. windowed /\ flags.triggered => OpenStore(ram, LastPath, LastEvent, LastTimed, lastAt)
    BY <1>1, <1>2 DEF WInv, OpenStore, Live, OpenLive
  <1>6. ~windowed => BootStore(ram, LastPath, LastEvent, LastTimed, emitted)
    BY <1>1, <1>2 DEF WInv, BootStore, Live
  <1> QED
    BY <1>1, <1>3, <1>4, <1>5, <1>6 DEF WaitStore

LEMMA WInvFrom ==
    ASSUME WindowTypes', NEW P1, NEW E1, NEW T1, EndsNext(P1, E1, T1), NEW all1, all1 = ring'.old \o ring'.cur,
           windowed' /\ ~flags'.triggered => WaitStore(ram', ring', all1, P1, E1, T1, lastAt'),
           windowed' /\ flags'.triggered => OpenStore(ram', P1, E1, T1, lastAt'),
           ~windowed' => BootStore(ram', P1, E1, T1, emitted')
    PROVE  WInv'
  <1>1. P1 = LastPath' /\ E1 = LastEvent' /\ T1 = LastTimed'
    BY DEF EndsNext, LastPath, LastEvent, LastTimed
  <1>2. Stream(ram.recs)'
    <2>1. Stream(ram'.recs)
      BY DEF WindowTypes, WaitStore, OpenStore, BootStore
    <2> QED
      BY <2>1
  <1>3. windowed' /\ ~flags'.triggered => RingSound' /\ WaitSound(ram.recs)' /\ (ram.recs = <<>> => ram.full)'
    <2>1. RingSound' <=> RingAs(ring', all1, P1, E1, T1, lastAt')
      BY <1>1 DEF RingSound, RingAs, HalvesSound, AllOfRing, Live
    <2> QED
      BY <2>1 DEF WaitStore
  <1>4. windowed' /\ flags'.triggered =>
            OpenSound(ram.recs)' /\ (~ram.full => Live(ram.recs) /\ OpenLive(ram.recs))'
    BY <1>1 DEF OpenStore, Live, OpenLive
  <1>5. ~windowed' => BootSound(ram.recs)' /\ (~ram.full => Live(ram.recs) /\ BootLiveAs(ram.recs, emitted))'
    BY <1>1 DEF BootStore, Live
  <1> QED
    BY <1>2, <1>3, <1>4, <1>5 DEF WInv

LEMMA MarkerWrites ==
    ASSUME WindowTypes, NEW m, NEW arg, Trace(m, arg), NEW r, r = Marker(m, arg, runs')
    PROVE  /\ ~windowed => ram' = ramWrite(ram, <<r>>) /\ UNCHANGED <<ring, policy, flags, counts>>
           /\ windowed /\ ~flags.triggered /\ ~Fires(m) =>
                 /\ ram' = ram /\ ~flags'.triggered
                 /\ ring' = IF Kept(m, arg) THEN pre_put(ring, r) ELSE ring
           /\ windowed /\ (flags.triggered \/ Fires(m)) =>
                 /\ flags'.triggered /\ ring' = ring
                 /\ LET store == IF Fires(m) THEN fireRam(m) ELSE ram
                    IN  ram' = IF Kept(m, arg) THEN ramWrite(store, <<r>>) ELSE store
           /\ flags' \in [armed : BOOLEAN, reopen : BOOLEAN, triggered : BOOLEAN]
           /\ (Fires(m) => kept \in Int) => counts' \in [filtered : Nat, pre_n : Nat, pre_lost : Int]
           /\ Fires(m) => windowed /\ ~flags.triggered
           /\ hb_seq' = hb_seq
  <1>1. marker_windowed(m, arg, runs')
    BY DEF Trace
  <1>2. PICK run : run = runs'
    OBVIOUS
  <1>3. marker_windowed(m, arg, run) /\ r = Marker(m, arg, run)
    BY <1>1, <1>2
  <1>4. flags \in [armed : BOOLEAN, reopen : BOOLEAN, triggered : BOOLEAN]
        /\ counts \in [filtered : Nat, pre_n : Nat, pre_lost : Int]
    BY DEF WindowTypes
  <1>5. PICK k \in BOOLEAN : k = keeps(PolicyAt(m), m, arg)
    BY DEF keeps
  <1>6. windowed => (Kept(m, arg) <=> k)
    BY <1>5 DEF Kept
  <1>7. Fires(m) => windowed /\ ~flags.triggered
    BY DEF Fires
  <1>8. CASE ~windowed
    BY <1>3, <1>4, <1>7, <1>8 DEF marker_windowed
  <1>9. CASE windowed
    <2>1. PICK f \in BOOLEAN : f = Fires(m)
      BY DEF Fires
    <2>2. PICK store : store = IF f THEN fireRam(m) ELSE ram
      OBVIOUS
    <2>3. PICK arm : arm = (m = ArmMarker /\ arg # 0)
      OBVIOUS
    <2>4. /\ flags' = [flags EXCEPT !.triggered = flags.triggered \/ f,
                                    !.armed = flags.armed \/ (~flags.triggered /\ m = ArmMarker /\ arg # 0)]
          /\ ram' = IF k /\ (flags.triggered \/ f) THEN ramWrite(store, <<r>>) ELSE store
          /\ ring' = IF k /\ ~(flags.triggered \/ f) THEN pre_put(ring, r) ELSE ring
          /\ counts' = [filtered |-> counts.filtered + (IF k THEN 0 ELSE 1),
                        pre_n |-> counts.pre_n + (IF k /\ ~(flags.triggered \/ f) THEN 1 ELSE 0),
                        pre_lost |-> IF f THEN counts.pre_n - kept ELSE counts.pre_lost]
          /\ hb_seq' = hb_seq
      BY <1>3, <1>4, <1>5, <1>9, <2>1, <2>2 DEF marker_windowed, PolicyAt
    <2>5. flags' \in [armed : BOOLEAN, reopen : BOOLEAN, triggered : BOOLEAN]
          /\ (flags'.triggered <=> flags.triggered \/ f)
      BY <1>4, <2>4
    <2>6. (f => kept \in Int) => counts' \in [filtered : Nat, pre_n : Nat, pre_lost : Int]
      BY <1>4, <2>4
    <2> QED
      BY <1>6, <1>7, <1>9, <2>1, <2>2, <2>4, <2>5, <2>6
  <1> QED
    BY <1>4, <1>8, <1>9 DEF WindowTypes

LEMMA TriggerIs ==
    ASSUME WindowTypes, RingSound, NEW e \in Emits, NEW m, m = e[1]
    PROVE  Trigger(m) \in Triggers /\ kept \in Nat
  <1>1. kept \in Nat
    <2>1. PICK all : all = AllOfRing
      OBVIOUS
    <2>2. PICK d \in Nat :
              /\ \A i \in 1 .. Len(all) : i > d <=> now - all[i].at <= Pre
              /\ flush[1] \in Seq(Event) /\ flush[2] \in Seq(Event)
              /\ kept = Len(flush[1] \o flush[2]) /\ Len(flush[1] \o flush[2]) + d = Len(all)
              /\ Part(all, flush[1], d) /\ Part(all, flush[1] \o flush[2], d)
      BY <2>1, FlushJoined
    <2> QED
      BY <2>2 DEF Part
  <1>2. now % Wrap \in Nat
    <2>1. Wrap \in Nat /\ Wrap > 0 /\ now \in Nat
      BY WindowAssumption DEF WindowTypes
    <2> QED
      BY <2>1
  <1>3. now \in Nat /\ counts.pre_n \in Nat /\ counts.filtered \in Nat
    BY DEF WindowTypes
  <1>4. PICK n \in Nat : n = kept
    BY <1>1
  <1>5. Trigger(m) = [kind |-> "trigger", ts |-> now % Wrap, marker |-> m, pre_kept |-> n,
                      pre_lost |-> counts.pre_n - n, filtered |-> counts.filtered, at |-> now]
    BY <1>4 DEF Trigger, Stamp
  <1>6. counts.pre_n - n \in Int
    BY <1>3
  <1>7. m \in {x[1] : x \in Emits}
    OBVIOUS
  <1> QED
    BY <1>1, <1>2, <1>3, <1>5, <1>6, <1>7 DEF Triggers, Stamped

\* The types of the next state, but for the stores, the policy and the counts.
TypesNext ==
    /\ windowed' \in BOOLEAN /\ inPath' \in BOOLEAN
    /\ now' \in Nat /\ nextBeat' \in Nat /\ hb_seq' \in Nat /\ runs' \in Nat /\ emitted' \in Nat
    /\ nextBeat' - HbPeriod <= now' /\ now' <= nextBeat'
    /\ lastAt' \in Nat \union {Never}
    /\ flags' \in [armed : BOOLEAN, reopen : BOOLEAN, triggered : BOOLEAN]

LEMMA TypesFrom ==
    ASSUME TypesNext, ram' \in Stores1, ring' \in [old : Seq(Event), cur : Seq(Event)],
           policy' \in PolicyTypes, counts' \in [filtered : Nat, pre_n : Nat, pre_lost : Int],
           ~windowed' => ~policy'.skip[Entry] /\ ~flags'.triggered
    PROVE  WindowTypes'
  <1>1. (ram \in [recs : Seq(Records), full : BOOLEAN])'
    BY DEF Stores1
  <1>2. (policy \in [seen : [1 .. MarkerCount -> BOOLEAN], last : [1 .. MarkerCount -> Args],
                     skip : [1 .. MarkerCount -> BOOLEAN], spins : [1 .. MarkerCount -> Nat]])'
    BY DEF PolicyTypes
  <1> QED
    BY <1>1, <1>2 DEF WindowTypes, TypesNext

LEMMA MarkerStep ==
    ASSUME WInv, NEW e \in Emits, NEW m, m = e[1], NEW arg, arg = e[2], Trace(m, arg)
    PROVE  WInv'
  <1>1. PICK all : all = AllOfRing
    OBVIOUS
  <1>2. PICK r : r = Marker(m, arg, runs')
    OBVIOUS
  <1>3. PICK P1 : P1 = {x \in OfPath : inPath' /\ ~policy'.skip[Entry] => x.marker = Entry /\ x.run = runs'}
    OBVIOUS
  <1>4. PICK E1 : E1 = {x \in Event : x.n = emitted' /\ x.at = lastAt'}
    OBVIOUS
  <1>5. PICK T1 : T1 = {x \in Timed : nextBeat' - HbPeriod <= x.at /\ x.at <= now'}
    OBVIOUS
  <1>6. EndsNext(P1, E1, T1)
    BY <1>3, <1>4, <1>5 DEF EndsNext
  <1>7. PICK P : P = LastPath
    OBVIOUS
  <1>8. PICK E : E = LastEvent
    OBVIOUS
  <1>9. PICK T : T = LastTimed
    OBVIOUS
  <1>10. /\ WindowTypes
         /\ windowed /\ ~flags.triggered => RingSound /\ WaitStore(ram, ring, all, P, E, T, lastAt)
         /\ windowed /\ flags.triggered => OpenStore(ram, P, E, T, lastAt)
         /\ ~windowed => BootStore(ram, P, E, T, emitted)
    BY <1>1, <1>7, <1>8, <1>9, WInvGives
  <1>11. /\ r \in Event /\ r.at = now /\ r.n = emitted + 1 /\ r.after = lastAt
         /\ Kept(m, arg) => JoinsAs(r, P, E, T) /\ EndsAs(r, P, E, T, P1, E1, T1)
         /\ ~Kept(m, arg) => P \subseteq P1 /\ E \subseteq E1 /\ T \subseteq T1
    BY <1>2, <1>6, <1>7, <1>8, <1>9, <1>10, MarkerKept
  <1>12. /\ ~windowed => ram' = ramWrite(ram, <<r>>) /\ UNCHANGED <<ring, policy, flags, counts>>
         /\ windowed /\ ~flags.triggered /\ ~Fires(m) =>
               /\ ram' = ram /\ ~flags'.triggered
               /\ ring' = IF Kept(m, arg) THEN pre_put(ring, r) ELSE ring
         /\ windowed /\ (flags.triggered \/ Fires(m)) =>
               /\ flags'.triggered /\ ring' = ring
               /\ LET store == IF Fires(m) THEN fireRam(m) ELSE ram
                  IN  ram' = IF Kept(m, arg) THEN ramWrite(store, <<r>>) ELSE store
         /\ flags' \in [armed : BOOLEAN, reopen : BOOLEAN, triggered : BOOLEAN]
         /\ (Fires(m) => kept \in Int) => counts' \in [filtered : Nat, pre_n : Nat, pre_lost : Int]
         /\ Fires(m) => windowed /\ ~flags.triggered
         /\ hb_seq' = hb_seq
    BY <1>2, <1>10, MarkerWrites
  <1>13. /\ emitted' = IF Kept(m, arg) THEN emitted + 1 ELSE emitted
         /\ lastAt' = IF Kept(m, arg) THEN now ELSE lastAt
         /\ policy' = IF windowed THEN keepState(PolicyAt(m), m, arg) ELSE policy
         /\ inPath' = IF m \in {Entry, Exit} THEN m = Entry ELSE inPath
         /\ runs' = IF m = Entry THEN runs + 1 ELSE runs
         /\ UNCHANGED <<windowed, now, nextBeat, hb_seq>>
    BY MarkerDoes
  <1>14. /\ windowed \in BOOLEAN /\ inPath \in BOOLEAN
         /\ now \in Nat /\ nextBeat \in Nat /\ hb_seq \in Nat /\ runs \in Nat /\ emitted \in Nat
         /\ nextBeat - HbPeriod <= now /\ now <= nextBeat
         /\ lastAt \in Nat \union {Never} /\ lastAt \in Int
         /\ ram \in Stores1 /\ ring \in [old : Seq(Event), cur : Seq(Event)]
         /\ ~windowed => ~policy.skip[Entry] /\ ~flags.triggered
         /\ policy \in PolicyTypes /\ counts \in [filtered : Nat, pre_n : Nat, pre_lost : Int]
    BY <1>10 DEF WindowTypes, Stores1, PolicyTypes, Never
  <1>15. PICK all1 : all1 = ring'.old \o ring'.cur
    OBVIOUS
  <1>18. TypesNext
    <2>1. inPath' \in BOOLEAN /\ runs' \in Nat /\ emitted' \in Nat /\ lastAt' \in Nat \union {Never}
      <3>1. inPath' \in BOOLEAN
        BY <1>13, <1>14
      <3>2. runs' \in Nat
        BY <1>13, <1>14
      <3>3. emitted' \in Nat
        BY <1>13, <1>14
      <3>4. lastAt' \in Nat \union {Never}
        BY <1>13, <1>14
      <3> QED
        BY <3>1, <3>2, <3>3, <3>4
    <2>2. windowed' = windowed /\ now' = now /\ nextBeat' = nextBeat /\ hb_seq' = hb_seq
      BY <1>13
    <2> QED
      BY <1>12, <1>14, <2>1, <2>2 DEF TypesNext
  <1>16. CASE ~windowed
    <2>1. Kept(m, arg) /\ BootStore(ram, P, E, T, emitted)
      BY <1>10, <1>16 DEF Kept
    <2>2. BootStore(ram', P1, E1, T1, emitted')
      <3>1. PICK w : w = ramWrite(ram, <<r>>)
        OBVIOUS
      <3>2. PICK c : c = emitted
        OBVIOUS
      <3>3. PICK c1 : c1 = emitted'
        OBVIOUS
      <3>4. c \in Nat /\ r.n = c + 1 /\ BootStore(ram, P, E, T, c)
        BY <1>11, <1>14, <2>1, <3>2
      <3>5. r \in Event /\ JoinsAs(r, P, E, T) /\ EndsAs(r, P, E, T, P1, E1, T1)
        BY <1>11, <2>1
      <3>6. BootStore(w, P1, E1, T1, c1)
        BY <3>1, <3>4, <3>5, BootWritten
      <3> QED
        BY <1>12, <1>16, <3>1, <3>3, <3>6
    <2>3. ram' \in Stores1
      BY <2>2 DEF BootStore
    <2>4. WindowTypes'
      <3>1. policy' = policy /\ counts' = counts /\ flags' = flags /\ ring' = ring
        BY <1>12, <1>16
      <3>2. policy' \in PolicyTypes /\ counts' \in [filtered : Nat, pre_n : Nat, pre_lost : Int]
            /\ ring' \in [old : Seq(Event), cur : Seq(Event)] /\ (~windowed' => ~policy'.skip[Entry] /\ ~flags'.triggered)
        BY <1>14, <1>16, <3>1
      <3> QED
        BY <1>18, <2>3, <3>2, TypesFrom
    <2> QED
      BY <1>6, <1>13, <1>15, <1>16, <2>2, <2>4, WInvFrom
  <1>17. CASE windowed
    <2>1. policy' \in PolicyTypes
      <3>1. PolicyAt(m) \in PolicyTypes /\ arg \in Args
        BY <1>10, PolicyAtIs DEF Args
      <3> QED
        BY <1>13, <1>17, <3>1, KeepStateIs
    <2>2. counts' \in [filtered : Nat, pre_n : Nat, pre_lost : Int]
      <3>1. Fires(m) => kept \in Nat
        BY <1>10, <1>12, <1>17, TriggerIs
      <3>2. Fires(m) => kept \in Int
        BY <3>1
      <3> QED
        BY <1>12, <3>2
    <2>3. CASE ~flags.triggered /\ ~Fires(m)
      <3>1. RingSound /\ WaitStore(ram, ring, all, P, E, T, lastAt)
        BY <1>10, <1>17, <2>3
      <3>2. RingAs(ring, all, P, E, T, lastAt)
        BY <3>1 DEF WaitStore
      <3>3. PICK last1 : last1 = lastAt'
        OBVIOUS
      <3>4. /\ ring' \in [old : Seq(Event), cur : Seq(Event)]
            /\ RingAs(ring', all1, P1, E1, T1, last1)
        <4>1. CASE Kept(m, arg)
          <5>1. PICK put : put = pre_put(ring, r)
            OBVIOUS
          <5>2. PICK new : new = put.old \o put.cur
            OBVIOUS
          <5>3. PICK last : last = lastAt
            OBVIOUS
          <5>4. r \in Event /\ r.after = last /\ JoinsAs(r, P, E, T) /\ EndsAs(r, P, E, T, P1, E1, T1)
            BY <1>11, <4>1, <5>3
          <5>5. RingAs(ring, all, P, E, T, last)
            BY <3>2, <5>3
          <5>6. put \in [old : Seq(Event), cur : Seq(Event)] /\ RingAs(put, new, P1, E1, T1, last1)
            <6>1. PICK halves : halves = ring
              OBVIOUS
            <6>2. halves \in Rings /\ RingAs(halves, all, P, E, T, last) /\ put = pre_put(halves, r)
              BY <1>14, <5>1, <5>5, <6>1 DEF Rings
            <6>3. Puts(halves, r, put, new)
              BY <5>2, <6>2 DEF Puts
            <6>4. put \in Rings /\ RingAs(put, new, P1, E1, T1, last1)
              BY <5>4, <6>2, <6>3, RingGrows
            <6> QED
              BY <6>4 DEF Rings
          <5>7. ring' = put
            BY <1>12, <1>17, <2>3, <4>1, <5>1
          <5> QED
            BY <1>15, <5>2, <5>6, <5>7
        <4>2. CASE ~Kept(m, arg)
          <5>1. ring' = ring /\ last1 = lastAt
            BY <1>12, <1>13, <1>17, <2>3, <3>3, <4>2
          <5>2. P \subseteq P1 /\ E \subseteq E1 /\ T \subseteq T1
            BY <1>11, <4>2
          <5>3. LiveAs(all, P1, E1, T1)
            <6>1. LiveAs(all, P, E, T)
              BY <3>2 DEF RingAs
            <6> QED
              BY <5>2, <6>1, LiveWeaker
          <5>4. all1 = all
            BY <1>15, <3>2, <5>1 DEF RingAs
          <5> QED
            BY <1>14, <3>2, <5>1, <5>3, <5>4 DEF RingAs
        <4> QED
          BY <4>1, <4>2
      <3>5. ram' = ram /\ ~flags'.triggered
        BY <1>12, <1>17, <2>3
      <3>6. WaitStore(ram', ring', all1, P1, E1, T1, lastAt')
        BY <3>1, <3>3, <3>4, <3>5 DEF WaitStore
      <3>7. WindowTypes'
        <4>1. ram' \in Stores1 /\ windowed'
          BY <1>13, <1>14, <1>17, <3>5
        <4> QED
          BY <1>18, <2>1, <2>2, <3>4, <4>1, TypesFrom
      <3> QED
        BY <1>6, <1>13, <1>15, <1>17, <3>5, <3>6, <3>7, WInvFrom
    <2>4. CASE flags.triggered \/ Fires(m)
      <3>1. PICK store : store = IF Fires(m) THEN fireRam(m) ELSE ram
        OBVIOUS
      <3>2. OpenStore(store, P, E, T, lastAt)
        <4>1. CASE ~Fires(m)
          BY <1>10, <1>17, <2>4, <3>1, <4>1
        <4>2. CASE Fires(m)
          <5>1. ~flags.triggered
            BY <1>12, <4>2
          <5>2. RingSound /\ WaitSound(ram.recs) /\ (ram.recs = <<>> => ram.full)
            BY <1>10, <1>17, <5>1 DEF WaitStore
          <5>3. Trigger(m) \in Triggers
            BY <1>10, <5>2, TriggerIs
          <5>4. store = fireRam(m)
            BY <3>1, <4>2
          <5>5. /\ store \in Stores1 /\ Stream(store.recs) /\ OpenSound(store.recs)
                /\ ~store.full => Live(store.recs) /\ OpenLive(store.recs)
            BY <1>10, <5>2, <5>3, <5>4, FireSound
          <5> QED
            BY <1>7, <1>8, <1>9, <5>5 DEF OpenStore, Live, OpenLive
        <4> QED
          BY <4>1, <4>2
      <3>3. flags'.triggered /\ ring' = ring /\ ram' = IF Kept(m, arg) THEN ramWrite(store, <<r>>) ELSE store
        BY <1>12, <1>17, <2>4, <3>1
      <3>4. PICK last1 : last1 = lastAt'
        OBVIOUS
      <3>5. OpenStore(ram', P1, E1, T1, last1)
        <4>1. CASE Kept(m, arg)
          <5>1. PICK last : last = lastAt
            OBVIOUS
          <5>2. PICK w : w = ramWrite(store, <<r>>)
            OBVIOUS
          <5>3. r \in Event /\ r.after = last /\ JoinsAs(r, P, E, T) /\ EndsAs(r, P, E, T, P1, E1, T1)
            BY <1>11, <4>1, <5>1
          <5>4. last \in Int /\ OpenStore(store, P, E, T, last)
            BY <1>14, <3>2, <5>1
          <5>5. OpenStore(w, P1, E1, T1, last1)
            BY <5>2, <5>3, <5>4, OpenWritten
          <5> QED
            BY <3>3, <4>1, <5>2, <5>5
        <4>2. CASE ~Kept(m, arg)
          <5>1. ram' = store /\ last1 = lastAt
            BY <1>13, <3>3, <3>4, <4>2
          <5>2. P \subseteq P1 /\ E \subseteq E1 /\ T \subseteq T1
            BY <1>11, <4>2
          <5>3. ~store.full => LiveAs(store.recs, P1, E1, T1)
            <6> SUFFICES ASSUME ~store.full PROVE LiveAs(store.recs, P1, E1, T1)
              OBVIOUS
            <6>1. PICK s : s = store.recs
              OBVIOUS
            <6>2. LiveAs(s, P, E, T)
              BY <3>2, <6>1 DEF OpenStore
            <6>3. LiveAs(s, P1, E1, T1)
              BY <5>2, <6>2, LiveWeaker
            <6> QED
              BY <6>1, <6>3
          <5> QED
            BY <3>2, <5>1, <5>3 DEF OpenStore
        <4> QED
          BY <4>1, <4>2
      <3>6. WindowTypes'
        <4>1. ram' \in Stores1 /\ ring' \in [old : Seq(Event), cur : Seq(Event)] /\ windowed'
          BY <1>13, <1>14, <1>17, <3>3, <3>5 DEF OpenStore
        <4> QED
          BY <1>18, <2>1, <2>2, <4>1, TypesFrom
      <3> QED
        BY <1>6, <1>13, <1>15, <1>17, <3>3, <3>4, <3>5, <3>6, WInvFrom
    <2> QED
      BY <2>3, <2>4
  <1> QED
    BY <1>14, <1>16, <1>17

LEMMA ProvenanceIs ==
    ASSUME now \in Nat, windowed \in BOOLEAN
    PROVE  Provenance \in Provenances /\ Provenance.windowed = windowed /\ Provenance.at = now
  <1>1. now % Wrap \in Nat
    <2>1. Wrap \in Nat /\ Wrap > 0
      BY WindowAssumption
    <2> QED
      BY <2>1
  <1> QED
    BY <1>1 DEF Provenance, Provenances, Stamped, Stamp

\* A re-arm leaves the buffer with its provenance, or too small for it.
LEMMA RearmedStore ==
    ASSUME now \in Nat, windowed = TRUE, NEW w, w = ramWrite(ramInit, <<Provenance>>)
    PROVE  w \in Stores1 /\ WaitSound(w.recs) /\ (w.recs = <<>> => w.full) /\ Stream(w.recs)
  <1>1. PICK p : p = Provenance
    OBVIOUS
  <1>2. p \in Provenances /\ p.windowed /\ p \in Records
    <2>1. p \in Provenances /\ p.windowed = TRUE
      BY <1>1, ProvenanceIs
    <2> QED
      BY <2>1 DEF Records
  <1>3. PICK e : e = <<p>>
    OBVIOUS
  <1>4. PICK z : z = ramInit
    OBVIOUS
  <1>5. e \in Seq(Records) /\ z \in Stores1 /\ z.recs = <<>> /\ w = ramWrite(z, e)
    BY <1>1, <1>2, <1>3, <1>4 DEF ramInit, Stores1
  <1>6. /\ w \in Stores1
        /\ \/ w.full /\ w.recs = z.recs
           \/ ~z.full /\ ~w.full /\ w.recs = z.recs \o e
    BY <1>5, WriteIs
  <1>7. (w.full /\ w.recs = <<>>) \/ w.recs = <<p>>
    BY <1>2, <1>3, <1>5, <1>6
  <1>8. WaitSound(w.recs) /\ (w.recs = <<>> => w.full)
    <2>1. CASE w.full /\ w.recs = <<>>
      <3>1. PICK x : x = w.recs
        OBVIOUS
      <3>2. Len(x) = 0 /\ DOMAIN x = {}
        BY <2>1, <3>1
      <3> QED
        BY <2>1, <3>1, <3>2 DEF WaitSound
    <2>2. CASE w.recs = <<p>>
      <3>1. PICK x : x = w.recs
        OBVIOUS
      <3>2. Len(x) = 1 /\ DOMAIN x = {1} /\ x[1] = p /\ x # <<>>
        BY <2>2, <3>1
      <3>3. \A i \in DOMAIN x : x[i] \in Provenances /\ x[i].windowed
        BY <1>2, <3>2
      <3>4. WaitSound(x)
        BY <3>2, <3>3 DEF WaitSound
      <3> QED
        BY <3>1, <3>2, <3>4
    <2> QED
      BY <1>7, <2>1, <2>2
  <1>9. Stream(w.recs)
    <2>1. w.recs \in Seq(Records)
      BY <1>6 DEF Stores1
    <2> QED
      BY <1>8, <2>1, WaitOpens
  <1> QED
    BY <1>6, <1>8, <1>9

HeartbeatRecord == IF windowed /\ rearm # 0 THEN [Heartbeat EXCEPT !.after = Never] ELSE Heartbeat

LEMMA HeartbeatIs ==
    ASSUME WindowTypes, heartbeat, NEW r, r = HeartbeatRecord, NEW P1, NEW E1, NEW T1, EndsNext(P1, E1, T1)
    PROVE  /\ r \in Event /\ r.n = emitted + 1 /\ r.after = IF windowed /\ rearm # 0 THEN Never ELSE lastAt
           /\ JoinsAs(r, LastPath, LastEvent, LastTimed) \/ (windowed /\ rearm # 0)
           /\ \A P : P \subseteq P1 => \A E, T : EndsAs(r, P, E, T, P1, E1, T1)
           /\ ~(windowed /\ rearm # 0) => LastPath \subseteq P1
           /\ now = nextBeat
  <1>1. /\ now >= nextBeat /\ nextBeat' = nextBeat + HbPeriod /\ emitted' = emitted + 1 /\ lastAt' = now
        /\ UNCHANGED <<now, inPath, runs>>
        /\ ~(windowed /\ rearm # 0) => policy' = policy
    BY DEF heartbeat
  <1>2. /\ now \in Nat /\ nextBeat \in Nat /\ emitted \in Nat /\ hb_seq \in Nat /\ lastAt \in Nat \union {Never}
        /\ now <= nextBeat /\ HbPeriod \in Nat
    BY WindowAssumption DEF WindowTypes
  <1>3. now % Wrap \in Nat
    <2>1. Wrap \in Nat /\ Wrap > 0
      BY WindowAssumption
    <2> QED
      BY <1>2, <2>1
  <1>4. PICK a : a = IF windowed /\ rearm # 0 THEN Never ELSE lastAt
    OBVIOUS
  <1>5. r = [kind |-> "heartbeat", ts |-> now % Wrap, seq |-> hb_seq, uptime |-> now,
             at |-> now, n |-> emitted + 1, after |-> a]
    BY <1>4 DEF HeartbeatRecord, Heartbeat, Stamp
  <1>6. a \in Nat \union {Never}
    BY <1>2, <1>4
  <1>7. r \in Heartbeats
    BY <1>2, <1>3, <1>5, <1>6 DEF Heartbeats, Stamped
  <1>8. r.n = emitted + 1 /\ r.at = now /\ r.after = a /\ r.kind = "heartbeat"
    BY <1>5
  <1>9. r \in Event /\ r \in Timed /\ r \notin OfPath
    <2>1. r \in Event /\ r \in Records
      BY <1>7 DEF Event, Records
    <2>2. r \notin Markers
      BY <1>8, <2>1, Kinds
    <2> QED
      BY <2>1, <2>2, Kinds DEF OfPath
  <1>10. r \in LastTimed /\ \A q \in LastTimed : <<q, r>> \in TimedPairs
    BY <1>8, <1>9, TimedNow
  <1>11. r \in E1
    BY <1>1, <1>8, <1>9 DEF EndsNext
  <1>12. r \in T1
    <2>1. nextBeat' - HbPeriod <= r.at /\ r.at <= now'
      BY <1>1, <1>2, <1>8
    <2> QED
      BY <1>9, <2>1 DEF EndsNext
  <1>13. \A P : P \subseteq P1 => \A E, T : EndsAs(r, P, E, T, P1, E1, T1)
    BY <1>9, <1>11, <1>12 DEF EndsAs
  <1>14. ~(windowed /\ rearm # 0) => LastPath \subseteq P1
    BY <1>1 DEF LastPath, EndsNext
  <1>15. JoinsAs(r, LastPath, LastEvent, LastTimed) \/ (windowed /\ rearm # 0)
    <2> SUFFICES ASSUME ~(windowed /\ rearm # 0) PROVE JoinsAs(r, LastPath, LastEvent, LastTimed)
      OBVIOUS
    <2>1. r.after = lastAt
      BY <1>4, <1>8
    <2>2. \A q \in LastEvent : <<q, r>> \in EventPairs
      BY <1>8, <1>9, <2>1 DEF LastEvent, EventPairs
    <2> QED
      BY <1>9, <1>10, <2>2 DEF JoinsAs
  <1>16. now = nextBeat
    BY <1>1, <1>2
  <1> QED
    BY <1>4, <1>8, <1>9, <1>13, <1>14, <1>15, <1>16

LEMMA HeartbeatStep ==
    ASSUME WInv, heartbeat
    PROVE  WInv'
  <1>1. PICK all : all = AllOfRing
    OBVIOUS
  <1>2. PICK r : r = HeartbeatRecord
    OBVIOUS
  <1>3. PICK P1 : P1 = {x \in OfPath : inPath' /\ ~policy'.skip[Entry] => x.marker = Entry /\ x.run = runs'}
    OBVIOUS
  <1>4. PICK E1 : E1 = {x \in Event : x.n = emitted' /\ x.at = lastAt'}
    OBVIOUS
  <1>5. PICK T1 : T1 = {x \in Timed : nextBeat' - HbPeriod <= x.at /\ x.at <= now'}
    OBVIOUS
  <1>6. EndsNext(P1, E1, T1)
    BY <1>3, <1>4, <1>5 DEF EndsNext
  <1>7. PICK P : P = LastPath
    OBVIOUS
  <1>8. PICK E : E = LastEvent
    OBVIOUS
  <1>9. PICK T : T = LastTimed
    OBVIOUS
  <1>10. /\ WindowTypes
         /\ windowed /\ ~flags.triggered => RingSound /\ WaitStore(ram, ring, all, P, E, T, lastAt)
         /\ windowed /\ flags.triggered => OpenStore(ram, P, E, T, lastAt)
         /\ ~windowed => BootStore(ram, P, E, T, emitted)
    BY <1>1, <1>7, <1>8, <1>9, WInvGives
  <1> DEFINE again == windowed /\ rearm # 0
  <1>11. /\ r \in Event /\ r.n = emitted + 1 /\ r.after = IF again THEN Never ELSE lastAt
         /\ JoinsAs(r, P, E, T) \/ again
         /\ \A Q : Q \subseteq P1 => \A F, U : EndsAs(r, Q, F, U, P1, E1, T1)
         /\ ~again => P \subseteq P1
         /\ now = nextBeat
    BY <1>2, <1>6, <1>7, <1>8, <1>9, <1>10, HeartbeatIs
  <1>12. /\ windowed \in BOOLEAN /\ inPath \in BOOLEAN
         /\ now \in Nat /\ nextBeat \in Nat /\ hb_seq \in Nat /\ runs \in Nat /\ emitted \in Nat
         /\ lastAt \in Nat \union {Never} /\ lastAt \in Int
         /\ ram \in Stores1 /\ ring \in Rings
         /\ ~windowed => ~policy.skip[Entry] /\ ~flags.triggered
         /\ policy \in PolicyTypes /\ counts \in [filtered : Nat, pre_n : Nat, pre_lost : Int]
         /\ flags \in [armed : BOOLEAN, reopen : BOOLEAN, triggered : BOOLEAN]
         /\ HbPeriod \in Nat
    BY <1>10, WindowAssumption DEF WindowTypes, Stores1, PolicyTypes, Never, Rings
  <1>13. /\ nextBeat' = nextBeat + HbPeriod /\ hb_seq' = hb_seq + 1 /\ emitted' = emitted + 1 /\ lastAt' = now
         /\ UNCHANGED <<windowed, now, inPath, runs>>
         /\ policy' = IF again THEN clearPolicy ELSE policy
         /\ flags' = IF again THEN [armed |-> FALSE, reopen |-> TRUE, triggered |-> FALSE] ELSE flags
    BY DEF heartbeat
  <1>14. /\ ~windowed => ram' = ramWrite(ram, <<r>>) /\ ring' = ring
         /\ windowed /\ ~again /\ ~flags.triggered => ram' = ram /\ ring' = pre_put(ring, r)
         /\ windowed /\ ~again /\ flags.triggered => ram' = ramWrite(ram, <<r>>) /\ ring' = ring
         /\ again => ram' = ramWrite(ramInit, <<Provenance>>) /\ ring' = pre_put(emptyRing, r)
    BY <1>2 DEF heartbeat, HeartbeatRecord, rearmRing
  <1>15. counts' \in [filtered : Nat, pre_n : Nat, pre_lost : Int]
    <2>1. CASE again
      <3>1. counts' = [filtered |-> 0, pre_n |-> 1, pre_lost |-> 0]
        BY <2>1 DEF heartbeat
      <3> QED
        BY <3>1
    <2>2. CASE ~again
      <3>1. PICK n \in Nat : n = counts.pre_n + (IF windowed /\ ~flags.triggered THEN 1 ELSE 0)
        BY <1>12
      <3>2. counts' = [counts EXCEPT !.pre_n = n]
        BY <1>12, <2>2, <3>1 DEF heartbeat
      <3> QED
        BY <1>12, <3>2
    <2> QED
      BY <2>1, <2>2
  <1>16. TypesNext
    <2>1. flags' \in [armed : BOOLEAN, reopen : BOOLEAN, triggered : BOOLEAN]
      BY <1>12, <1>13
    <2>2. nextBeat' - HbPeriod <= now' /\ now' <= nextBeat' /\ nextBeat' \in Nat
      BY <1>11, <1>12, <1>13
    <2> QED
      BY <1>12, <1>13, <2>1, <2>2 DEF TypesNext
  <1>17. policy' \in PolicyTypes
    <2>1. clearPolicy \in PolicyTypes
      BY DEF clearPolicy, PolicyTypes, Args
    <2> QED
      BY <1>12, <1>13, <2>1
  <1>18. ~windowed' => ~policy'.skip[Entry] /\ ~flags'.triggered
    BY <1>12, <1>13
  <1>19. PICK all1 : all1 = ring'.old \o ring'.cur
    OBVIOUS
  <1>20. PICK last1 : last1 = lastAt'
    OBVIOUS
  <1>21. CASE ~windowed
    <2>1. PICK w : w = ramWrite(ram, <<r>>)
      OBVIOUS
    <2>2. PICK c : c = emitted
      OBVIOUS
    <2>3. PICK c1 : c1 = emitted'
      OBVIOUS
    <2>4. c \in Nat /\ r.n = c + 1 /\ BootStore(ram, P, E, T, c)
      BY <1>10, <1>11, <1>12, <1>21, <2>2
    <2>5. r \in Event /\ JoinsAs(r, P, E, T) /\ EndsAs(r, P, E, T, P1, E1, T1)
      BY <1>11, <1>21
    <2>6. BootStore(w, P1, E1, T1, c1)
      BY <2>1, <2>4, <2>5, BootWritten
    <2>7. BootStore(ram', P1, E1, T1, emitted') /\ ring' = ring
      BY <1>14, <1>21, <2>1, <2>3, <2>6
    <2>8. ram' \in Stores1 /\ ring' \in [old : Seq(Event), cur : Seq(Event)]
      BY <1>12, <2>7 DEF BootStore, Rings
    <2>9. WindowTypes'
      BY <1>15, <1>16, <1>17, <1>18, <2>8, TypesFrom
    <2>10. ~windowed'
      BY <1>13, <1>21
    <2> QED
      BY <1>6, <1>19, <2>7, <2>9, <2>10, WInvFrom
  <1>22. CASE windowed /\ ~again /\ flags.triggered
    <2>1. PICK w : w = ramWrite(ram, <<r>>)
      OBVIOUS
    <2>2. PICK last : last = lastAt
      OBVIOUS
    <2>3. last \in Int /\ OpenStore(ram, P, E, T, last)
      BY <1>10, <1>12, <1>22, <2>2
    <2>4. r \in Event /\ r.after = last /\ JoinsAs(r, P, E, T) /\ EndsAs(r, P, E, T, P1, E1, T1)
      BY <1>11, <1>22, <2>2
    <2>5. OpenStore(w, P1, E1, T1, last1)
      BY <2>1, <2>3, <2>4, OpenWritten
    <2>6. OpenStore(ram', P1, E1, T1, lastAt') /\ ring' = ring
      BY <1>14, <1>20, <1>22, <2>1, <2>5
    <2>7. ram' \in Stores1 /\ ring' \in [old : Seq(Event), cur : Seq(Event)]
      BY <1>12, <2>6 DEF OpenStore, Rings
    <2>8. WindowTypes'
      BY <1>15, <1>16, <1>17, <1>18, <2>7, TypesFrom
    <2>9. windowed' /\ flags'.triggered
      BY <1>13, <1>22
    <2> QED
      BY <1>6, <1>19, <2>6, <2>8, <2>9, WInvFrom
  <1>23. CASE windowed /\ ~again /\ ~flags.triggered
    <2>1. PICK put : put = pre_put(ring, r)
      OBVIOUS
    <2>2. PICK new : new = put.old \o put.cur
      OBVIOUS
    <2>3. PICK last : last = lastAt
      OBVIOUS
    <2>4. PICK halves : halves = ring
      OBVIOUS
    <2>5. WaitStore(ram, ring, all, P, E, T, lastAt)
      BY <1>10, <1>23
    <2>6. halves \in Rings /\ RingAs(halves, all, P, E, T, last) /\ Puts(halves, r, put, new)
      BY <1>12, <2>1, <2>2, <2>3, <2>4, <2>5 DEF WaitStore, Puts
    <2>7. r \in Event /\ r.after = last /\ JoinsAs(r, P, E, T) /\ EndsAs(r, P, E, T, P1, E1, T1)
      BY <1>11, <1>23, <2>3
    <2>8. put \in Rings /\ RingAs(put, new, P1, E1, T1, last1)
      BY <2>6, <2>7, RingGrows
    <2>9. ring' = put /\ ram' = ram /\ all1 = new
      BY <1>14, <1>19, <1>23, <2>1, <2>2
    <2>10. WaitStore(ram', ring', all1, P1, E1, T1, lastAt')
      BY <1>20, <2>5, <2>8, <2>9 DEF WaitStore
    <2>11. ram' \in Stores1 /\ ring' \in [old : Seq(Event), cur : Seq(Event)]
      BY <1>12, <2>8, <2>9 DEF Rings
    <2>12. WindowTypes'
      BY <1>15, <1>16, <1>17, <1>18, <2>11, TypesFrom
    <2>13. windowed' /\ ~flags'.triggered
      BY <1>13, <1>23
    <2> QED
      BY <1>6, <1>19, <2>10, <2>12, <2>13, WInvFrom
  <1>24. CASE again
    <2>1. PICK halves : halves = emptyRing
      OBVIOUS
    <2>2. PICK e : e = halves.old \o halves.cur
      OBVIOUS
    <2>3. halves \in Rings /\ e = <<>> /\ DOMAIN e = {} /\ halves.old = <<>> /\ halves.cur = <<>>
      BY <2>1, <2>2 DEF emptyRing, Rings
    <2>4. PICK Z : Z = {}
      OBVIOUS
    <2>5. PICK last : last = Never
      OBVIOUS
    <2>6. RingAs(halves, e, Z, Z, Z, last)
      <3>1. Stream(e) /\ LiveAs(e, Z, Z, Z)
        BY <2>3, NothingStreams
      <3>2. HalvesSound(halves)
        BY <2>3 DEF HalvesSound
      <3> QED
        BY <2>2, <2>5, <3>1, <3>2 DEF RingAs
    <2>7. PICK put : put = pre_put(halves, r)
      OBVIOUS
    <2>8. PICK new : new = put.old \o put.cur
      OBVIOUS
    <2>9. Puts(halves, r, put, new)
      BY <2>7, <2>8 DEF Puts
    <2>10. r \in Event /\ r.after = last /\ JoinsAs(r, Z, Z, Z) /\ EndsAs(r, Z, Z, Z, P1, E1, T1)
      <3>1. Z \subseteq P1
        BY <2>4
      <3>2. EndsAs(r, Z, Z, Z, P1, E1, T1)
        BY <1>11, <3>1
      <3>3. JoinsAs(r, Z, Z, Z)
        BY <2>4 DEF JoinsAs
      <3> QED
        BY <1>11, <1>24, <2>5, <3>2, <3>3
    <2>11. put \in Rings /\ RingAs(put, new, P1, E1, T1, last1)
      BY <2>3, <2>6, <2>9, <2>10, RingGrows
    <2>12. ring' = put /\ all1 = new /\ ram' = ramWrite(ramInit, <<Provenance>>)
      BY <1>14, <1>19, <1>24, <2>1, <2>7, <2>8
    <2>13. ram' \in Stores1 /\ WaitSound(ram'.recs) /\ (ram'.recs = <<>> => ram'.full) /\ Stream(ram'.recs)
      <3>1. PICK w : w = ramWrite(ramInit, <<Provenance>>)
        OBVIOUS
      <3>2. w \in Stores1 /\ WaitSound(w.recs) /\ (w.recs = <<>> => w.full) /\ Stream(w.recs)
        BY <1>12, <1>24, <3>1, RearmedStore
      <3> QED
        BY <2>12, <3>1, <3>2
    <2>14. WaitStore(ram', ring', all1, P1, E1, T1, lastAt')
      BY <1>20, <2>11, <2>12, <2>13 DEF WaitStore
    <2>15. ring' \in [old : Seq(Event), cur : Seq(Event)]
      BY <2>11, <2>12 DEF Rings
    <2>16. WindowTypes'
      BY <1>15, <1>16, <1>17, <1>18, <2>13, <2>15, TypesFrom
    <2>17. windowed' /\ ~flags'.triggered
      BY <1>13, <1>24
    <2> QED
      BY <1>6, <1>19, <2>14, <2>16, <2>17, WInvFrom
  <1> QED
    BY <1>21, <1>22, <1>23, <1>24

\* The clock and the tool leave what the image has.
LEMMA QuietStep ==
    ASSUME WInv, UNCHANGED <<windowed, nextBeat, hb_seq, ram, ring, policy, flags, counts, inPath, runs, emitted, lastAt>>,
           now' \in Nat, now <= now', now' <= nextBeat
    PROVE  WInv'
  <1>1. PICK all : all = AllOfRing
    OBVIOUS
  <1>2. PICK P : P = LastPath
    OBVIOUS
  <1>3. PICK E : E = LastEvent
    OBVIOUS
  <1>4. PICK T : T = LastTimed
    OBVIOUS
  <1>5. PICK T1 : T1 = {x \in Timed : nextBeat' - HbPeriod <= x.at /\ x.at <= now'}
    OBVIOUS
  <1>6. EndsNext(P, E, T1)
    BY <1>2, <1>3, <1>5 DEF EndsNext, LastPath, LastEvent
  <1>7. /\ WindowTypes
        /\ windowed /\ ~flags.triggered => RingSound /\ WaitStore(ram, ring, all, P, E, T, lastAt)
        /\ windowed /\ flags.triggered => OpenStore(ram, P, E, T, lastAt)
        /\ ~windowed => BootStore(ram, P, E, T, emitted)
    BY <1>1, <1>2, <1>3, <1>4, WInvGives
  <1>8. now \in Nat /\ nextBeat \in Nat /\ HbPeriod \in Nat /\ nextBeat - HbPeriod <= now
    BY <1>7, WindowAssumption DEF WindowTypes
  <1>9. T \subseteq T1
    <2> SUFFICES ASSUME NEW x \in T PROVE x \in T1
      OBVIOUS
    <2>1. x \in Timed /\ nextBeat - HbPeriod <= x.at /\ x.at <= now
      BY <1>4 DEF LastTimed
    <2>2. x.at \in Nat
      BY <2>1, RecordTimes DEF Timed
    <2>3. x.at <= now'
      BY <1>8, <2>1, <2>2
    <2> QED
      BY <1>5, <2>1, <2>3
  <1>10. \A s : LiveAs(s, P, E, T) => LiveAs(s, P, E, T1)
    BY <1>9, LiveWeaker
  <1>11. WindowTypes'
    <2>1. nextBeat' - HbPeriod <= now' /\ now' <= nextBeat' /\ now' \in Nat
      BY <1>8
    <2> QED
      BY <1>7, <2>1 DEF WindowTypes
  <1>12. PICK all1 : all1 = ring'.old \o ring'.cur
    OBVIOUS
  <1>13. all1 = all
    BY <1>1, <1>12 DEF AllOfRing
  <1>14. WaitStore(ram, ring, all, P, E, T, lastAt) => WaitStore(ram', ring', all1, P, E, T1, lastAt')
    BY <1>10, <1>13 DEF WaitStore, RingAs
  <1>15. OpenStore(ram, P, E, T, lastAt) => OpenStore(ram', P, E, T1, lastAt')
    BY <1>10 DEF OpenStore
  <1>16. BootStore(ram, P, E, T, emitted) => BootStore(ram', P, E, T1, emitted')
    BY <1>10 DEF BootStore
  <1>17. flags' = flags /\ windowed' = windowed
    OBVIOUS
  <1>18. windowed' /\ ~flags'.triggered => WaitStore(ram', ring', all1, P, E, T1, lastAt')
    BY <1>7, <1>14, <1>17
  <1>19. windowed' /\ flags'.triggered => OpenStore(ram', P, E, T1, lastAt')
    BY <1>7, <1>15, <1>17
  <1>20. ~windowed' => BootStore(ram', P, E, T1, emitted')
    BY <1>7, <1>16, <1>17
  <1> QED
    BY <1>6, <1>11, <1>12, <1>18, <1>19, <1>20, WInvFrom

LEMMA WindowStarts ==
    ASSUME Init
    PROVE  WInv
  <1>1. /\ windowed \in BOOLEAN /\ now = 0 /\ nextBeat = HbPeriod /\ hb_seq = 0 /\ ring = emptyRing
        /\ policy = clearPolicy /\ flags = [armed |-> FALSE, reopen |-> FALSE, triggered |-> FALSE]
        /\ counts = [filtered |-> 0, pre_n |-> 0, pre_lost |-> 0]
        /\ inPath = FALSE /\ runs = 0 /\ emitted = 0 /\ lastAt = Never
        /\ ram = [recs |-> <<Provenance>>, full |-> FALSE]
    BY DEF Init
  <1>2. PICK p : p = Provenance
    OBVIOUS
  <1>3. p \in Provenances /\ p.windowed = windowed /\ p.at = 0 /\ p \in Records
    BY <1>1, <1>2, ProvenanceIs DEF Records
  <1>4. PICK s : s = ram.recs
    OBVIOUS
  <1>5. s \in Seq(Records) /\ Len(s) = 1 /\ DOMAIN s = {1} /\ s[1] = p /\ s # <<>>
    BY <1>1, <1>2, <1>3, <1>4
  <1>6. clearPolicy \in PolicyTypes /\ ~clearPolicy.skip[Entry]
    BY EntryIs DEF clearPolicy, PolicyTypes, Args
  <1>7. emptyRing \in [old : Seq(Event), cur : Seq(Event)]
    BY DEF emptyRing
  <1>8. HbPeriod \in Nat
    BY WindowAssumption
  <1>9. WindowTypes
    <2>1. ram \in [recs : Seq(Records), full : BOOLEAN]
      BY <1>1, <1>4, <1>5
    <2>2. policy \in [seen : [1 .. MarkerCount -> BOOLEAN], last : [1 .. MarkerCount -> Args],
                      skip : [1 .. MarkerCount -> BOOLEAN], spins : [1 .. MarkerCount -> Nat]]
      BY <1>1, <1>6 DEF PolicyTypes
    <2>3. nextBeat - HbPeriod <= now /\ now <= nextBeat
      BY <1>1, <1>8
    <2>4. flags \in [armed : BOOLEAN, reopen : BOOLEAN, triggered : BOOLEAN]
          /\ counts \in [filtered : Nat, pre_n : Nat, pre_lost : Int]
      BY <1>1
    <2>5. ~windowed => ~policy.skip[Entry] /\ ~flags.triggered
      BY <1>1, <1>6
    <2> QED
      BY <1>1, <1>7, <1>8, <2>1, <2>2, <2>3, <2>4, <2>5 DEF WindowTypes
  <1>10. Stream(s)
    <2>1. \A i, j \in DOMAIN s : ~(i < j)
      BY <1>5
    <2> QED
      BY <2>1 DEF Stream, Linked
  <1>11. CASE windowed
    <2>1. PICK e : e = AllOfRing
      OBVIOUS
    <2>2. e = <<>> /\ DOMAIN e = {}
      BY <1>1, <2>1 DEF AllOfRing, emptyRing
    <2>3. Stream(e) /\ Live(e)
      BY <2>2, NothingStreams DEF Live
    <2>4. RingSound
      BY <1>1, <2>1, <2>2, <2>3 DEF RingSound, emptyRing
    <2>5. WaitSound(s)
      <3>1. \A i \in DOMAIN s : s[i] \in Provenances /\ s[i].windowed
        BY <1>3, <1>5, <1>11
      <3> QED
        BY <1>5, <3>1 DEF WaitSound
    <2> QED
      BY <1>1, <1>4, <1>5, <1>9, <1>10, <1>11, <2>4, <2>5 DEF WInv
  <1>12. CASE ~windowed
    <2>1. p \notin Event /\ p \notin OfPath /\ p \in Timed
      BY <1>3, <1>12, Kinds
    <2>2. p \in LastTimed
      BY <1>1, <1>3, <1>8, <2>1 DEF LastTimed
    <2>3. Live(s)
      BY <1>5, <2>1, <2>2 DEF Live, LiveAs, LastIn
    <2>4. BootSound(s)
      <3>1. 2 .. Len(s) = {}
        BY <1>5
      <3>2. \A lo \in DOMAIN s : ~FirstEvent(s, lo)
        BY <1>5, <2>1 DEF FirstEvent
      <3>3. ~s[1].windowed /\ s[1].at = 0 /\ s[1] \in Provenances
        BY <1>3, <1>5, <1>12
      <3> QED
        BY <1>5, <3>1, <3>2, <3>3 DEF BootSound
    <2>5. BootLiveAs(s, emitted)
      BY <1>1 DEF BootLiveAs
    <2> QED
      BY <1>1, <1>4, <1>9, <1>10, <1>12, <2>3, <2>4, <2>5 DEF WInv
  <1> QED
    BY <1>11, <1>12

\* What the buffer and the ring hold at every moment: the executions of the
\* path in pairs, the records kept without a gap, times less than a
\* heartbeat apart, and a window with as much history as the flush says.
THEOREM WindowInvariant == Spec => []WInv
  <1>1. Init => WInv
    BY WindowStarts
  <1>2. ASSUME WInv, [Next]_vars
        PROVE  WInv'
    <2>1. now \in Nat /\ now <= nextBeat /\ nextBeat \in Nat
      BY <1>2 DEF WInv, WindowTypes
    <2>2. ASSUME NEW e \in Emits, Trace(e[1], e[2])
          PROVE  WInv'
      BY <1>2, <2>2, MarkerStep
    <2>3. CASE heartbeat
      BY <1>2, <2>3, HeartbeatStep
    <2>4. CASE Advance
      <3>1. /\ UNCHANGED <<windowed, nextBeat, hb_seq, ram, ring, policy, flags, counts, inPath, runs, emitted, lastAt>>
            /\ now' = now + 1 /\ now < nextBeat
        BY <2>4 DEF Advance, image, history
      <3>2. now' \in Nat /\ now <= now' /\ now' <= nextBeat
        BY <2>1, <3>1
      <3> QED
        BY <1>2, <3>1, <3>2, QuietStep
    <2>5. CASE rearmAttach \/ rearmCancel \/ rearmWrite \/ rearmPoll \/ rearmTimeout
               \/ (\E no_resume \in BOOLEAN : readout(no_resume)) \/ UNCHANGED vars
      <3>1. UNCHANGED <<now, windowed, nextBeat, hb_seq, ram, ring, policy, flags, counts, inPath, runs, emitted, lastAt>>
        BY <2>5 DEF rearmAttach, rearmCancel, rearmWrite, rearmPoll, rearmTimeout, readout, vars, image, history
      <3>2. now' \in Nat /\ now <= now' /\ now' <= nextBeat
        BY <2>1, <3>1
      <3> QED
        BY <1>2, <3>1, <3>2, QuietStep
    <2> QED
      BY <1>2, <2>2, <2>3, <2>4, <2>5 DEF Next
  <1> QED
    BY <1>1, <1>2, PTL DEF Spec

-----------------------------------------------------------------------------
(* The decoded trace.                                                      *)

LEMMA DecodedIs ==
    ASSUME NEW tr, tr = Decoded
    PROVE  /\ tr.recs = ram.recs /\ tr.emitted = hb_seq
           /\ tr.t = Anchor(ram.recs, Segment(ram.recs), Times(ram.recs))
  BY DEF Decoded, load

\* A span is one execution, and an EXIT without a span begins the trace.
LEMMA SpansOf ==
    ASSUME WInv
    PROVE  SpansTrue
  <1>1. PICK tr : tr = Decoded
    OBVIOUS
  <1>2. PICK s : s = ram.recs
    OBVIOUS
  <1>3. tr.recs = s
    BY <1>1, <1>2, DecodedIs
  <1>4. s \in Seq(Records) /\ Len(s) \in Nat /\ DOMAIN s = 1 .. Len(s)
    <2>1. s \in Seq(Records)
      BY <1>2 DEF WInv, WindowTypes
    <2> QED
      BY <2>1
  <1>5. Linked(s, OfPath, PathPairs)
    BY <1>2 DEF WInv, Stream
  <1> DEFINE On(i, m) == tr.recs[i].kind = "marker" /\ tr.recs[i].marker = m
             OnPath(i) == tr.recs[i].kind = "marker" /\ tr.recs[i].marker \in {Entry, Exit}
             spans == Spans(tr, Entry, Exit)
  <1>6. \A i \in DOMAIN s : OnPath(i) <=> s[i] \in OfPath
    <2> SUFFICES ASSUME NEW i \in DOMAIN s PROVE OnPath(i) <=> s[i] \in OfPath
      OBVIOUS
    <2>1. s[i] \in Records
      BY <1>4
    <2>2. s[i] \in Markers <=> s[i].kind = "marker"
      BY <2>1, Kinds
    <2> QED
      BY <1>3, <2>2 DEF OfPath
  <1>7. \A x : x \in spans <=> /\ x \in (DOMAIN s) \X (DOMAIN s)
                                /\ x[1] < x[2]
                                /\ On(x[1], Entry) /\ On(x[2], Exit)
                                /\ \A k \in x[1] + 1 .. x[2] - 1 : ~On(k, Entry) /\ ~On(k, Exit)
    BY <1>3 DEF Spans
  <1> HIDE DEF spans
  <1>8. ASSUME NEW x \in spans
        PROVE  tr.recs[x[1]].run = tr.recs[x[2]].run
    <2>1. PICK i : i = x[1]
      OBVIOUS
    <2>2. PICK j : j = x[2]
      OBVIOUS
    <2>3. /\ i \in DOMAIN s /\ j \in DOMAIN s /\ i < j /\ On(i, Entry) /\ On(j, Exit)
          /\ \A k \in i + 1 .. j - 1 : ~On(k, Entry) /\ ~On(k, Exit)
      BY <1>7, <2>1, <2>2
    <2>4. s[i] \in OfPath /\ s[j] \in OfPath
      BY <1>6, <2>3
    <2>5. \A k \in i + 1 .. j - 1 : s[k] \notin OfPath
      <3> SUFFICES ASSUME NEW k \in i + 1 .. j - 1 PROVE s[k] \notin OfPath
        OBVIOUS
      <3>1. k \in DOMAIN s
        BY <1>4, <2>3
      <3> QED
        BY <1>6, <2>3, <3>1
    <2>6. <<s[i], s[j]>> \in PathPairs
      BY <1>5, <2>3, <2>4, <2>5 DEF Linked
    <2>7. s[j].marker = Exit
      BY <1>3, <2>3
    <2> QED
      BY <1>3, <2>1, <2>2, <2>6, <2>7 DEF PathPairs
  <1>9. ASSUME NEW j \in DOMAIN s, OnPath(j), tr.recs[j].marker = Exit, ~(\A i \in 1 .. j - 1 : ~OnPath(i))
        PROVE  \E x \in spans : x[2] = j
    <2> DEFINE before == {i \in 1 .. j - 1 : OnPath(i)}
    <2>1. before # {} /\ before \subseteq 1 .. j - 1
      BY <1>9
    <2>2. \A i \in before : OnPath(i) /\ i \in 1 .. j - 1
      OBVIOUS
    <2>3. \A i \in 1 .. j - 1 : OnPath(i) => i \in before
      OBVIOUS
    <2> HIDE DEF before
    <2>4. PICK i : i = Max(before)
      OBVIOUS
    <2>5. i \in before /\ \A k \in before : k <= i
      <3>1. PICK n : n = j - 1
        OBVIOUS
      <3>2. n \in Nat
        BY <1>4, <3>1
      <3>3. before \subseteq 0 .. n
        BY <2>1, <3>1
      <3>4. before # {}
        BY <2>1
      <3> QED
        BY <2>4, <3>2, <3>3, <3>4, GreatestOf
    <2>6. i \in DOMAIN s /\ i < j /\ OnPath(i) /\ i \in Nat /\ j \in Nat
      BY <1>4, <2>2, <2>5
    <2>7. ASSUME NEW k \in i + 1 .. j - 1
          PROVE  ~OnPath(k) /\ s[k] \notin OfPath
      <3>1. k \in 1 .. j - 1 /\ k \in DOMAIN s /\ ~(k <= i)
        BY <1>4, <2>6
      <3>2. ~OnPath(k)
        BY <2>3, <2>5, <3>1
      <3> QED
        BY <1>6, <3>1, <3>2
    <2>8. s[i] \in OfPath /\ s[j] \in OfPath /\ s[j].marker = Exit
      BY <1>3, <1>6, <1>9, <2>6
    <2>9. <<s[i], s[j]>> \in PathPairs
      BY <1>5, <2>6, <2>7, <2>8 DEF Linked
    <2>10. s[i].marker = Entry
      BY <2>8, <2>9 DEF PathPairs
    <2>11. On(i, Entry) /\ On(j, Exit)
      BY <1>3, <1>9, <2>6, <2>10
    <2>12. \A k \in i + 1 .. j - 1 : ~On(k, Entry) /\ ~On(k, Exit)
      BY <2>7
    <2>13. PICK x : x = <<i, j>>
      OBVIOUS
    <2>14. x \in (DOMAIN s) \X (DOMAIN s) /\ x[1] = i /\ x[2] = j
      BY <2>6, <2>13
    <2>15. x \in spans
      BY <1>7, <2>6, <2>11, <2>12, <2>14
    <2> QED
      BY <2>14, <2>15
  <1> USE DEF spans
  <1> QED
    BY <1>1, <1>3, <1>8, <1>9 DEF SpansTrue

\* A span of the traced path is one execution, and an EXIT that ends no span
\* is the path's first record: for every policy, ring, buffer and order of
\* the markers (island_trace_keep, island_trace_pre_put, the trigger).
THEOREM SpansAreTrue == Spec => []SpansTrue
  <1>1. WInv => SpansTrue
    BY SpansOf
  <1> QED
    BY <1>1, WindowInvariant, PTL

\* What a trace that passes the check has.
LEMMA PassHas ==
    ASSUME NEW tr, check(tr)
    PROVE  /\ Of(tr, "provenance") # {} /\ Of(tr, "heartbeat") # {}
           /\ Windowed(tr) => Of(tr, "trigger") # {}
           /\ completeOk(tr)
  BY DEF check, provenanceOk, heartbeatOk, triggerAt

\* The records of a trace that passes: an opened window's or a boot's.
Passed(s) ==
    /\ s \in Seq(Records) /\ Len(s) \in Nat /\ DOMAIN s = 1 .. Len(s) /\ 1 \in DOMAIN s
    /\ s[1] \in Provenances /\ s[1].windowed = windowed
    /\ \A i \in DOMAIN s : i # 1 => s[i] \in Timed /\ s[i] \notin Provenances
    /\ Stream(s)
    /\ IF windowed THEN OpenSound(s) ELSE BootSound(s)

LEMMA PassShape ==
    ASSUME WInv, NEW tr, tr = Decoded, check(tr), NEW s, s = ram.recs
    PROVE  Passed(s)
  <1>1. tr.recs = s
    BY DecodedIs
  <1>2. s \in Seq(Records) /\ Len(s) \in Nat /\ DOMAIN s = 1 .. Len(s)
    <2>1. s \in Seq(Records)
      BY DEF WInv, WindowTypes
    <2> QED
      BY <2>1
  <1>3. PICK b : b \in DOMAIN s /\ s[b].kind = "heartbeat"
    BY <1>1, PassHas DEF Of
  <1>4. s[b] \in Event /\ s[b] \notin Provenances
    <2>1. s[b] \in Records
      BY <1>2, <1>3
    <2>2. s[b] \in Event
      BY <1>3, <2>1, Kinds DEF Event
    <2> QED
      BY <2>1, <2>2, Kinds
  <1>5. windowed \in BOOLEAN /\ Stream(s)
    BY DEF WInv, WindowTypes
  <1>6. CASE windowed
    <2>1. flags.triggered
      <3>1. CASE ~flags.triggered
        <4>1. WaitSound(s)
          BY <1>6, <3>1 DEF WInv
        <4> QED
          BY <1>3, <1>4, <4>1 DEF WaitSound
      <3> QED
        BY <3>1
    <2>2. OpenSound(s)
      BY <1>6, <2>1 DEF WInv
    <2>3. s # <<>>
      BY <1>2, <1>3
    <2>4. s[1] \in Provenances /\ s[1].windowed
      BY <2>2, <2>3 DEF OpenSound
    <2>5. ASSUME NEW i \in DOMAIN s, i # 1
          PROVE  s[i] \in Timed /\ s[i] \notin Provenances
      <3>1. i \in 2 .. Len(s) /\ s[i] \in Records
        BY <1>2, <2>5
      <3>2. s[i] \notin Provenances
        BY <2>2, <3>1 DEF OpenSound
      <3>3. s[i] \in Event \/ s[i] \in Triggers
        BY <3>1, <3>2 DEF Records
      <3> QED
        BY <3>1, <3>2, <3>3, Kinds
    <2>6. 1 \in DOMAIN s
      BY <1>2, <1>3
    <2>7. s[1].windowed = windowed
      BY <1>5, <1>6, <2>4 DEF Provenances
    <2> QED
      BY <1>2, <1>5, <1>6, <2>2, <2>4, <2>5, <2>6, <2>7 DEF Passed
  <1>7. CASE ~windowed
    <2>1. BootSound(s)
      BY <1>7 DEF WInv
    <2>2. s[1] \in Provenances /\ ~s[1].windowed
      BY <2>1 DEF BootSound
    <2>3. ASSUME NEW i \in DOMAIN s, i # 1
          PROVE  s[i] \in Timed /\ s[i] \notin Provenances
      <3>1. i \in 2 .. Len(s) /\ s[i] \in Records
        BY <1>2, <2>3
      <3>2. s[i] \in Event
        BY <2>1, <3>1 DEF BootSound
      <3> QED
        BY <3>1, <3>2, Kinds
    <2>4. 1 \in DOMAIN s
      BY <1>2, <1>3
    <2>5. s[1].windowed = windowed
      BY <1>5, <1>7, <2>2 DEF Provenances
    <2> QED
      BY <1>2, <1>5, <1>7, <2>1, <2>2, <2>3, <2>4, <2>5 DEF Passed
  <1> QED
    BY <1>5, <1>6, <1>7

\* The half of a wrap is more than a heartbeat: the sign is right.
LEMMA SignedApart ==
    ASSUME NEW a \in Nat, NEW b \in Nat, a <= b, b - a <= HbPeriod
    PROVE  SignedDiff((b % Wrap) - (a % Wrap)) = b - a
  <1>1. Wrap \in Nat /\ Wrap > 0 /\ HbPeriod \in Nat /\ 2 * HbPeriod < Wrap
    BY WindowAssumption
  <1>2. PICK u : u = b - a
    OBVIOUS
  <1>3. u \in Nat /\ 2 * u < Wrap /\ u < Wrap
    BY <1>1, <1>2
  <1>4. ((b % Wrap) - (a % Wrap)) % Wrap = u
    BY <1>1, <1>2, <1>3, StampsApart
  <1>5. ~(2 * u >= Wrap)
    BY <1>1, <1>3
  <1> QED
    BY <1>2, <1>4, <1>5 DEF SignedDiff

LEMMA WholeWraps ==
    ASSUME NEW W \in Nat, W > 0, NEW q \in Int
    PROVE  (2 * (W * q) + W) \div (2 * W) = q
  <1>1. PICK V \in Nat : V = 2 * W
    OBVIOUS
  <1>2. V * q = 2 * (W * q)
    BY <1>1, Z3
  <1>3. PICK x \in Int : x = 2 * (W * q) + W
    <2>1. W * q \in Int
      BY Z3
    <2> QED
      BY <2>1
  <1>4. PICK d \in Int : d = x \div V
    BY <1>1, Z3
  <1>5. x = V * d + (x % V) /\ x % V \in Int /\ 0 <= x % V /\ x % V < V
    BY <1>1, <1>4, Z3
  <1>6. x = V * q + W /\ 0 < W /\ W < V
    BY <1>1, <1>2, <1>3
  <1>7. V * (d - q) = V * d - V * q
    BY Z3
  <1>8. PICK m \in Int : m = x % V
    BY <1>5
  <1>9. V * d \in Int /\ V * q \in Int
    BY Z3
  <1>10. V * (d - q) = W - m /\ 0 <= m /\ m < V
    BY <1>5, <1>6, <1>7, <1>8, <1>9
  <1>11. d - q = 0
    <2>1. CASE d - q >= 1
      <3>1. V * (d - q) >= V
        BY <2>1, Z3
      <3> QED
        BY <1>6, <1>10, <3>1
    <2>2. CASE d - q <= -1
      <3>1. V * (d - q) <= -V
        BY <2>2, Z3
      <3> QED
        BY <1>6, <1>10, <3>1
    <2> QED
      BY <2>1, <2>2
  <1>12. d = q
    BY <1>11
  <1> QED
    BY <1>1, <1>3, <1>4, <1>12

ExtFn(f, recs) ==
    f = [i \in DOMAIN recs |-> IF i = 1 \/ Opens(recs[i - 1]) THEN recs[i].ts
                               ELSE f[i - 1] + SignedDiff(recs[i].ts - recs[i - 1].ts)]

LEMMA ExtAre ==
    ASSUME NEW recs, Len(recs) \in Nat, DOMAIN recs = 1 .. Len(recs)
    PROVE  ExtFn(Times(recs), recs)
  <1> DEFINE n == Len(recs)
             B == {1} \union {i \in 1 .. n : Opens(recs[i - 1])}
             a == [i \in 1 .. n |-> recs[i].ts]
             b == [i \in 1 .. n |-> SignedDiff(recs[i].ts - recs[i - 1].ts)]
  <1>1. PICK f : SumFn(f, 1, n, B, a, b)
    <2>1. 1 \in B
      OBVIOUS
    <2> HIDE DEF a, b, B
    <2> QED
      BY <2>1, SumExists
  <1>2. ExtFn(f, recs)
    <2>1. f = [i \in 1 .. n |-> IF i \in B THEN a[i] ELSE f[i - 1] + b[i]]
      BY <1>1 DEF SumFn
    <2>2. \A i \in 1 .. n : /\ i \in B <=> (i = 1 \/ Opens(recs[i - 1]))
                            /\ a[i] = recs[i].ts /\ b[i] = SignedDiff(recs[i].ts - recs[i - 1].ts)
      OBVIOUS
    <2> HIDE DEF a, b, B
    <2>3. \A i \in 1 .. n : (IF i \in B THEN a[i] ELSE f[i - 1] + b[i])
                            = (IF i = 1 \/ Opens(recs[i - 1]) THEN recs[i].ts
                               ELSE f[i - 1] + SignedDiff(recs[i].ts - recs[i - 1].ts))
      BY <2>2
    <2> QED
      BY <2>1, <2>3 DEF ExtFn
  <1>3. Times(recs) = CHOOSE g : ExtFn(g, recs)
    BY DEF Times, ExtFn
  <1> QED
    BY <1>2, <1>3

\* Within a segment the decoded times are as far apart as the records are.
LEMMA ExtTrue ==
    ASSUME NEW s \in Seq(Records), NEW lo, Segmented(s, lo), lo <= Len(s), lo = 1 \/ Opens(s[lo - 1]),
           NEW i \in lo .. Len(s)
    PROVE  Times(s)[i] = s[lo].ts + (s[i].at - s[lo].at)
  <1>1. PICK f : f = Times(s)
    OBVIOUS
  <1>2. PICK n : n = Len(s)
    OBVIOUS
  <1>3. n \in Nat /\ DOMAIN s = 1 .. n /\ lo \in Nat /\ 1 <= lo /\ lo <= n
    BY <1>2 DEF Segmented
  <1>4. ExtFn(f, s)
    BY <1>1, <1>2, <1>3, ExtAre
  <1>5. \A k \in 1 .. n : f[k] = IF k = 1 \/ Opens(s[k - 1]) THEN s[k].ts
                                 ELSE f[k - 1] + SignedDiff(s[k].ts - s[k - 1].ts)
    BY <1>3, <1>4 DEF ExtFn
  <1>6. PICK h : h = [k \in 1 .. n |-> s[k].at]
    OBVIOUS
  <1>7. \A k \in 1 .. n : s[k] \in Records
    BY <1>3
  <1>8. \A k \in 1 .. n : h[k] = s[k].at /\ h[k] \in Nat /\ s[k].ts = h[k] % Wrap
    BY <1>6, <1>7, RecordTimes
  <1>9. ASSUME NEW k \in lo + 1 .. n
        PROVE  f[k] = f[k - 1] + (h[k] - h[k - 1])
    <2>1. k \in 1 .. n /\ k # 1 /\ k - 1 \in 1 .. n /\ k - 1 \in Nat /\ lo <= k - 1 /\ (k - 1) + 1 = k
      BY <1>3
    <2>2. h[k - 1] <= h[k] /\ h[k] - h[k - 1] <= HbPeriod
      <3>1. PICK j : j = k - 1
        OBVIOUS
      <3>2. j \in Nat /\ lo <= j /\ j + 1 <= Len(s) /\ j + 1 = k
        BY <1>2, <1>3, <2>1, <3>1
      <3>3. s[j].at <= s[j + 1].at /\ s[j + 1].at - s[j].at <= HbPeriod
        BY <3>2, NextTime
      <3> QED
        BY <1>8, <2>1, <3>1, <3>2, <3>3
    <2>3. h[k] \in Nat /\ h[k - 1] \in Nat
      BY <1>8, <2>1
    <2>4. SignedDiff((h[k] % Wrap) - (h[k - 1] % Wrap)) = h[k] - h[k - 1]
      BY <2>2, <2>3, SignedApart
    <2>5. s[k].ts = h[k] % Wrap /\ s[k - 1].ts = h[k - 1] % Wrap
      BY <1>8, <2>1
    <2>6. ~Opens(s[k - 1])
      <3>1. k - 1 \in lo .. Len(s)
        BY <1>2, <1>3, <2>1
      <3> QED
        BY <3>1 DEF Segmented, Timed
    <2>7. f[k] = f[k - 1] + SignedDiff(s[k].ts - s[k - 1].ts)
      BY <1>5, <2>1, <2>6
    <2>8. SignedDiff(s[k].ts - s[k - 1].ts) = h[k] - h[k - 1]
      BY <2>4, <2>5
    <2> QED
      BY <2>7, <2>8
  <1>10. f[lo] = s[lo].ts /\ s[lo].ts \in Int
    <2>1. lo \in 1 .. n
      BY <1>3
    <2>2. s[lo].ts = h[lo] % Wrap /\ h[lo] \in Nat
      BY <1>8, <2>1
    <2>3. h[lo] % Wrap \in Int
      BY <2>2, WindowAssumption, ModParts
    <2> QED
      BY <1>5, <2>1, <2>2, <2>3
  <1>11. \A k \in lo .. n : h[k] \in Int
    <2>1. \A k \in lo .. n : k \in 1 .. n
      BY <1>3
    <2> QED
      BY <1>8, <2>1
  <1>12. \A k \in lo .. n : f[k] = s[lo].ts + (h[k] - h[lo])
    <2>1. \A k \in lo + 1 .. n : f[k] = f[k - 1] + (h[k] - h[k - 1])
      BY <1>9
    <2>2. PICK c : c = s[lo].ts
      OBVIOUS
    <2>3. c \in Int /\ f[lo] = c
      BY <1>10, <2>2
    <2>4. SumsUp(f, h, lo, n, c)
      BY <1>3, <1>11, <2>1, <2>3 DEF SumsUp
    <2>5. \A k \in lo .. n : f[k] = c + (h[k] - h[lo])
      BY <2>4, SumOfDifferences
    <2> QED
      BY <2>2, <2>5
  <1>13. i \in lo .. n /\ i \in 1 .. n /\ lo \in 1 .. n
    BY <1>2, <1>3
  <1>14. f[i] = s[lo].ts + (h[i] - h[lo]) /\ h[i] = s[i].at /\ h[lo] = s[lo].at
    BY <1>8, <1>12, <1>13
  <1> QED
    BY <1>1, <1>14

LEMMA PassSegment ==
    ASSUME WInv, NEW s, Passed(s)
    PROVE  /\ windowed => Opens(s[1]) /\ Segment(s) = 1 /\ Segmented(s, 2)
           /\ ~windowed => Segment(s) = 0 /\ Segmented(s, 1)
  <1>1. /\ Len(s) \in Nat /\ DOMAIN s = 1 .. Len(s) /\ 1 \in DOMAIN s /\ s[1] \in Records
        /\ Linked(s, Timed, TimedPairs)
    BY DEF Passed, Stream
  <1>2. \A i \in DOMAIN s : i # 1 => s[i] \in Timed /\ ~Opens(s[i])
    BY DEF Passed, Timed
  <1>3. s[1].kind = "provenance" /\ s[1].windowed = windowed
    BY <1>1, Kinds DEF Passed
  <1>4. \A i \in 2 .. Len(s) : s[i] \in Timed
    <2>1. \A i \in 2 .. Len(s) : i \in DOMAIN s /\ i # 1
      BY <1>1
    <2> QED
      BY <1>2, <2>1
  <1> DEFINE opens == {i \in DOMAIN s : Opens(s[i])}
  <1>5. Segment(s) = IF opens = {} THEN 0 ELSE Max(opens)
    BY DEF Segment
  <1>6. CASE windowed
    <2>1. Opens(s[1])
      BY <1>3, <1>6 DEF Opens
    <2>2. opens = {1}
      BY <1>1, <1>2, <2>1
    <2> HIDE DEF opens
    <2>3. Max(opens) \in opens
      <3>1. PICK n : n = 1
        OBVIOUS
      <3>2. n \in Nat /\ opens \subseteq 0 .. n
        BY <2>2, <3>1
      <3>3. opens # {}
        BY <2>2
      <3> QED
        BY <3>2, <3>3, GreatestOf
    <2>4. Segment(s) = 1
      BY <1>5, <2>2, <2>3
    <2>5. Segmented(s, 2)
      BY <1>1, <1>4 DEF Segmented
    <2> QED
      BY <1>6, <2>1, <2>4, <2>5
  <1>7. CASE ~windowed
    <2>1. ~Opens(s[1])
      BY <1>3, <1>7 DEF Opens
    <2>2. opens = {}
      BY <1>2, <2>1
    <2>3. \A i \in 1 .. Len(s) : s[i] \in Timed
      <3>1. s[1] \in Timed
        BY <1>1, <2>1 DEF Timed
      <3> QED
        BY <1>1, <1>2, <3>1
    <2>4. Segmented(s, 1)
      BY <1>1, <2>3 DEF Segmented
    <2> QED
      BY <1>5, <1>7, <2>2, <2>4
  <1> QED
    BY <1>6, <1>7

\* The heartbeat's uptime says how many wraps went before.
LEMMA AnchorShift ==
    ASSUME NEW x \in Nat
    PROVE  LET q == RoundWraps(x - (x % Wrap)) IN q \in Int /\ (x % Wrap) + q * Wrap = x
  <1>1. Wrap \in Nat /\ Wrap > 0
    BY WindowAssumption
  <1>2. PICK k \in Nat : x = (x % Wrap) + Wrap * k /\ x % Wrap \in Nat
    BY <1>1, ModParts
  <1>3. PICK p \in Int : p = Wrap * k
    <2>1. Wrap * k \in Int
      BY <1>1, Z3
    <2> QED
      BY <2>1
  <1>4. PICK y \in Nat : y = x % Wrap
    BY <1>2
  <1>5. x - y = p
    BY <1>2, <1>3, <1>4
  <1>6. RoundWraps(p) = k
    <2>1. (2 * (Wrap * k) + Wrap) \div (2 * Wrap) = k
      BY <1>1, WholeWraps
    <2> QED
      BY <1>3, <2>1 DEF RoundWraps
  <1>7. k * Wrap = Wrap * k
    BY <1>1, Z3
  <1>8. RoundWraps(x - (x % Wrap)) = k
    BY <1>4, <1>5, <1>6
  <1>9. (x % Wrap) + k * Wrap = x
    BY <1>2, <1>3, <1>4, <1>5, <1>7
  <1> QED
    BY <1>8, <1>9

BeatsAfter(B, s, seg) == B = {i \in DOMAIN s : i > seg /\ s[i].kind = "heartbeat"}

\* What the anchor adds to the times after the segment opens.
LEMMA AnchorIs ==
    ASSUME NEW s, NEW seg, NEW t, seg # 0, NEW B, BeatsAfter(B, s, seg), B # {}, NEW b, b = Min(B)
    PROVE  Anchor(s, seg, t) =
             [i \in DOMAIN t |-> IF i > seg THEN t[i] + RoundWraps(s[b].uptime - t[b]) * Wrap ELSE t[i]]
  BY DEF Anchor, BeatsAfter

\* Every record after the provenance has its time.
LEMMA TimesOf ==
    ASSUME WInv, NEW tr, tr = Decoded, check(tr), NEW s, s = ram.recs
    PROVE  \A i \in DOMAIN s : i # 1 => tr.t[i] = s[i].at
  <1>1. tr.recs = s /\ tr.t = Anchor(s, Segment(s), Times(s))
    BY DecodedIs
  <1>2. Passed(s)
    BY PassShape
  <1>3. PICK n : n = Len(s)
    OBVIOUS
  <1>4. n \in Nat /\ DOMAIN s = 1 .. n /\ 1 \in DOMAIN s /\ s \in Seq(Records) /\ windowed \in BOOLEAN
    BY <1>2, <1>3 DEF Passed, WInv, WindowTypes
  <1>5. \A i \in 1 .. n : s[i].at \in Nat /\ s[i].ts = s[i].at % Wrap
    BY <1>4, RecordTimes
  <1>6. PICK f : f = Times(s)
    OBVIOUS
  <1>7. DOMAIN f = 1 .. n
    <2>1. ExtFn(f, s)
      BY <1>3, <1>4, <1>6, ExtAre
    <2> QED
      BY <1>4, <2>1 DEF ExtFn
  <1>8. CASE ~windowed
    <2>1. Segment(s) = 0 /\ Segmented(s, 1)
      BY <1>2, <1>8, PassSegment
    <2>2. tr.t = f
      BY <1>1, <1>6, <2>1 DEF Anchor
    <2>3. s[1].at = 0
      BY <1>2, <1>8 DEF Passed, BootSound
    <2>4. s[1].ts = 0
      <3>1. Wrap \in Nat /\ Wrap > 0
        BY WindowAssumption
      <3>2. 0 % Wrap = 0
        <4>1. 0 = 0 + Wrap * 0
          BY <3>1
        <4> QED
          BY <3>1, <4>1, ModOf
      <3> QED
        BY <1>4, <1>5, <2>3, <3>2
    <2>5. ASSUME NEW i \in 1 .. n
          PROVE  f[i] = s[i].at
      <3>1. 1 <= Len(s) /\ i \in 1 .. Len(s)
        BY <1>3, <1>4
      <3>2. f[i] = s[1].ts + (s[i].at - s[1].at)
        BY <1>4, <1>6, <2>1, <3>1, ExtTrue
      <3> QED
        BY <1>5, <2>3, <2>4, <3>2
    <2> QED
      BY <1>4, <2>2, <2>5
  <1>9. CASE windowed
    <2>1. Opens(s[1]) /\ Segment(s) = 1 /\ Segmented(s, 2)
      BY <1>2, <1>9, PassSegment
    <2> DEFINE beats == {i \in DOMAIN s : i > 1 /\ s[i].kind = "heartbeat"}
    <2>2. beats # {}
      <3>1. PICK b \in DOMAIN s : s[b].kind = "heartbeat"
        BY <1>1, PassHas DEF Of
      <3>2. b # 1
        <4>1. s[1] \in Provenances /\ s[1] \in Records
          BY <1>2 DEF Passed
        <4> QED
          BY <3>1, <4>1, Kinds
      <3> QED
        BY <1>4, <3>1, <3>2
    <2>3. PICK b : b = Min(beats)
      OBVIOUS
    <2>4. b \in 2 .. n /\ s[b].kind = "heartbeat"
      <3>1. \A i \in beats : i \in 2 .. n /\ s[i].kind = "heartbeat" /\ i \in Nat
        BY <1>4
      <3> HIDE DEF beats
      <3>2. beats \subseteq Nat
        BY <3>1
      <3>3. b \in beats
        BY <2>2, <2>3, <3>2, LeastOf
      <3> QED
        BY <3>1, <3>3
    <2>5. tr.t = [i \in DOMAIN f |-> IF i > 1 THEN f[i] + RoundWraps(s[b].uptime - f[b]) * Wrap ELSE f[i]]
      <3>1. PICK seg : seg = 1
        OBVIOUS
      <3>2. BeatsAfter(beats, s, seg)
        BY <3>1 DEF BeatsAfter
      <3>3. seg # 0
        BY <3>1
      <3> HIDE DEF beats
      <3>4. b = Min(beats) /\ beats # {}
        BY <2>2, <2>3
      <3>5. Anchor(s, seg, f) =
              [i \in DOMAIN f |-> IF i > seg THEN f[i] + RoundWraps(s[b].uptime - f[b]) * Wrap ELSE f[i]]
        BY <3>2, <3>3, <3>4, AnchorIs
      <3> QED
        BY <1>1, <1>6, <2>1, <3>1, <3>5
    <2> HIDE DEF beats
    <2>6. ASSUME NEW i \in 2 .. n
          PROVE  f[i] = (s[2].at % Wrap) + (s[i].at - s[2].at)
      <3>1. 2 <= Len(s) /\ i \in 2 .. Len(s) /\ 2 \in 1 .. n
        BY <1>3, <1>4
      <3>2. PICK lo : lo = 2
        OBVIOUS
      <3>3. Opens(s[lo - 1]) /\ Segmented(s, lo) /\ lo <= Len(s) /\ i \in lo .. Len(s)
        BY <2>1, <3>1, <3>2
      <3>4. f[i] = s[lo].ts + (s[i].at - s[lo].at)
        BY <1>4, <1>6, <3>3, ExtTrue
      <3> QED
        BY <1>5, <3>1, <3>2, <3>4
    <2>7. PICK x \in Nat : x = s[2].at
      BY <1>4, <1>5, <2>4
    <2>8. PICK y \in Nat : y = x % Wrap
      <3>1. Wrap \in Nat /\ Wrap > 0
        BY WindowAssumption
      <3> QED
        BY <3>1, ModParts
    <2>9. PICK q : q = RoundWraps(x - y)
      OBVIOUS
    <2>10. q \in Int /\ y + q * Wrap = x
      BY <2>8, <2>9, AnchorShift
    <2>11. s[b].uptime = s[b].at /\ s[b].at \in Nat
      <3>1. b \in 1 .. n
        BY <1>4, <2>4
      <3>2. s[b] \in Records
        BY <1>4, <3>1
      <3>3. s[b] \in Heartbeats
        BY <2>4, <3>2, Kinds
      <3> QED
        BY <1>5, <3>1, <3>3 DEF Heartbeats
    <2>12. s[b].uptime - f[b] = x - y
      <3>1. f[b] = y + (s[b].at - x)
        BY <2>4, <2>6, <2>7, <2>8
      <3> QED
        BY <2>7, <2>8, <2>11, <3>1
    <2>13. ASSUME NEW i \in 2 .. n
           PROVE  tr.t[i] = s[i].at
      <3>1. i \in DOMAIN f /\ i > 1 /\ i \in 1 .. n
        BY <1>4, <1>7
      <3>2. tr.t[i] = f[i] + RoundWraps(s[b].uptime - f[b]) * Wrap
        BY <2>5, <3>1
      <3>3. RoundWraps(s[b].uptime - f[b]) = q
        BY <2>9, <2>12
      <3>4. tr.t[i] = f[i] + q * Wrap
        BY <3>2, <3>3
      <3>5. f[i] = y + (s[i].at - x) /\ s[i].at \in Nat
        BY <1>5, <2>6, <2>7, <2>8, <3>1
      <3>6. PICK w : w = q * Wrap
        OBVIOUS
      <3>7. w \in Int
        <4>1. Wrap \in Int
          BY WindowAssumption
        <4> QED
          BY <2>10, <3>6, <4>1, Z3
      <3>8. y + w = x /\ tr.t[i] = f[i] + w
        BY <2>10, <3>4, <3>6
      <3> QED
        BY <2>7, <2>8, <3>5, <3>7, <3>8
    <2> QED
      BY <1>4, <2>13
  <1> QED
    BY <1>4, <1>8, <1>9

\* The trigger of a window that passes, and the history before it.
LEMMA PassTrigger ==
    ASSUME NEW s, Passed(s), windowed, NEW tr, tr.recs = s, Of(tr, "trigger") # {}, NEW ti, ti = triggerAt(tr)
    PROVE  /\ ti \in DOMAIN s /\ ti \in Nat /\ ti >= 2 /\ s[ti] \in Triggers
           /\ \A i \in 2 .. ti - 1 : i \in DOMAIN s /\ s[i] \in Event
  <1>1. PICK n : n = Len(s)
    OBVIOUS
  <1>2. n \in Nat /\ DOMAIN s = 1 .. n /\ s \in Seq(Records) /\ s[1] \in Provenances /\ 1 \in DOMAIN s
        /\ OpenSound(s)
    BY <1>1 DEF Passed
  <1>3. \A i \in DOMAIN s : s[i] \in Records
    BY <1>2
  <1> DEFINE I == Of(tr, "trigger")
  <1>4. \A i \in I : i \in DOMAIN s /\ s[i].kind = "trigger"
    BY DEF Of
  <1>5. ti = Min(I) /\ I # {}
    BY DEF triggerAt
  <1> HIDE DEF I
  <1>6. ti \in I
    <2>1. I \subseteq Nat
      BY <1>2, <1>4
    <2> QED
      BY <1>5, <2>1, LeastOf
  <1>7. ti \in DOMAIN s /\ s[ti].kind = "trigger" /\ s[ti] \in Records
    BY <1>3, <1>4, <1>6
  <1>8. s[ti] \in Triggers
    BY <1>7, Kinds DEF Records, Event, Markers, Heartbeats, Provenances
  <1>9. ti # 1
    <2>1. s[1] \in Records
      BY <1>2, <1>3
    <2>2. s[1] \notin Triggers
      BY <1>2, <2>1, Kinds
    <2> QED
      BY <1>8, <2>2
  <1>10. ASSUME NEW i \in 2 .. ti - 1
         PROVE  i \in DOMAIN s /\ s[i] \in Event
    <2>1. i \in DOMAIN s /\ i # ti /\ i \in 2 .. n
      BY <1>2, <1>7
    <2>2. s[i] \notin Triggers
      BY <1>2, <1>7, <1>8, <2>1 DEF OpenSound
    <2>3. s[i] \notin Provenances
      BY <1>1, <1>2, <2>1 DEF OpenSound
    <2> QED
      BY <1>3, <2>1, <2>2, <2>3 DEF Records
  <1> QED
    BY <1>2, <1>7, <1>8, <1>9, <1>10

LEMMA PassWindowed ==
    ASSUME NEW s, Passed(s), windowed, NEW tr, tr.recs = s, check(tr)
    PROVE  Windowed(tr)
  <1>1. DOMAIN s = 1 .. Len(s) /\ s \in Seq(Records) /\ s[1].windowed = windowed
        /\ \A i \in DOMAIN s : i # 1 => s[i] \notin Provenances
    BY DEF Passed
  <1>2. \A i \in DOMAIN s : s[i] \in Records
    BY <1>1
  <1> DEFINE I == Of(tr, "provenance")
  <1>3. I # {}
    BY PassHas
  <1>4. \A i \in I : i \in DOMAIN s /\ s[i].kind = "provenance"
    BY DEF Of
  <1>5. \A i \in I : i = 1
    BY <1>1, <1>2, <1>4, Kinds DEF Records, Event, Markers, Heartbeats, Triggers
  <1>6. provenance(tr) = s[Min(I)]
    BY DEF provenance
  <1>7. Windowed(tr) <=> provenance(tr).windowed
    BY <1>3 DEF Windowed
  <1> HIDE DEF I
  <1>8. Min(I) \in I
    <2>1. I \subseteq Nat
      BY <1>5
    <2> QED
      BY <1>3, <2>1, LeastOf
  <1>9. provenance(tr) = s[1]
    BY <1>5, <1>6, <1>8
  <1> QED
    BY <1>1, <1>7, <1>9

LEMMA PreKept ==
    ASSUME WInv, windowed, NEW tr, tr = Decoded, check(tr)
    PROVE  Cardinality(pre(tr)) = tr.recs[triggerAt(tr)].pre_kept
  <1>1. PICK s : s = ram.recs
    OBVIOUS
  <1>2. PICK ti : ti = triggerAt(tr)
    OBVIOUS
  <1>3. tr.recs = s /\ Passed(s)
    BY <1>1, DecodedIs, PassShape
  <1>4. Len(s) \in Nat /\ DOMAIN s = 1 .. Len(s) /\ s \in Seq(Records) /\ s[1] \in Provenances /\ 1 \in DOMAIN s
        /\ s[1].windowed = windowed /\ OpenSound(s)
        /\ \A i \in DOMAIN s : i # 1 => s[i] \notin Provenances
    BY <1>3 DEF Passed
  <1>5. \A i \in DOMAIN s : s[i] \in Records
    BY <1>4
  <1>6. Windowed(tr)
    BY <1>3, PassWindowed
  <1>7. Of(tr, "trigger") # {}
    BY <1>6, PassHas
  <1>8. ti \in DOMAIN s /\ ti \in Nat /\ ti >= 2 /\ s[ti] \in Triggers
    BY <1>2, <1>3, <1>7, PassTrigger
  <1>9. \A i \in 2 .. ti - 1 : i \in DOMAIN s /\ s[i] \in Event
    BY <1>2, <1>3, <1>7, PassTrigger
  <1>10. /\ s[ti].pre_kept = ti - 2
         /\ \A k \in 2 .. ti - 1 : s[k].at <= s[ti].at /\ s[ti].at - s[k].at <= Pre
    BY <1>4, <1>8 DEF OpenSound
  <1>11. \A i \in DOMAIN s : i # 1 => tr.t[i] = s[i].at
    BY <1>1, TimesOf
  <1>12. \A i \in DOMAIN s : s[i].at \in Nat
    BY <1>5, RecordTimes
  <1>13. ASSUME NEW i \in 1 .. ti - 1
         PROVE  (/\ s[i].kind \in Events /\ tr.t[i] <= tr.t[ti] /\ tr.t[i] >= tr.t[ti] - ReportSpan)
                <=> i \in 2 .. ti - 1
    <2>1. CASE i = 1
      <3>1. s[1].kind \notin Events
        BY <1>4, <1>5, Kinds DEF Events
      <3> QED
        BY <2>1, <3>1
    <2>2. CASE i # 1
      <3>1. i \in 2 .. ti - 1
        BY <2>2, <1>8
      <3>2. i \in DOMAIN s /\ s[i] \in Event /\ s[i] \in Records
        BY <1>5, <1>9, <3>1
      <3>3. s[i].kind \in Events
        BY <3>2, Kinds
      <3>4. tr.t[i] = s[i].at /\ tr.t[ti] = s[ti].at
        <4>1. ti # 1
          BY <1>8
        <4> QED
          BY <1>8, <1>11, <2>2, <3>2, <4>1
      <3>5. s[i].at <= s[ti].at /\ s[ti].at - s[i].at <= Pre /\ s[i].at \in Nat /\ s[ti].at \in Nat
        BY <1>8, <1>10, <1>12, <3>1, <3>2
      <3>6. tr.t[i] <= tr.t[ti] /\ tr.t[i] >= tr.t[ti] - ReportSpan
        BY <3>4, <3>5, WindowAssumption
      <3> QED
        BY <3>1, <3>3, <3>6
    <2> QED
      BY <2>1, <2>2
  <1>14. pre(tr) = 2 .. ti - 1
    <2>1. pre(tr) = {i \in 1 .. ti - 1 : /\ s[i].kind \in Events
                                         /\ tr.t[i] <= tr.t[ti] /\ tr.t[i] >= tr.t[ti] - ReportSpan}
      BY <1>2, <1>3 DEF pre
    <2>2. \A i : i \in 2 .. ti - 1 => i \in 1 .. ti - 1
      BY <1>8
    <2> QED
      BY <1>13, <2>1, <2>2
  <1>15. Cardinality(2 .. ti - 1) = ti - 2
    <2>1. PICK hi : hi = ti - 1
      OBVIOUS
    <2>2. hi \in Int /\ 2 \in Int
      BY <1>8, <2>1
    <2>3. Cardinality(2 .. hi) = IF 2 > hi THEN 0 ELSE hi - 2 + 1
      BY <2>2, FS_Interval
    <2> QED
      BY <1>8, <2>1, <2>3
  <1> QED
    BY <1>2, <1>3, <1>10, <1>14, <1>15

LEMMA TimesHold ==
    ASSUME WInv
    PROVE  TimesTrue
  <1>1. PICK tr : tr = Decoded
    OBVIOUS
  <1> SUFFICES ASSUME check(tr)
               PROVE  /\ \A i \in EventsOf(tr) : tr.t[i] = tr.recs[i].at
                      /\ windowed => Cardinality(pre(tr)) = tr.recs[triggerAt(tr)].pre_kept
    BY <1>1 DEF TimesTrue
  <1>2. PICK s : s = ram.recs
    OBVIOUS
  <1>3. tr.recs = s /\ Passed(s)
    BY <1>1, <1>2, DecodedIs, PassShape
  <1>4. ASSUME NEW i \in EventsOf(tr)
        PROVE  tr.t[i] = tr.recs[i].at
    <2>1. i \in DOMAIN s /\ s[i].kind \in Events
      BY <1>3 DEF EventsOf
    <2>2. i # 1
      <3>1. s[1] \in Provenances /\ s[1] \in Records
        BY <1>3 DEF Passed
      <3> QED
        BY <2>1, <3>1, Kinds DEF Events
    <2>3. \A j \in DOMAIN s : j # 1 => tr.t[j] = s[j].at
      BY <1>1, <1>2, TimesOf
    <2> QED
      BY <1>3, <2>1, <2>2, <2>3
  <1>5. windowed => Cardinality(pre(tr)) = tr.recs[triggerAt(tr)].pre_kept
    BY <1>1, PreKept
  <1> QED
    BY <1>4, <1>5

\* A trace that passes trace-check shows every record at the time it was
\* made, however often the stamp wrapped, and the history that the trigger
\* flushed: for every Wrap of more than two heartbeats, every ring and every
\* order of markers (load's differences and anchor, window_stats).
THEOREM TimesAreTrue == Spec => []TimesTrue
  <1>1. WInv => TimesTrue
    BY TimesHold
  <1> QED
    BY <1>1, WindowInvariant, PTL

-----------------------------------------------------------------------------
(* A trace that passes has every record.                                   *)

\* The records kept are numbered without a gap from the first that is left.
LEMMA NoGap ==
    ASSUME NEW s \in Seq(Records), Linked(s, Event, EventPairs), NEW lo, FirstEvent(s, lo),
           NEW i \in DOMAIN s, s[i] \in Event, i # lo, lo \in DOMAIN s
    PROVE  \E j \in DOMAIN s : s[j] \in Event /\ s[i].n - 1 = s[j].n
  <1>1. PICK n : n = Len(s)
    OBVIOUS
  <1>2. n \in Nat /\ DOMAIN s = 1 .. n
    BY <1>1
  <1>3. i > lo /\ i \in Nat /\ lo \in Nat
    <2>1. i \in 1 .. n /\ lo \in 1 .. n
      BY <1>2
    <2>2. CASE i < lo
      <3>1. i \in 1 .. lo - 1
        BY <2>1, <2>2
      <3> QED
        BY <3>1 DEF FirstEvent
    <2> QED
      BY <2>1, <2>2
  <1> DEFINE before == {k \in 1 .. i - 1 : s[k] \in Event}
  <1>4. lo \in before
    BY <1>2, <1>3 DEF FirstEvent
  <1>5. \A k \in before : k \in 1 .. i - 1 /\ s[k] \in Event
    OBVIOUS
  <1>6. \A k \in 1 .. i - 1 : s[k] \in Event => k \in before
    OBVIOUS
  <1> HIDE DEF before
  <1>7. PICK j : j = Max(before)
    OBVIOUS
  <1>8. j \in before /\ \A k \in before : k <= j
    <2>1. PICK m : m = i - 1
      OBVIOUS
    <2>2. m \in Nat
      BY <1>2, <1>3, <2>1
    <2>3. before \subseteq 0 .. m
      BY <1>5, <2>1
    <2>4. before # {}
      BY <1>4
    <2> QED
      BY <1>7, <2>2, <2>3, <2>4, GreatestOf
  <1>9. j \in DOMAIN s /\ j < i /\ s[j] \in Event /\ j \in Nat
    BY <1>2, <1>3, <1>5, <1>8
  <1>10. ASSUME NEW k \in j + 1 .. i - 1
         PROVE  s[k] \notin Event
    <2>1. k \in 1 .. i - 1 /\ ~(k <= j)
      BY <1>3, <1>9
    <2> QED
      BY <1>6, <1>8, <2>1
  <1>11. <<s[j], s[i]>> \in EventPairs
    BY <1>9, <1>10 DEF Linked
  <1>12. s[i].n = s[j].n + 1
    BY <1>11 DEF EventPairs
  <1>13. s[j].n \in Nat
    BY <1>9 DEF Event, Markers, Heartbeats
  <1> QED
    BY <1>9, <1>12, <1>13

LEMMA CompleteHolds ==
    ASSUME WInv
    PROVE  PassMeansComplete
  <1>1. PICK tr : tr = Decoded
    OBVIOUS
  <1> DEFINE index == {tr.recs[i].n : i \in EventsOf(tr)}
             ti == triggerAt(tr)
             lo == Min(EventsOf(tr))
             first == tr.recs[lo]
             Goal == /\ \A x \in index : x = first.n \/ x - 1 \in index
                     /\ \E i \in EventsOf(tr) : tr.recs[i].kind = "heartbeat" /\ tr.recs[i].seq + 1 = hb_seq
                     /\ IF ~windowed THEN first.n = 1
                        ELSE \/ first.after = Never
                             \/ tr.recs[ti].at - first.after > Pre
                             \/ Bytes(SubSeq(tr.recs, lo, ti - 1)) + 14 > Half
  <1> SUFFICES ASSUME check(tr) PROVE Goal
    BY <1>1 DEF PassMeansComplete
  <1>2. PICK s : s = ram.recs
    OBVIOUS
  <1>3. tr.recs = s /\ Passed(s) /\ tr.emitted = hb_seq
    BY <1>1, <1>2, DecodedIs, PassShape
  <1>4. Len(s) \in Nat /\ DOMAIN s = 1 .. Len(s) /\ s \in Seq(Records) /\ Linked(s, Event, EventPairs)
        /\ windowed \in BOOLEAN
    BY <1>3 DEF Passed, Stream, WInv, WindowTypes
  <1>5. PICK I : I = EventsOf(tr)
    OBVIOUS
  <1>6. \A i : i \in I <=> i \in DOMAIN s /\ s[i] \in Event
    <2>1. \A i : i \in I <=> i \in DOMAIN s /\ s[i].kind \in Events
      BY <1>3, <1>5 DEF EventsOf
    <2>2. ASSUME NEW i \in DOMAIN s
          PROVE  s[i].kind \in Events <=> s[i] \in Event
      <3>1. s[i] \in Records
        BY <1>4
      <3> QED
        BY <3>1, Kinds DEF Events, Event
    <2> QED
      BY <2>1, <2>2
  <1> DEFINE H == Of(tr, "heartbeat")
  <1>7. PICK b : b = Max(H)
    OBVIOUS
  <1>8. b \in DOMAIN s /\ s[b].kind = "heartbeat" /\ b \in I /\ s[b].seq + 1 = hb_seq
    <2>1. \A i \in H : i \in DOMAIN s /\ s[i].kind = "heartbeat"
      BY <1>3 DEF Of
    <2>2. H # {} /\ s[Max(H)].seq + 1 = hb_seq
      BY <1>3, PassHas DEF completeOk
    <2> HIDE DEF H
    <2>3. Max(H) \in H
      <3>1. PICK n : n = Len(s)
        OBVIOUS
      <3>2. n \in Nat
        BY <1>4, <3>1
      <3>3. H \subseteq 0 .. n
        BY <1>4, <2>1, <3>1
      <3>4. H # {}
        BY <2>2
      <3> QED
        BY <3>2, <3>3, <3>4, GreatestOf
    <2>4. b \in DOMAIN s /\ s[b].kind = "heartbeat"
      BY <1>7, <2>1, <2>3
    <2>5. s[b] \in Event
      <3>1. s[b] \in Records
        BY <1>4, <2>4
      <3> QED
        BY <2>4, <3>1, Kinds DEF Event
    <2> QED
      BY <1>6, <1>7, <2>2, <2>4, <2>5
  <1>9. PICK l : l = lo
    OBVIOUS
  <1>10. l \in I /\ \A j \in I : l <= j
    <2>1. I \subseteq Nat /\ I # {}
      BY <1>4, <1>6, <1>8
    <2> QED
      BY <1>5, <1>9, <2>1, LeastOf
  <1>11. l \in DOMAIN s /\ FirstEvent(s, l)
    <2>1. l \in DOMAIN s /\ s[l] \in Event
      BY <1>6, <1>10
    <2>2. ASSUME NEW k \in 1 .. l - 1
          PROVE  s[k] \notin Event
      <3>1. k \in DOMAIN s /\ ~(l <= k)
        BY <1>4, <2>1
      <3> QED
        BY <1>6, <1>10, <3>1
    <2> QED
      BY <2>1, <2>2 DEF FirstEvent
  <1>12. first = s[l]
    BY <1>3, <1>9
  <1>13. index = {s[i].n : i \in I}
    BY <1>3, <1>5
  <1>14. PICK t : t = ti
    OBVIOUS
  <1> HIDE DEF index, first, lo, ti, H
  <1>15. ASSUME NEW x \in index
         PROVE  x = first.n \/ x - 1 \in index
    <2>1. PICK i \in I : x = s[i].n
      BY <1>13
    <2>2. i \in DOMAIN s /\ s[i] \in Event
      BY <1>6, <2>1
    <2>3. CASE i = l
      BY <1>12, <2>1, <2>3
    <2>4. CASE i # l
      <3>1. PICK j \in DOMAIN s : s[j] \in Event /\ s[i].n - 1 = s[j].n
        BY <1>4, <1>11, <2>2, <2>4, NoGap
      <3> QED
        BY <1>6, <1>13, <2>1, <3>1
    <2> QED
      BY <2>3, <2>4
  <1>16. \E i \in EventsOf(tr) : tr.recs[i].kind = "heartbeat" /\ tr.recs[i].seq + 1 = hb_seq
    BY <1>3, <1>5, <1>8
  <1>17. CASE ~windowed
    <2>1. BootSound(s)
      BY <1>3, <1>17 DEF Passed
    <2>2. s[l].n = 1
      BY <1>11, <2>1 DEF BootSound
    <2> QED
      BY <1>12, <1>15, <1>16, <1>17, <2>2
  <1>18. CASE windowed
    <2>1. OpenSound(s)
      BY <1>3, <1>18 DEF Passed
    <2>2. Of(tr, "trigger") # {}
      BY <1>3, <1>18, PassWindowed, PassHas
    <2>3. t = triggerAt(tr)
      BY <1>14 DEF ti
    <2>4. t \in DOMAIN s /\ s[t] \in Triggers
      BY <1>3, <1>18, <2>2, <2>3, PassTrigger
    <2>5. Reaches(s, l, t)
      BY <1>11, <2>1, <2>4 DEF OpenSound
    <2>6. \/ first.after = Never
          \/ tr.recs[ti].at - first.after > Pre
          \/ Bytes(SubSeq(tr.recs, lo, ti - 1)) + 14 > Half
      BY <1>3, <1>9, <1>12, <1>14, <2>5 DEF Reaches
    <2> QED
      BY <1>15, <1>16, <1>18, <2>6
  <1> QED
    BY <1>4, <1>17, <1>18

\* A trace that passes trace-check has every record the policy kept, from the
\* first of its history, which reaches back as far as the ring held, to the
\* last heartbeat emitted: for every policy, ring, buffer and order of the
\* markers (island_trace_pre_put, the flush, a full buffer, check).
THEOREM PassIsComplete == Spec => []PassMeansComplete
  <1>1. WInv => PassMeansComplete
    BY CompleteHolds
  <1> QED
    BY <1>1, WindowInvariant, PTL
=============================================================================

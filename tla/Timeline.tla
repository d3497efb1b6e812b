------------------------------ MODULE Timeline ------------------------------
(***************************************************************************)
(* The host's event log: the probe that writes it (tools/board/probe.py)   *)
(* and the writer and the readers of tools/board/tlcommon.py.              *)
(*                                                                         *)
(* The probe appends a line per change of a predicate's truth or of a      *)
(* lane.  A line reaches the file in one write or in several, the probe    *)
(* may be killed between two of them and started again on the same file,   *)
(* and the live view reads what is there at any time.                      *)
(*                                                                         *)
(* The file is a sequence of pieces: a line's text in two of them, 1 and   *)
(* 2, and the newline.  Receive times never decrease within a boot of the  *)
(* host, so that the sort of read_events keeps the order of the file.      *)
(***************************************************************************)
EXTENDS Integers, Sequences, SequencesExt, FiniteSetsExt

CONSTANTS
    Contract,       \* the resolved model's contract: [functions, hazards], each
                    \* by name [of, when]: its topics, the values it holds for
    Sampled,        \* the topics every sample of which is logged
    Lanes,          \* the topics logged on change
    Values,         \* what a message may carry
    MaxSamples,     \* bound: messages of a run
    MaxStarts       \* bound: starts of the probe

VARIABLES
    file,       \* probe.jsonl
    probe,      \* the process: [up, state, outbox, left]
    tail,       \* the live view: [pos, buf, out]
    latest,     \* history: by key, the value this process evaluated last
    messages,    \* messages so far
    starts

logVars == <<file, probe, tail, latest, messages, starts>>

-----------------------------------------------------------------------------
(* The declared side.                                                      *)

\* declared: a predicate for every topic of every function and hazard.
declared ==
    UNION {UNION {{[name |-> n, kind |-> k, topic |-> t, when |-> Contract[k][n].when] :
                      t \in Contract[k][n].of} : n \in DOMAIN Contract[k]} :
           k \in {"functions", "hazards"}}

evaluate(p, v) == v \in p.when
Topics == {p.topic : p \in declared} \union Lanes
\* A model has finitely many predicates.
ASSUME DeclaredAssumption == IsFiniteSet(declared)
\* The topic's predicates, one after the other.
by_topic == [t \in Topics |-> SetToSeq({p \in declared : p.topic = t})]

-----------------------------------------------------------------------------
(* The probe.                                                              *)

\* A line is its key and the value.
Line(key, value) == <<key, value>>
config == Line(<<"config", "-">>, TRUE)
\* A line's pieces, as far as they are still to be written.
Pieces(line) == <<[line |-> line, part |-> 1], [line |-> line, part |-> 2], [line |-> line, part |-> 3]>>
Newline(piece) == piece.part = 3

\* Mutant: a probe that was started before writes no config.
firstLinesOnce == IF starts = 0 THEN <<config>> ELSE <<>>
\* A probe's first line is its configuration.
firstLines == <<config>>

stopped == [up |-> FALSE, state |-> <<>>, outbox |-> <<>>, left |-> <<>>]

\* main, up to the loop: the file is opened to append.
start ==
    /\ ~probe.up /\ starts < MaxStarts
    /\ probe' = [stopped EXCEPT !.up = TRUE, !.outbox = firstLines]
    /\ starts' = starts + 1
    /\ latest' = <<>>
    /\ UNCHANGED <<file, tail, messages>>

\* f with v at k.
With(f, k, v) == [x \in DOMAIN f \union {k} |-> IF x = k THEN v ELSE f[x]]

\* What a process knows: a key it has not seen differs from any value.
Differs(state, key, v) == key \notin DOMAIN state \/ state[key] # v

\* on_pred_topic and on_change: an edge of each predicate of the topic in
\* turn, all topics of a name sharing its state, then the sample or the lane.
Edge(s, p, v) ==
    LET key == <<p.kind, p.name>>
        holds == evaluate(p, v)
    IN  IF Differs(s.state, key, holds)
        THEN [state |-> With(s.state, key, holds), lines |-> Append(s.lines, Line(key, holds))]
        ELSE s
PredEdges(preds, v) ==
    LET upto[i \in 0 .. Len(preds)] ==
          IF i = 0 THEN [state |-> probe.state, lines |-> <<>>] ELSE Edge(upto[i - 1], preds[i], v)
    IN  upto[Len(preds)]

LaneEdge(s, topic, v) ==
    LET key == <<"lane", topic>>
    IN  IF topic \in Sampled THEN [s EXCEPT !.lines = Append(@, Line(key, v))]
        ELSE IF topic \in Lanes /\ Differs(s.state, key, v)
        THEN [state |-> With(s.state, key, v), lines |-> Append(s.lines, Line(key, v))]
        ELSE s

\* The callbacks run one after the other on the spinning thread.
on_message(topic, v) ==
    LET preds == by_topic[topic]
        all == LaneEdge(PredEdges(preds, v), topic, v)
        seen == {<<<<p.kind, p.name>>, evaluate(p, v)>> : p \in ToSet(preds)}
                \union (IF topic \in Lanes \union Sampled THEN {<<<<"lane", topic>>, v>>} ELSE {})
        keys == {x[1] : x \in seen}
    IN  /\ probe.up /\ probe.outbox = <<>> /\ probe.left = <<>> /\ messages < MaxSamples
        /\ probe' = [probe EXCEPT !.state = all.state, !.outbox = all.lines]
        /\ latest' = [key \in keys \union DOMAIN latest |->
                         IF key \in keys THEN (CHOOSE x \in seen : x[1] = key)[2] ELSE latest[key]]
        /\ messages' = messages + 1
        /\ UNCHANGED <<file, tail, starts>>

\* Writer.write: the line goes out in one write of the file or in several.
write(n) ==
    LET left == IF probe.left # <<>> THEN probe.left ELSE Pieces(Head(probe.outbox))
    IN  /\ probe.up /\ (probe.left # <<>> \/ probe.outbox # <<>>)
        /\ n \in 1 .. Len(left)
        /\ file' = file \o SubSeq(left, 1, n)
        /\ probe' = [probe EXCEPT !.left = SubSeq(left, n + 1, Len(left)),
                                  !.outbox = IF probe.left # <<>> THEN @ ELSE Tail(@)]
        /\ UNCHANGED <<tail, latest, messages, starts>>

\* SIGTERM is seen between two callbacks.
stop ==
    /\ probe.up /\ probe.outbox = <<>> /\ probe.left = <<>>
    /\ probe' = stopped
    /\ UNCHANGED <<file, tail, latest, messages, starts>>

\* The process is killed, or a write fails and ends it.
die ==
    /\ probe.up /\ (probe.outbox # <<>> \/ probe.left # <<>>)
    /\ probe' = stopped
    /\ UNCHANGED <<file, tail, latest, messages, starts>>

-----------------------------------------------------------------------------
(* The readers.                                                            *)

\* json.loads reads a line's text when it is whole and alone, else raises.
loads(text) == \E i \in DOMAIN text : text = SubSeq(Pieces(text[i].line), 1, 2)

\* split("\n"): the complete lines and the rest, of which a newline makes one
\* more line.
Split(s, piece) ==
    IF Newline(piece) THEN [lines |-> Append(s.lines, s.rest), rest |-> <<>>]
                      ELSE [s EXCEPT !.rest = Append(@, piece)]
split(pieces) ==
    LET upto[i \in 0 .. Len(pieces)] ==
          IF i = 0 THEN [lines |-> <<>>, rest |-> <<>>] ELSE Split(upto[i - 1], pieces[i])
    IN  upto[Len(pieces)]

\* The events of the lines that can be read.
Log(out, text) == IF loads(text) THEN Append(out, text[1].line) ELSE out
Logged(lines) ==
    LET upto[i \in 0 .. Len(lines)] == IF i = 0 THEN <<>> ELSE Log(upto[i - 1], lines[i])
    IN  upto[Len(lines)]

\* read_events: a last line without its newline is tried too.
read_events(pieces) == LET s == split(pieces) IN Logged(Append(s.lines, s.rest))

\* Mutant: the unfinished line is not kept.
keptBufNone(s) == <<>>
\* lines.pop() stays for the next poll.
keptBuf(s) == s.rest

\* Tail.poll.
poll ==
    LET chunk == SubSeq(file, tail.pos + 1, Len(file))
        s == split(tail.buf \o chunk)
    IN  /\ tail.pos < Len(file)
        /\ tail' = [pos |-> Len(file), buf |-> keptBuf(s), out |-> tail.out \o Logged(s.lines)]
        /\ UNCHANGED <<file, probe, latest, messages, starts>>

-----------------------------------------------------------------------------
LogInit ==
    /\ file = <<>> /\ probe = stopped /\ tail = [pos |-> 0, buf |-> <<>>, out |-> <<>>]
    /\ latest = <<>> /\ messages = 0 /\ starts = 0

LogNext ==
    \/ start \/ stop \/ die \/ poll
    \/ \E t \in Topics, v \in Values : on_message(t, v)
    \/ \E n \in 1 .. 3 : write(n)

-----------------------------------------------------------------------------
(* Properties.                                                             *)

\* The last event of a key that the view has.
Shown(key) ==
    LET mine == {i \in DOMAIN tail.out : tail.out[i][1] = key}
    IN  IF mine = {} THEN <<>> ELSE <<tail.out[Max(mine)][2]>>

\* However the writes and the polls fall, the live view has what a batch read
\* of the same file has, each event once and in order; only a last line
\* without its newline is still to come.
TailTrue ==
    LET batch == read_events(SubSeq(file, 1, tail.pos))
    IN  /\ IsPrefix(tail.out, batch)
        /\ Len(batch) <= Len(tail.out) + 1
        /\ tail.buf = <<>> => tail.out = batch

\* Once the probe wrote what it has and the view read it, the view shows the
\* last value of everything this process evaluated, though an earlier one may
\* have been killed in the middle of a line: what the torn line spoils is the
\* configuration of the next, never a predicate or a lane.
ViewTrue ==
    probe.up /\ probe.outbox = <<>> /\ probe.left = <<>> /\ tail.pos = Len(file) =>
        \A key \in DOMAIN latest : Shown(key) = <<latest[key]>>
=============================================================================

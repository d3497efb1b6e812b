-------------------------- MODULE SupervisorRecord --------------------------
(***************************************************************************)
(* The layout of island_supervisor_record and its decoder and report       *)
(* (tools/board/violations.py).                                            *)
(*                                                                         *)
(* The record grew by appending blocks of words, but for the level block,  *)
(* which P9b widened where it stood.  The tool reads the record of any     *)
(* image: what is there is told from the record's length, and the offsets  *)
(* from two words of it, the routes and the level slots.                   *)
(* A word is <<field, index>>: which word of which field it really is; a   *)
(* field is a part and the number of its slot, 0 for a part without slots. *)
(***************************************************************************)
EXTENDS Integers, Sequences

\* Words of each part: SUP_HEADER, SUP_ROUTE, ...
HEADER == 18
ROUTE == 7
DIRECT == 5
DIRECT_SLOTS == 2
TAIL == 3
PRIO == 10
THREADS == 12 * 5
LATE == 5
LEVELS == 8
LEVEL == 10
LevelsI1 == 6
LevelI1 == 9
FLOOR == 7
UNSEEN == 1
RESUME == 11
RESPONSE == 9

Words(field, n) == [i \in 1 .. n |-> <<field, i>>]
\* n slots of a part, of size words each.
Slots(name, n, size) == [i \in 1 .. n * size |-> <<<<name, (i - 1) \div size>>, ((i - 1) % size) + 1>>]

\* An image: how many of the blocks it has, its routes, its level slots, how
\* many of them are in use, and whether its levels are those of P9b.
Blocks == 10

\* The level block: its head, then its slots.  P9b put the level that hosts
\* mrm_handler and the level count behind the head's six words, and the level
\* it spins behind a slot's nine.
levelBlock(img) ==
    IF img.p9b THEN Words(<<"levels", 0>>, LEVELS) \o Slots("level", img.levels, LEVEL)
               ELSE Words(<<"levels", 0>>, LevelsI1) \o Slots("level", img.levels, LevelI1)

\* An image with the level block of phase 509 I1.
OfI1(img) == img.blocks >= 6 /\ ~img.p9b

\* The record the image writes.
record(img) ==
    LET From(b, words) == IF img.blocks >= b THEN words ELSE <<>>
    IN  Words(<<"header", 0>>, HEADER) \o Slots("route", img.routes, ROUTE)
        \o From(2, Slots("direct", DIRECT_SLOTS, DIRECT))
        \o From(3, Words(<<"tail", 0>>, TAIL))
        \o From(4, Words(<<"prio", 0>>, PRIO) \o Words(<<"threads", 0>>, THREADS))
        \o From(5, Words(<<"late", 0>>, LATE))
        \o From(6, levelBlock(img))
        \o From(7, Words(<<"route", img.routes>>, ROUTE) \o Words(<<"floor", 0>>, FLOOR))
        \o From(8, Words(<<"unseen", 0>>, UNSEEN))
        \o From(9, Words(<<"resume", 0>>, RESUME))
        \o From(10, Words(<<"route", img.routes + 1>>, ROUTE) \o Words(<<"response", 0>>, RESPONSE))

-----------------------------------------------------------------------------
(* The decoder: what it takes for each field, as far as the record goes.   *)

\* The words of a field of size n at offset o, or nothing when the record
\* ends before.
Field(name, blob, o, n) ==
    IF o + n <= Len(blob) THEN {<<name, SubSeq(blob, o + 1, o + n)>>} ELSE {}

\* The same of the slots of a part, from offset o.
Each(name, blob, o, n, size) == UNION {Field(<<name, i - 1>>, blob, o + (i - 1) * size, size) : i \in 1 .. n}

\* Mutant: the levels in use are skipped, and not the slots.
afterLevelsUsed(img, o3) == o3 + LEVELS + img.used * LEVEL
\* The offset behind the level slots; o3 is the block's.
afterLevels(img, o3) == o3 + LEVELS + img.levels * LEVEL

\* supervisor_decode.  A route past the header's is appended when its whole
\* block is there.
decode(img, blob) ==
    LET off == HEADER + img.routes * ROUTE
        tail == off + DIRECT_SLOTS * DIRECT
        o == tail + TAIL
        o2 == o + PRIO + THREADS
        o3 == o2 + LATE
        o4 == afterLevels(img, o3)
        o5 == o4 + ROUTE
        o6 == o5 + FLOOR
        o7 == o6 + UNSEEN
        o8 == o7 + RESUME
        Has(x) == x <= Len(blob)
    IN  Field(<<"header", 0>>, blob, 0, HEADER)
        \union Each("route", blob, HEADER, img.routes, ROUTE)
        \union Each("direct", blob, off, DIRECT_SLOTS, DIRECT)
        \union Field(<<"tail", 0>>, blob, tail, TAIL)
        \union (IF ~Has(o + PRIO) THEN {}
                ELSE Field(<<"prio", 0>>, blob, o, PRIO) \union Field(<<"threads", 0>>, blob, o + PRIO, THREADS)
                     \union Field(<<"late", 0>>, blob, o2, LATE)
                     \union (IF ~Has(o3 + LEVELS) THEN {}
                             ELSE Field(<<"levels", 0>>, blob, o3, LEVELS)
                                  \union Each("level", blob, o3 + LEVELS, img.used, LEVEL)
                                  \union (IF ~Has(o4 + ROUTE + FLOOR) THEN {}
                                          ELSE Field(<<"route", img.routes>>, blob, o4, ROUTE)
                                               \union Field(<<"floor", 0>>, blob, o5, FLOOR)
                                               \union Field(<<"unseen", 0>>, blob, o6, UNSEEN)
                                               \union Field(<<"resume", 0>>, blob, o7, RESUME)
                                               \union (IF ~Has(o8 + ROUTE + RESPONSE) THEN {}
                                                       ELSE Field(<<"route", img.routes + 1>>, blob, o8, ROUTE)
                                                            \union Field(<<"response", 0>>, blob, o8 + ROUTE, RESPONSE)))))

supervisor_layout_words(routes, levels) ==
    HEADER + routes * ROUTE + DIRECT_SLOTS * DIRECT + TAIL + PRIO + THREADS + LATE + LEVELS
    + levels * LEVEL + ROUTE + FLOOR + UNSEEN + RESUME + ROUTE + RESPONSE

-----------------------------------------------------------------------------
(* The report.                                                             *)

\* The fields supervisor_report reads, by what the record has and shows: a
\* resumed slot, a vehicle-side fault, priorities taken at the first spin.
reportReads(has, shows) ==
    LET Part(name) == <<name, 0>>
        Block(name) == {Part(name)} \intersect has
    IN  {Part("header")} \union (has \intersect {<<"direct", i>> : i \in 0 .. DIRECT_SLOTS - 1})
        \union Block("late") \union Block("levels") \union Block("tail")
        \union (IF Part("resume") \in has /\ "resumed" \in shows
                THEN {Part("resume")} ELSE {})
        \union (IF Part("floor") \notin has THEN {}
                ELSE {Part("floor")} \union Block("unseen") \union Block("resume") \union Block("response"))
        \union (IF Part("prio") \in has /\ "taken" \in shows THEN {Part("prio"), Part("threads")} ELSE {})
=============================================================================

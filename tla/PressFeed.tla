----------------------------- MODULE PressFeed -----------------------------
(***************************************************************************)
(* What the act may rely on of the buttons: a line for every press, once,  *)
(* in order, under its own number.  The record on the board keeps the last *)
(* Ring presses, so a reader that falls behind by more than Ring misses    *)
(* the oldest ones, and a line whose entry was overwritten while it was    *)
(* read may show another press.  Nothing else may be lost or changed.      *)
(***************************************************************************)
EXTENDS Integers, Sequences, SequencesExt

CONSTANT Ring

VARIABLES
    made,       \* the presses, in the order the board saw them
    told,       \* the lines: [n, press]
    upto,       \* the number of the last press that was told or skipped
    joined      \* a reader is there

feedVars == <<made, told, upto, joined>>

FeedInit == made = <<>> /\ told = <<>> /\ upto = 0 /\ joined = FALSE

Make ==
    /\ Len(made') = Len(made) + 1 /\ IsPrefix(made, made')
    /\ UNCHANGED <<told, upto, joined>>

\* The reader joins: what was pressed before is not told (the last press may
\* be on its way, and is then told).
Join ==
    /\ ~joined /\ joined' = TRUE
    /\ upto' \in {Len(made), Len(made) - 1} /\ upto' >= 0
    /\ UNCHANGED <<made, told>>

Overwritten(i) == i + Ring <= Len(made)

Tell(n) ==
    LET first == (IF upto > n - Ring THEN upto ELSE n - Ring) + 1
        lines == SubSeq(told', Len(told) + 1, Len(told'))
    IN  /\ joined
        /\ IsPrefix(told, told') /\ Len(lines) = n - first + 1
        /\ \A k \in DOMAIN lines :
              /\ lines[k].n = first + k - 1
              /\ ~Overwritten(lines[k].n) => lines[k].press = made[lines[k].n]
        /\ upto' = n
        /\ UNCHANGED <<made, joined>>

FeedNext == Make \/ Join \/ \E n \in upto .. Len(made) : Tell(n)

FeedSpec == FeedInit /\ [][FeedNext]_feedVars
=============================================================================

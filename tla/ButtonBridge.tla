---------------------------- MODULE ButtonBridge ----------------------------
(***************************************************************************)
(* The visitor's buttons (src/zephyr_entry/src/island_buttons.c) and the   *)
(* host's side of them (tools/board/board_buttons.py).                     *)
(*                                                                         *)
(* The handler's tick samples the two buttons, debounces them and records  *)
(* a press in island_button_record.  The tool reads the record over SWD    *)
(* while the core runs, the header first, then the ring, and writes the    *)
(* inject words: every step of one may fall between two of the other.  A   *)
(* press is <<tick, button, why>>, its uptime and its code.                *)
(***************************************************************************)
EXTENDS Integers, Sequences, FiniteSets

CONSTANTS
    ButtonRing,     \* ISLAND_BUTTON_RING = RING
    Contexts,       \* the handler's part of a tick: "init", "normal", "takeover"
    InjectTicks,    \* what an inject command may write
    MaxTicks,       \* bound: ticks of a run
    MaxInjects      \* bound: injections of a run

Buttons == {1, 2}

ASSUME ButtonAssumption == ButtonRing \in Nat \ {0} /\ InjectTicks \subseteq Nat

VARIABLES
    rec,        \* the record: [debounced, presses, inject, ring]
    last_sample,\* the buttons the previous tick sampled as pressed
    fw,         \* the tick under way: [pc, b, sample, inj, edges, context]
    ticks,
    tool,       \* the tool: [pc, mode, seen, n]
    made, told, \* history: the presses, and the lines printed
    injects,    \* history: injections so far
    waited      \* history: by button, ticks ended since an injection found it up

buttonVars == <<rec, last_sample, fw, ticks, tool, made, told, injects, waited>>

-----------------------------------------------------------------------------
(* The tick.                                                               *)

idleTick == [pc |-> "idle", b |-> 1, sample |-> {}, inj |-> 0, edges |-> {}, context |-> "init"]

\* island_buttons_update is called with the handler's state.
tickStart(c) ==
    /\ fw.pc = "idle" /\ ticks < MaxTicks
    /\ ticks' = ticks + 1
    /\ fw' = [idleTick EXCEPT !.pc = "read", !.context = c]
    /\ UNCHANGED <<rec, last_sample, tool, made, told, injects, waited>>

\* The inject word and the pin of button b (a failed port read is a 0).
tickRead(pin) ==
    LET inj == rec.inject[fw.b]
    IN  /\ fw.pc = "read"
        /\ fw' = [fw EXCEPT !.pc = "count", !.inj = inj,
                            !.sample = IF pin \/ inj # 0 THEN @ \union {fw.b} ELSE @]
        /\ UNCHANGED <<rec, last_sample, ticks, tool, made, told, injects, waited>>

\* The word is counted down from what was read: a write in between is lost.
tickCount ==
    /\ fw.pc = "count"
    /\ rec' = IF fw.inj # 0 THEN [rec EXCEPT !.inject[fw.b] = fw.inj - 1] ELSE rec
    /\ fw' = IF fw.b = 1 THEN [fw EXCEPT !.pc = "read", !.b = 2] ELSE [fw EXCEPT !.pc = "debounce"]
    /\ UNCHANGED <<last_sample, ticks, tool, made, told, injects, waited>>

\* Mutant: a level that two ticks agree on is not taken up, only dropped.
debouncedNowNever(sample) == rec.debounced \intersect sample
\* A level counts once two consecutive ticks read it.
debouncedNow(sample) ==
    {b \in Buttons : IF (b \in sample) = (b \in last_sample) THEN b \in sample ELSE b \in rec.debounced}

why(b, context) ==
    CASE context = "init" -> "not running"
      [] b = 1 -> IF context = "takeover" THEN "accepted" ELSE "no takeover"
      [] b = 2 -> IF context = "normal" THEN "accepted" ELSE "not normal"

debounce ==
    LET now == debouncedNow(fw.sample)
        edges == now \ rec.debounced
    IN  /\ fw.pc = "debounce"
        /\ rec' = [rec EXCEPT !.debounced = now]
        /\ last_sample' = fw.sample
        /\ fw' = IF edges = {} THEN idleTick ELSE [fw EXCEPT !.pc = "entry", !.edges = edges]
        /\ waited' = [b \in Buttons |-> IF waited[b] < 0 THEN waited[b]
                                        ELSE IF b \in now THEN -1 ELSE waited[b] + 1]
        /\ UNCHANGED <<ticks, tool, made, told, injects>>

\* Mutant: the entry goes where the count will stand after it.
slotOfNext(n) == (n + 1) % ButtonRing
slotOf(n) == n % ButtonRing

\* The buttons in the order of the loop.
firstEdge == IF 1 \in fw.edges THEN 1 ELSE 2

storeEntry ==
    LET b == firstEdge
        press == <<ticks, b, why(b, fw.context)>>
    IN  /\ fw.pc = "entry"
        /\ rec' = [rec EXCEPT !.ring[slotOf(rec.presses)] = press]
        /\ made' = Append(made, press)
        /\ fw' = [fw EXCEPT !.pc = "presses"]
        /\ UNCHANGED <<last_sample, ticks, tool, told, injects, waited>>

\* The count last: a reader that sees it sees the entry.
storeCount ==
    /\ fw.pc = "presses"
    /\ rec' = [rec EXCEPT !.presses = @ + 1]
    /\ fw' = IF fw.edges = {firstEdge} THEN idleTick
             ELSE [fw EXCEPT !.pc = "entry", !.edges = @ \ {firstEdge}]
    /\ UNCHANGED <<last_sample, ticks, tool, made, told, injects, waited>>

-----------------------------------------------------------------------------
(* The tool: `bridge` (readout.py --rearm-only --buttons), `watch` and     *)
(* `inject`.                                                               *)

detached == [pc |-> "off", mode |-> "-", seen |-> 0, n |-> 0]

attach(mode) ==
    /\ tool.pc = "off"
    /\ tool' = [pc |-> IF mode = "inject" THEN "write" ELSE "poll", mode |-> mode, seen |-> rec.presses, n |-> 0]
    /\ UNCHANGED <<rec, last_sample, fw, ticks, made, told, injects, waited>>

\* A line `inject <button> [ticks]` on the bridge's stdin, or the command
\* inject's own write.  waited starts when the button is up and the word
\* lasts long enough to be seen.
inject(b, n) ==
    /\ tool.pc = "write" \/ (tool.pc = "poll" /\ tool.mode = "bridge")
    /\ injects < MaxInjects
    /\ rec' = [rec EXCEPT !.inject[b] = n]
    /\ injects' = injects + 1
    /\ tool' = [tool EXCEPT !.pc = "poll"]
    /\ waited' = IF n >= 2 /\ b \notin rec.debounced /\ waited[b] < 0
                 THEN [waited EXCEPT ![b] = 0] ELSE waited
    /\ UNCHANGED <<last_sample, fw, ticks, made, told>>

readHeader ==
    /\ tool.pc = "poll" /\ tool' = [tool EXCEPT !.pc = "ring", !.n = rec.presses]
    /\ UNCHANGED <<rec, last_sample, fw, ticks, made, told, injects, waited>>

\* (n, uptime, code) of each press after `seen`, oldest first.
new_presses(n, seen) ==
    LET first == IF seen > n - ButtonRing THEN seen ELSE n - ButtonRing
    IN  [i \in 1 .. n - first |-> [n |-> first + i, press |-> rec.ring[(first + i - 1) % ButtonRing]]]

\* The ring, a line per new press; inject ends with its first one.
readRing ==
    LET lines == new_presses(tool.n, tool.seen)
    IN  /\ tool.pc = "ring"
        /\ told' = told \o lines
        /\ tool' = [tool EXCEPT !.pc = IF tool.mode = "inject" /\ lines # <<>> THEN "done" ELSE "poll",
                                !.seen = tool.n]
        /\ UNCHANGED <<rec, last_sample, fw, ticks, made, injects, waited>>

\* quit or the end of stdin, the end of watch, inject's 2 s without a press.
leave ==
    /\ tool.pc = "poll"
    /\ tool' = [tool EXCEPT !.pc = "done"]
    /\ UNCHANGED <<rec, last_sample, fw, ticks, made, told, injects, waited>>

-----------------------------------------------------------------------------
ButtonInit ==
    /\ rec = [debounced |-> {}, presses |-> 0, inject |-> [b \in Buttons |-> 0],
              ring |-> [i \in 0 .. ButtonRing - 1 |-> <<0, 0, "-">>]]
    /\ last_sample = {} /\ fw = idleTick /\ ticks = 0 /\ tool = detached
    /\ made = <<>> /\ told = <<>> /\ injects = 0 /\ waited = [b \in Buttons |-> -1]

ButtonNext ==
    \/ \E c \in Contexts : tickStart(c)
    \/ \E pin \in BOOLEAN : tickRead(pin)
    \/ tickCount \/ debounce \/ storeEntry \/ storeCount
    \/ \E mode \in {"bridge", "watch", "inject"} : attach(mode)
    \/ \E b \in Buttons, n \in InjectTicks : inject(b, n)
    \/ readHeader \/ readRing \/ leave

ButtonSpec == ButtonInit /\ [][ButtonNext]_buttonVars

-----------------------------------------------------------------------------
(* Properties.                                                             *)

\* The tool's lines are a PressFeed: every press once, in order, under its
\* own number; only a backlog of more than the ring loses any, and only an
\* entry that was overwritten while it was read is not the press it stands for.
Feed == INSTANCE PressFeed WITH Ring <- ButtonRing, made <- made, told <- told, upto <- tool.seen,
                                 joined <- tool.pc # "off"
LinesAreFeed == Feed!FeedSpec

\* An injection of two ticks or more that finds the button up is a press by
\* the end of the third tick, though the word may be written between the
\* tick's read of it and its count, and another one as long may follow.  (One
\* of a single tick may swallow the next: its count ends at 0 whatever was
\* written since it was read.)
InjectPresses == \A b \in Buttons : waited[b] <= 2
=============================================================================

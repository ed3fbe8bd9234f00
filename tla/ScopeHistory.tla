---------------------------- MODULE ScopeHistory ----------------------------
(***************************************************************************)
(* The scope page's sample history and the view built from it              *)
(* (scope_push_frame, scope_build_view_from_history and what they call).   *)
(*                                                                         *)
(* The history is a ring of the newest samples.  A view shows a window of  *)
(* them in columns, placed around the first edge found in the whole        *)
(* history, or at its end when there is none.  One channel is modelled,    *)
(* the voltage: it gives the trigger; the current is stored and mapped by  *)
(* the same indices.                                                       *)
(***************************************************************************)
EXTENDS Integers, Sequences

CONSTANTS
    FrameSamples,   \* SCOPE_SAMPLE_WORDS
    HistoryFrames,  \* SCOPE_HISTORY_FRAMES
    WindowSamples,  \* window_samples, SCOPE_WINDOW_SAMPLES
    Points,         \* SCOPE_VIEW_POINTS
    PrePoints,      \* SCOPE_TRIGGER_PRE_POINTS
    Hysteresis,     \* SCOPE_TRIGGER_HYST_RAW
    Raw             \* sample values, of 16 bits

Capacity == FrameSamples * HistoryFrames    \* SCOPE_HISTORY_SAMPLES

ASSUME SizeAssumption ==
    /\ FrameSamples \in Nat \ {0} /\ HistoryFrames \in Nat \ {0}
    /\ WindowSamples \in Nat \ {0} /\ Points \in Nat \ {0}
    /\ PrePoints \in 0..(Points - 1)
ASSUME RawAssumption == /\ Raw \subseteq Int /\ \A r \in Raw : -32768 <= r /\ r <= 32767
                        /\ Hysteresis \in Nat

VARIABLES
    ring, head, count,      \* voltage_history, history_head, history_count
    edge,                   \* "rising" or "falling"
    start, window,          \* the samples the view shows; locals of the build
    level, trigger,         \* trigger_level_v, trigger_index
    screenX,                \* trigger_screen_x
    newest,                 \* history: the samples pushed, the newest Capacity of them
    fresh                   \* history: the view is of the present history and edge

ringVars == <<ring, head, count>>
viewVars == <<start, window, level, trigger, screenX>>
vars == <<ringVars, edge, viewVars, newest, fresh>>

Slot == 0..(Capacity - 1)
Smaller(a, b) == IF a < b THEN a ELSE b

Init ==
    /\ ring = [s \in Slot |-> 0] /\ head = 0 /\ count = 0
    /\ edge = "rising"
    /\ start = 0 /\ window = 0 /\ level = 0 /\ trigger = 0 /\ screenX = 0
    /\ newest = << >> /\ fresh = FALSE

-----------------------------------------------------------------------------
(* The ring.                                                               *)

Advance(h, n) == (h + n) % Capacity

\* The frame's samples go to the slots from head on.
PushFrame ==
    \E frame \in [1..FrameSamples -> Raw] :
        /\ ring' = [s \in Slot |->
                       LET k == (s + Capacity - head) % Capacity IN
                       IF k < FrameSamples THEN frame[k + 1] ELSE ring[s]]
        /\ head' = Advance(head, FrameSamples)
        /\ count' = Smaller(count + FrameSamples, Capacity)
        /\ newest' = LET s == newest \o frame IN
                     SubSeq(s, Len(s) - Smaller(Len(s), Capacity) + 1, Len(s))
        /\ fresh' = FALSE
        /\ UNCHANGED <<edge, viewVars>>

\* The slot of the i-th oldest sample, from 0.
\* Fault: the oldest sample is taken to be in slot 0 of the ring.
UnrolledIndex(i) == i
HistoryIndex(i) == (((head + Capacity - count) % Capacity) + i) % Capacity

Sample(i) == IF i < count THEN ring[HistoryIndex(i)] ELSE 0

-----------------------------------------------------------------------------
(* The view.                                                               *)

\* C's division, which truncates.
Half(x) == IF x >= 0 THEN x \div 2 ELSE -((-x) \div 2)

\* Midway between the lowest and the highest sample of the newest window.
TriggerLevel(from, n) ==
    LET S == {Sample(i) : i \in from..(Smaller(from + n, count) - 1)}
    IN  Half((CHOOSE x \in S : \A y \in S : x <= y) + (CHOOSE x \in S : \A y \in S : y <= x))

\* Fault: the samples may meet the threshold in either order.
CrossesEither(i, l) == Sample(i) >= l + Hysteresis \/ Sample(i - 1) >= l + Hysteresis

Crosses(i, l) ==
    IF edge = "rising"
    THEN Sample(i - 1) <= l - Hysteresis /\ Sample(i) >= l + Hysteresis
    ELSE Sample(i - 1) >= l + Hysteresis /\ Sample(i) <= l - Hysteresis

\* The first edge of the history, -1 for none.
FindTrigger(l) ==
    LET C == {i \in 1..(count - 1) : Crosses(i, l)}
    IN  IF C = {} THEN -1 ELSE CHOOSE i \in C : \A j \in C : i <= j

\* The window is never longer than the history, and never shorter than the
\* screen when the history is not.
ViewWindow ==
    IF count < Points \/ WindowSamples > count THEN count
    ELSE IF WindowSamples < Points THEN Points ELSE WindowSamples

\* Fault: the window may reach past the newest sample.
UnclampedStart(t, w) ==
    LET pre == (w * PrePoints) \div Points IN IF t > pre THEN t - pre ELSE 0

\* The trigger goes one third into the view, unless the history ends there.
ViewStart(t, w) ==
    LET pre == (w * PrePoints) \div Points
        s == IF t > pre THEN t - pre ELSE 0
    IN  IF t < 0 \/ s + w > count THEN count - w ELSE s

\* Fault: the marker is placed in samples, not in columns.
ScreenXSamples(t, s, w) == IF t < s THEN -1 ELSE t - s
ScreenX(t, s, w) == IF t < s THEN -1 ELSE ((t - s) * Points) \div w

BuildView ==
    /\ count >= 2
    /\ window' = ViewWindow
    /\ level' = TriggerLevel(count - window', window')
    /\ trigger' = FindTrigger(level')
    /\ start' = ViewStart(trigger', window')
    /\ screenX' = ScreenX(trigger', start', window')
    /\ fresh' = TRUE
    /\ UNCHANGED <<ringVars, edge, newest>>

\* The samples column c shows the extremes of.
ColumnFrom(c) == start + ((window * c) \div Points)

ColumnTo(c) ==
    LET to == start + ((window * (c + 1)) \div Points)
    IN  Smaller(IF to <= ColumnFrom(c) THEN ColumnFrom(c) + 1 ELSE to, count)

\* A touch on the edge button.
ToggleEdge ==
    /\ edge' = IF edge = "rising" THEN "falling" ELSE "rising"
    /\ fresh' = FALSE
    /\ UNCHANGED <<ringVars, viewVars, newest>>

Next == PushFrame \/ BuildView \/ ToggleEdge

Spec == Init /\ [][Next]_vars

-----------------------------------------------------------------------------
(* Properties.                                                             *)

TypeOK ==
    /\ ring \in [Slot -> Raw \union {0}] /\ head \in Slot /\ count \in 0..Capacity
    /\ edge \in {"rising", "falling"}
    /\ start \in 0..Capacity /\ window \in 0..Capacity /\ level \in Int
    /\ trigger \in -1..Capacity /\ screenX \in -1..(Points - 1)
    /\ newest \in Seq(Raw) /\ fresh \in BOOLEAN

\* The ring is the newest samples in the order they came, at every fill and every
\* position of the head.
RingHoldsNewest ==
    /\ count = Len(newest)
    /\ \A i \in 0..(count - 1) : Sample(i) = newest[i + 1]

\* A view never reaches outside the history, its columns show every sample of its
\* window, and each of them shows one.
ColumnsCoverWindow ==
    fresh =>
        /\ start >= 0 /\ start + window <= count
        /\ \A c \in 0..(Points - 1) : ColumnFrom(c) < ColumnTo(c)
        /\ UNION {ColumnFrom(c)..(ColumnTo(c) - 1) : c \in 0..(Points - 1)}
             = start..(start + window - 1)

\* The sample a view triggers on is in view, and so is its marker: in the column
\* that shows the sample or in the one before.
MarkerAtTrigger ==
    fresh /\ trigger >= 0 =>
        /\ screenX \in 0..(Points - 1)
        /\ \E c \in {screenX, screenX + 1} :
              c < Points /\ trigger \in ColumnFrom(c)..(ColumnTo(c) - 1)

\* The trigger is where the samples received first step across the level in the
\* direction of the edge; none is reported only if they never do.
TriggerIsFirstEdge ==
    LET Steps(i) ==
            LET lo == newest[IF edge = "rising" THEN i ELSE i + 1]
                hi == newest[IF edge = "rising" THEN i + 1 ELSE i]
            IN  lo <= level - Hysteresis /\ hi >= level + Hysteresis
    IN  fresh =>
            /\ trigger >= 0 => trigger > 0 /\ Steps(trigger)
            /\ \A i \in 1..((IF trigger < 0 THEN count ELSE trigger) - 1) : ~Steps(i)

-----------------------------------------------------------------------------
(* The inductive invariant: a fresh view is the one the present ring gives. *)

ViewInv ==
    fresh =>
        /\ count >= 2 /\ window = ViewWindow
        /\ trigger = FindTrigger(level)
        /\ start = ViewStart(trigger, window)
        /\ screenX = ScreenX(trigger, start, window)

IInv == TypeOK /\ RingHoldsNewest /\ ViewInv
=============================================================================

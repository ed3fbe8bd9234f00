----------------------------- MODULE MainLoop -----------------------------
(***************************************************************************)
(* The timing of modeset_draw()'s loop in drm_page1.c: when it takes a     *)
(* reading, and when it rebuilds the scope's view from the history.  The   *)
(* loop reads a tick of 32 bits once per turn, and decides both on the     *)
(* differences to two remembered ticks, also when the tick wraps.          *)
(*                                                                         *)
(* Time is kept twice: as the wrapping tick the code sees and as the true  *)
(* time since the last reading and the last rebuild on time.  What frames  *)
(* hold is left to FrameFeed and ScopeHistory, taps and drawing to         *)
(* TouchPages.                                                             *)
(***************************************************************************)
EXTENDS Integers

CONSTANTS
    TickWrap,       \* 2^32: the tick is a uint32_t
    ReadPeriod,     \* 1000 ms between readings
    RebuildPeriod,  \* 20 ms between rebuilds
    MaxTurn,        \* bound on the length of a turn
    MaxBehind       \* bound on the frames the loop has not counted

ASSUME TimeAssumption ==
    /\ {TickWrap, ReadPeriod, RebuildPeriod, MaxTurn} \subseteq Nat \ {0}
    /\ ReadPeriod + MaxTurn <= TickWrap /\ RebuildPeriod <= TickWrap
ASSUME BehindAssumption == MaxBehind \in Nat \ {0}

VARIABLES
    part,           \* the part of the turn that comes next
    now, lastUpdate, lastRebuild,   \* ticks
    sinceUpdate, sinceRebuild,      \* true times, the second up to TickWrap
    full,           \* transfers are whole frames, as dma_note_success asks for
    behind,         \* frames completed that last_scope_dma_completed does not count
    counted,        \* those of them the turn's completed count has, a local
    onScope,        \* the page is the scope's
    running, uiDirty,
    history,        \* the history has samples
    unseen,         \* a frame was pushed that no view was built with
    pushAge         \* sinceRebuild when the last such frame was pushed

timeVars == <<now, lastUpdate, sinceUpdate, lastRebuild, sinceRebuild>>
frameVars == <<full, behind, counted>>
uiVars == <<onScope, running, uiDirty>>
viewVars == <<history, unseen, pushAge>>
turnVars == <<part, timeVars, frameVars, uiVars, viewVars>>

Ticks == 0..(TickWrap - 1)

TurnInit ==
    /\ part = "tick" /\ now \in Ticks /\ lastUpdate = now /\ lastRebuild = now
    /\ sinceUpdate = 0 /\ sinceRebuild = 0
    /\ full \in BOOLEAN /\ behind = 0 /\ counted = 0
    /\ onScope = FALSE /\ running = TRUE /\ uiDirty = FALSE
    /\ history \in {FALSE, full} /\ unseen = FALSE /\ pushAge = 0

\* The worker thread completes a transfer.
Complete ==
    /\ behind < MaxBehind /\ behind' = behind + 1
    /\ UNCHANGED <<part, timeVars, full, counted, uiVars, viewVars>>

Later(t, d) == IF t + d < TickWrap THEN t + d ELSE t + d - TickWrap

\* A turn starts: the tick and the completed count are read.
Tick ==
    /\ part = "tick" /\ part' = "poll"
    /\ \E d \in 1..MaxTurn :
          /\ now' = Later(now, d)
          /\ sinceUpdate' = sinceUpdate + d
          /\ sinceRebuild' = IF sinceRebuild + d < TickWrap THEN sinceRebuild + d ELSE TickWrap
    /\ counted' = behind
    /\ UNCHANGED <<lastUpdate, lastRebuild, full, behind, uiVars, viewVars>>

\* A tap of this turn: it goes to a page, starts or stops the scope, or changes
\* something that only has to be drawn.
Tap ==
    /\ part = "poll" /\ uiDirty' = TRUE
    /\ \/ onScope' \in BOOLEAN /\ UNCHANGED running
       \/ onScope /\ running' = ~running /\ UNCHANGED onScope
    /\ UNCHANGED <<part, timeVars, frameVars, viewVars>>

\* Fault: a stopped scope is left as it is.
RebuildsWhileRunning == uiDirty /\ onScope /\ history /\ running
RebuildsAfterTap == uiDirty /\ onScope /\ history

\* What was tapped is taken up; this rebuild does not restart the 20 ms.
TapsTaken ==
    /\ part = "poll" /\ part' = "reading" /\ uiDirty' = FALSE
    /\ unseen' = (unseen /\ ~RebuildsAfterTap)
    /\ UNCHANGED <<timeVars, frameVars, onScope, running, history, pushAge>>

\* Fault: the tick is compared with the tick of the next event.
PassedAbsolute(last, period) == now >= Later(last, period)

\* now - last >= period, in 32 bits.
Passed(last, period) ==
    period <= (IF now >= last THEN now - last ELSE now - last + TickWrap)

\* The reading may fail; the next attempt is a period later all the same.
Reading ==
    /\ part = "reading" /\ part' = "feed"
    /\ IF Passed(lastUpdate, ReadPeriod)
         THEN lastUpdate' = now /\ sinceUpdate' = 0
         ELSE UNCHANGED <<lastUpdate, sinceUpdate>>
    /\ UNCHANGED <<now, lastRebuild, sinceRebuild, frameVars, uiVars, viewVars>>

\* A stopped scope takes no frames and remembers what it counted last.
FeedSkip ==
    /\ part = "feed" /\ part' = "tick" /\ (~running \/ counted = 0)
    /\ counted' = 0
    /\ UNCHANGED <<timeVars, full, behind, uiVars, viewVars>>

\* No frame was ever whole: nothing is copied.
FeedNothing ==
    /\ part = "feed" /\ part' = "tick" /\ running /\ counted > 0 /\ ~full
    /\ behind' = behind - counted /\ counted' = 0
    /\ UNCHANGED <<timeVars, full, uiVars, viewVars>>

FeedPush ==
    /\ part = "feed" /\ part' = "tick" /\ running /\ counted > 0 /\ full
    /\ behind' = behind - counted /\ counted' = 0 /\ history' = TRUE
    /\ IF onScope /\ Passed(lastRebuild, RebuildPeriod)
         THEN /\ unseen' = FALSE /\ lastRebuild' = now /\ sinceRebuild' = 0
              /\ UNCHANGED pushAge
         ELSE /\ unseen' = TRUE /\ pushAge' = sinceRebuild
              /\ UNCHANGED <<lastRebuild, sinceRebuild>>
    /\ UNCHANGED <<now, lastUpdate, sinceUpdate, full, uiVars>>

TurnNext == Complete \/ Tick \/ Tap \/ TapsTaken \/ Reading \/ FeedSkip \/ FeedNothing \/ FeedPush
TurnSpec == TurnInit /\ [][TurnNext]_turnVars

-----------------------------------------------------------------------------
(* Properties.                                                             *)

TurnTypeOK ==
    /\ part \in {"tick", "poll", "reading", "feed"}
    /\ now \in Ticks /\ lastUpdate \in Ticks /\ lastRebuild \in Ticks
    /\ sinceUpdate \in Nat /\ sinceRebuild \in 0..TickWrap /\ pushAge \in 0..TickWrap
    /\ full \in BOOLEAN /\ behind \in Nat /\ counted \in Nat
    /\ onScope \in BOOLEAN /\ running \in BOOLEAN /\ uiDirty \in BOOLEAN
    /\ history \in BOOLEAN /\ unseen \in BOOLEAN

\* A reading is attempted in the first turn that starts a period of true time
\* after the attempt before, never earlier, also across the wrap of the tick.
ReadingsOnTime ==
    [][Reading => (sinceUpdate' = 0) = (sinceUpdate >= ReadPeriod)]_turnVars

\* Between turns the scope page shows all of a stopped scope's history.  What a
\* running one does not show yet was pushed within 20 ms of the last rebuild on
\* time, or after the tick wrapped, when it looks as if it was.
ViewFresh ==
    part = "tick" /\ onScope /\ unseen =>
        running /\ (pushAge < RebuildPeriod \/ pushAge = TickWrap)

-----------------------------------------------------------------------------
(* The inductive invariant behind them: the differences of ticks are the   *)
(* true times, as long as the tick has not come round.                     *)

Between(last) == IF now >= last THEN now - last ELSE now - last + TickWrap

TurnInv ==
    /\ TurnTypeOK /\ counted <= behind
    /\ sinceUpdate = Between(lastUpdate)
    /\ sinceUpdate < ReadPeriod + (IF part \in {"poll", "reading"} THEN MaxTurn ELSE 0)
    /\ part \in {"poll", "reading"} => sinceUpdate > 0
    /\ sinceRebuild < TickWrap => sinceRebuild = Between(lastRebuild)
    /\ unseen => history
    /\ uiDirty => part = "poll"
    /\ onScope /\ unseen /\ ~uiDirty =>
          running /\ (pushAge < RebuildPeriod \/ pushAge = TickWrap)
=============================================================================

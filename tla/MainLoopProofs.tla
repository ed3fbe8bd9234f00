-------------------------- MODULE MainLoopProofs --------------------------
(***************************************************************************)
(* The main loop.  Its timing is right for every tick width, every pair of *)
(* periods and every length of a turn that the tick can tell from a wrap.  *)
(* Its input and redraws, which TouchPages models, are right for every     *)
(* panel, and so is where its buttons answer.                              *)
(***************************************************************************)
EXTENDS MainLoop, TouchPages, WellFoundedInduction, SequenceTheorems, TLAPS

\* The initial states satisfy the invariant.
LEMMA TurnStarts == TurnInit => TurnInv
<1> SUFFICES ASSUME TurnInit PROVE TurnInv
  OBVIOUS
<1>1. history \in BOOLEAN
  BY Zenon DEF TurnInit
<1>2. now \in Nat /\ 0 \in 0..TickWrap /\ Between(lastUpdate) = 0 /\ Between(lastRebuild) = 0
  BY TimeAssumption DEF TurnInit, Ticks, Between
<1>3. 0 < ReadPeriod + (IF part \in {"poll", "reading"} THEN MaxTurn ELSE 0)
  BY TimeAssumption DEF TurnInit
<1>4. now \in Ticks /\ full \in BOOLEAN
  BY DEF TurnInit
<1>5. TurnTypeOK
  BY <1>1, <1>2, <1>4 DEF TurnInit, TurnTypeOK
<1> QED
  BY <1>2, <1>3, <1>5 DEF TurnInit, TurnInv

\* Moving on by a turn moves the difference to an earlier tick on by as much, up
\* to the wrap.
LEMMA LaterBetween ==
  ASSUME NEW last \in Ticks, NEW d \in 1..MaxTurn, now \in Ticks, now' = Later(now, d),
         Between(last) + d < TickWrap
  PROVE  now' \in Ticks
         /\ (IF now' >= last THEN now' - last ELSE now' - last + TickWrap) = Between(last) + d
  BY TimeAssumption DEF Ticks, Between, Later

\* A step of the clock keeps the invariant.
LEMMA TickKeeps == TurnInv /\ Tick => TurnInv'
<1> SUFFICES ASSUME TurnInv, Tick PROVE TurnInv'
  OBVIOUS
<1>1. PICK d \in 1..MaxTurn :
        /\ now' = Later(now, d)
        /\ sinceUpdate' = sinceUpdate + d
        /\ sinceRebuild' = IF sinceRebuild + d < TickWrap THEN sinceRebuild + d ELSE TickWrap
  BY DEF Tick
<1>2. now' \in Ticks /\ d \in Nat
  BY <1>1, TimeAssumption DEF TurnInv, TurnTypeOK, Ticks, Later
<1>3. sinceUpdate < ReadPeriod /\ lastUpdate' = lastUpdate /\ lastRebuild' = lastRebuild
  BY TimeAssumption DEF TurnInv, TurnTypeOK, Tick
<1>4. sinceUpdate' = Between(lastUpdate)' /\ sinceUpdate' \in 1..(ReadPeriod + MaxTurn - 1)
  <2>1. Between(lastUpdate) + d < TickWrap
    BY <1>1, <1>3, TimeAssumption DEF TurnInv, TurnTypeOK
  <2> QED
    BY <2>1, <1>1, <1>3, LaterBetween, TimeAssumption DEF TurnInv, TurnTypeOK, Ticks, Between
<1>5. sinceRebuild' < TickWrap => sinceRebuild' = Between(lastRebuild)'
  <2> SUFFICES ASSUME sinceRebuild' < TickWrap PROVE sinceRebuild' = Between(lastRebuild)'
    OBVIOUS
  <2>1. sinceRebuild' = sinceRebuild + d /\ sinceRebuild + d < TickWrap
    BY <1>1, TimeAssumption
  <2>2. sinceRebuild = Between(lastRebuild)
    BY <2>1, <1>2, TimeAssumption DEF TurnInv, TurnTypeOK
  <2> QED
    BY <2>1, <2>2, <1>1, <1>3, LaterBetween DEF TurnInv, TurnTypeOK, Ticks, Between
<1>6. sinceRebuild' \in 0..TickWrap /\ sinceUpdate' \in Nat
  BY <1>1, <1>2, TimeAssumption DEF TurnInv, TurnTypeOK
<1>7. /\ UNCHANGED <<lastUpdate, lastRebuild, full, behind, uiVars, viewVars>>
      /\ part = "tick" /\ part' = "poll" /\ counted' = behind
  BY DEF Tick
<1>8. TurnTypeOK'
  BY <1>2, <1>6, <1>7 DEF TurnInv, TurnTypeOK, uiVars, viewVars
<1>9. /\ counted' <= behind' /\ (unseen => history)' /\ (uiDirty => part = "poll")'
      /\ (onScope /\ unseen /\ ~uiDirty =>
            running /\ (pushAge < RebuildPeriod \/ pushAge = TickWrap))'
  BY <1>7 DEF TurnInv, TurnTypeOK, uiVars, viewVars
<1>10. (sinceUpdate < ReadPeriod + (IF part \in {"poll", "reading"} THEN MaxTurn ELSE 0))'
       /\ (part \in {"poll", "reading"} => sinceUpdate > 0)'
  BY <1>4, <1>7, TimeAssumption
<1> QED
  BY <1>4, <1>5, <1>8, <1>9, <1>10 DEF TurnInv

\* Every other step keeps it, too.
LEMMA TurnKeeps == TurnInv /\ [TurnNext]_turnVars => TurnInv'
<1> SUFFICES ASSUME TurnInv, [TurnNext]_turnVars PROVE TurnInv'
  OBVIOUS
<1> USE TimeAssumption, BehindAssumption DEF TurnInv, TurnTypeOK, Ticks, Between
<1>1. CASE Complete
  BY <1>1 DEF Complete, timeVars, uiVars, viewVars
<1>2. CASE Tick
  BY <1>2, TickKeeps
<1>3. CASE Tap
  BY <1>3 DEF Tap, timeVars, frameVars, viewVars
<1>4. CASE TapsTaken
  BY <1>4 DEF TapsTaken, RebuildsAfterTap, timeVars, frameVars
<1>5. CASE Reading
  BY <1>5, SMT DEF Reading, Passed, frameVars, uiVars, viewVars
<1>6. CASE FeedSkip
  BY <1>6 DEF FeedSkip, timeVars, uiVars, viewVars
<1>7. CASE FeedNothing
  BY <1>7 DEF FeedNothing, timeVars, uiVars, viewVars
<1>8. CASE FeedPush
  <2>1. CASE onScope /\ Passed(lastRebuild, RebuildPeriod)
    <3>1. /\ part = "feed" /\ part' = "tick" /\ unseen' = FALSE /\ history' = TRUE
          /\ lastRebuild' = now /\ sinceRebuild' = 0 /\ behind' = behind - counted
          /\ counted' = 0
          /\ UNCHANGED <<now, lastUpdate, sinceUpdate, full, pushAge, onScope, running, uiDirty>>
      BY <1>8, <2>1 DEF FeedPush, uiVars
    <3>2. TurnTypeOK'
      <4>1. (full \in BOOLEAN /\ onScope \in BOOLEAN /\ running \in BOOLEAN /\ uiDirty \in BOOLEAN)'
        BY <3>1
      <4>2. (history \in BOOLEAN /\ unseen \in BOOLEAN)'
        BY <3>1, Zenon
      <4>3. (behind \in Nat /\ counted \in Nat)'
        BY <3>1
      <4>4. (sinceRebuild \in 0..TickWrap /\ lastRebuild \in Ticks)'
        BY <3>1
      <4> QED
        BY <3>1, <4>1, <4>2, <4>3, <4>4
    <3>3. (sinceRebuild < TickWrap => sinceRebuild = Between(lastRebuild))'
      BY <3>1
    <3>4. (sinceUpdate = Between(lastUpdate))'
      BY <3>1
    <3> QED
      BY <3>1, <3>2, <3>3, <3>4
  <2>2. CASE ~(onScope /\ Passed(lastRebuild, RebuildPeriod))
    <3>1. onScope => sinceRebuild < RebuildPeriod \/ sinceRebuild = TickWrap
      BY <2>2 DEF Passed
    <3>2. part = "feed" /\ running /\ part' = "tick" /\ pushAge' = sinceRebuild /\ unseen' = TRUE
      BY <1>8, <2>2 DEF FeedPush
    <3> QED
      BY <1>8, <2>2, <3>1, <3>2 DEF FeedPush, uiVars
  <2> QED
    BY <2>1, <2>2
<1>9. CASE UNCHANGED turnVars
  BY <1>9 DEF turnVars, timeVars, frameVars, uiVars, viewVars
<1> QED
  BY <1>1, <1>2, <1>3, <1>4, <1>5, <1>6, <1>7, <1>8, <1>9 DEF TurnNext

\* The invariant always holds.
THEOREM TurnInductive == TurnSpec => []TurnInv
  BY TurnStarts, TurnKeeps, PTL DEF TurnSpec

\* Readings are attempted exactly when their period of true time has passed.
THEOREM ReadingsCorrect == TurnSpec => ReadingsOnTime
<1>1. TurnInv /\ [TurnNext]_turnVars =>
        [Reading => (sinceUpdate' = 0) = (sinceUpdate >= ReadPeriod)]_turnVars
  BY TimeAssumption DEF TurnInv, TurnTypeOK, Ticks, Reading, Passed, Between
<1> QED
  BY <1>1, TurnInductive, PTL DEF TurnSpec, ReadingsOnTime

\* The scope page is up to date but for frames too close to the last rebuild.
THEOREM ViewCorrect == TurnSpec => []ViewFresh
<1>1. TurnInv => ViewFresh
  BY DEF TurnInv, ViewFresh
<1> QED
  BY <1>1, TurnInductive, PTL

-----------------------------------------------------------------------------
(* The loop's other half, TouchPages: for any panels, any number of        *)
(* fingers, any length of the kernel's queue.                              *)

\* A set of naturals that is not empty has a least element.
LEMMA Least ==
    ASSUME NEW S, S \subseteq Nat, S # {}
    PROVE  \E m \in S : \A n \in S : m <= n
<1>1. PICK m \in S : \A n \in S : ~(<<n, m>> \in OpToRel(<, Nat))
  BY NatLessThanWellFounded, WFMin
<1>2. \A n \in S : ~(n < m)
  BY <1>1 DEF OpToRel
<1> QED
  BY <1>2

\* The last of several slots is one of them.
LEMMA LastSlot ==
    ASSUME NEW n \in Nat, NEW S, S \subseteq 0..(n - 1), S # {}
    PROVE  Max(S) \in S
<1> DEFINE T == {n - x : x \in S}
<1>1. T \subseteq Nat /\ T # {}
  OBVIOUS
<1>2. PICK m \in T : \A k \in T : m <= k
  <2> HIDE DEF T
  <2> QED
    BY <1>1, Least
<1>3. PICK x \in S : m = n - x
  BY <1>2
<1>4. \A y \in S : x >= y
  <2> SUFFICES ASSUME NEW y \in S PROVE x >= y
    OBVIOUS
  <2>1. n - y \in T
    OBVIOUS
  <2> QED
    BY <1>2, <1>3, <2>1
<1> QED
  BY <1>4 DEF Max

\* Every button leaves a look behind.
LEMMA PressType ==
    ASSUME NEW l \in Looks, NEW a \in Areas
    PROVE  Press(l, a.name) \in Looks
<1>1. a.name \in {"main", "fft", "hold", "scope", "voltage", "current", "max", "min",
                  "freeze", "run", "edge"}
  BY DEF Areas, Area
<1> QED
  BY <1>1 DEF Press, Looks, Pages

\* A panel's sizes, and what its fingers are.
LEMMA PanelSizes ==
    ASSUME panel \in Panels
    PROVE  /\ panel.fingers \in Nat \ {0} /\ panel.touches \in Nat /\ panel.packets \in Nat \ {0}
           /\ panel.rests \subseteq Fingers /\ 0 \in Slots
           /\ \A p \in panel.spots, b \in BOOLEAN : Finger(p, b) \in Fingers
<1>1. /\ panel.fingers \in Nat \ {0} /\ panel.touches \in Nat /\ panel.packets \in Nat \ {0}
      /\ panel.rests \subseteq FingersOn(panel)
      /\ panel.spots \subseteq (panel.xMin..panel.xMax) \X (panel.yMin..panel.yMax)
  BY PanelAssumption DEF PanelsFit
<1>2. ASSUME NEW p \in panel.spots, NEW b \in BOOLEAN PROVE Finger(p, b) \in Fingers
  <2>1. p[1] \in panel.xMin..panel.xMax /\ p[2] \in panel.yMin..panel.yMax /\ p = <<p[1], p[2]>>
    BY <1>1
  <2> QED
    BY <2>1 DEF Fingers, FingersOn, Finger
<1> QED
  BY <1>1, <1>2 DEF Fingers, Slots

\* A finger that is lifted is one that could be there.
LEMMA Lifted ==
    ASSUME NEW g \in Fingers
    PROVE  g.down \in BOOLEAN /\ [g EXCEPT !.down = FALSE] \in Fingers
BY DEF Fingers, FingersOn

LEMMA UIInit == ASSUME Init PROVE IInv
<1> USE DEF Init
<1>1. 0 \in Slots /\ panel.rests \subseteq Fingers /\ panel.touches \in Nat
      /\ panel.packets \in Nat
  BY PanelSizes
<1>2. finger \in [Slots -> Fingers] /\ read = finger
  BY <1>1
<1>3. queue = << >> /\ Len(queue) = 0
      /\ queue \in Seq([changes : SUBSET (Slots \X Fields), at : [Slots -> Fingers]])
  OBVIOUS
<1>4. look \in Looks /\ shown \in Looks
  BY DEF Looks, Pages
<1>5. source \in [Fields -> Slots] /\ stale \subseteq Fields /\ seen \subseteq Axes
  BY <1>1 DEF Fields, Axes
<1>6. touches \in 0..panel.touches /\ {input.down, dirty, need, missed} \subseteq BOOLEAN
  <2>1. touches = 0
    OBVIOUS
  <2>2. input.down = FALSE /\ dirty = FALSE /\ need = FALSE /\ missed = FALSE
    OBVIOUS
  <2>3. 0 \in 0..panel.touches
    BY <1>1
  <2> QED
    BY <2>1, <2>2, <2>3
<1>7. TypeOK
  <2>1. panel \in Panels /\ pc = "poll" /\ Len(queue) <= panel.packets
    BY <1>1, <1>3
  <2> QED
    BY <1>2, <1>3, <1>4, <1>5, <1>6, <2>1 DEF TypeOK
<1>8. QueueInv /\ ChainInv
  BY <1>3 DEF QueueInv, ChainInv
<1>9. InputInv
  <2> SUFFICES ASSUME NEW f \in Fields \ stale PROVE input[f] = read[source[f]][f]
    BY DEF InputInv, Axes
  <2>1. f = "down" /\ (\A s \in Slots : ~finger[s].down)
    BY DEF Fields, Axes
  <2>2. finger[0] \in Fingers /\ ~finger[0].down /\ source[f] = 0
    BY <1>1, <1>2, <2>1
  <2>3. finger[0].down = FALSE
    BY <2>2, Lifted
  <2> QED
    BY <2>1, <2>2, <2>3
<1> QED
  BY <1>7, <1>8, <1>9 DEF IInv, LoopInv, NothingForgotten

-----------------------------------------------------------------------------
(* The kernel's side.                                                      *)

\* Neither a packet more nor an overflow leaves the input or a packet wrong about
\* what no packet will tell.
LEMMA UIReport ==
    ASSUME IInv, NEW f \in [Slots -> Fingers], Report(f)
    PROVE  IInv'
<1> DEFINE changes == {c \in Slots \X Fields : f[c[1]][c[2]] # finger[c[1]][c[2]]}
           Packets == [changes : SUBSET (Slots \X Fields), at : [Slots -> Fingers]]
<1>1. /\ finger' = f /\ touches' = touches + 1 /\ touches < panel.touches
      /\ panel' = panel /\ UNCHANGED <<input, seen, look, read, source>>
      /\ UNCHANGED <<dirty, pc, need, shown, missed>>
  BY DEF Report, inputVars, drawVars
<1>2. \/ ~Full /\ queue' = Append(queue, [changes |-> changes, at |-> f]) /\ stale' = stale
      \/ \E left \in Ends(changes) :
            /\ queue' = <<[changes |-> left, at |-> f]>>
            /\ stale' = stale \union Sent \union FieldsOf(changes)
  BY DEF Report
<1>3. /\ \A s \in Slots, d \in Fields : <<s, d>> \notin changes => f[s][d] = finger[s][d]
      /\ changes \subseteq Slots \X Fields
  OBVIOUS
<1> HIDE DEF changes
<1>4. /\ panel \in Panels /\ queue \in Seq(Packets) /\ Len(queue) <= panel.packets
      /\ touches \in 0..panel.touches /\ stale \subseteq Fields
      /\ source \in [Fields -> Slots]
  BY DEF IInv, TypeOK
<1>5. Slots' = Slots /\ Fingers' = Fingers /\ Fields' = Fields
  BY <1>1 DEF Slots, Fingers
<1> DEFINE p == [changes |-> changes, at |-> f]
<1>6. ASSUME queue' \in Seq(Packets), Len(queue') <= panel.packets, stale' \subseteq Fields
      PROVE  TypeOK'
  BY <1>1, <1>4, <1>5, <1>6, PanelSizes DEF IInv, TypeOK
<1>7. CASE ~Full /\ queue' = Append(queue, p) /\ stale' = stale
  <2>1. p \in Packets /\ p.changes = changes /\ p.at = f
    BY <1>3
  <2> HIDE DEF p, Packets
  <2>2. /\ queue' \in Seq(Packets) /\ Len(queue') = Len(queue) + 1
        /\ \A i \in 1..Len(queue) : queue'[i] = queue[i]
        /\ queue'[Len(queue) + 1] = p /\ Len(queue) \in Nat
        /\ DOMAIN queue' = 1..(Len(queue) + 1) /\ DOMAIN queue = 1..Len(queue)
    BY <1>4, <1>7, <2>1
  <2>3. Len(queue') <= panel.packets
    BY <1>4, <1>7, <2>2, PanelSizes DEF Full
  <2>4. TypeOK'
    BY <1>4, <1>6, <1>7, <2>2, <2>3
  <2>5. ASSUME NEW i \in 0..Len(queue), NEW s \in Slots, NEW d \in Fields,
               LastReport(i, s, d)'
        PROVE  LastReport(i, s, d) /\ finger'[s][d] = finger[s][d]
    <3>1. \A j \in 1..(Len(queue) + 1) : j > i => <<s, d>> \notin queue'[j].changes
      BY <2>2, <2>5 DEF LastReport
    <3>2. <<s, d>> \notin changes
      BY <2>1, <2>2, <3>1
    <3>3. \A j \in 1..Len(queue) : j > i => <<s, d>> \notin queue[j].changes
      BY <2>2, <3>1
    <3> QED
      BY <1>1, <1>3, <2>2, <3>2, <3>3 DEF LastReport
  <2>6. QueueInv'
    <3> SUFFICES ASSUME NEW i \in DOMAIN queue', NEW s \in Slots, NEW d \in Fields,
                        LastReport(i, s, d)'
                 PROVE  queue'[i].at[s][d] = finger'[s][d]
      BY <1>5 DEF QueueInv
    <3>1. CASE i = Len(queue) + 1
      BY <1>1, <2>1, <2>2, <3>1
    <3>2. CASE i \in 1..Len(queue)
      <4>1. queue[i].at[s][d] = finger[s][d]
        BY <2>2, <2>5, <3>2 DEF IInv, QueueInv
      <4> QED
        BY <2>2, <2>5, <3>2, <4>1
    <3> QED
      BY <2>2, <3>1, <3>2
  <2>8. ChainInv'
    <3>1. ASSUME NEW i, i = Len(queue) + 1, NEW s \in Slots, NEW d \in Fields
          PROVE  Follows(i, s, d)'
      <4>1. queue'[i].at = f /\ queue'[i].changes = changes
        BY <2>1, <2>2, <3>1
      <4>2. <<s, d>> \in changes \/ f[s][d] = finger[s][d]
        BY <1>3
      <4>3. LastReport(Len(queue), s, d)
        BY <2>2 DEF LastReport
      <4>4. CASE i = 1
        <5>1. d \in stale \/ read[s][d] = finger[s][d]
          BY <2>2, <3>1, <4>3, <4>4 DEF IInv, InputInv
        <5> QED
          BY <1>1, <1>7, <4>1, <4>2, <4>4, <5>1 DEF Follows
      <4>5. CASE i # 1
        <5>1. i - 1 = Len(queue) /\ i > 1 /\ i - 1 \in DOMAIN queue /\ queue'[i - 1] = queue[i - 1]
          BY <2>2, <3>1, <4>5
        <5>2. queue[i - 1].at[s][d] = finger[s][d]
          BY <4>3, <5>1 DEF IInv, QueueInv
        <5> QED
          BY <4>1, <4>2, <5>1, <5>2 DEF Follows
      <4> QED
        BY <4>4, <4>5
    <3>2. ASSUME NEW i \in 1..Len(queue), NEW s \in Slots, NEW d \in Fields
          PROVE  Follows(i, s, d)'
      <4>1. Follows(i, s, d)
        BY <2>2 DEF IInv, ChainInv
      <4>2. queue'[i] = queue[i] /\ (i > 1 => queue'[i - 1] = queue[i - 1])
        BY <2>2
      <4> QED
        BY <1>1, <1>7, <4>1, <4>2 DEF Follows
    <3> QED
      BY <1>5, <2>2, <3>1, <3>2 DEF ChainInv
  <2>7. InputInv'
    <3>1. ASSUME NEW s \in Slots, NEW d \in Fields \ stale, LastReport(0, s, d)'
          PROVE  read[s][d] = finger'[s][d]
      <4>1. LastReport(0, s, d) /\ finger'[s][d] = finger[s][d]
        BY <2>2, <2>5, <3>1
      <4> QED
        BY <4>1 DEF IInv, InputInv
    <3>2. Axes \ stale \subseteq seen /\ \A d \in Fields \ stale : input[d] = read[source[d]][d]
      BY DEF IInv, InputInv
    <3> QED
      BY <1>1, <1>5, <1>7, <3>1, <3>2 DEF InputInv
  <2> QED
    BY <1>1, <2>4, <2>6, <2>7, <2>8 DEF IInv, LoopInv, NothingForgotten
<1>8. ASSUME NEW left \in Ends(changes), queue' = <<[changes |-> left, at |-> f]>>,
             stale' = stale \union Sent \union FieldsOf(changes)
      PROVE  IInv'
  <2> DEFINE q == [changes |-> left, at |-> f]
  <2>1. q \in Packets /\ q.at = f
    BY <1>3 DEF Ends
  <2> HIDE DEF q, Packets
  <2>2. queue' \in Seq(Packets) /\ Len(queue') = 1 /\ DOMAIN queue' = {1} /\ queue'[1] = q
    BY <1>8, <2>1 DEF q
  <2>3. Sent \subseteq Fields /\ FieldsOf(changes) \subseteq Fields
    <3>1. \A i \in DOMAIN queue : queue[i].changes \subseteq Slots \X Fields
      <4>1. \A i \in DOMAIN queue : queue[i] \in Packets
        BY <1>4
      <4>2. \A m \in Packets : m.changes \subseteq Slots \X Fields
        BY DEF Packets
      <4> QED
        BY <4>1, <4>2
    <3> QED
      BY <1>3, <3>1 DEF Sent, FieldsOf
  <2>4. TypeOK'
    BY <1>4, <1>6, <1>8, <2>2, <2>3, PanelSizes
  <2>5. ASSUME NEW s \in Slots, NEW d \in Fields \ stale'
        PROVE  d \notin stale /\ read[s][d] = f[s][d]
    <3>1. d \notin stale
      BY <1>8
    <3>2. LastReport(0, s, d)
      BY <1>8 DEF LastReport, Sent, FieldsOf
    <3>3. <<s, d>> \notin changes
      BY <1>8 DEF FieldsOf
    <3> QED
      BY <1>3, <3>1, <3>2, <3>3 DEF IInv, InputInv
  <2>6. QueueInv' /\ ChainInv'
    <3>1. \A s \in Slots, d \in Fields :
             q.at[s][d] = finger'[s][d] /\ (d \in stale' \/ q.at[s][d] = read[s][d])
      BY <1>1, <2>1, <2>5
    <3> QED
      BY <1>1, <1>5, <2>2, <3>1 DEF QueueInv, ChainInv, Follows
  <2>7. InputInv'
    <3>1. \A d \in Fields \ stale' : input[d] = read[source[d]][d]
      BY <1>8 DEF IInv, InputInv
    <3>2. Axes \ stale' \subseteq seen
      BY <1>8 DEF IInv, InputInv
    <3> QED
      BY <1>1, <1>5, <2>5, <3>1, <3>2 DEF InputInv
  <2> QED
    BY <1>1, <2>4, <2>6, <2>7 DEF IInv, LoopInv, NothingForgotten
<1> QED
  BY <1>2, <1>7, <1>8

LEMMA UITouch == ASSUME IInv, Touch PROVE IInv'
<1>1. PICK f : Report(f) /\ f \in [Slots ->
           {Finger(to, TRUE) : to \in panel.spots}
           \union {[finger[s] EXCEPT !.down = FALSE] : s \in Slots}
           \union {finger[s] : s \in Slots}]
  BY DEF Touch
<1>2. \A s \in Slots : finger[s] \in Fingers
  BY DEF IInv, TypeOK
<1>3. \A s \in Slots : [finger[s] EXCEPT !.down = FALSE] \in Fingers
  BY <1>2, Lifted
<1>4. \A to \in panel.spots : Finger(to, TRUE) \in Fingers
  BY PanelSizes DEF IInv, TypeOK
<1>5. f \in [Slots -> Fingers]
  BY <1>1, <1>2, <1>3, <1>4
<1> QED
  BY <1>1, <1>5, UIReport

-----------------------------------------------------------------------------
(* The loop's steps.                                                       *)

\* A step that leaves queue, fingers and input alone keeps what is said of them.
LEMMA UIFrame ==
    ASSUME IInv, UNCHANGED <<panel, finger, queue, input, seen, read, source, stale>>
    PROVE  QueueInv' /\ ChainInv' /\ InputInv'
BY DEF IInv, QueueInv, ChainInv, Follows, InputInv, LastReport, Slots

\* What a packet leaves in the input is right, if no later packet changes it.
LEMMA UIPacketInput ==
    ASSUME IInv, ReadPacket
    PROVE  QueueInv' /\ ChainInv' /\ InputInv'
<1> DEFINE Packets == [changes : SUBSET (Slots \X Fields), at : [Slots -> Fingers]]
           p == Head(queue)
<1>1. /\ queue \in Seq(Packets) /\ panel.fingers \in Nat /\ source \in [Fields -> Slots]
  BY PanelSizes DEF IInv, TypeOK
<1>2. p \in Packets
  <2> HIDE DEF Packets
  <2>1. queue # << >>
    BY DEF ReadPacket
  <2> QED
    BY <1>1, <2>1
<1>3. p.changes \subseteq Slots \X Fields /\ DOMAIN p.at = Slots
  BY <1>2
<1> HIDE DEF Packets
<1>4. /\ Len(queue) \in Nat /\ DOMAIN queue = 1..Len(queue) /\ queue # << >> /\ p = queue[1]
      /\ DOMAIN queue' = 1..(Len(queue) - 1) /\ 1 \in DOMAIN queue
      /\ \A i \in DOMAIN queue' : i + 1 \in DOMAIN queue /\ queue'[i] = queue[i + 1]
  BY <1>1 DEF ReadPacket
<1> HIDE DEF p
<1>5. UNCHANGED <<panel, finger>> /\ Slots' = Slots
  BY DEF ReadPacket, Slots
<1>6. ASSUME NEW i \in Nat, NEW s \in Slots, NEW d \in Fields, LastReport(i, s, d)'
      PROVE  LastReport(i + 1, s, d)
  <2> SUFFICES ASSUME NEW j \in DOMAIN queue, j > i + 1 PROVE <<s, d>> \notin queue[j].changes
    BY DEF LastReport
  <2>1. j - 1 \in DOMAIN queue' /\ j - 1 > i /\ queue'[j - 1] = queue[j]
    BY <1>4
  <2> QED
    BY <1>6, <2>1 DEF LastReport
<1>7. QueueInv'
  <2> SUFFICES ASSUME NEW i \in DOMAIN queue', NEW s \in Slots, NEW d \in Fields,
                      LastReport(i, s, d)'
               PROVE  queue'[i].at[s][d] = finger[s][d]
    BY <1>5 DEF QueueInv
  <2>1. i \in Nat /\ i + 1 \in DOMAIN queue /\ queue'[i] = queue[i + 1]
    BY <1>4
  <2> QED
    BY <1>6, <2>1 DEF IInv, QueueInv
<1>9. ChainInv'
  <2>1. ASSUME NEW i \in DOMAIN queue', NEW s \in Slots, NEW d \in Fields
        PROVE  Follows(i, s, d)'
    <3>1. i \in Nat \ {0} /\ i + 1 \in DOMAIN queue /\ queue'[i] = queue[i + 1] /\ i + 1 > 1
          /\ i + 1 # 1 /\ (i + 1) - 1 = i
      BY <1>4
    <3>2. <<s, d>> \in queue[i + 1].changes \/ queue[i + 1].at[s][d] = queue[i].at[s][d]
      BY <3>1 DEF IInv, ChainInv, Follows
    <3>3. CASE i = 1
      <4>1. queue[i].at = read'
        BY <1>4, <3>3 DEF ReadPacket, p
      <4> QED
        BY <3>1, <3>2, <3>3, <4>1 DEF Follows
    <3>4. CASE i # 1
      <4>1. i - 1 \in DOMAIN queue' /\ (i - 1) + 1 = i /\ i > 1
        BY <1>4, <3>1, <3>4
      <4>2. queue'[i - 1] = queue[(i - 1) + 1]
        BY <1>4, <4>1
      <4> QED
        BY <3>1, <3>2, <4>1, <4>2 DEF Follows
    <3> QED
      BY <3>3, <3>4
  <2> QED
    BY <1>5, <2>1 DEF ChainInv
<1>8. InputInv'
  <2>1. /\ input' = After(p) /\ stale' = stale \ FieldsOf(p.changes) /\ read' = p.at
        /\ seen' = seen \union (FieldsOf(p.changes) \ {"down"})
    BY DEF ReadPacket, p
  <2>2. Axes \ stale' \subseteq seen'
    BY <2>1 DEF IInv, InputInv, Axes
  <2>3. ASSUME NEW s \in Slots, NEW d \in Fields, LastReport(0, s, d)'
        PROVE  read'[s][d] = finger[s][d]
    <3>1. LastReport(0 + 1, s, d)
      BY <1>6, <2>3
    <3>2. LastReport(1, s, d)
      BY <3>1
    <3> QED
      BY <1>4, <2>1, <3>2 DEF IInv, QueueInv
  <2>4. ASSUME NEW d \in Fields \ stale' PROVE input'[d] = p.at[source'[d]][d]
    <3> DEFINE R == Reporters(p, d)
    <3>1. source'[d] = IF R = {} THEN source[d] ELSE Max(R)
      BY DEF ReadPacket, p
    <3>2. input'[d] = IF R = {} THEN input[d] ELSE p.at[Max(R)][d]
      BY <2>1 DEF After
    <3>3. CASE R = {}
      <4>1. PICK s \in Slots : s = source[d] /\ s = source'[d]
        BY <1>1, <3>1, <3>3
      <4>2. \A z \in Slots : <<z, d>> \notin p.changes
        BY <1>3, <3>3 DEF Reporters
      <4>3. d \notin FieldsOf(p.changes)
        BY <1>3, <4>2 DEF FieldsOf
      <4>4. d \in Fields \ stale
        BY <2>1, <4>3
      <4>5. p.at[s][d] = read[s][d]
        <5>1. Follows(1, s, d)
          BY <1>4 DEF IInv, ChainInv
        <5> QED
          BY <1>4, <4>2, <4>4, <5>1 DEF Follows
      <4>6. input[d] = read[s][d]
        BY <4>1, <4>4 DEF IInv, InputInv
      <4> QED
        BY <3>2, <3>3, <4>1, <4>5, <4>6
    <3>4. CASE R # {}
      BY <3>1, <3>2, <3>4
    <3> QED
      BY <3>3, <3>4
  <2> QED
    BY <1>5, <2>1, <2>2, <2>3, <2>4 DEF InputInv
<1> QED
  BY <1>7, <1>8, <1>9

LEMMA UIReadPacket == ASSUME IInv, ReadPacket PROVE IInv'
<1> DEFINE Packets == [changes : SUBSET (Slots \X Fields), at : [Slots -> Fingers]]
           p == Head(queue)
<1>1. /\ panel \in Panels /\ queue \in Seq(Packets) /\ Len(queue) <= panel.packets
      /\ touches \in 0..panel.touches /\ finger \in [Slots -> Fingers]
      /\ source \in [Fields -> Slots] /\ seen \subseteq Axes /\ stale \subseteq Fields
      /\ look \in Looks /\ shown \in Looks
      /\ {input.down, dirty, need, missed} \subseteq BOOLEAN
  BY DEF IInv, TypeOK
<1>2. p \in Packets /\ p.at \in [Slots -> Fingers] /\ p.changes \subseteq Slots \X Fields
  <2>1. p \in Packets
    <3> HIDE DEF Packets
    <3>1. queue # << >>
      BY DEF ReadPacket
    <3> QED
      BY <1>1, <3>1
  <2> HIDE DEF p
  <2> QED
    BY <2>1
<1>3. queue' \in Seq(Packets) /\ Len(queue') <= panel.packets
  <2> HIDE DEF Packets
  <2>1. queue # << >> /\ queue' = Tail(queue)
    BY DEF ReadPacket
  <2>2. Len(queue') = Len(queue) - 1 /\ Len(queue) \in Nat /\ queue' \in Seq(Packets)
    BY <1>1, <2>1
  <2> QED
    BY <1>1, <2>2, PanelSizes
<1>4. /\ UNCHANGED <<panel, finger, touches, need, shown, missed>> /\ pc' = "poll" /\ pc = "poll"
      /\ input' = After(p) /\ seen' = seen \union (FieldsOf(p.changes) \ {"down"})
      /\ stale' = stale \ FieldsOf(p.changes) /\ read' = p.at
  BY DEF ReadPacket, drawVars
<1>5. Slots' = Slots /\ Fingers' = Fingers
  BY <1>4 DEF Slots, Fingers
<1>6. \/ UNCHANGED <<look, dirty>>
      \/ \E a \in Areas : look' = Press(look, a.name) /\ dirty' = TRUE
  BY DEF ReadPacket, HandleTouch, Buttons, DirtyAfter
<1>7. look' \in Looks /\ dirty' \in BOOLEAN
  BY <1>1, <1>6, PressType
<1>8. NothingForgotten'
  BY <1>4, <1>6 DEF IInv, NothingForgotten
<1>9. source' \in [Fields -> Slots]
  <2>1. source' = [f \in Fields |-> IF Reporters(p, f) = {} THEN source[f]
                                      ELSE Max(Reporters(p, f))]
    BY DEF ReadPacket
  <2>2. ASSUME NEW f \in Fields, Reporters(p, f) # {}
        PROVE  Max(Reporters(p, f)) \in Slots
    <3> DEFINE R == Reporters(p, f)
    <3>1. R \subseteq 0..(panel.fingers - 1) /\ R # {}
      BY <1>2, <2>2 DEF Reporters, Slots
    <3> HIDE DEF R
    <3>2. panel.fingers \in Nat
      BY <1>1, PanelSizes
    <3>3. Max(R) \in R
      BY <3>1, <3>2, LastSlot
    <3> QED
      BY <3>1, <3>3 DEF R, Slots
  <2> QED
    BY <1>1, <2>1, <2>2
<1>10. input'.down \in BOOLEAN
  <2> DEFINE R == Reporters(p, "down")
  <2>1. "down" \in Fields
    BY DEF Fields
  <2>2. input'.down = IF R = {} THEN input.down ELSE p.at[Max(R)].down
    BY <1>4, <2>1 DEF After
  <2>3. R # {} => Max(R) \in Slots
    <3>1. source'["down"] = IF R = {} THEN source["down"] ELSE Max(R)
      BY <2>1 DEF ReadPacket
    <3> QED
      BY <1>9, <2>1, <3>1
  <2> HIDE DEF R
  <2>4. R # {} => p.at[Max(R)].down \in BOOLEAN
    BY <1>2, <2>3, Lifted
  <2> QED
    BY <1>1, <2>2, <2>4
<1>11. seen' \subseteq Axes /\ stale' \subseteq Fields
  <2>1. FieldsOf(p.changes) \subseteq Fields
    BY <1>2 DEF FieldsOf
  <2> QED
    BY <1>1, <1>4, <2>1 DEF Fields
<1> HIDE DEF p
<1>12. TypeOK'
  BY <1>1, <1>2, <1>3, <1>4, <1>5, <1>7, <1>9, <1>10, <1>11 DEF TypeOK
<1>13. LoopInv'
  BY <1>4 DEF IInv, LoopInv
<1> QED
  BY <1>8, <1>12, <1>13, UIPacketInput DEF IInv

\* The rest of a turn hands what is to be drawn from dirty to need_redraw to the screen.
LEMMA UITurn ==
    ASSUME IInv, PollDone \/ Refresh \/ NoRefresh \/ Draw \/ DrawFails
    PROVE  IInv'
<1>1. UNCHANGED <<panel, finger, queue, touches, input, seen, look, read, source, stale>>
  BY DEF PollDone, Refresh, NoRefresh, Draw, DrawFails, kernelVars, inputVars
<1>2. Slots' = Slots /\ Fingers' = Fingers
  BY <1>1 DEF Slots, Fingers
<1>3. /\ {dirty, need, missed} \subseteq BOOLEAN /\ pc \in {"poll", "update", "draw"}
      /\ look \in Looks /\ shown \in Looks
  BY DEF IInv, TypeOK
<1>4. /\ {dirty', need', missed'} \subseteq BOOLEAN /\ pc' \in {"poll", "update", "draw"}
      /\ shown' \in Looks
  BY <1>3 DEF PollDone, Refresh, NoRefresh, Draw, DrawFails, drawVars
<1>5. TypeOK'
  BY <1>1, <1>2, <1>4 DEF IInv, TypeOK
<1>6. LoopInv' /\ NothingForgotten'
  BY <1>1, <1>3 DEF IInv, LoopInv, NothingForgotten, PollDone, Refresh,
     NoRefresh, Draw, DrawFails, drawVars
<1> QED
  BY <1>1, <1>5, <1>6, UIFrame DEF IInv
-----------------------------------------------------------------------------
(* Taps.                                                                   *)

\* A packet of one finger that the code knows all of is acted on as that finger's.
LEMMA UITap ==
    ASSUME IInv, ReadPacket, PicturesAnswer,
           NEW s \in Slots, Known(Head(queue), s)
    PROVE  LET at == Head(queue).at[s]
               pressed == at.down /\ \A t \in Slots : ~read[t].down
           IN  \/ look' = look /\ (pressed => OnDrawn(at, -Margin) = {})
               \/ pressed /\ \E b \in OnDrawn(at, Margin) : look' = Press(look, b.name)
<1> DEFINE Packets == [changes : SUBSET (Slots \X Fields), at : [Slots -> Fingers]]
           p == Head(queue)
           at == p.at[s]
           got == After(p)
           pressed == at.down /\ \A t \in Slots : ~read[t].down
<1>1. p \in Packets /\ 1 \in DOMAIN queue /\ p = queue[1]
  <2> HIDE DEF Packets
  <2>1. queue \in Seq(Packets)
    BY DEF IInv, TypeOK, Packets
  <2>2. queue # << >>
    BY DEF ReadPacket
  <2> QED
    BY <2>1, <2>2
<1>2. /\ {c[1] : c \in p.changes} = {s} /\ "down" \notin stale
      /\ input.down = (\E t \in DOMAIN read : read[t].down)
      /\ \A a \in Axes : <<s, a>> \in p.changes \/ (a \notin stale /\ source[a] = s)
  BY DEF Known
<1>3. /\ seen' = seen \union (FieldsOf(p.changes) \ {"down"})
      /\ IF Taps(got) /\ seen' = Axes
         THEN HandleTouch(BaseX(got.x), BaseY(got.y))
         ELSE UNCHANGED <<look, dirty>>
  BY DEF ReadPacket
<1> HIDE DEF p
<1>4. /\ p.changes \subseteq Slots \X Fields /\ DOMAIN p.at = Slots /\ at \in Fingers
      /\ DOMAIN read = Slots /\ \A t \in Slots : read[t] \in Fingers
      /\ panel \in Panels /\ seen \subseteq Axes /\ input.down \in BOOLEAN
  BY <1>1 DEF IInv, TypeOK
<1> HIDE DEF Packets
<1>5. at.down \in BOOLEAN /\ \A t \in Slots : read[t].down \in BOOLEAN
  BY <1>4, Lifted
<1>6. \A d \in Fields : Reporters(p, d) = IF <<s, d>> \in p.changes THEN {s} ELSE {}
  BY <1>2, <1>4 DEF Reporters
<1>7. Max({s}) = s
  <2>1. s \in Nat
    BY DEF Slots
  <2> QED
    BY <2>1 DEF Max
<1>8. \A d \in Fields : got[d] = IF <<s, d>> \in p.changes THEN at[d] ELSE input[d]
  BY <1>6, <1>7 DEF After
<1>9. ASSUME NEW d \in Fields, d \notin stale, <<s, d>> \notin p.changes
      PROVE  at[d] = read[s][d]
  <2>1. Follows(1, s, d)
    BY <1>1 DEF IInv, ChainInv
  <2> QED
    BY <1>1, <1>9, <2>1 DEF Follows
<1>10. ASSUME NEW a \in Axes PROVE got[a] = at[a]
  <2>1. a \in Fields
    BY DEF Fields
  <2>2. CASE <<s, a>> \notin p.changes
    <3>1. a \in Fields \ stale /\ source[a] = s
      BY <1>2, <2>1, <2>2
    <3>2. input[a] = read[s][a]
      BY <3>1 DEF IInv, InputInv
    <3> QED
      BY <1>8, <1>9, <2>2, <3>1, <3>2
  <2> QED
    BY <1>8, <2>1, <2>2
<1>11. "down" \in Fields /\ "x" \in Axes /\ "y" \in Axes
  BY DEF Fields, Axes
<1>12. /\ got.down = IF <<s, "down">> \in p.changes THEN at.down ELSE input.down
       /\ <<s, "down">> \notin p.changes => at.down = read[s].down
       /\ got.x = at.x /\ got.y = at.y
  BY <1>2, <1>8, <1>9, <1>10, <1>11
<1> HIDE DEF at, got
<1>13. Taps(got) <=> pressed
  <2>1. input.down <=> \E t \in Slots : read[t].down
    BY <1>2, <1>4
  <2>2. Taps(got) <=> got.down /\ ~input.down
    BY DEF Taps
  <2>3. CASE <<s, "down">> \in p.changes
    BY <1>12, <2>1, <2>2, <2>3
  <2>4. CASE <<s, "down">> \notin p.changes
    BY <1>12, <2>1, <2>2, <2>4
  <2> QED
    BY <2>3, <2>4
<1>14. CASE ~pressed
  <2>1. look' = look
    BY <1>3, <1>13, <1>14
  <2> QED
    BY <1>14, <2>1 DEF at, p
<1>15. CASE pressed
  <2>1. seen' = Axes
    <3>1. ASSUME NEW a \in Axes PROVE a \in seen'
      <4>1. <<s, a>> \in p.changes => a \in FieldsOf(p.changes)
        BY DEF FieldsOf
      <4>2. a \notin stale => a \in seen
        BY DEF IInv, InputInv
      <4>3. a # "down"
        BY DEF Axes
      <4> QED
        BY <1>2, <1>3, <4>1, <4>2, <4>3
    <3>2. FieldsOf(p.changes) \ {"down"} \subseteq Axes
      BY <1>4 DEF FieldsOf, Fields
    <3> QED
      BY <1>3, <1>4, <3>1, <3>2
  <2>2. HandleTouch(BaseX(at.x), BaseY(at.y))
    BY <1>3, <1>12, <1>13, <1>15, <2>1
  <2>3. PICK spot \in panel.spots : at = Finger(spot, TRUE)
    <3>1. <<at.x, at.y>> \in panel.spots /\ at = [x |-> at.x, y |-> at.y, down |-> at.down]
      BY <1>4 DEF Fingers, FingersOn
    <3>2. at.down = TRUE
      BY <1>5, <1>15 DEF at
    <3>3. at = Finger(<<at.x, at.y>>, TRUE)
      BY <3>1, <3>2 DEF Finger
    <3> QED
      BY <3>1, <3>3
  <2> DEFINE hit == Buttons(BaseX(at.x), BaseY(at.y))
  <2>4. /\ hit = {} => OnDrawn(at, -Margin) = {}
        /\ \A a \in hit : \E b \in OnDrawn(at, Margin) : b.name = a.name
    BY <2>3 DEF PicturesAnswer
  <2>5. (hit = {} /\ look' = look) \/ \E a \in hit : look' = Press(look, a.name)
    BY <2>2 DEF HandleTouch
  <2> HIDE DEF hit
  <2>6. \/ look' = look /\ OnDrawn(at, -Margin) = {}
        \/ \E b \in OnDrawn(at, Margin) : look' = Press(look, b.name)
    BY <2>4, <2>5
  <2> QED
    BY <1>15, <2>6 DEF at, p
<1> QED
  BY <1>14, <1>15

-----------------------------------------------------------------------------
(* Where buttons answer and where they are drawn.                          *)

\* Edge e of the layout is the pixel g, but for Margin.
NearX(e, g) ==
    800 * (g - Margin - 1) < e * panel.width /\ e * panel.width <= 800 * (g + Margin)
NearY(e, g) ==
    480 * (g - Margin - 1) < e * panel.height /\ e * panel.height <= 480 * (g + Margin)
SpansX(a, b) == NearX(a.x, b.x) /\ NearX(a.x + a.w, b.x + b.w)
SpansY(a, b) == NearY(a.y, b.y) /\ NearY(a.y + a.h, b.y + b.h)
Pictured(a, b) == a.name = b.name /\ a.on = b.on /\ SpansX(a, b) /\ SpansY(a, b)

\* What the assumptions say of the panel's size.
LEMMA PanelFits ==
    ASSUME panel \in Panels
    PROVE  /\ panel.width \in Nat /\ panel.width > 1 /\ panel.height \in Nat /\ panel.height > 1
           /\ Margin \in Nat
           /\ \/ Margin >= 5 /\ Margin > panel.height \div 240
              \/ Margin >= 3 /\ panel.width = 800 /\ panel.height = 480
              \/ Margin >= 3 /\ panel.width = 1280 /\ panel.height = 720
<1>1. /\ panel.width \in Nat \ {0, 1} /\ panel.height \in Nat \ {0, 1}
      /\ Margin \in Nat
  BY PanelAssumption, BoundAssumption DEF PanelsFit
<1>2. \/ Margin >= 5 /\ Margin > panel.height \div 240
      \/ Margin >= 3 /\ <<panel.width, panel.height>> \in {<<800, 480>>, <<1280, 720>>}
  BY MarginAssumption
<1> QED
  BY <1>1, <1>2

\* A length of the layout in pixels.
LEMMA Scaled ==
    ASSUME panel \in Panels, NEW c \in Nat
    PROVE  /\ ScaleX(c) \in Nat /\ ScaleY(c) \in Nat
           /\ 800 * ScaleX(c) <= c * panel.width /\ c * panel.width < 800 * ScaleX(c) + 800
           /\ 480 * ScaleY(c) <= c * panel.height /\ c * panel.height < 480 * ScaleY(c) + 480
<1> DEFINE m == c * panel.width
           n == c * panel.height
<1>1. m \in Nat /\ n \in Nat
  BY PanelFits
<1> HIDE DEF m, n
<1>2. /\ m \div 800 \in Nat /\ 800 * (m \div 800) <= m /\ m < 800 * (m \div 800) + 800
      /\ n \div 480 \in Nat /\ 480 * (n \div 480) <= n /\ n < 480 * (n \div 480) + 480
  BY <1>1
<1> QED
  BY <1>2 DEF ScaleX, ScaleY, m, n

\* The buttons of the footer, ...
LEMMA NavNear ==
    ASSUME panel \in Panels, NEW i \in 0..3, NEW name
    PROVE  LET a == Area(name, Pages, 46 + 180 * i, 416, 168, 28)
               b == Nav(name, i)
           IN  SpansX(a, b) /\ SpansY(a, b)
<1> DEFINE w == panel.width
           h == panel.height
           x34 == ScaleX(34)
           x12 == ScaleX(12)
           x732 == ScaleX(732)
           y414 == ScaleY(414)
           y36 == ScaleY(36)
           y28 == ScaleY(28)
<1>1. /\ {w, h, x34, x12, x732, y414, y36, y28, Margin} \subseteq Nat /\ w > 1 /\ h > 1
      /\ \/ Margin >= 5 /\ Margin > h \div 240
         \/ Margin >= 3 /\ w = 800 /\ h = 480
         \/ Margin >= 3 /\ w = 1280 /\ h = 720
  <2>1. x34 \in Nat /\ x12 \in Nat /\ x732 \in Nat /\ y414 \in Nat /\ y36 \in Nat /\ y28 \in Nat
    BY Scaled
  <2> HIDE DEF x34, x12, x732, y414, y36, y28
  <2> QED
    BY <2>1, PanelFits
<1>2. /\ 800 * x34 <= 34 * w /\ 34 * w < 800 * x34 + 800
      /\ 800 * x12 <= 12 * w /\ 12 * w < 800 * x12 + 800
      /\ 800 * x732 <= 732 * w /\ 732 * w < 800 * x732 + 800
      /\ 480 * y414 <= 414 * h /\ 414 * h < 480 * y414 + 480
      /\ 480 * y36 <= 36 * h /\ 36 * h < 480 * y36 + 480
      /\ 480 * y28 <= 28 * h /\ 28 * h < 480 * y28 + 480
  BY Scaled
<1> DEFINE nav == NavW
           up == (y36 - y28) \div 2
<1>3. nav = (x732 - x12 * 5) \div 4
  BY DEF NavW
<1>4. Nav(name, i) = Area(name, Pages, x34 + x12 * (i + 1) + nav * i, y414 + up, nav, y28)
  BY DEF Nav
<1> HIDE DEF w, h, x34, x12, x732, y414, y36, y28, nav, up
<1>5. nav \in Int /\ 4 * nav <= x732 - x12 * 5 /\ x732 - x12 * 5 < 4 * nav + 4
  BY <1>1, <1>3
<1>6. up \in Int /\ 2 * up <= y36 - y28 /\ y36 - y28 < 2 * up + 2
  BY <1>1 DEF up
<1>7. NearX(46 + 180 * i, x34 + x12 * (i + 1) + nav * i)
  <2>1. NearX(46, x34 + x12)
    BY <1>1, <1>2, <1>5 DEF NearX, w
  <2>2. NearX(226, x34 + x12 * 2 + nav)
    BY <1>1, <1>2, <1>5 DEF NearX, w
  <2>3. NearX(406, x34 + x12 * 3 + nav * 2)
    BY <1>1, <1>2, <1>5 DEF NearX, w
  <2>4. NearX(586, x34 + x12 * 4 + nav * 3)
    BY <1>1, <1>2, <1>5 DEF NearX, w
  <2>5. CASE i = 0
    BY <1>1, <1>5, <2>1, <2>5
  <2>6. CASE i = 1
    BY <1>1, <1>5, <2>2, <2>6
  <2>7. CASE i = 2
    BY <1>1, <1>5, <2>3, <2>7
  <2>8. CASE i = 3
    BY <1>1, <1>5, <2>4, <2>8
  <2> QED
    BY <2>5, <2>6, <2>7, <2>8
<1>8. NearX(46 + 180 * i + 168, x34 + x12 * (i + 1) + nav * i + nav)
  <2>1. NearX(214, x34 + x12 + nav)
    BY <1>1, <1>2, <1>5 DEF NearX, w
  <2>2. NearX(394, x34 + x12 * 2 + nav * 2)
    BY <1>1, <1>2, <1>5 DEF NearX, w
  <2>3. NearX(574, x34 + x12 * 3 + nav * 3)
    BY <1>1, <1>2, <1>5 DEF NearX, w
  <2>4. NearX(754, x34 + x12 * 4 + nav * 4)
    BY <1>1, <1>2, <1>5 DEF NearX, w
  <2>5. CASE i = 0
    BY <1>1, <1>5, <2>1, <2>5
  <2>6. CASE i = 1
    BY <1>1, <1>5, <2>2, <2>6
  <2>7. CASE i = 2
    BY <1>1, <1>5, <2>3, <2>7
  <2>8. CASE i = 3
    BY <1>1, <1>5, <2>4, <2>8
  <2> QED
    BY <2>5, <2>6, <2>7, <2>8
<1>9. NearY(416, y414 + up) /\ NearY(416 + 28, y414 + up + y28)
  BY <1>1, <1>2, <1>6 DEF NearY, h
<1> QED
  BY <1>4, <1>7, <1>8, <1>9 DEF SpansX, SpansY, Area

\* ... the tabs of the FFT page ...
LEMMA TabNear ==
    ASSUME panel \in Panels, NEW c \in {516, 616}, NEW name
    PROVE  LET a == Area(name, {"fft"}, c + 48, 150, 92, 30)
               b == Tab(name, c)
           IN  SpansX(a, b) /\ SpansY(a, b)
<1> DEFINE w == panel.width
           h == panel.height
           x48 == ScaleX(48)
           xc == ScaleX(c)
           x92 == ScaleX(92)
           y142 == ScaleY(142)
           y8 == ScaleY(8)
           y30 == ScaleY(30)
<1>1. /\ w \in Nat /\ w > 1 /\ h \in Nat /\ h > 1 /\ Margin \in Nat
      /\ \/ Margin >= 5
         \/ Margin >= 3 /\ w = 800 /\ h = 480
         \/ Margin >= 3 /\ w = 1280 /\ h = 720
  BY PanelFits
<1>2. /\ x48 \in Nat /\ 800 * x48 <= 48 * w /\ 48 * w < 800 * x48 + 800
      /\ xc \in Nat /\ 800 * xc <= c * w /\ c * w < 800 * xc + 800
      /\ x92 \in Nat /\ 800 * x92 <= 92 * w /\ 92 * w < 800 * x92 + 800
      /\ y142 \in Nat /\ 480 * y142 <= 142 * h /\ 142 * h < 480 * y142 + 480
      /\ y8 \in Nat /\ 480 * y8 <= 8 * h /\ 8 * h < 480 * y8 + 480
      /\ y30 \in Nat /\ 480 * y30 <= 30 * h /\ 30 * h < 480 * y30 + 480
  BY Scaled
<1>3. Tab(name, c) = Area(name, {"fft"}, x48 + xc, y142 + y8, x92, y30)
  BY DEF Tab
<1> HIDE DEF w, h, x48, xc, x92, y142, y8, y30
<1>4. NearX(c + 48, x48 + xc) /\ NearX(c + 48 + 92, x48 + xc + x92)
  <2>1. CASE c = 516
    BY <1>1, <1>2, <2>1 DEF NearX, w
  <2>2. CASE c = 616
    BY <1>1, <1>2, <2>2 DEF NearX, w
  <2> QED
    BY <2>1, <2>2
<1>5. NearY(150, y142 + y8) /\ NearY(150 + 30, y142 + y8 + y30)
  BY <1>1, <1>2 DEF NearY, h
<1> QED
  BY <1>3, <1>4, <1>5 DEF SpansX, SpansY, Area

\* ... and the buttons of the HOLD and SCOPE pages.
LEMMA ButtonNear ==
    ASSUME panel \in Panels, NEW c \in {48, 290, 532}, NEW name, NEW page
    PROVE  LET a == Area(name, {page}, c, 356, 220, 34)
               b == Button(name, page, c)
           IN  SpansX(a, b) /\ SpansY(a, b)
<1> DEFINE w == panel.width
           h == panel.height
           xc == ScaleX(c)
           x220 == ScaleX(220)
           y356 == ScaleY(356)
           y34 == ScaleY(34)
<1>1. w \in Nat /\ w > 1 /\ h \in Nat /\ h > 1 /\ Margin \in Nat /\ Margin >= 3
  BY PanelFits
<1>2. /\ xc \in Nat /\ 800 * xc <= c * w /\ c * w < 800 * xc + 800
      /\ x220 \in Nat /\ 800 * x220 <= 220 * w /\ 220 * w < 800 * x220 + 800
      /\ y356 \in Nat /\ 480 * y356 <= 356 * h /\ 356 * h < 480 * y356 + 480
      /\ y34 \in Nat /\ 480 * y34 <= 34 * h /\ 34 * h < 480 * y34 + 480
  BY Scaled
<1>3. Button(name, page, c) = Area(name, {page}, xc, y356, x220, y34)
  BY DEF Button
<1> HIDE DEF w, h, xc, x220, y356, y34
<1>4. NearX(c, xc) /\ NearX(c + 220, xc + x220)
  <2>1. CASE c = 48
    BY <1>1, <1>2, <2>1 DEF NearX, w
  <2>2. CASE c = 290
    BY <1>1, <1>2, <2>2 DEF NearX, w
  <2>3. CASE c = 532
    BY <1>1, <1>2, <2>3 DEF NearX, w
  <2> QED
    BY <2>1, <2>2, <2>3
<1>5. NearY(356, y356) /\ NearY(356 + 34, y356 + y34)
  BY <1>1, <1>2 DEF NearY, h
<1> QED
  BY <1>3, <1>4, <1>5 DEF SpansX, SpansY, Area

\* A pixel on or past an edge of the layout is on or past its picture's, but for Margin.
LEMMA EdgeAgrees ==
    ASSUME NEW base \in Nat \ {0}, NEW size \in Nat \ {0}, NEW p \in Nat,
           NEW e \in Nat, NEW g \in Int, NEW m \in Nat,
           base * (g - m - 1) < e * size, e * size <= base * (g + m)
    PROVE  /\ (p * base) \div size >= e => p >= g - m
           /\ p >= g + m => (p * base) \div size >= e
<1> DEFINE q == (p * base) \div size
           r == (p * base) % size
<1>1. p * base \in Nat /\ base * p = p * base
  OBVIOUS
<1>2. q \in Nat /\ r \in 0..(size - 1) /\ p * base = size * q + r
  BY <1>1
<1> HIDE DEF q, r
<1>3. size * q \in Nat /\ size * e \in Nat /\ size * e = e * size
      /\ size * (q + 1) = size * q + size
  BY <1>2
<1>4. ASSUME q >= e, p < g - m PROVE FALSE
  <2>1. size * e <= size * q
    BY <1>2, <1>4
  <2>2. base * p <= base * (g - m - 1)
    BY <1>4
  <2>3. base * (g - m - 1) \in Int
    OBVIOUS
  <2> QED
    BY <1>1, <1>2, <1>3, <2>1, <2>2, <2>3
<1>5. ASSUME p >= g + m, q < e PROVE FALSE
  <2>1. size * (q + 1) <= size * e
    BY <1>2, <1>5
  <2>2. base * (g + m) <= base * p
    BY <1>5
  <2>3. base * (g + m) \in Int
    OBVIOUS
  <2> QED
    BY <1>1, <1>2, <1>3, <2>1, <2>2, <2>3
<1>6. (q >= e => p >= g - m) /\ (p >= g + m => q >= e)
  BY <1>2, <1>4, <1>5
<1> QED
  BY <1>6 DEF q

\* Every button that answers has its picture, and every picture a button.
LEMMA AllPictured ==
    ASSUME panel \in Panels
    PROVE  /\ \A a \in Areas : \E b \in Drawn : Pictured(a, b)
           /\ \A b \in Drawn : \E a \in Areas : Pictured(a, b)
<1>1. /\ Pictured(Area("main", Pages, 46, 416, 168, 28), Nav("main", 0))
      /\ Pictured(Area("fft", Pages, 226, 416, 168, 28), Nav("fft", 1))
      /\ Pictured(Area("hold", Pages, 406, 416, 168, 28), Nav("hold", 2))
      /\ Pictured(Area("scope", Pages, 586, 416, 168, 28), Nav("scope", 3))
  <2>1. ASSUME NEW i \in 0..3, NEW name
        PROVE  Pictured(Area(name, Pages, 46 + 180 * i, 416, 168, 28), Nav(name, i))
    <3>1. /\ Area(name, Pages, 46 + 180 * i, 416, 168, 28).name = Nav(name, i).name
          /\ Area(name, Pages, 46 + 180 * i, 416, 168, 28).on = Nav(name, i).on
      BY DEF Area, Nav
    <3> QED
      BY <3>1, NavNear DEF Pictured
  <2> QED
    BY <2>1
<1>2. /\ Pictured(Area("voltage", {"fft"}, 564, 150, 92, 30), Tab("voltage", 516))
      /\ Pictured(Area("current", {"fft"}, 664, 150, 92, 30), Tab("current", 616))
  <2>1. ASSUME NEW c \in {516, 616}, NEW name
        PROVE  Pictured(Area(name, {"fft"}, c + 48, 150, 92, 30), Tab(name, c))
    <3>1. /\ Area(name, {"fft"}, c + 48, 150, 92, 30).name = Tab(name, c).name
          /\ Area(name, {"fft"}, c + 48, 150, 92, 30).on = Tab(name, c).on
      BY DEF Area, Tab
    <3> QED
      BY <3>1, TabNear DEF Pictured
  <2> QED
    BY <2>1
<1>3. /\ Pictured(Area("max", {"hold"}, 48, 356, 220, 34), Button("max", "hold", 48))
      /\ Pictured(Area("min", {"hold"}, 290, 356, 220, 34), Button("min", "hold", 290))
      /\ Pictured(Area("freeze", {"hold"}, 532, 356, 220, 34), Button("freeze", "hold", 532))
      /\ Pictured(Area("run", {"scope"}, 532, 356, 220, 34), Button("run", "scope", 532))
      /\ Pictured(Area("edge", {"scope"}, 290, 356, 220, 34), Button("edge", "scope", 290))
  <2>1. ASSUME NEW c \in {48, 290, 532}, NEW name, NEW page
        PROVE  Pictured(Area(name, {page}, c, 356, 220, 34), Button(name, page, c))
    <3>1. /\ Area(name, {page}, c, 356, 220, 34).name = Button(name, page, c).name
          /\ Area(name, {page}, c, 356, 220, 34).on = Button(name, page, c).on
      BY DEF Area, Button
    <3> QED
      BY <3>1, ButtonNear DEF Pictured
  <2> QED
    BY <2>1
<1>4. ASSUME NEW a \in Areas PROVE \E b \in Drawn : Pictured(a, b)
  BY <1>1, <1>2, <1>3, <1>4 DEF Areas, Drawn
<1>5. ASSUME NEW b \in Drawn PROVE \E a \in Areas : Pictured(a, b)
  BY <1>1, <1>2, <1>3, <1>5 DEF Areas, Drawn
<1> QED
  BY <1>4, <1>5

\* A picture is a rectangle of pixels.
LEMMA DrawnIsArea ==
    ASSUME panel \in Panels, NEW b \in Drawn
    PROVE  /\ b = [name |-> b.name, on |-> b.on, x |-> b.x, y |-> b.y, w |-> b.w, h |-> b.h]
           /\ b.x \in Int /\ b.y \in Int /\ b.w \in Int /\ b.h \in Int
<1> DEFINE IsArea(c) ==
        /\ c = [name |-> c.name, on |-> c.on, x |-> c.x, y |-> c.y, w |-> c.w, h |-> c.h]
        /\ c.x \in Int /\ c.y \in Int /\ c.w \in Int /\ c.h \in Int
<1>1. ASSUME NEW name, NEW on, NEW x \in Int, NEW y \in Int, NEW w \in Int, NEW h \in Int
      PROVE  IsArea(Area(name, on, x, y, w, h))
  BY DEF Area
<1>2. \A c \in Nat : ScaleX(c) \in Int /\ ScaleY(c) \in Int
  BY Scaled
<1>3. NavW \in Int
  BY <1>2 DEF NavW
<1> HIDE DEF IsArea
<1>4. ASSUME NEW name, NEW i \in 0..3 PROVE IsArea(Nav(name, i))
  <2>1. /\ ScaleX(34) + ScaleX(12) * (i + 1) + NavW * i \in Int
        /\ ScaleY(414) + (ScaleY(36) - ScaleY(28)) \div 2 \in Int /\ ScaleY(28) \in Int
    BY <1>2, <1>3
  <2> QED
    BY <1>1, <1>3, <2>1 DEF Nav
<1>5. ASSUME NEW name, NEW c \in Nat PROVE IsArea(Tab(name, c))
  BY <1>1, <1>2 DEF Tab
<1>6. ASSUME NEW name, NEW page, NEW c \in Nat PROVE IsArea(Button(name, page, c))
  BY <1>1, <1>2 DEF Button
<1>7. IsArea(b)
  BY <1>4, <1>5, <1>6 DEF Drawn
<1> QED
  BY <1>7 DEF IsArea

\* What is touched is a pixel of the screen.
LEMMA SpotPixel ==
    ASSUME panel \in Panels, NEW spot \in panel.spots
    PROVE  PixelX(spot[1]) \in Nat /\ PixelY(spot[2]) \in Nat
<1>1. /\ {panel.xMin, panel.xMax, panel.yMin, panel.yMax} \subseteq Int
      /\ panel.xMin < panel.xMax /\ panel.yMin < panel.yMax
      /\ spot \in (panel.xMin..panel.xMax) \X (panel.yMin..panel.yMax)
  BY PanelAssumption DEF PanelsFit
<1> DEFINE dx == spot[1] - panel.xMin
           dy == spot[2] - panel.yMin
           rx == panel.xMax - panel.xMin
           ry == panel.yMax - panel.yMin
           w == panel.width - 1
           h == panel.height - 1
<1>2. dx \in Nat /\ dy \in Nat /\ rx \in Nat \ {0} /\ ry \in Nat \ {0}
  BY <1>1
<1>3. w \in Nat /\ h \in Nat
  BY PanelFits
<1>4. PixelX(spot[1]) = (dx * w) \div rx /\ PixelY(spot[2]) = (dy * h) \div ry
  BY DEF PixelX, PixelY
<1> HIDE DEF dx, dy, rx, ry, w, h
<1>5. dx * w \in Nat /\ dy * h \in Nat
  BY <1>2, <1>3
<1> QED
  BY <1>2, <1>4, <1>5

\* A pixel that hits a button's picture but for Margin hits the button, and the other
\* way around.
LEMMA HitsAgree ==
    ASSUME panel \in Panels, NEW spot \in panel.spots, NEW a \in Areas, NEW b \in Drawn,
           Pictured(a, b)
    PROVE  LET x == BaseX(spot[1])  y == BaseY(spot[2])
               px == PixelX(spot[1])  py == PixelY(spot[2])
           IN  /\ Hit(a, x, y) => Hit(Grown(b, Margin), px, py)
               /\ Hit(Grown(b, -Margin), px, py) => Hit(a, x, y)
<1> DEFINE x == BaseX(spot[1])
           y == BaseY(spot[2])
           px == PixelX(spot[1])
           py == PixelY(spot[2])
<1>1. px \in Nat /\ py \in Nat
  BY SpotPixel
<1>2. a.x \in Nat /\ a.y \in Nat /\ a.w \in Nat /\ a.h \in Nat
  BY DEF Areas, Area
<1>3. b.x \in Int /\ b.y \in Int /\ b.w \in Int /\ b.h \in Int
  BY DrawnIsArea
<1> DEFINE wide == Grown(b, Margin)
           narrow == Grown(b, -Margin)
<1>4. /\ wide.x = b.x - Margin /\ wide.x + wide.w = b.x + b.w + Margin
       /\ wide.y = b.y - Margin /\ wide.y + wide.h = b.y + b.h + Margin
       /\ narrow.x = b.x + Margin /\ narrow.x + narrow.w = b.x + b.w - Margin
       /\ narrow.y = b.y + Margin /\ narrow.y + narrow.h = b.y + b.h - Margin
  <2>1. ASSUME NEW m \in Int
        PROVE  LET c == Grown(b, m) IN
               /\ c.x = b.x - m /\ c.x + c.w = b.x + b.w + m
               /\ c.y = b.y - m /\ c.y + c.h = b.y + b.h + m
    <3> DEFINE c == Grown(b, m)
    <3>1. c.x = b.x - m /\ c.y = b.y - m /\ c.w = b.w + 2 * m /\ c.h = b.h + 2 * m
      BY DrawnIsArea DEF Grown
    <3> HIDE DEF c
    <3>2. c.x + c.w = b.x + b.w + m /\ c.y + c.h = b.y + b.h + m
      BY <1>3, <3>1
    <3> QED
      BY <3>1, <3>2 DEF c
  <2>2. Margin \in Int /\ -Margin \in Int
    BY PanelFits
  <2>3. /\ wide.x = b.x - Margin /\ wide.x + wide.w = b.x + b.w + Margin
        /\ wide.y = b.y - Margin /\ wide.y + wide.h = b.y + b.h + Margin
    BY <2>1, <2>2
  <2>4. /\ narrow.x = b.x - (-Margin) /\ narrow.x + narrow.w = b.x + b.w + (-Margin)
        /\ narrow.y = b.y - (-Margin) /\ narrow.y + narrow.h = b.y + b.h + (-Margin)
    BY <2>1, <2>2
  <2> HIDE DEF wide, narrow
  <2> QED
    BY <1>3, <2>2, <2>3, <2>4
<1> HIDE DEF wide, narrow
<1>5. x = (px * 800) \div panel.width /\ y = (py * 480) \div panel.height
  BY DEF BaseX, BaseY
<1>6. NearX(a.x, b.x) /\ NearX(a.x + a.w, b.x + b.w) /\ NearY(a.y, b.y) /\ NearY(a.y + a.h, b.y + b.h)
  BY DEF Pictured, SpansX, SpansY
<1> HIDE DEF x, y, px, py
<1>7. ASSUME NEW e \in Nat, NEW g \in Int, NearX(e, g)
      PROVE  (x >= e => px >= g - Margin) /\ (px >= g + Margin => x >= e)
  BY <1>1, <1>5, <1>7, PanelFits, EdgeAgrees DEF NearX
<1>8. ASSUME NEW e \in Nat, NEW g \in Int, NearY(e, g)
      PROVE  (y >= e => py >= g - Margin) /\ (py >= g + Margin => y >= e)
  BY <1>1, <1>5, <1>8, PanelFits, EdgeAgrees DEF NearY
<1>9. x \in Int /\ y \in Int /\ Margin \in Nat
  BY <1>1, <1>5, PanelFits
<1>10. /\ x >= a.x => px >= b.x - Margin
       /\ px >= b.x + Margin => x >= a.x
       /\ x >= a.x + a.w => px >= b.x + b.w - Margin
       /\ px >= b.x + b.w + Margin => x >= a.x + a.w
  <2> DEFINE e == a.x + a.w
             g == b.x + b.w
  <2>1. e \in Nat /\ g \in Int
    BY <1>2, <1>3
  <2>2. NearX(e, g)
    BY <1>6
  <2> HIDE DEF e, g
  <2>3. (x >= e => px >= g - Margin) /\ (px >= g + Margin => x >= e)
    BY <1>7, <2>1, <2>2
  <2>4. (x >= a.x => px >= b.x - Margin) /\ (px >= b.x + Margin => x >= a.x)
    BY <1>2, <1>3, <1>6, <1>7
  <2> QED
    BY <1>3, <1>9, <2>3, <2>4 DEF e, g
<1>11. /\ y >= a.y => py >= b.y - Margin
       /\ py >= b.y + Margin => y >= a.y
       /\ y >= a.y + a.h => py >= b.y + b.h - Margin
       /\ py >= b.y + b.h + Margin => y >= a.y + a.h
  <2> DEFINE e == a.y + a.h
             g == b.y + b.h
  <2>1. e \in Nat /\ g \in Int
    BY <1>2, <1>3
  <2>2. NearY(e, g)
    BY <1>6
  <2> HIDE DEF e, g
  <2>3. (y >= e => py >= g - Margin) /\ (py >= g + Margin => y >= e)
    BY <1>8, <2>1, <2>2
  <2>4. (y >= a.y => py >= b.y - Margin) /\ (py >= b.y + Margin => y >= a.y)
    BY <1>2, <1>3, <1>6, <1>8
  <2> QED
    BY <1>3, <1>9, <2>3, <2>4 DEF e, g
<1>12. Hit(a, x, y) => Hit(wide, px, py)
  BY <1>1, <1>2, <1>3, <1>9, <1>10, <1>11, <1>4 DEF Hit
<1>13. Hit(narrow, px, py) => Hit(a, x, y)
  BY <1>1, <1>2, <1>3, <1>9, <1>10, <1>11, <1>4 DEF Hit
<1> QED
  BY <1>12, <1>13 DEF x, y, px, py, wide, narrow

\* Buttons answer where their pictures are, for any panel, wherever it is touched.
LEMMA ButtonsAnswer == ASSUME panel \in Panels PROVE PicturesAnswer
<1> SUFFICES ASSUME NEW spot \in panel.spots
             PROVE  LET at == Finger(spot, TRUE)
                        hit == Buttons(BaseX(at.x), BaseY(at.y))
                    IN  /\ hit = {} => OnDrawn(at, -Margin) = {}
                        /\ \A a \in hit : \E b \in OnDrawn(at, Margin) : b.name = a.name
  BY DEF PicturesAnswer
<1> DEFINE at == Finger(spot, TRUE)
           hit == Buttons(BaseX(at.x), BaseY(at.y))
<1>1. at.x = spot[1] /\ at.y = spot[2]
  BY DEF Finger
<1> HIDE DEF at
<1>2. ASSUME NEW a \in hit PROVE \E b \in OnDrawn(at, Margin) : b.name = a.name
  <2>1. a \in Areas /\ look.page \in a.on /\ Hit(a, BaseX(spot[1]), BaseY(spot[2]))
    BY <1>1 DEF Buttons
  <2>2. PICK b \in Drawn : Pictured(a, b)
    BY <2>1, AllPictured
  <2>3. b.on = a.on /\ b.name = a.name
    BY <2>2 DEF Pictured
  <2>4. Hit(Grown(b, Margin), PixelX(spot[1]), PixelY(spot[2]))
    BY <2>1, <2>2, HitsAgree
  <2> QED
    BY <1>1, <2>1, <2>3, <2>4 DEF OnDrawn
<1>3. ASSUME NEW b \in OnDrawn(at, -Margin) PROVE hit # {}
  <2>1. b \in Drawn /\ look.page \in b.on
        /\ Hit(Grown(b, -Margin), PixelX(spot[1]), PixelY(spot[2]))
    BY <1>1 DEF OnDrawn
  <2>2. PICK a \in Areas : Pictured(a, b)
    BY <2>1, AllPictured
  <2>3. b.on = a.on
    BY <2>2 DEF Pictured
  <2>4. Hit(a, BaseX(spot[1]), BaseY(spot[2]))
    BY <2>1, <2>2, HitsAgree
  <2> QED
    BY <1>1, <2>1, <2>3, <2>4 DEF Buttons
<1> HIDE DEF hit
<1> QED
  BY <1>2, <1>3 DEF at, hit

-----------------------------------------------------------------------------
(* The theorems about input and redraws.                                   *)

\* The input is right about what no packet in the queue will change, and a picture
\* out of date is always accounted for.
THEOREM InputInductive == Spec => []IInv
<1>1. Init => IInv
  BY UIInit
<1>2. IInv /\ [Next]_vars => IInv'
  <2> SUFFICES ASSUME IInv, [Next]_vars PROVE IInv'
    OBVIOUS
  <2>1. CASE Touch
    BY <2>1, UITouch
  <2>2. CASE Loop
    BY <2>2, UIReadPacket, UITurn DEF Loop
  <2>3. CASE UNCHANGED vars
    <3>1. /\ UNCHANGED <<panel, finger, queue, touches, input, seen, look, read, source, stale>>
          /\ UNCHANGED <<dirty, pc, need, shown, missed>>
      BY <2>3 DEF vars, kernelVars, inputVars, drawVars
    <3>2. TypeOK'
      BY <3>1 DEF IInv, TypeOK, Slots, Fingers
    <3> QED
      BY <3>1, <3>2, UIFrame DEF IInv, LoopInv, NothingForgotten
  <2> QED
    BY <2>1, <2>2, <2>3 DEF Next
<1> QED
  BY <1>1, <1>2, PTL DEF Spec

\* However packets are lost in an overflow and fingers share touch_down and the raw
\* coordinates, what is reported from then on is right again.
THEOREM InputCorrect == Spec => []InputSettles
<1>1. ASSUME IInv PROVE InputSettles
  <2> SUFFICES ASSUME queue = << >>, NEW f \in Fields \ stale
               PROVE  input[f] = finger[source[f]][f]
    BY DEF InputSettles
  <2>1. source[f] \in Slots
    BY <1>1 DEF IInv, TypeOK
  <2>2. LastReport(0, source[f], f)
    BY DEF LastReport
  <2> QED
    BY <1>1, <2>1, <2>2 DEF IInv, InputInv
<1> QED
  BY <1>1, InputInductive, PTL

\* No tap's effect is forgotten between dirty, need_redraw and the flip.
THEOREM RedrawsRemembered == Spec => []NothingForgotten
<1>1. IInv => NothingForgotten
  BY DEF IInv
<1> QED
  BY <1>1, InputInductive, PTL

\* Wherever a panel of any size, with any range of raw coordinates, is touched, the
\* button that answers is the one whose picture is there.
THEOREM PicturesCorrect == Spec => []PicturesAnswer
<1>1. IInv => PicturesAnswer
  BY ButtonsAnswer DEF IInv, TypeOK
<1> QED
  BY <1>1, InputInductive, PTL

\* A tap does what the picture says, once, for any fingers, losses and order of
\* packets and turns, short of what Known rules out.
THEOREM TapsCorrect == Spec => TapsExact
<1> DEFINE Exact ==
        \A s \in Slots : ReadPacket /\ Known(Head(queue), s) =>
            LET at == Head(queue).at[s]
                pressed == at.down /\ \A t \in Slots : ~read[t].down
            IN  \/ look' = look /\ (pressed => OnDrawn(at, -Margin) = {})
                \/ pressed /\ \E b \in OnDrawn(at, Margin) : look' = Press(look, b.name)
<1>1. IInv /\ PicturesAnswer => Exact
  BY UITap
<1>2. TapsExact <=> [][Exact]_vars
  BY DEF TapsExact
<1> HIDE DEF Exact
<1> QED
  BY <1>1, <1>2, InputInductive, PicturesCorrect, PTL
=============================================================================

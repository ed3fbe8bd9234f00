-------------------------- MODULE FrameFeedProofs --------------------------
(***************************************************************************)
(* Proofs about FrameFeed, for any frame size and any number of frames.    *)
(***************************************************************************)
EXTENDS FrameFeed, TLAPS

LEMMA InitInv == Init => IInv
<1> USE WordsAssumption, FeedBoundAssumption DEF Init, Blank, Word, Frames
<1>1. Init => TypeOK
  <2>1. Blank \in [Word -> Frames] /\ 0 \in Frames /\ 0 \in 0..Words
    OBVIOUS
  <2>2. Init => /\ latest \in [Word -> Frames] /\ out \in [Word -> Frames]
                /\ pushed \in [Word -> Frames]
    BY <2>1
  <2>3. Init => /\ completed \in Frames /\ written \in 0..Words /\ copied \in 0..Words
                /\ seen \in Frames /\ last \in Frames /\ firstCount \in Frames /\ times \in Nat
    BY <2>1
  <2>4. Init => /\ lock \in {"free", "worker", "main"} /\ latestValid \in BOOLEAN
                /\ mpc = "firstCopy" /\ running \in BOOLEAN
    OBVIOUS
  <2> QED
    BY <2>2, <2>3, <2>4 DEF TypeOK
<1>2. Init => LatestInv BY DEF LatestInv, Copying
<1>3. Init => OutInv BY DEF OutInv, Copying, NoTornFrame, OnlyFullFrames
<1>4. Init => CountInv BY DEF CountInv, AtMostTwice
<1> QED BY <1>1, <1>2, <1>3, <1>4 DEF IInv

-----------------------------------------------------------------------------
(* The worker's steps.                                                     *)

LEMMA WorkerLockInv == ASSUME IInv, WorkerLock PROVE IInv'
BY WordsAssumption
DEF IInv, TypeOK, LatestInv, OutInv, CountInv, WorkerLock, workerVars, loopVars, pushVars,
    Copying, NoTornFrame, OnlyFullFrames, FrameDue, AtMostTwice

LEMMA WorkerWriteInv == ASSUME IInv, WorkerWrite PROVE IInv'
<1> USE WordsAssumption, FeedBoundAssumption
    DEF IInv, WorkerWrite, loopVars, pushVars, Word, Frames
<1>1. TypeOK'
  <2>1. completed < MaxFrames /\ written' \in 0..Words
    BY DEF TypeOK, LatestInv
  <2>2. latest' \in [1..Words -> 0..MaxFrames]
    BY <2>1 DEF TypeOK
  <2> QED
    BY <2>1, <2>2 DEF TypeOK
<1>2. LatestInv' BY DEF TypeOK, LatestInv, Copying
<1>3. OutInv' BY DEF TypeOK, LatestInv, OutInv, Copying, NoTornFrame, OnlyFullFrames
<1>4. CountInv' BY DEF CountInv, FrameDue, AtMostTwice
<1> QED BY <1>1, <1>2, <1>3, <1>4

LEMMA WorkerCountInv == ASSUME IInv, WorkerCount PROVE IInv'
<1> USE WordsAssumption, FeedBoundAssumption
    DEF IInv, WorkerCount, Validates, loopVars, pushVars, Word, Frames
<1>1. TypeOK'
  <2>1. completed' \in Frames /\ written' \in 0..Words
    BY DEF TypeOK, LatestInv
  <2>2. latestValid' \in BOOLEAN /\ lock' \in {"free", "worker", "main"}
    BY DEF TypeOK
  <2> QED
    BY <2>1, <2>2 DEF TypeOK
<1>2. LatestInv' BY DEF TypeOK, LatestInv, Copying
<1>3. OutInv' BY DEF TypeOK, LatestInv, OutInv, Copying, NoTornFrame, OnlyFullFrames
<1>4. CountInv' BY DEF TypeOK, CountInv, FrameDue, AtMostTwice
<1> QED BY <1>1, <1>2, <1>3, <1>4

-----------------------------------------------------------------------------
(* The main thread's steps.                                                *)

\* What the main thread does between two copies changes neither the frame nor
\* what was pushed.
Quiet ==
    FirstCopyNothing \/ FirstCopySkipped \/ FirstCount \/ Count \/ Input \/ FeedSkip
    \/ FeedNothing \/ Stop \/ UNCHANGED vars

LEMMA QuietInv == ASSUME IInv, Quiet PROVE IInv'
<1> USE WordsAssumption, FeedBoundAssumption
    DEF Quiet, FirstCopyNothing, FirstCopySkipped, FirstCount, Count, Input, FeedSkip,
        FeedNothing, CopyNothing, Stop, vars, Goto, workerVars, loopVars, pushVars, IInv
<1>1. TypeOK' BY DEF TypeOK
<1>2. LatestInv' BY DEF LatestInv, Copying
<1>3. OutInv' BY DEF OutInv, Copying, NoTornFrame, OnlyFullFrames
<1>4. pushed[1] \in Int
  BY DEF TypeOK, Word, Frames
<1>5. CountInv'
  <2>1. CASE FirstCopyNothing \/ FirstCopySkipped \/ FirstCount
    BY <2>1, <1>4 DEF TypeOK, Frames, OutInv, CountInv, AtMostTwice
  <2>2. CASE Count \/ Input \/ FeedSkip
    BY <2>2, <1>4 DEF TypeOK, Frames, OutInv, CountInv, AtMostTwice
  <2>3. CASE FeedNothing
    BY <2>3, <1>4 DEF TypeOK, Frames, OutInv, CountInv, AtMostTwice, FrameDue
  <2>4. CASE Stop \/ UNCHANGED vars
    BY <2>4, <1>4 DEF CountInv, AtMostTwice, FrameDue
  <2> QED
    BY <2>1, <2>2, <2>3, <2>4
<1> QED BY <1>1, <1>2, <1>3, <1>5

LEMMA CopyBeginInv == ASSUME IInv, FirstCopyBegin \/ FeedBegin PROVE IInv'
<1> USE WordsAssumption, FeedBoundAssumption
    DEF FirstCopyBegin, FeedBegin, CopyBegin, Goto, workerVars, loopVars, pushVars, IInv
<1>1. TypeOK' BY DEF TypeOK
<1>2. LatestInv' BY DEF LatestInv, Copying
<1>3. OutInv' BY DEF OutInv, Copying, NoTornFrame, OnlyFullFrames
<1>4. CountInv' BY DEF CountInv, FrameDue, AtMostTwice
<1> QED BY <1>1, <1>2, <1>3, <1>4

LEMMA CopyWordInv == ASSUME IInv, CopyWord PROVE IInv'
<1> USE WordsAssumption, FeedBoundAssumption
    DEF CopyWord, workerVars, loopVars, pushVars, Word, Frames, IInv
<1>1. TypeOK' BY DEF TypeOK
<1>2. LatestInv' BY DEF LatestInv, Copying
<1>3. OutInv' BY DEF TypeOK, LatestInv, OutInv, Copying, NoTornFrame, OnlyFullFrames
<1>4. CountInv' BY DEF CountInv, FrameDue, AtMostTwice
<1> QED BY <1>1, <1>2, <1>3, <1>4

\* A push gives the history one whole frame, the newest, and only a frame whose
\* count was not yet reached is pushed again.
LEMMA PushInv == ASSUME IInv, FirstPush \/ FeedPush PROVE IInv'
<1> USE WordsAssumption, FeedBoundAssumption
    DEF FirstPush, FeedPush, CopyEnd, Push, Goto, workerVars, loopVars, Word, Frames, IInv
<1>1. fullTransfer /\ completed > 0 /\ \A w \in Word : latest[w] = completed
  BY DEF TypeOK, LatestInv, OutInv, Copying
<1>2. 1 \in Word /\ Words \in Word /\ completed \in Nat /\ pushed[1] \in Int
  BY DEF TypeOK
<1>3. pushed' = out' /\ times' = IF out' = pushed THEN times + 1 ELSE 1
  OBVIOUS
<1>4. out' \in [Word -> Frames] /\ \A w \in Word : out'[w] = completed
  <2>1. out' = [out EXCEPT ![Words] = latest[Words]] /\ copied = Words - 1
    OBVIOUS
  <2>2. completed \in Frames /\ out \in [Word -> Frames] /\ \A w \in 1..copied : out[w] = completed
    BY DEF TypeOK, OutInv, Copying
  <2> HIDE DEF FirstPush, FeedPush, IInv, Frames
  <2> QED
    BY <1>1, <1>2, <2>1, <2>2
<1> HIDE DEF CopyEnd, Push
<1>5. times \in Nat
  BY DEF TypeOK
<1>6. /\ pushed'[1] = completed
      /\ times' = 1 \/ (times' = times + 1 /\ pushed[1] = completed)
  <2>1. out'[1] = completed
    BY <1>2, <1>4
  <2>2. CASE out' = pushed
    BY <1>3, <2>1, <2>2
  <2>3. CASE out' # pushed
    BY <1>3, <2>1, <2>3
  <2> QED
    BY <2>2, <2>3
<1> USE DEF CopyEnd
<1>7. TypeOK'
  <2>1. times' \in Nat
    BY <1>5, <1>6
  <2>2. pushed' \in [Word -> Frames]
    BY <1>3, <1>4
  <2>3. lock' = "free" /\ copied' = 0 /\ mpc' \in {"firstCount", "count"} /\ last' \in Frames
    BY DEF TypeOK
  <2>4. UNCHANGED <<workerVars, seen, running, firstCount>>
    OBVIOUS
  <2> HIDE DEF FirstPush, FeedPush, CopyEnd, Frames
  <2> QED
    BY <1>4, <2>1, <2>2, <2>3, <2>4 DEF TypeOK
<1>8. LatestInv'
  BY DEF LatestInv, Copying
<1>9. OutInv'
  <2>1. NoTornFrame'
    BY <1>3, <1>4 DEF NoTornFrame
  <2>2. OnlyFullFrames'
    BY <1>1, <1>6 DEF OnlyFullFrames
  <2> QED
    BY <1>2, <1>6, <2>1, <2>2 DEF OutInv, Copying
<1>10. CountInv'
  <2>1. CASE FirstPush
    <3>1. times = 0 /\ times' = 1
      BY <1>5, <1>6, <2>1 DEF CountInv, OutInv, OnlyFullFrames, TypeOK
    <3> QED
      BY <2>1, <3>1 DEF CountInv, AtMostTwice
  <2>2. CASE FeedPush
    <3>1. /\ seen # last /\ last <= seen /\ pushed[1] <= seen /\ seen <= completed
          /\ times \in Nat /\ times <= 2 /\ (times = 2 => last >= pushed[1])
      BY <2>2 DEF TypeOK, CountInv, FrameDue, AtMostTwice
    <3>2. seen \in Nat /\ last \in Nat
      BY DEF TypeOK
    <3>3. times' <= 2 /\ (times' = 2 => seen = completed)
      BY <1>2, <1>6, <3>1, <3>2
    <3> QED
      BY <2>2, <1>2, <1>6, <3>1, <3>2, <3>3 DEF CountInv, AtMostTwice
  <2> QED
    BY <2>1, <2>2
<1> QED BY <1>7, <1>8, <1>9, <1>10

-----------------------------------------------------------------------------
(* The theorems.                                                           *)

\* Lock, copies and counts at every step of worker and main loop.
THEOREM Inductive == Spec => []IInv
<1>1. IInv /\ [Next]_vars => IInv'
  BY WorkerLockInv, WorkerWriteInv, WorkerCountInv, QuietInv, CopyBeginInv, CopyWordInv,
     PushInv
  DEF Next, Worker, Main, Stopped, Quiet
<1> QED
  BY InitInv, <1>1, PTL DEF Spec

\* Every frame in the history is one frame, received whole.
THEOREM FramesAreWhole == Spec => []WholeFrames
<1>1. IInv => WholeFrames
  BY DEF IInv, OutInv, WholeFrames
<1> QED
  BY <1>1, Inductive, PTL

\* No frame is pushed more than twice in a row.
THEOREM FewDuplicates == Spec => []AtMostTwice
<1>1. IInv => AtMostTwice
  BY DEF IInv, CountInv
<1> QED
  BY <1>1, Inductive, PTL
=============================================================================

----------------------------- MODULE FrameFeed -----------------------------
(***************************************************************************)
(* How a received frame gets from the scope engine's worker thread to the  *)
(* scope history of the main loop (dma_s2mm_linux.c and modeset_draw).     *)
(*                                                                         *)
(* The worker publishes a frame, word by word, and counts it under         *)
(* dma->lock.  The main loop reads the count in one critical section and   *)
(* copies the frame in a later one; it copies only when the count it read  *)
(* differs from the one of its last copy.  Frames are numbered in the      *)
(* order of their transfers, 0 stands for the zeroed buffer.               *)
(***************************************************************************)
EXTENDS Integers

CONSTANTS
    Words,         \* DMA_S2MM_FRAME_WORDS
    MaxFrames      \* bound on the frames the hardware delivers

ASSUME WordsAssumption == Words \in Nat \ {0}
ASSUME FeedBoundAssumption == MaxFrames \in Nat

VARIABLES
    lock,          \* who holds dma->lock: "free", "worker" or "main"
    latest,        \* latest_frame, which frame each word is of
    latestValid,   \* latest_valid
    completed,     \* completed_count
    fullTransfer,  \* AXIDMA_RX_BYTES >= DMA_S2MM_FRAME_BYTES, fixed by the build
    written,       \* words of latest_frame the worker has written, under the lock
    mpc,           \* where the main thread is
    out,           \* latest_scope_frame
    copied,        \* words of it the main thread has copied, under the lock
    seen,          \* scope_dma_completed
    last,          \* last_scope_dma_completed
    running,       \* scope_view.running
    pushed,        \* history: the frame pushed last, word by word, 0 for none
    times,         \* history: how many times in a row it was pushed
    firstCount     \* history: the count the loop started from

workerVars == <<latest, latestValid, completed, written, fullTransfer>>
loopVars == <<seen, last, running, firstCount>>
pushVars == <<pushed, times>>
vars == <<lock, workerVars, mpc, out, copied, loopVars, pushVars>>

Word == 1..Words
Blank == [w \in Word |-> 0]

Init ==
    /\ lock = "free" /\ latest = Blank /\ latestValid = FALSE
    /\ completed = 0 /\ written = 0 /\ fullTransfer \in BOOLEAN
    /\ mpc = "firstCopy" /\ out = Blank /\ copied = 0
    /\ seen = 0 /\ last = 0 /\ running = TRUE
    /\ pushed = Blank /\ times = 0 /\ firstCount = 0

-----------------------------------------------------------------------------
(* The worker: dma_note_success for frame completed + 1.                   *)

\* Fault: the worker publishes without asking for the lock.
WorkerLockIgnored ==
    /\ lock # "worker" /\ completed < MaxFrames
    /\ lock' = "worker"
    /\ UNCHANGED <<workerVars, mpc, out, copied, loopVars, pushVars>>

WorkerLock ==
    /\ lock = "free" /\ completed < MaxFrames
    /\ lock' = "worker"
    /\ UNCHANGED <<workerVars, mpc, out, copied, loopVars, pushVars>>

WorkerWrite ==
    /\ lock = "worker" /\ fullTransfer /\ written < Words
    /\ latest' = [latest EXCEPT ![written + 1] = completed + 1]
    /\ written' = written + 1
    /\ UNCHANGED <<lock, latestValid, completed, fullTransfer, mpc, out, copied>>
    /\ UNCHANGED <<loopVars, pushVars>>

\* Fault: every counted transfer makes the frame valid.
ValidatesAlways == TRUE
Validates == fullTransfer

WorkerCount ==
    /\ lock = "worker" /\ (fullTransfer => written = Words)
    /\ IF Validates THEN latestValid' = TRUE ELSE UNCHANGED latestValid
    /\ completed' = completed + 1
    /\ written' = 0
    /\ lock' = "free"
    /\ UNCHANGED <<latest, fullTransfer, mpc, out, copied, loopVars, pushVars>>

Worker == WorkerLock \/ WorkerWrite \/ WorkerCount

-----------------------------------------------------------------------------
(* The main thread.                                                        *)

Goto(from, to) == mpc = from /\ mpc' = to

\* A frame held in out goes to the history; out is complete at that point.
Push == /\ pushed' = out'
        /\ times' = IF out' = pushed THEN times + 1 ELSE 1

\* dma_copy_latest_frame_state takes the lock and finds no frame yet.
CopyNothing(from, to) ==
    /\ Goto(from, to) /\ lock = "free" /\ ~latestValid
    /\ UNCHANGED <<lock, workerVars, out, copied, pushVars>>

CopyBegin(from, to) ==
    /\ Goto(from, to) /\ lock = "free" /\ latestValid
    /\ lock' = "main" /\ copied' = 0
    /\ UNCHANGED <<workerVars, out, loopVars, pushVars>>

CopyWord ==
    /\ mpc \in {"firstPush", "push"} /\ copied < Words - 1
    /\ out' = [out EXCEPT ![copied + 1] = latest[copied + 1]]
    /\ copied' = copied + 1
    /\ UNCHANGED <<lock, workerVars, mpc, loopVars, pushVars>>

\* The last word, the unlock, and the push, which only the main thread sees.
CopyEnd(from, to) ==
    /\ Goto(from, to) /\ copied = Words - 1
    /\ out' = [out EXCEPT ![Words] = latest[Words]]
    /\ Push
    /\ lock' = "free" /\ copied' = 0
    /\ UNCHANGED workerVars

\* modeset_draw before the loop: one frame if there is one, then the count.
FirstCopyNothing == CopyNothing("firstCopy", "firstCount") /\ UNCHANGED loopVars
FirstCopyBegin == CopyBegin("firstCopy", "firstPush")
FirstPush == CopyEnd("firstPush", "firstCount") /\ UNCHANGED loopVars

\* power_model_step gave nothing: the first copy is skipped.
FirstCopySkipped ==
    /\ Goto("firstCopy", "firstCount")
    /\ UNCHANGED <<lock, workerVars, out, copied, loopVars, pushVars>>

FirstCount ==
    /\ Goto("firstCount", "count") /\ lock = "free"
    /\ last' = completed /\ firstCount' = completed
    /\ UNCHANGED <<lock, workerVars, out, copied, seen, running, pushVars>>

\* The loop: the count is read first, ...
Count ==
    /\ Goto("count", "input") /\ lock = "free"
    /\ seen' = completed
    /\ UNCHANGED <<lock, workerVars, out, copied, last, running, firstCount, pushVars>>

\* ... a touch may start or stop the scope, ...
Input ==
    /\ Goto("input", "feed")
    /\ running' \in BOOLEAN
    /\ UNCHANGED <<lock, workerVars, out, copied, seen, last, firstCount, pushVars>>

\* ... and the frame is copied when the count moved since the last copy.
FrameDue == running /\ seen # last

\* Fault: the count is taken over while the scope is stopped.
FeedSkipTakesCount ==
    /\ Goto("feed", "count") /\ ~FrameDue
    /\ last' = seen
    /\ UNCHANGED <<lock, workerVars, out, copied, seen, running, firstCount, pushVars>>

FeedSkip ==
    /\ Goto("feed", "count") /\ ~FrameDue
    /\ UNCHANGED <<lock, workerVars, out, copied, loopVars, pushVars>>

FeedNothing ==
    /\ FrameDue /\ CopyNothing("feed", "count")
    /\ last' = seen
    /\ UNCHANGED <<seen, running, firstCount>>

FeedBegin == FrameDue /\ CopyBegin("feed", "push")

\* Fault: the count of the copied frame is not remembered.
FeedPushForgets == CopyEnd("push", "count") /\ UNCHANGED loopVars

FeedPush ==
    /\ CopyEnd("push", "count")
    /\ last' = seen
    /\ UNCHANGED <<seen, running, firstCount>>

\* SIGINT ends the loop at its test.
Stop ==
    /\ Goto("count", "stopped")
    /\ UNCHANGED <<lock, workerVars, out, copied, loopVars, pushVars>>

Stopped == mpc = "stopped" /\ UNCHANGED vars

Main ==
    \/ FirstCopyNothing \/ FirstCopyBegin \/ FirstPush \/ FirstCopySkipped
    \/ FirstCount \/ Count \/ Input \/ FeedSkip \/ FeedNothing \/ FeedBegin
    \/ CopyWord \/ FeedPush

Next == Worker \/ Main \/ Stop \/ Stopped

Spec == Init /\ [][Next]_vars

\* Both threads run, and the worker ends a critical section it has entered.
LiveSpec == Spec /\ WF_vars(Main) /\ WF_vars(WorkerWrite \/ WorkerCount)

-----------------------------------------------------------------------------
(* Properties.                                                             *)

Frames == 0..MaxFrames

TypeOK ==
    /\ lock \in {"free", "worker", "main"}
    /\ latest \in [Word -> Frames] /\ latestValid \in BOOLEAN
    /\ completed \in Frames /\ written \in 0..Words /\ fullTransfer \in BOOLEAN
    /\ mpc \in {"firstCopy", "firstPush", "firstCount", "count", "input",
                "feed", "push", "stopped"}
    /\ out \in [Word -> Frames] /\ copied \in 0..Words
    /\ seen \in Frames /\ last \in Frames /\ running \in BOOLEAN
    /\ pushed \in [Word -> Frames] /\ times \in Nat /\ firstCount \in Frames

\* A frame in the history is one frame: the lock keeps the worker's copy into
\* latest_frame and the loop's copy out of it apart.
NoTornFrame == \A v, w \in Word : pushed[v] = pushed[w]

\* The count is read before the frame is copied, so a frame that arrives in
\* between is pushed, then pushed again for its count; never a third time.
AtMostTwice == times <= 2

\* Transfers shorter than a frame are counted but leave nothing to push.
OnlyFullFrames == times > 0 => fullTransfer /\ pushed[1] > 0

\* What is in the history is whole: of one frame, and received whole.
WholeFrames == NoTornFrame /\ OnlyFullFrames

InLoop == mpc \in {"count", "input", "feed", "push"}

\* A frame counted after the loop started reaches the history (it, or a newer
\* one) while the scope keeps running; one that arrives between the first copy
\* and the first count does not, until another follows.
NewestReachesHistory ==
    fullTransfer /\ <>[](running /\ mpc # "stopped") =>
        \A n \in 1..MaxFrames :
            (completed = n /\ InLoop /\ firstCount < n) ~> (pushed[1] >= n)

-----------------------------------------------------------------------------
(* The inductive invariant.                                                *)

Copying == mpc \in {"firstPush", "push"}

\* The lock is with whoever is in a critical section; the words of latest_frame
\* are of the newest frame, or of the one after it where the worker is writing.
LatestInv ==
    /\ lock = "main" <=> Copying
    /\ IF lock = "worker" THEN completed < MaxFrames ELSE written = 0
    /\ latestValid <=> fullTransfer /\ completed > 0
    /\ fullTransfer => \A w \in Word :
          latest[w] = IF w <= written THEN completed + 1 ELSE completed

\* What the main thread has copied, and pushed, is of one frame.
OutInv ==
    /\ Copying => /\ latestValid /\ copied < Words
                  /\ \A w \in 1..copied : out[w] = completed
    /\ NoTornFrame
    /\ OnlyFullFrames
    /\ pushed[1] <= completed

\* The count of the last push is at most the one being looked at, and a frame
\* that was pushed twice has been pushed for its own count.
CountInv ==
    /\ last <= completed /\ seen <= completed
    /\ mpc \in {"firstCopy", "firstPush"} => times = 0
    /\ mpc = "firstCount" => times <= 1
    /\ mpc \in {"input", "feed", "push"} => last <= seen /\ pushed[1] <= seen
    /\ mpc = "push" => FrameDue
    /\ AtMostTwice
    /\ times = 2 => mpc # "firstCount" /\ last >= pushed[1]

IInv == TypeOK /\ LatestInv /\ OutInv /\ CountInv
=============================================================================

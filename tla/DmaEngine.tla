----------------------------- MODULE DmaEngine -----------------------------
(***************************************************************************)
(* The life cycle of the DMA receive engines of dma_s2mm_linux.c.          *)
(*                                                                         *)
(* Each engine owns a worker thread, a mutex, a set of mapped buffers and  *)
(* a share of the one AXI DMA device (g_axidma_dev, reference counted by   *)
(* g_axidma_users).  One control thread, the program's main thread, calls  *)
(* init and shutdown; the kernel driver answers the blocking transfers.    *)
(*                                                                         *)
(* Grain of atomicity: a critical section of dma->lock or g_axidma_lock is *)
(* one step; every unlocked read of stop_requested is a step of its own,   *)
(* and so is the entry to and the return from the blocking ioctl.  A racy  *)
(* read of stop_requested returns the value of some instant between the    *)
(* lock operations around it, which the interleaving of that step covers.  *)
(* Frame contents, counters and time stamps are not kept here.             *)
(***************************************************************************)
EXTENDS Integers, Sequences, FiniteSets

CONSTANTS
    Engines,      \* g_dma_main and g_dma_scope
    RxIndex,      \* the RX index each engine asks for
    RxTables,     \* the tables of RX channel ids a driver may report
    BufCount,     \* AXIDMA_BUF_COUNT
    MaxInits      \* bound on the number of init calls

ASSUME EnginesAssumption == IsFiniteSet(Engines) /\ Engines # {}
ASSUME RxAssumption == /\ RxIndex \in [Engines -> Nat]
                       /\ RxTables \subseteq Seq(Nat)
ASSUME BoundAssumption == BufCount \in Nat \ {0} /\ MaxInits \in Nat

VARIABLES
    rxChannels,     \* the RX channels the driver reports, which do not change
    device,         \* g_axidma_dev: is the shared device initialised?
    users,          \* g_axidma_users
    holders,        \* history: the engines whose acquire has no release yet
    lockInited, threadStarted, stopRequested, inTransfer,
    rxChannel,      \* the engine's channel id, NoChannel when it has none
    mapped,         \* how many of the engine's buffers are mapped
    latestValid,    \* a received frame is held
    wpc,            \* where the engine's worker thread is
    rc,             \* what the last transfer returned
    cancelled,      \* driver: the pending transfer was stopped
    cpc, cur,       \* where the control thread is, and for which engine
    sawDevice,      \* local dev of dma_shutdown_state is not NULL
    shouldStop,     \* local should_stop of dma_shutdown_state
    inits           \* init calls so far, at most MaxInits

deviceVars == <<rxChannels, device, users, holders>>
engineVars == <<lockInited, threadStarted, stopRequested, inTransfer,
                rxChannel, mapped, latestValid>>
workerVars == <<wpc, rc, cancelled>>
localVars  == <<cur, sawDevice, shouldStop, inits>>
vars == <<deviceVars, engineVars, workerVars, cpc, localVars>>

NoChannel == -1

WorkerStates == {"none", "start", "loop", "mark", "submit", "wait", "clear",
                 "check", "success", "error", "stop", "sleep", "exited", "crashed"}
InitStates == {"reset", "acquire", "probe", "alloc", "create",
               "free", "release", "unlock"}
ShutdownStates == {"readDevice", "flag", "cancel", "join", "cleanup", "put"}

Init ==
    /\ rxChannels \in RxTables
    /\ device = FALSE /\ users = 0 /\ holders = {}
    /\ lockInited = [e \in Engines |-> FALSE]
    /\ threadStarted = [e \in Engines |-> FALSE]
    /\ stopRequested = [e \in Engines |-> FALSE]
    /\ inTransfer = [e \in Engines |-> FALSE]
    /\ rxChannel = [e \in Engines |-> NoChannel]
    /\ mapped = [e \in Engines |-> 0]
    /\ latestValid = [e \in Engines |-> FALSE]
    /\ wpc = [e \in Engines |-> "none"]
    /\ rc = [e \in Engines |-> 0]
    /\ cancelled = [e \in Engines |-> FALSE]
    /\ cpc = "idle" /\ cur \in Engines
    /\ sawDevice = FALSE /\ shouldStop = FALSE /\ inits = 0

-----------------------------------------------------------------------------
(* The shared device.                                                      *)

\* Fault: only the caller that opened the device is counted.
AcquireCountsOpener(e) ==
    /\ device' = TRUE
    /\ users' = IF device THEN users ELSE users + 1
    /\ holders' = holders \cup {e}

Acquire(e) == /\ device' = TRUE
              /\ users' = users + 1
              /\ holders' = holders \cup {e}

\* Fault: the count is dropped without the test for zero.
ReleaseUnchecked(e) ==
    /\ users' = users - 1
    /\ device' = (device /\ users # 1)
    /\ holders' = holders \ {e}

\* Fault: every release destroys the device.
ReleaseDestroys(e) ==
    /\ users' = IF users > 0 THEN users - 1 ELSE users
    /\ device' = FALSE
    /\ holders' = holders \ {e}

\* The count is dropped whoever calls; the last user destroys the device.
Release(e) == /\ users' = IF users > 0 THEN users - 1 ELSE users
              /\ device' = (device /\ users # 1)
              /\ holders' = holders \ {e}

\* Fault: the stop reaches every channel.
StopAllChannels(c) ==
    cancelled' = [e \in Engines |-> cancelled[e] \/ wpc[e] = "wait"]

\* AXIDMA_STOP_DMA_CHANNEL wakes whoever waits on that channel; the ioctl does
\* not fail, as axidma_stop_transfer asserts.
StopChannel(c) ==
    cancelled' = [e \in Engines |->
        cancelled[e] \/ (wpc[e] = "wait" /\ rxChannel[e] = c)]

-----------------------------------------------------------------------------
(* The worker thread.                                                      *)

Goto(e, from, to) == wpc[e] = from /\ wpc' = [wpc EXCEPT ![e] = to]

WorkerStart(e) ==
    /\ Goto(e, "start", IF device THEN "loop" ELSE "exited")
    /\ UNCHANGED <<deviceVars, engineVars, rc, cancelled, cpc, localVars>>

WorkerLoop(e) ==
    /\ Goto(e, "loop", IF stopRequested[e] THEN "exited" ELSE "mark")
    /\ UNCHANGED <<deviceVars, engineVars, rc, cancelled, cpc, localVars>>

WorkerMark(e) ==
    /\ Goto(e, "mark", "submit")
    /\ inTransfer' = [inTransfer EXCEPT ![e] = TRUE]
    /\ UNCHANGED <<deviceVars, lockInited, threadStarted, stopRequested, rxChannel,
                   mapped, latestValid, rc, cancelled, cpc, localVars>>

\* On a destroyed device the channel lookup follows a NULL table.
WorkerSubmit(e) ==
    /\ Goto(e, "submit", IF device THEN "wait" ELSE "crashed")
    /\ cancelled' = [cancelled EXCEPT ![e] = FALSE]
    /\ UNCHANGED <<deviceVars, engineVars, rc, cpc, localVars>>

WorkerClear(e) ==
    /\ Goto(e, "clear", "check")
    /\ inTransfer' = [inTransfer EXCEPT ![e] = FALSE]
    /\ UNCHANGED <<deviceVars, lockInited, threadStarted, stopRequested, rxChannel,
                   mapped, latestValid, rc, cancelled, cpc, localVars>>

WorkerCheck(e) ==
    /\ Goto(e, "check", IF stopRequested[e] THEN "exited"
                        ELSE IF rc[e] < 0 THEN "error" ELSE "success")
    /\ UNCHANGED <<deviceVars, engineVars, rc, cancelled, cpc, localVars>>

WorkerNoteSuccess(e) ==
    /\ Goto(e, "success", "loop")
    /\ latestValid' = [latestValid EXCEPT ![e] = TRUE]
    /\ UNCHANGED <<deviceVars, lockInited, threadStarted, stopRequested, inTransfer,
                   rxChannel, mapped, rc, cancelled, cpc, localVars>>

WorkerNoteError(e) ==
    /\ Goto(e, "error", "stop")
    /\ UNCHANGED <<deviceVars, engineVars, rc, cancelled, cpc, localVars>>

WorkerStop(e) ==
    /\ Goto(e, "stop", IF device THEN "sleep" ELSE "crashed")
    /\ IF device THEN StopChannel(rxChannel[e]) ELSE UNCHANGED cancelled
    /\ UNCHANGED <<deviceVars, engineVars, rc, cpc, localVars>>

WorkerWake(e) ==
    /\ Goto(e, "sleep", "loop")
    /\ UNCHANGED <<deviceVars, engineVars, rc, cancelled, cpc, localVars>>

Worker(e) ==
    \/ WorkerStart(e) \/ WorkerLoop(e) \/ WorkerMark(e) \/ WorkerSubmit(e)
    \/ WorkerClear(e) \/ WorkerCheck(e) \/ WorkerNoteSuccess(e)
    \/ WorkerNoteError(e) \/ WorkerStop(e) \/ WorkerWake(e)

-----------------------------------------------------------------------------
(* The kernel driver: the blocking ioctl returns.                          *)

HardwareAnswer(e) ==
    /\ ~cancelled[e]
    /\ Goto(e, "wait", "clear")
    /\ \E r \in {0, -1} : rc' = [rc EXCEPT ![e] = r]
    /\ UNCHANGED <<deviceVars, engineVars, cancelled, cpc, localVars>>

CancelledReturn(e) ==
    /\ cancelled[e]
    /\ Goto(e, "wait", "clear")
    /\ \E r \in {0, -1} : rc' = [rc EXCEPT ![e] = r]
    /\ UNCHANGED <<deviceVars, engineVars, cancelled, cpc, localVars>>

-----------------------------------------------------------------------------
(* dma_init_state, called by the control thread.                           *)

Step(from, to) == cpc = from /\ cpc' = to

CallInit(e) ==
    /\ Step("idle", "reset") /\ inits < MaxInits
    /\ cur' = e /\ inits' = inits + 1
    /\ UNCHANGED <<deviceVars, engineVars, workerVars, sawDevice, shouldStop>>

InitAlready ==
    /\ Step("reset", "idle")
    /\ threadStarted[cur] \/ rxChannel[cur] # NoChannel
    /\ UNCHANGED <<deviceVars, engineVars, workerVars, localVars>>

\* The fields are reset before pthread_mutex_init, which may fail.
InitReset ==
    /\ ~threadStarted[cur] /\ rxChannel[cur] = NoChannel
    /\ stopRequested' = [stopRequested EXCEPT ![cur] = FALSE]
    /\ inTransfer' = [inTransfer EXCEPT ![cur] = FALSE]
    /\ latestValid' = [latestValid EXCEPT ![cur] = FALSE]
    /\ mapped' = [mapped EXCEPT ![cur] = 0]
    /\ \/ /\ Step("reset", "acquire")
          /\ lockInited' = [lockInited EXCEPT ![cur] = TRUE]
       \/ /\ Step("reset", "idle")
          /\ UNCHANGED lockInited
    /\ UNCHANGED <<deviceVars, threadStarted, rxChannel, workerVars, localVars>>

InitAcquire ==
    /\ Step("acquire", "probe") /\ Acquire(cur)
    /\ UNCHANGED <<rxChannels, engineVars, workerVars, localVars>>

\* axidma_init is called, and can fail, only when nobody holds the device.
InitAcquireFails ==
    /\ Step("acquire", "unlock") /\ ~device
    /\ UNCHANGED <<deviceVars, engineVars, workerVars, localVars>>

\* An index out of range falls back to the first channel.
ChannelFor(e) ==
    IF RxIndex[e] < Len(rxChannels) THEN rxChannels[RxIndex[e] + 1] ELSE rxChannels[1]

\* Fault: the device reference is kept when there is no channel.
NoChannelSkipsRelease == "unlock"
NoChannelExit == "release"

InitProbe ==
    /\ \/ /\ rxChannels # <<>> /\ Step("probe", "alloc")
          /\ rxChannel' = [rxChannel EXCEPT ![cur] = ChannelFor(cur)]
       \/ /\ rxChannels = <<>> /\ Step("probe", NoChannelExit)
          /\ UNCHANGED rxChannel
    /\ UNCHANGED <<deviceVars, lockInited, threadStarted, stopRequested, inTransfer,
                   mapped, latestValid, workerVars, localVars>>

\* Fault: a failed malloc jumps past the freeing of the earlier buffers.
AllocFailureKeepsBuffers(n) == IF n = BufCount THEN "create" ELSE "release"
AfterAlloc(n) == IF n = BufCount THEN "create" ELSE "free"

\* The first n of the buffers are mapped; short of BufCount, axidma_malloc failed.
InitAlloc ==
    /\ \E n \in 0..BufCount :
          /\ mapped' = [mapped EXCEPT ![cur] = n]
          /\ Step("alloc", AfterAlloc(n))
    /\ UNCHANGED <<deviceVars, lockInited, threadStarted, stopRequested, inTransfer,
                   rxChannel, latestValid, workerVars, localVars>>

InitCreate ==
    /\ Step("create", "idle")
    /\ threadStarted' = [threadStarted EXCEPT ![cur] = TRUE]
    /\ wpc' = [wpc EXCEPT ![cur] = "start"]
    /\ UNCHANGED <<deviceVars, lockInited, stopRequested, inTransfer, rxChannel,
                   mapped, latestValid, rc, cancelled, localVars>>

InitCreateFails ==
    /\ Step("create", "free")
    /\ UNCHANGED <<deviceVars, engineVars, workerVars, localVars>>

InitErrFreeBuffers ==
    /\ Step("free", "release")
    /\ mapped' = [mapped EXCEPT ![cur] = 0]
    /\ UNCHANGED <<deviceVars, lockInited, threadStarted, stopRequested, inTransfer,
                   rxChannel, latestValid, workerVars, localVars>>

InitErrReleaseDev ==
    /\ Step("release", "unlock") /\ Release(cur)
    /\ UNCHANGED <<rxChannels, engineVars, workerVars, localVars>>

InitErrReleaseLock ==
    /\ Step("unlock", "idle")
    /\ rxChannel' = [rxChannel EXCEPT ![cur] = NoChannel]
    /\ lockInited' = [lockInited EXCEPT ![cur] = FALSE]
    /\ UNCHANGED <<deviceVars, threadStarted, stopRequested, inTransfer, mapped,
                   latestValid, workerVars, localVars>>

-----------------------------------------------------------------------------
(* dma_shutdown_state, called by the control thread.                       *)

CallShutdown(e) ==
    /\ Step("idle", "readDevice") /\ cur' = e
    /\ UNCHANGED <<deviceVars, engineVars, workerVars, sawDevice, shouldStop, inits>>

ShutdownReadDevice ==
    /\ Step("readDevice", "flag")
    /\ sawDevice' = device /\ shouldStop' = FALSE
    /\ UNCHANGED <<deviceVars, engineVars, workerVars, cur, inits>>

\* Fault: in_transfer is read but stop_requested is not set.
ShutdownFlagUnset ==
    /\ Step("flag", "cancel")
    /\ shouldStop' = (lockInited[cur] /\ inTransfer[cur])
    /\ UNCHANGED <<deviceVars, engineVars, workerVars, cur, sawDevice, inits>>

ShutdownFlag ==
    /\ Step("flag", "cancel")
    /\ IF lockInited[cur]
         THEN /\ stopRequested' = [stopRequested EXCEPT ![cur] = TRUE]
              /\ shouldStop' = inTransfer[cur]
         ELSE UNCHANGED <<stopRequested, shouldStop>>
    /\ UNCHANGED <<deviceVars, lockInited, threadStarted, inTransfer, rxChannel, mapped,
                   latestValid, workerVars, cur, sawDevice, inits>>

\* Fault: the channel test is inverted.
CancelInverted == shouldStop /\ sawDevice /\ rxChannel[cur] = NoChannel
MayCancel == shouldStop /\ sawDevice /\ rxChannel[cur] # NoChannel

ShutdownCancel ==
    /\ Step("cancel", "join")
    /\ IF MayCancel THEN StopChannel(rxChannel[cur]) ELSE UNCHANGED cancelled
    /\ UNCHANGED <<deviceVars, engineVars, wpc, rc, localVars>>

\* Fault: the thread is detached instead of joined.
NoJoin == TRUE
Joined == threadStarted[cur] => wpc[cur] = "exited"

ShutdownJoin ==
    /\ Step("join", "cleanup")
    /\ Joined
    /\ wpc' = [wpc EXCEPT ![cur] = IF @ = "exited" THEN "none" ELSE @]
    /\ threadStarted' = [threadStarted EXCEPT ![cur] = FALSE]
    /\ UNCHANGED <<deviceVars, lockInited, stopRequested, inTransfer, rxChannel, mapped,
                   latestValid, rc, cancelled, localVars>>

ShutdownCleanup ==
    /\ Step("cleanup", "put")
    /\ mapped' = [mapped EXCEPT ![cur] = IF sawDevice THEN 0 ELSE @]
    /\ rxChannel' = [rxChannel EXCEPT ![cur] = NoChannel]
    /\ lockInited' = [lockInited EXCEPT ![cur] = FALSE]
    /\ stopRequested' = [stopRequested EXCEPT ![cur] = FALSE]
    /\ inTransfer' = [inTransfer EXCEPT ![cur] = FALSE]
    /\ latestValid' = [latestValid EXCEPT ![cur] = FALSE]
    /\ UNCHANGED <<deviceVars, threadStarted, workerVars, localVars>>

\* Unconditional: also when this engine holds no reference.
ShutdownPut ==
    /\ Step("put", "idle") /\ Release(cur)
    /\ UNCHANGED <<rxChannels, engineVars, workerVars, localVars>>

Control ==
    \/ InitAlready \/ InitReset \/ InitAcquire \/ InitAcquireFails \/ InitProbe
    \/ InitAlloc \/ InitCreate \/ InitCreateFails \/ InitErrFreeBuffers
    \/ InitErrReleaseDev \/ InitErrReleaseLock
    \/ ShutdownReadDevice \/ ShutdownFlag \/ ShutdownCancel \/ ShutdownJoin
    \/ ShutdownCleanup \/ ShutdownPut

-----------------------------------------------------------------------------
(* A balanced client: it shuts an engine down when its init succeeded, or  *)
(* when no engine is up, as the second pair of shutdown calls in main() is.*)

Balanced(e) == threadStarted[e] \/ \A f \in Engines : ~threadStarted[f]

System == Control \/ \E e \in Engines : Worker(e) \/ HardwareAnswer(e) \/ CancelledReturn(e)

Next ==
    \/ \E e \in Engines : CallInit(e)
    \/ \E e \in Engines : Balanced(e) /\ CallShutdown(e)
    \/ System

Spec == Init /\ [][Next]_vars

(* Every thread keeps running and a cancelled transfer returns; whether the *)
(* hardware ever completes a transfer that nobody cancelled is left open.   *)
ThreadFairness ==
    /\ WF_vars(Control)
    /\ \A e \in Engines : WF_vars(Worker(e)) /\ WF_vars(CancelledReturn(e))
HardwareFairness == \A e \in Engines : WF_vars(HardwareAnswer(e))

FairSpec == Spec /\ ThreadFairness
-----------------------------------------------------------------------------
(* Properties.                                                             *)

TypeOK ==
    /\ rxChannels \in RxTables
    /\ device \in BOOLEAN /\ users \in Nat /\ holders \in SUBSET Engines
    /\ lockInited \in [Engines -> BOOLEAN]
    /\ threadStarted \in [Engines -> BOOLEAN]
    /\ stopRequested \in [Engines -> BOOLEAN]
    /\ inTransfer \in [Engines -> BOOLEAN]
    /\ rxChannel \in [Engines -> Nat \cup {NoChannel}]
    /\ mapped \in [Engines -> 0..BufCount]
    /\ latestValid \in [Engines -> BOOLEAN]
    /\ wpc \in [Engines -> WorkerStates]
    /\ rc \in [Engines -> {0, -1}]
    /\ cancelled \in [Engines -> BOOLEAN]
    /\ cpc \in {"idle"} \cup InitStates \cup ShutdownStates
    /\ cur \in Engines
    /\ sawDevice \in BOOLEAN /\ shouldStop \in BOOLEAN /\ inits \in 0..MaxInits

Alive(e) == wpc[e] \notin {"none", "exited"}

\* Whatever the order of inits, failures and shutdowns, the device is not
\* destroyed under a worker: every transfer and every stop finds its channel
\* (the assertion dma_chan != NULL of libaxidma.c).
DeviceOutlivesWorkers == \A e \in Engines : Alive(e) => device /\ wpc[e] # "crashed"

\* A worker's mutex is initialised, its buffers are mapped and its channel is
\* set for as long as the thread can touch them: dma_shutdown_state joins first.
ResourcesOutliveWorker ==
    \A e \in Engines : Alive(e) =>
        lockInited[e] /\ mapped[e] = BufCount /\ rxChannel[e] # NoChannel

\* g_axidma_users counts the engines that acquired and did not yet release, and
\* the device exists exactly while there is one, on every error path of init.
RefCountExact == users = Cardinality(holders) /\ (device <=> holders # {})

\* An engine that is down, after a shutdown or after any failure of init, has
\* returned everything: thread, buffers, channel, mutex and device reference.
DownEngineHoldsNothing ==
    \A e \in Engines : ~threadStarted[e] /\ (cpc = "idle" \/ cur # e) =>
        /\ wpc[e] = "none" /\ mapped[e] = 0 /\ rxChannel[e] = NoChannel
        /\ ~lockInited[e] /\ e \notin holders

\* When the engines have channels of their own, a pending transfer is cancelled
\* only by the shutdown of its own engine, never by the error recovery or the
\* shutdown of the other one.
DistinctChannels ==
    /\ rxChannels # <<>>
    /\ \A e, f \in Engines : ChannelFor(e) = ChannelFor(f) => e = f
OnlyOwnShutdownCancels ==
    DistinctChannels => \A e \in Engines :
        wpc[e] = "wait" /\ cancelled[e] => stopRequested[e]

\* Every init and every shutdown returns, if the hardware ends each transfer.
CallsReturn == HardwareFairness => ((cpc # "idle") ~> (cpc = "idle"))

\* Even if the hardware never ends a transfer, a shutdown that finds the worker
\* in the ioctl returns: the stop wakes it and the flag keeps it from resuming.
CancelEndsShutdown ==
    \A e \in Engines :
        (cpc = "cancel" /\ cur = e /\ shouldStop /\ wpc[e] = "wait") ~> (cpc = "idle")

-----------------------------------------------------------------------------
(* The inductive invariant behind these properties: an engine the control  *)
(* thread is not working on is up or holds nothing, and the one it works   *)
(* on holds what the statements of the current call have reached.          *)

Down(e) == /\ ~threadStarted[e] /\ wpc[e] = "none" /\ mapped[e] = 0
           /\ rxChannel[e] = NoChannel /\ ~lockInited[e] /\ e \notin holders

Up(e) == /\ threadStarted[e] /\ wpc[e] \notin {"none", "crashed"}
         /\ mapped[e] = BufCount /\ rxChannel[e] = ChannelFor(e)
         /\ rxChannel[e] # NoChannel /\ lockInited[e] /\ e \in holders

\* Between pthread_mutex_init and pthread_create, or unwinding from there.
Building(e) ==
    /\ ~threadStarted[e] /\ wpc[e] = "none" /\ lockInited[e]
    /\ (e \in holders) = (cpc \notin {"acquire", "unlock"})
    /\ cpc \in {"acquire", "probe", "alloc", "release", "unlock"} => mapped[e] = 0
    /\ cpc = "create" => mapped[e] = BufCount
    /\ cpc \in {"acquire", "probe"} => rxChannel[e] = NoChannel
    /\ cpc \in {"alloc", "create"} =>
          rxChannel[e] = ChannelFor(e) /\ rxChannel[e] # NoChannel

\* After the join; what is left to return is returned.
Closing(e) ==
    /\ ~threadStarted[e] /\ wpc[e] = "none"
    /\ cpc = "cleanup" /\ e \notin holders => Down(e)
    /\ cpc = "put" => mapped[e] = 0 /\ rxChannel[e] = NoChannel /\ ~lockInited[e]

EngineInv ==
    /\ \A e \in Engines : e # cur => Up(e) \/ Down(e)
    /\ cpc \in InitStates \ {"reset"} => Building(cur)
    /\ cpc \in {"cleanup", "put"} => Closing(cur)
    /\ cpc \notin (InitStates \ {"reset"}) \cup {"cleanup", "put"} => Up(cur) \/ Down(cur)

\* A shutdown of an engine without a reference happens only when nobody has one.
ShutdownInv ==
    /\ cpc \in ShutdownStates /\ cur \notin holders => holders = {}
    /\ cpc \in {"flag", "cancel", "join", "cleanup"} /\ cur \in holders => sawDevice
    /\ cpc = "flag" => ~shouldStop
    /\ cpc = "cancel" /\ shouldStop => stopRequested[cur]

IInv == /\ TypeOK /\ RefCountExact /\ EngineInv /\ ShutdownInv
        /\ OnlyOwnShutdownCancels

\* The shared device, as its users see it.
Shared == INSTANCE SharedDevice WITH open <- device
ImplementsSharedDevice == Shared!Spec
=============================================================================

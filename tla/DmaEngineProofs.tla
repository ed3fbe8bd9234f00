------------------------- MODULE DmaEngineProofs -------------------------
(***************************************************************************)
(* Proofs about DmaEngine, for any number of engines, any channel table,   *)
(* any buffer count and any number of inits; and, at the end, about the    *)
(* two engines main() calls and the library under them (DrmMain).          *)
(***************************************************************************)
EXTENDS DrmMain, FiniteSetTheorems, TLAPS

USE DEF NoChannel

-----------------------------------------------------------------------------
(* Type correctness.                                                       *)

\* The channel an engine is given is one the driver reported.
LEMMA ChannelForType ==
    ASSUME TypeOK, rxChannels # <<>>, NEW e \in Engines
    PROVE  ChannelFor(e) \in Nat
BY RxAssumption DEF ChannelFor, TypeOK

LEMMA InitType == Init => TypeOK
<1> SUFFICES ASSUME Init PROVE TypeOK
  OBVIOUS
<1>1. /\ rxChannels \in RxTables /\ users \in Nat /\ holders \in SUBSET Engines
      /\ rxChannel \in [Engines -> Nat \cup {NoChannel}]
      /\ mapped \in [Engines -> 0..BufCount]
      /\ wpc \in [Engines -> WorkerStates]
      /\ rc \in [Engines -> {0, -1}]
  BY BoundAssumption DEF Init, WorkerStates
<1>2. /\ lockInited \in [Engines -> BOOLEAN]
      /\ threadStarted \in [Engines -> BOOLEAN]
      /\ stopRequested \in [Engines -> BOOLEAN]
      /\ inTransfer \in [Engines -> BOOLEAN]
      /\ latestValid \in [Engines -> BOOLEAN]
      /\ cancelled \in [Engines -> BOOLEAN]
  BY DEF Init
<1>3. /\ cpc \in {"idle"} \cup InitStates \cup ShutdownStates
      /\ cur \in Engines /\ inits \in 0..MaxInits
  BY BoundAssumption DEF Init
<1>4. device \in BOOLEAN /\ sawDevice \in BOOLEAN /\ shouldStop \in BOOLEAN
  BY Zenon DEF Init
<1> QED
  BY <1>1, <1>2, <1>3, <1>4, Zenon DEF TypeOK

LEMMA WorkerType ==
    ASSUME TypeOK, NEW e \in Engines, Worker(e) \/ HardwareAnswer(e) \/ CancelledReturn(e)
    PROVE  TypeOK'
<1> USE DEF TypeOK, WorkerStates, Goto, deviceVars, engineVars, localVars
<1>1. CASE WorkerStart(e) BY <1>1 DEF WorkerStart
<1>2. CASE WorkerLoop(e) BY <1>2 DEF WorkerLoop
<1>3. CASE WorkerMark(e) BY <1>3 DEF WorkerMark
<1>4. CASE WorkerSubmit(e) BY <1>4 DEF WorkerSubmit
<1>5. CASE WorkerClear(e) BY <1>5 DEF WorkerClear
<1>6. CASE WorkerCheck(e) BY <1>6 DEF WorkerCheck
<1>7. CASE WorkerNoteSuccess(e) BY <1>7 DEF WorkerNoteSuccess
<1>8. CASE WorkerNoteError(e) BY <1>8 DEF WorkerNoteError
<1>9. CASE WorkerStop(e) BY <1>9 DEF WorkerStop, StopChannel
<1>10. CASE WorkerWake(e) BY <1>10 DEF WorkerWake
<1>11. CASE HardwareAnswer(e) BY <1>11 DEF HardwareAnswer
<1>12. CASE CancelledReturn(e) BY <1>12 DEF CancelledReturn
<1> QED BY <1>1, <1>2, <1>3, <1>4, <1>5, <1>6, <1>7, <1>8, <1>9, <1>10, <1>11, <1>12
        DEF Worker

LEMMA ControlType == ASSUME TypeOK, Control PROVE TypeOK'
<1> USE BoundAssumption
    DEF TypeOK, InitStates, ShutdownStates, WorkerStates, Step,
        deviceVars, engineVars, workerVars, localVars
<1>1. CASE InitAlready BY <1>1 DEF InitAlready
<1>2. CASE InitReset
  <2>1. mapped' \in [Engines -> 0..BufCount] /\ cpc' \in {"idle"} \cup InitStates
    BY <1>2 DEF InitReset
  <2>2. /\ lockInited' \in [Engines -> BOOLEAN] /\ stopRequested' \in [Engines -> BOOLEAN]
        /\ inTransfer' \in [Engines -> BOOLEAN] /\ latestValid' \in [Engines -> BOOLEAN]
    BY <1>2 DEF InitReset
  <2> QED BY <1>2, <2>1, <2>2 DEF InitReset
<1>3. CASE InitAcquire BY <1>3 DEF InitAcquire, Acquire
<1>4. CASE InitAcquireFails BY <1>4 DEF InitAcquireFails
<1>5. CASE InitProbe
  <2>1. rxChannel' \in [Engines -> Nat \cup {NoChannel}]
    <3>1. rxChannels # <<>> => ChannelFor(cur) \in Nat
      BY ChannelForType
    <3>2. rxChannel' = rxChannel \/ \E c \in Nat : rxChannel' = [rxChannel EXCEPT ![cur] = c]
      BY <1>5, <3>1 DEF InitProbe
    <3> QED
      BY <3>2
  <2>2. cpc' \in {"idle"} \cup InitStates
    BY <1>5 DEF InitProbe, NoChannelExit
  <2>3. UNCHANGED <<deviceVars, lockInited, threadStarted, stopRequested, inTransfer,
                    mapped, latestValid, workerVars, localVars>>
    BY <1>5 DEF InitProbe
  <2> QED BY <2>1, <2>2, <2>3
<1>6. CASE InitAlloc BY <1>6 DEF InitAlloc, AfterAlloc
<1>7. CASE InitCreate BY <1>7 DEF InitCreate
<1>8. CASE InitCreateFails BY <1>8 DEF InitCreateFails
<1>9. CASE InitErrFreeBuffers BY <1>9 DEF InitErrFreeBuffers
<1>10. CASE InitErrReleaseDev BY <1>10 DEF InitErrReleaseDev, Release
<1>11. CASE InitErrReleaseLock BY <1>11 DEF InitErrReleaseLock
<1>12. CASE ShutdownReadDevice BY <1>12 DEF ShutdownReadDevice
<1>13. CASE ShutdownFlag BY <1>13 DEF ShutdownFlag
<1>14. CASE ShutdownCancel BY <1>14 DEF ShutdownCancel, StopChannel
<1>15. CASE ShutdownJoin BY <1>15 DEF ShutdownJoin
<1>16. CASE ShutdownCleanup BY <1>16 DEF ShutdownCleanup
<1>17. CASE ShutdownPut BY <1>17 DEF ShutdownPut, Release
<1> QED BY <1>1, <1>2, <1>3, <1>4, <1>5, <1>6, <1>7, <1>8, <1>9, <1>10, <1>11, <1>12,
           <1>13, <1>14, <1>15, <1>16, <1>17 DEF Control

LEMMA CallType ==
    ASSUME TypeOK, NEW e \in Engines, CallInit(e) \/ CallShutdown(e)
    PROVE  TypeOK'
BY BoundAssumption DEF TypeOK, CallInit, CallShutdown, Step, InitStates, ShutdownStates,
    deviceVars, engineVars, workerVars

\* Every variable of the engines keeps its type, whatever the client calls.
THEOREM TypeCorrect == Spec => []TypeOK
<1>1. TypeOK /\ [Next]_vars => TypeOK'
  <2> SUFFICES ASSUME TypeOK, [Next]_vars PROVE TypeOK'
    OBVIOUS
  <2>1. CASE \E e \in Engines : CallInit(e) \/ CallShutdown(e)
    BY <2>1, CallType
  <2>2. CASE Control
    BY <2>2, ControlType
  <2>3. CASE \E e \in Engines : Worker(e) \/ HardwareAnswer(e) \/ CancelledReturn(e)
    BY <2>3, WorkerType
  <2>4. CASE UNCHANGED vars
    BY <2>4 DEF vars, deviceVars, engineVars, workerVars, localVars, TypeOK
  <2> QED
    BY <2>1, <2>2, <2>3, <2>4 DEF Next, System
<1> QED
  BY InitType, <1>1, PTL DEF Spec

-----------------------------------------------------------------------------
(* The inductive invariant: initial states, and the steps of the workers   *)
(* and the driver.                                                         *)

LEMMA InitInv == Init => IInv
<1> SUFFICES ASSUME Init PROVE IInv
  OBVIOUS
<1>1. TypeOK BY InitType
<1>2. RefCountExact BY FS_EmptySet, Zenon DEF Init, RefCountExact
<1>3. EngineInv BY DEF Init, EngineInv, Down, InitStates
<1>4. ShutdownInv BY DEF Init, ShutdownInv, ShutdownStates
<1>5. OnlyOwnShutdownCancels BY DEF Init, OnlyOwnShutdownCancels
<1> QED BY <1>1, <1>2, <1>3, <1>4, <1>5 DEF IInv

\* An engine with a thread is up, the device exists, and the control thread has
\* not reached the part of a call that takes the engine down.
LEMMA RunningIsUp ==
    ASSUME IInv, NEW e \in Engines, wpc[e] # "none"
    PROVE  /\ Up(e) /\ device
           /\ e = cur => cpc \notin (InitStates \ {"reset"}) \cup {"cleanup", "put"}
<1>1. /\ Up(e)
      /\ e = cur => cpc \notin (InitStates \ {"reset"}) \cup {"cleanup", "put"}
  BY DEF IInv, EngineInv, Building, Closing, Down
<1>2. device
  BY <1>1 DEF IInv, RefCountExact, Up
<1> QED BY <1>1, <1>2

\* What a step of the worker or the driver changes that the invariant can see.
WorkerFrame(e) ==
    /\ Up(e) /\ wpc[e] \notin {"none", "crashed"}
    /\ wpc'[e] \notin {"none", "crashed"}
    /\ \A f \in Engines : f # e => wpc'[f] = wpc[f]
    /\ UNCHANGED <<deviceVars, lockInited, threadStarted, stopRequested, rxChannel,
                   mapped, cpc, localVars>>
    /\ DistinctChannels => \A f \in Engines :
          wpc'[f] = "wait" /\ cancelled'[f] => wpc[f] = "wait" /\ cancelled[f]

LEMMA WorkerStepFrame ==
    ASSUME IInv, NEW e \in Engines, Worker(e) \/ HardwareAnswer(e) \/ CancelledReturn(e)
    PROVE  WorkerFrame(e)
<1>1. wpc[e] # "none" /\ wpc \in [Engines -> WorkerStates]
  BY DEF Worker, WorkerStart, WorkerLoop, WorkerMark, WorkerSubmit, WorkerClear,
         WorkerCheck, WorkerNoteSuccess, WorkerNoteError, WorkerStop, WorkerWake,
         HardwareAnswer, CancelledReturn, Goto, IInv, TypeOK
<1>2. Up(e) /\ device
  BY <1>1, RunningIsUp
<1>3. cancelled \in [Engines -> BOOLEAN]
  BY DEF IInv, TypeOK
<1> USE <1>1, <1>2, <1>3 DEF WorkerFrame, Goto, deviceVars, engineVars, localVars, Up
<1>4. CASE WorkerStart(e) BY <1>4 DEF WorkerStart
<1>5. CASE WorkerLoop(e) BY <1>5 DEF WorkerLoop
<1>6. CASE WorkerMark(e) BY <1>6 DEF WorkerMark
<1>7. CASE WorkerSubmit(e) BY <1>7 DEF WorkerSubmit
<1>8. CASE WorkerClear(e) BY <1>8 DEF WorkerClear
<1>9. CASE WorkerCheck(e) BY <1>9 DEF WorkerCheck
<1>10. CASE WorkerNoteSuccess(e) BY <1>10 DEF WorkerNoteSuccess
<1>11. CASE WorkerNoteError(e) BY <1>11 DEF WorkerNoteError
<1>12. CASE WorkerStop(e)
  <2>1. ASSUME DistinctChannels, NEW f \in Engines, wpc'[f] = "wait", cancelled'[f]
        PROVE  wpc[f] = "wait" /\ cancelled[f]
    <3>1. f # e /\ wpc[f] = "wait"
      BY <1>12, <2>1 DEF WorkerStop
    <3>2. rxChannel[f] = ChannelFor(f) /\ rxChannel[e] = ChannelFor(e)
      BY <3>1, RunningIsUp
    <3>3. rxChannel[f] # rxChannel[e]
      BY <3>1, <3>2, <2>1 DEF DistinctChannels
    <3> QED
      BY <1>12, <2>1, <3>1, <3>3 DEF WorkerStop, StopChannel
  <2> QED
    BY <1>12, <2>1 DEF WorkerStop
<1>13. CASE WorkerWake(e) BY <1>13 DEF WorkerWake
<1>14. CASE HardwareAnswer(e) BY <1>14 DEF HardwareAnswer
<1>15. CASE CancelledReturn(e) BY <1>15 DEF CancelledReturn
<1> QED
  BY <1>4, <1>5, <1>6, <1>7, <1>8, <1>9, <1>10, <1>11, <1>12, <1>13, <1>14, <1>15
  DEF Worker

LEMMA WorkerInv ==
    ASSUME IInv, NEW e \in Engines, Worker(e) \/ HardwareAnswer(e) \/ CancelledReturn(e)
    PROVE  IInv'
<1>1. WorkerFrame(e)
  BY WorkerStepFrame
<1>2. TypeOK'
  BY WorkerType DEF IInv
<1>3. RefCountExact'
  BY <1>1 DEF WorkerFrame, IInv, RefCountExact, deviceVars
<1>4. EngineInv'
  <2>1. e = cur => cpc \notin (InitStates \ {"reset"}) \cup {"cleanup", "put"}
    BY <1>1, RunningIsUp DEF WorkerFrame
  <2>2. ASSUME NEW f \in Engines PROVE /\ Up(f) => Up(f)'
                                       /\ f # e /\ Down(f) => Down(f)'
                                       /\ f # e /\ Building(f) => Building(f)'
                                       /\ f # e /\ Closing(f) => Closing(f)'
    BY <1>1, <2>2 DEF WorkerFrame, Up, Down, Building, Closing, ChannelFor, deviceVars
  <2>3. Up(e) /\ cur' = cur /\ cpc' = cpc /\ cur \in Engines
    BY <1>1 DEF WorkerFrame, localVars, IInv, TypeOK
  <2> QED
    BY <2>1, <2>2, <2>3 DEF IInv, EngineInv
<1>5. ShutdownInv'
  BY <1>1 DEF WorkerFrame, IInv, ShutdownInv, deviceVars, localVars
<1>6. OnlyOwnShutdownCancels'
  <2>1. DistinctChannels' => DistinctChannels
    BY <1>1 DEF WorkerFrame, DistinctChannels, ChannelFor, deviceVars
  <2>2. stopRequested' = stopRequested
    BY <1>1 DEF WorkerFrame
  <2> QED
    BY <1>1, <2>1, <2>2 DEF WorkerFrame, IInv, OnlyOwnShutdownCancels
<1> QED
  BY <1>2, <1>3, <1>4, <1>5, <1>6 DEF IInv

-----------------------------------------------------------------------------
(* The steps of the control thread.                                        *)

LEMMA HoldersFinite == IInv => IsFiniteSet(holders)
BY EnginesAssumption, FS_Subset DEF IInv, TypeOK

\* Taking a reference keeps the count exact when the caller has none.
LEMMA AcquireExact ==
    ASSUME IInv, cur \notin holders, Acquire(cur)
    PROVE  RefCountExact'
<1>1. Cardinality(holders \cup {cur}) = Cardinality(holders) + 1
  BY HoldersFinite, FS_AddElement
<1> QED
  BY <1>1 DEF Acquire, IInv, RefCountExact

\* Dropping one keeps it exact when the caller has one, or nobody has.
LEMMA ReleaseExact ==
    ASSUME IInv, cur \in holders \/ holders = {}, Release(cur)
    PROVE  RefCountExact' /\ device' = (holders \ {cur} # {})
<1> users = Cardinality(holders) /\ (device <=> holders # {}) /\ device \in BOOLEAN
  BY DEF IInv, RefCountExact, TypeOK
<1>1. CASE holders = {}
  <2>1. users = 0 /\ ~device /\ holders \ {cur} = {}
    BY <1>1, FS_EmptySet
  <2>2. users' = 0 /\ ~device' /\ holders' = {}
    BY <2>1, <1>1 DEF Release
  <2> QED
    BY <2>1, <2>2, <1>1, FS_EmptySet DEF RefCountExact, Release
<1>2. CASE cur \in holders
  <2>1. /\ Cardinality(holders \ {cur}) = Cardinality(holders) - 1
        /\ IsFiniteSet(holders) /\ IsFiniteSet(holders \ {cur})
        /\ Cardinality(holders) \in Nat /\ Cardinality(holders \ {cur}) \in Nat
    BY <1>2, HoldersFinite, FS_RemoveElement, FS_CardinalityType
  <2>2. holders \ {cur} = {} <=> Cardinality(holders \ {cur}) = 0
    BY <2>1, FS_EmptySet
  <2>3. users > 0 /\ users' = users - 1 /\ device /\ holders' = holders \ {cur}
    BY <1>2, <2>1 DEF Release
  <2>4. device' <=> users # 1
    BY <2>3 DEF Release
  <2> QED
    BY <2>1, <2>2, <2>3, <2>4 DEF RefCountExact, Release
<1> QED
  BY <1>1, <1>2

\* A step of the control thread on its engine leaves the other engines alone.
ControlFrame ==
    /\ cur' = cur /\ rxChannels' = rxChannels
    /\ \A f \in Engines : f # cur =>
          /\ threadStarted'[f] = threadStarted[f] /\ wpc'[f] = wpc[f]
          /\ mapped'[f] = mapped[f] /\ rxChannel'[f] = rxChannel[f]
          /\ lockInited'[f] = lockInited[f]
          /\ f \in holders' <=> f \in holders

LEMMA OthersKept ==
    ASSUME IInv, ControlFrame, NEW f \in Engines, f # cur
    PROVE  Up(f)' \/ Down(f)'
BY DEF IInv, EngineInv, ControlFrame, Up, Down, ChannelFor

LEMMA InitStepsInv ==
    ASSUME IInv,
           \/ InitAlready \/ InitReset \/ InitAcquire \/ InitAcquireFails \/ InitProbe
           \/ InitAlloc \/ InitCreate \/ InitCreateFails \/ InitErrFreeBuffers
           \/ InitErrReleaseDev \/ InitErrReleaseLock
    PROVE  EngineInv' /\ ShutdownInv' /\ RefCountExact'
<1> cur \in Engines /\ TypeOK
  BY DEF IInv, TypeOK
<1> USE DEF Step, deviceVars, engineVars, workerVars, localVars, InitStates, ShutdownStates
<1>1. CASE InitAlready
  BY <1>1 DEF InitAlready, IInv, EngineInv, ShutdownInv, RefCountExact, Up, Down, ChannelFor
<1>2. CASE InitReset
  <2>1. Down(cur)
    BY <1>2 DEF InitReset, IInv, EngineInv, Up
  <2>2. ControlFrame
    BY <1>2 DEF InitReset, ControlFrame, TypeOK
  <2>3. EngineInv'
    BY <1>2, <2>1, <2>2, OthersKept
    DEF InitReset, EngineInv, Building, Down, ControlFrame, TypeOK
  <2> QED
    BY <1>2, <2>3 DEF InitReset, ShutdownInv, IInv, RefCountExact
<1>3. CASE InitAcquire
  <2>1. Building(cur) /\ cur \notin holders
    BY <1>3 DEF InitAcquire, IInv, EngineInv, Building
  <2>2. ControlFrame
    BY <1>3 DEF InitAcquire, Acquire, ControlFrame
  <2>3. EngineInv'
    BY <1>3, <2>1, <2>2, OthersKept DEF InitAcquire, Acquire, EngineInv, Building
  <2> QED
    BY <1>3, <2>1, <2>3, AcquireExact DEF InitAcquire, ShutdownInv
<1>4. CASE InitAcquireFails
  <2>1. Building(cur) /\ ControlFrame
    BY <1>4 DEF InitAcquireFails, IInv, EngineInv, ControlFrame
  <2>2. EngineInv'
    BY <1>4, <2>1, OthersKept DEF InitAcquireFails, EngineInv, Building
  <2> QED
    BY <1>4, <2>2 DEF InitAcquireFails, ShutdownInv, IInv, RefCountExact
<1>5. CASE InitProbe
  <2>1. Building(cur) /\ ControlFrame
    BY <1>5 DEF InitProbe, IInv, EngineInv, ControlFrame, TypeOK
  <2>2. rxChannels # <<>> => ChannelFor(cur) \in Nat
    BY ChannelForType
  <2>3. EngineInv'
    BY <1>5, <2>1, <2>2, OthersKept 
    DEF InitProbe, NoChannelExit, EngineInv, Building, ChannelFor, TypeOK
  <2> QED
    BY <1>5, <2>3 DEF InitProbe, NoChannelExit, ShutdownInv, IInv, RefCountExact
<1>6. CASE InitAlloc
  <2>1. Building(cur) /\ ControlFrame
    BY <1>6 DEF InitAlloc, IInv, EngineInv, ControlFrame, TypeOK
  <2>2. EngineInv'
    BY <1>6, <2>1, OthersKept
    DEF InitAlloc, AfterAlloc, EngineInv, Building, ChannelFor, TypeOK
  <2> QED
    BY <1>6, <2>2 DEF InitAlloc, AfterAlloc, ShutdownInv, IInv, RefCountExact
<1>7. CASE InitCreate
  <2>1. Building(cur) /\ ControlFrame
    BY <1>7 DEF InitCreate, IInv, EngineInv, ControlFrame, TypeOK
  <2>2. Up(cur)'
    BY <1>7, <2>1 DEF InitCreate, Building, Up, ChannelFor, TypeOK
  <2>3. EngineInv'
    BY <1>7, <2>1, <2>2, OthersKept DEF InitCreate, EngineInv, ControlFrame
  <2> QED
    BY <1>7, <2>3 DEF InitCreate, ShutdownInv, IInv, RefCountExact
<1>8. CASE InitCreateFails
  <2>1. Building(cur) /\ ControlFrame
    BY <1>8 DEF InitCreateFails, IInv, EngineInv, ControlFrame
  <2>2. EngineInv'
    BY <1>8, <2>1, OthersKept DEF InitCreateFails, EngineInv, Building
  <2> QED
    BY <1>8, <2>2 DEF InitCreateFails, ShutdownInv, IInv, RefCountExact
<1>9. CASE InitErrFreeBuffers
  <2>1. Building(cur) /\ ControlFrame
    BY <1>9 DEF InitErrFreeBuffers, IInv, EngineInv, ControlFrame, TypeOK
  <2>2. EngineInv'
    BY <1>9, <2>1, OthersKept DEF InitErrFreeBuffers, EngineInv, Building, TypeOK
  <2> QED
    BY <1>9, <2>2 DEF InitErrFreeBuffers, ShutdownInv, IInv, RefCountExact
<1>10. CASE InitErrReleaseDev
  <2>1. Building(cur) /\ cur \in holders
    BY <1>10 DEF InitErrReleaseDev, IInv, EngineInv, Building
  <2>2. ControlFrame
    BY <1>10 DEF InitErrReleaseDev, Release, ControlFrame
  <2>3. EngineInv'
    BY <1>10, <2>1, <2>2, OthersKept DEF InitErrReleaseDev, Release, EngineInv, Building
  <2> QED
    BY <1>10, <2>1, <2>3, ReleaseExact DEF InitErrReleaseDev, ShutdownInv
<1>11. CASE InitErrReleaseLock
  <2>1. Building(cur) /\ ControlFrame
    BY <1>11 DEF InitErrReleaseLock, IInv, EngineInv, ControlFrame, TypeOK
  <2>2. Down(cur)'
    BY <1>11, <2>1 DEF InitErrReleaseLock, Building, Down, TypeOK
  <2>3. EngineInv'
    BY <1>11, <2>1, <2>2, OthersKept DEF InitErrReleaseLock, EngineInv, ControlFrame
  <2> QED
    BY <1>11, <2>3 DEF InitErrReleaseLock, ShutdownInv, IInv, RefCountExact
<1> QED
  BY <1>1, <1>2, <1>3, <1>4, <1>5, <1>6, <1>7, <1>8, <1>9, <1>10, <1>11

LEMMA ShutdownStepsInv ==
    ASSUME IInv,
           \/ ShutdownReadDevice \/ ShutdownFlag \/ ShutdownCancel \/ ShutdownJoin
           \/ ShutdownCleanup \/ ShutdownPut
    PROVE  EngineInv' /\ ShutdownInv' /\ RefCountExact'
<1> cur \in Engines /\ TypeOK
  BY DEF IInv, TypeOK
<1> USE DEF Step, deviceVars, engineVars, workerVars, localVars, InitStates, ShutdownStates
<1>1. CASE ShutdownReadDevice
  <2>1. (Up(cur) \/ Down(cur)) /\ ControlFrame
    BY <1>1 DEF ShutdownReadDevice, IInv, EngineInv, ControlFrame
  <2>2. EngineInv'
    BY <1>1, <2>1, OthersKept DEF ShutdownReadDevice, EngineInv, Up, Down, ChannelFor
  <2>3. cur \in holders => sawDevice'
    BY <1>1 DEF ShutdownReadDevice, IInv, RefCountExact
  <2> QED
    BY <1>1, <2>2, <2>3 DEF ShutdownReadDevice, ShutdownInv, IInv, RefCountExact
<1>2. CASE ShutdownFlag
  <2>1. (Up(cur) \/ Down(cur)) /\ ControlFrame
    BY <1>2 DEF ShutdownFlag, IInv, EngineInv, ControlFrame
  <2>2. EngineInv'
    BY <1>2, <2>1, OthersKept DEF ShutdownFlag, EngineInv, Up, Down, ChannelFor
  <2>3. shouldStop' => stopRequested'[cur]
    BY <1>2 DEF ShutdownFlag, IInv, ShutdownInv, TypeOK
  <2> QED
    BY <1>2, <2>2, <2>3 DEF ShutdownFlag, ShutdownInv, IInv, RefCountExact
<1>3. CASE ShutdownCancel
  <2>1. (Up(cur) \/ Down(cur)) /\ ControlFrame
    BY <1>3 DEF ShutdownCancel, IInv, EngineInv, ControlFrame
  <2>2. EngineInv'
    BY <1>3, <2>1, OthersKept DEF ShutdownCancel, EngineInv, Up, Down, ChannelFor
  <2> QED
    BY <1>3, <2>2 DEF ShutdownCancel, ShutdownInv, IInv, RefCountExact
<1>4. CASE ShutdownJoin
  <2>1. (Up(cur) \/ Down(cur)) /\ ControlFrame
    BY <1>4 DEF ShutdownJoin, IInv, EngineInv, ControlFrame, TypeOK
  <2>2. Closing(cur)'
    BY <1>4, <2>1 DEF ShutdownJoin, Joined, Up, Down, Closing, TypeOK
  <2>3. EngineInv'
    BY <1>4, <2>1, <2>2, OthersKept DEF ShutdownJoin, EngineInv, ControlFrame
  <2> QED
    BY <1>4, <2>3 DEF ShutdownJoin, ShutdownInv, IInv, RefCountExact
<1>5. CASE ShutdownCleanup
  <2>1. Closing(cur) /\ ControlFrame
    BY <1>5 DEF ShutdownCleanup, IInv, EngineInv, ControlFrame, TypeOK
  <2>2. ~sawDevice => mapped[cur] = 0
    BY <1>5, <2>1 DEF ShutdownCleanup, IInv, ShutdownInv, Closing, Down
  <2>3. Closing(cur)'
    BY <1>5, <2>1, <2>2 DEF ShutdownCleanup, Closing, TypeOK
  <2>4. EngineInv'
    BY <1>5, <2>1, <2>3, OthersKept DEF ShutdownCleanup, EngineInv, ControlFrame
  <2> QED
    BY <1>5, <2>4 DEF ShutdownCleanup, ShutdownInv, IInv, RefCountExact
<1>6. CASE ShutdownPut
  <2>1. Closing(cur) /\ (cur \in holders \/ holders = {})
    BY <1>6 DEF ShutdownPut, IInv, EngineInv, ShutdownInv
  <2>2. ControlFrame
    BY <1>6 DEF ShutdownPut, Release, ControlFrame
  <2>3. Down(cur)'
    BY <1>6, <2>1 DEF ShutdownPut, Release, Closing, Down
  <2>4. EngineInv'
    BY <1>6, <2>2, <2>3, OthersKept DEF ShutdownPut, EngineInv, ControlFrame
  <2> QED
    BY <1>6, <2>1, <2>4, ReleaseExact DEF ShutdownPut, ShutdownInv
<1> QED
  BY <1>1, <1>2, <1>3, <1>4, <1>5, <1>6

\* The control thread cancels a transfer only in a shutdown, after it set the
\* engine's own flag; and it clears the flag only when the engine has no thread.
LEMMA ControlCancels ==
    ASSUME IInv, Control
    PROVE  OnlyOwnShutdownCancels'
<1> rxChannels' = rxChannels
  BY DEF deviceVars, Control, InitAlready, InitReset, InitAcquire, InitAcquireFails,
         InitProbe, InitAlloc, InitCreate, InitCreateFails, InitErrFreeBuffers,
         InitErrReleaseDev, InitErrReleaseLock, ShutdownReadDevice, ShutdownFlag,
         ShutdownCancel, ShutdownJoin, ShutdownCleanup, ShutdownPut
<1> SUFFICES ASSUME DistinctChannels, NEW e \in Engines, wpc'[e] = "wait", cancelled'[e]
             PROVE  stopRequested'[e]
  BY DEF OnlyOwnShutdownCancels, DistinctChannels, ChannelFor
<1> cur \in Engines /\ TypeOK
  BY DEF IInv, TypeOK
<1> USE DEF Step, workerVars, engineVars
<1>1. wpc[e] = "wait"
  BY DEF Control, InitAlready, InitReset, InitAcquire, InitAcquireFails, InitProbe,
         InitAlloc, InitCreate, InitCreateFails, InitErrFreeBuffers, InitErrReleaseDev,
         InitErrReleaseLock, ShutdownReadDevice, ShutdownFlag, ShutdownCancel,
         ShutdownJoin, ShutdownCleanup, ShutdownPut, TypeOK
<1>2. /\ Up(e) /\ rxChannel[e] = ChannelFor(e)
      /\ e = cur => threadStarted[e] /\ cpc \notin {"cleanup", "put"}
  BY <1>1, RunningIsUp DEF Up
<1>3. cancelled[e] => stopRequested[e]
  BY <1>1 DEF IInv, OnlyOwnShutdownCancels
<1>4. CASE ShutdownCancel
  <2>1. CASE cancelled[e]
    BY <1>3, <1>4, <2>1 DEF ShutdownCancel
  <2>2. CASE ~cancelled[e]
    <3>1. MayCancel /\ rxChannel[cur] = rxChannel[e]
      BY <1>4, <2>2 DEF ShutdownCancel, StopChannel
    <3>2. Up(cur)
      BY <1>4, <3>1 DEF ShutdownCancel, MayCancel, IInv, EngineInv, InitStates, Down
    <3>3. cur = e
      BY <1>2, <3>1, <3>2 DEF Up, DistinctChannels
    <3> QED
      BY <1>4, <3>1, <3>3 DEF ShutdownCancel, MayCancel, IInv, ShutdownInv
  <2> QED
    BY <2>1, <2>2
<1>5. CASE ~ShutdownCancel
  <2>1. cancelled'[e] = cancelled[e]
    BY <1>5 DEF Control, InitAlready, InitReset, InitAcquire, InitAcquireFails, InitProbe,
         InitAlloc, InitCreate, InitCreateFails, InitErrFreeBuffers, InitErrReleaseDev,
         InitErrReleaseLock, ShutdownReadDevice, ShutdownFlag, ShutdownJoin,
         ShutdownCleanup, ShutdownPut
  <2>2. stopRequested[e] => stopRequested'[e]
    BY <1>2, <1>5 DEF Control, InitAlready, InitReset, InitAcquire, InitAcquireFails,
         InitProbe, InitAlloc, InitCreate, InitCreateFails, InitErrFreeBuffers,
         InitErrReleaseDev, InitErrReleaseLock, ShutdownReadDevice, ShutdownFlag,
         ShutdownJoin, ShutdownCleanup, ShutdownPut, TypeOK
  <2> QED
    BY <1>3, <2>1, <2>2
<1> QED
  BY <1>4, <1>5

LEMMA ControlInv == ASSUME IInv, Control PROVE IInv'
<1>1. TypeOK'
  BY ControlType DEF IInv
<1>2. EngineInv' /\ ShutdownInv' /\ RefCountExact'
  BY InitStepsInv, ShutdownStepsInv DEF Control
<1>3. OnlyOwnShutdownCancels'
  BY ControlCancels
<1> QED
  BY <1>1, <1>2, <1>3 DEF IInv

\* Starting a call: this is where the client's balance is used.
LEMMA CallInv ==
    ASSUME IInv, NEW e \in Engines, CallInit(e) \/ (Balanced(e) /\ CallShutdown(e))
    PROVE  IInv'
<1> TypeOK /\ cpc = "idle" /\ \A f \in Engines : Up(f) \/ Down(f)
  BY DEF IInv, EngineInv, CallInit, CallShutdown, Step, InitStates
<1> USE DEF CallInit, CallShutdown, Step, deviceVars, engineVars, workerVars,
            InitStates, ShutdownStates
<1>1. TypeOK'
  BY CallType
<1>2. RefCountExact' /\ OnlyOwnShutdownCancels'
  BY DEF IInv, RefCountExact, OnlyOwnShutdownCancels, DistinctChannels, ChannelFor
<1>3. EngineInv'
  <2>1. \A f \in Engines : Up(f)' \/ Down(f)'
    BY DEF Up, Down, ChannelFor
  <2> QED
    BY <2>1 DEF EngineInv
<1>4. ShutdownInv'
  <2>1. Balanced(e) /\ e \notin holders => holders = {}
    BY DEF Balanced, Up, Down, TypeOK
  <2> QED
    BY <2>1 DEF ShutdownInv
<1> QED
  BY <1>1, <1>2, <1>3, <1>4 DEF IInv

LEMMA StutterInv == ASSUME IInv, UNCHANGED vars PROVE IInv'
<1> USE DEF vars, deviceVars, engineVars, workerVars, localVars
<1>1. TypeOK' BY DEF IInv, TypeOK
<1>2. RefCountExact' /\ ShutdownInv' BY DEF IInv, RefCountExact, ShutdownInv
<1>3. EngineInv' BY DEF IInv, EngineInv, Up, Down, Building, Closing, ChannelFor
<1>4. OnlyOwnShutdownCancels'
  BY DEF IInv, OnlyOwnShutdownCancels, DistinctChannels, ChannelFor
<1> QED BY <1>1, <1>2, <1>3, <1>4 DEF IInv

-----------------------------------------------------------------------------
(* The theorems about the engines.                                         *)

\* Whoever the control thread is not working on is up or down with exact books, and
\* the one it works on has what its call has reached.
THEOREM Inductive == Spec => []IInv
<1>1. IInv /\ [Next]_vars => IInv'
  <2> SUFFICES ASSUME IInv, [Next]_vars PROVE IInv'
    OBVIOUS
  <2>1. CASE \E e \in Engines : CallInit(e) \/ (Balanced(e) /\ CallShutdown(e))
    BY <2>1, CallInv
  <2>2. CASE Control
    BY <2>2, ControlInv
  <2>3. CASE \E e \in Engines : Worker(e) \/ HardwareAnswer(e) \/ CancelledReturn(e)
    BY <2>3, WorkerInv
  <2>4. CASE UNCHANGED vars
    BY <2>4, StutterInv
  <2> QED
    BY <2>1, <2>2, <2>3, <2>4 DEF Next, System
<1> QED
  BY InitInv, <1>1, PTL DEF Spec

\* However inits, their failures and balanced shutdowns follow each other, no
\* worker loses the device under its feet.
THEOREM DeviceSafe == Spec => []DeviceOutlivesWorkers
<1>1. IInv => DeviceOutlivesWorkers
  BY RunningIsUp DEF DeviceOutlivesWorkers, Alive, Up
<1> QED
  BY <1>1, Inductive, PTL

\* Nor its mutex, its buffers or its channel.
THEOREM ResourcesSafe == Spec => []ResourcesOutliveWorker
<1>1. IInv => ResourcesOutliveWorker
  BY RunningIsUp DEF ResourcesOutliveWorker, Alive, Up
<1> QED
  BY <1>1, Inductive, PTL

\* g_axidma_users is the number of engines that hold a reference, and the device
\* is open exactly while it is not zero.
THEOREM RefCountCorrect == Spec => []RefCountExact
BY Inductive, PTL DEF IInv

\* Every path through init and shutdown returns what it took.
THEOREM NothingLeaks == Spec => []DownEngineHoldsNothing
<1>1. IInv => DownEngineHoldsNothing
  BY DEF IInv, EngineInv, DownEngineHoldsNothing, Up, Down, InitStates
<1> QED
  BY <1>1, Inductive, PTL

\* With a channel per engine no engine's recovery disturbs another.
THEOREM Isolation == Spec => []OnlyOwnShutdownCancels
BY Inductive, PTL DEF IInv

\* The engines implement the abstract shared device.
THEOREM Refinement == Spec => ImplementsSharedDevice
<1>1. Init => Shared!Init
  BY DEF Init, Shared!Init
<1>2. IInv /\ [Next]_vars => [Shared!Next]_<<device, holders>>
  <2> SUFFICES ASSUME IInv, [Next]_vars, ~UNCHANGED <<device, holders>>
               PROVE  Shared!Next
    BY DEF Shared!Next
  <2> cur \in Engines
    BY DEF IInv, TypeOK
  <2>1. InitAcquire \/ InitErrReleaseDev \/ ShutdownPut
    BY DEF Next, System, CallInit, CallShutdown, Control, Worker, WorkerStart, WorkerLoop,
       WorkerMark, WorkerSubmit, WorkerClear, WorkerCheck, WorkerNoteSuccess,
       WorkerNoteError, WorkerStop, WorkerWake, HardwareAnswer, CancelledReturn,
       InitAlready, InitReset, InitAcquireFails, InitProbe, InitAlloc, InitCreate,
       InitCreateFails, InitErrFreeBuffers, InitErrReleaseLock, ShutdownReadDevice,
       ShutdownFlag, ShutdownCancel, ShutdownJoin, ShutdownCleanup, vars, deviceVars
  <2>2. CASE InitAcquire
    <3>1. cur \notin holders
      BY <2>2 DEF InitAcquire, Step, IInv, EngineInv, Building, InitStates
    <3> QED
      BY <2>2, <3>1 DEF InitAcquire, Acquire, Shared!Next, Shared!Acquire
  <2>3. CASE InitErrReleaseDev \/ ShutdownPut
    <3>1. Release(cur) /\ (cur \in holders \/ holders = {})
      BY <2>3 DEF InitErrReleaseDev, ShutdownPut, Step, IInv, EngineInv, Building,
                  ShutdownInv, InitStates, ShutdownStates
    <3>2. device' = (holders \ {cur} # {}) /\ holders' = holders \ {cur}
      BY <3>1, ReleaseExact DEF Release
    <3>3. cur \in holders
      BY <3>1, <3>2 DEF IInv, RefCountExact, TypeOK
    <3> QED
      BY <3>2, <3>3 DEF Shared!Next, Shared!Release
  <2> QED
    BY <2>1, <2>2, <2>3
<1> QED
  BY <1>1, <1>2, Inductive, PTL DEF Spec, ImplementsSharedDevice, Shared!Spec

-----------------------------------------------------------------------------
(* DrmMain: the library.                                                   *)

LEMMA SystemType == ASSUME TypeOK, System PROVE TypeOK'
BY ControlType, WorkerType DEF System

\* How a step of the engines moves the control thread about the device.
LEMMA DeviceStep ==
    ASSUME TypeOK, System
    PROVE  \/ device' = device /\ cpc' = cpc
           \/ cpc = "acquire" /\ cpc' = "probe" /\ device'
           \/ cpc = "acquire" /\ cpc' = "unlock" /\ ~device /\ ~device'
           \/ cpc # "acquire" /\ (device' => device)
<1>1. CASE \E e \in Engines : Worker(e) \/ HardwareAnswer(e) \/ CancelledReturn(e)
  <2>1. PICK e \in Engines : Worker(e) \/ HardwareAnswer(e) \/ CancelledReturn(e)
    BY <1>1
  <2>2. device' = device /\ cpc' = cpc
    BY <2>1 DEF deviceVars, Worker, WorkerStart, WorkerLoop, WorkerMark, WorkerSubmit,
      WorkerClear, WorkerCheck, WorkerNoteSuccess, WorkerNoteError, WorkerStop, WorkerWake,
      HardwareAnswer, CancelledReturn
  <2> QED
    BY <2>2
<1>2. CASE Control
  <2> USE DEF Step, deviceVars
  <2>1. CASE InitAcquire \/ InitAcquireFails
    BY <2>1 DEF InitAcquire, InitAcquireFails, Acquire
  <2>2. CASE InitErrReleaseDev \/ ShutdownPut
    BY <2>2 DEF InitErrReleaseDev, ShutdownPut, Release
  <2>3. CASE ~(InitAcquire \/ InitAcquireFails \/ InitErrReleaseDev \/ ShutdownPut)
    BY <1>2, <2>3 DEF Control, InitAlready, InitReset, InitProbe, InitAlloc, InitCreate,
      InitCreateFails, InitErrFreeBuffers, InitErrReleaseLock, ShutdownReadDevice,
      ShutdownFlag, ShutdownCancel, ShutdownJoin, ShutdownCleanup
  <2> QED
    BY <2>1, <2>2, <2>3
<1> QED
  BY <1>1, <1>2 DEF System

\* The heap is finite, and holds neither NULL nor a block to come.
LEMMA HeapFinite ==
    ASSUME LibInv
    PROVE  /\ IsFiniteSet(heap) /\ Cardinality(heap) \in Nat
           /\ fresh \in Nat \ {0} /\ lateFailures \in Nat
           /\ Nil \notin heap \cup opened
           /\ fresh \notin heap \cup opened /\ fresh + 1 \notin heap \cup opened
<1>1. /\ fresh \in Nat \ {0} /\ lateFailures \in Nat
      /\ heap \subseteq 1..(fresh - 1) /\ opened \subseteq 1..(fresh - 1)
  BY DEF LibInv
<1>2. IsFiniteSet(1..(fresh - 1))
  BY <1>1, FS_Interval
<1>3. IsFiniteSet(heap) /\ Cardinality(heap) \in Nat
  BY <1>1, <1>2, FS_Subset, FS_CardinalityType
<1>4. /\ Nil \notin 1..(fresh - 1)
      /\ fresh \notin 1..(fresh - 1) /\ fresh + 1 \notin 1..(fresh - 1)
  BY <1>1 DEF Nil
<1> QED
  BY <1>1, <1>3, <1>4, Zenon

LEMMA TwoMore ==
    ASSUME NEW S, IsFiniteSet(S), NEW a, NEW b, a \notin S, b \notin S, a # b
    PROVE  Cardinality(S \cup {a, b}) = Cardinality(S) + 2
<1>1. Cardinality(S \cup {a}) = Cardinality(S) + 1 /\ IsFiniteSet(S \cup {a})
  BY FS_AddElement
<1>2. Cardinality((S \cup {a}) \cup {b}) = Cardinality(S \cup {a}) + 1
  BY <1>1, FS_AddElement
<1>3. (S \cup {a}) \cup {b} = S \cup {a, b}
  OBVIOUS
<1>4. Cardinality(S \cup {a, b}) = Cardinality(S \cup {a}) + 1
  BY <1>2, <1>3, Zenon
<1> QED
  BY <1>1, <1>4, FS_CardinalityType

LEMMA TwoFewer ==
    ASSUME NEW S, IsFiniteSet(S), NEW a \in S, NEW b \in S, a # b
    PROVE  Cardinality(S \ {a, b}) = Cardinality(S) - 2
<1>1. Cardinality(S \ {a}) = Cardinality(S) - 1 /\ IsFiniteSet(S \ {a})
  BY FS_RemoveElement
<1>2. Cardinality((S \ {a}) \ {b}) = Cardinality(S \ {a}) - 1
  BY <1>1, FS_RemoveElement
<1>3. (S \ {a}) \ {b} = S \ {a, b}
  OBVIOUS
<1>4. Cardinality(S \ {a, b}) = Cardinality(S \ {a}) - 1
  BY <1>2, <1>3, Zenon
<1> QED
  BY <1>1, <1>4, FS_CardinalityType

\* Each step of axidma_init, its failures included, gives back what it must.
LEMMA LibraryStepInv ==
    ASSUME TypeOK, LibInv, LibraryStep
    PROVE  LibInv'
<1>1. device' = device /\ cpc' = cpc /\ cpc = "acquire" /\ ~device
  BY DEF LibraryStep, Opening, vars, deviceVars
<1>2. Opening /\ Opening' /\ ~device /\ ~device'
  BY <1>1 DEF Opening
<1>3. /\ IsFiniteSet(heap) /\ Cardinality(heap) \in Nat /\ lateFailures \in Nat
      /\ fresh \in Nat \ {0}
      /\ fresh \notin heap \cup opened /\ fresh + 1 \notin heap \cup opened
  BY HeapFinite
<1>4. opened \cup heap \subseteq 1..(fresh - 1)
  BY DEF LibInv
<1>5. SUFFICES ASSUME InitStep
               PROVE  /\ lib' \in {"out", "probe", "signal", "ok", "failed"} /\ ~doubleFreed'
                      /\ fresh' \in Nat \ {0} /\ lateFailures' \in Nat
                      /\ opened' \cup heap' \subseteq 1..(fresh' - 1)
                      /\ initialized' \in BOOLEAN /\ (initialized' <=> lib' = "ok")
                      /\ opened' = IF lib' \in {"probe", "signal", "ok"} THEN {fd'} ELSE {}
                      /\ lib' \in {"signal", "ok"} =>
                            {channels', lists'} \subseteq heap' /\ channels' # lists'
                      /\ Cardinality(heap') =
                            2 * ((IF lib' \in {"signal", "ok"} THEN 1 ELSE 0) + lateFailures')
  BY <1>2 DEF LibInv, HasDescriptor, HasTables, LibraryStep
<1>6. /\ ~doubleFreed
      /\ initialized \in BOOLEAN /\ (initialized <=> lib = "ok")
      /\ opened = IF lib \in {"probe", "signal", "ok"} THEN {fd} ELSE {}
      /\ lib \in {"signal", "ok"} => {channels, lists} \subseteq heap /\ channels # lists
      /\ Cardinality(heap) = 2 * ((IF lib \in {"signal", "ok"} THEN 1 ELSE 0) + lateFailures)
  BY <1>2 DEF LibInv, HasDescriptor, HasTables
<1> USE DEF CloseAndFail
<1>7. CASE OpenDevice
  BY <1>3, <1>4, <1>6, <1>7 DEF OpenDevice
<1>8. CASE ProbeFails
  BY <1>3, <1>4, <1>6, <1>8 DEF ProbeFails
<1>9. CASE CategorizeChannels
  <2>1. CASE /\ channels' = fresh /\ lists' = fresh + 1 /\ fresh' = fresh + 2
             /\ heap' = heap \cup {fresh, fresh + 1}
             /\ lib' = "signal" /\ UNCHANGED <<fd, opened>>
    <3>1. Cardinality(heap') = Cardinality(heap) + 2
      BY <1>3, <2>1, TwoMore
    <3>2. opened' \cup heap' \subseteq 1..(fresh' - 1) /\ fresh' \in Nat \ {0}
      BY <1>3, <1>4, <2>1
    <3>3. channels' \in heap' /\ lists' \in heap' /\ channels' # lists'
      BY <1>3, <2>1
    <3> QED
      BY <1>3, <1>6, <1>9, <2>1, <3>1, <3>2, <3>3 DEF CategorizeChannels
  <2>2. CASE (channels' = Nil /\ UNCHANGED <<lists, heap, fresh>> /\ CloseAndFail) \/ ListFails
    BY <1>3, <1>4, <1>6, <1>9, <2>2 DEF CategorizeChannels, ListFails
  <2> QED
    BY <1>9, <2>1, <2>2 DEF CategorizeChannels
<1>10. CASE SetupCallback
  <2>1. /\ opened = {fd} /\ {channels, lists} \subseteq heap /\ channels # lists
        /\ Cardinality(heap) = 2 + 2 * lateFailures /\ lib = "signal"
        /\ UNCHANGED <<channels, lists, heap, fresh, doubleFreed>>
    BY <1>3, <1>6, <1>10 DEF SetupCallback
  <2>2. CASE lib' = "ok" /\ initialized' = TRUE /\ UNCHANGED <<fd, opened, lateFailures>>
    BY <1>3, <1>4, <1>6, <2>1, <2>2
  <2>3. CASE CloseAndFail /\ lateFailures' = lateFailures + 1 /\ UNCHANGED initialized
    <3>1. opened' = {} /\ lib' = "failed" /\ initialized' = initialized /\ ~initialized
      BY <1>6, <2>1, <2>3
    <3>2. opened' \cup heap' \subseteq 1..(fresh' - 1)
      BY <1>4, <2>1, <3>1
    <3>3. Cardinality(heap') = 2 * lateFailures' /\ lateFailures' \in Nat
      BY <1>3, <2>1, <2>3
    <3>4. lib' \notin {"probe", "signal", "ok"} /\ lib' \notin {"signal", "ok"}
      BY <3>1
    <3>5. Cardinality(heap') =
            2 * ((IF lib' \in {"signal", "ok"} THEN 1 ELSE 0) + lateFailures')
      BY <3>3, <3>4
    <3>6. initialized' \in BOOLEAN /\ (initialized' <=> lib' = "ok")
      BY <1>6, <3>1
    <3>7. ~doubleFreed' /\ fresh' \in Nat \ {0}
      BY <1>3, <1>6, <2>1
    <3> QED
      BY <3>1, <3>2, <3>3, <3>4, <3>5, <3>6, <3>7
  <2> QED
    BY <1>10, <2>2, <2>3 DEF SetupCallback
<1> QED
  BY <1>5, <1>7, <1>8, <1>9, <1>10 DEF InitStep

\* The engines go on with what axidma_init returned, and destroy what it built.
LEMMA EngineStepLib ==
    ASSUME TypeOK, LibInv, EngineStep
    PROVE  LibInv'
<1>1. /\ device \in BOOLEAN /\ device' \in BOOLEAN /\ System
      /\ IsFiniteSet(heap) /\ Cardinality(heap) \in Nat /\ Nil \notin heap /\ lateFailures \in Nat
      /\ fresh \in Nat \ {0}
  BY SystemType, HeapFinite DEF TypeOK, EngineStep
<1>2. CASE Opening /\ cpc' # "acquire"
  <2>1. Return(device') /\ ~device /\ cpc = "acquire"
    BY <1>2 DEF EngineStep, Opening
  <2>2. lib = (IF device' THEN "ok" ELSE "failed") /\ lib' = "out"
    BY <2>1 DEF Return
  <2>3. ~Opening'
    BY <1>2 DEF Opening
  <2>4. /\ HasDescriptor' = HasDescriptor /\ HasTables' = HasTables
        /\ initialized \in BOOLEAN /\ (initialized <=> device')
    BY <1>1, <2>1, <2>2 DEF HasDescriptor, HasTables, LibInv
  <2>5. /\ ~doubleFreed' /\ fresh' \in Nat \ {0} /\ lateFailures' \in Nat
        /\ opened' \cup heap' \subseteq 1..(fresh' - 1)
    BY <2>1 DEF Return, LibInv
  <2>6. /\ opened' = IF HasDescriptor' THEN {fd'} ELSE {}
        /\ HasTables' => {channels', lists'} \subseteq heap' /\ channels' # lists'
        /\ Cardinality(heap') = 2 * ((IF HasTables' THEN 1 ELSE 0) + lateFailures')
    BY <2>1, <2>4 DEF Return, LibInv
  <2>7. initialized' \in BOOLEAN /\ (initialized' <=> device' \/ lib' = "ok")
    BY <2>1, <2>2, <2>4 DEF Return
  <2> QED
    BY <2>2, <2>3, <2>5, <2>6, <2>7 DEF LibInv
<1>3. CASE ~(Opening /\ cpc' # "acquire") /\ device /\ ~device'
  <2>1. Destroy /\ ~Opening /\ lib = "out"
    BY <1>3 DEF EngineStep, Opening, LibInv
  <2>2. {channels, lists} \subseteq heap /\ channels # lists /\ opened = {fd}
    BY <1>3 DEF LibInv, HasTables, HasDescriptor
  <2>3. heap' = heap \ {lists, channels} /\ ~doubleFreed'
    BY <1>1, <2>1, <2>2 DEF Destroy, LibInv
  <2>4. Cardinality(heap') = Cardinality(heap) - 2
    BY <1>1, <2>2, <2>3, TwoFewer
  <2>5. /\ opened' = {} /\ initialized' = FALSE /\ lib' = "out"
        /\ fresh' = fresh /\ lateFailures' = lateFailures
    BY <2>1, <2>2 DEF Destroy
  <2>6. ~HasDescriptor' /\ ~HasTables' /\ HasTables
    BY <1>3, <2>5 DEF HasDescriptor, HasTables
  <2>7. Cardinality(heap') = 2 * lateFailures'
    BY <1>1, <2>4, <2>5, <2>6 DEF LibInv
  <2>8. opened' \cup heap' \subseteq 1..(fresh' - 1)
    BY <2>3, <2>5 DEF LibInv
  <2>9. fresh' \in Nat \ {0} /\ lateFailures' \in Nat
    BY <1>1, <2>5
  <2>10. Cardinality(heap') = 2 * ((IF HasTables' THEN 1 ELSE 0) + lateFailures')
    BY <2>6, <2>7, <2>9
  <2>11. initialized' \in BOOLEAN /\ (initialized' <=> device' \/ lib' = "ok")
    BY <1>3, <2>5
  <2> QED
    BY <2>3, <2>5, <2>6, <2>8, <2>9, <2>10, <2>11, SMT DEF LibInv
<1>4. CASE ~(Opening /\ cpc' # "acquire") /\ ~(device /\ ~device')
  <2>1. UNCHANGED libVars
    BY <1>1, <1>4 DEF EngineStep
  <2>2. device' = device
    BY <1>1, <1>4, DeviceStep DEF Opening
  <2>3. Opening => Opening'
    BY <1>4, <2>2 DEF Opening
  <2> QED
    BY <2>1, <2>2, <2>3 DEF libVars, LibInv, HasDescriptor, HasTables
<1> QED
  BY <1>1, <1>2, <1>3, <1>4

\* Nothing else that happens touches what the library holds.
LEMMA OtherStepLib ==
    ASSUME LibInv, UNCHANGED libVars, device' = device, Opening => Opening'
    PROVE  LibInv'
BY DEF libVars, LibInv, HasDescriptor, HasTables

-----------------------------------------------------------------------------
(* DrmMain: the calls of main().                                           *)

\* A shutdown works on its engine alone, and ends with that engine down.
LEMMA ShutdownFrame ==
    ASSUME IInv, Control, cpc \in ShutdownStates
    PROVE  /\ ControlFrame
           /\ cpc' \in {"idle"} \cup ShutdownStates
           /\ cpc' = "idle" => Down(cur)'
<1> cur \in Engines /\ TypeOK
  BY DEF IInv, TypeOK
<1>1. \/ ShutdownReadDevice \/ ShutdownFlag \/ ShutdownCancel \/ ShutdownJoin
      \/ ShutdownCleanup \/ ShutdownPut
  BY DEF Control, ShutdownStates, Step, InitAlready, InitReset, InitAcquire,
    InitAcquireFails, InitProbe, InitAlloc, InitCreate, InitCreateFails,
    InitErrFreeBuffers, InitErrReleaseDev, InitErrReleaseLock
<1> USE DEF Step, deviceVars, engineVars, workerVars, localVars, ShutdownStates, TypeOK
<1>2. ControlFrame
  <2>1. CASE ShutdownReadDevice \/ ShutdownFlag \/ ShutdownCancel
    BY <2>1 DEF ControlFrame, ShutdownReadDevice, ShutdownFlag, ShutdownCancel
  <2>2. CASE ShutdownJoin
    BY <2>2 DEF ControlFrame, ShutdownJoin
  <2>3. CASE ShutdownCleanup
    BY <2>3 DEF ControlFrame, ShutdownCleanup
  <2>4. CASE ShutdownPut
    BY <2>4 DEF ControlFrame, ShutdownPut, Release
  <2> QED
    BY <1>1, <2>1, <2>2, <2>3, <2>4
<1>3. cpc' \in {"idle"} \cup ShutdownStates
  BY <1>1 DEF ShutdownReadDevice, ShutdownFlag, ShutdownCancel, ShutdownJoin,
    ShutdownCleanup, ShutdownPut
<1>4. ASSUME cpc' = "idle" PROVE Down(cur)'
  <2>1. ShutdownPut
    BY <1>1, <1>4 DEF ShutdownReadDevice, ShutdownFlag, ShutdownCancel, ShutdownJoin,
      ShutdownCleanup
  <2>2. Closing(cur) /\ cpc = "put"
    BY <2>1 DEF ShutdownPut, IInv, EngineInv
  <2> QED
    BY <2>1, <2>2 DEF ShutdownPut, Release, Closing, Down
<1> QED
  BY <1>2, <1>3, <1>4

\* The engines' own steps keep an engine down once main() has stopped it.
LEMMA EngineStepStop ==
    ASSUME IInv, StopInv, System, UNCHANGED mainVars
    PROVE  StopInv'
<1>1. at' = at /\ LastStopped' = LastStopped /\ LastStopped \in Engines
  BY TwoEngines DEF mainVars, LastStopped
<1>2. CASE \E e \in Engines : Worker(e) \/ HardwareAnswer(e) \/ CancelledReturn(e)
  <2>1. PICK e \in Engines : WorkerFrame(e)
    BY <1>2, WorkerStepFrame
  <2>2. cpc' = cpc /\ cur' = cur /\ Up(e)
    BY <2>1 DEF WorkerFrame, localVars
  <2>3. ASSUME NEW f \in Engines, Down(f) PROVE Down(f)'
    <3>1. f # e
      BY <2>2, <2>3 DEF Up, Down
    <3> QED
      BY <2>1, <2>3, <3>1 DEF WorkerFrame, Down, deviceVars
  <2> QED
    BY <1>1, <2>2, <2>3 DEF StopInv
<1>3. CASE Control
  <2>1. cpc # "idle" /\ at # 1
    BY <1>3 DEF Control, Step, InitAlready, InitReset, InitAcquire, InitAcquireFails,
      InitProbe, InitAlloc, InitCreate, InitCreateFails, InitErrFreeBuffers,
      InitErrReleaseDev, InitErrReleaseLock, ShutdownReadDevice, ShutdownFlag,
      ShutdownCancel, ShutdownJoin, ShutdownCleanup, ShutdownPut, StopInv
  <2>2. CASE at \notin 4..7
    BY <1>1, <2>1, <2>2 DEF StopInv
  <2>3. CASE at \in 4..7
    <3>1. cpc \in ShutdownStates /\ cur = LastStopped
      BY <2>1, <2>3 DEF StopInv
    <3>2. /\ ControlFrame /\ cur' = cur
          /\ cpc' \in {"idle"} \cup ShutdownStates
          /\ cpc' = "idle" => Down(LastStopped)'
      BY <1>3, <3>1, ShutdownFrame, <1>1 DEF ControlFrame, Down
    <3>3. ASSUME NEW f \in Engines, f # LastStopped, Down(f) PROVE Down(f)'
      BY <3>1, <3>2, <3>3 DEF ControlFrame, Down
    <3> QED
      BY <1>1, <2>1, <2>3, <3>1, <3>2, <3>3 DEF StopInv
  <2> QED
    BY <2>2, <2>3
<1> QED
  BY <1>2, <1>3 DEF System

\* The next shutdown in main()'s order starts when the one before has ended.
LEMMA StopEnginesStop ==
    ASSUME IInv, StopInv, StopEngines
    PROVE  StopInv'
<1> DEFINE e == IF at \in {3, 5} THEN ScopeEngine ELSE MainEngine
<1>1. at \in 3..6 /\ at' = at + 1 /\ CallShutdown(e)
  BY DEF StopEngines
<1>2. cpc = "idle" /\ cpc' = "readDevice" /\ cur' = e
  BY <1>1 DEF CallShutdown, Step
<1>3. LastStopped' = e
  BY <1>1 DEF LastStopped
<1>4. ASSUME NEW f \in Engines, Down(f) PROVE Down(f)'
  BY <1>1, <1>4 DEF CallShutdown, Down, deviceVars, engineVars, workerVars
<1>5. ASSUME at \in 4..6, NEW f \in Engines, f # e PROVE Down(f)
  <2>1. f = LastStopped
    BY <1>5, TwoEngines DEF LastStopped
  <2> QED
    BY <1>2, <1>5, <2>1 DEF StopInv
<1>6. at' \in 4..7 /\ (at' \in 5..7 => at \in 4..6)
  BY <1>1
<1> HIDE DEF e
<1> QED
  BY <1>2, <1>3, <1>4, <1>5, <1>6 DEF StopInv, ShutdownStates

LEMMA MainInitInv == MainInit => MainIInv
<1> SUFFICES ASSUME MainInit PROVE MainIInv
  OBVIOUS
<1>1. TypeOK /\ IInv /\ ~device /\ cpc = "idle" /\ at = 1
  BY InitInv DEF MainInit, IInv, Init
<1>2. LibInv
  <2>1. Cardinality({}) = 0
    BY FS_EmptySet
  <2>2. /\ lib = "out" /\ initialized = FALSE /\ opened = {} /\ heap = {} /\ fresh = 1
        /\ doubleFreed = FALSE /\ lateFailures = 0
    BY DEF MainInit, LibInit
  <2>3. ~HasDescriptor /\ ~HasTables
    BY <1>1, <2>2 DEF HasDescriptor, HasTables
  <2>4. Cardinality(heap) = 2 * ((IF HasTables THEN 1 ELSE 0) + lateFailures)
    BY <2>1, <2>2, <2>3
  <2>5. initialized \in BOOLEAN /\ (initialized <=> device \/ lib = "ok") /\ ~doubleFreed
    BY <1>1, <2>2
  <2>6. opened \cup heap \subseteq 1..(fresh - 1) /\ fresh \in Nat \ {0} /\ lateFailures \in Nat
    BY <2>2
  <2>7. opened = IF HasDescriptor THEN {fd} ELSE {}
    BY <2>2, <2>3
  <2> QED
    BY <2>2, <2>3, <2>4, <2>5, <2>6, <2>7 DEF LibInv
<1>3. StopInv
  <2>1. \A e \in Engines : Down(e)
    BY DEF MainInit, Init, Down
  <2> QED
    BY <1>1, <2>1 DEF StopInv
<1> QED
  BY <1>1, <1>2, <1>3 DEF MainIInv

LEMMA MainNextInv ==
    ASSUME MainIInv, [MainNext]_allVars
    PROVE  MainIInv'
<1>1. TypeOK /\ LibInv /\ (~unbalanced => IInv /\ StopInv)
  BY DEF MainIInv
<1>2. CASE UNCHANGED <<vars, libVars>> /\ unbalanced' = unbalanced
           /\ (~unbalanced => StopInv')
  <2>1. device' = device /\ (Opening => Opening') /\ UNCHANGED libVars
    BY <1>2 DEF vars, deviceVars, Opening
  <2>2. TypeOK'
    BY <1>1, <1>2 DEF vars, deviceVars, engineVars, workerVars, localVars, TypeOK
  <2> QED
    BY <1>1, <1>2, <2>1, <2>2, OtherStepLib, StutterInv DEF MainIInv
<1>3. ASSUME StopInv, UNCHANGED vars, at' = at \/ PrepareFails \/ NoDevice PROVE StopInv'
  <2>1. cpc' = cpc /\ cur' = cur /\ \A e \in Engines : Down(e) => Down(e)'
    BY <1>3 DEF vars, deviceVars, engineVars, workerVars, localVars, Down
  <2>2. CASE at' = at
    <3>1. LastStopped' = LastStopped /\ LastStopped \in Engines
      BY <2>2, TwoEngines DEF LastStopped
    <3> QED
      BY <1>3, <2>1, <2>2, <3>1 DEF StopInv
  <2>3. CASE PrepareFails \/ NoDevice
    BY <1>3, <2>1, <2>3, TwoEngines DEF PrepareFails, NoDevice, StopInv, LastStopped
  <2> QED
    BY <1>3, <2>2, <2>3
<1>4. CASE PrepareFails \/ NoDevice \/ Ended \/ UNCHANGED allVars
  <2>1. UNCHANGED <<vars, libVars>> /\ unbalanced' = unbalanced
    BY <1>4 DEF PrepareFails, NoDevice, Ended, allVars, mainVars
  <2>2. at' = at \/ PrepareFails \/ NoDevice
    BY <1>4 DEF Ended, allVars, mainVars
  <2> QED
    BY <1>1, <1>2, <1>3, <2>1, <2>2
<1>5. CASE LibraryStep
  <2>1. UNCHANGED vars /\ at' = at /\ unbalanced' = unbalanced
    BY <1>5 DEF LibraryStep, mainVars
  <2>2. TypeOK'
    BY <1>1, <2>1 DEF vars, deviceVars, engineVars, workerVars, localVars, TypeOK
  <2> QED
    BY <1>1, <1>3, <1>5, <2>1, <2>2, LibraryStepInv, StutterInv DEF MainIInv
<1>6. CASE EngineStep
  <2>1. System /\ UNCHANGED mainVars /\ unbalanced' = unbalanced
    BY <1>6 DEF EngineStep, mainVars
  <2> QED
    BY <1>1, <1>6, <2>1, SystemType, EngineStepLib, EngineStepStop, ControlInv, WorkerInv
    DEF MainIInv, System
<1>7. CASE StartEngines
  <2>1. PICK e \in Engines : CallInit(e) /\ at \in 1..2
    BY <1>7, TwoEngines DEF StartEngines
  <2>2. UNCHANGED libVars /\ unbalanced' = unbalanced /\ at' = at + 1
    BY <1>7 DEF StartEngines
  <2>3. TypeOK' /\ LibInv'
    BY <1>1, <2>1, <2>2, CallType, OtherStepLib DEF CallInit, Step, Opening, deviceVars
  <2>4. StopInv'
    BY <2>1, <2>2 DEF StopInv
  <2> QED
    BY <1>1, <2>1, <2>2, <2>3, <2>4, CallInv DEF MainIInv
<1>8. CASE StopEngines
  <2>1. PICK e \in Engines : CallShutdown(e) /\ unbalanced' = (unbalanced \/ ~Balanced(e))
    BY <1>8, TwoEngines DEF StopEngines
  <2>2. UNCHANGED libVars
    BY <1>8 DEF StopEngines
  <2>3. TypeOK' /\ LibInv'
    BY <1>1, <2>1, <2>2, CallType, OtherStepLib DEF CallShutdown, Step, Opening, deviceVars
  <2>4. ~unbalanced' => ~unbalanced /\ Balanced(e)
    BY <2>1
  <2> QED
    BY <1>1, <1>8, <2>1, <2>3, <2>4, CallInv, StopEnginesStop DEF MainIInv
<1> QED
  BY <1>4, <1>5, <1>6, <1>7, <1>8 DEF MainNext

\* The library's books hold whatever main() does; the engines and main()'s own
\* progress are as they should be until an engine that is not up is shut down
\* under the other one.
THEOREM MainInductive == MainSpec => []MainIInv
BY MainInitInv, MainNextInv, PTL DEF MainSpec

\* In main()'s order of calls, with any failures, no worker loses its device and
\* the reference count is exact, short of the unbalanced shutdown.
THEOREM EnginesSafe == MainSpec => []SafeWhenBalanced
<1>1. IInv => DeviceOutlivesWorkers
  BY RunningIsUp DEF DeviceOutlivesWorkers, Alive, Up
<1>2. MainIInv => SafeWhenBalanced
  BY <1>1 DEF MainIInv, SafeWhenBalanced, IInv
<1> QED
  BY <1>2, MainInductive, PTL

\* main() returns with the device closed, no references and both engines empty.
THEOREM CleanReturn == MainSpec => []NothingLeftAtReturn
<1>1. MainIInv => NothingLeftAtReturn
  <2> SUFFICES ASSUME MainIInv, at = 7, cpc = "idle", ~unbalanced
               PROVE  users = 0 /\ ~device /\ \A e \in Engines : mapped[e] = 0 /\ ~lockInited[e]
    BY DEF NothingLeftAtReturn
  <2>1. IInv /\ StopInv
    BY DEF MainIInv
  <2>2. \A e \in Engines : Down(e)
    BY <2>1 DEF StopInv
  <2>3. holders = {}
    BY <2>1, <2>2 DEF Down, IInv, TypeOK
  <2>4. users = 0 /\ ~device
    BY <2>1, <2>3, FS_EmptySet DEF IInv, RefCountExact
  <2> QED
    BY <2>2, <2>4 DEF Down
<1> QED
  BY <1>1, MainInductive, PTL

\* axidma_init and axidma_destroy lose two blocks per late failure and nothing else,
\* also when a shutdown is unbalanced.
THEOREM LibraryClean == MainSpec => []LibraryLosesNothing
<1>1. MainIInv => LibraryLosesNothing
  <2> SUFFICES ASSUME MainIInv PROVE LibraryLosesNothing
    OBVIOUS
  <2>1. LibInv
    BY DEF MainIInv
  <2>2. Opening => ~device
    BY DEF Opening
  <2>3. ~Opening => lib = "out"
    BY <2>1 DEF LibInv
  <2>4. ~Opening => (HasDescriptor <=> device) /\ (HasTables <=> device)
    BY <2>3 DEF HasDescriptor, HasTables
  <2>5. Cardinality({}) = 0 /\ Cardinality({fd}) = 1
    BY FS_EmptySet, FS_Singleton
  <2>6. ~Opening => /\ Cardinality(opened) = (IF device THEN 1 ELSE 0)
                    /\ Cardinality(heap) = 2 * ((IF device THEN 1 ELSE 0) + lateFailures)
    BY <2>1, <2>4, <2>5 DEF LibInv
  <2> QED
    BY <2>1, <2>2, <2>6 DEF LibInv, LibraryLosesNothing
<1> QED
  BY <1>1, MainInductive, PTL
=============================================================================

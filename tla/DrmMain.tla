------------------------------ MODULE DrmMain ------------------------------
(***************************************************************************)
(* The order in which main() and modeset_draw() of drm_page1.c call the    *)
(* two engines, whatever their init calls return, with axidma_init and     *)
(* axidma_destroy, which the engines reach through dma_shared_acquire and   *)
(* dma_shared_release, step by step.                                       *)
(***************************************************************************)
EXTENDS DmaEngine, AxiDmaLib

CONSTANTS MainEngine, ScopeEngine
ASSUME TwoEngines == Engines = {MainEngine, ScopeEngine} /\ MainEngine # ScopeEngine

VARIABLES
    at,           \* the next call of main(); 7 when it returns
    unbalanced    \* history: an engine that is not up was shut down under the other

mainVars == <<at, unbalanced>>
allVars == <<vars, libVars, mainVars>>

MainInit == Init /\ LibInit /\ at = 1 /\ unbalanced = FALSE

\* modeset_prepare fails: main() skips to out_close.
PrepareFails ==
    /\ at = 1 /\ cpc = "idle" /\ at' = 5
    /\ UNCHANGED <<vars, libVars, unbalanced>>

\* No display was found: modeset_draw() returns at once.
NoDevice ==
    /\ at = 1 /\ cpc = "idle" /\ at' = 3
    /\ UNCHANGED <<vars, libVars, unbalanced>>

\* modeset_draw() brings the engines up and ignores their failures.
StartEngines ==
    /\ at' = at + 1
    /\ \/ at = 1 /\ CallInit(MainEngine)
       \/ at = 2 /\ CallInit(ScopeEngine)
    /\ UNCHANGED <<libVars, unbalanced>>

\* After the loop, and once more at out_close.
StopEngines ==
    /\ at \in 3..6 /\ at' = at + 1
    /\ LET e == IF at \in {3, 5} THEN ScopeEngine ELSE MainEngine IN
         /\ CallShutdown(e)
         /\ unbalanced' = (unbalanced \/ ~Balanced(e))
    /\ UNCHANGED libVars

\* main() returned, or a thread crashed: nothing more need happen.
Ended ==
    /\ (at = 7 /\ cpc = "idle") \/ \E e \in Engines : wpc[e] = "crashed"
    /\ UNCHANGED allVars

\* The acquire that finds no device is inside axidma_init.
Opening == cpc = "acquire" /\ ~device

LibraryStep == Opening /\ InitStep /\ UNCHANGED <<vars, mainVars>>

\* A step of the engines: the acquire goes on with what axidma_init returned,
\* and the release of the last user calls axidma_destroy.
EngineStep ==
    /\ System
    /\ IF Opening /\ cpc' # "acquire" THEN Return(device')
       ELSE IF device /\ ~device' THEN Destroy
       ELSE UNCHANGED libVars
    /\ UNCHANGED mainVars

MainNext ==
    \/ PrepareFails \/ NoDevice \/ StartEngines \/ StopEngines \/ Ended
    \/ LibraryStep \/ EngineStep

MainSpec == MainInit /\ [][MainNext]_allVars

\* The loop ends on SIGINT, which need not come; once it does, main() goes on.
MainFairness ==
    /\ ThreadFairness /\ HardwareFairness
    /\ WF_allVars(LibraryStep)
    /\ WF_allVars(at > 3 /\ StopEngines)
MainLiveSpec == MainSpec /\ MainFairness

-----------------------------------------------------------------------------
(* Properties.                                                             *)

\* libaxidma.c asserts in every transfer and every stop that the channel is
\* found (assert(dma_chan != NULL)).  When the scope engine's init fails and the
\* main engine runs, its shutdown drops the main engine's device reference.
ChannelAlwaysFound == \A e \in Engines : wpc[e] # "crashed"

\* Short of that case no order of failures hurts: no worker loses its device,
\* and the second pair of shutdowns finds nothing left to return.
SafeWhenBalanced == ~unbalanced => DeviceOutlivesWorkers /\ RefCountExact
NothingLeftAtReturn ==
    at = 7 /\ cpc = "idle" /\ ~unbalanced =>
        users = 0 /\ ~device /\ \A e \in Engines : mapped[e] = 0 /\ ~lockInited[e]

\* Whatever fails in axidma_init, and in whatever order engines come and go, the
\* library keeps one descriptor and one set of tables exactly while the device is
\* in use, frees nothing twice, and is never initialised when it is entered
\* (assert(!g_axidma_dev.initialized)).  The one loss is two blocks for every
\* call that failed in setup_dma_callback, which frees nothing.
LibraryLosesNothing ==
    LET inUse == IF device THEN 1 ELSE 0 IN
    /\ ~doubleFreed
    /\ Opening /\ lib = "out" => ~initialized
    /\ ~Opening => /\ Cardinality(opened) = inUse
                   /\ Cardinality(heap) = 2 * (inUse + lateFailures)

\* Once SIGINT ended the loop, main() returns, if the hardware ends each transfer.
MainReturns == (at > 3) ~> (unbalanced \/ (at = 7 /\ cpc = "idle"))

-----------------------------------------------------------------------------
(* The inductive invariant behind these properties.                        *)

\* The engine shut down last: once its shutdown returned, it and from the second
\* shutdown on the other one are down.
LastStopped == IF at \in {4, 6} THEN ScopeEngine ELSE MainEngine
StopInv ==
    /\ at \in 1..7
    /\ at = 1 => cpc = "idle" /\ \A e \in Engines : Down(e)
    /\ at \in 4..7 =>
          /\ cpc \in {"idle"} \cup ShutdownStates
          /\ cpc # "idle" => cur = LastStopped
          /\ cpc = "idle" => Down(LastStopped)
    /\ at \in 5..7 => \A e \in Engines : e # LastStopped => Down(e)

\* What the library has while the device is in use, and at each place in
\* axidma_init; channels may point to a block that was freed only when it has none.
HasDescriptor == device \/ lib \in {"probe", "signal", "ok"}
HasTables == device \/ lib \in {"signal", "ok"}
LibInv ==
    /\ lib \in {"out", "probe", "signal", "ok", "failed"} /\ ~doubleFreed
    /\ fresh \in Nat \ {0} /\ lateFailures \in Nat /\ opened \cup heap \subseteq 1..(fresh - 1)
    /\ lib # "out" => Opening
    /\ initialized \in BOOLEAN /\ (initialized <=> device \/ lib = "ok")
    /\ opened = IF HasDescriptor THEN {fd} ELSE {}
    /\ HasTables => {channels, lists} \subseteq heap /\ channels # lists
    /\ Cardinality(heap) = 2 * ((IF HasTables THEN 1 ELSE 0) + lateFailures)

MainIInv == TypeOK /\ LibInv /\ (~unbalanced => IInv /\ StopInv)
=============================================================================

----------------------------- MODULE AxiDmaLib -----------------------------
(***************************************************************************)
(* Opening and closing the AXI DMA device: axidma_init and axidma_destroy  *)
(* of libaxidma.c on the one g_axidma_dev, with the heap blocks and the    *)
(* descriptor they take.  One action per function axidma_init calls, each  *)
(* free to fail where the code tests for it.  The arrays a function frees  *)
(* before it returns are left out, and the four lists of channel ids are   *)
(* one block.  close() of this character device does not fail.             *)
(***************************************************************************)
EXTENDS Integers, FiniteSets

VARIABLES
    lib,            \* where axidma_init is; "ok" and "failed" are its results
    initialized, fd, channels, lists,    \* the fields of g_axidma_dev
    opened, heap,   \* descriptors and blocks that were not closed or freed
    fresh,          \* the next new descriptor or block
    doubleFreed,    \* history: a block was freed that was not allocated
    lateFailures    \* history: calls that failed in setup_dma_callback

libVars == <<lib, initialized, fd, channels, lists, opened, heap, fresh,
             doubleFreed, lateFailures>>

Nil == 0    \* a NULL pointer, and no descriptor

LibInit ==
    /\ lib = "out" /\ initialized = FALSE
    /\ fd = Nil /\ channels = Nil /\ lists = Nil
    /\ opened = {} /\ heap = {} /\ fresh = 1
    /\ doubleFreed = FALSE /\ lateFailures = 0

OpenDevice ==
    /\ lib = "out"
    /\ \/ /\ lib' = "probe" /\ fd' = fresh
          /\ opened' = opened \cup {fresh} /\ fresh' = fresh + 1
       \/ lib' = "failed" /\ fd' = Nil /\ UNCHANGED <<opened, fresh>>
    /\ UNCHANGED <<initialized, channels, lists, heap, doubleFreed, lateFailures>>

CloseAndFail == lib' = "failed" /\ opened' = opened \ {fd} /\ fd' = Nil

\* The driver does not say how many channels there are or which, there are
\* none, or there is no memory for the answer.
ProbeFails ==
    /\ lib = "probe" /\ CloseAndFail
    /\ UNCHANGED <<initialized, channels, lists, heap, fresh, doubleFreed, lateFailures>>

\* Fault: the channel table is not freed when a list cannot be allocated.
ListFailureKeepsTable ==
    /\ channels' = fresh /\ lists' = Nil /\ heap' = heap \cup {fresh}
    /\ fresh' = fresh + 1 /\ CloseAndFail

\* The table is freed again, and dev->channels is left pointing at it.
ListFails ==
    /\ channels' = fresh /\ lists' = Nil /\ UNCHANGED heap
    /\ fresh' = fresh + 1 /\ CloseAndFail

CategorizeChannels ==
    /\ lib = "probe"
    /\ \/ /\ channels' = fresh /\ lists' = fresh + 1 /\ fresh' = fresh + 2
          /\ heap' = heap \cup {fresh, fresh + 1}
          /\ lib' = "signal" /\ UNCHANGED <<fd, opened>>
       \/ channels' = Nil /\ UNCHANGED <<lists, heap, fresh>> /\ CloseAndFail
       \/ ListFails
    /\ UNCHANGED <<initialized, doubleFreed, lateFailures>>

\* When the signal cannot be set up the table and the lists stay allocated.
SetupCallback ==
    /\ lib = "signal"
    /\ \/ /\ lib' = "ok" /\ initialized' = TRUE
          /\ UNCHANGED <<fd, opened, lateFailures>>
       \/ /\ CloseAndFail /\ lateFailures' = lateFailures + 1
          /\ UNCHANGED initialized
    /\ UNCHANGED <<channels, lists, heap, fresh, doubleFreed>>

InitStep == OpenDevice \/ ProbeFails \/ CategorizeChannels \/ SetupCallback

\* axidma_init returns the device, or NULL.
Return(success) ==
    /\ lib = (IF success THEN "ok" ELSE "failed")
    /\ lib' = "out"
    /\ UNCHANGED <<initialized, fd, channels, lists, opened, heap, fresh,
                   doubleFreed, lateFailures>>

Destroy ==
    LET freed == {lists, channels} \ {Nil} IN
    /\ heap' = heap \ freed
    /\ doubleFreed' = (doubleFreed \/ ~(freed \subseteq heap))
    /\ lists' = Nil /\ channels' = Nil
    /\ opened' = opened \ {fd} /\ fd' = Nil
    /\ initialized' = FALSE
    /\ UNCHANGED <<lib, fresh, lateFailures>>
=============================================================================

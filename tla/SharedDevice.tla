--------------------------- MODULE SharedDevice ---------------------------
(***************************************************************************)
(* What dma_shared_acquire and dma_shared_release promise the engines: the *)
(* device is open exactly while an engine holds it.                        *)
(***************************************************************************)
CONSTANT Engines

VARIABLES open, holders

Init == open = FALSE /\ holders = {}

\* The first holder opens the device; nobody acquires twice.
Acquire(e) == /\ e \notin holders
              /\ holders' = holders \cup {e}
              /\ open' = TRUE

\* Only a holder releases; the last one closes.
Release(e) == /\ e \in holders
              /\ holders' = holders \ {e}
              /\ open' = (holders \ {e} # {})

Next == \E e \in Engines : Acquire(e) \/ Release(e)

Spec == Init /\ [][Next]_<<open, holders>>
=============================================================================

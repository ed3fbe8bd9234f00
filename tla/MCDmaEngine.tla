---------------------------- MODULE MCDmaEngine ----------------------------
(* The two engines of the program, for TLC.                                *)
EXTENDS DmaEngine

MCEngines == {"main", "scope"}
MCRxIndex == [e \in MCEngines |-> IF e = "main" THEN 0 ELSE 1]
\* A channel for each engine, one for both, and none.
MCRxTables == {<<4, 7>>, <<4>>, <<>>}
=============================================================================

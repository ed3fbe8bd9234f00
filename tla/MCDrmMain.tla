----------------------------- MODULE MCDrmMain -----------------------------
(* main() with its two engines, for TLC.                                   *)
EXTENDS DrmMain

MCEngines == {"main", "scope"}
MCRxIndex == [e \in MCEngines |-> IF e = "main" THEN 0 ELSE 1]
TwoChannels == {<<4, 7>>}
=============================================================================

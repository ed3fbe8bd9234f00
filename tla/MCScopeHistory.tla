--------------------------- MODULE MCScopeHistory ---------------------------
EXTENDS ScopeHistory

RawValues == {-2, 0, 1}
=============================================================================

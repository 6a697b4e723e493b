---------------------------- MODULE MCPreciseBank ----------------------------
EXTENDS PreciseBank

\* Account 1 is the x/vm module account, 2 is a user; 0 is the reserve.
MCModules == {1}
MCBlocked == {0, 1}
=============================================================================

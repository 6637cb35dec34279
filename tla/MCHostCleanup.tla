--------------------------- MODULE MCHostCleanup ---------------------------
(* TLC instance of the cleanup supervisor.                                 *)
EXTENDS HostCleanup, TLC

CONSTANTS l1, l2
MCLeases == {l1, l2}
=============================================================================

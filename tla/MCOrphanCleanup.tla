--------------------------- MODULE MCOrphanCleanup ---------------------------
(* Two cleanups of the same sandbox, for TLC.                              *)
EXTENDS OrphanCleanup

CONSTANTS c1, c2

Two       == {c1, c2}
MCPids    == 1 .. 2
AllFaults == {"ReadDir", "Open", "Signal", "Poll"}
=============================================================================

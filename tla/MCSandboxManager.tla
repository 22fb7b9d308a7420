-------------------------- MODULE MCSandboxManager --------------------------
(* Tasks of two allocations, for TLC.                                      *)
EXTENDS SandboxManager, TLC

CONSTANTS c1, c2, c3, c4, c5, a1, a2

\* Three tasks of one allocation and two of another.
MCCallers == {c1, c2, c3, c4, c5}
MCAllocs  == {a1, a2}
MCAllocOf == c1 :> a1 @@ c2 :> a1 @@ c3 :> a1 @@ c4 :> a2 @@ c5 :> a2
=============================================================================

--------------------------- MODULE MCHandleClients ---------------------------
(* Two runs of a task, one waiter at a time and one stats stream, for TLC. *)
EXTENDS HandleClients

CONSTANT w1

One      == {w1}
OkOrFail == {"ok", "failed"}
=============================================================================

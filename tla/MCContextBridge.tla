--------------------------- MODULE MCContextBridge ---------------------------
(* ContextBridge with two interchangeable tasks. *)
EXTENDS ContextBridge, TLC

CONSTANTS t1, t2
AllWidths == BOOLEAN \X BOOLEAN
TaskSymmetry == Permutations(Task)
=============================================================================

------------------------------- MODULE Passes -------------------------------
(***************************************************************************)
(* What finalize of src/mir65816/emit/layout.rs and relax of               *)
(* src/mir68k/branch_relaxation.rs have in common: every branch is tried   *)
(* once in a pass, in the order of the code, and passes follow each other  *)
(* until one changes nothing.                                              *)
(***************************************************************************)
EXTENDS Relaxation

CONSTANT WordReach            \* bytes an i16 reaches back

ASSUME SiteOrder == \A i \in Site : i > 0 /\ 1..i \subseteq Site

VARIABLES next,               \* the branch tried next, one past the last at the end
          changed             \* whether this pass shrank one

FirstPass == next = 1 /\ changed = FALSE

Again ==
  /\ next \notin Site /\ changed
  /\ next' = 1 /\ changed' = FALSE
  /\ UNCHANGED <<branches, layout>>

PassesDone == next \notin Site /\ ~changed
=============================================================================

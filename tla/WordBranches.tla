---------------------------- MODULE WordBranches ----------------------------
(***************************************************************************)
(* relax of src/mir68k/branch_relaxation.rs: branches of 8 bytes and jumps *)
(* of 6 that may become word branches.  A pass measures every one of them  *)
(* in the layout before the pass, in which none of those it shrinks has    *)
(* shrunk, and passes follow until one changes nothing.                    *)
(***************************************************************************)
EXTENDS Passes

VARIABLE measured             \* shift when the pass began, which labels and cursor follow

(* The processor counts from the word after the opcode.                    *)
BranchRelative == [size |-> 4, base |-> 2, low |-> -WordReach, high |-> WordReach - 1]
Absolute(size) == [size |-> size, base |-> 2, low |-> -Last, high |-> Last]

WordInit ==
  /\ \A i \in Site : forms[i] = {BranchRelative} /\ \E s \in {6, 8} : long[i] = Absolute(s)
  /\ Unshrunk
  /\ FirstPass /\ measured = shift

Cursor_Shrinks(i) == at[i] - shift[at[i]]
Cursor(i) == at[i] - measured[at[i]]
Label(i) == target[i] - measured[target[i]]
InRange(i) == form[i] # BranchRelative /\ Reach(BranchRelative, Label(i) - (Cursor(i) + 2))

Relax(i) ==
  /\ i = next
  /\ \/ InRange(i) /\ Take(i, BranchRelative) /\ changed' = TRUE
     \/ ~InRange(i) /\ UNCHANGED <<branches, layout, changed>>
  /\ next' = next + 1
  /\ UNCHANGED measured

Remeasure == Again /\ measured' = shift

WordNext == (\E i \in Site : Relax(i)) \/ Remeasure
WordSpec == WordInit /\ [][WordNext]_<<branches, layout, next, changed, measured>>

-----------------------------------------------------------------------------
(* When the loop ends, no long branch would reach by the distance the long *)
(* forms leave, for the last pass measures before it shrinks.              *)
WordMissesNothing ==
  PassesDone => \A i \in Site : \A f \in forms[i] :
    f.size < form[i].size => ~Reach(f, Placed(target[i]) - (Placed(at[i]) + f.base))
=============================================================================

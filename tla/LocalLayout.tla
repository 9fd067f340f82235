----------------------------- MODULE LocalLayout -----------------------------
(***************************************************************************)
(* finalize of src/mir65816/emit/layout.rs: conditional branches of 6      *)
(* bytes that may become Bcc, jumps of 4 bytes that may become BRL or BRA. *)
(* Each branch is tried in turn in the layout as it is at that moment, the *)
(* shortest form first, until a pass over all of them changes nothing.     *)
(* Encoding and the map of labels, fixups and spans are left out.          *)
(***************************************************************************)
EXTENDS Passes

CONSTANT ByteReach            \* bytes an i8 reaches back

Signed(size, reach) == [size |-> size, base |-> size, low |-> -reach, high |-> reach - 1]
Relative8 == Signed(2, ByteReach)
Relative16 == Signed(3, WordReach)
Unlimited(size) == [size |-> size, base |-> size, low |-> -Last, high |-> Last]

IsConditional(i) == forms[i] = {Relative8} /\ long[i] = Unlimited(6)
IsJump(i) == forms[i] = {Relative8, Relative16} /\ long[i] = Unlimited(4)

LocalInit ==
  /\ \A i \in Site : IsConditional(i) \/ IsJump(i)
  /\ Unshrunk
  /\ FirstPass

(* Only a forward branch brings its own target closer.                     *)
Delta_Forgets(i, f) == Placed(target[i]) - (Placed(at[i]) + f.size)
Delta(i, f) ==
  LET own == IF target[i] >= at[i] + long[i].size THEN form[i].size - f.size ELSE 0 IN
  Placed(target[i]) - own - (Placed(at[i]) + f.size)

Fits_SameSize(i, f) == f \in forms[i] /\ f.size <= form[i].size /\ Reach(f, Delta(i, f))
Fits(i, f) == f \in forms[i] /\ f.size < form[i].size /\ Reach(f, Delta(i, f))
FirstFit(i, f) == Fits(i, f) /\ \A g \in forms[i] : Fits(i, g) => f.size <= g.size

Try(i) ==
  /\ i = next
  /\ \/ \E f \in forms[i] : FirstFit(i, f) /\ Take(i, f) /\ changed' = TRUE
     \/ (\A f \in forms[i] : ~Fits(i, f)) /\ UNCHANGED <<branches, layout, changed>>
  /\ next' = next + 1

LocalNext == (\E i \in Site : Try(i)) \/ Again
LocalSpec == LocalInit /\ [][LocalNext]_<<branches, layout, next, changed>>

-----------------------------------------------------------------------------
(* When the loop ends, no branch would reach in a shorter form.            *)
LocalMissesNothing ==
  PassesDone => \A i \in Site : \A f \in forms[i] :
    f.size < form[i].size => ~Reach(f, Displacement(i, f))
=============================================================================

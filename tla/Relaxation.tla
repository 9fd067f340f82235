----------------------------- MODULE Relaxation -----------------------------
(***************************************************************************)
(* What the layout of a routine does to its branches, whatever the machine *)
(* and the order: each starts in its longest form, which reaches anything, *)
(* and may take a shorter one whose displacement fits in the layout that   *)
(* then results.  Positions are those of the code before any was shrunk;   *)
(* shift says how many bytes before a position are gone.                   *)
(***************************************************************************)
EXTENDS Integers

CONSTANTS Site,               \* branches, in the order of the code
          Last                \* where the code ends, before shrinking

ASSUME SiteAssumption == Site \subseteq Nat /\ Last \in Nat

VARIABLES at,                 \* where each branch starts
          target,             \* where it goes
          forms,              \* the forms it may take
          long,               \* the one it has at first
          form,               \* the one it has now
          shift               \* bytes saved before each position

branches == <<at, target, forms, long>>
layout == <<form, shift>>

Position == 0..Last
Form == [size : Nat \ {0}, base : Nat, low : Int, high : Int]
Reach(f, d) == f.low <= d /\ d <= f.high
End(i) == at[i] + long[i].size

(* Displacements count from base bytes into the branch, at most its end.   *)
FormOK(f) == f \in Form /\ f.base <= f.size /\ f.low <= 0 /\ 0 <= f.high

(* Branches do not overlap and lead to no byte inside one.                 *)
InputOK ==
  /\ at \in [Site -> Position] /\ target \in [Site -> Position]
  /\ long \in [Site -> Form] /\ forms \in [Site -> SUBSET Form]
  /\ \A i \in Site : FormOK(long[i]) /\ (\A f \in forms[i] : FormOK(f)) /\ End(i) <= Last
  /\ \A i, j \in Site : i # j => End(i) <= at[j] \/ End(j) <= at[i]
  /\ \A i, j \in Site : target[i] <= at[j] \/ End(j) <= target[i]

Unshrunk ==
  /\ InputOK
  /\ form = long
  /\ shift = [p \in Position |-> 0]

Placed(p) == p - shift[p]
Ahead(i) == target[i] >= End(i)

(* The displacement of i once it has form f and nothing else has changed.  *)
Displacement(i, f) ==
  LET own == IF Ahead(i) THEN form[i].size - f.size ELSE 0 IN
  Placed(target[i]) - own - (Placed(at[i]) + f.base)

Take(i, f) ==
  /\ form' = [form EXCEPT ![i] = f]
  /\ shift' = [p \in Position |-> IF End(i) <= p THEN shift[p] + (form[i].size - f.size) ELSE shift[p]]
  /\ UNCHANGED branches

Shrink(i, f) ==
  /\ f \in forms[i] /\ f.size < form[i].size
  /\ Reach(f, Displacement(i, f))
  /\ Take(i, f)

ShrinkNext == \E i \in Site : \E f \in forms[i] : Shrink(i, f)
ShrinkSpec == Unshrunk /\ [][ShrinkNext]_<<branches, layout>>

-----------------------------------------------------------------------------
LayoutOK ==
  /\ form \in [Site -> Form]
  /\ \A i \in Site : form[i] = long[i] \/ (form[i] \in forms[i] /\ form[i].size < long[i].size)
  /\ shift \in [Position -> Nat]

(* However many branches shrink after it, a branch reaches its target in   *)
(* the layout as it is with the form it was once given.                    *)
ChosenReach ==
  \A i \in Site : form[i] # long[i] => Reach(form[i], Displacement(i, form[i]))
=============================================================================

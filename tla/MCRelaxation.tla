---------------------------- MODULE MCRelaxation ----------------------------
(* Loops that change code by positions in it.  Both relaxations, on every  *)
(* routine of a few branches laid out with gaps of a few bytes, with       *)
(* displacements scaled down so that they matter.  And the two drivers of  *)
(* rewrites of the 6502, on a small block and every small set of plans.    *)
EXTENDS LocalLayout, WordBranches, RewriteDriver

CONSTANTS Sites,              \* bound: number of branches
          Gaps                \* bytes between two branches

CONSTANTS Operations,         \* bound: operations of a block that is rewritten
          Inserted            \* bound: operations a plan brings

VARIABLE machine              \* which of the loops a behaviour is about

relaxed == <<branches, layout, next, changed, measured, machine>>
allVars == <<relaxed, rewriteVars>>

SiteSet == 1..Sites
NoShift == [p \in Position |-> 0]

(* Lay the branches out one after another. *)
LaidOut(gap, size) ==
  LET Start[i \in SiteSet] == IF i = 1 THEN gap[1] ELSE Start[i - 1] + size[i - 1] + gap[i] IN Start
Laid(gap, size) ==
  /\ at = LaidOut(gap, size)
  /\ target \in [SiteSet -> {at[i] : i \in SiteSet} \cup {at[i] + size[i] : i \in SiteSet} \cup {0}]
  /\ \A i, j \in SiteSet : target[i] <= at[j] \/ at[j] + size[j] <= target[i]

NotRewriting == RewriteInit("none", 0, 0)
RelaxInit ==
  /\ \E gap \in [SiteSet -> Gaps] :
       \/ \E size \in [SiteSet -> {4, 6}] :
            /\ Laid(gap, size)
            /\ long = [i \in SiteSet |-> Unlimited(size[i])]
            /\ forms = [i \in SiteSet |-> IF size[i] = 6 THEN {Relative8} ELSE {Relative8, Relative16}]
            /\ machine = "65816" /\ measured = NoShift /\ LocalInit
       \/ \E size \in [SiteSet -> {6, 8}] :
            /\ Laid(gap, size)
            /\ long = [i \in SiteSet |-> Absolute(size[i])]
            /\ forms = [i \in SiteSet |-> {BranchRelative}]
            /\ machine = "68000" /\ measured = NoShift /\ WordInit

NotRelaxing ==
  /\ machine = "6502" /\ at = [i \in SiteSet |-> 8 * (i - 1)]
  /\ target = [i \in SiteSet |-> 0]
  /\ long = [i \in SiteSet |-> Absolute(8)] /\ forms = [i \in SiteSet |-> {BranchRelative}]
  /\ measured = NoShift /\ WordInit
AnyCode ==
  \/ RelaxInit /\ NotRewriting
  \/ /\ NotRelaxing
     /\ \E driver \in {"pre-home", "post-home"}, n \in 1..Operations :
          \E origin \in 0..n : RewriteInit(driver, n, origin)

(* Plans a matcher may return: three that are valid, or one that is not    *)
(* beside a valid one.                                                     *)
Plan(g, a, b, n, ok) == [generation |-> g, first |-> a, last |-> b, inserted |-> n, proved |-> ok]
Ranges == {t \in (1..Len(block)) \X (1..Len(block)) : t[1] <= t[2]}
ValidPlans ==
  IF Len(block) > Operations THEN {}
  ELSE {Plan(rewrite.generation, t[1], t[2], n, TRUE) : t \in Ranges, n \in Inserted}
Invalid ==
  {Plan(rewrite.generation - 1, 1, 1, 0, TRUE), Plan(rewrite.generation, 1, 1, 0, FALSE),
   Plan(rewrite.generation, 1, 0, 1, TRUE), Plan(rewrite.generation, 1, Len(block) + 1, 0, TRUE)}
RewriteRound ==
  /\ rewrite.stage = "round"
  /\ \/ Discover({})
     \/ \E p, q, r \in ValidPlans : Discover({p, q, r})
     \/ \E p \in Invalid, q \in Invalid \cup ValidPlans : Discover({p, q})

CodeNext ==
  \/ machine = "65816" /\ LocalNext /\ UNCHANGED <<machine, measured, rewriteVars>>
  \/ machine = "68000" /\ WordNext /\ UNCHANGED <<machine, rewriteVars>>
  \/ machine = "6502" /\ (RewriteRound \/ RewriteNext) /\ UNCHANGED relaxed
CodeSpec == AnyCode /\ [][CodeNext]_allVars

Finished ==
  IF machine = "6502" THEN RewriteDone ELSE PassesDone

(* When they end nothing is left to shrink: on the 65816 no branch would   *)
(* reach in a shorter form; on the 68000 none would by the distance the    *)
(* long forms leave, for the last pass measures before it shrinks.         *)
NothingMissed ==
  /\ machine = "65816" => LocalMissesNothing
  /\ machine = "68000" => WordMissesNothing
=============================================================================

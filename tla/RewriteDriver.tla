---------------------------- MODULE RewriteDriver ----------------------------
(***************************************************************************)
(* The two drivers of src/mir6502/rewrite/driver.rs: rounds of rewrites    *)
(* over a block.  A round discovers plans from a snapshot, each for a      *)
(* range of positions, refuses the routine if one of them does not         *)
(* validate, keeps those that do not overlap and splices them in.          *)
(*                                                                         *)
(* Of an operation only its identity matters: in every round the k-th one  *)
(* is named k, and what a plan puts in its place is New.  Plans of other   *)
(* blocks have nothing in common with these.  Which of two overlapping     *)
(* plans goes first depends on figures the matchers give; any may.         *)
(***************************************************************************)
EXTENDS Integers, Sequences

CONSTANTS MaxRounds,          \* max_rounds: 32 in the code
          New                 \* an operation a plan brings

ASSUME NewAssumption == New \notin Nat

VARIABLES rewrite,            \* [driver, stage, round, generation]
          block,              \* the operations, by their names in this round
          producer,           \* where the branch looks for its comparison, or 0
          compare,            \* history: the operation found there in this round
          plans,              \* plans to be considered
          selected            \* plans to be spliced

batch == <<block, producer, compare, plans, selected>>
rewriteVars == <<rewrite, batch>>

Named(n) == [k \in 1..n |-> k]
RewriteInit(driver, n, origin) ==
  /\ rewrite = [driver |-> driver, stage |-> "round", round |-> 0, generation |-> 0]
  /\ block = Named(n) /\ producer = origin /\ compare = origin
  /\ plans = {} /\ selected = {}

(* validate_plan, validate_posthome_plan: what else they prove about the   *)
(* operations a plan removes is its field "proved".                        *)
Valid(p) ==
  /\ p.generation = rewrite.generation
  /\ p.first <= p.last /\ p.last <= Len(block)
  /\ p.proved

Discover(found) ==
  /\ rewrite.stage = "round" /\ rewrite.round < MaxRounds
  /\ rewrite' = [rewrite EXCEPT !.round = @ + 1,
                   !.stage = CASE \E p \in found : ~Valid(p) -> "refused"
                               [] found = {} -> "converged"
                               [] OTHER -> "batch"]
  /\ plans' = IF rewrite'.stage = "batch" THEN found ELSE {}
  /\ UNCHANGED <<block, producer, compare, selected>>

(* DidNotConverge *)
GiveUp ==
  /\ rewrite.stage = "round" /\ rewrite.round = MaxRounds
  /\ rewrite' = [rewrite EXCEPT !.stage = "refused"]
  /\ UNCHANGED batch

Overlap(p, q) == p.first <= q.last /\ q.first <= p.last
Select(p) ==
  /\ rewrite.stage = "batch" /\ p \in plans
  /\ plans' = plans \ {p}
  /\ selected' = selected \cup {q \in {p} : ~ \E s \in selected : Overlap(s, q)}
  /\ UNCHANGED <<rewrite, block, producer, compare>>

Upcoming_FromTheStart(p) == p \in selected /\ \A q \in selected : p.first <= q.first
Upcoming(p) == p \in selected /\ \A q \in selected : q.first <= p.first

(* shift_fused_compare_producer_after_splice *)
Shifted(p) ==
  IF producer > p.last THEN producer - (p.last - p.first + 1) + p.inserted ELSE producer

Splice(p) ==
  /\ rewrite.stage = "batch" /\ plans = {} /\ Upcoming(p)
  /\ block' = SubSeq(block, 1, p.first - 1) \o [k \in 1..p.inserted |-> New]
                \o SubSeq(block, p.last + 1, Len(block))
  /\ producer' = Shifted(p)
  /\ selected' = selected \ {p}
  /\ UNCHANGED <<rewrite, compare, plans>>

(* Before values have homes a batch must lower the metric of its caller,   *)
(* which measures the whole routine: what this block gains does not tell.  *)
EndBatch ==
  /\ rewrite.stage = "batch" /\ plans = {} /\ selected = {}
  /\ \E outcome \in {"round"} \cup IF rewrite.driver = "pre-home" THEN {"refused"} ELSE {} :
       rewrite' = [rewrite EXCEPT !.generation = @ + 1, !.stage = outcome]
  /\ block' = Named(Len(block)) /\ compare' = producer
  /\ UNCHANGED <<producer, plans, selected>>

RewriteNext ==
  \/ GiveUp \/ EndBatch
  \/ \E p \in plans : Select(p)
  \/ \E p \in selected : Splice(p)

(* A matcher may return any plans; a rewrite takes any block.              *)
AnyPlan ==
  [generation : Int, first : Nat \ {0}, last : Nat, inserted : Nat, proved : BOOLEAN]
RewriteStart ==
  \E driver \in {"pre-home", "post-home"}, n \in Nat : \E origin \in 0..n : RewriteInit(driver, n, origin)
RewriteStep == RewriteNext \/ \E found \in SUBSET AnyPlan : Discover(found)
RewriteSpec == RewriteStart /\ [][RewriteStep]_rewriteVars

RewriteDone == rewrite.stage \in {"converged", "refused"}

-----------------------------------------------------------------------------
(* However many plans of a batch have been spliced, the ones to come still *)
(* name the operations they were matched on, and the branch its own        *)
(* comparison, unless a plan has put something else in its place.          *)
RewritesAsMatched ==
  rewrite.stage = "batch" =>
    /\ \A p \in plans \cup selected : \A k \in p.first..p.last : k \in DOMAIN block /\ block[k] = k
    /\ \A k \in DOMAIN block : block[k] = compare => producer = k
=============================================================================

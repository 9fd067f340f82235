------------------------------- MODULE Dataflow -------------------------------
(***************************************************************************)
(* The worklist solver every block analysis of the compiler runs through,  *)
(* solve_dataflow of src/analysis/dataflow.rs.                             *)
(*                                                                         *)
(* A problem's states are a finite join semilattice.  Any such lattice is  *)
(* a family of sets closed under union (take x to the elements x is not    *)
(* below), so a state here is a set of facts, join is \cup, bottom is {}.  *)
(* A boundary that is absent joins nothing, as {} does.                    *)
(***************************************************************************)
EXTENDS Integers, Sequences, FiniteSets

CONSTANTS Node,               \* blocks of the routine, named by their ids
          State,              \* states of the problem
          MaxCount            \* where the evaluation counter saturates

ASSUME NodeAssumption == Node \subseteq Int /\ IsFiniteSet(Node)
ASSUME CountAssumption == MaxCount \in Nat
ASSUME JoinAssumption == \A T \in SUBSET State : UNION T \in State

VARIABLES edges,              \* successors and predecessors
          reachable,          \* nodes reachable from the entry
          order,              \* those nodes in the order they are first evaluated
          direction,
          problem,            \* boundary, transfer and edge functions
          in_states, out_states,
          worklist,           \* nodes to evaluate, oldest first
          queued,             \* the nodes in it
          evaluations

input == <<edges, reachable, order, direction, problem>>
vars == <<input, in_states, out_states, worklist, queued, evaluations>>

Elements(s) == {s[i] : i \in DOMAIN s}

NoRepeats(s) == \A i, j \in DOMAIN s : s[i] = s[j] => i = j

(* The ways to list a finite set. *)
Listings(S) == {s \in [1..Cardinality(S) -> S] : Elements(s) = S /\ NoRepeats(s)}
Ascending(S) == {s \in Listings(S) : \A i, j \in DOMAIN s : i < j => s[i] < s[j]}

Problem ==
  [boundary : [Node -> State],
   transfer : [Node -> [State -> State]],
   executable : [Node \X Node -> SUBSET State],      \* states an edge is followed in
   edge : [Node \X Node -> [State -> State]]]

-----------------------------------------------------------------------------
Forward == direction = "Forward"
Predecessors(n) == {m \in Node : <<m, n>> \in edges}
Successors(n) == {m \in Node : <<n, m>> \in edges}
Upstream(n) == (IF Forward THEN Predecessors(n) ELSE Successors(n)) \cap reachable
Downstream(n) == (IF Forward THEN Successors(n) ELSE Predecessors(n)) \cap reachable

(* What a node offers its neighbours: its output, backwards its input. *)
Offered == IF Forward THEN out_states ELSE in_states

(* Only forward problems filter edges or refine what flows along them. *)
Flow_Unrefined(m, n, s) ==
  IF ~Forward \/ s \in problem.executable[<<m, n>>] THEN s ELSE {}
Flow(m, n, s) ==
  IF ~Forward THEN s
  ELSE IF s \in problem.executable[<<m, n>>] THEN problem.edge[<<m, n>>][s]
  ELSE {}

(* One evaluation, for any states the neighbours may have. *)
Joined(offered, n) == problem.boundary[n] \cup UNION {Flow(m, n, offered[m]) : m \in Upstream(n)}
Transferred(offered, n) == problem.transfer[n][Joined(offered, n)]
NextIn(offered, n) == IF Forward THEN Joined(offered, n) ELSE Transferred(offered, n)
NextOut(offered, n) == IF Forward THEN Transferred(offered, n) ELSE Joined(offered, n)

-----------------------------------------------------------------------------
Bottom_Everything == UNION State
Bottom == {}

Begin ==
  /\ in_states = [n \in reachable |-> Bottom]
  /\ out_states = [n \in reachable |-> Bottom]
  /\ worklist = order
  /\ queued = reachable
  /\ evaluations = 0

(* The graph snapshot promises no more of its order than that it lists the *)
(* reachable nodes.                                                        *)
Init ==
  /\ edges \in SUBSET (Node \X Node)
  /\ reachable \in SUBSET Node
  /\ order \in Listings(reachable)
  /\ direction \in {"Forward", "Backward"} /\ problem \in Problem
  /\ Begin

Propagates_Always(n) == TRUE
Propagates(n) == Transferred(Offered, n) # Offered[n]
Requeued_Waiting(n) == IF Propagates(n) THEN Downstream(n) ELSE {}
Requeued_BeforeRemoval(n) == IF Propagates(n) THEN Downstream(n) \ queued ELSE {}
Requeued(n) == IF Propagates(n) THEN Downstream(n) \ (queued \ {n}) ELSE {}

(* The loop body. Neighbours not already waiting join the list by id.      *)
Evaluation ==
  /\ worklist # <<>>
  /\ LET n == Head(worklist) IN
       /\ in_states' = [in_states EXCEPT ![n] = NextIn(Offered, n)]
       /\ out_states' = [out_states EXCEPT ![n] = NextOut(Offered, n)]
       /\ \E added \in Ascending(Requeued(n)) : worklist' = Tail(worklist) \o added
       /\ queued' = (queued \ {n}) \cup Requeued(n)
  /\ evaluations' = IF evaluations < MaxCount THEN evaluations + 1 ELSE MaxCount

Evaluate == Evaluation /\ UNCHANGED input

Next == Evaluate
Spec == Init /\ [][Next]_vars
Done == worklist = <<>>

-----------------------------------------------------------------------------
(* Types of the result and of the worklist, which is what queued says. *)
TypeOK ==
  /\ in_states \in [reachable -> State]
  /\ out_states \in [reachable -> State]
  /\ worklist \in Seq(reachable) /\ NoRepeats(worklist)
  /\ queued = Elements(worklist)

(* Whatever its order and its functions, monotone or not: when the solver  *)
(* stops, each reachable node has exactly the states that its boundary and *)
(* its neighbours give it, round every loop; no update was left behind.    *)
SolvedAt(n) ==
  /\ in_states[n] = NextIn(Offered, n)
  /\ out_states[n] = NextOut(Offered, n)
Fixpoint == Done => \A n \in reachable : SolvedAt(n)

(* "A finite, monotone block data-flow problem". *)
Monotone ==
  \A m, n \in Node :
    /\ \A s, t \in State : s \subseteq t => problem.transfer[n][s] \subseteq problem.transfer[n][t]
    /\ \A s, t \in State : s \subseteq t => Flow(m, n, s) \subseteq Flow(m, n, t)

(* For a monotone problem no state ever exceeds any solution of the        *)
(* equations: the answer is the least one, whatever the order, and nothing *)
(* learnt over an edge later found dead or stale survives in it.           *)
Solutions == {x \in [reachable -> State] : \A n \in reachable : Transferred(x, n) = x[n]}
Least ==
  Monotone =>
    \A x \in Solutions : \A n \in reachable :
      in_states[n] \subseteq NextIn(x, n) /\ out_states[n] \subseteq NextOut(x, n)

(* For a monotone problem a reevaluation only adds: the answer climbs.     *)
Climbs ==
  [][Monotone => \A n \in reachable :
       in_states[n] \subseteq in_states'[n] /\ out_states[n] \subseteq out_states'[n]]_vars

(* The loop of the solver runs until its list is empty, and empties it.    *)
FairSpec == Spec /\ WF_vars(Evaluate)
Solves == Monotone ~> Done
=============================================================================

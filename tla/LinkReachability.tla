--------------------------- MODULE LinkReachability ---------------------------
(***************************************************************************)
(* What a link selection promises, with no worklist in sight: a dependency *)
(* graph is assembled, and a later query for a set of roots answers in one *)
(* step with the least set of graph nodes that holds the roots and is      *)
(* closed under the dependency edges, or refuses when a root is unknown.   *)
(* LinkClosure (src/linker.rs, LinkGraph) is shown to implement this.      *)
(***************************************************************************)

CONSTANT Node                 \* every symbol a link graph may mention

VARIABLES nodes,              \* nodes known to the graph
          arcs,               \* pairs <<source, target>>
          answer              \* the query and what it returned, or Unanswered

vars == <<nodes, arcs, answer>>

Unanswered == [kind |-> "none", roots |-> {}, set |-> {}]
Selected(R, S) == [kind |-> "selected", roots |-> R, set |-> S]
Missing(R) == [kind |-> "missing", roots |-> R, set |-> {}]

ClosedUnder(S, A) == \A a \in A : a[1] \in S => a[2] \in S

(* S is the least set of nodes above R that A cannot leave. *)
LeastClosed(S, R, A) ==
  /\ R \subseteq S
  /\ ClosedUnder(S, A)
  /\ \A T \in SUBSET nodes : R \subseteq T /\ ClosedUnder(T, A) => S \subseteq T

Init ==
  /\ nodes = {}
  /\ arcs = {}
  /\ answer = Unanswered

Extend ==
  /\ answer = Unanswered
  /\ nodes' \in SUBSET Node /\ nodes \subseteq nodes'
  /\ arcs' \in SUBSET (nodes' \X nodes') /\ arcs \subseteq arcs'
  /\ UNCHANGED answer

Select ==
  /\ answer = Unanswered
  /\ \E R \in SUBSET nodes, S \in SUBSET nodes :
       /\ LeastClosed(S, R, arcs)
       /\ answer' = Selected(R, S)
  /\ UNCHANGED <<nodes, arcs>>

Refuse ==
  /\ answer = Unanswered
  /\ \E R \in SUBSET Node : ~(R \subseteq nodes) /\ answer' = Missing(R)
  /\ UNCHANGED <<nodes, arcs>>

Next == Extend \/ Select \/ Refuse

Spec == Init /\ [][Next]_vars
=============================================================================

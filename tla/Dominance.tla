------------------------------ MODULE Dominance ------------------------------
(***************************************************************************)
(* Dominance::from_graph of src/analysis/dominance.rs: which blocks every  *)
(* path to a block passes, the tree of immediate dominators and the        *)
(* dominance frontiers, for any graph of blocks.                           *)
(*                                                                         *)
(* The sets are computed in place, block after block in the order of their *)
(* ids, pass after pass until one changes nothing.  Unreachable blocks     *)
(* take part in the sets and stay out of the tree.                         *)
(***************************************************************************)
EXTENDS Integers, FiniteSets

CONSTANTS Node,               \* blocks of the routine, named by their ids
          Entry               \* the first of them

ASSUME NodeAssumption == Node \subseteq Int /\ IsFiniteSet(Node) /\ Entry \in Node

VARIABLES edges,              \* the graph
          reachable,          \* its blocks reachable from Entry
          dominators,         \* the dominators found so far of each block
          scan,               \* blocks this pass has still to visit
          changed,            \* whether it has changed a set
          parent,             \* {} or the immediate dominator, once the sets are final
          frontier            \* dominance frontiers

graph == <<edges, reachable>>
tree == <<parent, frontier>>
vars == <<graph, dominators, scan, changed, tree>>

Predecessors(n) == {m \in Node : <<m, n>> \in edges}
IsSmallest(n, S) == n \in S /\ \A m \in S : n <= m

(* The blocks of a graph with edges E that no closed set above Entry lacks. *)
Closed(S, E) == \A e \in E : e[1] \in S => e[2] \in S
Live(E) == {n \in Node : \A S \in SUBSET Node : Entry \in S /\ Closed(S, E) => n \in S}

Init ==
  /\ edges \in SUBSET (Node \X Node)
  /\ reachable = Live(edges)
  /\ dominators = [n \in Node |-> IF n = Entry THEN {Entry} ELSE Node]
  /\ scan = Node \ {Entry}
  /\ changed = FALSE
  /\ parent = <<>> /\ frontier = <<>>

(* Nobody dominates a block without predecessors but itself.               *)
NextSet_Joins(n) ==
  {n} \cup {d \in Node : \E m \in Predecessors(n) : d \in dominators[m]}
NextSet(n) ==
  {n} \cup {d \in Node : /\ Predecessors(n) # {}
                         /\ \A m \in Predecessors(n) : d \in dominators[m]}

Visit(n) ==
  /\ IsSmallest(n, scan)
  /\ dominators' = [dominators EXCEPT ![n] = NextSet(n)]
  /\ changed' = (changed \/ NextSet(n) # dominators[n])
  /\ scan' = scan \ {n}
  /\ UNCHANGED <<graph, tree>>

NextPass ==
  /\ scan = {} /\ changed
  /\ scan' = Node \ {Entry}
  /\ changed' = FALSE
  /\ UNCHANGED <<graph, dominators, tree>>

Settled == scan = {} /\ ~changed

-----------------------------------------------------------------------------
(* The strict dominator of a block that dominates no other strict one.     *)
Strict(n) == dominators[n] \ {n}
Immediate(n) == {d \in Strict(n) : \A e \in Strict(n) \ {d} : d \notin dominators[e]}
Parent(n) == IF n \in reachable \ {Entry} THEN Immediate(n) ELSE {}
Children(n) == {m \in reachable : n \in parent[m]}

(* The blocks a runner passes from b up the tree, short of those in stop.  *)
Climb_Through(up, b, stop) ==
  LET Up[k \in 0..Cardinality(Node)] ==
        IF k = 0 THEN {b} ELSE UNION {up[c] : c \in Up[k - 1]}
  IN UNION {Up[k] : k \in 0..Cardinality(Node)}
Climb(up, b, stop) ==
  LET Up[k \in 0..Cardinality(Node)] ==
        IF k = 0 THEN {b} \ stop ELSE (UNION {up[c] : c \in Up[k - 1]}) \ stop
  IN UNION {Up[k] : k \in 0..Cardinality(Node)}

(* Only joins are in a frontier: blocks with two predecessors or more.     *)
IsJoin(n) == Cardinality(Predecessors(n)) >= 2
Joins(up, n) ==
  {j \in reachable : IsJoin(j) /\ \E p \in Predecessors(j) : n \in Climb(up, p, up[j])}

BuildTree ==
  /\ Settled /\ parent = <<>>
  /\ parent' = [n \in Node |-> Parent(n)]
  /\ frontier' = [n \in Node |-> Joins(parent', n)]
  /\ UNCHANGED <<graph, dominators, scan, changed>>

Next == (\E n \in Node : Visit(n)) \/ NextPass \/ BuildTree
Spec == Init /\ [][Next]_vars
Done == parent # <<>>

-----------------------------------------------------------------------------
(* Types; a block always counts as its own dominator. *)
TypeOK ==
  /\ edges \in SUBSET (Node \X Node)
  /\ dominators \in [Node -> SUBSET Node]
  /\ \A n \in Node : n \in dominators[n]
  /\ dominators[Entry] = {Entry}
  /\ scan \in SUBSET (Node \ {Entry})
  /\ changed \in BOOLEAN

(* What dominance means, without an algorithm: no walk from the entry gets *)
(* to n past a.  R is a region that holds every block such a walk visits.  *)
WalkRegion(R, a) ==
  /\ a \notin R /\ Entry \in R \cup {a}
  /\ \A e \in edges : e[1] \in R /\ e[2] # a => e[2] \in R
EveryWalkPasses(a, n) == \E R \in SUBSET Node : WalkRegion(R, a) /\ n \notin R

(* Once the passes settle, a block has only dominators that every walk to  *)
(* it passes, whatever unreachable blocks did to the intersections.        *)
DominatorsSound ==
  Settled => \A n \in Node : \A a \in dominators[n] : EveryWalkPasses(a, n)

(* A dead block without predecessors takes dominators away from the blocks *)
(* it leads to.  Without such blocks every true dominator is found, and    *)
(* none is ever lost on the way down from the full sets.                   *)
Rooted == \A n \in Node \ {Entry} : Predecessors(n) # {}
DominatorsComplete ==
  Rooted => \A a, n \in Node : EveryWalkPasses(a, n) => a \in dominators[n]
DominatorsExact == DominatorsSound /\ DominatorsComplete

(* Climbing from the predecessors of a join finds the joins where the      *)
(* dominance of n ends, and only those, unless dead blocks lead to a live  *)
(* one.  A root with a single predecessor is no join and in no frontier.   *)
FrontiersExact ==
  Done /\ (\A e \in edges : e[2] \in reachable => e[1] \in reachable) =>
    \A n \in reachable :
      frontier[n] = {j \in reachable : /\ j = Entry => IsJoin(j)
                                      /\ n \notin Strict(j)
                                      /\ \E p \in Predecessors(j) : n \in dominators[p]}
=============================================================================

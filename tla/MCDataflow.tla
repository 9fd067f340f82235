------------------------------ MODULE MCDataflow ------------------------------
(***************************************************************************)
(* Dataflow over the graph facts FlowGraph derives, for the checker: every *)
(* small graph with three kinds of transfer, and every kind of edge on a   *)
(* loop with an exit.                                                      *)
(***************************************************************************)
EXTENDS Dataflow

Graph == INSTANCE FlowGraph

Blocks == 1..3
Fact == {"f", "g"}
Chain == {{}, {"f"}, Fact}

(* Monotone functions of a state. *)
Same == [s \in State |-> s]
Forget == [s \in State |-> {}]
Climb == [s \in State |-> IF s = {} THEN {"f"} ELSE Fact]

Entry == 1
ASSUME EntryAssumption == Entry \in Node
GraphFacts ==
  /\ edges = Graph!EdgesOf(Node, edges)
  /\ reachable = Graph!Reachable(Node, edges, Entry)
  /\ order = Graph!EvaluationOrder(Forward, Graph!Postorder(Node, edges, Entry))

EveryEdge(f) == [e \in Node \X Node |-> f]
BoundaryAt(n, s) == [m \in Node |-> IF m = n THEN s ELSE {}]

MaxEdges == 5
AnyGraph ==
  /\ edges \in SUBSET (Node \X Node) /\ Cardinality(edges) <= MaxEdges
  /\ direction \in {"Forward", "Backward"}
  /\ \E n \in {1, 3}, t \in [Node -> {Same, Forget, Climb}] :
       problem = [boundary |-> BoundaryAt(n, {"f"}), transfer |-> t,
                  executable |-> EveryEdge(State), edge |-> EveryEdge(Same)]
  /\ GraphFacts
  /\ Init

Loop == {<<1, 2>>, <<2, 1>>, <<2, 2>>, <<2, 3>>}
AnyEdges ==
  /\ edges = Loop /\ direction = "Forward"
  /\ \E x \in [Loop -> {{}, State \ {{}}, State}], f \in [Loop -> {Same, Climb}],
        t \in [Node -> {Same, Climb}] :
       problem = [boundary |-> BoundaryAt(Entry, {"f"}), transfer |-> t,
                  executable |-> [e \in Node \X Node |-> IF e \in Loop THEN x[e] ELSE {}],
                  edge |-> [e \in Node \X Node |-> IF e \in Loop THEN f[e] ELSE Same]]
  /\ GraphFacts
  /\ Init

MCInit == AnyGraph \/ AnyEdges
MCSpec == MCInit /\ [][Next]_vars /\ WF_vars(Evaluate)

(* Without loops that order leaves nothing to reevaluate, either way.      *)
OncePerNode ==
  Done /\ (\A n \in reachable : ~Graph!OnCycle(Node, edges, n)) => evaluations = Len(order)

(* The facts along every path: a path starts at any node with nothing but  *)
(* that node's boundary, and each step transfers, then crosses an edge.    *)
Arcs == {e \in edges : e[1] \in reachable /\ e[2] \in reachable}
Crossings(n, s) ==
  LET t == problem.transfer[n][s] IN
  IF Forward
    THEN {<<e[2], problem.edge[e][t]>> : e \in {a \in Arcs : a[1] = n /\ t \in problem.executable[a]}}
    ELSE {<<e[1], t>> : e \in {a \in Arcs : a[2] = n}}
Starts == {<<n, problem.boundary[n]>> : n \in reachable}
Extended(P) ==
  P \cup {<<c[1], problem.boundary[c[1]] \cup c[2]>> : c \in UNION {Crossings(p[1], p[2]) : p \in P}}

(* Longer paths give nothing that one of these does not.                   *)
Longest == Cardinality(reachable) * Cardinality(State)
Within[k \in 0..Longest] == IF k = 0 THEN Starts ELSE Extended(Within[k - 1])
PathStates == Within[Longest]

(* On a chain, where every monotone function distributes over joins, the   *)
(* answer is exactly the join over all paths: no fact is missed, and none  *)
(* comes over an edge that is not followed in the state it would be in.    *)
MeetOverPaths ==
  Done => \A n \in reachable :
    (IF Forward THEN in_states ELSE out_states)[n] = UNION {p[2] : p \in {q \in PathStates : q[1] = n}}
=============================================================================

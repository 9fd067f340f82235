----------------------------- MODULE LinkClosure -----------------------------
(***************************************************************************)
(* LinkGraph of src/linker.rs: the dependency graph every back end links   *)
(* from, and the worklist that selects what a program retains.  A graph is *)
(* first assembled with add_node and add_edge; closure(roots) then drains  *)
(* the ordered set `pending`, recording in `reasons` why each symbol was   *)
(* kept.  One action is one iteration of the worklist.                     *)
(*                                                                         *)
(* Nodes are the Ord identities of the code; a LinkReason is its position  *)
(* in the enum, which is the order its derived Ord uses.                   *)
(***************************************************************************)
EXTENDS Integers, FiniteSets

CONSTANTS Node,               \* identities that may enter a graph
          Reason,             \* LinkReasons in use, by enum position
          MaxEdges            \* bound: edges a checked graph may have

ASSUME NodeAssumption == Node \subseteq Int
ASSUME ReasonAssumption == Reason \subseteq 0..9
ASSUME MaxEdgesAssumption == MaxEdges \in Nat

VARIABLES nodes,              \* LinkGraph.nodes
          edges,              \* LinkGraph.edges, flattened to records
          phase,              \* "build", "scan", "done" or "missing"
          roots,              \* the roots closure was called with
          pending,            \* worklist, popped smallest first
          retained,           \* nodes already expanded
          reasons             \* LinkRetention of every node queued so far

graph == <<nodes, edges>>
vars == <<nodes, edges, phase, roots, pending, retained, reasons>>

Edge == [source : Node, target : Node, reason : Reason]

Root == [kind |-> "root"]
Dependency(s, r) == [kind |-> "dependency", source |-> s, reason |-> r]
LinkRetention == {Root} \cup [kind : {"dependency"}, source : Node, reason : Reason]

EmptyMap == [n \in {} |-> Root]

-----------------------------------------------------------------------------
Init ==
  /\ nodes = {}
  /\ edges = {}
  /\ phase = "build"
  /\ roots = {}
  /\ pending = {}
  /\ retained = {}
  /\ reasons = EmptyMap

AddNode(n) ==
  /\ phase = "build"
  /\ n \notin nodes
  /\ nodes' = nodes \cup {n}
  /\ UNCHANGED <<edges, phase, roots, pending, retained, reasons>>

(* Both endpoints become nodes, so an edge never dangles. *)
AddEdge(s, t, r) ==
  /\ phase = "build"
  /\ Cardinality(edges) < MaxEdges
  /\ nodes' = nodes \cup {s, t}
  /\ edges' = edges \cup {[source |-> s, target |-> t, reason |-> r]}
  /\ UNCHANGED <<phase, roots, pending, retained, reasons>>

BeginClosure_SeedsEverything(R) ==
  /\ phase = "build"
  /\ R \subseteq nodes
  /\ roots' = R
  /\ phase' = "scan"
  /\ pending' = nodes
  /\ reasons' = [n \in nodes |-> Root]
  /\ UNCHANGED <<nodes, edges, retained>>

(* closure(roots) up to its loop: an unknown root is an error. *)
BeginClosure(R) ==
  /\ phase = "build"
  /\ roots' = R
  /\ IF R \subseteq nodes
       THEN /\ phase' = "scan"
            /\ pending' = R
            /\ reasons' = [n \in R |-> Root]
       ELSE /\ phase' = "missing"
            /\ UNCHANGED <<pending, reasons>>
  /\ UNCHANGED <<nodes, edges, retained>>

EdgesFrom(s) == {e \in edges : e.source = s}

(* The edge that explains t when s is expanded: edges are visited in the   *)
(* order of their reason, and the first one writes the entry.              *)
FirstReason(s, t) ==
  CHOOSE r \in Reason :
    /\ [source |-> s, target |-> t, reason |-> r] \in edges
    /\ \A q \in Reason :
         [source |-> s, target |-> t, reason |-> q] \in edges => r <= q

Discovered_SkipsSmaller(s) == {e.target : e \in {d \in EdgesFrom(s) : d.target > s}} \ retained

(* Targets of s the loop body queues, s itself being retained by then. *)
Discovered(s) == {e.target : e \in EdgesFrom(s)} \ (retained \cup {s})

Explain_OverwritesRetained(s) ==
  [n \in DOMAIN reasons \cup Discovered(s) |->
     IF n \in {e.target : e \in EdgesFrom(s)} THEN Dependency(s, FirstReason(s, n)) ELSE reasons[n]]

(* or_insert_with: an entry, once written, is never replaced. *)
Explain(s) ==
  [n \in DOMAIN reasons \cup Discovered(s) |->
     IF n \in DOMAIN reasons THEN reasons[n] ELSE Dependency(s, FirstReason(s, n))]

Expand_Peeks(s) ==
  /\ phase = "scan"
  /\ s \in pending
  /\ \A m \in pending : s <= m
  /\ pending' = pending \cup Discovered(s)
  /\ retained' = retained \cup {s}
  /\ reasons' = Explain(s)
  /\ UNCHANGED <<nodes, edges, phase, roots>>

(* pop_first, then the loop over the popped node's edges. *)
Expand(s) ==
  /\ phase = "scan"
  /\ s \in pending
  /\ \A m \in pending : s <= m
  /\ IF s \in retained
       THEN /\ pending' = pending \ {s}
            /\ UNCHANGED <<phase, retained, reasons>>
       ELSE IF \A e \in EdgesFrom(s) : e.target \in nodes
       THEN /\ pending' = (pending \ {s}) \cup Discovered(s)
            /\ retained' = retained \cup {s}
            /\ reasons' = Explain(s)
            /\ UNCHANGED phase
       ELSE /\ phase' = "missing"
            /\ UNCHANGED <<pending, retained, reasons>>
  /\ UNCHANGED <<nodes, edges, roots>>

Finish ==
  /\ phase = "scan"
  /\ pending = {}
  /\ phase' = "done"
  /\ UNCHANGED <<nodes, edges, roots, pending, retained, reasons>>

Next ==
  \/ \E n \in Node : AddNode(n)
  \/ \E s, t \in Node, r \in Reason : AddEdge(s, t, r)
  \/ \E R \in SUBSET Node : BeginClosure(R)
  \/ \E s \in Node : Expand(s)
  \/ Finish

(* The scan is one thread running a loop to its end; assembling a graph is *)
(* up to the caller and carries no fairness.                               *)
Scan == (\E s \in Node : Expand(s)) \/ Finish

Spec == Init /\ [][Next]_vars
FairSpec == Spec /\ WF_vars(Scan)

-----------------------------------------------------------------------------
(* Types of the graph, the worklist and the two result maps. *)
TypeOK ==
  /\ nodes \subseteq Node
  /\ edges \subseteq Edge
  /\ phase \in {"build", "scan", "done", "missing"}
  /\ roots \subseteq Node
  /\ pending \subseteq Node
  /\ retained \subseteq Node
  /\ DOMAIN reasons \subseteq Node
  /\ \A n \in DOMAIN reasons : reasons[n] \in LinkRetention

(* Every edge of a graph joins two of its nodes. *)
EdgesWellFormed == \A e \in edges : {e.source, e.target} \subseteq nodes

(* The error for a dependency that is no node cannot arise: a scan fails   *)
(* only for a root the caller made up, before anything is retained.        *)
OnlyRootsGoMissing ==
  phase = "missing" => ~(roots \subseteq nodes) /\ retained = {}

Closed(S) == \A e \in edges : e.source \in S => e.target \in S

(* Nothing that is needed is dropped: a finished selection holds the roots *)
(* and every target of a retained node, so the later filter of the program *)
(* leaves no dangling call, address or storage reference.                  *)
SelectionClosed == phase = "done" => roots \subseteq retained /\ Closed(retained)

(* Nothing else is kept: whatever is retained or queued lies in every      *)
(* closed set above the roots, so dead code never survives the link.       *)
SelectionLeast ==
  \A T \in SUBSET nodes :
    phase # "build" /\ roots \subseteq T /\ Closed(T) => retained \cup pending \subseteq T

(* The link map can explain every retained node: a reason other than Root  *)
(* names an edge of the graph that leaves a node retained before it.       *)
ReasonsJustified ==
  /\ phase = "done" => DOMAIN reasons = retained
  /\ \A n \in DOMAIN reasons :
       IF reasons[n].kind = "root" THEN n \in roots
       ELSE /\ reasons[n].source \in retained
            /\ [source |-> reasons[n].source, target |-> n, reason |-> reasons[n].reason] \in edges

(* ... and the explanation ends: no group of nodes is retained only        *)
(* because its members name each other, so every chain reaches a root.     *)
ReasonsGrounded ==
  \A S \in SUBSET DOMAIN reasons :
    S # {} => \E n \in S : reasons[n].kind = "root" \/ reasons[n].source \notin S

(* A closure that starts comes to an answer. *)
ScanEnds == phase = "scan" ~> phase = "done"

(* What holds between two iterations, from which the properties above      *)
(* follow: entries are written for exactly the nodes seen, and an edge out *)
(* of an expanded node leads to a node seen.                               *)
Seen == retained \cup pending

ScanInvariant ==
  /\ EdgesWellFormed
  /\ DOMAIN reasons = Seen
  /\ phase = "build" => roots = {} /\ Seen = {}
  /\ phase = "missing" => Seen = {} /\ ~(roots \subseteq nodes)
  /\ phase \in {"scan", "done"} => roots \subseteq Seen /\ Seen \subseteq nodes
  /\ phase = "done" => pending = {}
  /\ \A e \in edges : e.source \in retained => e.target \in Seen

-----------------------------------------------------------------------------
Abstract == INSTANCE LinkReachability WITH
  arcs <- {<<e.source, e.target>> : e \in edges},
  answer <- CASE phase = "done" -> [kind |-> "selected", roots |-> roots, set |-> retained]
              [] phase = "missing" -> [kind |-> "missing", roots |-> roots, set |-> {}]
              [] OTHER -> [kind |-> "none", roots |-> {}, set |-> {}]

(* The worklist implements the one-step selection of LinkReachability. *)
RefinesReachability == Abstract!Spec
=============================================================================

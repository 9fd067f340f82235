----------------------------- MODULE LinkProofs -----------------------------
(***************************************************************************)
(* For every set of nodes and every dependency graph over it: the worklist *)
(* of LinkGraph::closure keeps its bookkeeping consistent, and what it     *)
(* returns is the least closed selection, with grounded explanations.      *)
(* Then, for every program: what link selection makes of it.               *)
(***************************************************************************)
EXTENDS LinkSelection, FiniteSetTheorems, TLAPS

IInv ==
  /\ TypeOK
  /\ ScanInvariant
  /\ SelectionLeast
  /\ ReasonsJustified
  /\ ReasonsGrounded

(* A set of enum positions has a first one (the ten LinkReasons suffice).  *)
LEMMA FirstOfReasons ==
  ASSUME NEW S \in SUBSET (0..9), S # {}
  PROVE  \E r \in S : \A q \in S : r <= q
<1> DEFINE Bounded(k) == \A q \in S : k <= q
<1>0. \A q \in S : q \in Int /\ 0 <= q /\ q <= 9
  OBVIOUS
<1>1. Bounded(0) /\ ~Bounded(10)
  <2>1. PICK x \in S : TRUE
    OBVIOUS
  <2>2. x \in Int /\ x <= 9 /\ ~(10 <= x)
    BY <1>0
  <2> QED
    BY <1>0, <2>2
<1>2. \E k \in 0..9 : Bounded(k) /\ ~Bounded(k + 1)
  <2> HIDE DEF Bounded
  <2> SUFFICES ASSUME \A k \in 0..9 : Bounded(k) => Bounded(k + 1) PROVE FALSE
    OBVIOUS
  <2>1. Bounded(1) /\ Bounded(2) /\ Bounded(3) /\ Bounded(4) /\ Bounded(5)
    BY <1>1
  <2>2. Bounded(6) /\ Bounded(7) /\ Bounded(8) /\ Bounded(9) /\ Bounded(10)
    BY <2>1
  <2> QED
    BY <1>1, <2>2
<1> QED
  BY <1>2

(* The edge chosen to explain a discovered node is an edge of the graph.   *)
LEMMA FirstReasonIsEdge ==
  ASSUME TypeOK, NEW s \in Node, NEW t \in Discovered(s)
  PROVE  /\ FirstReason(s, t) \in Reason
         /\ [source |-> s, target |-> t, reason |-> FirstReason(s, t)] \in edges
<1> DEFINE S == {r \in Reason : [source |-> s, target |-> t, reason |-> r] \in edges}
<1>1. PICK e \in edges : e.source = s /\ e.target = t
  BY DEF Discovered, EdgesFrom
<1>2. e \in Edge
  BY DEF TypeOK
<1>3. e = [source |-> s, target |-> t, reason |-> e.reason] /\ e.reason \in Reason
  BY <1>1, <1>2 DEF Edge
<1>4. S # {} /\ S \in SUBSET (0..9)
  BY <1>1, <1>3, ReasonAssumption
<1>5. PICK r \in S : \A q \in S : r <= q
  BY <1>4, FirstOfReasons
<1>6. \E q \in Reason :
        /\ [source |-> s, target |-> t, reason |-> q] \in edges
        /\ \A p \in Reason : [source |-> s, target |-> t, reason |-> p] \in edges => q <= p
  BY <1>5
<1> QED
  BY <1>6 DEF FirstReason

(* What one iteration does to an unexpanded node of the worklist, with the *)
(* branches for a re-queued node and a dangling edge shown unreachable.    *)
LEMMA ExpandStep ==
  ASSUME IInv, NEW s \in Node, Expand(s), s \notin retained
  PROVE  /\ pending' = (pending \ {s}) \cup Discovered(s)
         /\ retained' = retained \cup {s}
         /\ reasons' = Explain(s)
         /\ Seen' = Seen \cup Discovered(s)
         /\ UNCHANGED <<nodes, edges, phase, roots>>
<1>1. \A e \in EdgesFrom(s) : e.target \in nodes
  BY DEF IInv, ScanInvariant, EdgesWellFormed, EdgesFrom
<1>2. /\ pending' = (pending \ {s}) \cup Discovered(s)
      /\ retained' = retained \cup {s}
      /\ reasons' = Explain(s)
      /\ UNCHANGED <<nodes, edges, phase, roots>>
  BY <1>1 DEF Expand
<1> QED
  BY <1>2 DEF Expand, Seen

LEMMA InitIInv == Init => IInv
BY DEF Init, IInv, TypeOK, ScanInvariant, EdgesWellFormed, Seen, SelectionLeast,
       ReasonsJustified, ReasonsGrounded, EmptyMap

LEMMA NextIInv == IInv /\ [Next]_vars => IInv'
<1> SUFFICES ASSUME IInv, [Next]_vars PROVE IInv'
  OBVIOUS
<1> USE DEF IInv
<1>1. ASSUME NEW n \in Node, AddNode(n) PROVE IInv'
  BY <1>1 DEF AddNode, TypeOK, ScanInvariant, EdgesWellFormed, Seen, SelectionLeast,
     Closed, ReasonsJustified, ReasonsGrounded
<1>2. ASSUME NEW s \in Node, NEW t \in Node, NEW r \in Reason, AddEdge(s, t, r) PROVE IInv'
  <2>1. TypeOK'
    BY <1>2 DEF AddEdge, TypeOK, Edge
  <2>2. ScanInvariant'
    BY <1>2 DEF AddEdge, ScanInvariant, EdgesWellFormed, Seen
  <2>3. DOMAIN reasons' = {}
    BY <1>2 DEF AddEdge, ScanInvariant
  <2>4. SelectionLeast' /\ ReasonsJustified' /\ ReasonsGrounded'
    BY <1>2, <2>3 DEF AddEdge, SelectionLeast, ReasonsJustified, ReasonsGrounded
  <2> QED
    BY <2>1, <2>2, <2>4
<1>3. ASSUME NEW R \in SUBSET Node, BeginClosure(R) PROVE IInv'
  <2>1. Seen = {} /\ retained = {} /\ pending = {} /\ DOMAIN reasons = {}
    BY <1>3 DEF BeginClosure, ScanInvariant, Seen
  <2>2. CASE R \subseteq nodes
    <3>1. /\ roots' = R /\ pending' = R /\ phase' = "scan" /\ retained' = {}
          /\ reasons' = [n \in R |-> Root] /\ nodes' = nodes /\ edges' = edges
      BY <1>3, <2>1, <2>2 DEF BeginClosure
    <3>2. TypeOK'
      BY <3>1 DEF TypeOK, LinkRetention
    <3>3. ScanInvariant'
      BY <2>2, <3>1 DEF ScanInvariant, EdgesWellFormed, Seen
    <3>4. SelectionLeast'
      BY <3>1 DEF SelectionLeast
    <3>5. ReasonsJustified' /\ ReasonsGrounded'
      BY <3>1 DEF ReasonsJustified, ReasonsGrounded, Root
    <3> QED
      BY <3>2, <3>3, <3>4, <3>5
  <2>3. CASE ~(R \subseteq nodes)
    <3>1. /\ roots' = R /\ phase' = "missing" /\ pending' = {} /\ retained' = {}
          /\ reasons' = reasons /\ nodes' = nodes /\ edges' = edges
      BY <1>3, <2>1, <2>3 DEF BeginClosure
    <3> QED
      BY <2>1, <2>3, <3>1 DEF TypeOK, ScanInvariant, EdgesWellFormed, Seen,
         SelectionLeast, ReasonsJustified, ReasonsGrounded
  <2> QED
    BY <2>2, <2>3
<1>4. ASSUME NEW s \in Node, Expand(s) PROVE IInv'
  <2>0. s \in pending /\ phase = "scan"
    BY <1>4 DEF Expand
  <2>1. CASE s \in retained
    <3>1. pending' = pending \ {s} /\ Seen' = Seen
          /\ UNCHANGED <<nodes, edges, phase, roots, retained, reasons>>
      BY <1>4, <2>1 DEF Expand, Seen
    <3> QED
      BY <2>0, <3>1 DEF TypeOK, ScanInvariant, EdgesWellFormed, SelectionLeast, Closed,
         ReasonsJustified, ReasonsGrounded, Seen
  <2>2. CASE s \notin retained
    <3>1. /\ pending' = (pending \ {s}) \cup Discovered(s)
          /\ retained' = retained \cup {s}
          /\ reasons' = Explain(s)
          /\ Seen' = Seen \cup Discovered(s)
          /\ UNCHANGED <<nodes, edges, phase, roots>>
      BY <1>4, <2>2, ExpandStep
    <3>2. Discovered(s) \subseteq nodes /\ Discovered(s) \subseteq Node
      BY DEF Discovered, EdgesFrom, ScanInvariant, EdgesWellFormed, TypeOK, Edge
    <3>3. /\ DOMAIN reasons' = Seen \cup Discovered(s)
          /\ \A n \in Seen : reasons'[n] = reasons[n]
          /\ \A n \in Discovered(s) \ Seen : reasons'[n] = Dependency(s, FirstReason(s, n))
      BY <3>1 DEF Explain, ScanInvariant
    <3>4. \A n \in Discovered(s) :
            /\ FirstReason(s, n) \in Reason
            /\ [source |-> s, target |-> n, reason |-> FirstReason(s, n)] \in edges
      BY FirstReasonIsEdge
    <3>5. TypeOK'
      <4>1. \A n \in DOMAIN reasons' : reasons'[n] \in LinkRetention
        <5>1. \A n \in Seen : reasons'[n] \in LinkRetention
          BY <3>3 DEF TypeOK, ScanInvariant
        <5>2. \A n \in Discovered(s) \ Seen : reasons'[n] \in LinkRetention
          <6> SUFFICES ASSUME NEW n \in Discovered(s) \ Seen
                       PROVE  reasons'[n] \in LinkRetention
            OBVIOUS
          <6>1. reasons'[n] = Dependency(s, FirstReason(s, n)) /\ FirstReason(s, n) \in Reason
            BY <3>3, <3>4
          <6> QED
            BY <6>1 DEF LinkRetention, Dependency
        <5> QED
          BY <5>1, <5>2, <3>3
      <4> QED
        BY <4>1, <3>1, <3>2, <3>3 DEF TypeOK, Seen
    <3>6. ScanInvariant'
      <4>1. \A e \in edges : e.source = s => e.target \in Seen \cup Discovered(s)
        BY <2>0 DEF Discovered, EdgesFrom, Seen
      <4> QED
        BY <4>1, <2>0, <3>1, <3>2, <3>3 DEF ScanInvariant, EdgesWellFormed
    <3>7. SelectionLeast'
      <4> SUFFICES ASSUME NEW T \in SUBSET nodes, roots \subseteq T, Closed(T)
                   PROVE  Seen' \subseteq T
        BY <3>1 DEF SelectionLeast, Closed, Seen
      <4>1. Seen \subseteq T
        BY <2>0 DEF SelectionLeast, Seen
      <4>2. Discovered(s) \subseteq T
        BY <4>1, <2>0 DEF Discovered, EdgesFrom, Closed, Seen
      <4> QED
        BY <4>1, <4>2, <3>1
    <3>8. ReasonsJustified'
      BY <2>0, <3>1, <3>3, <3>4 DEF ReasonsJustified, ScanInvariant, Dependency
    <3>9. ReasonsGrounded'
      <4> SUFFICES ASSUME NEW S \in SUBSET DOMAIN reasons', S # {}
                   PROVE  \E n \in S : reasons'[n].kind = "root" \/ reasons'[n].source \notin S
        BY DEF ReasonsGrounded
      <4>1. CASE S \cap Seen = {}
        <5>1. PICK n \in S : n \in Discovered(s) \ Seen
          BY <4>1, <3>3
        <5>2. reasons'[n].source = s
          BY <5>1, <3>3 DEF Dependency
        <5> QED
          BY <5>1, <5>2, <4>1, <2>0 DEF Seen
      <4>2. CASE S \cap Seen # {}
        <5>1. PICK n \in S \cap Seen :
                reasons[n].kind = "root" \/ reasons[n].source \notin S \cap Seen
          BY <4>2 DEF ReasonsGrounded, ScanInvariant
        <5>2. reasons[n].kind = "root" \/ reasons[n].source \in Seen
          BY <5>1 DEF ReasonsJustified, ScanInvariant, Seen
        <5> QED
          BY <5>1, <5>2, <3>3
      <4> QED
        BY <4>1, <4>2
    <3> QED
      BY <3>5, <3>6, <3>7, <3>8, <3>9
  <2> QED
    BY <2>1, <2>2
<1>5. ASSUME Finish PROVE IInv'
  BY <1>5 DEF Finish, TypeOK, ScanInvariant, EdgesWellFormed, Seen, SelectionLeast, Closed,
     ReasonsJustified, ReasonsGrounded
<1>6. CASE UNCHANGED vars
  BY <1>6 DEF vars, TypeOK, ScanInvariant, EdgesWellFormed, Seen, SelectionLeast, Closed,
     ReasonsJustified, ReasonsGrounded
<1> QED
  BY <1>1, <1>2, <1>3, <1>4, <1>5, <1>6 DEF Next

(* The inductive invariant of the scan holds throughout. *)
THEOREM ScanCorrect == Spec => []IInv
<1>1. Init => IInv
  BY InitIInv
<1>2. IInv /\ [Next]_vars => IInv'
  BY NextIInv
<1> QED
  BY <1>1, <1>2, PTL DEF Spec

(* Types of the graph and of the result maps, for every graph. *)
THEOREM TypeCorrect == Spec => []TypeOK
<1>1. IInv => TypeOK
  BY DEF IInv
<1> QED
  BY <1>1, ScanCorrect, PTL

(* A finished selection holds the roots and every dependency of what it    *)
(* holds: LinkGraph::closure drops nothing a retained symbol needs.        *)
THEOREM SelectionClosedCorrect == Spec => []SelectionClosed
<1>1. IInv => SelectionClosed
  BY DEF IInv, ScanInvariant, SelectionClosed, Closed, Seen
<1> QED
  BY <1>1, ScanCorrect, PTL

(* ... and holds nothing outside the least such set. *)
THEOREM SelectionLeastCorrect == Spec => []SelectionLeast
<1>1. IInv => SelectionLeast
  BY DEF IInv
<1> QED
  BY <1>1, ScanCorrect, PTL

(* The reasons of the link map are edges and form no cycle of blame. *)
THEOREM ReasonsGroundedCorrect == Spec => [](ReasonsJustified /\ ReasonsGrounded)
<1>1. IInv => ReasonsJustified /\ ReasonsGrounded
  BY DEF IInv
<1> QED
  BY <1>1, ScanCorrect, PTL

(* The missing-dependency error is unreachable: only a root can be missing. *)
THEOREM OnlyRootsGoMissingCorrect == Spec => []OnlyRootsGoMissing
<1>1. IInv => OnlyRootsGoMissing
  BY DEF IInv, ScanInvariant, OnlyRootsGoMissing, Seen
<1> QED
  BY <1>1, ScanCorrect, PTL

-----------------------------------------------------------------------------
(* The abstract variables, and what the answer is in each phase. *)
Arcs == {<<e.source, e.target>> : e \in edges}
Answer ==
  CASE phase = "done" -> Abstract!Selected(roots, retained)
    [] phase = "missing" -> Abstract!Missing(roots)
    [] OTHER -> Abstract!Unanswered

LEMMA AbstractState ==
  Abstract!vars = <<nodes, Arcs, Answer>>
BY DEF Abstract!vars, Arcs, Answer, Abstract!Selected, Abstract!Missing, Abstract!Unanswered

(* Closed under the arcs and closed under the edges are the same. *)
LEMMA ClosedUnderArcs ==
  ASSUME NEW T PROVE Abstract!ClosedUnder(T, Arcs) <=> Closed(T)
<1>1. \A e \in edges : <<e.source, e.target>> \in Arcs
  BY DEF Arcs
<1>2. \A a \in Arcs : \E e \in edges : a = <<e.source, e.target>>
  BY DEF Arcs
<1>3. ASSUME Abstract!ClosedUnder(T, Arcs), NEW e \in edges, e.source \in T PROVE e.target \in T
  <2>1. <<e.source, e.target>> \in Arcs
    BY <1>1
  <2>2. <<e.source, e.target>>[1] \in T => <<e.source, e.target>>[2] \in T
    BY <1>3, <2>1 DEF Abstract!ClosedUnder
  <2> QED BY <1>3, <2>2
<1>4. ASSUME Closed(T), NEW a \in Arcs, a[1] \in T PROVE a[2] \in T
  <2>1. PICK e \in edges : a = <<e.source, e.target>>
    BY <1>2
  <2> QED BY <1>4, <2>1 DEF Closed
<1> QED BY <1>3, <1>4 DEF Abstract!ClosedUnder, Closed

(* An emptied worklist has found the set the abstract query answers with.  *)
LEMMA LeastWhenEmpty ==
  ASSUME IInv, phase = "scan", pending = {} PROVE Abstract!LeastClosed(retained, roots, Arcs)
<1>1. roots \subseteq retained /\ Closed(retained)
  BY DEF IInv, ScanInvariant, Closed, Seen
<1>2. \A T \in SUBSET nodes : roots \subseteq T /\ Closed(T) => retained \subseteq T
  BY DEF IInv, SelectionLeast
<1> QED BY <1>1, <1>2, ClosedUnderArcs DEF Abstract!LeastClosed

(* Arcs join nodes of the graph, before and after a step. *)
LEMMA ArcsJoinNodes ==
  /\ IInv => Arcs \in SUBSET (nodes \X nodes)
  /\ IInv' => Arcs' \in SUBSET (nodes' \X nodes')
BY DEF IInv, ScanInvariant, EdgesWellFormed, Arcs

(* The worklist implements LinkReachability: every step of it is a step of *)
(* the abstract linker or changes nothing the abstract linker shows.       *)
THEOREM ReachabilityRefined == Spec => RefinesReachability
<1>1. Init => Abstract!Init
  BY DEF Init, Abstract!Init, Abstract!Unanswered
<1>2. IInv /\ IInv' /\ [Next]_vars => [Abstract!Next]_(Abstract!vars)
  <2> SUFFICES ASSUME IInv, IInv', [Next]_vars
               PROVE  Abstract!Next \/ UNCHANGED Abstract!vars
    OBVIOUS
  <2>1. ASSUME NEW n \in Node, AddNode(n) PROVE Abstract!Next
    <3>1. /\ Answer = Abstract!Unanswered /\ UNCHANGED Answer
          /\ nodes' = nodes \cup {n, n} /\ UNCHANGED Arcs
      BY <2>1 DEF AddNode, Answer, Arcs
    <3>2. Arcs' \in SUBSET (nodes' \X nodes') /\ nodes' \in SUBSET Node
      BY <2>1, ArcsJoinNodes DEF IInv, TypeOK
    <3>3. Abstract!Extend
      BY <3>1, <3>2 DEF Abstract!Extend, Answer, Arcs, Abstract!Selected, Abstract!Missing, Abstract!Unanswered
    <3> QED BY <3>3 DEF Abstract!Next
  <2>2. ASSUME NEW s \in Node, NEW t \in Node, NEW r \in Reason, AddEdge(s, t, r) PROVE Abstract!Next
    <3> DEFINE new == [source |-> s, target |-> t, reason |-> r]
    <3>1. /\ Answer = Abstract!Unanswered /\ UNCHANGED Answer
          /\ nodes' = nodes \cup {s, t} /\ edges' = edges \cup {new}
      BY <2>2 DEF AddEdge, Answer
    <3>2. Arcs' = {<<e.source, e.target>> : e \in edges \cup {new}}
      BY <3>1 DEF Arcs
    <3>3. Arcs' = Arcs \cup {<<s, t>>}
      <4>1. new.source = s /\ new.target = t
        OBVIOUS
      <4> HIDE DEF new
      <4> QED BY <3>2, <4>1 DEF Arcs
    <3>4. Arcs' \in SUBSET (nodes' \X nodes') /\ nodes' \in SUBSET Node
      BY <2>2, ArcsJoinNodes DEF IInv, TypeOK
    <3>5. Abstract!Extend
      BY <3>1, <3>3, <3>4 DEF Abstract!Extend, Answer, Arcs, Abstract!Selected, Abstract!Missing, Abstract!Unanswered
    <3> QED BY <3>5 DEF Abstract!Next
  <2>3. ASSUME NEW R \in SUBSET Node, BeginClosure(R) PROVE Abstract!Next \/ UNCHANGED Abstract!vars
    <3>1. Answer = Abstract!Unanswered /\ UNCHANGED <<nodes, Arcs>>
      BY <2>3 DEF BeginClosure, Answer, Arcs
    <3>2. CASE R \subseteq nodes
      BY <2>3, <3>1, <3>2, AbstractState DEF BeginClosure, Answer, Abstract!vars, Arcs,
         Abstract!Selected, Abstract!Missing, Abstract!Unanswered
    <3>3. CASE ~(R \subseteq nodes)
      <4>1. Answer' = Abstract!Missing(R)
        BY <2>3, <3>3 DEF BeginClosure, Answer, Abstract!Missing
      <4>2. Abstract!Refuse
        BY <3>1, <3>3, <4>1 DEF Abstract!Refuse, Answer, Arcs, Abstract!Selected, Abstract!Missing, Abstract!Unanswered
      <4> QED BY <4>2 DEF Abstract!Next
    <3> QED BY <3>2, <3>3
  <2>4. ASSUME NEW s \in Node, Expand(s) PROVE UNCHANGED Abstract!vars
    <3>1. phase = "scan" /\ UNCHANGED <<nodes, edges, roots>>
      BY <2>4 DEF Expand
    <3>2. phase' = "scan"
      BY <2>4, <3>1, ExpandStep DEF Expand
    <3> QED BY <3>1, <3>2 DEF Abstract!vars
  <2>5. ASSUME Finish PROVE Abstract!Next
    <3>1. /\ Answer = Abstract!Unanswered /\ UNCHANGED <<nodes, Arcs, roots, retained>>
          /\ phase' = "done" /\ Answer' = Abstract!Selected(roots, retained)
      BY <2>5 DEF Finish, Answer, Arcs, Abstract!Selected
    <3>2. Abstract!LeastClosed(retained, roots, Arcs)
      BY <2>5, LeastWhenEmpty DEF Finish
    <3>3. roots \in SUBSET nodes /\ retained \in SUBSET nodes
      BY <2>5 DEF Finish, IInv, ScanInvariant, Seen
    <3>4. Abstract!Select
      BY <3>1, <3>2, <3>3 DEF Abstract!Select, Answer, Arcs, Abstract!Selected, Abstract!Missing, Abstract!Unanswered
    <3> QED BY <3>4 DEF Abstract!Next
  <2>6. CASE UNCHANGED vars
    BY <2>6 DEF vars, Abstract!vars
  <2> QED BY <2>1, <2>2, <2>3, <2>4, <2>5, <2>6 DEF Next
<1>3. Spec => []IInv
  BY ScanCorrect
<1> QED
  BY <1>1, <1>2, <1>3, PTL DEF Spec, RefinesReachability, Abstract!Spec

-----------------------------------------------------------------------------
(* Link selection.  Between its steps the graph is empty or the program's, *)
(* a closure runs from the roots of the policy, and a selection that was   *)
(* made is the filter of a finished closure.                               *)
SelectInv ==
  /\ WellFormed
  /\ IInv
  /\ \/ nodes = GraphNodes /\ edges = GraphEdges
     \/ phase = "build" /\ nodes = {} /\ edges = {}
  /\ phase \in {"scan", "done"} => nodes = GraphNodes /\ edges = GraphEdges /\ roots = LinkRoots
  /\ phase # "missing"
  /\ outcome # "none" => phase = "done" /\ kept = {i \in Items : Stays(i)}
  /\ outcome # "lost entry"

(* Identities by kind. *)
LEMMA NodeRanges ==
  ASSUME WellFormed, NEW i \in Items
  PROVE  /\ Kind(i) = "routine" <=> NodeOf(i) \in 100..199
         /\ Kind(i) \in {"storage", "type"} => NodeOf(i) \in 200..299
         /\ NodeOf(i) \in 200..299 => Kind(i) \notin Executable \cup {"routine"}
<1>1. i \in 1..99 /\ ModuleId(i) \in Nat
  BY DEF WellFormed, MaxItems
<1>2. Ordinal(i) \in Nat
  <2> DEFINE S == {j \in 1..(i - 1) : Kind(j) \in Executable /\ Item(j).region = Item(i).region}
  <2>1. IsFiniteSet(1..(i - 1))
    BY <1>1, FS_Interval
  <2>2. IsFiniteSet(S)
    BY <2>1, FS_Subset
  <2> QED BY <2>2, FS_CardinalityType DEF Ordinal
<1>3. Kind(i) \in {"routine", "storage", "type", "define"} \cup Executable
  BY DEF WellFormed
<1>4. CASE Kind(i) = "routine"
  BY <1>1, <1>4 DEF NodeOf, Executable
<1>5. CASE Kind(i) \in {"storage", "type"}
  BY <1>1, <1>5 DEF NodeOf, Executable
<1>6. CASE Kind(i) \in {"define"} \cup Executable
  <2>1. NodeOf(i) = 300 + 10 * ModuleId(i) + Ordinal(i)
    BY <1>6 DEF NodeOf, Executable
  <2>2. NodeOf(i) >= 300
    BY <1>1, <1>2, <2>1
  <2> QED BY <1>6, <2>2, <2>1, <1>1, <1>2 DEF Executable
<1> QED BY <1>3, <1>4, <1>5, <1>6

(* Each edge of the graph comes from a reference or an opaque body. *)
LEMMA EdgesJoinNodes ==
  ASSUME WellFormed
  PROVE  GraphEdges \subseteq Edge /\ \A e \in GraphEdges : {e.source, e.target} \subseteq GraphNodes
<1> SUFFICES ASSUME NEW e \in GraphEdges PROVE e \in Edge /\ {e.source, e.target} \subseteq GraphNodes
  OBVIOUS
<1>1. PICK i \in Items : HasNode(i) /\ e \in ReferenceEdges(i) \cup LayoutEdges(i)
  BY DEF GraphEdges
<1>2. NodeOf(i) \in GraphNodes /\ GraphNodes \subseteq Node
  BY <1>1 DEF GraphNodes, WellFormed
<1>3. CASE e \in ReferenceEdges(i)
  <2>1. PICK r \in Item(i).refs : Named(r.to) /\
           e = [source |-> NodeOf(i), target |-> NodeOf(r.to), reason |-> ReasonOf(i, r)]
    BY <1>3 DEF ReferenceEdges
  <2>2. r.to \in Items /\ HasNode(r.to) /\ r.via \in {"call", "machine", "list", "value"}
    BY <2>1 DEF WellFormed, Named, HasNode
  <2>3. NodeOf(r.to) \in GraphNodes
    BY <2>2 DEF GraphNodes
  <2>4. ReasonOf(i, r) \in Reason
    BY <2>2, LinkReasonAssumption DEF ReasonOf
  <2> QED BY <2>1, <2>3, <2>4, <1>2 DEF Edge
<1>4. CASE e \in LayoutEdges(i)
  <2>1. PICK j \in Items : HasNode(j) /\
           e = [source |-> NodeOf(i), target |-> NodeOf(j), reason |-> ConservativeLayout]
    BY <1>4 DEF LayoutEdges
  <2>2. NodeOf(j) \in GraphNodes
    BY <2>1 DEF GraphNodes
  <2> QED BY <2>1, <2>2, <1>2, LinkReasonAssumption DEF Edge
<1> QED BY <1>1, <1>3, <1>4

(* Whatever the policy, its roots are nodes of the program's graph. *)
LEMMA RootsAreNodes ==
  ASSUME WellFormed, nodes = GraphNodes, edges = GraphEdges
  PROVE  LinkRoots \subseteq nodes
<1>1. TopLevelOf(program.root) \subseteq GraphNodes
  BY DEF TopLevelOf, GraphNodes, HasNode, Executable
<1>2. Tables \subseteq GraphNodes
  BY EdgesJoinNodes DEF Tables
<1>3. EntryNodes \subseteq GraphNodes
  BY DEF EntryNodes, GraphNodes, HasNode, WellFormed
<1> QED BY <1>1, <1>2, <1>3 DEF LinkRoots

(* The entry is among the roots of either policy. *)
LEMMA EntryIsRoot ==
  ASSUME WellFormed, nodes = GraphNodes, program.entry # 0
  PROVE  program.entry \in Items /\ NodeOf(program.entry) \in LinkRoots
<1>1. program.entry \in Items /\ Kind(program.entry) = "routine"
  BY DEF WellFormed
<1>2. NodeOf(program.entry) \in GraphNodes
  BY <1>1 DEF GraphNodes, HasNode
<1> QED BY <1>1, <1>2 DEF LinkRoots, EntryNodes

LEMMA ProgramUnchanged ==
  ASSUME UNCHANGED program, WellFormed
  PROVE  WellFormed' /\ GraphNodes' = GraphNodes /\ GraphEdges' = GraphEdges
BY SMTT(60) DEF WellFormed, GraphNodes, GraphEdges, Items, Item, Kind, ModuleId, NodeOf, Ordinal, HasNode,
   ReferenceEdges, LayoutEdges, ReasonOf, Named

(* What depends on the program and the graph alone. *)
LEMMA RootsUnchanged ==
  ASSUME UNCHANGED <<nodes, edges, program, policy>>
  PROVE  LinkRoots' = LinkRoots
<1>1. TopLevelOf(program.root)' = TopLevelOf(program.root)
  BY DEF TopLevelOf, Items, Item, Kind, ModuleId, NodeOf, Ordinal
<1>2. Tables' = Tables
  BY DEF Tables
<1>3. EntryNodes' = EntryNodes
  BY DEF EntryNodes, Item, Kind, ModuleId, NodeOf, Ordinal
<1> QED BY <1>1, <1>2, <1>3 DEF LinkRoots

LEMMA FilterUnchanged ==
  ASSUME UNCHANGED <<program, retained>>
  PROVE  {i \in Items : Stays(i)}' = {i \in Items : Stays(i)}
<1>1. Items' = Items
  BY DEF Items
<1>2. ASSUME NEW i \in Items PROVE Stays(i)' <=> Stays(i)
  <2>1. Kind(i)' = Kind(i) /\ FilterNode(i)' = FilterNode(i)
    BY DEF FilterNode, Items, Item, Kind, ModuleId, NodeOf, Ordinal
  <2> QED BY <2>1 DEF Stays
<1> QED BY <1>1, <1>2

LEMMA SelectInit_Inv == SelectInit => SelectInv
<1>1. SelectInit => IInv
  BY InitIInv DEF SelectInit
<1> QED BY <1>1 DEF SelectInit, SelectInv, Init

LEMMA SelectNext_Inv == SelectInv /\ [SelectNext]_linkVars => SelectInv'
<1> SUFFICES ASSUME SelectInv, [SelectNext]_linkVars PROVE SelectInv'
  OBVIOUS
<1>0. UNCHANGED program /\ WellFormed
  BY DEF SelectInv, SelectNext, Build, StartClosure, Close, Filter, linkVars, selection
<1>1. WellFormed' /\ GraphNodes' = GraphNodes /\ GraphEdges' = GraphEdges
  BY <1>0, ProgramUnchanged
<1>2. CASE Build
  <2>1. /\ phase = "build" /\ phase' = "build" /\ nodes' = GraphNodes /\ edges' = GraphEdges
        /\ UNCHANGED <<roots, pending, retained, reasons, kept, outcome>>
    BY <1>2 DEF Build, selection
  <2>2. Seen = {} /\ DOMAIN reasons = {} /\ roots = {} /\ retained = {} /\ pending = {}
    BY <2>1 DEF SelectInv, IInv, ScanInvariant, Seen
  <2>3. TypeOK'
    BY <1>0, <2>1, EdgesJoinNodes DEF SelectInv, IInv, TypeOK, WellFormed
  <2>4. ScanInvariant'
    BY <1>0, <2>1, <2>2, EdgesJoinNodes DEF ScanInvariant, EdgesWellFormed, Seen, SelectInv, IInv
  <2>5. SelectionLeast' /\ ReasonsJustified' /\ ReasonsGrounded'
    BY <2>1, <2>2 DEF SelectionLeast, ReasonsJustified, ReasonsGrounded
  <2>6. IInv'
    BY <2>3, <2>4, <2>5 DEF IInv
  <2> QED BY <1>1, <2>1, <2>6 DEF SelectInv
<1>3. CASE StartClosure
  <2>1. nodes = GraphNodes /\ BeginClosure(LinkRoots) /\ UNCHANGED <<program, policy, kept, outcome>>
    BY <1>3 DEF StartClosure, selection
  <2>2. phase = "build" /\ UNCHANGED <<nodes, edges>> /\ roots' = LinkRoots
    BY <2>1 DEF BeginClosure
  <2>3. edges = GraphEdges
    <3>1. CASE nodes = {} /\ edges = {}
      <4>1. \A j \in Items : ~HasNode(j)
        BY <2>1, <3>1 DEF GraphNodes
      <4> QED BY <3>1, <4>1 DEF GraphEdges
    <3> QED BY <3>1 DEF SelectInv
  <2>4. LinkRoots \subseteq nodes
    BY <1>0, <2>1, <2>3, RootsAreNodes
  <2>5. phase' = "scan"
    BY <2>1, <2>4 DEF BeginClosure
  <2>6. LinkRoots \in SUBSET Node
    BY <2>4 DEF SelectInv, IInv, TypeOK
  <2>7. Next
    BY <2>1, <2>6 DEF Next
  <2>8. IInv'
    BY <2>7, NextIInv DEF SelectInv
  <2>9. LinkRoots' = LinkRoots
    BY <2>1, <2>2, <1>0, RootsUnchanged
  <2> QED BY <1>1, <2>1, <2>2, <2>3, <2>5, <2>8, <2>9 DEF SelectInv
<1>4. CASE Close
  <2>1. Scan /\ UNCHANGED <<program, policy, kept, outcome>>
    BY <1>4 DEF Close, selection
  <2>2. phase = "scan" /\ UNCHANGED <<nodes, edges, roots>>
    BY <2>1 DEF Scan, Expand, Finish
  <2>3. Next
    BY <2>1 DEF Scan, Next
  <2>4. IInv'
    BY <2>3, NextIInv DEF SelectInv
  <2>5. phase' \in {"scan", "done"}
    <3>1. ASSUME NEW s \in Node, Expand(s) PROVE phase' = "scan"
      BY <2>2, <3>1, ExpandStep DEF Expand, SelectInv
    <3>2. ASSUME Finish PROVE phase' = "done"
      BY <3>2 DEF Finish
    <3> QED BY <2>1, <3>1, <3>2 DEF Scan
  <2>6. LinkRoots' = LinkRoots
    BY <2>1, <2>2, <1>0, RootsUnchanged
  <2>7. outcome = "none" /\ outcome' = "none"
    BY <2>1, <2>2 DEF SelectInv
  <2> QED BY <1>1, <2>2, <2>4, <2>5, <2>6, <2>7 DEF SelectInv
<1>5. CASE Filter
  <2>1. /\ phase = "done" /\ kept' = {i \in Items : Stays(i)} /\ UNCHANGED <<link, program, policy>>
        /\ outcome' = IF program.entry \in kept' \cup {0} THEN "selected" ELSE "lost entry"
    BY <1>5 DEF Filter
  <2>2. UNCHANGED <<nodes, edges, phase, roots, pending, retained, reasons>>
    BY <2>1 DEF link
  <2>3. IInv'
    BY <2>2, NextIInv DEF SelectInv, vars
  <2>4. program.entry \in kept' \cup {0}
    <3>1. CASE program.entry # 0
      <4>1. program.entry \in Items /\ NodeOf(program.entry) \in roots
        BY <1>0, <2>1, <3>1, EntryIsRoot DEF SelectInv
      <4>2. roots \subseteq retained
        BY <2>1 DEF SelectInv, IInv, ScanInvariant, Seen
      <4> QED BY <2>1, <4>1, <4>2 DEF Stays, FilterNode
    <3> QED BY <3>1
  <2>5. LinkRoots' = LinkRoots
    BY <2>1, <2>2, RootsUnchanged
  <2>6. {i \in Items : Stays(i)}' = {i \in Items : Stays(i)}
    BY <2>1, <2>2, FilterUnchanged
  <2> QED BY <1>1, <2>1, <2>2, <2>3, <2>4, <2>5, <2>6 DEF SelectInv
<1>6. CASE UNCHANGED linkVars
  <2>1. UNCHANGED <<nodes, edges, phase, roots, pending, retained, reasons, program, policy, kept, outcome>>
    BY <1>6 DEF linkVars, link, selection
  <2>2. IInv'
    BY <2>1, NextIInv DEF SelectInv, vars
  <2>3. LinkRoots' = LinkRoots /\ {i \in Items : Stays(i)}' = {i \in Items : Stays(i)}
    BY <2>1, RootsUnchanged, FilterUnchanged
  <2> QED BY <1>1, <2>1, <2>2, <2>3 DEF SelectInv
<1> QED BY <1>2, <1>3, <1>4, <1>5, <1>6 DEF SelectNext

(* The invariant holds throughout every selection. *)
LEMMA SelectCorrect == SelectSpec => []SelectInv
<1>1. SelectInit => SelectInv
  BY SelectInit_Inv
<1>2. SelectInv /\ [SelectNext]_linkVars => SelectInv'
  BY SelectNext_Inv
<1> QED BY <1>1, <1>2, PTL DEF SelectSpec

(* For every program and either policy: linking does not fail. *)
THEOREM SelectionSucceedsCorrect == SelectSpec => []SelectionSucceeds
<1>1. SelectInv => SelectionSucceeds
  BY DEF SelectInv, SelectionSucceeds
<1> QED BY <1>1, SelectCorrect, PTL

-----------------------------------------------------------------------------
(* A reference to a routine from a list in a declaration is a table's.     *)
LEMMA TablesAreStarts ==
  ASSUME WellFormed, nodes = GraphNodes, edges = GraphEdges
  PROVE  /\ \A i \in Items : Kind(i) \in {"storage", "type"} =>
              \A r \in Item(i).refs : r.via = "list" /\ Kind(r.to) = "routine" => NodeOf(i) \in Tables
         /\ \A n \in Tables : \E i \in Starts : HasNode(i) /\ NodeOf(i) = n
<1>1. ASSUME NEW i \in Items, Kind(i) \in {"storage", "type"}, NEW r \in Item(i).refs,
             r.via = "list", Kind(r.to) = "routine"
      PROVE  NodeOf(i) \in Tables
  <2>1. r.to \in Items /\ Named(r.to) /\ r.to # i /\ HasNode(i)
    BY <1>1 DEF WellFormed, Named, HasNode
  <2>2. ReasonOf(i, r) = InitializerRelocation
    BY <1>1 DEF ReasonOf
  <2> DEFINE e == [source |-> NodeOf(i), target |-> NodeOf(r.to), reason |-> ReasonOf(i, r)]
  <2>3. e \in ReferenceEdges(i)
    BY <2>1 DEF ReferenceEdges
  <2>4. e \in edges
    BY <2>1, <2>3 DEF GraphEdges
  <2>5. e.source \in 200..299 /\ e.target \in 100..199 /\ e.reason = InitializerRelocation /\ e.source = NodeOf(i)
    BY <1>1, <2>1, <2>2, NodeRanges
  <2> HIDE DEF e
  <2> QED BY <2>4, <2>5 DEF Tables
<1>2. ASSUME NEW n \in Tables PROVE \E i \in Starts : HasNode(i) /\ NodeOf(i) = n
  <2>1. PICK e \in GraphEdges : n = e.source /\ e.source \in 200..299 /\ e.target \in 100..199
                                /\ e.reason = InitializerRelocation
    BY <1>2 DEF Tables
  <2>2. PICK i \in Items : HasNode(i) /\ e \in ReferenceEdges(i) \cup LayoutEdges(i)
    BY <2>1 DEF GraphEdges
  <2>3. e \in ReferenceEdges(i)
    BY <2>1, <2>2 DEF LayoutEdges, InitializerRelocation, ConservativeLayout
  <2>4. PICK r \in Item(i).refs : Named(r.to) /\
           e = [source |-> NodeOf(i), target |-> NodeOf(r.to), reason |-> ReasonOf(i, r)]
    BY <2>3 DEF ReferenceEdges
  <2>5. e.source = NodeOf(i) /\ e.target = NodeOf(r.to) /\ ReasonOf(i, r) = InitializerRelocation
    BY <2>1, <2>4
  <2>6. r.to \in Items /\ r.via \in {"call", "machine", "list", "value"}
    BY DEF WellFormed
  <2>7. Kind(r.to) = "routine" /\ Kind(i) \in {"storage", "type"}
    <3>1. Kind(r.to) = "routine"
      BY <2>1, <2>5, <2>6, NodeRanges
    <3>2. Kind(i) \notin Executable \cup {"routine"} /\ Kind(i) # "define"
      BY <2>1, <2>2, <2>5, NodeRanges DEF HasNode
    <3> QED BY <3>1, <3>2 DEF WellFormed
  <2>8. r.via = "list"
    BY <2>5, <2>6, <2>7 DEF ReasonOf, InitializerRelocation, DirectCall, MachineRelocation, RoutineAddress
  <2>9. i \in Starts
    BY <2>7, <2>8 DEF Starts
  <2> QED BY <2>1, <2>2, <2>5, <2>9
<1> QED BY <1>1, <1>2

(* An item with a node that uses another one has its node, or an edge to it. *)
LEMMA UsesAreEdges ==
  ASSUME WellFormed, NEW i \in Items, HasNode(i), NEW j \in Uses(i)
  PROVE  /\ j \in Items /\ HasNode(j)
         /\ \/ NodeOf(j) = NodeOf(i)
            \/ \E e \in GraphEdges : e.source = NodeOf(i) /\ e.target = NodeOf(j)
<1>1. CASE j \in {r.to : r \in {q \in Item(i).refs : Named(q.to)}}
  <2>1. PICK r \in Item(i).refs : Named(r.to) /\ j = r.to
    BY <1>1
  <2>2. j \in Items /\ HasNode(j)
    BY <2>1 DEF WellFormed, Named, HasNode
  <2>3. CASE j # i
    <3> DEFINE e == [source |-> NodeOf(i), target |-> NodeOf(r.to), reason |-> ReasonOf(i, r)]
    <3>1. e \in ReferenceEdges(i)
      BY <2>1, <2>3 DEF ReferenceEdges
    <3>2. e \in GraphEdges /\ e.source = NodeOf(i) /\ e.target = NodeOf(j)
      BY <2>1, <3>1 DEF GraphEdges
    <3> QED BY <2>2, <3>2
  <2> QED BY <2>2, <2>3
<1>2. CASE j \in Items /\ Item(i).opaque /\ HasNode(i) /\ HasNode(j) /\ ModuleId(j) = ModuleId(i)
  <2>1. CASE NodeOf(j) # NodeOf(i)
    <3> DEFINE e == [source |-> NodeOf(i), target |-> NodeOf(j), reason |-> ConservativeLayout]
    <3>1. e \in LayoutEdges(i)
      BY <1>2, <2>1 DEF LayoutEdges
    <3>2. e \in GraphEdges /\ e.source = NodeOf(i) /\ e.target = NodeOf(j)
      BY <3>1 DEF GraphEdges
    <3> QED BY <1>2, <3>2
  <2> QED BY <1>2, <2>1
<1> QED BY <1>1, <1>2 DEF Uses

(* What the policy starts from has its node among the roots. *)
LEMMA StartsAreRoots ==
  ASSUME WellFormed, nodes = GraphNodes, edges = GraphEdges, NEW i \in Starts
  PROVE  i \in Items /\ HasNode(i) /\ NodeOf(i) \in LinkRoots
<1>1. i \in Items /\ HasNode(i)
  <2>1. i \in Items
    BY DEF Starts
  <2>2. i = program.entry => Kind(i) = "routine"
    BY <2>1 DEF WellFormed, MaxItems
  <2> QED BY <2>1, <2>2 DEF Starts, HasNode, Executable
<1>2. NodeOf(i) \in nodes
  BY <1>1 DEF GraphNodes
<1>3. CASE policy = "RetainAll"
  BY <1>1, <1>2, <1>3 DEF LinkRoots
<1>4. CASE policy # "RetainAll"
  <2>1. CASE Kind(i) \in Executable /\ ModuleId(i) = program.root
    BY <1>1, <1>4, <2>1 DEF LinkRoots, TopLevelOf
  <2>2. CASE i = program.entry
    <3>1. program.entry # 0
      BY <1>1, <2>2 DEF WellFormed, MaxItems
    <3> QED BY <1>1, <2>2, <3>1, EntryIsRoot
  <2>3. CASE Kind(i) \in {"storage", "type"} /\ \E r \in Item(i).refs :
               r.via = "list" /\ Kind(r.to) = "routine"
    BY <1>1, <1>4, <2>3, TablesAreStarts DEF LinkRoots
  <2> QED BY <1>1, <1>4, <2>1, <2>2, <2>3 DEF Starts
<1> QED BY <1>1, <1>3, <1>4

(* For every program and either policy: what the policy starts from is     *)
(* kept, and nothing kept uses an item that was dropped.                   *)
THEOREM NoDanglingUseCorrect == SelectSpec => []NoDanglingUse
<1>1. SelectInv => NoDanglingUse
  <2> SUFFICES ASSUME SelectInv, outcome = "selected"
               PROVE  /\ Starts \subseteq kept
                      /\ \A i \in kept : Kind(i) \notin {"define", "type"} => Uses(i) \subseteq kept
    BY DEF NoDanglingUse
  <2>1. /\ WellFormed /\ nodes = GraphNodes /\ edges = GraphEdges /\ roots = LinkRoots
        /\ kept = {i \in Items : Stays(i)} /\ phase = "done"
    BY DEF SelectInv
  <2>2. roots \subseteq retained /\ \A e \in edges : e.source \in retained => e.target \in retained
    BY <2>1 DEF SelectInv, IInv, ScanInvariant, Seen
  <2>3. \A i \in Items : NodeOf(i) \in retained => i \in kept
    BY <2>1 DEF Stays, FilterNode
  <2>4. Starts \subseteq kept
    BY <2>1, <2>2, <2>3, StartsAreRoots
  <2>5. ASSUME NEW i \in kept, Kind(i) \notin {"define", "type"}, NEW j \in Uses(i) PROVE j \in kept
    <3>1. i \in Items /\ HasNode(i) /\ NodeOf(i) \in retained
      BY <2>1, <2>5 DEF Stays, FilterNode, HasNode
    <3>2. j \in Items /\ NodeOf(j) \in retained
      BY <2>1, <2>2, <3>1, UsesAreEdges
    <3> QED BY <2>3, <3>2
  <2> QED BY <2>4, <2>5
<1> QED BY <1>1, SelectCorrect, PTL

(* No two items share a node; a legacy source may number two statements    *)
(* alike.                                                                  *)
NodesDistinct ==
  \A i, j \in Items : HasNode(i) /\ HasNode(j) /\ NodeOf(i) = NodeOf(j) => i = j

(* The nodes of a set of items that is closed under use are closed under   *)
(* the edges of the graph.                                                 *)
LEMMA UseClosesNodes ==
  ASSUME WellFormed, NodesDistinct, NEW S \in SUBSET Items, ClosedUnderUse(S), edges = GraphEdges
  PROVE  Closed({NodeOf(i) : i \in {k \in S : HasNode(k)}})
<1> DEFINE T == {NodeOf(i) : i \in {k \in S : HasNode(k)}}
<1> SUFFICES ASSUME NEW e \in GraphEdges, e.source \in T PROVE e.target \in T
  BY DEF Closed
<1>1. PICK i \in Items : HasNode(i) /\ e \in ReferenceEdges(i) \cup LayoutEdges(i)
  BY DEF GraphEdges
<1>2. e.source = NodeOf(i)
  BY <1>1 DEF ReferenceEdges, LayoutEdges
<1>3. i \in S
  BY <1>1, <1>2 DEF NodesDistinct
<1>4. Uses(i) \subseteq S
  BY <1>1, <1>3 DEF ClosedUnderUse
<1>5. CASE e \in ReferenceEdges(i)
  <2>1. PICK r \in Item(i).refs : Named(r.to) /\ e.target = NodeOf(r.to)
    BY <1>5 DEF ReferenceEdges
  <2>2. r.to \in Uses(i) /\ HasNode(r.to)
    BY <2>1 DEF Uses, Named, HasNode
  <2> QED BY <2>1, <2>2, <1>4
<1>6. CASE e \in LayoutEdges(i)
  <2>1. PICK j \in Items : /\ HasNode(j) /\ ModuleId(j) = ModuleId(i) /\ Item(i).opaque
                           /\ e.target = NodeOf(j)
    BY <1>6 DEF LayoutEdges
  <2>2. j \in Uses(i)
    BY <1>1, <2>1 DEF Uses
  <2> QED BY <2>1, <2>2, <1>4
<1> QED BY <1>1, <1>5, <1>6

(* The roots are nodes of items the policy starts from. *)
LEMMA RootsAreStarts ==
  ASSUME WellFormed, nodes = GraphNodes, edges = GraphEdges, NEW n \in LinkRoots
  PROVE  \E i \in Starts : HasNode(i) /\ NodeOf(i) = n
<1>1. CASE policy = "RetainAll"
  <2>1. PICK i \in Items : HasNode(i) /\ n = NodeOf(i)
    BY <1>1 DEF LinkRoots, GraphNodes
  <2> QED BY <1>1, <2>1 DEF Starts
<1>2. CASE policy # "RetainAll" /\ n \in TopLevelOf(program.root)
  <2>1. PICK i \in Items : Kind(i) \in Executable /\ ModuleId(i) = program.root /\ n = NodeOf(i)
    BY <1>2 DEF TopLevelOf
  <2> QED BY <2>1 DEF Starts, HasNode, Executable
<1>3. CASE n \in Tables
  BY <1>3, TablesAreStarts
<1>4. CASE n \in EntryNodes
  <2>1. n = NodeOf(program.entry) /\ program.entry \in Items /\ Kind(program.entry) = "routine"
    BY <1>4 DEF EntryNodes, WellFormed
  <2> QED BY <2>1 DEF Starts, HasNode
<1> QED BY <1>1, <1>2, <1>3, <1>4 DEF LinkRoots

(* For every program whose statements are numbered apart, under either     *)
(* policy: what is kept and emits anything is needed.                      *)
THEOREM KeptIsNeededCorrect == SelectSpec /\ NodesDistinct => []KeptIsNeeded
<1>1. SelectInv /\ NodesDistinct => KeptIsNeeded
  <2> SUFFICES ASSUME SelectInv, NodesDistinct, outcome = "selected", NEW S \in SUBSET Items,
                      Starts \subseteq S, ClosedUnderUse(S),
                      NEW i \in kept, Kind(i) \notin {"define", "type"}
               PROVE  i \in S
    BY DEF KeptIsNeeded
  <2> DEFINE T == {NodeOf(k) : k \in {k \in S : HasNode(k)}}
  <2>1. /\ WellFormed /\ nodes = GraphNodes /\ edges = GraphEdges /\ roots = LinkRoots
        /\ kept = {k \in Items : Stays(k)} /\ phase = "done"
    BY DEF SelectInv
  <2>2. T \in SUBSET nodes
    BY <2>1 DEF GraphNodes
  <2>3. roots \subseteq T
    BY <2>1, RootsAreStarts
  <2>4. Closed(T)
    BY <2>1, UseClosesNodes
  <2>5. retained \subseteq T
    BY <2>1, <2>2, <2>3, <2>4 DEF SelectInv, IInv, SelectionLeast
  <2>6. i \in Items /\ HasNode(i) /\ NodeOf(i) \in retained
    BY <2>1 DEF Stays, FilterNode, HasNode
  <2>7. PICK k \in S : HasNode(k) /\ NodeOf(k) = NodeOf(i)
    BY <2>5, <2>6
  <2> QED BY <2>6, <2>7 DEF NodesDistinct
<1>2. SelectInv /\ NodesDistinct /\ [SelectNext]_linkVars => NodesDistinct'
  <2> SUFFICES ASSUME NodesDistinct, [SelectNext]_linkVars PROVE NodesDistinct'
    OBVIOUS
  <2>1. UNCHANGED program
    BY DEF SelectNext, Build, StartClosure, Close, Filter, linkVars, selection
  <2>2. Items' = Items
    BY <2>1 DEF Items
  <2>3. ASSUME NEW i \in Items PROVE NodeOf(i)' = NodeOf(i) /\ (HasNode(i)' <=> HasNode(i))
    BY <2>1 DEF Items, Item, Kind, ModuleId, NodeOf, Ordinal, HasNode
  <2> QED BY <2>2, <2>3 DEF NodesDistinct
<1>3. SelectSpec => []SelectInv
  BY SelectCorrect
<1> QED BY <1>1, <1>2, <1>3, PTL DEF SelectSpec

=============================================================================

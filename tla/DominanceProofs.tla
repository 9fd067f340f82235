--------------------------- MODULE DominanceProofs ---------------------------
(***************************************************************************)
(* What rests on dominators, for every graph and every routine: the sets   *)
(* Dominance settles on are sound, and exact when no block but the entry   *)
(* lacks predecessors; the frontiers of the tree are those of the sets;    *)
(* two registers given by RegisterAllocation68k never lose a value; and    *)
(* what Promotion puts in place of a load holds what the home would hold.  *)
(***************************************************************************)
EXTENDS MCPromotion, FiniteSetTheorems, WellFoundedInduction, TLAPS

(* A pass that has changed nothing leaves what it visited settled.         *)
Stable == ~changed => \A n \in (Node \ {Entry}) \ scan : dominators[n] = NextSet(n)

IInv == TypeOK /\ Stable /\ DominatorsComplete

LEMMA NextSetType ==
  ASSUME TypeOK, NEW n \in Node
  PROVE  NextSet(n) \in SUBSET Node /\ n \in NextSet(n)
  BY DEF NextSet, TypeOK

(* A walk that avoids a and gets to a predecessor of n gets to n.          *)
LEMMA PredecessorsPassed ==
  ASSUME NEW a \in Node, NEW n \in Node, NEW m \in Predecessors(n), a # n,
         TypeOK, EveryWalkPasses(a, n)
  PROVE  EveryWalkPasses(a, m)
<1>1. PICK R \in SUBSET Node : WalkRegion(R, a) /\ n \notin R
  BY DEF EveryWalkPasses
<1>2. m \notin R
  <2>1. SUFFICES ASSUME m \in R PROVE FALSE
    OBVIOUS
  <2>2. <<m, n>> \in edges
    BY DEF Predecessors
  <2> QED  BY <1>1, <2>1, <2>2 DEF WalkRegion
<1> QED  BY <1>1, <1>2 DEF EveryWalkPasses

(* The entry is passed only by itself. *)
LEMMA EntryPassed ==
  ASSUME NEW a \in Node, EveryWalkPasses(a, Entry)
  PROVE  a = Entry
  BY DEF EveryWalkPasses, WalkRegion

(* Recomputing a set keeps every true dominator. *)
LEMMA NextSetComplete ==
  ASSUME TypeOK, DominatorsComplete, Rooted,
         NEW n \in Node \ {Entry}, NEW a \in Node, EveryWalkPasses(a, n)
  PROVE  a \in NextSet(n)
<1>1. CASE a = n
  BY <1>1 DEF NextSet
<1>2. CASE a # n
  <2>1. \A m \in Predecessors(n) : a \in dominators[m]
    <3>1. TAKE m \in Predecessors(n)
    <3>2. m \in Node
      BY DEF Predecessors
    <3>3. EveryWalkPasses(a, m)
      BY <1>2, PredecessorsPassed
    <3> QED  BY <3>2, <3>3 DEF DominatorsComplete
  <2>2. Predecessors(n) # {}
    BY DEF Rooted
  <2> QED  BY <2>1, <2>2 DEF NextSet
<1> QED  BY <1>1, <1>2

-----------------------------------------------------------------------------
LEMMA InitInvariant == Init => IInv
<1> SUFFICES ASSUME Init PROVE IInv
  OBVIOUS
<1>1. TypeOK
  BY NodeAssumption DEF Init, TypeOK
<1>2. Stable
  BY DEF Init, Stable
<1>3. DominatorsComplete
  <2> SUFFICES ASSUME NEW a \in Node, NEW n \in Node, EveryWalkPasses(a, n)
               PROVE  a \in dominators[n]
    BY DEF DominatorsComplete
  <2> QED  BY EntryPassed DEF Init
<1> QED  BY <1>1, <1>2, <1>3 DEF IInv

LEMMA VisitInvariant == ASSUME NEW n \in Node PROVE IInv /\ Visit(n) => IInv'
<1> SUFFICES ASSUME IInv, Visit(n) PROVE IInv'
  OBVIOUS
<1>0. /\ TypeOK /\ n \in Node \ {Entry}
      /\ NextSet(n) \in SUBSET Node /\ n \in NextSet(n)
      /\ dominators' = [dominators EXCEPT ![n] = NextSet(n)]
      /\ changed' = (changed \/ NextSet(n) # dominators[n])
      /\ scan' = scan \ {n}
      /\ edges' = edges
  <2>1. TypeOK /\ n \in scan
    BY DEF IInv, Visit, IsSmallest
  <2>2. n \in Node \ {Entry}
    BY <2>1 DEF TypeOK
  <2> QED  BY <2>1, <2>2, NextSetType DEF Visit, graph
<1>1. TypeOK'
  BY <1>0 DEF TypeOK
<1>2. Stable'
  <2> SUFFICES ASSUME ~changed', NEW k \in (Node \ {Entry}) \ scan'
               PROVE  dominators'[k] = NextSet(k)'
    BY DEF Stable
  <2>1. ~changed /\ dominators' = dominators
    BY <1>0 DEF TypeOK
  <2>2. NextSet(k)' = NextSet(k)
    BY <1>0, <2>1 DEF NextSet, Predecessors
  <2>3. dominators[k] = NextSet(k)
    BY <1>0, <2>1 DEF IInv, Stable, TypeOK
  <2> QED  BY <2>1, <2>2, <2>3
<1>3. DominatorsComplete'
  <2> SUFFICES ASSUME Rooted', NEW a \in Node, NEW k \in Node, EveryWalkPasses(a, k)'
               PROVE  a \in dominators'[k]
    BY DEF DominatorsComplete
  <2>1. Rooted /\ EveryWalkPasses(a, k)
    BY <1>0 DEF Rooted, Predecessors, EveryWalkPasses, WalkRegion
  <2>2. CASE k = n
    <3>1. a \in NextSet(n)
      BY <1>0, <2>1, <2>2, NextSetComplete DEF IInv
    <3> QED  BY <1>0, <2>2, <3>1 DEF TypeOK
  <2>3. CASE k # n
    <3>1. dominators'[k] = dominators[k]
      BY <1>0, <2>3 DEF TypeOK
    <3> QED  BY <2>1, <3>1 DEF IInv, DominatorsComplete
  <2> QED  BY <2>2, <2>3
<1> QED  BY <1>1, <1>2, <1>3 DEF IInv

LEMMA NextPassInvariant == IInv /\ NextPass => IInv'
<1> SUFFICES ASSUME IInv, NextPass PROVE IInv'
  OBVIOUS
<1>1. edges' = edges /\ dominators' = dominators /\ scan' = Node \ {Entry} /\ changed' = FALSE
  BY DEF NextPass, graph
<1>2. TypeOK'
  BY <1>1 DEF IInv, TypeOK
<1>3. Stable'
  BY <1>1 DEF Stable
<1>4. DominatorsComplete'
  BY <1>1 DEF IInv, DominatorsComplete, Rooted, Predecessors, EveryWalkPasses, WalkRegion
<1> QED  BY <1>2, <1>3, <1>4 DEF IInv

LEMMA UnchangedInvariant ==
  ASSUME IInv, UNCHANGED <<edges, dominators, scan, changed>>
  PROVE  IInv'
<1>1. TypeOK'
  BY DEF IInv, TypeOK
<1>2. Stable'
  BY DEF IInv, Stable, NextSet, Predecessors
<1>3. DominatorsComplete'
  BY DEF IInv, DominatorsComplete, Rooted, Predecessors, EveryWalkPasses, WalkRegion
<1> QED  BY <1>1, <1>2, <1>3 DEF IInv

LEMMA NextInvariant == IInv /\ [Next]_vars => IInv'
<1> SUFFICES ASSUME IInv, [Next]_vars PROVE IInv'
  OBVIOUS
<1>1. ASSUME NEW n \in Node, Visit(n) PROVE IInv'
  BY <1>1, VisitInvariant
<1>2. CASE NextPass
  BY <1>2, NextPassInvariant
<1>3. CASE BuildTree
  BY <1>3, UnchangedInvariant DEF BuildTree, graph
<1>4. CASE UNCHANGED vars
  BY <1>4, UnchangedInvariant DEF vars, graph
<1> QED  BY <1>1, <1>2, <1>3, <1>4 DEF Next

-----------------------------------------------------------------------------
(* When the passes settle, the blocks not dominated by a form a region     *)
(* that walks avoiding a cannot leave.                                     *)
LEMMA SettledSound == IInv => DominatorsSound
<1> SUFFICES ASSUME IInv, Settled, NEW n \in Node, NEW a \in dominators[n]
             PROVE  EveryWalkPasses(a, n)
  BY DEF DominatorsSound
<1> DEFINE R == {m \in Node : a \notin dominators[m]}
<1>1. a \in Node
  BY DEF IInv, TypeOK
<1>2. a \notin R /\ Entry \in R \cup {a}
  BY <1>1, NodeAssumption DEF IInv, TypeOK
<1>3. ASSUME NEW e \in edges, e[1] \in R, e[2] # a
      PROVE  e[2] \in R
  <2>1. PICK m \in Node, k \in Node : e = <<m, k>>
    BY DEF IInv, TypeOK
  <2>2. m \in R /\ k # a /\ m \in Predecessors(k)
    BY <1>3, <2>1 DEF Predecessors
  <2>3. CASE k = Entry
    BY <2>1, <2>2, <2>3 DEF IInv, TypeOK
  <2>4. CASE k # Entry
    <3>1. dominators[k] = NextSet(k)
      BY <2>1, <2>4 DEF IInv, Stable, Settled, TypeOK
    <3>2. a \notin NextSet(k)
      BY <2>2 DEF NextSet
    <3> QED  BY <2>1, <3>1, <3>2
  <2> QED  BY <2>3, <2>4
<1>4. WalkRegion(R, a)
  BY <1>2, <1>3 DEF WalkRegion
<1>5. n \notin R /\ R \in SUBSET Node
  OBVIOUS
<1> QED  BY <1>4, <1>5 DEF EveryWalkPasses

(* The sets, the blocks left of a pass and the flag keep their types, and  *)
(* a block never loses itself from its own dominators.                     *)
THEOREM TypeCorrect == Spec => []TypeOK
<1>1. IInv => TypeOK
  BY DEF IInv
<1> QED  BY InitInvariant, NextInvariant, <1>1, PTL DEF Spec

(* For every graph, dead blocks included: what from_graph calls a          *)
(* dominator once its passes settle lies on every walk from the entry; and *)
(* if every block but the entry has predecessors, as after the removal of  *)
(* unreachable blocks, everything that does is found.                      *)
THEOREM DominatorsExactCorrect == Spec => []DominatorsExact
<1>1. IInv => DominatorsExact
  BY SettledSound DEF IInv, DominatorsExact
<1> QED  BY InitInvariant, NextInvariant, <1>1, PTL DEF Spec
-----------------------------------------------------------------------------
(* The tree and the frontiers are made once the sets are final.  They are  *)
(* exact when dead blocks lead to no live one, as in the graph the code    *)
(* builds from a routine without unreachable blocks.                       *)
Sealed == \A e \in edges : e[2] \in reachable => e[1] \in reachable
LiveComplete ==
  Sealed => \A a \in Node, n \in reachable : EveryWalkPasses(a, n) => a \in dominators[n]
TreeMade ==
  Done => /\ Settled
          /\ parent = [n \in Node |-> Parent(n)]
          /\ frontier = [n \in Node |-> Joins(parent, n)]

TreeInv == IInv /\ reachable = Live(edges) /\ LiveComplete /\ TreeMade

LEMMA LiveFacts ==
  ASSUME TypeOK, reachable = Live(edges)
  PROVE  /\ reachable \in SUBSET Node /\ Entry \in reachable
         /\ Closed(reachable, edges)
         /\ \A S \in SUBSET Node : Entry \in S /\ Closed(S, edges) => reachable \subseteq S
<1>1. reachable \in SUBSET Node /\ Entry \in reachable
  BY NodeAssumption DEF Live
<1>2. Closed(reachable, edges)
  <2> SUFFICES ASSUME NEW e \in edges, e[1] \in reachable PROVE e[2] \in reachable
    BY DEF Closed
  <2>1. e[2] \in Node
    BY DEF TypeOK
  <2>2. ASSUME NEW S \in SUBSET Node, Entry \in S, Closed(S, edges) PROVE e[2] \in S
    BY <2>2 DEF Live, Closed
  <2> QED BY <2>1, <2>2 DEF Live
<1>3. \A S \in SUBSET Node : Entry \in S /\ Closed(S, edges) => reachable \subseteq S
  BY DEF Live
<1> QED BY <1>1, <1>2, <1>3

(* The live blocks are those visit_postorder finds from the entry.         *)
Walks == INSTANCE FlowGraphProofs

THEOREM WalkReachesLive ==
  ASSUME NEW E \in SUBSET (Node \X Node)
  PROVE  Walks!Reachable(Node, E, Entry) = Live(E)
<1> DEFINE R == Walks!Reachable(Node, E, Entry)
<1>1. Walks!Blocks /\ Entry \in Node
  BY NodeAssumption, SMTT(30) DEF Walks!Blocks, Walks!IsFiniteSet, IsFiniteSet
<1>2. /\ Entry \in R /\ R \in SUBSET Node /\ Walks!Closed(R, E)
      /\ R = Walks!ReachableFrom(Node, E, Entry)
  BY <1>1, Walks!WalkReaches
<1> HIDE DEF R
<1>3. Closed(R, E)
  <2> SUFFICES ASSUME NEW e \in E, e[1] \in R PROVE e[2] \in R
    BY DEF Closed
  <2>1. e = <<e[1], e[2]>>
    OBVIOUS
  <2>2. e[2] \in Walks!Successors(E, e[1])
    BY <2>1 DEF Walks!Successors
  <2> QED BY <1>2, <2>2 DEF Walks!Closed
<1>4. ASSUME NEW S \in SUBSET Node, Entry \in S, Closed(S, E) PROVE R \subseteq S
  <2>1. \A e \in E : e[1] \in S => e[2] \in S
    BY <1>4 DEF Closed
  <2> QED BY <1>1, <1>2, <1>4, <2>1, Walks!ReachesOnly
<1> QED BY <1>2, <1>3, <1>4 DEF Live, R

(* A live block but the entry is entered from another live block.          *)
LEMMA LiveEntered ==
  ASSUME TypeOK, reachable = Live(edges), NEW n \in reachable \ {Entry}
  PROVE  \E m \in Predecessors(n) : m # n
<1> SUFFICES ASSUME \A m \in Predecessors(n) : m = n PROVE FALSE
  OBVIOUS
<1> DEFINE S == reachable \ {n}
<1>1. S \in SUBSET Node /\ Entry \in S
  BY LiveFacts
<1>2. Closed(S, edges)
  <2> SUFFICES ASSUME NEW e \in edges, e[1] \in S PROVE e[2] \in S
    BY DEF Closed
  <2>1. e[2] \in reachable
    BY LiveFacts DEF Closed
  <2>2. e = <<e[1], e[2]>> /\ e[1] \in Node
    BY DEF TypeOK
  <2>3. e[2] # n
    BY <2>2 DEF Predecessors
  <2> QED BY <2>1, <2>3
<1>3. reachable \subseteq S
  BY <1>1, <1>2, LiveFacts
<1> QED BY <1>3

LEMMA NextSetLiveComplete ==
  ASSUME TypeOK, reachable = Live(edges), LiveComplete, Sealed,
         NEW n \in reachable \ {Entry}, NEW a \in Node, EveryWalkPasses(a, n)
  PROVE  a \in NextSet(n)
<1>1. n \in Node /\ Predecessors(n) # {}
  BY LiveFacts, LiveEntered
<1>2. CASE a = n
  BY <1>2 DEF NextSet
<1>3. CASE a # n
  <2>1. \A m \in Predecessors(n) : a \in dominators[m]
    <3>1. TAKE m \in Predecessors(n)
    <3>2. m \in reachable
      BY DEF Predecessors, Sealed
    <3>3. EveryWalkPasses(a, m)
      BY <1>1, <1>3, PredecessorsPassed
    <3> QED  BY <3>2, <3>3 DEF LiveComplete
  <2> QED  BY <1>1, <2>1 DEF NextSet
<1> QED  BY <1>2, <1>3

LEMMA InitTree == Init => TreeInv
<1> SUFFICES ASSUME Init PROVE TreeInv
  OBVIOUS
<1>1. IInv /\ TypeOK
  BY InitInvariant DEF IInv
<1>2. reachable = Live(edges)
  BY DEF Init
<1>3. LiveComplete
  <2> SUFFICES ASSUME NEW a \in Node, NEW n \in reachable, EveryWalkPasses(a, n)
               PROVE  a \in dominators[n]
    BY DEF LiveComplete
  <2>1. n \in Node
    BY <1>1, <1>2, LiveFacts
  <2> QED  BY <2>1, EntryPassed DEF Init
<1>4. TreeMade
  BY DEF Init, TreeMade, Done
<1> QED  BY <1>1, <1>2, <1>3, <1>4 DEF TreeInv

LEMMA VisitTree == ASSUME NEW n \in Node PROVE TreeInv /\ Visit(n) => TreeInv'
<1> SUFFICES ASSUME TreeInv, Visit(n) PROVE TreeInv'
  OBVIOUS
<1>1. IInv' /\ TypeOK /\ n \in scan /\ n \in Node \ {Entry}
  BY VisitInvariant DEF TreeInv, Visit, IsSmallest, IInv, TypeOK
<1>2. edges' = edges /\ reachable' = reachable /\ parent' = parent
      /\ dominators' = [dominators EXCEPT ![n] = NextSet(n)]
  BY DEF Visit, graph, tree
<1>3. reachable' = Live(edges)'
  BY <1>2 DEF TreeInv, Live, Closed
<1>4. LiveComplete'
  <2> SUFFICES ASSUME Sealed', NEW a \in Node, NEW k \in reachable', EveryWalkPasses(a, k)'
               PROVE  a \in dominators'[k]
    BY DEF LiveComplete
  <2>1. Sealed /\ EveryWalkPasses(a, k) /\ k \in reachable /\ k \in Node
    BY <1>1, <1>2, LiveFacts DEF Sealed, EveryWalkPasses, WalkRegion, TreeInv
  <2>2. CASE k = n
    <3>1. a \in NextSet(n)
      BY <1>1, <2>1, <2>2, NextSetLiveComplete DEF TreeInv
    <3> QED  BY <1>1, <1>2, <2>2, <3>1 DEF TypeOK
  <2>3. CASE k # n
    <3>1. dominators'[k] = dominators[k]
      BY <1>1, <1>2, <2>1, <2>3 DEF TypeOK
    <3> QED  BY <2>1, <3>1 DEF TreeInv, LiveComplete
  <2> QED  BY <2>2, <2>3
<1>5. TreeMade'
  BY <1>1, <1>2 DEF TreeInv, TreeMade, Done, Settled
<1> QED  BY <1>1, <1>3, <1>4, <1>5 DEF TreeInv

LEMMA QuietTree ==
  ASSUME TreeInv, IInv', UNCHANGED <<edges, reachable, dominators>>
  PROVE  reachable' = Live(edges)' /\ LiveComplete'
  BY DEF TreeInv, Live, Closed, LiveComplete, Sealed, EveryWalkPasses, WalkRegion

(* What is made of the sets depends on the graph and on them alone.        *)
LEMMA MadeKept ==
  ASSUME UNCHANGED <<edges, reachable, dominators>>
  PROVE  /\ [n \in Node |-> Parent(n)]' = [n \in Node |-> Parent(n)]
         /\ [n \in Node |-> Joins(parent, n)]' = [n \in Node |-> Joins(parent', n)]
<1>1. \A c : Parent(c)' = Parent(c)
  BY DEF Parent, Immediate, Strict
<1>2. \A c : Predecessors(c)' = Predecessors(c)
  BY DEF Predecessors
<1>3. \A n : Joins(parent, n)' = Joins(parent', n)
  BY <1>2 DEF Joins, IsJoin
<1> QED  BY <1>1, <1>3

LEMMA NextTree == TreeInv /\ [Next]_vars => TreeInv'
<1> SUFFICES ASSUME TreeInv, [Next]_vars PROVE TreeInv'
  OBVIOUS
<1>1. IInv'
  BY NextInvariant DEF TreeInv
<1>2. ASSUME NEW n \in Node, Visit(n) PROVE TreeInv'
  BY <1>2, VisitTree
<1>3. CASE NextPass
  <2>1. UNCHANGED <<edges, reachable, dominators>> /\ parent' = parent /\ changed
    BY <1>3 DEF NextPass, graph, tree
  <2>2. TreeMade'
    BY <2>1 DEF TreeInv, TreeMade, Done, Settled
  <2> QED  BY <1>1, <2>1, <2>2, QuietTree DEF TreeInv
<1>4. CASE BuildTree
  <2>1. UNCHANGED <<edges, reachable, dominators, scan, changed>> /\ Settled
        /\ parent' = [n \in Node |-> Parent(n)]
        /\ frontier' = [n \in Node |-> Joins(parent', n)]
    BY <1>4 DEF BuildTree, graph
  <2>2. TreeMade'
    BY <2>1, MadeKept DEF TreeMade, Settled
  <2> QED  BY <1>1, <2>1, <2>2, QuietTree DEF TreeInv
<1>5. CASE UNCHANGED vars
  <2>1. UNCHANGED <<edges, reachable, dominators, scan, changed, parent, frontier>>
    BY <1>5 DEF vars, graph, tree
  <2>2. TreeMade'
    BY <2>1, MadeKept DEF TreeInv, TreeMade, Settled, Done
  <2> QED  BY <1>1, <2>1, <2>2, QuietTree DEF TreeInv
<1> QED  BY <1>2, <1>3, <1>4, <1>5 DEF Next
-----------------------------------------------------------------------------
(* Dominance between live blocks once the sets are final: a partial order, *)
(* total on the dominators of one block.                                   *)
Final == IInv /\ reachable = Live(edges) /\ LiveComplete /\ Settled /\ Sealed

LEMMA DominatesIff ==
  ASSUME Final, NEW n \in reachable, NEW a \in Node
  PROVE  n \in Node /\ (a \in dominators[n] <=> EveryWalkPasses(a, n))
<1>1. n \in Node
  BY LiveFacts DEF Final, IInv
<1>2. a \in dominators[n] => EveryWalkPasses(a, n)
  BY <1>1, SettledSound DEF Final, DominatorsSound
<1>3. EveryWalkPasses(a, n) => a \in dominators[n]
  BY DEF Final, LiveComplete
<1> QED  BY <1>1, <1>2, <1>3

(* What dominates a live block is live.                                    *)
LEMMA DominatorLive ==
  ASSUME Final, NEW n \in reachable, NEW a \in dominators[n]
  PROVE  a \in reachable /\ a \in Node
<1>1. n \in Node /\ a \in Node
  BY LiveFacts DEF Final, IInv, TypeOK
<1>2. PICK R \in SUBSET Node : WalkRegion(R, a) /\ n \notin R
  BY <1>1, DominatesIff DEF EveryWalkPasses
<1>3. ASSUME a \notin reachable PROVE FALSE
  <2> DEFINE S == R \cap reachable
  <2>1. S \in SUBSET Node /\ Entry \in S
    BY <1>2, <1>3, LiveFacts DEF WalkRegion, Final, IInv
  <2>2. Closed(S, edges)
    BY <1>2, <1>3, LiveFacts DEF WalkRegion, Closed, Final, IInv
  <2>3. reachable \subseteq S
    BY <2>1, <2>2, LiveFacts DEF Final, IInv
  <2> QED  BY <1>2, <2>3
<1> QED  BY <1>1, <1>3

LEMMA DominanceTransitive ==
  ASSUME Final, NEW n \in reachable, NEW e \in dominators[n], NEW d \in dominators[e]
  PROVE  d \in dominators[n]
<1>1. e \in reachable /\ e \in Node /\ n \in Node
  BY DominatorLive, DominatesIff
<1>2. d \in Node
  BY <1>1, DominatorLive
<1>3. PICK R \in SUBSET Node : WalkRegion(R, e) /\ n \notin R
  BY <1>1, DominatesIff DEF EveryWalkPasses
<1>4. PICK T \in SUBSET Node : WalkRegion(T, d) /\ e \notin T
  BY <1>1, <1>2, DominatesIff DEF EveryWalkPasses
<1>5. WalkRegion(R \cap T, d)
  BY <1>3, <1>4 DEF WalkRegion
<1>6. EveryWalkPasses(d, n)
  BY <1>3, <1>5 DEF EveryWalkPasses
<1> QED  BY <1>2, <1>6, DominatesIff

LEMMA DominanceAntisymmetric ==
  ASSUME Final, NEW n \in reachable, NEW d \in dominators[n], n \in dominators[d]
  PROVE  d = n
<1> SUFFICES ASSUME d # n PROVE FALSE
  OBVIOUS
<1>1. d \in reachable /\ d \in Node /\ n \in Node
  BY DominatorLive, DominatesIff
<1>2. PICK R \in SUBSET Node : WalkRegion(R, d) /\ n \notin R
  BY <1>1, DominatesIff DEF EveryWalkPasses
<1>3. PICK T \in SUBSET Node : WalkRegion(T, n) /\ d \notin T
  BY <1>1, DominatesIff DEF EveryWalkPasses
<1>4. Entry \in R \cap T /\ Closed(R \cap T, edges)
  BY <1>2, <1>3 DEF WalkRegion, Closed
<1>5. reachable \subseteq R \cap T
  BY <1>4, LiveFacts DEF Final, IInv
<1> QED  BY <1>1, <1>2, <1>5

LEMMA DominanceTotal ==
  ASSUME Final, NEW n \in reachable, NEW d \in dominators[n], NEW e \in dominators[n]
  PROVE  d \in dominators[e] \/ e \in dominators[d]
<1> SUFFICES ASSUME d \notin dominators[e], e \notin dominators[d] PROVE FALSE
  OBVIOUS
<1>1. d \in reachable /\ d \in Node /\ n \in Node /\ e \in reachable /\ e \in Node
  BY DominatorLive, DominatesIff
<1>2. PICK R \in SUBSET Node : WalkRegion(R, d) /\ n \notin R
  BY <1>1, DominatesIff DEF EveryWalkPasses
<1>3. PICK T \in SUBSET Node : WalkRegion(T, e) /\ n \notin T
  BY <1>1, DominatesIff DEF EveryWalkPasses
<1>4. e \in R /\ d \in T
  BY <1>1, <1>2, <1>3, DominatesIff DEF EveryWalkPasses
<1>5. Entry \in R \cup T /\ Closed(R \cup T, edges)
  BY <1>2, <1>3, <1>4 DEF WalkRegion, Closed
<1>6. reachable \subseteq R \cup T
  BY <1>2, <1>3, <1>5, LiveFacts DEF Final, IInv
<1> QED  BY <1>2, <1>3, <1>6

(* A block that dominates n strictly dominates each block that leads to n. *)
LEMMA StrictAtPredecessors ==
  ASSUME Final, NEW n \in reachable, NEW p \in Predecessors(n), NEW d \in Strict(n)
  PROVE  d \in dominators[p] /\ p \in reachable /\ n # Entry
<1>1. n \in Node /\ d \in Node /\ d # n /\ d \in dominators[n]
  BY DominatorLive, DominatesIff DEF Strict
<1>2. EveryWalkPasses(d, p)
  BY <1>1, DominatesIff, PredecessorsPassed DEF Final, IInv
<1>3. p \in reachable
  BY DEF Final, Sealed, Predecessors
<1>4. n # Entry
  BY <1>1, NodeAssumption DEF Final, IInv, TypeOK
<1> QED  BY <1>1, <1>2, <1>3, <1>4, DominatesIff

LEMMA EntryDominates ==
  ASSUME Final, NEW n \in reachable
  PROVE  Entry \in dominators[n]
<1>1. WalkRegion({}, Entry)
  BY DEF WalkRegion
<1>2. EveryWalkPasses(Entry, n)
  BY <1>1 DEF EveryWalkPasses
<1> QED  BY <1>2, DominatesIff, NodeAssumption

-----------------------------------------------------------------------------
(* Numbers. *)
LEMMA LessWellFounded ==
  \E R : IsWellFoundedOn(R, Nat) /\ \A x, y \in Nat : y < x => <<y, x>> \in R
<1>1. PICK R : R = OpToRel(<, Nat)
  OBVIOUS
<1>2. IsWellFoundedOn(R, Nat)
  BY <1>1, NatLessThanWellFounded, Zenon
<1>3. ASSUME NEW x \in Nat, NEW y \in Nat, y < x PROVE <<y, x>> \in R
  <2>1. R = {ss \in Nat \X Nat : ss[1] < ss[2]}
    BY <1>1 DEF OpToRel
  <2> QED BY <1>3, <2>1
<1> QED BY <1>2, <1>3

LEMMA LeastNumber ==
  ASSUME NEW T \in SUBSET Nat, T # {}
  PROVE  \E x \in T : \A y \in T : x <= y
<1>1. PICK R : IsWellFoundedOn(R, Nat) /\ \A x, y \in Nat : y < x => <<y, x>> \in R
  BY LessWellFounded
<1>2. PICK x \in T : \A y \in T : ~(<<y, x>> \in R)
  BY <1>1, WFMin, Zenon
<1>3. \A y \in T : ~(y < x)
  BY <1>1, <1>2
<1> QED BY <1>2, <1>3

LEMMA UpTo ==
  ASSUME NEW c \in Nat, NEW T, 0 \in T, \A k \in 1..c : k - 1 \in T => k \in T
  PROVE  0..c \subseteq T
<1> SUFFICES ASSUME (0..c) \ T # {} PROVE FALSE
  OBVIOUS
<1>1. PICK x \in (0..c) \ T : \A y \in (0..c) \ T : x <= y
  BY LeastNumber, (0..c) \ T \in SUBSET Nat
<1>2. x \in 1..c /\ x - 1 \in 0..c /\ x - 1 < x
  BY <1>1
<1>3. x - 1 \in T
  BY <1>1, <1>2
<1> QED BY <1>1, <1>2, <1>3

(* The depth of a block: how many blocks dominate it.                      *)
Depth(n) == Cardinality(dominators[n])

LEMMA DepthGrows ==
  ASSUME Final, NEW n \in reachable, NEW d \in Strict(n)
  PROVE  Depth(d) \in Nat /\ Depth(n) \in Nat /\ Depth(d) < Depth(n)
<1>1. d \in dominators[n] /\ d # n /\ d \in Node /\ n \in Node /\ d \in reachable
  BY DominatorLive, DominatesIff DEF Strict
<1>2. IsFiniteSet(dominators[n])
  BY <1>1, NodeAssumption, FS_Subset DEF Final, IInv, TypeOK
<1>3. dominators[d] \subseteq dominators[n]
  BY <1>1, DominanceTransitive
<1>4. n \in dominators[n] /\ n \notin dominators[d]
  BY <1>1, DominanceAntisymmetric DEF Final, IInv, TypeOK
<1>5. IsFiniteSet(dominators[d]) /\ Depth(d) <= Depth(n) /\ Depth(d) # Depth(n)
  BY <1>2, <1>3, <1>4, FS_Subset DEF Depth
<1>6. Depth(d) \in Nat /\ Depth(n) \in Nat
  BY <1>2, <1>5, FS_CardinalityType DEF Depth
<1> QED BY <1>5, <1>6

LEMMA DepthBound ==
  ASSUME Final, NEW n \in Node
  PROVE  Depth(n) \in 1..Cardinality(Node) /\ Cardinality(Node) \in Nat
<1>1. dominators[n] \in SUBSET Node /\ n \in dominators[n]
  BY DEF Final, IInv, TypeOK
<1>2. IsFiniteSet(dominators[n]) /\ Depth(n) <= Cardinality(Node)
  BY <1>1, NodeAssumption, FS_Subset DEF Depth
<1>3. Depth(n) \in Nat /\ Cardinality(Node) \in Nat
  BY <1>2, NodeAssumption, FS_CardinalityType DEF Depth
<1>4. Depth(n) # 0
  BY <1>1, <1>2, FS_EmptySet DEF Depth
<1> QED BY <1>2, <1>3, <1>4

(* Every live block but the entry has one immediate dominator, which its   *)
(* other strict dominators dominate.                                       *)
LEMMA ParentUnique ==
  ASSUME Final, NEW n \in reachable, n # Entry
  PROVE  \E i \in Strict(n) : Parent(n) = {i} /\ \A d \in Strict(n) : d \in dominators[i]
<1>1. n \in Node
  BY DominatesIff, NodeAssumption
<1>2. Entry \in Strict(n)
  BY EntryDominates DEF Strict
<1>3. PICK i \in Strict(n) : \A d \in Strict(n) : Depth(d) <= Depth(i)
  <2> DEFINE T == {k \in Nat : \E d \in Strict(n) : Depth(n) - Depth(d) = k}
  <2>1. \A d \in Strict(n) : Depth(d) \in Nat /\ Depth(n) \in Nat /\ Depth(d) < Depth(n)
    BY DepthGrows
  <2>2. T \in SUBSET Nat /\ T # {}
    BY <1>2, <2>1
  <2>3. PICK k \in T : \A j \in T : k <= j
    BY <2>2, LeastNumber
  <2>4. PICK i \in Strict(n) : Depth(n) - Depth(i) = k
    BY <2>3
  <2>5. \A d \in Strict(n) : Depth(d) <= Depth(i)
    BY <2>1, <2>3, <2>4
  <2> QED BY <2>5
<1>4. \A d \in Strict(n) : d \in reachable /\ d \in dominators[n]
  BY DominatorLive DEF Strict
<1>5. ASSUME NEW d \in Strict(n) PROVE d \in dominators[i]
  <2>1. CASE d \in dominators[i]
    BY <2>1
  <2>2. CASE d \notin dominators[i]
    <3>1. i \in dominators[d]
      BY <1>4, <2>2, DominanceTotal
    <3>2. i # d
      BY <1>4, <2>2, LiveFacts DEF Final, IInv, TypeOK
    <3>3. i \in Strict(d)
      BY <3>1, <3>2 DEF Strict
    <3>4. Depth(i) < Depth(d) /\ Depth(i) \in Nat /\ Depth(d) \in Nat
      BY <1>4, <3>3, DepthGrows
    <3> QED BY <1>3, <3>4
  <2> QED BY <2>1, <2>2
<1>6. i \in Immediate(n)
  <2>1. \A e \in Strict(n) \ {i} : i \notin dominators[e]
    BY <1>4, <1>5, DominanceAntisymmetric
  <2> QED BY <2>1 DEF Immediate
<1>7. \A d \in Immediate(n) : d = i
  BY <1>5, <1>6 DEF Immediate
<1>8. Parent(n) = {i}
  BY <1>6, <1>7 DEF Parent
<1> QED BY <1>5, <1>8
-----------------------------------------------------------------------------
(* The runner's walk, level by level.                                      *)
Level(U, k, up, b, stop) ==
  IF k = 0 THEN {b} \ stop ELSE (UNION {up[c] : c \in U[k - 1]}) \ stop
AllLevels(U, up, b, stop) == [k \in 0..Cardinality(Node) |-> Level(U, k, up, b, stop)]
LevelsBelow(U, K, up, b, stop) ==
  /\ U = [k \in 0..Cardinality(Node) |-> U[k]]
  /\ \A k \in 0..K : U[k] = Level(U, k, up, b, stop)
Levels(U, up, b, stop) ==
  /\ U[0] = {b} \ stop
  /\ \A k \in 1..Cardinality(Node) : U[k] = (UNION {up[c] : c \in U[k - 1]}) \ stop

LEMMA OneLevelMore ==
  ASSUME Cardinality(Node) \in Nat, NEW up, NEW b, NEW stop,
         NEW K \in 1..Cardinality(Node), NEW g, LevelsBelow(g, K - 1, up, b, stop)
  PROVE  \E h : LevelsBelow(h, K, up, b, stop)
<1> DEFINE h == [k \in 0..Cardinality(Node) |-> IF k = K THEN Level(g, K, up, b, stop) ELSE g[k]]
<1>1. \A k \in 0..Cardinality(Node) : h[k] = IF k = K THEN Level(g, K, up, b, stop) ELSE g[k]
  OBVIOUS
<1>2. h = [k \in 0..Cardinality(Node) |-> h[k]]
  OBVIOUS
<1> HIDE DEF h
<1>3. ASSUME NEW k \in 0..K PROVE h[k] = Level(h, k, up, b, stop)
  <2>1. k \in 0..Cardinality(Node) /\ (k # 0 => k - 1 \in 0..Cardinality(Node) /\ k - 1 # K)
    OBVIOUS
  <2>2. k # 0 => h[k - 1] = g[k - 1]
    BY <1>1, <2>1
  <2>3. Level(h, k, up, b, stop) = Level(g, k, up, b, stop)
    BY <2>2 DEF Level
  <2>4. CASE k = K
    BY <1>1, <2>1, <2>3, <2>4
  <2>5. CASE k # K
    <3>1. k \in 0..K - 1
      BY <2>5
    <3>2. g[k] = Level(g, k, up, b, stop)
      BY <3>1 DEF LevelsBelow
    <3> QED BY <1>1, <2>1, <2>3, <2>5, <3>2
  <2> QED BY <2>4, <2>5
<1> QED BY <1>2, <1>3 DEF LevelsBelow

LEMMA LevelsExist ==
  ASSUME Cardinality(Node) \in Nat, NEW up, NEW b, NEW stop
  PROVE  \E U : U = AllLevels(U, up, b, stop)
<1> DEFINE C == Cardinality(Node)
           T == {K \in 0..C : \E g : LevelsBelow(g, K, up, b, stop)}
<1>1. 0 \in T
  <2> DEFINE g == [k \in 0..C |-> {b} \ stop]
  <2>1. g = [k \in 0..C |-> g[k]] /\ g[0] = {b} \ stop
    OBVIOUS
  <2> HIDE DEF g
  <2>2. LevelsBelow(g, 0, up, b, stop)
    BY <2>1 DEF LevelsBelow, Level
  <2> QED BY <2>2
<1>2. ASSUME NEW K \in 1..C, K - 1 \in T PROVE K \in T
  BY <1>2, OneLevelMore
<1>3. C \in T
  <2> HIDE DEF T
  <2>1. 0..C \subseteq T
    BY <1>1, <1>2, UpTo
  <2> QED BY <2>1
<1>4. PICK U : LevelsBelow(U, C, up, b, stop)
  BY <1>3
<1>5. U = AllLevels(U, up, b, stop)
  <2>1. \A k \in 0..C : U[k] = Level(U, k, up, b, stop)
    BY <1>4 DEF LevelsBelow
  <2>2. U = [k \in 0..C |-> U[k]]
    BY <1>4 DEF LevelsBelow
  <2>3. [k \in 0..C |-> U[k]] = [k \in 0..C |-> Level(U, k, up, b, stop)]
    BY <2>1
  <2> QED BY <2>2, <2>3 DEF AllLevels
<1> QED BY <1>5

LEMMA ClimbIs ==
  ASSUME Cardinality(Node) \in Nat, NEW up, NEW b, NEW stop
  PROVE  \E U : /\ Levels(U, up, b, stop)
                /\ Climb(up, b, stop) = UNION {U[k] : k \in 0..Cardinality(Node)}
<1> DEFINE V == CHOOSE U : U = AllLevels(U, up, b, stop)
<1>1. V = AllLevels(V, up, b, stop)
  BY LevelsExist
<1>2. Climb(up, b, stop) = UNION {V[k] : k \in 0..Cardinality(Node)}
  BY DEF Climb, AllLevels, Level
<1> HIDE DEF V
<1>3. \A k \in 0..Cardinality(Node) : V[k] = Level(V, k, up, b, stop)
  BY <1>1 DEF AllLevels
<1>4. V[0] = {b} \ stop
  <2>1. 0 \in 0..Cardinality(Node)
    OBVIOUS
  <2>2. V[0] = Level(V, 0, up, b, stop)
    BY <1>3, <2>1
  <2> QED BY <2>2 DEF Level
<1>5. ASSUME NEW k \in 1..Cardinality(Node)
      PROVE  V[k] = (UNION {up[c] : c \in V[k - 1]}) \ stop
  <2>1. k \in 0..Cardinality(Node) /\ k # 0
    OBVIOUS
  <2> QED BY <1>3, <2>1 DEF Level
<1> QED BY <1>2, <1>4, <1>5 DEF Levels

-----------------------------------------------------------------------------
(* The facts a runner from a predecessor p of j relies on.                 *)
Running(j, p) ==
  Final /\ parent = [n \in Node |-> Parent(n)] /\ j \in reachable /\ p \in Predecessors(j)

LEMMA RunningFacts ==
  ASSUME NEW j, NEW p, Running(j, p)
  PROVE  /\ j \in Node /\ p \in Node /\ p \in reachable /\ parent[j] = Parent(j)
         /\ Parent(j) \subseteq Strict(j)
         /\ p \in dominators[p] /\ j \in dominators[j]
<1>1. j \in Node /\ p \in Node /\ p \in reachable
  BY LiveFacts DEF Running, Final, IInv, Sealed, Predecessors
<1>2. parent[j] = Parent(j) /\ Parent(j) \subseteq Strict(j)
  BY <1>1 DEF Running, Parent, Immediate
<1> QED BY <1>1, <1>2 DEF Running, Final, IInv, TypeOK

(* One step up: it stays among the dominators of p, and passes no strict   *)
(* dominator of j, since the first of these is where the runner stops.     *)
LEMMA StepUp ==
  ASSUME NEW j, NEW p, Running(j, p),
         NEW c \in dominators[p], c \notin Strict(j), NEW u \in Parent(c), u \notin Parent(j)
  PROVE  u \in dominators[p] /\ u \notin Strict(j)
<1>1. Final /\ j \in reachable /\ p \in reachable /\ p \in Node /\ c \in reachable /\ c \in Node
  BY RunningFacts, DominatorLive DEF Running
<1>2. c \in reachable \ {Entry} /\ u \in Strict(c) /\ u \in dominators[c] /\ u # c
  BY DEF Parent, Immediate, Strict
<1>3. u \in dominators[p]
  BY <1>1, <1>2, DominanceTransitive
<1>4. ASSUME u \in Strict(j) PROVE FALSE
  <2>1. j # Entry
    BY <1>1, <1>4, StrictAtPredecessors DEF Running
  <2>2. PICK i \in Strict(j) : Parent(j) = {i} /\ \A d \in Strict(j) : d \in dominators[i]
    BY <1>1, <2>1, ParentUnique
  <2>3. i \in dominators[p] /\ u \in dominators[i] /\ u # i /\ i \in dominators[j] /\ i # j /\ i \in reachable
    BY <1>1, <1>4, <2>2, StrictAtPredecessors, DominatorLive DEF Running, Strict
  <2>4. i \in dominators[c]
    <3>1. ASSUME c \in dominators[i] PROVE FALSE
      <4>1. c \in dominators[j]
        BY <1>1, <2>3, <3>1, DominanceTransitive
      <4>2. c = j
        BY <4>1 DEF Strict
      <4> QED BY <1>1, <2>3, <3>1, <4>2, DominanceAntisymmetric
    <3> QED BY <1>1, <2>3, <3>1, DominanceTotal
  <2>5. i \in Strict(c)
    BY <2>2, <2>4 DEF Strict
  <2>6. i \in dominators[u]
    <3>1. PICK v \in Strict(c) : Parent(c) = {v} /\ \A d \in Strict(c) : d \in dominators[v]
      BY <1>1, <1>2, ParentUnique
    <3>2. v = u
      BY <3>1
    <3> QED BY <2>5, <3>1, <3>2
  <2> QED BY <1>1, <2>3, <2>6, DominanceAntisymmetric
<1> QED BY <1>3, <1>4

LEMMA StartsRight ==
  ASSUME NEW j, NEW p, Running(j, p), p \notin Parent(j)
  PROVE  p \notin Strict(j)
<1> SUFFICES ASSUME p \in Strict(j) PROVE FALSE
  OBVIOUS
<1>1. Final /\ j \in reachable /\ p \in reachable
  BY RunningFacts DEF Running
<1>2. j # Entry
  BY <1>1, StrictAtPredecessors DEF Running
<1>3. PICK i \in Strict(j) : Parent(j) = {i} /\ \A d \in Strict(j) : d \in dominators[i]
  BY <1>1, <1>2, ParentUnique
<1>4. i \in dominators[p] /\ p \in dominators[i] /\ p # i
  BY <1>1, <1>3, StrictAtPredecessors DEF Running
<1> QED BY <1>1, <1>4, DominanceAntisymmetric

LEMMA ClimbSound ==
  ASSUME NEW j, NEW p, Running(j, p), NEW n \in Climb(parent, p, parent[j])
  PROVE  n \in dominators[p] /\ n \notin Strict(j)
<1>1. Cardinality(Node) \in Nat
  BY DepthBound, NodeAssumption DEF Running
<1>2. PICK U : /\ Levels(U, parent, p, parent[j])
               /\ Climb(parent, p, parent[j]) = UNION {U[k] : k \in 0..Cardinality(Node)}
  BY <1>1, ClimbIs
<1> DEFINE T == {k \in 0..Cardinality(Node) :
                   \A c \in U[k] : c \in dominators[p] /\ c \notin Strict(j)}
<1>3. 0 \in T
  <2>1. \A c \in U[0] : c = p /\ p \notin Parent(j)
    BY <1>2, RunningFacts DEF Levels
  <2> QED BY <1>1, <2>1, StartsRight, RunningFacts
<1>4. ASSUME NEW k \in 1..Cardinality(Node), k - 1 \in T PROVE k \in T
  <2> SUFFICES ASSUME NEW u \in U[k] PROVE u \in dominators[p] /\ u \notin Strict(j)
    OBVIOUS
  <2>0. U[k] = (UNION {parent[c] : c \in U[k - 1]}) \ Parent(j)
    <3>1. parent[j] = Parent(j)
      BY RunningFacts
    <3> QED BY <1>2, <3>1 DEF Levels
  <2>1. PICK c \in U[k - 1] : u \in parent[c] /\ u \notin Parent(j)
    BY <2>0
  <2>2. c \in dominators[p] /\ c \notin Strict(j)
    BY <1>4
  <2>3. c \in Node
    BY <2>2, RunningFacts, DominatorLive DEF Running
  <2>4. u \in Parent(c)
    BY <2>1, <2>3 DEF Running
  <2> QED BY <2>1, <2>2, <2>4, StepUp
<1>5. 0..Cardinality(Node) \subseteq T
  <2> HIDE DEF T
  <2> QED BY <1>1, <1>3, <1>4, UpTo
<1> QED BY <1>2, <1>5

(* The runner meets every dominator of p below the place where it stops.   *)
LEMMA ClimbComplete ==
  ASSUME NEW j, NEW p, Running(j, p), NEW n \in dominators[p], n \notin Strict(j)
  PROVE  n \in Climb(parent, p, parent[j])
<1>0. Final /\ j \in reachable /\ p \in reachable /\ p \in Node /\ j \in Node
  BY RunningFacts DEF Running
<1>1. Cardinality(Node) \in Nat
  BY DepthBound, NodeAssumption DEF Running
<1>2. PICK U : /\ Levels(U, parent, p, parent[j])
               /\ Climb(parent, p, parent[j]) = UNION {U[k] : k \in 0..Cardinality(Node)}
  BY <1>1, ClimbIs
<1> SUFFICES ASSUME \A k \in 0..Cardinality(Node) : n \notin U[k] PROVE FALSE
  BY <1>2
<1> DEFINE T == {k \in 0..Cardinality(Node) :
                   \E c \in U[k] : /\ c \in dominators[p] /\ n \in Strict(c)
                                   /\ Depth(c) <= Cardinality(Node) - k}
<1>3. \A c \in dominators[p] : n \in dominators[c] => c \notin Parent(j)
  <2> SUFFICES ASSUME NEW c \in Parent(j), n \in dominators[c] PROVE FALSE
    OBVIOUS
  <2>1. c \in dominators[j] /\ c # j
    BY RunningFacts DEF Strict
  <2>2. n \in dominators[j]
    BY <1>0, <2>1, DominanceTransitive
  <2>3. n = j
    BY <2>2 DEF Strict
  <2> QED BY <1>0, <2>1, <2>3, DominanceAntisymmetric
<1>4. 0 \in T
  <2>1. p \notin Parent(j)
    BY <1>0, <1>3, RunningFacts
  <2>2. p \in U[0]
    BY <1>2, <2>1, RunningFacts DEF Levels
  <2>3. n # p
    BY <1>1, <2>2
  <2> QED BY <1>0, <1>1, <2>2, <2>3, DepthBound, RunningFacts DEF Strict
<1>5. ASSUME NEW k \in 1..Cardinality(Node), k - 1 \in T PROVE k \in T
  <2>1. PICK c \in U[k - 1] : /\ c \in dominators[p] /\ n \in Strict(c)
                              /\ Depth(c) <= Cardinality(Node) - (k - 1)
    BY <1>5
  <2>2. c \in reachable /\ c \in Node
    BY <1>0, <2>1, DominatorLive
  <2>3. c # Entry
    BY <2>1, NodeAssumption DEF Strict, Running, Final, IInv, TypeOK
  <2>4. PICK u \in Strict(c) : Parent(c) = {u} /\ \A d \in Strict(c) : d \in dominators[u]
    BY <1>0, <2>2, <2>3, ParentUnique
  <2>5. n \in dominators[u] /\ u \in dominators[p]
    BY <1>0, <2>1, <2>4, DominanceTransitive DEF Strict
  <2>6. u \in U[k]
    <3>1. u \in parent[c] /\ u \notin Parent(j)
      BY <1>3, <2>2, <2>4, <2>5 DEF Running
    <3>2. parent[j] = Parent(j)
      BY RunningFacts
    <3>3. U[k] = (UNION {parent[d] : d \in U[k - 1]}) \ Parent(j)
      BY <1>2, <3>2 DEF Levels
    <3> QED BY <2>1, <3>1, <3>3
  <2>7. n # u
    BY <2>6
  <2>8. Depth(u) <= Cardinality(Node) - k
    BY <1>0, <1>1, <2>1, <2>2, <2>4, DepthGrows
  <2> QED BY <2>5, <2>6, <2>7, <2>8 DEF Strict
<1>6. 0..Cardinality(Node) \subseteq T
  <2> HIDE DEF T
  <2> QED BY <1>1, <1>4, <1>5, UpTo
<1>7. PICK c \in dominators[p] : Depth(c) <= 0
  BY <1>1, <1>6
<1>8. c \in Node
  BY <1>0, DominatorLive
<1> QED BY <1>0, <1>7, <1>8, DepthBound

(* A block with one predecessor takes that one's dominators, so where      *)
(* dominance ends two edges meet, but for an edge back to the entry.       *)
LEMMA EndsAtJoin ==
  ASSUME NEW j, NEW p, Running(j, p), j # Entry,
         NEW n \in dominators[p], n \notin Strict(j)
  PROVE  IsJoin(j)
<1>1. Final /\ j \in reachable \ {Entry} /\ j \in Node /\ p \in reachable /\ p \in Node
  BY RunningFacts DEF Running
<1>2. \E m \in Predecessors(j) : m # p
  <2> SUFFICES ASSUME \A m \in Predecessors(j) : m = p PROVE FALSE
    OBVIOUS
  <2>1. p # j
    BY <1>1, LiveEntered DEF Final, IInv
  <2>2. dominators[j] = NextSet(j)
    BY <1>1 DEF Final, IInv, Stable, Settled, TypeOK
  <2>3. \A d \in dominators[p] : d \in dominators[j]
    <3> SUFFICES ASSUME NEW d \in dominators[p] PROVE d \in NextSet(j)
      BY <2>2
    <3>1. d \in Node
      BY <1>1, DominatorLive
    <3> QED BY <3>1 DEF NextSet, Running
  <2>4. n = j
    BY <2>3 DEF Strict
  <2>5. p \in dominators[j]
    BY <2>3, RunningFacts
  <2> QED BY <1>1, <2>1, <2>4, <2>5, DominanceAntisymmetric
<1>3. PICK m \in Predecessors(j) : m # p
  BY <1>2
<1>4. Cardinality({m, p}) = 2
  <2>1. IsFiniteSet({m}) /\ Cardinality({m}) = 1
    BY FS_Singleton
  <2>2. Cardinality({m} \cup {p}) = 2
    <3>1. p \notin {m}
      BY <1>3
    <3>2. PICK S : S = {m}
      OBVIOUS
    <3>3. Cardinality(S \cup {p}) = 1 + 1
      BY <2>1, <3>1, <3>2, FS_AddElement
    <3> QED BY <3>2, <3>3
  <2>3. {m} \cup {p} = {m, p}
    OBVIOUS
  <2> QED BY <2>2, <2>3
<1>5. IsFiniteSet(Predecessors(j))
  BY NodeAssumption, FS_Subset DEF Predecessors
<1>6. Cardinality({m, p}) <= Cardinality(Predecessors(j)) /\ Cardinality(Predecessors(j)) \in Nat
  BY <1>5, FS_Subset, FS_CardinalityType, {m, p} \in SUBSET Predecessors(j) DEF Running
<1> QED BY <1>4, <1>6 DEF IsJoin

LEMMA TreeExact == TreeInv => FrontiersExact
<1> SUFFICES ASSUME TreeInv, Done, Sealed, NEW n \in reachable
             PROVE  frontier[n] = {j \in reachable : /\ j = Entry => IsJoin(j)
                                                     /\ n \notin Strict(j)
                                                     /\ \E p \in Predecessors(j) : n \in dominators[p]}
  BY DEF FrontiersExact, Sealed
<1>1. Final /\ parent = [k \in Node |-> Parent(k)] /\ frontier = [k \in Node |-> Joins(parent, k)]
  BY DEF TreeInv, TreeMade, Final
<1>2. frontier[n] = Joins(parent, n)
  BY <1>1, DominatesIff, NodeAssumption
<1>3. ASSUME NEW j \in reachable, NEW p \in Predecessors(j)
      PROVE  /\ Running(j, p)
             /\ n \in Climb(parent, p, parent[j]) <=> n \in dominators[p] /\ n \notin Strict(j)
  <2>1. Running(j, p)
    BY <1>1 DEF Running
  <2> QED BY <2>1, ClimbSound, ClimbComplete
<1>4. ASSUME NEW j \in reachable
      PROVE  (IsJoin(j) /\ \E p \in Predecessors(j) : n \in Climb(parent, p, parent[j]))
             <=> ((j = Entry => IsJoin(j)) /\ n \notin Strict(j)
                  /\ \E p \in Predecessors(j) : n \in dominators[p])
  BY <1>3, EndsAtJoin
<1> QED BY <1>2, <1>4 DEF Joins

(* The frontiers are where dominance ends: for every graph in which dead   *)
(* blocks lead to no live one, a runner that climbs the immediate          *)
(* dominators from the predecessors of a join, up to the join's own, finds *)
(* the joins where the dominance of a block ends, and no others.           *)
THEOREM FrontiersExactCorrect == Spec => []FrontiersExact
<1> QED  BY InitTree, NextTree, TreeExact, PTL DEF Spec
-----------------------------------------------------------------------------
(* The registers of the 68000.  Any routine of the graph may be supplied.  *)
Supply ==
  /\ Done /\ phase = "source" /\ routine = <<>>
  /\ UNCHANGED <<vars, phase, conflicts, candidates, registers, discarded, point, held>>
  /\ Registers68k!WellFormed'
AllocationSpec ==
  /\ Init /\ Registers68k!AllocationInit
  /\ [][(Next /\ UNCHANGED allocation) \/ Supply \/ Registers68k!AllocationNext]_<<vars, allocation>>

(* What a run relies on: sets A of the values still needed before each     *)
(* position of a block, which hold what is read, lose nothing but what is  *)
(* defined in between, along edges too, and are empty at the entry; and    *)
(* conflicts C of what is written with what is needed afterwards.          *)
UsedAt(r, E, b, i) ==
  (IF i <= Len(r.ops[b]) THEN Registers68k!ToSet(r.ops[b][i].uses)
   ELSE {r.condition[b]} \cup UNION {Registers68k!ToSet(r.args[<<b, c>>]) : c \in {d \in Node : <<b, d>> \in E}}) \ {NoTemp}
DefinedBy(r, b) ==
  (Registers68k!ToSet(r.params[b]) \cup {r.ops[b][i].result : i \in DOMAIN r.ops[b]}) \ {NoTemp}
TempsOf(r) == UNION {DefinedBy(r, b) : b \in Node}

NeededIn(A, r, E, C, b) ==
  /\ Len(r.ops[b]) \in Nat /\ DOMAIN r.ops[b] = 1..Len(r.ops[b])
  /\ \A i \in 1..(Len(r.ops[b]) + 1) : UsedAt(r, E, b, i) \subseteq A[b][i] /\ A[b][i] \subseteq TempsOf(r)
  /\ \A i \in 1..Len(r.ops[b]) :
       /\ A[b][i + 1] \ {r.ops[b][i].result} \subseteq A[b][i]
       /\ {r.ops[b][i].result} \X A[b][i + 1] \subseteq C
  /\ Registers68k!ToSet(r.params[b]) \X A[b][1] \subseteq C
NeededOver(A, r, e) ==
  /\ A[e[2]][1] \ Registers68k!ToSet(r.params[e[2]]) \subseteq A[e[1]][Len(r.ops[e[1]]) + 1]
  /\ DOMAIN r.args[e] = DOMAIN r.params[e[2]]
Needed(A, r, E, R, C) ==
  /\ Entry \in R /\ A[Entry][1] = {}
  /\ \A b \in R : NeededIn(A, r, E, C, b)
  /\ \A b \in R, c \in Node : <<b, c>> \in E => c \in R /\ NeededOver(A, r, <<b, c>>)
  /\ TempsOf(r) \cap Registers68k!ToSet(Registers) = {}

LEMMA RoutineOperators ==
  /\ \A b, i : Registers68k!Used(b, i) = UsedAt(routine, edges, b, i)
  /\ \A b : Registers68k!Defined(b) = DefinedBy(routine, b)
  /\ Registers68k!Temps = TempsOf(routine)
<1>1. ASSUME NEW b PROVE Registers68k!Defined(b) = DefinedBy(routine, b)
  BY DEF Registers68k!Defined, Registers68k!Params, Registers68k!Ops, DefinedBy
<1>2. ASSUME NEW b, NEW i PROVE Registers68k!Used(b, i) = UsedAt(routine, edges, b, i)
  BY DEF Registers68k!Used, Registers68k!Targets, Registers68k!Ops, UsedAt
<1>3. Registers68k!Temps = TempsOf(routine)
  BY <1>1 DEF Registers68k!Temps, TempsOf
<1> QED BY <1>1, <1>2, <1>3

-----------------------------------------------------------------------------
(* Recursive functions and fixpoints, a step at a time.                    *)
Stage(F, f, k, x) == IF k = 0 THEN x ELSE F[<<k, f[k - 1]>>]

Iteration(f, n, D, x, F) ==
  /\ f = [k \in 0..n |-> Stage(F, f, k, x)]
  /\ \A k \in 0..n : f[k] \in D

LEMMA Iterates ==
  ASSUME NEW n \in Nat, NEW D, NEW x \in D, NEW F, \A k \in 1..n, d \in D : F[<<k, d>>] \in D
  PROVE  \E f : Iteration(f, n, D, x, F)
<1> DEFINE Good(f, m) == /\ f = [k \in 0..n |-> f[k]]
                         /\ \A k \in 0..m : f[k] = Stage(F, f, k, x) /\ f[k] \in D
           T == {m \in 0..n : \E f : Good(f, m)}
<1>1. 0 \in T
  <2> DEFINE f == [k \in 0..n |-> x]
  <2>1. f = [k \in 0..n |-> f[k]] /\ f[0] = x
    OBVIOUS
  <2> HIDE DEF f
  <2>2. Good(f, 0)
    BY <2>1 DEF Stage
  <2> HIDE DEF Good
  <2> QED BY <2>2
<1>2. ASSUME NEW m \in 1..n, m - 1 \in T PROVE m \in T
  <2>1. PICK f : Good(f, m - 1)
    BY <1>2
  <2> DEFINE y == F[<<m, f[m - 1]>>]
             g == [k \in 0..n |-> IF k = m THEN y ELSE f[k]]
  <2>2. f[m - 1] \in D
    <3>1. m - 1 \in 0..(m - 1)
      BY <1>2
    <3> QED BY <2>1, <3>1
  <2>3. y \in D
    BY <2>2
  <2> HIDE DEF y
  <2>4. g = [k \in 0..n |-> g[k]] /\ g[m] = y /\ \A k \in 0..(m - 1) : g[k] = f[k]
    OBVIOUS
  <2> HIDE DEF g
  <2>5. ASSUME NEW k \in 0..m PROVE g[k] = Stage(F, g, k, x) /\ g[k] \in D
    <3>1. CASE k = m
      <4>1. g[k - 1] = f[m - 1] /\ k # 0
        BY <2>4, <3>1
      <4> QED BY <2>3, <2>4, <3>1, <4>1 DEF Stage, y
    <3>2. CASE k # m
      <4>1. k \in 0..(m - 1) /\ (k # 0 => k - 1 \in 0..(m - 1))
        BY <3>2
      <4>2. g[k] = f[k] /\ (k # 0 => g[k - 1] = f[k - 1])
        BY <2>4, <4>1
      <4>3. f[k] = Stage(F, f, k, x) /\ f[k] \in D
        BY <2>1, <4>1
      <4> QED BY <4>2, <4>3 DEF Stage
    <3> QED BY <3>1, <3>2
  <2>6. Good(g, m)
    BY <2>4, <2>5
  <2> HIDE DEF Good
  <2> QED BY <2>6
<1>3. n \in T
  <2> HIDE DEF T
  <2>1. 0..n \subseteq T
    BY <1>1, <1>2, UpTo
  <2> QED BY <2>1
<1>4. PICK f : Good(f, n)
  BY <1>3
<1>5. f = [k \in 0..n |-> Stage(F, f, k, x)]
  <2>1. f = [k \in 0..n |-> f[k]] /\ \A k \in 0..n : f[k] = Stage(F, f, k, x)
    BY <1>4
  <2>2. [k \in 0..n |-> f[k]] = [k \in 0..n |-> Stage(F, f, k, x)]
    BY <2>1
  <2> QED BY <2>1, <2>2
<1> QED BY <1>4, <1>5 DEF Iteration

LEMMA DownTo ==
  ASSUME NEW c \in Nat, NEW T, c \in T, \A k \in 1..(c - 1) : k + 1 \in T => k \in T
  PROVE  1..c \subseteq T
<1> SUFFICES ASSUME (1..c) \ T # {} PROVE FALSE
  OBVIOUS
<1> DEFINE M == {k \in 0..c : c - k \in (1..c) \ T}
<1>1. PICK j \in (1..c) \ T : TRUE
  OBVIOUS
<1>2. c - j \in M
  BY <1>1
<1>3. PICK x \in M : \A y \in M : x <= y
  BY <1>2, LeastNumber, M \in SUBSET Nat
<1>4. c - x \in (1..c) \ T /\ x \in 0..c
  BY <1>3
<1>5. c - x \in 1..(c - 1)
  BY <1>4
<1>6. (c - x) + 1 \notin T
  BY <1>4, <1>5
<1>7. x - 1 \in M
  BY <1>4, <1>5, <1>6
<1> QED BY <1>3, <1>4, <1>7

(* As many steps as a set has members take a growing subset to a fixpoint. *)
LEMMA Saturates ==
  ASSUME NEW S, IsFiniteSet(S), NEW F \in [SUBSET S -> SUBSET S],
         \A P, Q \in SUBSET S : P \subseteq Q => F[P] \subseteq F[Q],
         NEW T, T[0] \in SUBSET S, T[0] \subseteq F[T[0]],
         \A k \in 1..Cardinality(S) : T[k] = F[T[k - 1]]
  PROVE  F[T[Cardinality(S)]] = T[Cardinality(S)]
<1> DEFINE n == Cardinality(S)
<1>0. n \in Nat
  BY FS_CardinalityType
<1> DEFINE M == {k \in 0..n : T[k] \in SUBSET S /\ T[k] \subseteq F[T[k]]}
<1>1. 0..n \subseteq M
  <2>1. 0 \in M
    BY <1>0
  <2>2. ASSUME NEW k \in 1..n, k - 1 \in M PROVE k \in M
    <3>1. T[k - 1] \in SUBSET S /\ T[k - 1] \subseteq F[T[k - 1]] /\ T[k] = F[T[k - 1]]
      BY <2>2
    <3>2. T[k] \in SUBSET S
      BY <3>1
    <3>3. F[T[k - 1]] \subseteq F[T[k]]
      BY <3>1, <3>2
    <3> QED BY <1>0, <3>1, <3>2, <3>3
  <2> HIDE DEF M, n
  <2> QED BY <1>0, <2>1, <2>2, UpTo
<1> DEFINE L == {k \in 0..n : F[T[k]] = T[k] \/ Cardinality(T[k]) >= k}
<1>2. ASSUME NEW k \in 0..n PROVE T[k] \in SUBSET S /\ IsFiniteSet(T[k]) /\ Cardinality(T[k]) \in Nat
  <2>1. T[k] \in SUBSET S
    BY <1>1
  <2> QED BY <2>1, FS_Subset, FS_CardinalityType
<1>3. 0..n \subseteq L
  <2>1. 0 \in L
    BY <1>0, <1>2
  <2>2. ASSUME NEW k \in 1..n, k - 1 \in L PROVE k \in L
    <3>1. k \in 0..n /\ k - 1 \in 0..n /\ T[k] = F[T[k - 1]]
      BY <1>0
    <3>2. T[k - 1] \subseteq T[k]
      BY <1>1, <3>1
    <3>3. CASE F[T[k - 1]] = T[k - 1]
      BY <3>1, <3>3
    <3>4. CASE F[T[k - 1]] # T[k - 1] /\ Cardinality(T[k - 1]) >= k - 1
      <4>1. T[k - 1] # T[k]
        BY <3>1, <3>4
      <4>2. Cardinality(T[k - 1]) <= Cardinality(T[k]) /\ Cardinality(T[k - 1]) # Cardinality(T[k])
        BY <1>2, <3>1, <3>2, <4>1, FS_Subset
      <4>3. Cardinality(T[k]) \in Nat /\ Cardinality(T[k - 1]) \in Nat
        BY <1>2, <3>1
      <4>4. Cardinality(T[k]) >= k
        BY <3>4, <4>2, <4>3
      <4> QED BY <3>1, <4>4
    <3> QED BY <2>2, <3>3, <3>4
  <2> HIDE DEF L, n
  <2> QED BY <1>0, <2>1, <2>2, UpTo
<1>4. n \in 0..n
  BY <1>0
<1>5. CASE F[T[n]] = T[n]
  BY <1>5
<1>6. CASE Cardinality(T[n]) >= n
  <2>1. T[n] \in SUBSET S /\ Cardinality(T[n]) \in Nat /\ Cardinality(T[n]) <= n
    BY <1>2, <1>4, FS_Subset
  <2>2. T[n] = S
    BY <1>0, <1>6, <2>1, FS_Subset
  <2>3. F[T[n]] \in SUBSET S /\ T[n] \subseteq F[T[n]]
    BY <1>1, <1>4, <2>1
  <2> QED BY <2>2, <2>3
<1> QED BY <1>3, <1>4, <1>5, <1>6

-----------------------------------------------------------------------------
(* The values live into a block, round by round.                           *)
Flowed(near, b) ==
  Registers68k!Exposed(b)
    \cup ((UNION {near[c] : c \in Registers68k!Targets(b)}) \ Registers68k!Defined(b))
Rounds(L) ==
  /\ \A b \in Node : L[0][b] = Registers68k!Exposed(b)
  /\ \A k \in 1..Cardinality(Node), b \in Node : L[k][b] = Flowed(L[k - 1], b)

AllRounds(L) ==
  [k \in 0..Cardinality(Node) |->
     IF k = 0 THEN [b \in Node |-> Registers68k!Exposed(b)]
     ELSE [b \in Node |-> Flowed(L[k - 1], b)]]

LEMMA LiveInIs ==
  ASSUME Cardinality(Node) \in Nat
  PROVE  \E L : Rounds(L) /\ Registers68k!LiveIn = L[Cardinality(Node)]
<1> DEFINE N == Cardinality(Node)
           D == [Node -> SUBSET Registers68k!Temps]
           F == [a \in (1..N) \X D |-> [b \in Node |-> Flowed(a[2], b)]]
           x == [b \in Node |-> Registers68k!Exposed(b)]
           In == CHOOSE L : L = AllRounds(L)
<1>1. \A b : Registers68k!Exposed(b) \subseteq Registers68k!Temps
  BY DEF Registers68k!Exposed
<1>2. x \in D
  BY <1>1
<1>3. ASSUME NEW k \in 1..N, NEW d \in D PROVE F[<<k, d>>] = [b \in Node |-> Flowed(d, b)] /\ F[<<k, d>>] \in D
  <2>1. F[<<k, d>>] = [b \in Node |-> Flowed(d, b)]
    BY <1>3
  <2>2. ASSUME NEW b \in Node PROVE Flowed(d, b) \subseteq Registers68k!Temps
    <3>1. \A c \in Registers68k!Targets(b) : d[c] \subseteq Registers68k!Temps
      BY DEF Registers68k!Targets
    <3> QED BY <1>1, <3>1 DEF Flowed
  <2> QED BY <2>1, <2>2
<1>9. \A k \in 1..N, d \in D : F[<<k, d>>] \in D
  BY <1>3
<1> HIDE DEF F, x, D, N
<1>4. PICK f : Iteration(f, N, D, x, F)
  <2>1. N \in Nat
    BY DEF N
  <2> QED BY <1>2, <1>9, <2>1, Iterates
<1>5. f = AllRounds(f)
  <2>1. ASSUME NEW k \in 0..N
        PROVE  Stage(F, f, k, x) = IF k = 0 THEN [b \in Node |-> Registers68k!Exposed(b)]
                                   ELSE [b \in Node |-> Flowed(f[k - 1], b)]
    <3>1. CASE k = 0
      BY <3>1 DEF Stage, x
    <3>2. CASE k # 0
      <4>1. k \in 1..N /\ k - 1 \in 0..N
        BY <3>2 DEF N
      <4>2. F[<<k, f[k - 1]>>] = [b \in Node |-> Flowed(f[k - 1], b)]
        BY <1>3, <1>4, <4>1 DEF Iteration
      <4> QED BY <3>2, <4>2 DEF Stage
    <3> QED BY <3>1, <3>2
  <2>2. [k \in 0..N |-> Stage(F, f, k, x)] = AllRounds(f)
    BY <2>1 DEF AllRounds, N
  <2> QED BY <1>4, <2>2 DEF Iteration
<1>6. In = AllRounds(In)
  BY <1>5
<1>7. Registers68k!LiveIn = In[N]
  <2>1. Registers68k!Cardinality(Node) = Cardinality(Node)
    BY DEF Registers68k!Cardinality, Cardinality
  <2> QED BY <2>1 DEF Registers68k!LiveIn, AllRounds, Flowed, N
<1> HIDE DEF In
<1>8. Rounds(In)
  <2>1. ASSUME NEW b \in Node PROVE In[0][b] = Registers68k!Exposed(b)
    <3>1. In[0] = [a \in Node |-> Registers68k!Exposed(a)]
      BY <1>6 DEF AllRounds
    <3> QED BY <3>1
  <2>2. ASSUME NEW k \in 1..N, NEW b \in Node PROVE In[k][b] = Flowed(In[k - 1], b)
    <3>1. k \in 0..N /\ k # 0
      BY <2>2
    <3>2. In[k] = [a \in Node |-> Flowed(In[k - 1], a)]
      BY <1>6, <3>1 DEF AllRounds, N
    <3> QED BY <3>2
  <2> QED BY <2>1, <2>2 DEF Rounds, N
<1> QED BY <1>7, <1>8 DEF N

(* What is live holds what is exposed and what flows back over edges ...   *)
LEMMA LiveInFlows ==
  /\ \A b \in Node : /\ Registers68k!Exposed(b) \subseteq Registers68k!LiveIn[b]
                     /\ Registers68k!LiveIn[b] \subseteq Registers68k!Temps
  /\ \A b \in Node : \A c \in Registers68k!Targets(b) :
       Registers68k!LiveIn[c] \ Registers68k!Defined(b) \subseteq Registers68k!LiveIn[b]
<1> DEFINE N == Cardinality(Node)
<1>0. N \in Nat /\ IsFiniteSet(Node)
  BY NodeAssumption, FS_CardinalityType
<1>1. PICK L : Rounds(L) /\ Registers68k!LiveIn = L[N]
  BY <1>0, LiveInIs
<1>2. \A b : Registers68k!Exposed(b) \subseteq Registers68k!Temps
  BY DEF Registers68k!Exposed
<1>3. \A b \in Node : /\ Registers68k!Exposed(b) \subseteq L[N][b]
                      /\ L[N][b] \subseteq Registers68k!Temps
  <2> DEFINE T == {k \in 0..N : \A b \in Node : Registers68k!Exposed(b) \subseteq L[k][b]
                                                   /\ L[k][b] \subseteq Registers68k!Temps}
  <2>1. 0 \in T
    BY <1>0, <1>1, <1>2 DEF Rounds
  <2>2. ASSUME NEW k \in 1..N, k - 1 \in T PROVE k \in T
    <3>1. ASSUME NEW b \in Node
          PROVE  Registers68k!Exposed(b) \subseteq L[k][b] /\ L[k][b] \subseteq Registers68k!Temps
      <4>1. L[k][b] = Flowed(L[k - 1], b)
        BY <1>1, <2>2 DEF Rounds
      <4>2. \A c \in Registers68k!Targets(b) : L[k - 1][c] \subseteq Registers68k!Temps
        BY <2>2 DEF Registers68k!Targets
      <4> QED BY <1>2, <4>1, <4>2 DEF Flowed
    <3> QED BY <1>0, <3>1
  <2>3. N \in T
    <3> HIDE DEF T, N
    <3>1. 0..N \subseteq T
      BY <1>0, <2>1, <2>2, UpTo
    <3> QED BY <1>0, <3>1
  <2> QED BY <2>3
<1>4. ASSUME NEW b \in Node, NEW c \in Registers68k!Targets(b),
             NEW t \in Registers68k!LiveIn[c], t \notin Registers68k!Defined(b)
      PROVE  t \in Registers68k!LiveIn[b]
  <2> DEFINE Round(P) == {a \in Node : \/ t \in Registers68k!Exposed(a)
                                       \/ /\ t \notin Registers68k!Defined(a)
                                          /\ \E d \in Registers68k!Targets(a) : d \in P}
             F == [P \in SUBSET Node |-> Round(P)]
             T == [k \in 0..N |-> {a \in Node : t \in L[k][a]}]
  <2>1. F \in [SUBSET Node -> SUBSET Node]
    OBVIOUS
  <2>2. \A P, Q \in SUBSET Node : P \subseteq Q => F[P] \subseteq F[Q]
    OBVIOUS
  <2>3. T[0] \in SUBSET Node
    BY <1>0
  <2>4. \A k \in 0..N : T[k] \in SUBSET Node /\ F[T[k]] = Round(T[k]) /\ T[k] = {a \in Node : t \in L[k][a]}
    OBVIOUS
  <2> HIDE DEF F, T
  <2>5. T[0] \subseteq F[T[0]]
    <3>1. 0 \in 0..N
      BY <1>0
    <3>2. T[0] = {a \in Node : t \in Registers68k!Exposed(a)}
      BY <1>1, <2>4, <3>1 DEF Rounds
    <3> QED BY <2>4, <3>1, <3>2
  <2>6. ASSUME NEW k \in 1..N PROVE T[k] = F[T[k - 1]]
    <3>1. k \in 0..N /\ k - 1 \in 0..N
      BY <1>0
    <3>2. ASSUME NEW a \in Node
          PROVE  t \in L[k][a] <=> \/ t \in Registers68k!Exposed(a)
                                   \/ /\ t \notin Registers68k!Defined(a)
                                      /\ \E d \in Registers68k!Targets(a) : d \in T[k - 1]
      <4>1. L[k][a] = Flowed(L[k - 1], a)
        BY <1>1 DEF Rounds
      <4>2. \A d \in Registers68k!Targets(a) : t \in L[k - 1][d] <=> d \in T[k - 1]
        BY <2>4, <3>1 DEF Registers68k!Targets
      <4> QED BY <4>1, <4>2 DEF Flowed
    <3>3. T[k] = Round(T[k - 1])
      BY <2>4, <3>1, <3>2
    <3> QED BY <2>4, <3>1, <3>3
  <2>7. F[T[N]] = T[N]
    <3> HIDE DEF N, Round
    <3>1. \A k \in 1..Cardinality(Node) : T[k] = F[T[k - 1]]
      BY <2>6 DEF N
    <3>2. F[T[Cardinality(Node)]] = T[Cardinality(Node)]
      BY <1>0, <2>1, <2>2, <2>3, <2>5, <3>1, Saturates
    <3> QED BY <3>2 DEF N
  <2>8. N \in 0..N /\ c \in T[N]
    BY <1>0, <1>1, <1>4, <2>4 DEF Registers68k!Targets
  <2>9. b \in Round(T[N])
    BY <1>4, <2>8
  <2> QED BY <1>1, <2>4, <2>7, <2>8, <2>9
<1>5. N \in 0..N
  BY <1>0
<1> QED BY <1>1, <1>3, <1>4, <1>5

(* An edge takes on the dominators of where it starts, and no others.      *)
LEMMA DominatorsFlow ==
  ASSUME IInv, Settled, NEW c \in Node, NEW d \in Node, <<c, d>> \in edges, NEW a \in dominators[d] \ {d}
  PROVE  a \in dominators[c]
<1>1. d # Entry
  BY DEF IInv, TypeOK
<1>2. dominators[d] = NextSet(d)
  BY <1>1 DEF IInv, Stable, Settled
<1>3. c \in Predecessors(d)
  BY DEF Predecessors
<1> QED BY <1>2, <1>3 DEF NextSet

LEMMA OpsAreSequences ==
  ASSUME Registers68k!WellFormed, NEW b \in Node
  PROVE  /\ Registers68k!Ops(b) \in Seq(Registers68k!Operation)
         /\ Len(Registers68k!Ops(b)) \in Nat
         /\ DOMAIN Registers68k!Ops(b) = 1..Len(Registers68k!Ops(b))
<1>1. Registers68k!Ops(b) \in Seq(Registers68k!Operation)
  BY DEF Registers68k!WellFormed, Registers68k!Ops
<1> QED BY <1>1

(* ... and nothing else: a strict dominator defines it.                    *)
LEMMA LiveInDefined ==
  ASSUME TreeInv, Settled, Registers68k!WellFormed, Registers68k!Verified, NEW b \in reachable, NEW t \in Registers68k!LiveIn[b]
  PROVE  \E a \in dominators[b] \ {b} : t \in Registers68k!Defined(a)
<1> DEFINE N == Cardinality(Node)
<1>0. N \in Nat
  BY NodeAssumption, FS_CardinalityType
<1>1. PICK L : Rounds(L) /\ Registers68k!LiveIn = L[N]
  BY <1>0, LiveInIs
<1> DEFINE T == {k \in 0..N : \A c \in reachable : \A u \in L[k][c] :
                   \E a \in dominators[c] \ {c} : u \in Registers68k!Defined(a)}
<1>2. reachable \in SUBSET Node /\ TypeOK /\ IInv
  BY LiveFacts DEF TreeInv, IInv
<1>3. ASSUME NEW c \in reachable, NEW u \in Registers68k!Exposed(c)
      PROVE  \E a \in dominators[c] \ {c} : u \in Registers68k!Defined(a)
  <2>1. PICK i \in Registers68k!Positions(c) :
          u \in Registers68k!Used(c, i) /\ \A j \in 1..(i - 1) : Registers68k!Ops(c)[j].result # u
    BY <1>3 DEF Registers68k!Exposed
  <2>2. PICK a \in dominators[c] :
          \/ u \in Registers68k!Params(a)
          \/ \E j \in DOMAIN Registers68k!Ops(a) :
               Registers68k!Ops(a)[j].result = u /\ (a = c => j < i)
    BY <2>1 DEF Registers68k!Verified
  <2>3. u # NoTemp
    BY <2>1 DEF Registers68k!Used
  <2>4. u \in Registers68k!Defined(a)
    BY <2>2, <2>3 DEF Registers68k!Defined
  <2>5. CASE a # c
    BY <2>4, <2>5
  <2>6. CASE a = c
    <3>1. u \notin Registers68k!Params(c)
      BY <1>3 DEF Registers68k!Exposed
    <3>2. PICK j \in DOMAIN Registers68k!Ops(c) : Registers68k!Ops(c)[j].result = u /\ j < i
      BY <2>2, <2>6, <3>1
    <3>3. c \in Node
      BY <1>2
    <3>4. j \in 1..(i - 1)
      <4>1. DOMAIN Registers68k!Ops(c) = 1..Len(Registers68k!Ops(c)) /\ Len(Registers68k!Ops(c)) \in Nat
        BY <3>3, OpsAreSequences
      <4> QED BY <3>2, <4>1 DEF Registers68k!Positions
    <3> QED BY <2>1, <3>2, <3>4
  <2> QED BY <2>5, <2>6
<1>4. 0 \in T
  BY <1>0, <1>1, <1>2, <1>3 DEF Rounds
<1>5. ASSUME NEW k \in 1..N, k - 1 \in T PROVE k \in T
  <2>1. ASSUME NEW c \in reachable, NEW u \in L[k][c]
        PROVE  \E a \in dominators[c] \ {c} : u \in Registers68k!Defined(a)
    <3>1. c \in Node /\ L[k][c] = Flowed(L[k - 1], c)
      BY <1>1, <1>2 DEF Rounds
    <3>2. CASE u \in Registers68k!Exposed(c)
      BY <1>3, <3>2
    <3>3. CASE u \notin Registers68k!Exposed(c)
      <4>1. PICK d \in Registers68k!Targets(c) : u \in L[k - 1][d] /\ u \notin Registers68k!Defined(c)
        BY <2>1, <3>1, <3>3 DEF Flowed
      <4>2. d \in Node /\ <<c, d>> \in edges
        BY <4>1 DEF Registers68k!Targets
      <4>3. d \in reachable
        BY <1>2, <4>2, LiveFacts DEF TreeInv, Closed
      <4>4. PICK a \in dominators[d] \ {d} : u \in Registers68k!Defined(a)
        BY <1>5, <4>1, <4>3
      <4>5. a \in dominators[c]
        BY <1>2, <3>1, <4>2, <4>4, DominatorsFlow
      <4> QED BY <4>1, <4>4, <4>5
    <3> QED BY <3>2, <3>3
  <2> QED BY <1>0, <2>1
<1>6. N \in T
  <2> HIDE DEF T, N
  <2>1. 0..N \subseteq T
    BY <1>0, <1>4, <1>5, UpTo
  <2> QED BY <1>0, <2>1
<1> QED BY <1>1, <1>6

(* The values needed before each position of a block.                      *)
End(b) ==
  (UNION {Registers68k!LiveIn[c] : c \in Registers68k!Targets(b)})
    \cup Registers68k!Used(b, Len(Registers68k!Ops(b)) + 1)
AllBefore(B, b) ==
  [i \in Registers68k!Positions(b) |->
     IF i = Len(Registers68k!Ops(b)) + 1 THEN End(b)
     ELSE (B[i + 1] \ {Registers68k!Ops(b)[i].result}) \cup Registers68k!Used(b, i)]

LEMMA ActiveIs ==
  ASSUME NEW b, Len(Registers68k!Ops(b)) \in Nat
  PROVE  /\ Registers68k!Active(b)[Len(Registers68k!Ops(b)) + 1] = End(b)
         /\ \A i \in 1..Len(Registers68k!Ops(b)) :
              Registers68k!Active(b)[i] =
                (Registers68k!Active(b)[i + 1] \ {Registers68k!Ops(b)[i].result}) \cup Registers68k!Used(b, i)
<1> DEFINE n == Len(Registers68k!Ops(b))
           D == SUBSET (End(b) \cup UNION {Registers68k!Used(b, i) : i \in 1..n})
           F == [a \in (1..n) \X D |->
                   (a[2] \ {Registers68k!Ops(b)[(n + 1) - a[1]].result})
                     \cup Registers68k!Used(b, (n + 1) - a[1])]
           x == End(b)
           Before == CHOOSE B : B = AllBefore(B, b)
<1>1. n \in Nat /\ Registers68k!Positions(b) = 1..(n + 1)
  BY DEF Registers68k!Positions
<1>2. x \in D
  OBVIOUS
<1>3. ASSUME NEW k \in 1..n, NEW d \in D
      PROVE  /\ F[<<k, d>>] = (d \ {Registers68k!Ops(b)[(n + 1) - k].result})
                                \cup Registers68k!Used(b, (n + 1) - k)
             /\ F[<<k, d>>] \in D
  <2>1. F[<<k, d>>] = (d \ {Registers68k!Ops(b)[(n + 1) - k].result})
                        \cup Registers68k!Used(b, (n + 1) - k)
    BY <1>3
  <2>2. (n + 1) - k \in 1..n
    BY <1>1
  <2>3. Registers68k!Used(b, (n + 1) - k) \in D
    BY <2>2
  <2> QED BY <2>1, <2>3
<1>4. \A k \in 1..n, d \in D : F[<<k, d>>] \in D
  BY <1>3
<1> HIDE DEF F, x, D, n
<1>5. PICK f : Iteration(f, n, D, x, F)
  BY <1>1, <1>2, <1>4, Iterates
<1> DEFINE B == [i \in 1..(n + 1) |-> f[(n + 1) - i]]
<1>6. B = AllBefore(B, b)
  <2>1. ASSUME NEW i \in 1..(n + 1)
        PROVE  f[(n + 1) - i] = IF i = n + 1 THEN End(b)
                                ELSE (B[i + 1] \ {Registers68k!Ops(b)[i].result}) \cup Registers68k!Used(b, i)
    <3> DEFINE k == (n + 1) - i
    <3>1. k \in 0..n /\ f[k] = Stage(F, f, k, x) /\ f[k] \in D
      BY <1>1, <1>5 DEF Iteration
    <3>2. CASE i = n + 1
      BY <1>1, <3>1, <3>2 DEF Stage, x
    <3>3. CASE i # n + 1
      <4>1. k \in 1..n /\ k - 1 \in 0..n /\ (n + 1) - k = i /\ (n + 1) - (i + 1) = k - 1 /\ i + 1 \in 1..(n + 1)
        BY <1>1, <3>3
      <4>2. f[k - 1] \in D
        BY <1>5, <4>1 DEF Iteration
      <4>3. F[<<k, f[k - 1]>>] = (f[k - 1] \ {Registers68k!Ops(b)[i].result}) \cup Registers68k!Used(b, i)
        BY <1>3, <4>1, <4>2
      <4>4. B[i + 1] = f[k - 1]
        BY <4>1
      <4>5. f[k] = F[<<k, f[k - 1]>>]
        BY <3>1, <4>1 DEF Stage
      <4> QED BY <3>3, <4>3, <4>4, <4>5
    <3> QED BY <3>2, <3>3
  <2> HIDE DEF B
  <2>2. B = [i \in 1..(n + 1) |-> IF i = n + 1 THEN End(b)
                ELSE (B[i + 1] \ {Registers68k!Ops(b)[i].result}) \cup Registers68k!Used(b, i)]
    BY <2>1 DEF B
  <2> QED BY <1>1, <2>2 DEF AllBefore, n
<1>7. Before = AllBefore(Before, b)
  BY <1>6
<1>8. Registers68k!Active(b) = Before
  BY DEF Registers68k!Active, AllBefore, End
<1> HIDE DEF Before
<1>9. ASSUME NEW i \in 1..(n + 1)
      PROVE  Before[i] = IF i = n + 1 THEN End(b)
                         ELSE (Before[i + 1] \ {Registers68k!Ops(b)[i].result}) \cup Registers68k!Used(b, i)
  BY <1>1, <1>7 DEF AllBefore, n
<1>10. \A i \in 1..n : i \in 1..(n + 1) /\ i # n + 1
  BY <1>1
<1>11. n + 1 \in 1..(n + 1)
  BY <1>1
<1> QED BY <1>8, <1>9, <1>10, <1>11 DEF n

(* What is needed before the operations of a block, and is no parameter of *)
(* it, is live into the block.                                             *)
LEMMA ActiveTemps ==
  ASSUME TreeInv, Registers68k!WellFormed, Registers68k!Verified, NEW b \in reachable
  PROVE  \A i \in 1..(Len(Registers68k!Ops(b)) + 1) :
           /\ Registers68k!Used(b, i) \subseteq Registers68k!Active(b)[i]
           /\ Registers68k!Active(b)[i] \subseteq Registers68k!Temps
<1> DEFINE n == Len(Registers68k!Ops(b))
           T == {i \in 1..(n + 1) : Registers68k!Active(b)[i] \subseteq Registers68k!Temps}
<1>1. b \in Node /\ TypeOK
  BY LiveFacts DEF TreeInv, IInv
<1>2. n \in Nat
  BY <1>1, OpsAreSequences
<1>3. /\ Registers68k!Active(b)[n + 1] = End(b)
      /\ \A i \in 1..n : Registers68k!Active(b)[i] =
              (Registers68k!Active(b)[i + 1] \ {Registers68k!Ops(b)[i].result}) \cup Registers68k!Used(b, i)
  BY <1>2, ActiveIs
<1>4. ASSUME NEW i \in 1..(n + 1) PROVE Registers68k!Used(b, i) \subseteq Registers68k!Temps
  <2> SUFFICES ASSUME NEW t \in Registers68k!Used(b, i) PROVE t \in Registers68k!Temps
    OBVIOUS
  <2>1. i \in Registers68k!Positions(b)
    BY DEF Registers68k!Positions
  <2>2. PICK a \in dominators[b] :
          \/ t \in Registers68k!Params(a)
          \/ \E j \in DOMAIN Registers68k!Ops(a) : Registers68k!Ops(a)[j].result = t
    BY <2>1 DEF Registers68k!Verified
  <2>3. t # NoTemp /\ a \in Node
    BY <1>1 DEF Registers68k!Used, TypeOK
  <2>4. t \in Registers68k!Defined(a)
    BY <2>2, <2>3 DEF Registers68k!Defined
  <2> QED BY <2>3, <2>4 DEF Registers68k!Temps
<1>5. n + 1 \in T
  <2>1. \A c \in Registers68k!Targets(b) : Registers68k!LiveIn[c] \subseteq Registers68k!Temps
    BY LiveInFlows DEF Registers68k!Targets
  <2>2. n + 1 \in 1..(n + 1)
    BY <1>2
  <2>3. End(b) \subseteq Registers68k!Temps
    BY <1>4, <2>1, <2>2 DEF End
  <2> QED BY <1>3, <2>2, <2>3
<1>6. ASSUME NEW k \in 1..n, k + 1 \in T PROVE k \in T
  <2>1. k \in 1..(n + 1)
    BY <1>2
  <2>2. Registers68k!Active(b)[k] \subseteq Registers68k!Temps
    BY <1>3, <1>4, <1>6, <2>1
  <2> QED BY <2>1, <2>2
<1>7. 1..(n + 1) \subseteq T
  <2> HIDE DEF T, n
  <2>1. n + 1 \in Nat /\ (n + 1) - 1 = n
    BY <1>2
  <2> QED BY <1>5, <1>6, <2>1, DownTo
<1>8. ASSUME NEW i \in 1..(n + 1) PROVE Registers68k!Used(b, i) \subseteq Registers68k!Active(b)[i]
  <2>1. CASE i = n + 1
    BY <1>3, <2>1 DEF End
  <2>2. CASE i # n + 1
    <3>1. i \in 1..n
      BY <1>2, <2>2
    <3> QED BY <1>3, <3>1
  <2> QED BY <2>1, <2>2
<1> QED BY <1>7, <1>8

LEMMA ActiveLive ==
  ASSUME TreeInv, Registers68k!WellFormed, Registers68k!Verified, NEW b \in reachable,
         NEW t \in Registers68k!Active(b)[1], t \notin Registers68k!Params(b)
  PROVE  t \in Registers68k!LiveIn[b]
<1> DEFINE n == Len(Registers68k!Ops(b))
           Survives(i, j) == \A k \in i..j : Registers68k!Ops(b)[k].result # t
           Met(i) == \E j \in i..(n + 1) : t \in Registers68k!Used(b, j) /\ Survives(i, j - 1)
           Out == \E c \in Registers68k!Targets(b) : t \in Registers68k!LiveIn[c]
           T == {i \in 1..(n + 1) : t \in Registers68k!Active(b)[i] => Met(i) \/ (Out /\ Survives(i, n))}
<1>1. b \in Node
  BY LiveFacts DEF TreeInv, IInv
<1>2. n \in Nat /\ DOMAIN Registers68k!Ops(b) = 1..n
  BY <1>1, OpsAreSequences
<1>3. /\ Registers68k!Active(b)[n + 1] = End(b)
      /\ \A i \in 1..n : Registers68k!Active(b)[i] =
              (Registers68k!Active(b)[i + 1] \ {Registers68k!Ops(b)[i].result}) \cup Registers68k!Used(b, i)
  BY <1>2, ActiveIs
<1>4. n + 1 \in T
  <2>1. n + 1 \in 1..(n + 1) /\ (n + 1)..n = {} /\ (n + 1) - 1 = n
    BY <1>2
  <2>2. ASSUME t \in End(b) PROVE Met(n + 1) \/ (Out /\ Survives(n + 1, n))
    <3>1. CASE t \in Registers68k!Used(b, n + 1)
      <4>1. n + 1 \in (n + 1)..(n + 1)
        BY <1>2
      <4> QED BY <2>1, <3>1, <4>1
    <3>2. CASE t \notin Registers68k!Used(b, n + 1)
      BY <2>1, <2>2, <3>2 DEF End
    <3> QED BY <3>1, <3>2
  <2> HIDE DEF Met, Out, Survives
  <2> QED BY <1>3, <2>1, <2>2
<1>5. ASSUME NEW k \in 1..n, k + 1 \in T PROVE k \in T
  <2>1. k \in 1..(n + 1)
    BY <1>2
  <2>2. ASSUME t \in Registers68k!Active(b)[k] PROVE Met(k) \/ (Out /\ Survives(k, n))
    <3>1. CASE t \in Registers68k!Used(b, k)
      <4>1. k \in k..(n + 1) /\ k..(k - 1) = {}
        BY <1>2
      <4> QED BY <3>1, <4>1
    <3>2. CASE t \notin Registers68k!Used(b, k)
      <4>1. t \in Registers68k!Active(b)[k + 1] /\ Registers68k!Ops(b)[k].result # t
        BY <1>3, <2>2, <3>2
      <4>2. \A j : Survives(k + 1, j) => Survives(k, j)
        <5>1. \A j : \A m \in k..j : m = k \/ m \in (k + 1)..j
          OBVIOUS
        <5> QED BY <4>1, <5>1
      <4>3. \A j \in (k + 1)..(n + 1) : j \in k..(n + 1)
        BY <1>2
      <4> HIDE DEF Survives
      <4> QED BY <1>5, <4>1, <4>2, <4>3
    <3> QED BY <3>1, <3>2
  <2> HIDE DEF Met, Out, Survives
  <2> QED BY <2>1, <2>2
<1>6. 1..(n + 1) \subseteq T
  <2> HIDE DEF T, n
  <2>1. n + 1 \in Nat /\ (n + 1) - 1 = n
    BY <1>2
  <2> QED BY <1>4, <1>5, <2>1, DownTo
<1>7. Met(1) \/ (Out /\ Survives(1, n))
  <2>1. 1 \in 1..(n + 1)
    BY <1>2
  <2> HIDE DEF Met, Out, Survives
  <2> QED BY <1>6, <2>1
<1>8. t \in Registers68k!Temps
  <2>1. 1 \in 1..(n + 1)
    BY <1>2
  <2> QED BY <2>1, ActiveTemps
<1>9. CASE Met(1)
  <2>1. t \in Registers68k!Exposed(b)
    BY <1>8, <1>9 DEF Registers68k!Exposed, Registers68k!Positions
  <2> QED BY <1>1, <2>1, LiveInFlows
<1>10. CASE Out /\ Survives(1, n)
  <2>1. t \notin Registers68k!Defined(b)
    BY <1>2, <1>10 DEF Registers68k!Defined
  <2> QED BY <1>1, <1>10, <2>1, LiveInFlows
<1> QED BY <1>7, <1>9, <1>10

LEMMA NothingLiveAtEntry ==
  ASSUME TreeInv, Settled, Registers68k!WellFormed, Registers68k!Verified
  PROVE  Registers68k!LiveIn[Entry] = {}
<1>1. Entry \in reachable /\ dominators[Entry] = {Entry}
  BY LiveFacts DEF TreeInv, IInv, TypeOK
<1> QED BY <1>1, LiveInDefined

LEMMA NeededExists ==
  ASSUME TreeInv, Settled, Registers68k!WellFormed, Registers68k!Verified
  PROVE  \E A : Needed(A, routine, edges, reachable,
                       UNION {Registers68k!Interferences(b) : b \in reachable})
<1> DEFINE A == [b \in Node |-> Registers68k!Active(b)]
           C == UNION {Registers68k!Interferences(b) : b \in reachable}
<1>1. /\ reachable \in SUBSET Node /\ Entry \in reachable /\ Closed(reachable, edges)
  BY LiveFacts DEF TreeInv, IInv
<1>2. \A b \in Node : A[b] = Registers68k!Active(b)
  OBVIOUS
<1> HIDE DEF A, C
<1>3. ASSUME NEW b \in reachable
      PROVE  /\ b \in Node /\ routine.ops[b] = Registers68k!Ops(b)
             /\ Registers68k!Params(b) = Registers68k!ToSet(routine.params[b])
             /\ Len(routine.ops[b]) \in Nat /\ DOMAIN routine.ops[b] = 1..Len(routine.ops[b])
             /\ \A t \in A[b][1] : t \in Registers68k!Params(b) \/ t \in Registers68k!LiveIn[b]
             /\ A[b][Len(routine.ops[b]) + 1] = End(b)
             /\ \A i \in 1..Len(routine.ops[b]) : A[b][i] =
                  (A[b][i + 1] \ {routine.ops[b][i].result}) \cup Registers68k!Used(b, i)
  <2>1. b \in Node /\ routine.ops[b] = Registers68k!Ops(b)
        /\ Registers68k!Params(b) = Registers68k!ToSet(routine.params[b])
    BY <1>1 DEF Registers68k!Ops, Registers68k!Params
  <2>2. Len(routine.ops[b]) \in Nat /\ DOMAIN routine.ops[b] = 1..Len(routine.ops[b])
    BY <2>1, OpsAreSequences
  <2>3. \A t \in A[b][1] : t \in Registers68k!Params(b) \/ t \in Registers68k!LiveIn[b]
    BY <1>2, <2>1, ActiveLive
  <2> QED BY <1>2, <2>1, <2>2, <2>3, ActiveIs
<1>4. Entry \in reachable /\ A[Entry][1] = {}
  <2>1. Registers68k!Params(Entry) = {}
    BY DEF Registers68k!WellFormed, Registers68k!Params, Registers68k!ToSet
  <2> QED BY <1>1, <1>3, <2>1, NothingLiveAtEntry
<1>5. ASSUME NEW b \in reachable PROVE NeededIn(A, routine, edges, C, b)
  <2>1. \A i \in 1..(Len(routine.ops[b]) + 1) :
          UsedAt(routine, edges, b, i) \subseteq A[b][i] /\ A[b][i] \subseteq TempsOf(routine)
    BY <1>2, <1>3, ActiveTemps, RoutineOperators
  <2>2. Registers68k!Interferences(b) =
          (UNION {{routine.ops[b][i].result} \X A[b][i + 1] : i \in DOMAIN routine.ops[b]})
            \cup (Registers68k!ToSet(routine.params[b]) \X A[b][1])
    BY <1>2, <1>3 DEF Registers68k!Interferences
  <2>3. Registers68k!Interferences(b) \subseteq C
    BY DEF C
  <2>4. \A i \in 1..Len(routine.ops[b]) : {routine.ops[b][i].result} \X A[b][i + 1] \subseteq C
    BY <1>3, <2>2, <2>3
  <2>5. Registers68k!ToSet(routine.params[b]) \X A[b][1] \subseteq C
    BY <2>2, <2>3
  <2> QED BY <1>3, <2>1, <2>4, <2>5 DEF NeededIn
<1>6. ASSUME NEW b \in reachable, NEW c \in Node, <<b, c>> \in edges
      PROVE  c \in reachable /\ NeededOver(A, routine, <<b, c>>)
  <2>1. c \in reachable
    BY <1>1, <1>6 DEF Closed
  <2>2. c \in Registers68k!Targets(b)
    BY <1>6 DEF Registers68k!Targets
  <2>3. A[c][1] \ Registers68k!ToSet(routine.params[c]) \subseteq A[b][Len(routine.ops[b]) + 1]
    BY <1>3, <2>1, <2>2, SMTT(60) DEF End
  <2>4. DOMAIN routine.args[<<b, c>>] = DOMAIN routine.params[c]
    <3>1. routine.args[<<b, c>>] \in Seq(Registers68k!Value) /\ routine.params[c] \in Seq(Int \ {NoTemp})
      BY <1>6 DEF Registers68k!WellFormed
    <3>2. Len(routine.args[<<b, c>>]) = Len(routine.params[c])
      BY <1>6 DEF Registers68k!WellFormed
    <3> QED BY <3>1, <3>2
  <2> QED BY <2>1, <2>3, <2>4 DEF NeededOver
<1>7. TempsOf(routine) \cap Registers68k!ToSet(Registers) = {}
  BY RoutineOperators DEF Registers68k!WellFormed
<1> QED BY <1>4, <1>5, <1>6, <1>7 DEF Needed, C

-----------------------------------------------------------------------------
(* The run.  No two values of which one is needed while the other is       *)
(* written share a home.                                                   *)
Assigned ==
  /\ \A t \in DOMAIN registers : registers[t] \in Registers68k!ToSet(Registers)
  /\ \A s, t \in DOMAIN registers : s # t /\ <<s, t>> \in conflicts => registers[s] # registers[t]
Carried(A) ==
  /\ Needed(A, routine, edges, reachable, conflicts) /\ Assigned
  /\ DOMAIN held = Registers68k!ToSet(Registers) \cup TempsOf(routine)
  /\ point[1] \in reachable /\ point[1] \in Node
  /\ \A b \in Node : routine.params[b] \in Seq(Int \ {NoTemp})
  /\ point[2] \in 1..(Len(routine.ops[point[1]]) + 1)
  /\ \A t \in A[point[1]][point[2]] \ discarded : t \in held[Registers68k!Home(t)]

LEMMA HomesApart ==
  ASSUME NEW A, Needed(A, routine, edges, reachable, conflicts), Assigned,
         NEW s \in TempsOf(routine), NEW t \in TempsOf(routine), s # t, <<s, t>> \in conflicts
  PROVE  Registers68k!Home(s) # Registers68k!Home(t)
<1>1. s \notin Registers68k!ToSet(Registers) /\ t \notin Registers68k!ToSet(Registers)
  BY DEF Needed
<1>2. CASE s \in DOMAIN registers /\ t \in DOMAIN registers
  BY <1>2 DEF Assigned, Registers68k!Home
<1>3. CASE ~(s \in DOMAIN registers /\ t \in DOMAIN registers)
  BY <1>1, <1>3 DEF Assigned, Registers68k!Home
<1> QED BY <1>2, <1>3

LEMMA HomeIsHome ==
  ASSUME Assigned, NEW t \in TempsOf(routine)
  PROVE  Registers68k!Home(t) \in Registers68k!ToSet(Registers) \cup TempsOf(routine)
  BY DEF Assigned, Registers68k!Home

LEMMA ResultIsTemp ==
  ASSUME NEW b \in Node, NEW i \in DOMAIN routine.ops[b], routine.ops[b][i].result # NoTemp
  PROVE  routine.ops[b][i].result \in TempsOf(routine)
  BY DEF TempsOf, DefinedBy

LEMMA ExecuteCarries ==
  ASSUME NEW A, Carried(A), Registers68k!Execute
  PROVE  Carried(A)'
<1> DEFINE b == point[1]
           i == point[2]
           r == routine.ops[b][i].result
<1>1. /\ routine' = routine /\ edges' = edges /\ reachable' = reachable
      /\ conflicts' = conflicts /\ registers' = registers /\ discarded' = discarded
      /\ point' = <<b, i + 1>>
      /\ i <= Len(routine.ops[b])
      /\ held' = IF r \in discarded \cup {NoTemp} THEN held ELSE Registers68k!Saved(r)
  BY DEF Registers68k!Execute, Registers68k!vars, Registers68k!graph, Registers68k!plan, Registers68k!homes,
         Registers68k!Ops
<1>2. Needed(A, routine, edges, reachable, conflicts)' /\ Assigned'
  BY <1>1 DEF Carried, Assigned
<1>3. /\ Needed(A, routine, edges, reachable, conflicts) /\ Assigned /\ b \in reachable /\ b \in Node
      /\ DOMAIN held = Registers68k!ToSet(Registers) \cup TempsOf(routine)
      /\ NeededIn(A, routine, edges, conflicts, b)
  BY DEF Carried, Needed
<1>4. /\ Len(routine.ops[b]) \in Nat /\ i \in 1..Len(routine.ops[b]) /\ i + 1 \in 1..(Len(routine.ops[b]) + 1)
      /\ i \in DOMAIN routine.ops[b]
  BY <1>1, <1>3 DEF Carried, NeededIn
<1>5. /\ A[b][i + 1] \ {r} \subseteq A[b][i] /\ {r} \X A[b][i + 1] \subseteq conflicts
      /\ A[b][i + 1] \subseteq TempsOf(routine)
  BY <1>3, <1>4 DEF NeededIn
<1>6. \A t : Registers68k!Home(t)' = Registers68k!Home(t)
  BY <1>1 DEF Registers68k!Home
<1>7. DOMAIN held' = Registers68k!ToSet(Registers) \cup TempsOf(routine)
  BY <1>1, <1>3 DEF Registers68k!Saved
<1>8. NoTemp \notin TempsOf(routine)
  BY DEF TempsOf, DefinedBy
<1>9. ASSUME NEW t \in A[b][i + 1] \ discarded PROVE t \in held'[Registers68k!Home(t)]
  <2>1. t \in TempsOf(routine) /\ Registers68k!Home(t) \in DOMAIN held
    BY <1>3, <1>5, HomeIsHome
  <2>2. CASE r \in discarded \cup {NoTemp}
    <3>1. t # r
      BY <1>8, <2>1, <2>2
    <3> QED BY <1>1, <1>5, <2>2, <3>1 DEF Carried
  <2>3. CASE r \notin discarded \cup {NoTemp}
    <3>1. held' = [h \in DOMAIN held |-> IF h = Registers68k!Home(r) THEN {r} ELSE held[h] \ {r}]
      BY <1>1, <2>3 DEF Registers68k!Saved
    <3>2. CASE t = r
      BY <2>1, <3>1, <3>2
    <3>3. CASE t # r
      <4>1. r \in TempsOf(routine)
        BY <1>3, <1>4, <2>3, ResultIsTemp
      <4>2. Registers68k!Home(r) # Registers68k!Home(t)
        BY <1>3, <1>5, <2>1, <3>3, <4>1, HomesApart
      <4>3. t \in held[Registers68k!Home(t)]
        BY <1>5, <3>3 DEF Carried
      <4> QED BY <2>1, <3>1, <3>3, <4>2, <4>3, SMTT(60)
    <3> QED BY <3>2, <3>3, SMTT(60)
  <2> QED BY <2>2, <2>3
<1> HIDE DEF r
<1> QED BY <1>1, <1>2, <1>3, <1>4, <1>6, <1>7, <1>9 DEF Carried

(* Of several copies to a home one is the last.                            *)
LEMMA LastWriter ==
  ASSUME NEW c \in Node, NEW b, routine.params[c] \in Seq(Int \ {NoTemp}),
         DOMAIN routine.args[<<b, c>>] = DOMAIN routine.params[c],
         NEW h, NEW k \in Registers68k!Copied(<<b, c>>), Registers68k!Home(routine.params[c][k]) = h
  PROVE  \E j \in Registers68k!Copied(<<b, c>>) :
           /\ Registers68k!Home(routine.params[c][j]) = h
           /\ \A m \in Registers68k!Copied(<<b, c>>) : m > j => Registers68k!Home(routine.params[c][m]) # h
<1> DEFINE n == Len(routine.params[c])
           W == {j \in Registers68k!Copied(<<b, c>>) : Registers68k!Home(routine.params[c][j]) = h}
           M == {d \in 0..n : n - d \in W}
<1>1. n \in Nat /\ DOMAIN routine.params[c] = 1..n
  OBVIOUS
<1>2. W \subseteq 1..n /\ k \in W
  BY <1>1 DEF Registers68k!Copied
<1> HIDE DEF W, n
<1>3. n - k \in M /\ M \in SUBSET Nat
  BY <1>1, <1>2
<1>4. PICK d \in M : \A x \in M : d <= x
  BY <1>3, LeastNumber
<1>5. n - d \in W
  BY <1>4
<1>6. ASSUME NEW m \in W, m > n - d PROVE FALSE
  <2>1. m \in 1..n /\ d \in 0..n
    BY <1>2, <1>4
  <2>2. n - m \in M /\ n - m < d
    BY <1>1, <1>6, <2>1
  <2>3. d <= n - m
    <3> HIDE DEF M
    <3> QED BY <1>4, <2>2
  <2>4. n \in Nat /\ m \in Nat /\ d \in Nat
    BY <1>1, <2>1
  <2> QED BY <2>2, <2>3, <2>4
<1> QED BY <1>5, <1>6 DEF W

LEMMA FollowCarries ==
  ASSUME NEW A, Carried(A), NEW c \in Registers68k!Targets(point[1]), Registers68k!Follow(c)
  PROVE  Carried(A)'
<1> DEFINE b == point[1]
           e == <<b, c>>
           end == A[b][Len(routine.ops[b]) + 1]
<1>1. /\ routine' = routine /\ edges' = edges /\ reachable' = reachable
      /\ conflicts' = conflicts /\ registers' = registers /\ discarded' = discarded
      /\ point' = <<c, 1>>
      /\ point[2] > Len(routine.ops[b])
      /\ held' = [h \in DOMAIN held |-> Registers68k!Arrived(e, h)]
  BY DEF Registers68k!Follow, Registers68k!vars, Registers68k!graph, Registers68k!plan, Registers68k!homes,
         Registers68k!Ops
<1>2. Needed(A, routine, edges, reachable, conflicts)' /\ Assigned'
  BY <1>1 DEF Carried, Assigned
<1>3. c \in Node /\ e \in edges
  BY DEF Registers68k!Targets
<1>4. /\ Needed(A, routine, edges, reachable, conflicts) /\ Assigned /\ b \in reachable /\ b \in Node
      /\ DOMAIN held = Registers68k!ToSet(Registers) \cup TempsOf(routine)
      /\ NeededIn(A, routine, edges, conflicts, b)
      /\ c \in reachable /\ NeededIn(A, routine, edges, conflicts, c)
      /\ NeededOver(A, routine, e)
  BY <1>3 DEF Carried, Needed
<1>5. /\ Len(routine.ops[b]) \in Nat /\ point[2] = Len(routine.ops[b]) + 1
      /\ \A t \in end \ discarded : t \in held[Registers68k!Home(t)]
  <2>1. Len(routine.ops[b]) \in Nat
    BY <1>4 DEF NeededIn
  <2>2. point[2] = Len(routine.ops[b]) + 1
    BY <1>1, <2>1 DEF Carried
  <2>3. \A t \in A[b][point[2]] \ discarded : t \in held[Registers68k!Home(t)]
    BY DEF Carried
  <2> QED BY <2>1, <2>2, <2>3
<1>6. /\ A[c][1] \ Registers68k!Params(c) \subseteq end
      /\ DOMAIN routine.args[e] = DOMAIN routine.params[c]
      /\ Registers68k!Params(c) = Registers68k!ToSet(routine.params[c])
  BY <1>4 DEF NeededOver, Registers68k!Params
<1>7. /\ Registers68k!Params(c) \X A[c][1] \subseteq conflicts
      /\ A[c][1] \subseteq TempsOf(routine) /\ 1 \in 1..(Len(routine.ops[c]) + 1)
  BY <1>4, <1>6 DEF NeededIn
<1>8. \A t : Registers68k!Home(t)' = Registers68k!Home(t)
  BY <1>1 DEF Registers68k!Home
<1>9. \A k \in Registers68k!Copied(e) : routine.params[c][k] \in Registers68k!Params(c)
  BY <1>6 DEF Registers68k!Copied, Registers68k!ToSet
<1>10. ASSUME NEW t \in A[c][1] \ discarded, NEW k \in Registers68k!Copied(e),
              Registers68k!Home(routine.params[c][k]) = Registers68k!Home(t)
       PROVE  routine.params[c][k] = t
  <2> DEFINE s == routine.params[c][k]
  <2>1. s \in Registers68k!Params(c) /\ <<s, t>> \in conflicts /\ t \in TempsOf(routine)
    BY <1>7, <1>9
  <2>2. s # NoTemp
    <3>1. routine.params[c] \in Seq(Int \ {NoTemp})
      BY <1>3 DEF Carried
    <3>2. k \in DOMAIN routine.params[c]
      BY <1>6 DEF Registers68k!Copied
    <3> QED BY <3>1, <3>2
  <2>3. s \in TempsOf(routine)
    BY <1>3, <1>6, <2>1, <2>2 DEF TempsOf, DefinedBy
  <2> QED BY <1>4, <1>10, <2>1, <2>3, HomesApart
<1>12. routine.params[c] \in Seq(Int \ {NoTemp})
  BY <1>3 DEF Carried
<1>11. ASSUME NEW t \in A[c][1] \ discarded PROVE t \in held'[Registers68k!Home(t)]
  <2>1. t \in TempsOf(routine) /\ Registers68k!Home(t) \in DOMAIN held
    BY <1>4, <1>7, HomeIsHome
  <2>2. held'[Registers68k!Home(t)] = Registers68k!Arrived(e, Registers68k!Home(t))
    BY <1>1, <2>1
  <2>3. CASE t \in Registers68k!Params(c)
    <3>1. PICK k \in DOMAIN routine.params[c] : routine.params[c][k] = t
      BY <1>6, <2>3 DEF Registers68k!ToSet
    <3>2. k \in Registers68k!Copied(e)
      BY <1>6, <1>11, <3>1 DEF Registers68k!Copied
    <3>3. PICK j \in Registers68k!Copied(e) :
            /\ Registers68k!Home(routine.params[c][j]) = Registers68k!Home(t)
            /\ \A m \in Registers68k!Copied(e) : m > j => Registers68k!Home(routine.params[c][m]) # Registers68k!Home(t)
      BY <1>3, <1>6, <1>12, <3>1, <3>2, LastWriter, SMTT(60)
    <3>4. routine.params[c][j] = t
      BY <1>10, <1>11, <3>3
    <3>5. j \in Registers68k!Writers(e, Registers68k!Home(t))
      BY <3>3 DEF Registers68k!Writers
    <3> QED BY <2>2, <3>4, <3>5 DEF Registers68k!Arrived
  <2>4. CASE t \notin Registers68k!Params(c)
    <3>1. t \in held[Registers68k!Home(t)]
      BY <1>5, <1>6, <1>11, <2>4
    <3>2. Registers68k!Writers(e, Registers68k!Home(t)) = {}
      <4>1. ASSUME NEW k \in Registers68k!Copied(e),
                   Registers68k!Home(routine.params[c][k]) = Registers68k!Home(t)
            PROVE  FALSE
        BY <1>9, <1>10, <1>11, <2>4, <4>1
      <4> QED BY <4>1 DEF Registers68k!Writers
    <3> QED BY <2>2, <2>4, <3>1, <3>2 DEF Registers68k!Arrived
  <2> QED BY <2>3, <2>4
<1> QED BY <1>1, <1>2, <1>3, <1>4, <1>7, <1>8, <1>11 DEF Carried

-----------------------------------------------------------------------------
AllocInv ==
  /\ TreeInv
  /\ phase \in {"source", "choosing", "running", "refused"}
  /\ phase \in {"source", "choosing"} => point = <<Entry, 1>>
  /\ phase # "source" \/ routine # <<>> => Done
  /\ phase = "source" /\ routine # <<>> => Registers68k!WellFormed
  /\ phase = "choosing" =>
       /\ \E A : Needed(A, routine, edges, reachable, conflicts)
       /\ \A b \in Node : routine.params[b] \in Seq(Int \ {NoTemp})
  /\ phase = "running" => \E A : Carried(A)

LEMMA InitAllocation == Init /\ Registers68k!AllocationInit => AllocInv
  BY InitTree DEF Registers68k!AllocationInit, AllocInv

(* The analysis has come to its end before a routine is looked at.         *)
LEMMA DoneIsLast == TreeInv /\ Done /\ Next => FALSE
<1> SUFFICES ASSUME TreeInv, Done, Next PROVE FALSE
  OBVIOUS
<1>1. scan = {} /\ ~changed
  BY DEF TreeInv, TreeMade, Settled
<1>2. ASSUME NEW n \in Node, Visit(n) PROVE FALSE
  BY <1>1, <1>2 DEF Visit, IsSmallest
<1>3. ~NextPass /\ ~BuildTree
  BY <1>1 DEF NextPass, BuildTree, Done
<1> QED BY <1>2, <1>3 DEF Next

LEMMA TreeKept ==
  ASSUME TreeInv, UNCHANGED vars
  PROVE  TreeInv' /\ Done' = Done /\ reachable' = reachable /\ edges' = edges
<1>1. TreeInv'
  BY NextTree
<1> QED BY <1>1 DEF vars, graph, tree, Done

LEMMA AnalysisKeeps == AllocInv /\ Next /\ UNCHANGED allocation => AllocInv'
<1> SUFFICES ASSUME AllocInv, Next, UNCHANGED allocation PROVE AllocInv'
  OBVIOUS
<1>1. TreeInv /\ TreeInv' /\ ~Done
  BY NextTree, DoneIsLast DEF AllocInv
<1>2. phase = "source" /\ routine = <<>> /\ phase' = phase /\ routine' = routine /\ point' = point
  BY <1>1 DEF AllocInv, allocation
<1> QED BY <1>1, <1>2 DEF AllocInv

LEMMA SupplyKeeps == AllocInv /\ Supply => AllocInv'
<1> SUFFICES ASSUME AllocInv, Supply PROVE AllocInv'
  OBVIOUS
<1>1. TreeInv' /\ Done'
  BY TreeKept DEF AllocInv, Supply
<1> QED BY <1>1 DEF AllocInv, Supply

LEMMA AllocateKeeps == AllocInv /\ Registers68k!Allocate => AllocInv'
<1> SUFFICES ASSUME AllocInv, Registers68k!Allocate PROVE AllocInv'
  OBVIOUS
<1>1. UNCHANGED <<vars, routine, registers, point, held>> /\ phase = "source" /\ routine # <<>>
  BY DEF Registers68k!Allocate, Registers68k!vars, vars, Registers68k!graph, graph, Registers68k!tree, tree
<1>2. TreeInv /\ TreeInv' /\ Done /\ Done' /\ reachable' = reachable /\ edges' = edges
  BY <1>1, TreeKept DEF AllocInv
<1>3. CASE Registers68k!Verified
  <2>1. /\ phase' = "choosing"
        /\ conflicts' = UNION {Registers68k!Interferences(b) : b \in reachable}
    BY <1>3 DEF Registers68k!Allocate
  <2>2. Registers68k!WellFormed
    BY <1>1 DEF AllocInv
  <2>3. Settled
    BY <1>2 DEF TreeInv, TreeMade
  <2>4. PICK A : Needed(A, routine, edges, reachable, conflicts')
    BY <1>2, <1>3, <2>1, <2>2, <2>3, NeededExists
  <2>5. Needed(A, routine, edges, reachable, conflicts)'
    BY <1>1, <1>2, <2>4
  <2>6. \A b \in Node : routine.params[b] \in Seq(Int \ {NoTemp})
    BY <2>2 DEF Registers68k!WellFormed
  <2> QED BY <1>1, <1>2, <2>1, <2>5, <2>6 DEF AllocInv
<1>4. CASE ~Registers68k!Verified
  <2>1. phase' = "refused"
    BY <1>4 DEF Registers68k!Allocate
  <2> QED BY <1>2, <2>1 DEF AllocInv
<1> QED BY <1>3, <1>4

LEMMA ChooseKeeps == AllocInv /\ Registers68k!Choose => AllocInv'
<1> SUFFICES ASSUME AllocInv, Registers68k!Choose PROVE AllocInv'
  OBVIOUS
<1>1. UNCHANGED <<vars, phase, routine, conflicts, point>> /\ phase = "choosing"
  BY DEF Registers68k!Choose, Registers68k!vars, vars, Registers68k!graph, graph, Registers68k!tree, tree
<1>2. TreeInv /\ TreeInv' /\ Done /\ Done' /\ reachable' = reachable /\ edges' = edges
  BY <1>1, TreeKept DEF AllocInv
<1> QED BY <1>1, <1>2 DEF AllocInv

LEMMA FinishKeeps == AllocInv /\ Registers68k!Finish => AllocInv'
<1> SUFFICES ASSUME AllocInv, Registers68k!Finish PROVE AllocInv'
  OBVIOUS
<1>1. /\ UNCHANGED <<vars, routine, conflicts, registers, discarded, point>>
      /\ phase = "choosing"
      /\ phase' = IF Registers68k!Sound THEN "running" ELSE "refused"
      /\ held' = [h \in Registers68k!ToSet(Registers) \cup Registers68k!Temps |-> {}]
  BY DEF Registers68k!Finish, Registers68k!vars, vars, Registers68k!graph, graph, Registers68k!tree, tree,
         Registers68k!plan, Registers68k!homes
<1>2. TreeInv /\ TreeInv' /\ Done /\ Done' /\ reachable' = reachable /\ edges' = edges
  BY <1>1, TreeKept DEF AllocInv
<1>3. CASE Registers68k!Sound
  <2>1. PICK A : Needed(A, routine, edges, reachable, conflicts)
    BY <1>1 DEF AllocInv
  <2>2. Needed(A, routine, edges, reachable, conflicts)'
    BY <1>1, <1>2, <2>1
  <2>3. Assigned'
    <3>1. Assigned
      BY <1>3 DEF Assigned, Registers68k!Sound, Registers68k!Conflict
    <3> QED BY <1>1, <3>1 DEF Assigned
  <2>4. (DOMAIN held = Registers68k!ToSet(Registers) \cup TempsOf(routine))'
    BY <1>1, RoutineOperators
  <2>5. point' = <<Entry, 1>> /\ Entry \in reachable' /\ A[Entry][1] = {}
        /\ 1 \in 1..(Len(routine'.ops[Entry]) + 1)
    BY <1>1, <2>2 DEF AllocInv, Needed, NeededIn
  <2>6. (\A b \in Node : routine.params[b] \in Seq(Int \ {NoTemp}))'
    BY <1>1 DEF AllocInv
  <2>7. Carried(A)'
    BY <2>2, <2>3, <2>4, <2>5, <2>6, NodeAssumption DEF Carried
  <2> QED BY <1>1, <1>2, <1>3, <2>7 DEF AllocInv
<1>4. CASE ~Registers68k!Sound
  BY <1>1, <1>2, <1>4 DEF AllocInv
<1> QED BY <1>3, <1>4

LEMMA RunKeeps ==
  AllocInv /\ (Registers68k!Execute \/ (\E c \in Registers68k!Targets(point[1]) : Registers68k!Follow(c))) => AllocInv'
<1> SUFFICES ASSUME AllocInv, Registers68k!Execute \/ (\E c \in Registers68k!Targets(point[1]) : Registers68k!Follow(c))
             PROVE  AllocInv'
  OBVIOUS
<1>1. phase = "running" /\ phase' = phase /\ UNCHANGED vars
  BY DEF Registers68k!Execute, Registers68k!Follow, Registers68k!vars, vars, Registers68k!graph, graph, Registers68k!tree, tree
<1>2. TreeInv' /\ Done'
  BY <1>1, TreeKept DEF AllocInv
<1>3. PICK A : Carried(A)
  BY <1>1 DEF AllocInv
<1>4. Carried(A)'
  BY <1>3, ExecuteCarries, FollowCarries
<1> QED BY <1>1, <1>2, <1>4 DEF AllocInv

LEMMA QuietKeeps == AllocInv /\ UNCHANGED <<vars, allocation>> => AllocInv'
<1> SUFFICES ASSUME AllocInv, UNCHANGED <<vars, allocation>> PROVE AllocInv'
  OBVIOUS
<1>1. TreeInv /\ TreeInv' /\ Done' = Done /\ reachable' = reachable /\ edges' = edges
  BY TreeKept DEF AllocInv
<1>2. UNCHANGED <<phase, routine, conflicts, registers, discarded, point, held>>
  BY DEF allocation
<1>3. Registers68k!WellFormed => Registers68k!WellFormed'
  BY <1>1, <1>2 DEF Registers68k!WellFormed, Registers68k!Temps, Registers68k!Defined, Registers68k!Params, Registers68k!Ops
<1>4. \A A : Carried(A) => Carried(A)'
  BY <1>1, <1>2 DEF Carried, Assigned, Registers68k!Home
<1> QED BY <1>1, <1>2, <1>3, <1>4 DEF AllocInv

LEMMA NextAllocation ==
  AllocInv /\ [(Next /\ UNCHANGED allocation) \/ Supply \/ Registers68k!AllocationNext]_<<vars, allocation>>
    => AllocInv'
  BY AnalysisKeeps, SupplyKeeps, AllocateKeeps, ChooseKeeps, FinishKeeps, RunKeeps, QuietKeeps
     DEF Registers68k!AllocationNext

(* For every routine with an argument for each parameter, on every graph,  *)
(* whatever registers there are: wherever it reads a value, the home the   *)
(* allocator gave the value still holds it.                                *)
THEOREM AllocationPreservesCorrect == AllocationSpec => []AllocationPreserves
<1>1. AllocInv => AllocationPreserves
  <2> SUFFICES ASSUME AllocInv, phase = "running",
                      NEW t \in Registers68k!Used(point[1], point[2]) \ discarded
               PROVE  t \in held[Registers68k!Home(t)]
    BY DEF AllocationPreserves, Registers68k!AllocationPreserves
  <2>1. PICK A : Carried(A)
    BY DEF AllocInv
  <2>2. t \in A[point[1]][point[2]]
    BY <2>1, RoutineOperators DEF Carried, Needed, NeededIn
  <2> QED BY <2>1, <2>2 DEF Carried
<1> QED BY InitAllocation, NextAllocation, <1>1, PTL DEF AllocationSpec

(* The run explores some of these behaviours.                              *)
LEMMA RunsAllocate == MCSpec => AllocationSpec
<1>1. MCInit => Init /\ Registers68k!AllocationInit
  BY DEF MCInit
<1>2. [MCNext]_<<vars, promotion, allocation>> =>
        [(Next /\ UNCHANGED allocation) \/ Supply \/ Registers68k!AllocationNext]_<<vars, allocation>>
  <2>1. AnyRoutine => Supply
    BY SMTT(60) DEF AnyRoutine, Supply
  <2>2. PromotionNext => Next \/ UNCHANGED vars
    BY DEF PromotionNext, Analyze, Enter, Admit, Place, BeginRenaming, Rename, Start, Step, Jump
  <2> QED BY <2>1, <2>2 DEF MCNext
<1> QED BY <1>1, <1>2, PTL DEF MCSpec, AllocationSpec
-----------------------------------------------------------------------------
(* Where the home is live, without the rounds of a solver: every set of    *)
(* blocks that holds n and is closed under edges out of blocks that do not *)
(* define the home has a block that uses it first.                         *)
Undisturbed(S) == \A e \in edges : e[1] \in S /\ ~DefinesIn(e[1]) => e[2] \in S
LiveBlocks == {n \in reachable : \A S \in SUBSET Node : n \in S /\ Undisturbed(S) => \E m \in S : UsedFirst(m)}

Near(S) == S \cup {e[2] : e \in {a \in edges : a[1] \in S /\ ~DefinesIn(a[1])}}
WalkStages(R, n) ==
  [k \in 0..Cardinality(Node) |-> IF k = 0 THEN {n} ELSE Near(R[k - 1])]

LEMMA WalkIs ==
  ASSUME TypeOK, NEW n \in Node
  PROVE  LET W == Walk(n, LAMBDA b : ~DefinesIn(b)) IN
         /\ n \in W /\ W \in SUBSET Node /\ Undisturbed(W)
         /\ \A S \in SUBSET Node : n \in S /\ Undisturbed(S) => W \subseteq S
<1> DEFINE N == Cardinality(Node)
           D == SUBSET Node
           F == [a \in (1..N) \X D |-> Near(a[2])]
           W == CHOOSE R : R = WalkStages(R, n)
<1>0. N \in Nat /\ IsFiniteSet(Node)
  BY NodeAssumption, FS_CardinalityType
<1>1. \A S \in D : Near(S) \in D /\ S \subseteq Near(S)
  BY DEF Near, TypeOK
<1>2. \A k \in 1..N, d \in D : F[<<k, d>>] = Near(d) /\ F[<<k, d>>] \in D
  BY <1>1
<1>3. {n} \in D
  OBVIOUS
<1> HIDE DEF F, D, N
<1>4. PICK f : Iteration(f, N, D, {n}, F)
  BY <1>0, <1>2, <1>3, Iterates
<1>5. f = WalkStages(f, n)
  <2>1. ASSUME NEW k \in 0..N
        PROVE  Stage(F, f, k, {n}) = IF k = 0 THEN {n} ELSE Near(f[k - 1])
    <3>1. CASE k = 0
      BY <3>1 DEF Stage
    <3>2. CASE k # 0
      <4>1. k \in 1..N /\ k - 1 \in 0..N
        BY <1>0, <3>2
      <4> QED BY <1>2, <1>4, <3>2, <4>1 DEF Stage, Iteration
    <3> QED BY <3>1, <3>2
  <2>2. [k \in 0..N |-> Stage(F, f, k, {n})] = WalkStages(f, n)
    BY <2>1 DEF WalkStages, N
  <2> QED BY <1>4, <2>2 DEF Iteration
<1>6. W = WalkStages(W, n)
  BY <1>5
<1>7. Walk(n, LAMBDA b : ~DefinesIn(b)) = W[N]
  BY DEF Walk, WalkStages, Near, N
<1> HIDE DEF W
<1>8. W[0] = {n} /\ \A k \in 1..N : W[k] = Near(W[k - 1])
  <2>1. \A k \in 0..N : W[k] = IF k = 0 THEN {n} ELSE Near(W[k - 1])
    BY <1>6 DEF WalkStages, N
  <2> QED BY <1>0, <2>1
<1>9. ASSUME NEW S \in D, n \in S, Undisturbed(S) PROVE W[N] \subseteq S
  <2> DEFINE T == {k \in 0..N : W[k] \subseteq S}
  <2>1. 0 \in T
    BY <1>0, <1>8, <1>9
  <2>2. ASSUME NEW k \in 1..N, k - 1 \in T PROVE k \in T
    <3>1. Near(W[k - 1]) \subseteq S
      BY <1>9, <2>2 DEF Near, Undisturbed
    <3> QED BY <1>0, <1>8, <3>1
  <2> HIDE DEF T
  <2>3. 0..N \subseteq T
    BY <1>0, <2>1, <2>2, UpTo
  <2>4. N \in T
    BY <1>0, <2>3
  <2> QED BY <2>4 DEF T
<1>10. ASSUME NEW k \in 0..N PROVE W[k] \in D /\ n \in W[k]
  <2> DEFINE T == {j \in 0..N : W[j] \in D /\ n \in W[j]}
  <2>1. 0 \in T
    BY <1>0, <1>3, <1>8
  <2>2. ASSUME NEW j \in 1..N, j - 1 \in T PROVE j \in T
    BY <1>0, <1>1, <1>8, <2>2
  <2> HIDE DEF T
  <2>3. 0..N \subseteq T
    BY <1>0, <2>1, <2>2, UpTo
  <2>4. k \in T
    BY <1>0, <2>3
  <2> QED BY <2>4 DEF T
<1>11. Near(W[N]) = W[N]
  <2> DEFINE G == [S \in SUBSET Node |-> Near(S)]
  <2>1. G \in [SUBSET Node -> SUBSET Node]
    BY <1>1 DEF D
  <2>2. \A P, Q \in SUBSET Node : P \subseteq Q => G[P] \subseteq G[Q]
    BY DEF Near
  <2>3. \A S \in SUBSET Node : G[S] = Near(S)
    OBVIOUS
  <2> HIDE DEF G
  <2>4. W[0] \in SUBSET Node /\ W[0] \subseteq G[W[0]]
    BY <1>0, <1>1, <1>10, <2>3 DEF D
  <2>5. \A k \in 1..N : W[k] = G[W[k - 1]]
    BY <1>0, <1>8, <1>10, <2>3 DEF D
  <2>6. G[W[N]] = W[N]
    BY <1>0, <2>1, <2>2, <2>4, <2>5, Saturates DEF N
  <2> QED BY <1>0, <1>10, <2>3, <2>6 DEF D
<1>12. Undisturbed(W[N])
  BY <1>11 DEF Near, Undisturbed
<1>13. N \in 0..N
  BY <1>0
<1> QED BY <1>7, <1>9, <1>10, <1>12, <1>13 DEF D

LEMMA LiveInIsLiveBlocks == TypeOK /\ reachable \subseteq Node => LiveIn = LiveBlocks
<1> SUFFICES ASSUME TypeOK, reachable \subseteq Node PROVE LiveIn = LiveBlocks
  OBVIOUS
<1>1. ASSUME NEW n \in reachable
      PROVE  (\E m \in Walk(n, LAMBDA b : ~DefinesIn(b)) : UsedFirst(m))
             <=> \A S \in SUBSET Node : n \in S /\ Undisturbed(S) => \E m \in S : UsedFirst(m)
  <2>1. PICK W : W = Walk(n, LAMBDA b : ~DefinesIn(b))
    OBVIOUS
  <2>2. /\ n \in W /\ W \in SUBSET Node /\ Undisturbed(W)
        /\ \A S \in SUBSET Node : n \in S /\ Undisturbed(S) => W \subseteq S
    BY <2>1, WalkIs
  <2>3. (\E m \in W : UsedFirst(m))
        <=> \A S \in SUBSET Node : n \in S /\ Undisturbed(S) => \E m \in S : UsedFirst(m)
    BY <2>2
  <2> QED BY <2>1, <2>3
<1> QED BY <1>1 DEF LiveIn, LiveBlocks

(* Live is where it is used first, and where it is not defined on the way  *)
(* to a block where it is live.                                            *)
LEMMA LiveFlows ==
  /\ \A n \in reachable : UsedFirst(n) => n \in LiveBlocks
  /\ \A n \in reachable, m \in LiveBlocks : <<n, m>> \in edges /\ ~DefinesIn(n) => n \in LiveBlocks
<1>1. \A n \in reachable : UsedFirst(n) => n \in LiveBlocks
  BY DEF LiveBlocks
<1>2. ASSUME NEW n \in reachable, NEW m \in LiveBlocks, <<n, m>> \in edges, ~DefinesIn(n)
      PROVE  n \in LiveBlocks
  <2>1. ASSUME NEW S \in SUBSET Node, n \in S, Undisturbed(S) PROVE \E k \in S : UsedFirst(k)
    <3>1. m \in S
      BY <1>2, <2>1 DEF Undisturbed
    <3> QED BY <2>1, <3>1 DEF LiveBlocks
  <2> QED BY <2>1 DEF LiveBlocks
<1> QED BY <1>1, <1>2
-----------------------------------------------------------------------------
(* A finite set of block ids has one largest element, and can be put in    *)
(* order; an order of the right length leaves none of them out.            *)
LEMMA LargestId ==
  ASSUME NEW S \in SUBSET Node, S # {}
  PROVE  \E x \in S : \A y \in S : y <= x
<1>1. IsFiniteSet(S) /\ S \subseteq Int
  BY NodeAssumption, FS_Subset
<1> DEFINE N == Cardinality(S)
           Above(x) == {y \in S : x <= y}
           T == {k \in Nat : \E x \in S : Cardinality(Above(x)) = k}
<1>2. \A x \in S : IsFiniteSet(Above(x)) /\ Cardinality(Above(x)) \in Nat
  BY <1>1, FS_Subset, FS_CardinalityType
<1>3. T \in SUBSET Nat /\ T # {}
  BY <1>2
<1>4. PICK k \in T : \A j \in T : k <= j
  BY <1>3, LeastNumber
<1>5. PICK x \in S : Cardinality(Above(x)) = k
  BY <1>4
<1>6. ASSUME NEW y \in S, ~(y <= x) PROVE FALSE
  <2>0. x \in Int /\ y \in Int /\ x < y
    BY <1>1, <1>6
  <2>1. Above(y) \subseteq Above(x) /\ x \in Above(x) /\ x \notin Above(y)
    <3>1. ASSUME NEW z \in Above(y) PROVE z \in Above(x)
      <4>1. z \in Int
        BY <1>1
      <4> QED BY <2>0, <4>1
    <3>2. Above(y) \subseteq Above(x)
      BY <3>1
    <3>3. x \in Above(x) /\ x \notin Above(y)
      BY <2>0
    <3> QED BY <3>2, <3>3
  <2>2. Cardinality(Above(y)) <= Cardinality(Above(x)) /\ Cardinality(Above(y)) # Cardinality(Above(x))
    BY <1>2, <2>1, FS_Subset
  <2>3. Cardinality(Above(y)) \in T
    BY <1>2
  <2>4. Cardinality(Above(y)) \in Nat /\ Cardinality(Above(x)) \in Nat
    BY <1>2
  <2>5. k <= Cardinality(Above(y))
    BY <1>4, <2>3
  <2> HIDE DEF Above, T
  <2> QED BY <1>5, <2>2, <2>4, <2>5
<1> QED BY <1>5, <1>6

InOrder(s, S) == s \in [1..Cardinality(S) -> S] /\ \A i, j \in 1..Cardinality(S) : i < j => s[i] < s[j]

LEMMA OrderExists ==
  ASSUME NEW S \in SUBSET Node
  PROVE  \E s : InOrder(s, S)
<1>1. IsFiniteSet(S) /\ Cardinality(S) \in Nat /\ IsFiniteSet(Node)
  BY NodeAssumption, FS_Subset, FS_CardinalityType
<1> DEFINE c == Cardinality(S)
           T == {k \in 0..c : \A Q \in SUBSET S : Cardinality(Q) = k => \E s : InOrder(s, Q)}
<1>2. 0 \in T
  <2> SUFFICES ASSUME NEW Q \in SUBSET S, Cardinality(Q) = 0 PROVE \E s : InOrder(s, Q)
    BY <1>1
  <2>1. Q = {}
    BY <1>1, FS_Subset, FS_EmptySet
  <2>2. InOrder([k \in 1..0 |-> k], Q)
    BY <2>1 DEF InOrder
  <2> QED BY <2>2
<1>3. ASSUME NEW k \in 1..c, k - 1 \in T PROVE k \in T
  <2> SUFFICES ASSUME NEW Q \in SUBSET S, Cardinality(Q) = k PROVE \E s : InOrder(s, Q)
    BY <1>1
  <2>1. IsFiniteSet(Q) /\ Q # {} /\ Q \subseteq Int
    <3>1. IsFiniteSet(Q) /\ Q \subseteq Int
      BY <1>1, NodeAssumption, FS_Subset
    <3>2. Q # {}
      BY <3>1, FS_EmptySet
    <3> QED BY <3>1, <3>2
  <2>2. PICK x \in Q : \A y \in Q : y <= x
    BY <2>1, LargestId, Q \in SUBSET Node
  <2> DEFINE P == Q \ {x}
  <2>3. P \in SUBSET S /\ Cardinality(P) = k - 1
    BY <2>1, FS_RemoveElement
  <2>4. PICK s : InOrder(s, P)
    BY <1>3, <2>3
  <2> DEFINE t == [i \in 1..k |-> IF i = k THEN x ELSE s[i]]
  <2>5. ASSUME NEW i \in 1..k, i # k PROVE i \in 1..(k - 1) /\ s[i] \in Q /\ s[i] < x
    <3>1. i \in 1..(k - 1)
      BY <1>1, <2>5
    <3>2. s[i] \in P
      BY <2>3, <2>4, <3>1 DEF InOrder
    <3>3. s[i] \in Int /\ x \in Int /\ s[i] <= x /\ s[i] # x
      BY <2>1, <2>2, <3>2
    <3> QED BY <3>1, <3>2, <3>3
  <2>6. t \in [1..k -> Q]
    BY <2>5
  <2>7. ASSUME NEW i \in 1..k, NEW j \in 1..k, i < j PROVE t[i] < t[j]
    <3>1. i # k /\ i \in 1..(k - 1)
      BY <1>1, <2>7
    <3>2. CASE j = k
      BY <2>5, <3>1, <3>2
    <3>3. CASE j # k
      <4>1. j \in 1..(k - 1)
        BY <2>5, <3>3
      <4>2. s[i] < s[j]
        BY <2>3, <2>4, <2>7, <3>1, <4>1 DEF InOrder
      <4> QED BY <3>1, <3>3, <4>2
    <3> QED BY <3>2, <3>3
  <2>8. InOrder(t, Q)
    <3> HIDE DEF t
    <3> QED BY <2>6, <2>7 DEF InOrder
  <2> QED BY <2>8
<1>4. c \in T
  <2> HIDE DEF T
  <2>1. 0..c \subseteq T
    BY <1>1, <1>2, <1>3, UpTo
  <2> QED BY <1>1, <2>1
<1> QED BY <1>4

LEMMA AscendingOrders ==
  ASSUME NEW S \in SUBSET Node
  PROVE  /\ Cardinality(S) \in Nat
         /\ Ascending(S) \in [1..Cardinality(S) -> S]
         /\ \A x \in S : \E k \in 1..Cardinality(S) : Ascending(S)[k] = x
<1>1. IsFiniteSet(S) /\ Cardinality(S) \in Nat /\ S \subseteq Int
  BY NodeAssumption, FS_Subset, FS_CardinalityType
<1>2. PICK s : InOrder(s, S)
  BY OrderExists
<1> DEFINE a == Ascending(S)
<1>3. a \in [1..Cardinality(S) -> S] /\ \A i, j \in DOMAIN a : i < j => a[i] < a[j]
  <2>1. s \in [1..Cardinality(S) -> S] /\ \A i, j \in DOMAIN s : i < j => s[i] < s[j]
    BY <1>2 DEF InOrder
  <2> QED BY <2>1 DEF Ascending
<1> HIDE DEF a
<1>4. a \in Injection(1..Cardinality(S), S)
  <2>1. ASSUME NEW i \in 1..Cardinality(S), NEW j \in 1..Cardinality(S), a[i] = a[j] PROVE i = j
    <3>1. a[i] \in Int /\ a[j] \in Int
      BY <1>1, <1>3
    <3>2. ~(a[i] < a[j]) /\ ~(a[j] < a[i])
      BY <2>1, <3>1
    <3>3. ~(i < j) /\ ~(j < i)
      BY <1>3, <3>2
    <3> QED BY <1>1, <3>3
  <2> QED BY <1>3, <2>1 DEF Injection, IsInjective
<1>5. Cardinality(1..Cardinality(S)) = Cardinality(S)
  BY <1>1, FS_Interval
<1>6. a \in Surjection(1..Cardinality(S), S)
  BY <1>1, <1>4, <1>5, FS_Injection
<1>7. \A x \in S : \E k \in 1..Cardinality(S) : a[k] = x
  BY <1>6 DEF Surjection
<1> QED BY <1>1, <1>3, <1>7 DEF a
-----------------------------------------------------------------------------
(* What a block becomes: each access to the home is replaced by at most a  *)
(* synchronizing store, one operation, and a reload.                       *)
Accesses == {"load", "store", "divide", "call", "region", "fault"}
Kinds == {"use", "name", "sync", "reload", "divide", "call", "region", "fault"}
Names ==
  {NoValue, Seed} \cup {<<"param", n>> : n \in Node}
    \cup {<<"value", a[1], a[2]>> : a \in Node \X Nat}
    \cup {<<"reload", a[1], a[2]>> : a \in Node \X Nat}
Operations == [kind : Kinds, value : Names]

LEMMA NamesHold ==
  /\ NoValue \in Names /\ Seed \in Names
  /\ \A n \in Node : <<"param", n>> \in Names
  /\ \A n \in Node, i \in Nat : <<"value", n, i>> \in Names /\ <<"reload", n, i>> \in Names
<1>1. ASSUME NEW n \in Node, NEW i \in Nat PROVE <<"value", n, i>> \in Names /\ <<"reload", n, i>> \in Names
  <2>1. PICK a \in Node \X Nat : a = <<n, i>>
    OBVIOUS
  <2>2. a[1] = n /\ a[2] = i
    BY <2>1
  <2> QED BY <2>2 DEF Names
<1> QED BY <1>1 DEF Names

Syncs(op) == Reads(op) \/ (op = "divide" /\ ~private)
Ahead(op) == IF Syncs(op) THEN 1 ELSE 0
Behind(op) == IF Writes(op) THEN 1 ELSE 0
Main(op, n, i, current) ==
  IF op = "load" THEN Operation("use", current)
  ELSE IF op = "store" THEN Operation("name", <<"value", n, i>>) ELSE Operation(op, NoValue)
Current(op, n, i, current) ==
  IF op = "store" THEN <<"value", n, i>> ELSE IF Writes(op) THEN <<"reload", n, i>> ELSE current

Snippet(s, op, n, i, current) ==
  /\ s \in Seq(Operations) /\ Len(s) = (Ahead(op) + 1) + Behind(op)
  /\ Ahead(op) = 1 => s[1] = Operation("sync", current)
  /\ s[Ahead(op) + 1] = Main(op, n, i, current)
  /\ Behind(op) = 1 => s[Ahead(op) + 2] = Operation("reload", <<"reload", n, i>>)

LEMMA Joined ==
  ASSUME NEW D, NEW s \in Seq(D), NEW t \in Seq(D)
  PROVE  /\ s \o t \in Seq(D) /\ Len(s \o t) = Len(s) + Len(t)
         /\ Len(s) \in Nat /\ Len(t) \in Nat
         /\ \A i \in 1..Len(s) : (s \o t)[i] = s[i]
         /\ \A i \in 1..Len(t) : (s \o t)[Len(s) + i] = t[i]
  OBVIOUS

LEMMA Surrounded ==
  ASSUME NEW D, NEW s \in Seq(D), NEW x \in D, NEW t \in Seq(D)
  PROVE  LET w == (s \o <<x>>) \o t IN
         /\ w \in Seq(D) /\ Len(w) = (Len(s) + 1) + Len(t)
         /\ \A i \in 1..Len(s) : w[i] = s[i]
         /\ w[Len(s) + 1] = x
         /\ \A i \in 1..Len(t) : w[(Len(s) + 1) + i] = t[i]
<1> DEFINE u == s \o <<x>>
           w == u \o t
<1>0. <<x>> \in Seq(D) /\ Len(<<x>>) = 1 /\ <<x>>[1] = x /\ 1 \in 1..1
  OBVIOUS
<1>1. /\ u \in Seq(D) /\ Len(u) = Len(s) + 1 /\ Len(s) \in Nat
      /\ \A i \in 1..Len(s) : u[i] = s[i]
      /\ u[Len(s) + 1] = x
  BY <1>0, Joined
<1> HIDE DEF u
<1>2. /\ w \in Seq(D) /\ Len(w) = Len(u) + Len(t) /\ Len(t) \in Nat
      /\ \A i \in 1..Len(u) : w[i] = u[i]
      /\ \A i \in 1..Len(t) : w[Len(u) + i] = t[i]
  <2>1. u \in Seq(D) /\ t \in Seq(D)
    BY <1>1
  <2> QED BY ONLY <2>1, Joined
<1> HIDE DEF w
<1>3. \A i \in 1..Len(s) : w[i] = s[i]
  BY <1>1, <1>2
<1>4. w[Len(s) + 1] = x
  BY <1>1, <1>2
<1> QED BY <1>1, <1>2, <1>3, <1>4 DEF w, u

LEMMA RewriteIs ==
  ASSUME NEW op \in Accesses, NEW n \in Node, NEW i \in Nat, NEW current \in Names
  PROVE  LET r == Rewrite(n, op, i, current) IN
         /\ r = [code |-> r.code, current |-> Current(op, n, i, current)]
         /\ r.current = Current(op, n, i, current) /\ r.current \in Names
         /\ Snippet(r.code, op, n, i, current)
<1> DEFINE r == Rewrite(n, op, i, current)
           sync == Operation("sync", current)
           kept == Operation(op, NoValue)
           reload == Operation("reload", <<"reload", n, i>>)
<1>1. /\ current \in Names /\ NoValue \in Names
      /\ <<"value", n, i>> \in Names /\ <<"reload", n, i>> \in Names
  BY NamesHold
<1>2. sync \in Operations /\ reload \in Operations
  BY <1>1 DEF Operation, Operations, Kinds
<1> HIDE DEF Names
<1>3. CASE op = "load"
  <2>1. r = [code |-> <<Operation("use", current)>>, current |-> current]
    BY <1>3 DEF Rewrite
  <2>2. ~Reads(op) /\ ~Writes(op) /\ ~Syncs(op)
    BY <1>3 DEF Reads, Writes, Syncs
  <2>3. Operation("use", current) \in Operations
    BY <1>1 DEF Operation, Operations, Kinds
  <2>4. r.code = <<Operation("use", current)>> /\ r.current = current
    BY <2>1
  <2>5. Current(op, n, i, current) = current /\ Main(op, n, i, current) = Operation("use", current)
        /\ Ahead(op) = 0 /\ Behind(op) = 0
    BY <1>3, <2>2 DEF Current, Main, Ahead, Behind
  <2> HIDE DEF r
  <2>6. Snippet(r.code, op, n, i, current)
    BY <2>3, <2>4, <2>5 DEF Snippet
  <2> QED BY <1>1, <2>1, <2>4, <2>5, <2>6 DEF r
<1>4. CASE op = "store"
  <2>1. r = [code |-> <<Operation("name", <<"value", n, i>>)>>, current |-> <<"value", n, i>>]
    BY <1>4 DEF Rewrite
  <2>2. ~Reads(op) /\ ~Writes(op) /\ ~Syncs(op)
    BY <1>4 DEF Reads, Writes, Syncs
  <2>3. Operation("name", <<"value", n, i>>) \in Operations
    BY <1>1 DEF Operation, Operations, Kinds
  <2>4. r.code = <<Operation("name", <<"value", n, i>>)>> /\ r.current = <<"value", n, i>>
    BY <2>1
  <2>5. Current(op, n, i, current) = <<"value", n, i>>
        /\ Main(op, n, i, current) = Operation("name", <<"value", n, i>>)
        /\ Ahead(op) = 0 /\ Behind(op) = 0
    BY <1>4, <2>2 DEF Current, Main, Ahead, Behind
  <2> HIDE DEF r
  <2>6. Snippet(r.code, op, n, i, current)
    BY <2>3, <2>4, <2>5 DEF Snippet
  <2> QED BY <1>1, <2>1, <2>4, <2>5, <2>6 DEF r
<1>5. CASE op \notin {"load", "store"}
  <2>1. kept \in Operations
    BY <1>1, <1>5 DEF Operation, Operations, Kinds, Accesses
  <2>2. r.code = ((IF Syncs(op) THEN <<sync>> ELSE <<>>) \o <<kept>>) \o (IF Writes(op) THEN <<reload>> ELSE <<>>)
        /\ r.current = Current(op, n, i, current)
        /\ r = [code |-> r.code, current |-> Current(op, n, i, current)]
    <3>1. CASE op = "divide"
      <4>1. ~Reads(op) /\ ~Writes(op) /\ (Syncs(op) <=> ~private)
        BY <3>1 DEF Reads, Writes, Syncs
      <4>2. r = [code |-> (IF private THEN <<>> ELSE Sync(current)) \o Kept(op), current |-> current]
        BY <3>1 DEF Rewrite
      <4>3. Sync(current) = <<sync>> /\ Kept(op) = <<kept>>
        BY DEF Sync, Kept
      <4> HIDE DEF sync, kept, r, reload
      <4>4. \A s \in Seq(Operations) : s \o <<>> = s
        OBVIOUS
      <4>5. (IF private THEN <<>> ELSE <<sync>>) \o <<kept>> \in Seq(Operations)
        BY <1>2, <2>1
      <4> QED BY <3>1, <4>1, <4>2, <4>3, <4>4, <4>5 DEF Current
    <3>2. CASE op # "divide"
      <4>1. Syncs(op) <=> Reads(op)
        BY <3>2 DEF Syncs
      <4>2. r = LET before == IF Reads(op) THEN Sync(current) ELSE <<>>
                    name == <<"reload", n, i>>
                IN IF Writes(op)
                     THEN [code |-> before \o Kept(op) \o <<Operation("reload", name)>>, current |-> name]
                     ELSE [code |-> before \o Kept(op), current |-> current]
        BY <1>5, <3>2 DEF Rewrite
      <4>3. Sync(current) = <<sync>> /\ Kept(op) = <<kept>>
        BY DEF Sync, Kept
      <4>4. \A s \in Seq(Operations) : s \o <<>> = s
        OBVIOUS
      <4> HIDE DEF sync, kept, r
      <4>5. (IF Syncs(op) THEN <<sync>> ELSE <<>>) \o <<kept>> \in Seq(Operations)
        BY <1>2, <2>1
      <4> QED BY <1>5, <4>1, <4>2, <4>3, <4>4, <4>5 DEF Current
    <3> QED BY <3>1, <3>2
  <2>3. Main(op, n, i, current) = kept
    BY <1>5 DEF Main
  <2>4. Current(op, n, i, current) \in Names
    BY <1>1 DEF Current
  <2> HIDE DEF sync, kept, r, reload
  <2>5. Snippet(r.code, op, n, i, current)
    <3> DEFINE before == IF Syncs(op) THEN <<sync>> ELSE <<>>
               after == IF Writes(op) THEN <<reload>> ELSE <<>>
    <3>1. /\ before \in Seq(Operations) /\ Len(before) = Ahead(op) /\ Ahead(op) \in {0, 1}
          /\ Ahead(op) = 1 => before[1] = sync
      BY <1>2 DEF Ahead
    <3>2. /\ after \in Seq(Operations) /\ Len(after) = Behind(op) /\ Behind(op) \in {0, 1}
          /\ Behind(op) = 1 => after[1] = reload
      BY <1>2 DEF Behind
    <3>3. r.code = (before \o <<kept>>) \o after
      BY <2>2
    <3> HIDE DEF before, after
    <3>4. /\ r.code \in Seq(Operations) /\ Len(r.code) = (Ahead(op) + 1) + Behind(op)
          /\ \A k \in 1..Ahead(op) : r.code[k] = before[k]
          /\ r.code[Ahead(op) + 1] = kept
          /\ \A k \in 1..Behind(op) : r.code[(Ahead(op) + 1) + k] = after[k]
      BY <2>1, <3>1, <3>2, <3>3, Surrounded, SMTT(60)
    <3>5. Ahead(op) = 1 => r.code[1] = sync
      BY <3>1, <3>4
    <3>6. Behind(op) = 1 => r.code[Ahead(op) + 2] = reload
      <4>1. Behind(op) = 1 => (Ahead(op) + 1) + 1 = Ahead(op) + 2 /\ 1 \in 1..Behind(op)
        BY <3>1
      <4> QED BY <3>2, <3>4, <4>1
    <3> QED BY <2>3, <3>4, <3>5, <3>6 DEF Snippet, sync, reload
  <2> QED BY <2>2, <2>4, <2>5 DEF r
<1> QED BY <1>3, <1>4, <1>5
-----------------------------------------------------------------------------
(* The renaming of block n, operation by operation, from the value v it    *)
(* inherits.                                                               *)
First(n, v) ==
  [code |-> IF n = Entry /\ NeedsEntryValue THEN <<Operation("reload", Seed)>> ELSE <<>>,
   current |-> IF n \in params THEN <<"param", n>> ELSE v,
   legal |-> TRUE]
AndThen(n, done, i) ==
  LET r == Rewrite(n, code[n][i], i, done.current) IN
  [code |-> done.code \o r.code, current |-> r.current,
   legal |-> done.legal /\ (MustHold(code[n][i]) => done.current # NoValue)]
Traced(d, n, v) ==
  d = [i \in 0..Len(code[n]) |-> IF i = 0 THEN First(n, v) ELSE AndThen(n, d[i - 1], i)]
Renamings == [code : Seq(Operations), current : Names, legal : BOOLEAN]

LEMMA FirstType ==
  ASSUME NEW n \in Node, NEW v \in Names
  PROVE  /\ First(n, v) \in Renamings
         /\ First(n, v).code = IF n = Entry /\ NeedsEntryValue THEN <<Operation("reload", Seed)>> ELSE <<>>
         /\ First(n, v).current = IF n \in params THEN <<"param", n>> ELSE v
<1>1. Operation("reload", Seed) \in Operations /\ <<"param", n>> \in Names
  BY NamesHold DEF Operation, Operations, Kinds
<1>2. <<Operation("reload", Seed)>> \in Seq(Operations) /\ <<>> \in Seq(Operations)
  BY <1>1
<1> QED BY <1>1, <1>2 DEF First, Renamings

LEMMA AndThenType ==
  ASSUME NEW n \in Node, code[n] \in Seq(Accesses), NEW done \in Renamings, NEW i \in 1..Len(code[n])
  PROVE  LET op == code[n][i]
             after == AndThen(n, done, i) IN
         /\ after \in Renamings
         /\ after.current = Current(op, n, i, done.current)
         /\ \E s \in Seq(Operations) : Snippet(s, op, n, i, done.current) /\ after.code = done.code \o s
<1> DEFINE op == code[n][i]
           r == Rewrite(n, op, i, done.current)
           after == AndThen(n, done, i)
<1>1. op \in Accesses /\ i \in Nat /\ done.current \in Names /\ done.code \in Seq(Operations) /\ done.legal \in BOOLEAN
  BY DEF Renamings
<1>2. r.current = Current(op, n, i, done.current) /\ r.current \in Names
      /\ Snippet(r.code, op, n, i, done.current)
  BY <1>1, RewriteIs
<1>3. after = [code |-> done.code \o r.code, current |-> r.current,
               legal |-> done.legal /\ (MustHold(op) => done.current # NoValue)]
  BY DEF AndThen
<1> HIDE DEF op, r, after
<1>4. r.code \in Seq(Operations)
  BY <1>2 DEF Snippet
<1>5. done.code \o r.code \in Seq(Operations)
  BY <1>1, <1>4, Joined
<1>6. after.current = r.current /\ after.code = done.code \o r.code /\ after \in Renamings
  BY <1>1, <1>2, <1>3, <1>5 DEF Renamings
<1>7. \E s \in Seq(Operations) : Snippet(s, op, n, i, done.current) /\ after.code = done.code \o s
  BY <1>2, <1>4, <1>6
<1> QED BY <1>2, <1>6, <1>7 DEF op, r, after

LEMMA RenamingTraced ==
  ASSUME NEW n \in Node, NEW v \in Names, code[n] \in Seq(Accesses)
  PROVE  \E d : Traced(d, n, v) /\ Renaming(n, v) = d[Len(code[n])]
<1> DEFINE L == Len(code[n])
           F == [a \in (1..L) \X Renamings |-> AndThen(n, a[2], a[1])]
           x == First(n, v)
           R == CHOOSE d : Traced(d, n, v)
<1>1. L \in Nat
  OBVIOUS
<1>2. x \in Renamings
  BY FirstType
<1>3. \A k \in 1..L, y \in Renamings : F[<<k, y>>] = AndThen(n, y, k) /\ F[<<k, y>>] \in Renamings
  BY AndThenType
<1> HIDE DEF F, x, L
<1>4. PICK f : Iteration(f, L, Renamings, x, F)
  BY <1>1, <1>2, <1>3, Iterates
<1>5. Traced(f, n, v)
  <2>1. ASSUME NEW k \in 0..L
        PROVE  Stage(F, f, k, x) = IF k = 0 THEN First(n, v) ELSE AndThen(n, f[k - 1], k)
    <3>1. CASE k = 0
      BY <3>1 DEF Stage, x
    <3>2. CASE k # 0
      <4>1. k \in 1..L /\ k - 1 \in 0..L
        BY <1>1, <3>2
      <4> QED BY <1>3, <1>4, <3>2, <4>1 DEF Stage, Iteration
    <3> QED BY <3>1, <3>2
  <2>2. [k \in 0..L |-> Stage(F, f, k, x)]
          = [k \in 0..Len(code[n]) |-> IF k = 0 THEN First(n, v) ELSE AndThen(n, f[k - 1], k)]
    BY <2>1 DEF L
  <2> QED BY <1>4, <2>2 DEF Iteration, Traced
<1>6. Traced(R, n, v)
  BY <1>5
<1>7. Renaming(n, v) = R[Len(code[n])]
  BY DEF Renaming, Traced, First, AndThen
<1> QED BY <1>6, <1>7

LEMMA TraceTypes ==
  ASSUME NEW n \in Node, NEW v \in Names, code[n] \in Seq(Accesses), NEW d, Traced(d, n, v)
  PROVE  /\ Len(code[n]) \in Nat
         /\ d[0] = First(n, v)
         /\ \A i \in 1..Len(code[n]) : d[i] = AndThen(n, d[i - 1], i)
         /\ \A i \in 0..Len(code[n]) : d[i] \in Renamings
<1> DEFINE L == Len(code[n])
<1>1. L \in Nat
  OBVIOUS
<1>2. \A i \in 0..L : d[i] = IF i = 0 THEN First(n, v) ELSE AndThen(n, d[i - 1], i)
  <2>1. PICK g : g = d
    OBVIOUS
  <2>2. d = [i \in 0..L |-> IF i = 0 THEN First(n, v) ELSE AndThen(n, g[i - 1], i)]
    BY <2>1 DEF Traced
  <2> QED BY <2>1, <2>2
<1> DEFINE T == {i \in 0..L : d[i] \in Renamings}
<1>3. 0 \in T
  <2>1. d[0] = First(n, v)
    BY <1>1, <1>2
  <2>2. d[0] \in Renamings
    BY <2>1, FirstType
  <2> QED BY <1>1, <2>2
<1>4. ASSUME NEW k \in 1..L, k - 1 \in T PROVE k \in T
  <2>1. d[k] = AndThen(n, d[k - 1], k) /\ d[k - 1] \in Renamings
    BY <1>1, <1>2, <1>4
  <2>2. d[k] \in Renamings
    BY <2>1, AndThenType
  <2> QED BY <1>1, <2>2
<1>5. 0..L \subseteq T
  <2> HIDE DEF T, L
  <2> QED BY <1>1, <1>3, <1>4, UpTo
<1> HIDE DEF L
<1>6. d[0] = First(n, v) /\ \A i \in 1..L : d[i] = AndThen(n, d[i - 1], i)
  BY <1>1, <1>2
<1> QED BY <1>1, <1>5, <1>6 DEF L

LEMMA TraceUnique ==
  ASSUME NEW n \in Node, NEW v \in Names, code[n] \in Seq(Accesses),
         NEW d, Traced(d, n, v), NEW e, Traced(e, n, v)
  PROVE  d = e
<1> DEFINE L == Len(code[n])
           T == {i \in 0..L : d[i] = e[i]}
<1>1. L \in Nat /\ d[0] = e[0]
      /\ \A i \in 1..L : d[i] = AndThen(n, d[i - 1], i) /\ e[i] = AndThen(n, e[i - 1], i)
  BY TraceTypes
<1>2. 0..L \subseteq T
  <2>1. 0 \in T
    BY <1>1
  <2>2. ASSUME NEW k \in 1..L, k - 1 \in T PROVE k \in T
    BY <1>1, <2>2
  <2> HIDE DEF T, L
  <2> QED BY <1>1, <2>1, <2>2, UpTo
<1>3. d = [i \in 0..L |-> d[i]] /\ e = [i \in 0..L |-> e[i]]
  BY DEF Traced
<1>4. [i \in 0..L |-> d[i]] = [i \in 0..L |-> e[i]]
  BY <1>2
<1> QED BY <1>3, <1>4

LEMMA TracePrefix ==
  ASSUME NEW n \in Node, NEW v \in Names, code[n] \in Seq(Accesses), NEW d, Traced(d, n, v),
         NEW i \in 0..Len(code[n])
  PROVE  LET whole == d[Len(code[n])].code IN
         /\ d[i].code \in Seq(Operations) /\ whole \in Seq(Operations)
         /\ Len(d[i].code) \in Nat /\ Len(whole) \in Nat /\ Len(d[i].code) <= Len(whole)
         /\ \A j \in 1..Len(d[i].code) : whole[j] = d[i].code[j]
<1> DEFINE L == Len(code[n])
           Extends(s, t) == Len(s) <= Len(t) /\ \A j \in 1..Len(s) : t[j] = s[j]
           T == {k \in 0..(L - i) : Extends(d[i].code, d[i + k].code)}
<1>1. L \in Nat /\ L - i \in Nat /\ i \in Nat /\ i + (L - i) = L
  BY TraceTypes
<1>2. ASSUME NEW k \in 0..L PROVE d[k].code \in Seq(Operations) /\ Len(d[k].code) \in Nat
  <2>1. d[k].code \in Seq(Operations)
    BY TraceTypes DEF Renamings
  <2> QED BY <2>1
<1>3. 0 \in T
  BY <1>1, <1>2
<1>4. ASSUME NEW k \in 1..(L - i), k - 1 \in T PROVE k \in T
  <2> DEFINE m == i + k
  <2>1. m \in 1..L /\ m - 1 \in 0..L /\ m \in 0..L /\ m - 1 = i + (k - 1)
    BY <1>1
  <2>2. d[m] = AndThen(n, d[m - 1], m) /\ d[m - 1] \in Renamings
    BY <2>1, TraceTypes
  <2>3. PICK s \in Seq(Operations) : d[m].code = d[m - 1].code \o s
    <3>1. \E s \in Seq(Operations) : AndThen(n, d[m - 1], m).code = d[m - 1].code \o s
      BY <2>1, <2>2, AndThenType
    <3> QED BY <2>2, <3>1
  <2>4. Len(d[m - 1].code) <= Len(d[m].code) /\ \A j \in 1..Len(d[m - 1].code) : d[m].code[j] = d[m - 1].code[j]
    BY <1>2, <2>1, <2>3, Joined, SMTT(60)
  <2>5. Extends(d[i].code, d[m - 1].code)
    BY <1>4, <2>1
  <2>6. Extends(d[i].code, d[m].code)
    <3>1. /\ Len(d[i].code) \in Nat /\ Len(d[m - 1].code) \in Nat /\ Len(d[m].code) \in Nat
          /\ Len(d[i].code) <= Len(d[m - 1].code) /\ Len(d[m - 1].code) <= Len(d[m].code)
      BY <1>1, <1>2, <2>1, <2>4, <2>5
    <3>2. ASSUME NEW j \in 1..Len(d[i].code) PROVE d[m].code[j] = d[i].code[j]
      <4>1. j \in 1..Len(d[m - 1].code)
        BY <3>1
      <4>2. d[m].code[j] = d[m - 1].code[j] /\ d[m - 1].code[j] = d[i].code[j]
        BY <2>4, <2>5, <4>1
      <4> QED BY <4>2
    <3>3. Len(d[i].code) <= Len(d[m].code)
      <4>1. ASSUME NEW a \in Nat, NEW b \in Nat, NEW c \in Nat, a <= b, b <= c PROVE a <= c
        BY <4>1
      <4> QED BY ONLY <3>1, <4>1
    <3> QED BY <3>2, <3>3
  <2> HIDE DEF Extends
  <2> QED BY <2>6
<1>5. L - i \in T
  <2> HIDE DEF T, L
  <2>1. 0..(L - i) \subseteq T
    BY <1>1, <1>3, <1>4, UpTo
  <2> QED BY <1>1, <2>1
<1>6. Extends(d[i].code, d[L].code)
  BY <1>1, <1>5
<1>7. L \in 0..L
  BY <1>1
<1> QED BY <1>2, <1>6, <1>7

(* Where the operations that stand for access i of the block are found.    *)
LEMMA TraceOperations ==
  ASSUME NEW n \in Node, NEW v \in Names, code[n] \in Seq(Accesses), NEW d, Traced(d, n, v),
         NEW i \in 1..Len(code[n])
  PROVE  LET whole == d[Len(code[n])].code
             op == code[n][i]
             p == Len(d[i - 1].code) IN
         /\ p \in Nat /\ op \in Accesses /\ i - 1 \in 0..Len(code[n]) /\ i \in 0..Len(code[n])
         /\ Len(d[i].code) = (p + (Ahead(op) + 1)) + Behind(op) /\ Len(d[i].code) <= Len(whole)
         /\ Len(whole) \in Nat
         /\ d[i].current = Current(op, n, i, d[i - 1].current)
         /\ Syncs(op) => whole[p + 1] = Operation("sync", d[i - 1].current)
         /\ whole[p + (Ahead(op) + 1)] = Main(op, n, i, d[i - 1].current)
         /\ Writes(op) => whole[p + (Ahead(op) + 2)] = Operation("reload", <<"reload", n, i>>)
<1> DEFINE L == Len(code[n])
           op == code[n][i]
           p == Len(d[i - 1].code)
           c == d[i - 1].current
<1>1. /\ op \in Accesses /\ i - 1 \in 0..L /\ i \in 0..L /\ L \in Nat
      /\ d[i] = AndThen(n, d[i - 1], i) /\ d[i - 1] \in Renamings
  BY TraceTypes
<1>2. PICK s \in Seq(Operations) : Snippet(s, op, n, i, c) /\ d[i].code = d[i - 1].code \o s
  <2>1. \E s \in Seq(Operations) :
          Snippet(s, code[n][i], n, i, d[i - 1].current) /\ AndThen(n, d[i - 1], i).code = d[i - 1].code \o s
    BY <1>1, AndThenType
  <2> QED BY <1>1, <2>1
<1>3. d[i].current = Current(op, n, i, c)
  BY <1>1, AndThenType, SMTT(60)
<1>4. /\ d[i].code \in Seq(Operations) /\ Len(d[i].code) <= Len(d[L].code) /\ Len(d[L].code) \in Nat
      /\ \A j \in 1..Len(d[i].code) : d[L].code[j] = d[i].code[j]
      /\ d[i - 1].code \in Seq(Operations) /\ p \in Nat
  BY <1>1, TracePrefix, SMTT(60)
<1>5. s \in Seq(Operations) /\ Len(s) = (Ahead(op) + 1) + Behind(op)
      /\ Ahead(op) \in {0, 1} /\ Behind(op) \in {0, 1}
  BY <1>2 DEF Snippet, Ahead, Behind
<1>6. Len(d[i].code) = p + Len(s) /\ \A j \in 1..Len(s) : d[i].code[p + j] = s[j]
  BY <1>2, <1>4, <1>5, Joined
<1> HIDE DEF op, p, c, L
<1>7. ASSUME NEW j \in 1..Len(s) PROVE d[L].code[p + j] = s[j]
  <2>1. p + j \in 1..Len(d[i].code)
    BY <1>4, <1>5, <1>6
  <2> QED BY <1>4, <1>6, <2>1
<1>8. Syncs(op) => d[L].code[p + 1] = Operation("sync", c)
  <2> SUFFICES ASSUME Syncs(op) PROVE d[L].code[p + 1] = Operation("sync", c)
    OBVIOUS
  <2>1. Ahead(op) = 1 /\ 1 \in 1..Len(s)
    BY <1>5 DEF Ahead
  <2> QED BY <1>2, <1>7, <2>1 DEF Snippet
<1>9. d[L].code[p + (Ahead(op) + 1)] = Main(op, n, i, c)
  <2>1. Ahead(op) + 1 \in 1..Len(s)
    BY <1>5
  <2> QED BY <1>2, <1>7, <2>1 DEF Snippet
<1>10. Writes(op) => d[L].code[p + (Ahead(op) + 2)] = Operation("reload", <<"reload", n, i>>)
  <2> SUFFICES ASSUME Writes(op) PROVE d[L].code[p + (Ahead(op) + 2)] = Operation("reload", <<"reload", n, i>>)
    OBVIOUS
  <2>1. Behind(op) = 1 /\ Ahead(op) + 2 \in 1..Len(s)
    BY <1>5 DEF Behind
  <2> QED BY <1>2, <1>7, <2>1 DEF Snippet
<1>11. Len(d[i].code) = (p + (Ahead(op) + 1)) + Behind(op)
  BY <1>4, <1>5, <1>6
<1> QED BY <1>1, <1>3, <1>4, <1>8, <1>9, <1>10, <1>11 DEF op, p, c, L
-----------------------------------------------------------------------------
(* A routine that promotion works on, and where its parameters are once    *)
(* every definition, and every parameter, has had its frontier visited.    *)
Shaped ==
  /\ TreeInv /\ Done /\ reachable = Node /\ Predecessors(Entry) = {}
  /\ code \in [Node -> Seq(Accesses)]
Visited(n) == frontier[n] \cap LiveBlocks \subseteq params
Ready ==
  /\ Shaped /\ params \in SUBSET Node /\ Entry \notin params
  /\ \A n \in Definitions \cup params : Visited(n)

LEMMA ShapedFacts ==
  Shaped =>
    /\ Final /\ TypeOK /\ FrontiersExact /\ edges \in SUBSET (Node \X Node)
    /\ LiveIn = LiveBlocks
    /\ NeedsEntryValue <=> Entry \in LiveBlocks
    /\ Definitions = {n \in Node : DefinesIn(n)} \cup (IF Entry \in LiveBlocks THEN {Entry} ELSE {})
    /\ parent = [n \in Node |-> Parent(n)]
<1> SUFFICES ASSUME Shaped
             PROVE  /\ Final /\ TypeOK /\ FrontiersExact /\ edges \in SUBSET (Node \X Node)
                    /\ LiveIn = LiveBlocks
                    /\ NeedsEntryValue <=> Entry \in LiveBlocks
                    /\ Definitions = {n \in Node : DefinesIn(n)} \cup (IF Entry \in LiveBlocks THEN {Entry} ELSE {})
                    /\ parent = [n \in Node |-> Parent(n)]
  OBVIOUS
<1>1. TypeOK /\ FrontiersExact /\ edges \in SUBSET (Node \X Node)
  BY TreeExact DEF Shaped, TreeInv, IInv, TypeOK
<1>2. Final /\ parent = [n \in Node |-> Parent(n)]
  BY <1>1 DEF Shaped, TreeInv, TreeMade, Final, Sealed
<1>3. LiveIn = LiveBlocks
  BY <1>1, LiveInIsLiveBlocks DEF Shaped
<1>4. NeedsEntryValue <=> Entry \in LiveBlocks
  BY <1>3 DEF NeedsEntryValue
<1>5. Definitions = {n \in Node : DefinesIn(n)} \cup (IF Entry \in LiveBlocks THEN {Entry} ELSE {})
  BY <1>4 DEF Definitions, Shaped
<1> QED BY <1>1, <1>2, <1>3, <1>4, <1>5

LEMMA ShapedKept ==
  ASSUME Shaped, UNCHANGED <<vars, home>>
  PROVE  /\ Shaped'
         /\ LiveBlocks' = LiveBlocks /\ LiveIn' = LiveIn
         /\ NeedsEntryValue' = NeedsEntryValue /\ Definitions' = Definitions
         /\ UNCHANGED <<edges, reachable, dominators, parent, frontier, code, private>>
<1>1. TreeInv' /\ Done' = Done /\ UNCHANGED <<edges, reachable, dominators, parent, frontier, code, private>>
  BY TreeKept DEF Shaped, vars, graph, tree, home
<1>2. Predecessors(Entry)' = Predecessors(Entry)
  BY <1>1 DEF Predecessors
<1>3. Shaped'
  BY <1>1, <1>2 DEF Shaped
<1>4. \A n : DefinesIn(n)' = DefinesIn(n) /\ UsedFirst(n)' = UsedFirst(n)
  BY <1>1 DEF DefinesIn, UsedFirst, Defines, Uses, Writes, Reads
<1>5. LiveBlocks' = LiveBlocks
  BY <1>1, <1>4 DEF LiveBlocks, Undisturbed
<1>7. (LiveIn = LiveBlocks)' /\ (NeedsEntryValue <=> Entry \in LiveBlocks)'
      /\ (Definitions = {n \in Node : DefinesIn(n)} \cup (IF Entry \in LiveBlocks THEN {Entry} ELSE {}))'
  BY <1>3, ShapedFacts, PTL
<1>8. LiveIn = LiveBlocks /\ (NeedsEntryValue <=> Entry \in LiveBlocks)
      /\ Definitions = {n \in Node : DefinesIn(n)} \cup (IF Entry \in LiveBlocks THEN {Entry} ELSE {})
  BY ShapedFacts
<1> QED BY <1>1, <1>3, <1>4, <1>5, <1>7, <1>8 DEF NeedsEntryValue

(* A value passed down the tree by the blocks that neither define the home *)
(* nor have a parameter for it reaches a block without a parameter where   *)
(* the home is live the same along every edge: the edge's source is the    *)
(* immediate dominator, or inherits what that passes.                      *)
LEMMA PassedDown ==
  ASSUME Ready, NEW b \in Node, NEW m \in LiveBlocks, <<b, m>> \in edges, m \notin params, NEW A,
         \A x \in Node \ {Entry} : x \notin Definitions \cup params => \A y \in parent[x] : A[x] = A[y]
  PROVE  /\ m \in Node \ {Entry}
         /\ \A y \in parent[m] : A[b] = A[y]
<1>0. /\ Final /\ reachable = Node /\ parent = [n \in Node |-> Parent(n)] /\ FrontiersExact
      /\ edges \in SUBSET (Node \X Node) /\ Predecessors(Entry) = {}
      /\ Done
  BY ShapedFacts DEF Ready, Shaped
<1>1. m \in Node /\ b \in Predecessors(m) /\ m # Entry
  BY <1>0 DEF Predecessors, LiveBlocks
<1>2. PICK i \in Strict(m) : Parent(m) = {i} /\ \A d \in Strict(m) : d \in dominators[i]
  BY <1>0, <1>1, ParentUnique
<1>3. i \in dominators[b] /\ i \in Node /\ i \in dominators[m] /\ i # m /\ b \in reachable
  BY <1>0, <1>1, <1>2, StrictAtPredecessors, DominatorLive DEF Strict
<1>4. ASSUME NEW x \in dominators[b], x \notin Strict(m)
      PROVE  /\ x \in Node \ {Entry} /\ \A y \in parent[x] : A[x] = A[y]
             /\ \E y \in Strict(x) : parent[x] = {y} /\ y \in dominators[b] /\ (y \in Strict(m) => y = i)
  <2>1. x \in Node /\ x # Entry /\ x \in reachable
    <3>1. x \in Node
      BY <1>0, <1>3, DominatorLive
    <3>2. Entry \in Strict(m)
      BY <1>0, <1>1, EntryDominates DEF Strict
    <3> QED BY <1>0, <1>4, <3>1, <3>2
  <2>2. m \in frontier[x]
    BY <1>0, <1>1, <1>4, <2>1 DEF FrontiersExact
  <2>3. x \notin Definitions \cup params
    BY <1>1, <2>2 DEF Ready, Visited
  <2>4. PICK y \in Strict(x) : Parent(x) = {y} /\ \A d \in Strict(x) : d \in dominators[y]
    BY <1>0, <2>1, ParentUnique
  <2>5. parent[x] = {y} /\ y \in dominators[x] /\ y \in dominators[b]
    BY <1>0, <1>3, <2>1, <2>4, DominanceTransitive DEF Strict
  <2>6. ASSUME y \in Strict(m) PROVE y = i
    <3>1. y \in dominators[i]
      BY <1>2, <2>6
    <3>2. x \notin dominators[i]
      <4>1. SUFFICES ASSUME x \in dominators[i] PROVE FALSE
        OBVIOUS
      <4>2. x \in dominators[m]
        BY <1>0, <1>1, <1>3, <4>1, DominanceTransitive
      <4>3. x = m
        BY <1>4, <4>2 DEF Strict
      <4>4. m \in reachable /\ i \in dominators[m] /\ m \in dominators[i] /\ i # m
        BY <1>0, <1>1, <1>3, <4>1, <4>3
      <4> QED BY <1>0, <4>4, DominanceAntisymmetric
    <3>3. i \in dominators[x]
      BY <1>0, <1>3, <3>2, DominanceTotal
    <3>4. i \in Strict(x)
      BY <1>2, <1>4, <3>3 DEF Strict
    <3>5. i \in dominators[y]
      BY <2>4, <3>4
    <3> QED BY <1>0, <1>3, <3>1, <3>5, DominanceAntisymmetric
  <2> QED BY <2>1, <2>3, <2>4, <2>5, <2>6
<1>5. ASSUME NEW x \in dominators[b], x \notin Strict(m) PROVE A[x] = A[i]
  <2> DEFINE U == {x0 \in dominators[b] : x0 \notin Strict(m) /\ A[x0] # A[i]}
             T == {k \in Nat : \E x0 \in U : Depth(x0) = k}
  <2> SUFFICES ASSUME U # {} PROVE FALSE
    BY <1>5
  <2>1. \A x0 \in U : x0 \in Node /\ Depth(x0) \in Nat
    BY <1>0, <1>4, DepthBound
  <2>2. PICK k \in T : \A j \in T : k <= j
    BY <2>1, LeastNumber, T \in SUBSET Nat, T # {}
  <2>3. PICK z \in U : Depth(z) = k
    BY <2>2
  <2>4. PICK y \in Strict(z) : parent[z] = {y} /\ y \in dominators[b] /\ (y \in Strict(m) => y = i)
    BY <1>4, <2>3
  <2>5. A[z] = A[y]
    BY <1>4, <2>3, <2>4
  <2>6. y \in U
    BY <2>3, <2>4, <2>5
  <2>7. Depth(y) < Depth(z) /\ Depth(y) \in Nat /\ Depth(z) \in Nat
    BY <1>0, <2>1, <2>3, <2>4, DepthGrows
  <2>8. Depth(y) \in T
    BY <2>6, <2>7
  <2> HIDE DEF T, U
  <2>9. Depth(z) <= Depth(y)
    BY <2>2, <2>3, <2>8
  <2> QED BY <2>7, <2>9
<1>6. A[b] = A[i]
  <2>1. CASE b \in Strict(m)
    <3>1. b \in dominators[i]
      BY <1>2, <2>1
    <3> QED BY <1>0, <1>3, <3>1, DominanceAntisymmetric
  <2>2. CASE b \notin Strict(m)
    <3>1. b \in dominators[b]
      BY <1>0 DEF Final, IInv, TypeOK
    <3> QED BY <1>5, <2>2, <3>1
  <2> QED BY <2>1, <2>2
<1>7. parent[m] = {i}
  BY <1>0, <1>1, <1>2
<1> QED BY <1>1, <1>6, <1>7
-----------------------------------------------------------------------------
(* Depth first over the tree: what is renamed was renamed from the value   *)
(* its parent passes down, what is pending inherits that, and a block      *)
(* whose parent is renamed is renamed or pending.                          *)
Inherits(n, v) ==
  \/ n = Entry /\ v = (IF NeedsEntryValue THEN Seed ELSE NoValue)
  \/ n # Entry /\ \E p \in parent[n] : p \in DOMAIN argument /\ v = argument[p]
RenamedRight(n) ==
  \E d, v : /\ v \in Names /\ Inherits(n, v) /\ Traced(d, n, v)
            /\ body[n] = d[Len(code[n])].code /\ argument[n] = d[Len(code[n])].current
Heir(n) == n = Entry \/ \E p \in parent[n] : p \in DOMAIN argument

RenamingInv ==
  /\ DOMAIN body = DOMAIN argument /\ DOMAIN argument \in SUBSET Node
  /\ \A n \in DOMAIN argument : argument[n] \in Names /\ RenamedRight(n)
  /\ pending \in Seq([block : Node, value : Names])
  /\ \A k \in 1..Len(pending) : Inherits(pending[k].block, pending[k].value)
  /\ \A n \in Node : Heir(n) => n \in DOMAIN argument \/ \E k \in 1..Len(pending) : pending[k].block = n
AllRenamed ==
  /\ DOMAIN body = Node /\ DOMAIN argument = Node
  /\ \A n \in Node : RenamedRight(n)

LEMMA ParentOf ==
  ASSUME Shaped, NEW n \in Node \ {Entry}
  PROVE  \E p \in Strict(n) : parent[n] = {p} /\ p \in Node /\ Depth(p) \in Nat /\ Depth(n) \in Nat /\ Depth(p) < Depth(n)
<1>1. Final /\ reachable = Node /\ parent = [k \in Node |-> Parent(k)]
  BY ShapedFacts DEF Shaped
<1>2. PICK p \in Strict(n) : Parent(n) = {p}
  BY <1>1, ParentUnique
<1>3. p \in Node
  BY <1>1, DominatorLive DEF Strict
<1> QED BY <1>1, <1>2, <1>3, DepthGrows

LEMMA InheritsOne ==
  ASSUME Shaped, NEW n \in Node, NEW v, NEW w, Inherits(n, v), Inherits(n, w)
  PROVE  v = w
<1>1. CASE n = Entry
  BY <1>1 DEF Inherits
<1>2. CASE n # Entry
  <2>1. PICK p : parent[n] = {p}
    BY <1>2, ParentOf
  <2> QED BY <1>2, <2>1 DEF Inherits
<1> QED BY <1>1, <1>2

LEMMA TracedKept ==
  ASSUME UNCHANGED <<code, params, private>>, NeedsEntryValue' = NeedsEntryValue
  PROVE  \A d, n, v : Traced(d, n, v)' <=> Traced(d, n, v)
<1>1. \A n, v : First(n, v)' = First(n, v)
  BY DEF First
<1>2. \A op, n, i, current : Rewrite(n, op, i, current)' = Rewrite(n, op, i, current)
  BY DEF Rewrite, Reads, Writes
<1>3. \A op : MustHold(op)' = MustHold(op)
  BY DEF MustHold, Reads
<1>4. \A n, done, i : AndThen(n, done, i)' = AndThen(n, done, i)
  BY <1>2, <1>3, ZenonT(60) DEF AndThen
<1> QED BY <1>1, <1>4 DEF Traced

LEMMA ReadyKept ==
  ASSUME Ready, UNCHANGED <<vars, home, params>>
  PROVE  /\ Ready'
         /\ \A d, n, v : Traced(d, n, v)' <=> Traced(d, n, v)
         /\ UNCHANGED <<edges, reachable, dominators, parent, frontier, code, private>>
         /\ NeedsEntryValue' = NeedsEntryValue /\ LiveBlocks' = LiveBlocks
<1>1. /\ Shaped' /\ LiveBlocks' = LiveBlocks /\ Definitions' = Definitions
      /\ NeedsEntryValue' = NeedsEntryValue
      /\ UNCHANGED <<edges, reachable, dominators, parent, frontier, code, private>>
  BY ShapedKept DEF Ready
<1>2. \A n \in Definitions \cup params : Visited(n)'
  BY <1>1 DEF Ready, Visited
<1>3. Ready'
  BY <1>1, <1>2 DEF Ready
<1> QED BY <1>1, <1>3, TracedKept

LEMMA RenameKeeps ==
  ASSUME Ready, RenamingInv, Rename, stage' = "renaming"
  PROVE  Ready' /\ RenamingInv'
<1> DEFINE P == [block : Node, value : Names]
<1>1. /\ pending \in Seq(P) /\ Len(pending) \in Nat /\ 1 \in 1..Len(pending)
      /\ Head(pending) = pending[1] /\ pending[1] \in P
  <2>1. pending \in Seq(P) /\ pending # <<>>
    BY DEF Rename, RenamingInv
  <2> HIDE DEF P
  <2> QED BY <2>1
<1>2. PICK n \in Node, v \in Names : n = Head(pending).block /\ v = Head(pending).value /\ Inherits(n, v)
  BY <1>1 DEF RenamingInv
<1>3. code[n] \in Seq(Accesses) /\ Shaped /\ reachable = Node
  BY DEF Ready, Shaped
<1>4. PICK d : Traced(d, n, v) /\ Renaming(n, v) = d[Len(code[n])]
  BY <1>3, RenamingTraced
<1>5. PICK r \in Renamings : r = Renaming(n, v) /\ r.current \in Names
  <2>1. Len(code[n]) \in 0..Len(code[n])
    BY <1>3
  <2> QED BY <1>3, <1>4, <2>1, TraceTypes DEF Renamings
<1>6. PICK K \in SUBSET Node : K = Children(n) /\ \A c \in K : n \in parent[c] /\ c # Entry
  <2>1. parent = [k \in Node |-> Parent(k)] /\ parent[Entry] = {}
    BY <1>3, ShapedFacts, NodeAssumption DEF Parent
  <2>2. Children(n) \in SUBSET Node
    BY <1>3 DEF Children
  <2>3. \A c \in Children(n) : n \in parent[c] /\ c # Entry
    BY <2>1 DEF Children
  <2> QED BY <2>2, <2>3
<1>21. PICK C \in Nat : C = Cardinality(K)
  BY <1>6, AscendingOrders
<1>7. PICK next \in [1..C -> K] : next = Ascending(Children(n)) /\ \A x \in K : \E k \in 1..C : next[k] = x
  BY <1>6, <1>21, AscendingOrders
<1> DEFINE waiting == [k \in DOMAIN next |-> [block |-> next[k], value |-> r.current]]
<1>8. /\ waiting \in Seq(P) /\ Len(waiting) = C
      /\ \A k \in 1..C : waiting[k] = [block |-> next[k], value |-> r.current]
  BY <1>5, <1>6, <1>7
<1>9. /\ Tail(pending) \in Seq(P) /\ Len(Tail(pending)) = Len(pending) - 1
      /\ \A k \in 1..(Len(pending) - 1) : Tail(pending)[k] = pending[k + 1]
  <2> HIDE DEF P
  <2> QED BY <1>1, SMTT(60)
<1>20. /\ body' = With(body, n, r.code) /\ argument' = With(argument, n, r.current)
       /\ pending' = waiting \o Tail(pending)
       /\ UNCHANGED <<vars, home, params>>
  BY <1>2, <1>5, <1>7 DEF Rename
<1> HIDE DEF waiting
<1>10. /\ pending' \in Seq(P) /\ Len(pending') = C + (Len(pending) - 1)
       /\ \A k \in 1..C : pending'[k] = [block |-> next[k], value |-> r.current]
       /\ \A k \in 1..(Len(pending) - 1) : pending'[C + k] = pending[k + 1]
  <2>1. waiting \in Seq(P) /\ Tail(pending) \in Seq(P)
    BY <1>8, <1>9
  <2> DEFINE w == waiting \o Tail(pending)
  <2>2. /\ w \in Seq(P) /\ Len(w) = Len(waiting) + Len(Tail(pending))
        /\ \A k \in 1..Len(waiting) : w[k] = waiting[k]
        /\ \A k \in 1..Len(Tail(pending)) : w[Len(waiting) + k] = Tail(pending)[k]
    BY ONLY <2>1, Joined
  <2>3. pending' = w
    BY <1>20
  <2> HIDE DEF w, P
  <2> QED BY <1>8, <1>9, <2>2, <2>3
<1>11. /\ DOMAIN argument' = DOMAIN argument \cup {n} /\ argument'[n] = r.current
       /\ DOMAIN body' = DOMAIN body \cup {n} /\ body'[n] = r.code
       /\ \A x \in DOMAIN argument : x # n => argument'[x] = argument[x]
       /\ \A x \in DOMAIN body : x # n => body'[x] = body[x]
  <2>1. /\ DOMAIN With(argument, n, r.current) = DOMAIN argument \cup {n}
        /\ With(argument, n, r.current)[n] = r.current
        /\ \A x \in DOMAIN argument : x # n => With(argument, n, r.current)[x] = argument[x]
    BY DEF With
  <2>2. /\ DOMAIN With(body, n, r.code) = DOMAIN body \cup {n}
        /\ With(body, n, r.code)[n] = r.code
        /\ \A x \in DOMAIN body : x # n => With(body, n, r.code)[x] = body[x]
    BY DEF With
  <2> QED BY <1>20, <2>1, <2>2
<1>12. \A x \in DOMAIN argument : argument'[x] = argument[x]
  <2> SUFFICES ASSUME n \in DOMAIN argument PROVE argument[n] = r.current
    BY <1>11
  <2>1. PICK e, w : /\ w \in Names /\ Inherits(n, w) /\ Traced(e, n, w)
                    /\ argument[n] = e[Len(code[n])].current
    BY DEF RenamingInv, RenamedRight
  <2>2. w = v
    BY <1>2, <1>3, <2>1, InheritsOne
  <2>3. e = d
    BY <1>2, <1>3, <1>4, <2>1, <2>2, TraceUnique
  <2> QED BY <1>4, <1>5, <2>1, <2>3
<1>13. /\ Ready' /\ (\A e, x, w : Traced(e, x, w)' <=> Traced(e, x, w))
       /\ UNCHANGED <<parent, code>> /\ NeedsEntryValue' = NeedsEntryValue
  BY <1>20, ReadyKept
<1>14. \A x, w : Inherits(x, w) => Inherits(x, w)'
  BY <1>11, <1>12, <1>13 DEF Inherits
<1>15. ASSUME NEW x \in DOMAIN argument' PROVE argument'[x] \in Names /\ RenamedRight(x)'
  <2>1. CASE x = n
    <3>1. Inherits(n, v)' /\ Traced(d, n, v)' /\ v \in Names
      BY <1>2, <1>4, <1>13, <1>14
    <3>2. body'[n] = d[Len(code'[n])].code /\ argument'[n] = d[Len(code'[n])].current
      BY <1>4, <1>5, <1>11, <1>13
    <3> QED BY <1>5, <1>11, <2>1, <3>1, <3>2 DEF RenamedRight
  <2>2. CASE x # n
    <3>1. x \in DOMAIN argument /\ argument'[x] = argument[x] /\ body'[x] = body[x]
      BY <1>11, <2>2 DEF RenamingInv
    <3>2. PICK e, w : /\ w \in Names /\ Inherits(x, w) /\ Traced(e, x, w)
                      /\ body[x] = e[Len(code[x])].code /\ argument[x] = e[Len(code[x])].current
      BY <3>1 DEF RenamingInv, RenamedRight
    <3>3. Inherits(x, w)' /\ Traced(e, x, w)'
      BY <1>13, <1>14, <3>2
    <3>4. argument[x] \in Names
      BY <3>1 DEF RenamingInv
    <3> QED BY <1>13, <3>1, <3>2, <3>3, <3>4 DEF RenamedRight
  <2> QED BY <2>1, <2>2
<1>16. ASSUME NEW k \in 1..Len(pending') PROVE Inherits(pending[k].block, pending[k].value)'
  <2>0. PICK x, w : x = pending'[k].block /\ w = pending'[k].value
    OBVIOUS
  <2>1. CASE k \in 1..C
    <3>0. pending'[k] = [block |-> next[k], value |-> r.current] /\ next[k] \in K
      BY <1>10, <2>1
    <3>1. x = next[k] /\ w = r.current /\ next[k] \in K
      BY <2>0, <3>0
    <3>2. Inherits(x, w)'
      BY <1>6, <1>11, <1>13, <3>1 DEF Inherits
    <3> QED BY <2>0, <3>2 DEF Inherits
  <2>2. CASE k \notin 1..C
    <3>1. k - C \in 1..(Len(pending) - 1) /\ (k - C) + 1 \in 1..Len(pending) /\ k = C + (k - C)
      BY <1>1, <1>7, <1>10, <2>2
    <3>2. pending'[k] = pending[(k - C) + 1]
      BY <1>10, <3>1
    <3>3. Inherits(pending[(k - C) + 1].block, pending[(k - C) + 1].value)
      BY <3>1 DEF RenamingInv
    <3>4. Inherits(x, w)
      BY <2>0, <3>2, <3>3
    <3>5. Inherits(x, w)'
      BY <1>14, <3>4
    <3> QED BY <2>0, <3>5 DEF Inherits
  <2> QED BY <2>1, <2>2
<1>17. ASSUME NEW x \in Node, Heir(x)', x \notin DOMAIN argument'
       PROVE  \E k \in 1..Len(pending') : pending'[k].block = x
  <2>1. CASE Heir(x)
    <3>1. x # n /\ x \notin DOMAIN argument
      BY <1>11, <1>17
    <3>2. PICK k \in 1..Len(pending) : pending[k].block = x
      BY <2>1, <3>1 DEF RenamingInv
    <3>3. k # 1
      BY <1>1, <1>2, <3>1, <3>2
    <3>4. k - 1 \in 1..(Len(pending) - 1) /\ C + (k - 1) \in 1..Len(pending') /\ (k - 1) + 1 = k
      BY <1>1, <1>7, <1>10, <3>3
    <3>5. pending'[C + (k - 1)] = pending[k]
      BY <1>10, <3>4
    <3> QED BY <3>2, <3>4, <3>5
  <2>2. CASE ~Heir(x)
    <3>1. n \in parent[x]
      BY <1>11, <1>13, <1>17, <2>2 DEF Heir
    <3>2. x \in K
      BY <1>3, <1>6, <3>1 DEF Children
    <3>3. PICK k \in 1..C : next[k] = x
      BY <1>7, <3>2
    <3>4. pending'[k] = [block |-> next[k], value |-> r.current]
      BY <1>10
    <3>5. k \in 1..Len(pending')
      BY <1>1, <1>10
    <3>6. pending'[k].block = x
      BY <3>3, <3>4
    <3> QED BY <3>5, <3>6
  <2> QED BY <2>1, <2>2
<1>18. DOMAIN body' = DOMAIN argument' /\ DOMAIN argument' \in SUBSET Node
  BY <1>2, <1>11 DEF RenamingInv
<1>19. RenamingInv'
  BY <1>10, <1>15, <1>16, <1>17, <1>18 DEF RenamingInv
<1> QED BY <1>13, <1>19

(* When nothing is pending, every block is renamed. *)
LEMMA RenamedAll ==
  ASSUME Shaped, RenamingInv, pending = <<>>
  PROVE  AllRenamed
<1>1. \A n \in Node : Heir(n) => n \in DOMAIN argument
  <2>1. 1..Len(pending) = {}
    OBVIOUS
  <2> QED BY <2>1 DEF RenamingInv
<1> DEFINE U == Node \ DOMAIN argument
           T == {k \in Nat : \E x \in U : Depth(x) = k}
<1>2. ASSUME U # {} PROVE FALSE
  <2>1. Entry \notin U
    BY <1>1, NodeAssumption DEF Heir
  <2>2. T # {}
    BY <1>2, <2>1, ParentOf
  <2>3. PICK k \in T : \A j \in T : k <= j
    BY <2>2, LeastNumber, T \in SUBSET Nat
  <2>4. PICK x \in U : Depth(x) = k
    BY <2>3
  <2>5. PICK p \in Node : parent[x] = {p} /\ Depth(p) \in Nat /\ Depth(x) \in Nat /\ Depth(p) < Depth(x)
    BY <2>1, <2>4, ParentOf
  <2>6. p \in U
    BY <1>1, <2>4, <2>5 DEF Heir
  <2>7. Depth(x) <= Depth(p)
    BY <2>3, <2>4, <2>5, <2>6
  <2> QED BY <2>5, <2>7
<1>3. DOMAIN argument = Node
  BY <1>2 DEF RenamingInv
<1> QED BY <1>3 DEF RenamingInv, AllRenamed
-----------------------------------------------------------------------------
(* Where the home is live inside a block: after its first i accesses.      *)
LiveAt(b, i) ==
  LET ops == code[b] IN
  \/ \E j \in (i + 1)..Len(ops) : Uses(ops[j]) /\ \A k \in (i + 1)..(j - 1) : ~Defines(ops[k])
  \/ /\ \A k \in (i + 1)..Len(ops) : ~Defines(ops[k])
     /\ \E m \in LiveBlocks : <<b, m>> \in edges

LEMMA LiveAtStart ==
  ASSUME NEW b \in reachable, code[b] \in Seq(Accesses), LiveAt(b, 0)
  PROVE  b \in LiveBlocks
<1>1. DOMAIN code[b] = 1..Len(code[b]) /\ 0 + 1 = 1
  OBVIOUS
<1>2. CASE \E j \in 1..Len(code[b]) : Uses(code[b][j]) /\ \A k \in 1..(j - 1) : ~Defines(code[b][k])
  <2>1. UsedFirst(b)
    BY <1>1, <1>2 DEF UsedFirst
  <2> QED BY <2>1, LiveFlows
<1>3. CASE (\A k \in 1..Len(code[b]) : ~Defines(code[b][k])) /\ \E m \in LiveBlocks : <<b, m>> \in edges
  <2>1. ~DefinesIn(b)
    BY <1>1, <1>3 DEF DefinesIn
  <2> QED BY <1>3, <2>1, LiveFlows
<1> QED BY <1>1, <1>2, <1>3 DEF LiveAt

LEMMA LiveBackwards ==
  ASSUME NEW b \in Node, code[b] \in Seq(Accesses), NEW i \in 1..Len(code[b])
  PROVE  /\ LiveAt(b, i) /\ ~Defines(code[b][i]) => LiveAt(b, i - 1)
         /\ Uses(code[b][i]) => LiveAt(b, i - 1)
<1>1. Len(code[b]) \in Nat /\ (i - 1) + 1 = i /\ i \in Nat
  OBVIOUS
<1>2. ASSUME Uses(code[b][i]) PROVE LiveAt(b, i - 1)
  <2>1. i \in i..Len(code[b]) /\ i..(i - 1) = {}
    BY <1>1
  <2> QED BY <1>1, <1>2, <2>1 DEF LiveAt
<1>3. ASSUME LiveAt(b, i), ~Defines(code[b][i]) PROVE LiveAt(b, i - 1)
  <2>1. CASE \E j \in (i + 1)..Len(code[b]) : Uses(code[b][j]) /\ \A k \in (i + 1)..(j - 1) : ~Defines(code[b][k])
    <3>1. PICK j \in (i + 1)..Len(code[b]) : Uses(code[b][j]) /\ \A k \in (i + 1)..(j - 1) : ~Defines(code[b][k])
      BY <2>1
    <3>2. j \in i..Len(code[b])
      BY <1>1
    <3>3. \A k \in i..(j - 1) : ~Defines(code[b][k])
      BY <1>1, <1>3, <3>1
    <3> QED BY <1>1, <3>1, <3>2, <3>3 DEF LiveAt
  <2>2. CASE (\A k \in (i + 1)..Len(code[b]) : ~Defines(code[b][k])) /\ \E m \in LiveBlocks : <<b, m>> \in edges
    <3>1. \A k \in i..Len(code[b]) : ~Defines(code[b][k])
      BY <1>1, <1>3, <2>2
    <3> QED BY <1>1, <2>2, <3>1 DEF LiveAt
  <2> QED BY <1>3, <2>1, <2>2 DEF LiveAt
<1> QED BY <1>2, <1>3

LEMMA LiveAtEnd ==
  ASSUME NEW b \in Node, code[b] \in Seq(Accesses), NEW m \in LiveBlocks, <<b, m>> \in edges
  PROVE  LiveAt(b, Len(code[b]))
<1>1. (Len(code[b]) + 1)..Len(code[b]) = {}
  OBVIOUS
<1> QED BY <1>1 DEF LiveAt

(* A block that is in no set of definitions passes on what it inherits.    *)
LEMMA QuietBlocks ==
  ASSUME Ready, AllRenamed, NEW x \in Node \ {Entry}, x \notin Definitions \cup params, NEW y \in parent[x]
  PROVE  argument[x] = argument[y]
<1>1. Shaped /\ x \in Node /\ code[x] \in Seq(Accesses) /\ ~DefinesIn(x)
  BY ShapedFacts DEF Ready, Shaped
<1>2. PICK d, v : /\ v \in Names /\ Inherits(x, v) /\ Traced(d, x, v)
                  /\ argument[x] = d[Len(code[x])].current
  BY DEF AllRenamed, RenamedRight
<1> DEFINE L == Len(code[x])
           T == {i \in 0..L : d[i].current = v}
<1>3. L \in Nat /\ DOMAIN code[x] = 1..L
  BY <1>1
<1>4. 0 \in T
  <2>1. d[0] = First(x, v)
    BY <1>1, <1>2, TraceTypes
  <2>2. First(x, v).current = v
    BY <1>1, <1>2, FirstType
  <2> QED BY <1>3, <2>1, <2>2
<1>5. ASSUME NEW k \in 1..L, k - 1 \in T PROVE k \in T
  <2>1. ~Defines(code[x][k])
    BY <1>1, <1>3 DEF DefinesIn
  <2>2. d[k].current = Current(code[x][k], x, k, d[k - 1].current)
    <3>1. k \in 1..Len(code[x]) /\ v \in Names /\ Traced(d, x, v)
      BY <1>2
    <3> HIDE DEF L, T
    <3>2. d[k] = AndThen(x, d[k - 1], k) /\ d[k - 1] \in Renamings
      <4>1. k - 1 \in 0..Len(code[x])
        BY <1>1, <3>1
      <4> QED BY <1>1, <3>1, <4>1, TraceTypes
    <3> QED BY <1>1, <3>1, <3>2, AndThenType
  <2>3. d[k].current = d[k - 1].current
    BY <2>1, <2>2 DEF Current, Defines
  <2> QED BY <1>3, <1>5, <2>3
<1>6. argument[x] = v
  <2> HIDE DEF T, L
  <2>1. 0..L \subseteq T
    BY <1>3, <1>4, <1>5, UpTo
  <2>2. L \in T
    BY <1>3, <2>1
  <2> QED BY <1>2, <2>2 DEF T, L
<1>7. PICK p : parent[x] = {p}
  BY <1>1, ParentOf
<1>8. v = argument[p]
  BY <1>2, <1>7 DEF Inherits
<1> QED BY <1>6, <1>7, <1>8

-----------------------------------------------------------------------------
(* The run of the promoted routine: between two accesses the current name  *)
(* holds the home's value where the home is live; after a synchronizing    *)
(* store, and up to a reload, storage holds it for whoever looks.          *)
Renders(d, b, v) ==
  /\ v \in Names /\ Inherits(b, v) /\ Traced(d, b, v)
  /\ body[b] = d[Len(code[b])].code /\ argument[b] = d[Len(code[b])].current

Seeding(b, p, H) == b = Entry /\ NeedsEntryValue /\ p = 1 /\ Storage \in H
Between(d, b, p, H, i) ==
  p = Len(d[i].code) + 1 /\ (LiveAt(b, i) => d[i].current \in H)
Synced(d, b, p, H, i) ==
  LET op == code[b][i] IN
  /\ Syncs(op) /\ p = Len(d[i - 1].code) + 2
  /\ IF Reads(op) THEN Storage \in H ELSE LiveAt(b, i - 1) => d[i - 1].current \in H
Reloading(d, b, p, H, i) ==
  Writes(code[b][i]) /\ p = Len(d[i].code) /\ Storage \in H
Position(d, b, p, H) ==
  \/ Seeding(b, p, H)
  \/ \E i \in 0..Len(code[b]) : Between(d, b, p, H, i)
  \/ \E i \in 1..Len(code[b]) : Synced(d, b, p, H, i) \/ Reloading(d, b, p, H, i)
RunInv ==
  \E b \in Node, p \in Nat : \E d, v, H :
    at = <<b, p>> /\ holders = H /\ Renders(d, b, v) /\ Position(d, b, p, H)

(* What the next operation is, by position. *)
LEMMA Writers == \A op : Writes(op) => Reads(op) /\ Syncs(op) /\ Ahead(op) = 1 /\ Behind(op) = 1 /\ op \in {"call", "region"}
  BY DEF Writes, Reads, Syncs, Ahead, Behind

LEMMA AtSeed ==
  ASSUME Ready, NEW b \in Node, NEW p \in Nat, NEW d, NEW v, NEW H, Renders(d, b, v), Seeding(b, p, H)
  PROVE  /\ p <= Len(body[b]) /\ body[b][p] = Operation("reload", Seed)
         /\ Len(d[0].code) = 1 /\ d[0].current = Seed
<1>1. Shaped /\ code[b] \in Seq(Accesses) /\ Entry \notin params /\ 0 \in 0..Len(code[b])
  BY DEF Ready, Shaped
<1>2. d[0] = First(b, v)
  BY <1>1, TraceTypes DEF Renders
<1>3. v = Seed
  BY DEF Renders, Inherits, Seeding
<1>4. d[0].code = <<Operation("reload", Seed)>> /\ d[0].current = Seed
  BY <1>1, <1>2, <1>3, FirstType, ZenonT(60) DEF Seeding, Renders
<1>5. Len(d[0].code) = 1 /\ d[0].code[1] = Operation("reload", Seed) /\ 1 \in 1..1
  BY <1>4
<1>6. 1 <= Len(body[b]) /\ body[b][1] = d[0].code[1]
  BY <1>1, <1>5, TracePrefix, SMTT(60) DEF Renders
<1> QED BY <1>4, <1>5, <1>6 DEF Seeding

LEMMA AtEnd ==
  ASSUME Ready, NEW b \in Node, NEW p \in Nat, NEW d, NEW v, NEW H, Renders(d, b, v), Position(d, b, p, H),
         p > Len(body[b])
  PROVE  LiveAt(b, Len(code[b])) => argument[b] \in H
<1>0. Shaped /\ code[b] \in Seq(Accesses) /\ Len(code[b]) \in Nat /\ v \in Names /\ Traced(d, b, v)
      /\ body[b] = d[Len(code[b])].code
  BY DEF Ready, Shaped, Renders
<1>1. Len(body[b]) \in Nat
  BY <1>0, TracePrefix, Len(code[b]) \in 0..Len(code[b])
<1>2. ~Seeding(b, p, H)
  BY <1>1, AtSeed
<1>3. ASSUME NEW i \in 1..Len(code[b]) PROVE ~Synced(d, b, p, H, i) /\ ~Reloading(d, b, p, H, i)
  <2>1. /\ Len(d[i - 1].code) \in Nat
        /\ Len(d[i].code) = (Len(d[i - 1].code) + (Ahead(code[b][i]) + 1)) + Behind(code[b][i])
        /\ Len(d[i].code) <= Len(body[b])
    BY <1>0, TraceOperations
  <2>2. Behind(code[b][i]) \in {0, 1} /\ (Syncs(code[b][i]) => Ahead(code[b][i]) = 1)
    BY DEF Behind, Ahead
  <2>3. ~Synced(d, b, p, H, i)
    BY <1>1, <2>1, <2>2 DEF Synced
  <2>4. ~Reloading(d, b, p, H, i)
    <3>1. Ahead(code[b][i]) \in {0, 1}
      BY DEF Ahead
    <3> QED BY <1>1, <2>1, <2>2, <3>1 DEF Reloading
  <2> QED BY <2>3, <2>4
<1>4. ASSUME NEW i \in 0..Len(code[b]), i # Len(code[b]) PROVE ~Between(d, b, p, H, i)
  <2> DEFINE k == i + 1
  <2>0. k \in 1..Len(code[b]) /\ k - 1 = i
    BY <1>0, <1>4
  <2>3. LET p0 == Len(d[k - 1].code) IN
        /\ p0 \in Nat
        /\ Len(d[k].code) = (p0 + (Ahead(code[b][k]) + 1)) + Behind(code[b][k])
        /\ Len(d[k].code) <= Len(d[Len(code[b])].code)
    <3> HIDE DEF k
    <3> QED BY <1>0, <2>0, TraceOperations
  <2>1. /\ Len(d[i].code) \in Nat
        /\ Len(d[k].code) = (Len(d[i].code) + (Ahead(code[b][k]) + 1)) + Behind(code[b][k])
        /\ Len(d[k].code) <= Len(body[b])
    BY <1>0, <2>0, <2>3
  <2>2. Behind(code[b][k]) \in {0, 1} /\ Ahead(code[b][k]) \in {0, 1}
    BY DEF Behind, Ahead
  <2> QED BY <1>1, <2>1, <2>2, SMTT(60) DEF Between
<1>5. Between(d, b, p, H, Len(code[b]))
  BY <1>2, <1>3, <1>4 DEF Position
<1> QED BY <1>5 DEF Between, Renders
(* What an operation of the promoted routine does to the holders.          *)
Effect(U, H, H2) ==
  /\ U.kind # "fault"
  /\ U.kind = "name" => H2 = {U.value}
  /\ U.kind = "sync" => H2 = (IF U.value \in H THEN H \cup {Storage} ELSE H \ {Storage})
  /\ U.kind = "reload" => H2 = (IF Storage \in H THEN H \cup {U.value} ELSE H \ {U.value})
  /\ U.kind \in {"call", "region"} /\ Writes(U.kind) => H2 \in {H, {Storage}}
  /\ U.kind \in {"use", "divide"} \/ (U.kind = "call" /\ ~Writes(U.kind)) => H2 = H
Preserved(U, H) ==
  /\ U.kind = "use" => U.value \in H
  /\ U.kind \in {"call", "region", "fault"} /\ Reads(U.kind) => Storage \in H

LEMMA OperationIs ==
  \A kind, value : Operation(kind, value).kind = kind /\ Operation(kind, value).value = value
  BY DEF Operation

(* The facts about access k of a block that the steps over it need. *)
LEMMA AccessFacts ==
  ASSUME Ready, NEW b \in Node, NEW d, NEW v, Renders(d, b, v), NEW k \in 1..Len(code[b])
  PROVE  LET op == code[b][k]
             p == Len(d[k - 1].code)
             c == d[k - 1].current IN
         /\ op \in Accesses /\ p \in Nat /\ k - 1 \in 0..Len(code[b]) /\ k \in 0..Len(code[b])
         /\ Syncs(op) => body[b][p + 1] = Operation("sync", c) /\ body[b][p + 2] = Main(op, b, k, c)
         /\ ~Syncs(op) => body[b][p + 1] = Main(op, b, k, c) /\ ~Writes(op) /\ Len(d[k].code) = p + 1
         /\ Syncs(op) /\ ~Writes(op) => Len(d[k].code) = p + 2
         /\ Writes(op) => body[b][p + 3] = Operation("reload", <<"reload", b, k>>) /\ Len(d[k].code) = p + 3
         /\ d[k].current = Current(op, b, k, c)
         /\ LiveAt(b, k) /\ ~Defines(op) => LiveAt(b, k - 1)
         /\ Uses(op) => LiveAt(b, k - 1)
<1> DEFINE op == code[b][k]
           p == Len(d[k - 1].code)
           c == d[k - 1].current
<1>1. code[b] \in Seq(Accesses) /\ v \in Names /\ Traced(d, b, v) /\ body[b] = d[Len(code[b])].code
  BY DEF Ready, Shaped, Renders
<1>2. /\ p \in Nat /\ op \in Accesses /\ k - 1 \in 0..Len(code[b]) /\ k \in 0..Len(code[b])
      /\ Len(d[k].code) = (p + (Ahead(op) + 1)) + Behind(op)
      /\ d[k].current = Current(op, b, k, c)
      /\ Syncs(op) => body[b][p + 1] = Operation("sync", c)
      /\ body[b][p + (Ahead(op) + 1)] = Main(op, b, k, c)
      /\ Writes(op) => body[b][p + (Ahead(op) + 2)] = Operation("reload", <<"reload", b, k>>)
  <2> DEFINE whole == d[Len(code[b])].code
  <2>1. /\ p \in Nat /\ op \in Accesses /\ k - 1 \in 0..Len(code[b]) /\ k \in 0..Len(code[b])
        /\ Len(d[k].code) = (p + (Ahead(op) + 1)) + Behind(op)
        /\ d[k].current = Current(op, b, k, c)
        /\ Syncs(op) => whole[p + 1] = Operation("sync", c)
        /\ whole[p + (Ahead(op) + 1)] = Main(op, b, k, c)
        /\ Writes(op) => whole[p + (Ahead(op) + 2)] = Operation("reload", <<"reload", b, k>>)
    <3>1. code[b] \in Seq(Accesses) /\ v \in Names /\ Traced(d, b, v)
      BY <1>1
    <3> QED BY ONLY <3>1, b \in Node, k \in 1..Len(code[b]), TraceOperations, SMTT(60)
  <2>2. body[b] = whole
    BY <1>1
  <2> HIDE DEF whole, op, p, c
  <2> QED BY <2>1, <2>2
<1>3. /\ LiveAt(b, k) /\ ~Defines(op) => LiveAt(b, k - 1)
      /\ Uses(op) => LiveAt(b, k - 1)
  BY <1>1, LiveBackwards
<1>4. /\ Syncs(op) => Ahead(op) = 1
      /\ ~Syncs(op) => Ahead(op) = 0 /\ ~Writes(op)
      /\ Writes(op) => Ahead(op) = 1 /\ Behind(op) = 1
      /\ ~Writes(op) => Behind(op) = 0
  BY Writers DEF Ahead, Behind
<1> HIDE DEF op, p, c
<1>5. Syncs(op) => body[b][p + 2] = Main(op, b, k, c)
  BY <1>2, <1>4
<1>6. ~Syncs(op) => body[b][p + 1] = Main(op, b, k, c) /\ ~Writes(op) /\ Len(d[k].code) = p + 1
  BY <1>2, <1>4
<1>7. Syncs(op) /\ ~Writes(op) => Len(d[k].code) = p + 2
  BY <1>2, <1>4
<1>8. Writes(op) => body[b][p + 3] = Operation("reload", <<"reload", b, k>>) /\ Len(d[k].code) = p + 3
  BY <1>2, <1>4
<1> QED BY <1>2, <1>3, <1>5, <1>6, <1>7, <1>8 DEF op, p, c

LEMMA FromSeed ==
  ASSUME Ready, NEW b \in Node, NEW p \in Nat, NEW d, NEW v, NEW H, NEW H2,
         Renders(d, b, v), Seeding(b, p, H)
  PROVE  /\ Preserved(body[b][p], H)
         /\ Effect(body[b][p], H, H2) => Position(d, b, p + 1, H2)
<1>1. /\ body[b][p] = Operation("reload", Seed) /\ Len(d[0].code) = 1 /\ d[0].current = Seed
      /\ p = 1 /\ Storage \in H
  BY AtSeed DEF Seeding
<1>2. body[b][p].kind = "reload" /\ body[b][p].value = Seed
  BY <1>1, OperationIs
<1>3. Effect(body[b][p], H, H2) => Between(d, b, p + 1, H2, 0)
  BY <1>1, <1>2 DEF Effect, Between
<1>4. 0 \in 0..Len(code[b])
  BY DEF Ready, Shaped
<1> QED BY <1>2, <1>3, <1>4 DEF Preserved, Position

LEMMA FromBetween ==
  ASSUME Ready, NEW b \in Node, NEW p \in Nat, NEW d, NEW v, NEW H, NEW H2,
         Renders(d, b, v), NEW k \in 1..Len(code[b]), Between(d, b, p, H, k - 1)
  PROVE  /\ Preserved(body[b][p], H)
         /\ Effect(body[b][p], H, H2) => Position(d, b, p + 1, H2)
<1> DEFINE op == code[b][k]
           c == d[k - 1].current
           U == body[b][p]
<1>1. /\ op \in Accesses /\ k \in 0..Len(code[b]) /\ Len(d[k - 1].code) \in Nat
      /\ p = Len(d[k - 1].code) + 1 /\ (LiveAt(b, k - 1) => c \in H)
      /\ d[k].current = Current(op, b, k, c)
      /\ Syncs(op) => U = Operation("sync", c)
      /\ ~Syncs(op) => U = Main(op, b, k, c) /\ ~Writes(op) /\ Len(d[k].code) = p
      /\ LiveAt(b, k) /\ ~Defines(op) => LiveAt(b, k - 1)
      /\ Uses(op) => LiveAt(b, k - 1)
  BY AccessFacts DEF Between
<1>2. CASE Syncs(op)
  <2>1. U.kind = "sync" /\ U.value = c
    BY <1>1, <1>2, OperationIs
  <2>2. ASSUME Effect(U, H, H2) PROVE Synced(d, b, p + 1, H2, k)
    <3>1. H2 = IF c \in H THEN H \cup {Storage} ELSE H \ {Storage}
      BY <2>1, <2>2 DEF Effect
    <3>2. Reads(op) => LiveAt(b, k - 1)
      BY <1>1 DEF Uses
    <3>3. IF Reads(op) THEN Storage \in H2 ELSE LiveAt(b, k - 1) => c \in H2
      BY <1>1, <3>1, <3>2
    <3>4. p + 1 = Len(d[k - 1].code) + 2
      BY <1>1
    <3> QED BY <1>2, <3>3, <3>4 DEF Synced
  <2>3. Effect(U, H, H2) => Position(d, b, p + 1, H2)
    BY <2>2 DEF Position
  <2> QED BY <2>1, <2>3 DEF Preserved
<1>3. CASE ~Syncs(op)
  <2>1. ~Reads(op) /\ ~Writes(op) /\ U = Main(op, b, k, c) /\ p + 1 = Len(d[k].code) + 1
    BY <1>1, <1>3 DEF Syncs
  <2> SUFFICES /\ Preserved(U, H)
               /\ Effect(U, H, H2) => (LiveAt(b, k) => d[k].current \in H2)
    BY <1>1, <2>1 DEF Position, Between
  <2>2. CASE op = "load"
    <3>1. U.kind = "use" /\ U.value = c /\ d[k].current = c /\ c \in H
      BY <1>1, <2>1, <2>2, OperationIs DEF Main, Current, Uses
    <3> QED BY <3>1 DEF Preserved, Effect
  <2>3. CASE op = "store"
    <3>1. U.kind = "name" /\ U.value = <<"value", b, k>> /\ d[k].current = <<"value", b, k>>
      BY <1>1, <2>1, <2>3, OperationIs DEF Main, Current
    <3> QED BY <3>1 DEF Preserved, Effect
  <2>4. CASE op \notin {"load", "store"}
    <3>1. U.kind = op /\ d[k].current = c
      BY <1>1, <2>1, <2>4, OperationIs DEF Main, Current
    <3>2. LiveAt(b, k) => c \in H
      BY <1>1, <2>1, <2>4 DEF Defines
    <3>3. op \in {"divide", "call", "fault"}
      BY <1>1, <2>1, <2>4 DEF Accesses, Reads
    <3> QED BY <2>1, <3>1, <3>2, <3>3 DEF Preserved, Effect
  <2> QED BY <2>2, <2>3, <2>4
<1> QED BY <1>2, <1>3

LEMMA FromSynced ==
  ASSUME Ready, NEW b \in Node, NEW p \in Nat, NEW d, NEW v, NEW H, NEW H2,
         Renders(d, b, v), NEW k \in 1..Len(code[b]), Synced(d, b, p, H, k)
  PROVE  /\ Preserved(body[b][p], H)
         /\ Effect(body[b][p], H, H2) => Position(d, b, p + 1, H2)
<1> DEFINE op == code[b][k]
           c == d[k - 1].current
           U == body[b][p]
<1>0. LET op0 == code[b][k]
          p0 == Len(d[k - 1].code)
          c0 == d[k - 1].current IN
      /\ op0 \in Accesses /\ p0 \in Nat /\ k - 1 \in 0..Len(code[b]) /\ k \in 0..Len(code[b])
      /\ Syncs(op0) => body[b][p0 + 2] = Main(op0, b, k, c0)
      /\ Syncs(op0) /\ ~Writes(op0) => Len(d[k].code) = p0 + 2
      /\ Writes(op0) => body[b][p0 + 3] = Operation("reload", <<"reload", b, k>>) /\ Len(d[k].code) = p0 + 3
      /\ d[k].current = Current(op0, b, k, c0)
      /\ LiveAt(b, k) /\ ~Defines(op0) => LiveAt(b, k - 1)
  BY AccessFacts
<1>1. /\ op \in Accesses /\ k \in 0..Len(code[b]) /\ Len(d[k - 1].code) \in Nat
      /\ Syncs(op) /\ p = Len(d[k - 1].code) + 2
      /\ IF Reads(op) THEN Storage \in H ELSE LiveAt(b, k - 1) => c \in H
      /\ d[k].current = Current(op, b, k, c)
      /\ U = Main(op, b, k, c)
      /\ ~Writes(op) => Len(d[k].code) = p
      /\ Writes(op) => Len(d[k].code) = p + 1
      /\ LiveAt(b, k) /\ ~Defines(op) => LiveAt(b, k - 1)
  BY <1>0 DEF Synced
<1>2. op \in {"divide", "call", "region", "fault"} /\ (op = "divide" => ~Reads(op) /\ ~Writes(op))
  BY <1>1 DEF Syncs, Reads, Writes, Accesses
<1>3. U.kind = op
  BY <1>1, <1>2, OperationIs DEF Main
<1>4. Preserved(U, H)
  BY <1>1, <1>2, <1>3 DEF Preserved
<1>5. ASSUME Effect(U, H, H2) PROVE Position(d, b, p + 1, H2)
  <2>1. CASE Writes(op)
    <3>1. Storage \in H2
      BY <1>1, <1>3, <1>5, <2>1, Writers DEF Effect
    <3>2. Reloading(d, b, p + 1, H2, k)
      BY <1>1, <2>1, <3>1 DEF Reloading
    <3> QED BY <3>2 DEF Position
  <2>2. CASE ~Writes(op)
    <3>1. op = "divide"
      BY <1>1, <1>2, <1>3, <1>5, <2>2 DEF Effect, Syncs, Reads, Writes
    <3>2. H2 = H /\ d[k].current = c /\ (LiveAt(b, k) => c \in H)
      BY <1>1, <1>2, <1>3, <1>5, <3>1 DEF Effect, Current, Defines
    <3>3. Between(d, b, p + 1, H2, k)
      BY <1>1, <2>2, <3>2 DEF Between
    <3> QED BY <1>1, <3>3 DEF Position
  <2> QED BY <2>1, <2>2
<1> QED BY <1>4, <1>5

LEMMA FromReloading ==
  ASSUME Ready, NEW b \in Node, NEW p \in Nat, NEW d, NEW v, NEW H, NEW H2,
         Renders(d, b, v), NEW k \in 1..Len(code[b]), Reloading(d, b, p, H, k)
  PROVE  /\ Preserved(body[b][p], H)
         /\ Effect(body[b][p], H, H2) => Position(d, b, p + 1, H2)
<1> DEFINE op == code[b][k]
           U == body[b][p]
<1>0. LET op0 == code[b][k]
          p0 == Len(d[k - 1].code)
          c0 == d[k - 1].current IN
      /\ op0 \in Accesses /\ p0 \in Nat /\ k - 1 \in 0..Len(code[b]) /\ k \in 0..Len(code[b])
      /\ Syncs(op0) => body[b][p0 + 2] = Main(op0, b, k, c0)
      /\ Syncs(op0) /\ ~Writes(op0) => Len(d[k].code) = p0 + 2
      /\ Writes(op0) => body[b][p0 + 3] = Operation("reload", <<"reload", b, k>>) /\ Len(d[k].code) = p0 + 3
      /\ d[k].current = Current(op0, b, k, c0)
      /\ LiveAt(b, k) /\ ~Defines(op0) => LiveAt(b, k - 1)
  BY AccessFacts
<1>1. /\ k \in 0..Len(code[b]) /\ Len(d[k - 1].code) \in Nat
      /\ Writes(op) /\ p = Len(d[k].code) /\ p = Len(d[k - 1].code) + 3 /\ Storage \in H
      /\ d[k].current = Current(op, b, k, d[k - 1].current)
      /\ U = Operation("reload", <<"reload", b, k>>)
  BY <1>0 DEF Reloading
<1>2. U.kind = "reload" /\ U.value = <<"reload", b, k>>
  BY <1>1, OperationIs
<1>3. d[k].current = <<"reload", b, k>>
  BY <1>1, Writers DEF Current
<1>4. Effect(U, H, H2) => Between(d, b, p + 1, H2, k)
  BY <1>1, <1>2, <1>3 DEF Effect, Between
<1> QED BY <1>1, <1>2, <1>4 DEF Preserved, Position

LEMMA FromPosition ==
  ASSUME Ready, NEW b \in Node, NEW p \in Nat, NEW d, NEW v, NEW H, NEW H2,
         Renders(d, b, v), Position(d, b, p, H), p <= Len(body[b])
  PROVE  /\ Preserved(body[b][p], H)
         /\ Effect(body[b][p], H, H2) => Position(d, b, p + 1, H2)
<1>1. CASE Seeding(b, p, H)
  BY <1>1, FromSeed
<1>2. ASSUME NEW i \in 1..Len(code[b]), Synced(d, b, p, H, i) \/ Reloading(d, b, p, H, i)
      PROVE  Preserved(body[b][p], H) /\ (Effect(body[b][p], H, H2) => Position(d, b, p + 1, H2))
  BY <1>2, FromSynced, FromReloading
<1>3. ASSUME NEW i \in 0..Len(code[b]), Between(d, b, p, H, i)
      PROVE  Preserved(body[b][p], H) /\ (Effect(body[b][p], H, H2) => Position(d, b, p + 1, H2))
  <2>1. code[b] \in Seq(Accesses) /\ Len(code[b]) \in Nat /\ body[b] = d[Len(code[b])].code
    BY DEF Ready, Shaped, Renders
  <2>2. i # Len(code[b])
    <3>1. SUFFICES ASSUME i = Len(code[b]) PROVE FALSE
      OBVIOUS
    <3>2. Len(body[b]) \in Nat
      BY <2>1, TracePrefix, Len(code[b]) \in 0..Len(code[b]) DEF Renders
    <3> QED BY <1>3, <2>1, <3>1, <3>2 DEF Between
  <2>3. PICK k \in 1..Len(code[b]) : i = k - 1
    <3>1. i + 1 \in 1..Len(code[b]) /\ (i + 1) - 1 = i
      BY <2>1, <2>2
    <3> QED BY <3>1
  <2> QED BY <1>3, <2>3, FromBetween
<1> QED BY <1>1, <1>2, <1>3 DEF Position
-----------------------------------------------------------------------------
(* The pass and the run as a whole.                                        *)
PromotionSpec == Init /\ PromotionInit /\ [][PromotionNext]_<<vars, promotion>>

Fresh == body = <<>> /\ argument = <<>>
Placing ==
  /\ params \in SUBSET Node
  /\ \A n \in (Definitions \cup params) \ work : Visited(n)
PromotionInv ==
  /\ TreeInv
  /\ stage \in {"analysis", "entered", "placing", "renaming", "running", "kept"}
  /\ stage \in {"entered", "placing"} => Shaped
  /\ stage \in {"analysis", "entered", "placing"} => Fresh
  /\ stage \in {"analysis", "entered"} => params = {}
  /\ stage = "placing" => Placing
  /\ stage = "renaming" => Ready /\ RenamingInv
  /\ stage = "running" => Ready /\ AllRenamed /\ RunInv

LEMMA InitPromotion == Init /\ PromotionInit => PromotionInv
  BY InitTree DEF PromotionInit, PromotionInv, Fresh

LEMMA AnalyzeKeeps == PromotionInv /\ Analyze => PromotionInv'
<1> SUFFICES ASSUME PromotionInv, Analyze PROVE PromotionInv'
  OBVIOUS
<1>1. TreeInv'
  BY NextTree DEF PromotionInv, Analyze
<1>2. stage = "analysis" /\ UNCHANGED <<stage, body, argument, params>>
  BY DEF Analyze, promotion, renamed
<1> QED BY <1>1, <1>2 DEF PromotionInv, Fresh

LEMMA EnterKeeps == PromotionInv /\ Enter => PromotionInv'
<1> SUFFICES ASSUME PromotionInv, Enter PROVE PromotionInv'
  OBVIOUS
<1>1. /\ stage = "analysis" /\ stage' = "entered" /\ Done /\ Admissible
      /\ code' \in [Node -> Body]
      /\ UNCHANGED <<vars, params, body, argument>>
  BY DEF Enter, renamed
<1>2. TreeInv' /\ Done' /\ reachable' = reachable /\ edges' = edges
  BY <1>1, TreeKept DEF PromotionInv
<1>3. code' \in [Node -> Seq(Accesses)]
  <2>1. \A n \in Node : code'[n] \in Seq(Accesses)
    BY <1>1, BodyAssumption DEF Accesses
  <2> QED BY <1>1, <2>1
<1>4. Shaped'
  BY <1>1, <1>2, <1>3 DEF Shaped, Admissible, Predecessors
<1> QED BY <1>1, <1>2, <1>4 DEF PromotionInv, Fresh

LEMMA AdmitKeeps == PromotionInv /\ Admit => PromotionInv'
<1> SUFFICES ASSUME PromotionInv, Admit PROVE PromotionInv'
  OBVIOUS
<1>1. /\ stage = "entered" /\ stage' = "placing" /\ work' = Definitions
      /\ UNCHANGED <<vars, home, params, body, argument>>
  BY DEF Admit, renamed
<1>2. Shaped' /\ Definitions' = Definitions /\ params' = {}
  BY <1>1, ShapedKept DEF PromotionInv
<1>3. Placing'
  BY <1>1, <1>2 DEF Placing
<1> QED BY <1>1, <1>2, <1>3 DEF PromotionInv, Fresh, Shaped

LEMMA PlaceKeeps == ASSUME NEW n \in Node PROVE PromotionInv /\ Place(n) => PromotionInv'
<1> SUFFICES ASSUME PromotionInv, Place(n) PROVE PromotionInv'
  OBVIOUS
<1>1. /\ stage = "placing" /\ n \in work
      /\ params' = params \cup Placed(n)
      /\ work' = (work \ {n}) \cup (Placed(n) \ Definitions)
      /\ UNCHANGED <<vars, stage, home, body, argument>>
  BY DEF Place, IsSmallest
<1>2. /\ Shaped /\ Shaped' /\ Definitions' = Definitions /\ LiveBlocks' = LiveBlocks /\ LiveIn = LiveBlocks
      /\ frontier' = frontier
  BY <1>1, ShapedKept, ShapedFacts DEF PromotionInv
<1>3. Placed(n) = (frontier[n] \cap LiveBlocks) \ params /\ LiveBlocks \in SUBSET Node
  BY <1>2 DEF Placed, LiveBlocks, Shaped
<1>4. Placing
  BY <1>1 DEF PromotionInv
<1>5. ASSUME NEW m \in (Definitions \cup params') \ work' PROVE Visited(m)'
  <2>1. CASE m = n
    BY <1>1, <1>2, <1>3, <2>1 DEF Visited
  <2>2. CASE m # n
    <3>1. m \in (Definitions \cup params) \ work
      BY <1>1, <1>5, <2>2
    <3>2. Visited(m)
      BY <1>4, <3>1 DEF Placing
    <3> QED BY <1>1, <1>2, <3>2 DEF Visited
  <2> QED BY <2>1, <2>2
<1>6. Placing'
  BY <1>1, <1>2, <1>3, <1>4, <1>5 DEF Placing
<1> QED BY <1>1, <1>2, <1>6 DEF PromotionInv, Fresh, Shaped

(* No edge leads to the entry, so it is in no frontier. *)
LEMMA EntryInNoFrontier ==
  ASSUME Shaped, NEW n \in Node
  PROVE  Entry \notin frontier[n]
<1>1. FrontiersExact /\ Done /\ reachable = Node /\ edges \in SUBSET (Node \X Node) /\ Predecessors(Entry) = {}
  BY ShapedFacts DEF Shaped
<1>2. frontier[n] = {j \in reachable : /\ j = Entry => IsJoin(j)
                                       /\ n \notin Strict(j)
                                       /\ \E p \in Predecessors(j) : n \in dominators[p]}
  BY <1>1 DEF FrontiersExact
<1> QED BY <1>1, <1>2

LEMMA BeginKeeps == PromotionInv /\ BeginRenaming => PromotionInv'
<1> SUFFICES ASSUME PromotionInv, BeginRenaming PROVE PromotionInv'
  OBVIOUS
<1>0. PICK v : v = IF NeedsEntryValue THEN Seed ELSE NoValue
  OBVIOUS
<1>1. /\ stage = "placing" /\ stage' = "renaming" /\ work = {}
      /\ params' = params \ {Entry}
      /\ pending' = <<[block |-> Entry, value |-> v]>>
      /\ UNCHANGED <<vars, home, body, argument>>
  BY <1>0 DEF BeginRenaming
<1>2. /\ Shaped /\ Shaped' /\ Definitions' = Definitions /\ LiveBlocks' = LiveBlocks
      /\ NeedsEntryValue' = NeedsEntryValue /\ frontier' = frontier
  BY <1>1, ShapedKept DEF PromotionInv
<1>3. Placing /\ Definitions \in SUBSET Node
  BY <1>1, <1>2, ShapedFacts, NodeAssumption DEF PromotionInv
<1>4. ASSUME NEW m \in Definitions \cup params' PROVE Visited(m)'
  <2>1. m \in Node /\ Visited(m)
    BY <1>1, <1>3 DEF Placing
  <2>2. Entry \notin frontier[m]
    BY <1>2, <2>1, EntryInNoFrontier
  <2> QED BY <1>1, <1>2, <2>1, <2>2 DEF Visited
<1>5. Ready'
  BY <1>1, <1>2, <1>3, <1>4 DEF Ready, Placing
<1>6. DOMAIN argument' = {} /\ DOMAIN body' = {}
  BY <1>1 DEF PromotionInv, Fresh
<1>7. v \in Names /\ Entry \in Node
  BY <1>0, NamesHold, NodeAssumption
<1>8. Inherits(Entry, v)'
  BY <1>0, <1>2 DEF Inherits
<1>9. /\ pending' \in Seq([block : Node, value : Names]) /\ Len(pending') = 1
      /\ pending'[1].block = Entry /\ pending'[1].value = v
  BY <1>1, <1>7
<1>10. ASSUME NEW k \in 1..Len(pending') PROVE Inherits(pending[k].block, pending[k].value)'
  <2>1. k = 1
    BY <1>9
  <2> QED BY <1>2, <1>8, <1>9, <2>1 DEF Inherits
<1>11. ASSUME NEW n \in Node, Heir(n)' PROVE \E k \in 1..Len(pending') : pending'[k].block = n
  <2>1. n = Entry
    BY <1>6, <1>11 DEF Heir
  <2> QED BY <1>9, <2>1
<1>12. RenamingInv'
  BY <1>6, <1>9, <1>10, <1>11 DEF RenamingInv
<1> QED BY <1>1, <1>2, <1>5, <1>12 DEF PromotionInv, Shaped

LEMMA RenameStage == PromotionInv /\ Rename => PromotionInv'
<1> SUFFICES ASSUME PromotionInv, Rename PROVE PromotionInv'
  OBVIOUS
<1>1. stage = "renaming" /\ (stage' = "renaming" \/ stage' = "kept") /\ UNCHANGED vars
  BY DEF Rename
<1>2. TreeInv'
  BY <1>1, TreeKept DEF PromotionInv
<1>3. CASE stage' = "renaming"
  <2>1. Ready' /\ RenamingInv'
    BY <1>1, <1>3, RenameKeeps DEF PromotionInv
  <2> QED BY <1>2, <1>3, <2>1 DEF PromotionInv
<1>4. CASE stage' = "kept"
  BY <1>2, <1>4 DEF PromotionInv
<1> QED BY <1>1, <1>3, <1>4

LEMMA RunKept ==
  ASSUME Ready, AllRenamed, UNCHANGED <<vars, home, params, body, argument>>
  PROVE  /\ Ready' /\ AllRenamed'
         /\ \A d, b, v : Renders(d, b, v)' <=> Renders(d, b, v)
         /\ \A d, b, p, H : Position(d, b, p, H)' <=> Position(d, b, p, H)
<1>1. /\ Ready'
      /\ \A d, n, v : Traced(d, n, v)' <=> Traced(d, n, v)
      /\ UNCHANGED <<edges, parent, code, private>>
      /\ NeedsEntryValue' = NeedsEntryValue /\ LiveBlocks' = LiveBlocks
  BY ReadyKept
<1>2. \A n, v : Inherits(n, v)' <=> Inherits(n, v)
  BY <1>1 DEF Inherits
<1>3. \A n : RenamedRight(n) => RenamedRight(n)'
  BY <1>1, <1>2 DEF RenamedRight
<1>4. AllRenamed'
  BY <1>3 DEF AllRenamed
<1>5. \A d, b, v : Renders(d, b, v)' <=> Renders(d, b, v)
  BY <1>1, <1>2 DEF Renders
<1>6. \A op : Reads(op)' = Reads(op) /\ Writes(op)' = Writes(op) /\ Syncs(op)' = Syncs(op)
              /\ Uses(op)' = Uses(op) /\ Defines(op)' = Defines(op)
  BY <1>1 DEF Reads, Writes, Syncs, Uses, Defines
<1>7. \A b, i : LiveAt(b, i)' = LiveAt(b, i)
  BY <1>1, <1>6 DEF LiveAt
<1>8. \A b, p, H : Seeding(b, p, H)' <=> Seeding(b, p, H)
  BY <1>1 DEF Seeding
<1>9. \A d, b, p, H, i : /\ Between(d, b, p, H, i)' <=> Between(d, b, p, H, i)
                         /\ Synced(d, b, p, H, i)' <=> Synced(d, b, p, H, i)
                         /\ Reloading(d, b, p, H, i)' <=> Reloading(d, b, p, H, i)
  BY <1>1, <1>6, <1>7 DEF Between, Synced, Reloading
<1>10. \A d, b, p, H : Position(d, b, p, H)' <=> Position(d, b, p, H)
  BY <1>1, <1>8, <1>9 DEF Position
<1> QED BY <1>1, <1>4, <1>5, <1>10

LEMMA StartKeeps == PromotionInv /\ Start => PromotionInv'
<1> SUFFICES ASSUME PromotionInv, Start PROVE PromotionInv'
  OBVIOUS
<1>1. /\ stage = "renaming" /\ pending = <<>> /\ stage' = "running"
      /\ at' = <<Entry, 1>> /\ holders' = {Storage}
      /\ UNCHANGED <<vars, home, params, body, argument>>
  BY DEF Start, renamed
<1>2. Ready /\ AllRenamed /\ Shaped
  BY <1>1, RenamedAll DEF PromotionInv, Ready
<1>3. /\ Ready' /\ AllRenamed'
      /\ \A d, b, v : Renders(d, b, v)' <=> Renders(d, b, v)
      /\ \A d, b, p, H : Position(d, b, p, H)' <=> Position(d, b, p, H)
  BY <1>1, <1>2, RunKept
<1>4. Entry \in Node /\ Entry \in reachable /\ code[Entry] \in Seq(Accesses) /\ 0 \in 0..Len(code[Entry])
  BY <1>2, NodeAssumption DEF Shaped
<1>5. PICK d, v : Renders(d, Entry, v)
  BY <1>2, <1>4 DEF AllRenamed, RenamedRight, Renders
<1>6. PICK H : H = {Storage}
  OBVIOUS
<1>7. Position(d, Entry, 1, H)
  <2>1. CASE NeedsEntryValue
    BY <1>6, <2>1 DEF Position, Seeding
  <2>2. CASE ~NeedsEntryValue
    <3>1. d[0] = First(Entry, v)
      BY <1>4, <1>5, TraceTypes DEF Renders
    <3>2. d[0].code = <<>>
      BY <1>4, <1>5, <2>2, <3>1, FirstType DEF Renders
    <3>3. Entry \notin LiveBlocks
      BY <1>2, <2>2, ShapedFacts
    <3>4. ~LiveAt(Entry, 0)
      BY <1>4, <3>3, LiveAtStart
    <3>5. Between(d, Entry, 1, H, 0)
      BY <3>2, <3>4 DEF Between
    <3> QED BY <1>4, <3>5 DEF Position
  <2> QED BY <2>1, <2>2
<1>8. RunInv'
  <2>1. Renders(d, Entry, v)' /\ Position(d, Entry, 1, H)'
    BY <1>3, <1>5, <1>7
  <2> QED BY <1>1, <1>4, <1>6, <2>1 DEF RunInv
<1>9. TreeInv'
  BY <1>3 DEF Ready, Shaped
<1> QED BY <1>1, <1>3, <1>8, <1>9 DEF PromotionInv

LEMMA StepKeeps == PromotionInv /\ Step => PromotionInv'
<1> SUFFICES ASSUME PromotionInv, Step PROVE PromotionInv'
  OBVIOUS
<1>1. /\ stage = "running" /\ stage' = "running"
      /\ at' = <<at[1], at[2] + 1>> /\ at[2] <= Len(body[at[1]])
      /\ UNCHANGED <<vars, home, params, body, argument>>
  BY DEF Step, renamed
<1>2. Ready /\ AllRenamed /\ RunInv
  BY <1>1 DEF PromotionInv
<1>3. /\ Ready' /\ AllRenamed'
      /\ \A d, b, v : Renders(d, b, v)' <=> Renders(d, b, v)
      /\ \A d, b, p, H : Position(d, b, p, H)' <=> Position(d, b, p, H)
  BY <1>1, <1>2, RunKept
<1>4. PICK b \in Node, p \in Nat : \E d, v, H :
        at = <<b, p>> /\ holders = H /\ Renders(d, b, v) /\ Position(d, b, p, H)
  BY <1>2 DEF RunInv
<1>5. PICK d, v, H : at = <<b, p>> /\ holders = H /\ Renders(d, b, v) /\ Position(d, b, p, H)
  BY <1>4
<1>6. PICK H2 : H2 = holders'
  OBVIOUS
<1>7. Upcoming = body[b][p] /\ at' = <<b, p + 1>> /\ p <= Len(body[b])
  BY <1>1, <1>5 DEF Upcoming
<1>8. Effect(body[b][p], H, H2)
  BY <1>5, <1>6, <1>7 DEF Step, Effect, Copied
<1>9. Position(d, b, p + 1, H2)
  BY <1>2, <1>5, <1>7, <1>8, FromPosition
<1>10. RunInv'
  <2>1. Renders(d, b, v)' /\ Position(d, b, p + 1, H2)' /\ p + 1 \in Nat
    BY <1>3, <1>5, <1>9
  <2> QED BY <1>6, <1>7, <2>1 DEF RunInv
<1>11. TreeInv'
  BY <1>3 DEF Ready, Shaped
<1> QED BY <1>1, <1>3, <1>10, <1>11 DEF PromotionInv

LEMMA JumpKeeps == PromotionInv /\ Jump => PromotionInv'
<1> SUFFICES ASSUME PromotionInv, Jump PROVE PromotionInv'
  OBVIOUS
<1>1. /\ stage = "running" /\ stage' = "running" /\ at[2] > Len(body[at[1]])
      /\ UNCHANGED <<vars, home, params, body, argument>>
  BY DEF Jump, renamed
<1>2. Ready /\ AllRenamed /\ RunInv /\ Shaped
  BY <1>1 DEF PromotionInv, Ready
<1>3. /\ Ready' /\ AllRenamed'
      /\ \A d, b, v : Renders(d, b, v)' <=> Renders(d, b, v)
      /\ \A d, b, p, H : Position(d, b, p, H)' <=> Position(d, b, p, H)
  BY <1>1, <1>2, RunKept
<1>4. PICK b \in Node, p \in Nat : \E d, v, H :
        at = <<b, p>> /\ holders = H /\ Renders(d, b, v) /\ Position(d, b, p, H)
  BY <1>2 DEF RunInv
<1>5. PICK d, v, H : at = <<b, p>> /\ holders = H /\ Renders(d, b, v) /\ Position(d, b, p, H)
  BY <1>4
<1>6. PICK m \in Node : /\ <<b, m>> \in edges /\ at' = <<m, 1>>
                        /\ holders' = IF m \in params THEN Copied(argument[b], <<"param", m>>) ELSE holders
  BY <1>5 DEF Jump, Targets
<1>7. PICK H2 : H2 = holders'
  OBVIOUS
<1>8. LiveAt(b, Len(code[b])) => argument[b] \in H
  BY <1>1, <1>2, <1>5, AtEnd
<1>9. /\ m \in reachable /\ m # Entry /\ 0 \in 0..Len(code[m])
      /\ code[m] \in Seq(Accesses) /\ code[b] \in Seq(Accesses)
  BY <1>2, <1>6 DEF Shaped, Predecessors
<1>10. PICK e, w : Renders(e, m, w)
  BY <1>2 DEF AllRenamed, RenamedRight, Renders
<1>11. e[0].code = <<>> /\ e[0].current = IF m \in params THEN <<"param", m>> ELSE w
  <2>1. e[0] = First(m, w) /\ w \in Names
    BY <1>9, <1>10, TraceTypes DEF Renders
  <2> QED BY <1>9, <2>1, FirstType
<1>12. ASSUME LiveAt(m, 0) PROVE e[0].current \in H2
  <2>1. m \in LiveBlocks
    BY <1>9, <1>12, LiveAtStart
  <2>2. argument[b] \in H
    BY <1>6, <1>8, <1>9, <2>1, LiveAtEnd
  <2>3. CASE m \in params
    BY <1>5, <1>6, <1>7, <1>11, <2>2, <2>3 DEF Copied
  <2>4. CASE m \notin params
    <3>1. \A x \in Node \ {Entry} : x \notin Definitions \cup params => \A y \in parent[x] : argument[x] = argument[y]
      BY <1>2, QuietBlocks
    <3>2. PICK A : A = argument
      OBVIOUS
    <3>3. \A x \in Node \ {Entry} : x \notin Definitions \cup params => \A y \in parent[x] : A[x] = A[y]
      BY <3>1, <3>2
    <3>4. \A y \in parent[m] : A[b] = A[y]
      BY <1>2, <1>6, <2>1, <2>4, <3>3, PassedDown
    <3>5. w = argument[b]
      BY <1>9, <1>10, <3>2, <3>4 DEF Renders, Inherits
    <3> QED BY <1>5, <1>6, <1>7, <1>11, <2>2, <2>4, <3>5
  <2> QED BY <2>3, <2>4
<1>13. Position(e, m, 1, H2)
  <2>1. Between(e, m, 1, H2, 0)
    BY <1>11, <1>12 DEF Between
  <2> QED BY <1>9, <2>1 DEF Position
<1>14. RunInv'
  <2>1. Renders(e, m, w)' /\ Position(e, m, 1, H2)'
    BY <1>3, <1>10, <1>13
  <2> QED BY <1>6, <1>7, <2>1 DEF RunInv
<1>15. TreeInv'
  BY <1>3 DEF Ready, Shaped
<1> QED BY <1>1, <1>3, <1>14, <1>15 DEF PromotionInv

LEMMA StutterKeeps == PromotionInv /\ UNCHANGED <<vars, promotion>> => PromotionInv'
<1> SUFFICES ASSUME PromotionInv, UNCHANGED <<vars, promotion>> PROVE PromotionInv'
  OBVIOUS
<1>1. UNCHANGED <<vars, stage, home, work, params, pending, body, argument, at, holders>>
  BY DEF promotion, renamed
<1>2. TreeInv'
  BY <1>1, TreeKept DEF PromotionInv
<1>3. CASE stage \in {"entered", "placing"}
  <2>1. Shaped' /\ Definitions' = Definitions /\ LiveBlocks' = LiveBlocks /\ frontier' = frontier
    BY <1>1, <1>3, ShapedKept DEF PromotionInv
  <2>2. stage = "placing" => Placing'
    BY <1>1, <2>1 DEF PromotionInv, Placing, Visited
  <2> QED BY <1>1, <1>2, <1>3, <2>1, <2>2 DEF PromotionInv, Fresh
<1>4. CASE stage = "renaming"
  <2>1. /\ Ready' /\ (\A d, n, v : Traced(d, n, v)' <=> Traced(d, n, v))
        /\ UNCHANGED <<parent, code>> /\ NeedsEntryValue' = NeedsEntryValue
    BY <1>1, <1>4, ReadyKept DEF PromotionInv
  <2>2. \A n, v : Inherits(n, v)' <=> Inherits(n, v)
    BY <1>1, <2>1 DEF Inherits
  <2>3. \A n : RenamedRight(n) => RenamedRight(n)'
    BY <1>1, <2>1, <2>2 DEF RenamedRight
  <2>4. \A n : Heir(n)' <=> Heir(n)
    BY <1>1, <2>1 DEF Heir
  <2>5. RenamingInv
    BY <1>4 DEF PromotionInv
  <2>6. RenamingInv'
    <3>1. \A k \in 1..Len(pending') : Inherits(pending[k].block, pending[k].value)'
      BY <1>1, <2>1, <2>5 DEF RenamingInv, Inherits
    <3>2. \A n \in DOMAIN argument' : argument'[n] \in Names /\ RenamedRight(n)'
      BY <1>1, <2>3, <2>5 DEF RenamingInv
    <3>3. \A n \in Node : Heir(n)' => n \in DOMAIN argument' \/ \E k \in 1..Len(pending') : pending'[k].block = n
      BY <1>1, <2>4, <2>5 DEF RenamingInv
    <3>4. /\ DOMAIN body' = DOMAIN argument' /\ DOMAIN argument' \in SUBSET Node
          /\ pending' \in Seq([block : Node, value : Names])
      BY <1>1, <2>5 DEF RenamingInv
    <3> QED BY <3>1, <3>2, <3>3, <3>4 DEF RenamingInv
  <2> QED BY <1>1, <1>2, <1>4, <2>1, <2>6 DEF PromotionInv
<1>5. CASE stage = "running"
  <2>1. /\ Ready' /\ AllRenamed'
        /\ \A d, b, v : Renders(d, b, v)' <=> Renders(d, b, v)
        /\ \A d, b, p, H : Position(d, b, p, H)' <=> Position(d, b, p, H)
    BY <1>1, <1>5, RunKept DEF PromotionInv
  <2>2. RunInv'
    BY <1>1, <1>5, <2>1 DEF PromotionInv, RunInv
  <2> QED BY <1>1, <1>2, <1>5, <2>1, <2>2 DEF PromotionInv
<1>6. CASE stage \in {"analysis", "kept"}
  BY <1>1, <1>2, <1>6 DEF PromotionInv, Fresh
<1> QED BY <1>3, <1>4, <1>5, <1>6 DEF PromotionInv

LEMMA NextPromotion == PromotionInv /\ [PromotionNext]_<<vars, promotion>> => PromotionInv'
  BY AnalyzeKeeps, EnterKeeps, AdmitKeeps, PlaceKeeps, BeginKeeps, RenameStage, StartKeeps, StepKeeps,
     JumpKeeps, StutterKeeps DEF PromotionNext

(* For every graph whose entry no edge leads back to, every routine on it, *)
(* and however calls change a home they may write: what the promoted       *)
(* routine uses in place of a load stands for what the home would hold,    *)
(* and whoever else looks at the home finds it there.                      *)
THEOREM PromotionPreservesCorrect == PromotionSpec => []PromotionPreserves
<1>1. PromotionInv => PromotionPreserves
  <2> SUFFICES ASSUME PromotionInv, stage = "running", at[2] <= Len(body[at[1]])
               PROVE  /\ Upcoming.kind = "use" => Upcoming.value \in holders
                      /\ Upcoming.kind \in {"call", "region", "fault"} /\ Reads(Upcoming.kind) => Storage \in holders
    BY DEF PromotionPreserves, About
  <2>1. Ready /\ RunInv
    BY DEF PromotionInv
  <2>2. PICK b \in Node, p \in Nat : \E d, v, H :
          at = <<b, p>> /\ holders = H /\ Renders(d, b, v) /\ Position(d, b, p, H)
    BY <2>1 DEF RunInv
  <2>3. PICK d, v, H : at = <<b, p>> /\ holders = H /\ Renders(d, b, v) /\ Position(d, b, p, H)
    BY <2>2
  <2>4. Upcoming = body[b][p] /\ p <= Len(body[b])
    BY <2>3 DEF Upcoming
  <2>5. Preserved(body[b][p], H)
    BY <2>1, <2>3, <2>4, FromPosition
  <2> QED BY <2>3, <2>4, <2>5 DEF Preserved
<1> QED BY InitPromotion, NextPromotion, <1>1, PTL DEF PromotionSpec

(* The run explores some of these behaviours too.                          *)
LEMMA RunsPromote == MCSpec => PromotionSpec
<1>1. MCInit => Init /\ PromotionInit
  BY DEF MCInit
<1>2. [MCNext]_<<vars, promotion, allocation>> => [PromotionNext]_<<vars, promotion>>
  <2>1. AnyRoutine => UNCHANGED vars
    BY DEF AnyRoutine
  <2>2. Registers68k!AllocationNext => UNCHANGED vars
    BY DEF Registers68k!AllocationNext, Registers68k!Allocate, Registers68k!Choose, Registers68k!Finish,
           Registers68k!Execute, Registers68k!Follow,
           Registers68k!vars, vars, Registers68k!graph, graph, Registers68k!tree, tree
  <2> QED BY <2>1, <2>2 DEF MCNext
<1> QED BY <1>1, <1>2, PTL DEF MCSpec, PromotionSpec
=============================================================================

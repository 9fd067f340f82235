---------------------------- MODULE FixpointProofs ----------------------------
(***************************************************************************)
(* Two kinds of loops that run until nothing changes.                      *)
(*                                                                         *)
(* For every set of blocks, every lattice and every problem: where the     *)
(* solver stops is a solution, for a monotone problem the least one, and   *)
(* it climbs there.                                                        *)
(*                                                                         *)
(* For routines of any size and any forms of branches: shrinking one       *)
(* branch at a time never takes a chosen form out of reach, for branches   *)
(* keep their order, and what lies between two of them only shrinks.  Both *)
(* layouts relax in this sense and miss nothing; rewrites of the 6502      *)
(* replace what they were matched on.                                      *)
(***************************************************************************)
EXTENDS MCFixpoints, FiniteSetTheorems, SequenceTheorems, WellFoundedInduction, TLAPS

(* The problem does not change, and the states keep their types. *)
ProblemOK ==
  /\ edges \in SUBSET (Node \X Node)
  /\ reachable \in SUBSET Node
  /\ direction \in {"Forward", "Backward"} /\ problem \in Problem

(* What waits in the list is what may be out of date. *)
Settled == \A n \in reachable \ queued : SolvedAt(n)

(* Every state is below what a reevaluation would give. *)
Rising ==
  Monotone => \A n \in reachable :
    in_states[n] \subseteq NextIn(Offered, n) /\ out_states[n] \subseteq NextOut(Offered, n)

SolverInv == ProblemOK /\ TypeOK /\ Settled /\ Rising /\ Least

-----------------------------------------------------------------------------
LEMMA BottomIsState == {} \in State
  BY JoinAssumption, UNION {} = {}, {} \in SUBSET State

(* Joining and transferring stay within the states of the problem. *)
LEMMA EvaluationType ==
  ASSUME ProblemOK, NEW offered \in [reachable -> State], NEW n \in reachable
  PROVE  /\ Joined(offered, n) \in State
         /\ Transferred(offered, n) \in State
         /\ NextIn(offered, n) \in State
         /\ NextOut(offered, n) \in State
<1> DEFINE flows == {Flow(m, n, offered[m]) : m \in Upstream(n)}
<1>1. Upstream(n) \subseteq reachable /\ reachable \subseteq Node
  BY DEF Upstream, ProblemOK
<1>2. ASSUME NEW m \in Upstream(n) PROVE Flow(m, n, offered[m]) \in State
  <2>1. offered[m] \in State /\ <<m, n>> \in Node \X Node
    BY <1>1
  <2>2. problem.edge[<<m, n>>] \in [State -> State]
    BY <2>1 DEF ProblemOK, Problem
  <2> QED BY <2>1, <2>2, BottomIsState DEF Flow
<1>3. problem.boundary[n] \in State /\ problem.transfer[n] \in [State -> State]
  BY <1>1 DEF ProblemOK, Problem
<1>4. UNION flows \in State
  BY <1>2, JoinAssumption
<1>5. Joined(offered, n) = UNION {problem.boundary[n], UNION flows}
  BY DEF Joined
<1>6. Joined(offered, n) \in State
  BY <1>3, <1>4, <1>5, JoinAssumption, {problem.boundary[n], UNION flows} \in SUBSET State
<1> QED BY <1>3, <1>6 DEF Transferred, NextIn, NextOut

(* An evaluation reads its upstream neighbours only. *)
LEMMA EvaluationReads ==
  ASSUME NEW offered, NEW other, NEW n,
         \A m \in Upstream(n) : offered[m] = other[m]
  PROVE  /\ Joined(offered, n) = Joined(other, n)
         /\ NextIn(offered, n) = NextIn(other, n)
         /\ NextOut(offered, n) = NextOut(other, n)
<1>1. {Flow(m, n, offered[m]) : m \in Upstream(n)} = {Flow(m, n, other[m]) : m \in Upstream(n)}
  OBVIOUS
<1>2. Joined(offered, n) = Joined(other, n)
  BY <1>1 DEF Joined
<1> QED BY <1>2 DEF NextIn, NextOut, Transferred

(* An evaluation of a monotone problem is monotone. *)
LEMMA EvaluationMonotone ==
  ASSUME ProblemOK, Monotone, NEW n \in reachable,
         NEW below \in [reachable -> State], NEW above \in [reachable -> State],
         \A m \in reachable : below[m] \subseteq above[m]
  PROVE  /\ Joined(below, n) \subseteq Joined(above, n)
         /\ Transferred(below, n) \subseteq Transferred(above, n)
         /\ NextIn(below, n) \subseteq NextIn(above, n)
         /\ NextOut(below, n) \subseteq NextOut(above, n)
<1>1. Upstream(n) \subseteq reachable /\ reachable \subseteq Node
  BY DEF Upstream, ProblemOK
<1>2. ASSUME NEW m \in Upstream(n) PROVE Flow(m, n, below[m]) \subseteq Flow(m, n, above[m])
  BY <1>1 DEF Monotone
<1>3. Joined(below, n) \subseteq Joined(above, n)
  BY <1>2 DEF Joined
<1>4. Transferred(below, n) \subseteq Transferred(above, n)
  BY <1>1, <1>3, EvaluationType DEF Monotone, Transferred
<1> QED BY <1>3, <1>4 DEF NextIn, NextOut

-----------------------------------------------------------------------------
LEMMA ListingElements ==
  ASSUME NEW S \in SUBSET Node, NEW s \in Listings(S)
  PROVE  s \in Seq(S) /\ Elements(s) = S /\ NoRepeats(s)
<1>1. Cardinality(S) \in Nat
  BY NodeAssumption, FS_Subset, FS_CardinalityType
<1> QED BY <1>1 DEF Listings

LEMMA PopAndAppend ==
  ASSUME NEW S, NEW s \in Seq(S), s # <<>>, NEW t \in Seq(S),
         NoRepeats(s), NoRepeats(t), Elements(t) \cap Elements(s) \subseteq {Head(s)}
  PROVE  /\ Head(s) \in S
         /\ Tail(s) \o t \in Seq(S)
         /\ Elements(s) = {Head(s)} \cup Elements(Tail(s))
         /\ Head(s) \notin Elements(Tail(s))
         /\ Elements(Tail(s) \o t) = Elements(Tail(s)) \cup Elements(t)
         /\ NoRepeats(Tail(s) \o t)
<1>1. Head(s) = s[1] /\ Head(s) \in S /\ Tail(s) \in Seq(S) /\ Len(s) \in Nat \ {0}
  OBVIOUS
<1>2. Elements(s) = {Head(s)} \cup Elements(Tail(s))
  <2>1. \A i \in DOMAIN s : s[i] \in {Head(s)} \cup Elements(Tail(s))
    <3> TAKE i \in DOMAIN s
    <3>1. CASE i = 1
      BY <1>1, <3>1
    <3>2. CASE i # 1
      <4>1. i - 1 \in DOMAIN Tail(s) /\ Tail(s)[i - 1] = s[i]
        BY <3>2
      <4> QED BY <4>1 DEF Elements
    <3> QED BY <3>1, <3>2
  <2>2. \A i \in DOMAIN Tail(s) : Tail(s)[i] \in Elements(s)
    <3> TAKE i \in DOMAIN Tail(s)
    <3>1. i + 1 \in DOMAIN s /\ Tail(s)[i] = s[i + 1]
      OBVIOUS
    <3> QED BY <3>1 DEF Elements
  <2> QED BY <1>1, <2>1, <2>2 DEF Elements
<1>3. Elements(Tail(s) \o t) = Elements(Tail(s)) \cup Elements(t)
  <2> DEFINE u == Tail(s)
  <2> HIDE DEF u
  <2>0. u \in Seq(S)
    BY <1>1 DEF u
  <2>1. \A i \in DOMAIN (u \o t) : (u \o t)[i] \in Elements(u) \cup Elements(t)
    <3> TAKE i \in DOMAIN (u \o t)
    <3>1. CASE i <= Len(u)
      <4>1. i \in DOMAIN u /\ (u \o t)[i] = u[i]
        BY <2>0, <3>1
      <4> QED BY <4>1 DEF Elements
    <3>2. CASE i > Len(u)
      <4>1. i - Len(u) \in DOMAIN t /\ (u \o t)[i] = t[i - Len(u)]
        BY <2>0, <3>2
      <4> QED BY <4>1 DEF Elements
    <3> QED BY <2>0, <3>1, <3>2
  <2>2. \A i \in DOMAIN u : u[i] \in Elements(u \o t)
    <3> TAKE i \in DOMAIN u
    <3>1. i \in DOMAIN (u \o t) /\ (u \o t)[i] = u[i]
      BY <2>0
    <3> QED BY <3>1 DEF Elements
  <2>3. \A i \in DOMAIN t : t[i] \in Elements(u \o t)
    <3> TAKE i \in DOMAIN t
    <3>1. i + Len(u) \in DOMAIN (u \o t) /\ (u \o t)[i + Len(u)] = t[i]
      BY <2>0
    <3> QED BY <3>1 DEF Elements
  <2>4. Elements(u \o t) = Elements(u) \cup Elements(t)
    BY <2>1, <2>2, <2>3 DEF Elements
  <2> QED BY <2>4 DEF u
<1>4. Head(s) \notin Elements(Tail(s)) /\ NoRepeats(Tail(s))
  <2>1. \A i \in DOMAIN Tail(s) : i + 1 \in DOMAIN s /\ Tail(s)[i] = s[i + 1] /\ i \in Nat \ {0}
    OBVIOUS
  <2>2. 1 \in DOMAIN s
    BY <1>1
  <2>3. \A i, j \in DOMAIN s : s[i] = s[j] => i = j
    BY DEF NoRepeats
  <2>4. ASSUME NEW i \in DOMAIN Tail(s) PROVE Tail(s)[i] # Head(s)
    <3>1. i + 1 # 1
      BY <2>1
    <3> QED BY <1>1, <2>1, <2>2, <2>3, <3>1
  <2>5. ASSUME NEW i \in DOMAIN Tail(s), NEW j \in DOMAIN Tail(s), Tail(s)[i] = Tail(s)[j]
        PROVE  i = j
    <3>1. i + 1 = j + 1
      BY <2>1, <2>3, <2>5
    <3> QED BY <2>1, <3>1
  <2> QED BY <2>4, <2>5 DEF Elements, NoRepeats
<1>5. NoRepeats(Tail(s) \o t)
  <2> DEFINE u == Tail(s)
  <2>1. u \in Seq(S) /\ NoRepeats(u) /\ Elements(u) \cap Elements(t) = {}
    BY <1>1, <1>2, <1>4
  <2> HIDE DEF u
  <2>2. ASSUME NEW i \in DOMAIN (u \o t), NEW j \in DOMAIN (u \o t), (u \o t)[i] = (u \o t)[j]
        PROVE  i = j
    <3>1. \A k \in DOMAIN (u \o t) :
            \/ k \in DOMAIN u /\ (u \o t)[k] = u[k]
            \/ k - Len(u) \in DOMAIN t /\ (u \o t)[k] = t[k - Len(u)]
      BY <2>1
    <3>2. CASE i \in DOMAIN u /\ j \in DOMAIN u
      BY <2>1, <2>2, <3>2 DEF NoRepeats
    <3>3. CASE i \notin DOMAIN u /\ j \notin DOMAIN u
      <4>1. t[i - Len(u)] = t[j - Len(u)] /\ i - Len(u) \in DOMAIN t /\ j - Len(u) \in DOMAIN t
        BY <2>2, <3>1, <3>3
      <4>2. i - Len(u) = j - Len(u)
        BY <4>1 DEF NoRepeats
      <4> QED BY <2>1, <4>2
    <3>4. CASE i \in DOMAIN u /\ j \notin DOMAIN u
      <4>1. u[i] = t[j - Len(u)] /\ j - Len(u) \in DOMAIN t
        BY <2>1, <2>2, <3>1, <3>4
      <4> QED BY <2>1, <3>4, <4>1 DEF Elements
    <3>5. CASE i \notin DOMAIN u /\ j \in DOMAIN u
      <4>1. u[j] = t[i - Len(u)] /\ i - Len(u) \in DOMAIN t
        BY <2>1, <2>2, <3>1, <3>5
      <4> QED BY <2>1, <3>5, <4>1 DEF Elements
    <3> QED BY <3>2, <3>3, <3>4, <3>5
  <2>3. NoRepeats(u \o t)
    BY <2>2 DEF NoRepeats
  <2> QED BY <2>3 DEF u
<1> QED BY <1>1, <1>2, <1>3, <1>4, <1>5

-----------------------------------------------------------------------------
LEMMA InitEstablishes == Init => SolverInv
<1> SUFFICES ASSUME Init PROVE SolverInv
  OBVIOUS
<1>1. ProblemOK
  BY DEF Init, Begin, ProblemOK
<1>2. Offered = [n \in reachable |-> {}]
  BY DEF Init, Begin, Offered, Bottom
<1>3. TypeOK
  <2>1. order \in Seq(reachable) /\ Elements(order) = reachable /\ NoRepeats(order)
    BY ListingElements DEF Init, Begin
  <2> QED BY <2>1, BottomIsState DEF Init, Begin, TypeOK, Bottom
<1>4. Settled
  BY DEF Init, Begin, Settled
<1>5. Rising /\ Least
  BY DEF Init, Begin, Rising, Least, Bottom
<1> QED BY <1>1, <1>3, <1>4, <1>5 DEF SolverInv

(* What one evaluation does, with the node it is about named. *)
LEMMA Step ==
  ASSUME SolverInv, Evaluate
  PROVE  \E n \in queued :
           /\ n \in reachable
           /\ in_states' = [in_states EXCEPT ![n] = NextIn(Offered, n)]
           /\ out_states' = [out_states EXCEPT ![n] = NextOut(Offered, n)]
           /\ Offered' = [Offered EXCEPT ![n] = Transferred(Offered, n)]
           /\ queued' = (queued \ {n}) \cup Requeued(n)
           /\ UNCHANGED input
           /\ ProblemOK' /\ TypeOK'
<1> DEFINE n == Head(worklist)
<1>1. PICK added \in Ascending(Requeued(n)) : worklist' = Tail(worklist) \o added
  BY DEF Evaluate, Evaluation
<1>2. worklist \in Seq(reachable) /\ worklist # <<>> /\ queued = Elements(worklist) /\ NoRepeats(worklist)
  BY DEF SolverInv, TypeOK, Evaluate, Evaluation
<1>3. Requeued(n) \subseteq reachable /\ reachable \subseteq Node /\ Requeued(n) \cap queued \subseteq {n}
  BY DEF Requeued, Downstream, SolverInv, ProblemOK
<1>4. added \in Seq(reachable) /\ Elements(added) = Requeued(n) /\ NoRepeats(added)
  <2>1. added \in Listings(Requeued(n)) /\ Requeued(n) \in SUBSET Node
    BY <1>3 DEF Ascending
  <2>2. added \in Seq(Requeued(n)) /\ Elements(added) = Requeued(n) /\ NoRepeats(added)
    BY <2>1, ListingElements
  <2> QED BY <1>3, <2>2
<1>5. /\ n \in reachable /\ worklist' \in Seq(reachable) /\ NoRepeats(worklist')
      /\ queued = {n} \cup Elements(Tail(worklist)) /\ n \notin Elements(Tail(worklist))
      /\ Elements(worklist') = Elements(Tail(worklist)) \cup Requeued(n)
  BY <1>1, <1>2, <1>3, <1>4, PopAndAppend
<1>6. /\ in_states' = [in_states EXCEPT ![n] = NextIn(Offered, n)]
      /\ out_states' = [out_states EXCEPT ![n] = NextOut(Offered, n)]
      /\ queued' = (queued \ {n}) \cup Requeued(n)
      /\ UNCHANGED input
  BY DEF Evaluate, Evaluation
<1>7. Offered' = [Offered EXCEPT ![n] = Transferred(Offered, n)]
  BY <1>6 DEF Offered, NextIn, NextOut, Forward, input
<1>8. ProblemOK'
  BY <1>6 DEF SolverInv, ProblemOK, input
<1>9. TypeOK'
  <2>1. ProblemOK /\ in_states \in [reachable -> State] /\ out_states \in [reachable -> State]
    BY DEF SolverInv, TypeOK
  <2>2. NextIn(Offered, n) \in State /\ NextOut(Offered, n) \in State
    BY <1>5, <2>1, EvaluationType DEF Offered
  <2>3. reachable' = reachable
    BY <1>6 DEF input
  <2>4. in_states' \in [reachable -> State] /\ out_states' \in [reachable -> State]
    BY <1>5, <1>6, <2>1, <2>2
  <2>5. queued' = Elements(worklist')
    BY <1>5, <1>6
  <2> QED BY <1>5, <2>3, <2>4, <2>5 DEF TypeOK
<1> QED BY <1>5, <1>6, <1>7, <1>8, <1>9

(* The definitions an evaluation is made of depend on the input only. *)
LEMMA SameInput ==
  ASSUME UNCHANGED input
  PROVE  /\ Forward' = Forward /\ reachable' = reachable /\ Monotone' = Monotone
         /\ Solutions' = Solutions
         /\ \A n : Downstream(n)' = Downstream(n) /\ Upstream(n)' = Upstream(n)
<1> QED BY DEF input, Forward, Monotone, Solutions, Downstream, Upstream, Predecessors, Successors,
               Transferred, Joined, Flow

(* A settled node stays solved unless an upstream neighbour changes, and   *)
(* then it is queued again.                                                *)
LEMMA StepSettles ==
  ASSUME SolverInv, Evaluate
  PROVE  Settled'
<1>1. PICK n \in queued :
        /\ n \in reachable
        /\ in_states' = [in_states EXCEPT ![n] = NextIn(Offered, n)]
        /\ out_states' = [out_states EXCEPT ![n] = NextOut(Offered, n)]
        /\ Offered' = [Offered EXCEPT ![n] = Transferred(Offered, n)]
        /\ queued' = (queued \ {n}) \cup Requeued(n)
        /\ UNCHANGED input
  BY Step
<1>2. Offered \in [reachable -> State] /\ in_states \in [reachable -> State] /\ out_states \in [reachable -> State]
  BY DEF SolverInv, TypeOK, Offered
<1>3. SUFFICES ASSUME NEW m \in reachable, m \notin queued' PROVE SolvedAt(m)'
  BY <1>1 DEF Settled, input
<1>4. \A k \in Upstream(m) : Offered'[k] = Offered[k]
  <2> SUFFICES ASSUME NEW k \in Upstream(m), k = n PROVE Offered'[k] = Offered[k]
    BY <1>1, <1>2
  <2>1. m \in Downstream(n)
    BY <1>3 DEF Downstream, Upstream, Predecessors, Successors, SolverInv, ProblemOK
  <2>2. m \notin Requeued(n) /\ m \notin queued \ {n}
    BY <1>1, <1>3
  <2>3. ~Propagates(n)
    BY <2>1, <2>2 DEF Requeued
  <2> QED BY <1>1, <1>2, <2>3 DEF Propagates
<1>5. /\ NextIn(Offered', m) = NextIn(Offered, m)
      /\ NextOut(Offered', m) = NextOut(Offered, m)
  BY <1>4, EvaluationReads
<1>6. in_states'[m] = NextIn(Offered, m) /\ out_states'[m] = NextOut(Offered, m)
  <2>1. CASE m = n
    BY <1>1, <1>2, <2>1
  <2>2. CASE m # n
    <3>1. SolvedAt(m)
      BY <1>1, <1>3, <2>2 DEF SolverInv, Settled
    <3> QED BY <1>1, <1>2, <2>2, <3>1 DEF SolvedAt
  <2> QED BY <2>1, <2>2
<1>7. /\ NextIn(Offered, m)' = NextIn(Offered', m)
      /\ NextOut(Offered, m)' = NextOut(Offered', m)
  BY <1>1 DEF input, NextIn, NextOut, Transferred, Joined, Flow, Forward, Upstream, Predecessors, Successors
<1> QED BY <1>5, <1>6, <1>7 DEF SolvedAt

-----------------------------------------------------------------------------
(* Monotone: nothing is lost at the node evaluated, so reevaluating any    *)
(* node gives at least what it gave before.                                *)
LEMMA StepRises ==
  ASSUME SolverInv, Evaluate, Monotone
  PROVE  /\ Rising'
         /\ Least'
         /\ \A m \in reachable :
              in_states[m] \subseteq in_states'[m] /\ out_states[m] \subseteq out_states'[m]
<1>1. PICK n \in queued :
        /\ n \in reachable
        /\ in_states' = [in_states EXCEPT ![n] = NextIn(Offered, n)]
        /\ out_states' = [out_states EXCEPT ![n] = NextOut(Offered, n)]
        /\ Offered' = [Offered EXCEPT ![n] = Transferred(Offered, n)]
        /\ UNCHANGED input
        /\ TypeOK'
  BY Step
<1>2. ProblemOK /\ Offered \in [reachable -> State] /\ in_states \in [reachable -> State]
      /\ out_states \in [reachable -> State] /\ Offered' \in [reachable -> State]
  BY <1>1 DEF SolverInv, TypeOK, Offered, input
<1>3. \A m \in reachable : in_states[m] \subseteq NextIn(Offered, m) /\ out_states[m] \subseteq NextOut(Offered, m)
  BY DEF SolverInv, Rising
<1>4. \A m \in reachable : in_states[m] \subseteq in_states'[m] /\ out_states[m] \subseteq out_states'[m]
  BY <1>1, <1>2, <1>3
<1>5. \A m \in reachable : Offered[m] \subseteq Offered'[m]
  BY <1>1, <1>4 DEF Offered, Forward, input
<1>6. ASSUME NEW m \in reachable
      PROVE  in_states'[m] \subseteq NextIn(Offered', m) /\ out_states'[m] \subseteq NextOut(Offered', m)
  <2>1. NextIn(Offered, m) \subseteq NextIn(Offered', m) /\ NextOut(Offered, m) \subseteq NextOut(Offered', m)
    BY <1>2, <1>5, EvaluationMonotone
  <2>2. in_states'[m] \subseteq NextIn(Offered, m) /\ out_states'[m] \subseteq NextOut(Offered, m)
    BY <1>1, <1>2, <1>3
  <2> QED BY <2>1, <2>2
<1>7. \A m : NextIn(Offered, m)' = NextIn(Offered', m) /\ NextOut(Offered, m)' = NextOut(Offered', m)
  BY <1>1 DEF input, NextIn, NextOut, Transferred, Joined, Flow, Forward, Upstream, Predecessors, Successors
<1>8. Rising'
  BY <1>1, <1>6, <1>7 DEF Rising, input
<1>9. ASSUME NEW x \in Solutions, NEW m \in reachable
      PROVE  in_states'[m] \subseteq NextIn(x, m) /\ out_states'[m] \subseteq NextOut(x, m)
  <2>1. x \in [reachable -> State] /\ \A k \in reachable : Transferred(x, k) = x[k]
    BY DEF Solutions
  <2>2. \A k \in reachable : in_states[k] \subseteq NextIn(x, k) /\ out_states[k] \subseteq NextOut(x, k)
    BY DEF SolverInv, Least
  <2>3. \A k \in reachable : Offered[k] \subseteq x[k]
    BY <2>1, <2>2 DEF Offered, NextIn, NextOut
  <2>4. NextIn(Offered, m) \subseteq NextIn(x, m) /\ NextOut(Offered, m) \subseteq NextOut(x, m)
    BY <1>2, <2>1, <2>3, EvaluationMonotone
  <2> QED BY <1>1, <1>2, <2>2, <2>4
<1>10. \A x, m : NextIn(x, m)' = NextIn(x, m) /\ NextOut(x, m)' = NextOut(x, m)
  BY <1>1 DEF input, NextIn, NextOut, Transferred, Joined, Flow, Forward, Upstream, Predecessors, Successors
<1>11. Least'
  <2>1. Solutions' = Solutions /\ reachable' = reachable
    BY <1>1, SameInput
  <2> QED BY <1>9, <1>10, <2>1 DEF Least
<1> QED BY <1>4, <1>8, <1>11

LEMMA NextPreserves == SolverInv /\ [Next]_vars => SolverInv'
<1> SUFFICES ASSUME SolverInv, [Next]_vars PROVE SolverInv'
  OBVIOUS
<1>1. CASE Evaluate
  <2>1. ProblemOK' /\ TypeOK' /\ UNCHANGED input
    BY <1>1, Step
  <2>2. Rising' /\ Least'
    <3>1. CASE Monotone
      BY <1>1, <3>1, StepRises
    <3>2. CASE ~Monotone
      BY <2>1, <3>2, SameInput DEF Rising, Least
    <3> QED BY <3>1, <3>2
  <2> QED BY <1>1, <2>1, <2>2, StepSettles DEF SolverInv
<1>2. CASE UNCHANGED vars
  <2>1. /\ UNCHANGED input /\ Offered' = Offered
        /\ in_states' = in_states /\ out_states' = out_states
        /\ worklist' = worklist /\ queued' = queued /\ reachable' = reachable
    BY <1>2 DEF vars, input, Offered, Forward
  <2>2. \A x, m : NextIn(x, m)' = NextIn(x, m) /\ NextOut(x, m)' = NextOut(x, m)
    BY <2>1 DEF input, NextIn, NextOut, Transferred, Joined, Flow, Forward, Upstream, Predecessors, Successors
  <2>3. \A m : NextIn(Offered, m)' = NextIn(Offered, m) /\ NextOut(Offered, m)' = NextOut(Offered, m)
    BY <2>1 DEF input, NextIn, NextOut, Transferred, Joined, Flow, Forward, Upstream, Predecessors, Successors
  <2>4. ProblemOK' /\ TypeOK'
    BY <2>1 DEF SolverInv, ProblemOK, TypeOK, input
  <2>5. Settled'
    BY <2>1, <2>3 DEF SolverInv, Settled, SolvedAt
  <2>6. Rising' /\ Least'
    BY <2>1, <2>2, <2>3, SameInput DEF SolverInv, Rising, Least
  <2> QED BY <2>4, <2>5, <2>6 DEF SolverInv
<1> QED BY <1>1, <1>2 DEF Next

THEOREM Invariance == Spec => []SolverInv
BY InitEstablishes, NextPreserves, PTL DEF Spec

(* The states and the worklist keep their types. *)
THEOREM TypeCorrect == Spec => []TypeOK
<1>1. SolverInv => TypeOK
  BY DEF SolverInv
<1> QED BY <1>1, Invariance, PTL

(* The solver stops only at a solution, monotone problem or not. *)
THEOREM FixpointCorrect == Spec => []Fixpoint
<1>1. SolverInv => Fixpoint
  <2> SUFFICES ASSUME SolverInv, Done PROVE \A n \in reachable : SolvedAt(n)
    BY DEF Fixpoint
  <2>1. queued = {}
    BY DEF SolverInv, TypeOK, Done, Elements
  <2> QED BY <2>1 DEF SolverInv, Settled
<1> QED BY <1>1, Invariance, PTL

(* For a monotone problem no state ever exceeds any solution. *)
THEOREM LeastCorrect == Spec => []Least
<1>1. SolverInv => Least
  BY DEF SolverInv
<1> QED BY <1>1, Invariance, PTL

(* For a monotone problem every reevaluation only adds. *)
THEOREM ClimbsCorrect == Spec => Climbs
<1> DEFINE Up == Monotone => \A n \in reachable :
                    in_states[n] \subseteq in_states'[n] /\ out_states[n] \subseteq out_states'[n]
<1>1. SolverInv /\ [Next]_vars => [Up]_vars
  BY StepRises DEF Next
<1> QED BY <1>1, Invariance, PTL DEF Spec, Climbs

-----------------------------------------------------------------------------
(* Along every path.  Induction, first: from the well-founded order on the *)
(* natural numbers, as facts about sets of them.                           *)
LEMMA LessWellFounded ==
  \E R : IsWellFoundedOn(R, Nat) /\ \A x, y \in Nat : y < x => <<y, x>> \in R
<1>1. PICK R : R = OpToRel(<, Nat)
  OBVIOUS
<1>2. IsWellFoundedOn(R, Nat)
  BY <1>1, NatLessThanWellFounded, Zenon
<1>3. ASSUME NEW x \in Nat, NEW y \in Nat, y < x PROVE <<y, x>> \in R
  <2>1. R = {ss \in Nat \X Nat : ss[1] < ss[2]}
    BY <1>1 DEF OpToRel
  <2> QED BY <1>3, <2>1
<1> QED BY <1>2, <1>3

LEMMA LeastNumber ==
  ASSUME NEW T \in SUBSET Nat, T # {}
  PROVE  \E x \in T : \A y \in T : x <= y
<1>1. PICK R : IsWellFoundedOn(R, Nat) /\ \A x, y \in Nat : y < x => <<y, x>> \in R
  BY LessWellFounded
<1>2. PICK x \in T : \A y \in T : ~(<<y, x>> \in R)
  BY <1>1, WFMin, Zenon
<1>3. \A y \in T : ~(y < x)
  BY <1>1, <1>2
<1> QED BY <1>2, <1>3

LEMMA Induct ==
  ASSUME NEW T \in SUBSET Nat, 0 \in T, \A n \in T : n + 1 \in T
  PROVE  T = Nat
<1> SUFFICES ASSUME Nat \ T # {} PROVE FALSE
  OBVIOUS
<1>1. PICK x \in Nat \ T : \A y \in Nat \ T : x <= y
  BY LeastNumber, Nat \ T \in SUBSET Nat
<1>2. x # 0 /\ x - 1 \in Nat /\ x - 1 < x
  BY <1>1
<1>3. x - 1 \in T
  BY <1>1, <1>2
<1>4. (x - 1) + 1 \in T
  BY <1>3
<1> QED BY <1>1, <1>2, <1>4

(* The states of a problem that has finitely many, one above the other.    *)
FiniteChain == IsFiniteSet(State) /\ \A s, t \in State : s \subseteq t \/ t \subseteq s

LEMMA ChainHasGreatest ==
  ASSUME FiniteChain, NEW F \in SUBSET State, F # {}
  PROVE  UNION F \in F
<1> DEFINE Beyond(s) == {t \in F : ~(t \subseteq s)}
           Sizes == {Cardinality(Beyond(s)) : s \in F}
<1>1. IsFiniteSet(F)
  BY FS_Subset DEF FiniteChain
<1>2. \A s : IsFiniteSet(Beyond(s)) /\ Cardinality(Beyond(s)) \in Nat
  <2> TAKE s
  <2>1. Beyond(s) \in SUBSET F
    OBVIOUS
  <2>2. IsFiniteSet(Beyond(s))
    BY <1>1, <2>1, FS_Subset
  <2> QED BY <2>2, FS_CardinalityType
<1>3. PICK least \in Sizes : \A size \in Sizes : least <= size
  <2>1. Sizes \in SUBSET Nat /\ Sizes # {}
    BY <1>2
  <2> HIDE DEF Sizes
  <2> QED BY <2>1, LeastNumber
<1>4. PICK s \in F : \A t \in F : Cardinality(Beyond(s)) <= Cardinality(Beyond(t))
  BY <1>3
<1>5. ASSUME NEW t \in Beyond(s) PROVE FALSE
  <2>1. t \in F /\ s \subseteq t
    BY <1>5 DEF FiniteChain
  <2>2. Beyond(t) \in SUBSET Beyond(s) /\ t \notin Beyond(t)
    BY <2>1
  <2>3. Beyond(t) # Beyond(s)
    BY <1>5, <2>2
  <2> DEFINE A == Beyond(s)
             B == Beyond(t)
  <2>4. Cardinality(A) \in Nat /\ Cardinality(B) \in Nat /\ IsFiniteSet(A)
    BY <1>2
  <2>5. Cardinality(A) <= Cardinality(B)
    BY <1>4, <2>1
  <2>6. B \in SUBSET A /\ B # A
    BY <2>2, <2>3
  <2> HIDE DEF A, B
  <2>7. Cardinality(B) <= Cardinality(A) /\ (Cardinality(A) = Cardinality(B) => A = B)
    BY <2>4, <2>6, FS_Subset
  <2> QED BY <2>4, <2>5, <2>6, <2>7
<1>6. UNION F = s
  BY <1>5
<1> QED BY <1>6

-----------------------------------------------------------------------------
(* What the recursion of the paths says, and that something satisfies it.  *)
LEMMA WithinExists ==
  ASSUME NEW n \in Nat
  PROVE  \E w : w = [k \in 0..n |-> IF k = 0 THEN Starts ELSE Extended(w[k - 1])]
<1> DEFINE Upto(m, w) == w = [k \in 0..m |-> IF k = 0 THEN Starts ELSE Extended(w[k - 1])]
           T == {m \in Nat : \E w : Upto(m, w)}
<1>1. 0 \in T
  <2>1. Upto(0, [k \in 0..0 |-> Starts])
    <3> DEFINE v == [k \in 0..0 |-> Starts]
    <3>1. \A k \in 0..0 : k = 0
      OBVIOUS
    <3>2. v = [k \in 0..0 |-> IF k = 0 THEN Starts ELSE Extended(v[k - 1])]
      BY <3>1
    <3> QED BY <3>2
  <2> QED BY <2>1
<1>2. ASSUME NEW m \in T PROVE m + 1 \in T
  <2>1. PICK w : Upto(m, w)
    BY <1>2
  <2> DEFINE v == [k \in 0..(m + 1) |-> IF k <= m THEN w[k] ELSE Extended(w[m])]
  <2>2. m \in Nat
    BY <1>2
  <2>3. \A k \in 0..(m + 1) : v[k] = IF k = 0 THEN Starts ELSE Extended(v[k - 1])
    <3> TAKE k \in 0..(m + 1)
    <3>1. CASE k = m + 1
      <4>1. k \in Nat /\ ~(k <= m) /\ k # 0 /\ k - 1 = m /\ m \in 0..(m + 1) /\ m <= m
        BY <2>2, <3>1
      <4>2. v[m] = w[m] /\ v[k] = Extended(w[m])
        BY <4>1
      <4> QED BY <4>1, <4>2
    <3>2. CASE k = 0
      <4>1. 0 \in 0..m /\ k <= m
        BY <2>2, <3>2
      <4>2. w[0] = Starts
        BY <2>1, <4>1
      <4> QED BY <3>2, <4>1, <4>2
    <3>3. CASE k # 0 /\ k # m + 1
      <4>1. k \in 0..m /\ k <= m /\ k - 1 <= m /\ k - 1 \in 0..(m + 1)
        BY <2>2, <3>3
      <4>2. w[k] = Extended(w[k - 1])
        BY <2>1, <3>3, <4>1
      <4>3. v[k] = w[k] /\ v[k - 1] = w[k - 1]
        BY <4>1
      <4> QED BY <3>3, <4>2, <4>3
    <3> QED BY <3>1, <3>2, <3>3
  <2>4. Upto(m + 1, v)
    BY <2>3
  <2>5. m + 1 \in Nat
    BY <2>2
  <2> HIDE DEF v, Upto
  <2> QED BY <2>4, <2>5
<1>3. T = Nat
  <2> HIDE DEF T
  <2>1. T \in SUBSET Nat
    BY DEF T
  <2> QED BY <1>1, <1>2, <2>1, Induct
<1>4. n \in T
  BY <1>3
<1> QED BY <1>4

LEMMA LongestType ==
  ASSUME FiniteChain, reachable \in SUBSET Node
  PROVE  /\ IsFiniteSet(reachable \X State)
         /\ Longest \in Nat
         /\ Cardinality(reachable \X State) = Longest
<1>1. IsFiniteSet(reachable) /\ IsFiniteSet(State)
  BY NodeAssumption, FS_Subset DEF FiniteChain
<1>2. Cardinality(reachable) \in Nat /\ Cardinality(State) \in Nat
  BY <1>1, FS_CardinalityType
<1>3. IsFiniteSet(reachable \X State) /\ Cardinality(reachable \X State) = Longest
  BY <1>1, FS_Product DEF Longest
<1> QED BY <1>2, <1>3, FS_CardinalityType

LEMMA WithinSteps ==
  ASSUME FiniteChain, reachable \in SUBSET Node
  PROVE  /\ Within[0] = Starts
         /\ \A k \in 0..Longest : k + 1 \in 0..Longest => Within[k + 1] = Extended(Within[k])
<1>1. Longest \in Nat
  BY LongestType
<1>2. Within = [k \in 0..Longest |-> IF k = 0 THEN Starts ELSE Extended(Within[k - 1])]
  BY <1>1, WithinExists DEF Within
<1>3. \A k \in 0..Longest : Within[k] = IF k = 0 THEN Starts ELSE Extended(Within[k - 1])
  BY <1>2
<1>4. Within[0] = Starts
  BY <1>1, <1>3
<1>5. ASSUME NEW k \in 0..Longest, k + 1 \in 0..Longest PROVE Within[k + 1] = Extended(Within[k])
  <2>1. k \in Nat /\ k + 1 # 0 /\ (k + 1) - 1 = k
    BY <1>1
  <2> QED BY <1>3, <1>5, <2>1
<1> QED BY <1>4, <1>5

-----------------------------------------------------------------------------
(* What one more step of a path adds to the state it is in.                *)
Arrival(c) == <<c[1], problem.boundary[c[1]] \cup c[2]>>
ClosedUnderSteps(G) == \A p \in G : \A c \in Crossings(p[1], p[2]) : Arrival(c) \in G

LEMMA ExtendedAdds ==
  ASSUME NEW P
  PROVE  /\ P \subseteq Extended(P)
         /\ \A q \in Extended(P) : q \in P \/ \E p \in P : \E c \in Crossings(p[1], p[2]) : q = Arrival(c)
         /\ \A p \in P : \A c \in Crossings(p[1], p[2]) : Arrival(c) \in Extended(P)
<1> QED BY DEF Extended, Arrival

(* A crossing goes down an arc, and carries what the arc lets flow.        *)
LEMMA CrossingFlows ==
  ASSUME ProblemOK, NEW n \in reachable, NEW s \in State, NEW c \in Crossings(n, s)
  PROVE  /\ c[1] \in reachable /\ n \in Upstream(c[1])
         /\ c[2] = Flow(n, c[1], problem.transfer[n][s])
         /\ c[2] \in State
<1> DEFINE t == problem.transfer[n][s]
<1>1. reachable \subseteq Node /\ edges \subseteq Node \X Node /\ t \in State
  BY DEF ProblemOK, Problem
<1>2. CASE Forward
  <2>1. PICK e \in Arcs : e[1] = n /\ t \in problem.executable[e] /\ c = <<e[2], problem.edge[e][t]>>
    BY <1>2 DEF Crossings
  <2>2. e = <<n, e[2]>> /\ e[2] \in reachable /\ e \in edges
    BY <1>1, <2>1 DEF Arcs
  <2>3. problem.edge[e] \in [State -> State]
    BY <1>1, <2>2 DEF ProblemOK, Problem
  <2>4. c[1] = e[2] /\ c[2] = problem.edge[e][t]
    BY <2>1
  <2>5. n \in Upstream(c[1])
    BY <1>1, <1>2, <2>2, <2>4 DEF Upstream, Predecessors
  <2>6. Flow(n, c[1], t) = problem.edge[e][t]
    BY <1>2, <2>1, <2>2, <2>4 DEF Flow
  <2> QED BY <1>1, <2>2, <2>3, <2>4, <2>5, <2>6
<1>3. CASE ~Forward
  <2>1. PICK e \in Arcs : e[2] = n /\ c = <<e[1], t>>
    BY <1>3 DEF Crossings
  <2>2. e = <<e[1], n>> /\ e[1] \in reachable /\ e \in edges
    BY <1>1, <2>1 DEF Arcs
  <2>3. c[1] = e[1] /\ c[2] = t
    BY <2>1
  <2>4. n \in Upstream(c[1])
    BY <1>1, <1>3, <2>2, <2>3 DEF Upstream, Successors
  <2>5. Flow(n, c[1], t) = t
    BY <1>3 DEF Flow
  <2> QED BY <1>1, <2>2, <2>3, <2>4, <2>5
<1> QED BY <1>2, <1>3

(* And whatever flows is carried by a crossing.                            *)
LEMMA FlowCrosses ==
  ASSUME ProblemOK, NEW m \in reachable, NEW n \in Upstream(m), NEW s \in State
  PROVE  LET f == Flow(n, m, problem.transfer[n][s])
         IN  f = {} \/ <<m, f>> \in Crossings(n, s)
<1> DEFINE t == problem.transfer[n][s]
<1>1. n \in reachable /\ n \in Node /\ m \in Node
  BY DEF Upstream, ProblemOK
<1>2. CASE Forward
  <2>1. <<n, m>> \in Arcs
    BY <1>1, <1>2 DEF Upstream, Predecessors, Arcs
  <2>2. CASE t \in problem.executable[<<n, m>>]
    <3>1. Flow(n, m, t) = problem.edge[<<n, m>>][t]
      BY <1>2, <2>2 DEF Flow
    <3>2. <<m, problem.edge[<<n, m>>][t]>> \in Crossings(n, s)
      BY <1>2, <2>1, <2>2 DEF Crossings
    <3> QED BY <3>1, <3>2
  <2>3. CASE t \notin problem.executable[<<n, m>>]
    BY <1>2, <2>3 DEF Flow
  <2> QED BY <2>2, <2>3
<1>3. CASE ~Forward
  <2>1. <<m, n>> \in Arcs
    BY <1>1, <1>3 DEF Upstream, Successors, Arcs
  <2>2. <<m, t>> \in Crossings(n, s)
    BY <1>3, <2>1 DEF Crossings
  <2> QED BY <1>3, <2>2 DEF Flow
<1> QED BY <1>2, <1>3

LEMMA UnionOfTwo ==
  ASSUME NEW s \in State, NEW t \in State
  PROVE  s \cup t \in State
<1>1. UNION {s, t} = s \cup t /\ {s, t} \in SUBSET State
  OBVIOUS
<1> QED BY <1>1, JoinAssumption

LEMMA PathTypes ==
  ASSUME ProblemOK
  PROVE  Starts \subseteq reachable \X State /\ ClosedUnderSteps(reachable \X State)
<1>1. \A n \in reachable : problem.boundary[n] \in State
  BY DEF ProblemOK, Problem
<1>2. Starts \subseteq reachable \X State
  BY <1>1 DEF Starts
<1>3. ASSUME NEW p \in reachable \X State, NEW c \in Crossings(p[1], p[2])
      PROVE  Arrival(c) \in reachable \X State
  <2>1. c[1] \in reachable /\ c[2] \in State
    BY CrossingFlows
  <2>2. problem.boundary[c[1]] \cup c[2] \in State
    BY <1>1, <2>1, UnionOfTwo
  <2> QED BY <2>1, <2>2 DEF Arrival
<1> QED BY <1>2, <1>3 DEF ClosedUnderSteps

(* Whatever holds where paths start and along a step holds on every path.  *)
LEMMA PathsWithin ==
  ASSUME FiniteChain, reachable \in SUBSET Node,
         NEW G, Starts \subseteq G, ClosedUnderSteps(G)
  PROVE  \A k \in 0..Longest : Within[k] \subseteq G
<1> DEFINE T == {k \in Nat : k \in 0..Longest => Within[k] \subseteq G}
<1>0. Longest \in Nat
  BY LongestType
<1>1. 0 \in T
  BY WithinSteps
<1>2. ASSUME NEW k \in T PROVE k + 1 \in T
  <2>1. k \in Nat
    OBVIOUS
  <2>2. ASSUME k + 1 \in 0..Longest PROVE Within[k + 1] \subseteq G
    <3>1. k \in 0..Longest
      BY <1>0, <2>1, <2>2
    <3>2. Within[k + 1] = Extended(Within[k]) /\ Within[k] \subseteq G
      BY <2>2, <3>1, WithinSteps
    <3>3. ASSUME NEW q \in Extended(Within[k]) PROVE q \in G
      BY <3>2, ExtendedAdds DEF ClosedUnderSteps
    <3> QED BY <3>2, <3>3
  <2> QED BY <2>1, <2>2
<1>3. T = Nat
  <2>1. T \in SUBSET Nat
    OBVIOUS
  <2> HIDE DEF T
  <2> QED BY <1>1, <1>2, <2>1, Induct
<1> QED BY <1>0, <1>3

(* The paths considered are enough: going on from one of them gives no     *)
(* state that none of them gives.                                          *)
LEMMA PathsClosed ==
  ASSUME FiniteChain, ProblemOK
  PROVE  /\ Starts \subseteq PathStates
         /\ PathStates \subseteq reachable \X State
         /\ ClosedUnderSteps(PathStates)
<1> DEFINE U == reachable \X State
           Enough(k) == ClosedUnderSteps(Within[k]) \/ Cardinality(Within[k]) >= k
           T == {k \in Nat : k \in 0..Longest => Starts \subseteq Within[k] /\ Enough(k)}
<1>1. reachable \in SUBSET Node
  BY DEF ProblemOK
<1>2. Longest \in Nat /\ IsFiniteSet(U) /\ Cardinality(U) = Longest
  BY <1>1, LongestType
<1>3. \A k \in 0..Longest : Within[k] \subseteq U
  BY <1>1, PathTypes, PathsWithin
<1>4. \A k \in 0..Longest : IsFiniteSet(Within[k]) /\ Cardinality(Within[k]) \in Nat
  <2> TAKE k \in 0..Longest
  <2>1. IsFiniteSet(Within[k])
    BY <1>2, <1>3, FS_Subset
  <2> QED BY <2>1, FS_CardinalityType
<1>5. 0 \in T
  <2>1. 0 \in 0..Longest
    BY <1>2
  <2>2. Cardinality(Within[0]) >= 0 /\ Starts \subseteq Within[0]
    BY <1>1, <1>4, <2>1, WithinSteps
  <2> QED BY <2>2
<1>6. ASSUME NEW k \in T PROVE k + 1 \in T
  <2>0. k \in Nat
    OBVIOUS
  <2>1. ASSUME k + 1 \in 0..Longest PROVE Starts \subseteq Within[k + 1] /\ Enough(k + 1)
    <3>1. k \in 0..Longest
      BY <1>2, <2>0, <2>1
    <3>2. Within[k + 1] = Extended(Within[k]) /\ Within[k] \subseteq Within[k + 1]
      BY <1>1, <2>1, <3>1, WithinSteps, ExtendedAdds
    <3>3. Starts \subseteq Within[k] /\ Enough(k)
      BY <3>1
    <3>4. CASE ClosedUnderSteps(Within[k])
      <4>1. Within[k + 1] \subseteq Within[k]
        <5> SUFFICES ASSUME NEW q \in Extended(Within[k]) PROVE q \in Within[k]
          BY <3>2
        <5> QED BY <3>4, ExtendedAdds DEF ClosedUnderSteps
      <4>2. Within[k + 1] = Within[k]
        BY <3>2, <4>1
      <4> QED BY <3>3, <3>4, <4>2
    <3>5. CASE ~ClosedUnderSteps(Within[k])
      <4>1. Within[k + 1] # Within[k]
        BY <3>2, <3>5, ExtendedAdds DEF ClosedUnderSteps
      <4> DEFINE A == Within[k + 1]
                 B == Within[k]
      <4>2. IsFiniteSet(A) /\ B \in SUBSET A /\ A # B
        BY <1>4, <2>1, <3>2, <4>1
      <4>3. Cardinality(A) \in Nat /\ Cardinality(B) \in Nat /\ Cardinality(B) >= k
        BY <1>4, <2>1, <3>1, <3>3, <3>5
      <4>4. Starts \subseteq A
        BY <3>2, <3>3
      <4> HIDE DEF A, B
      <4>5. Cardinality(B) <= Cardinality(A) /\ Cardinality(A) # Cardinality(B)
        BY <4>2, FS_Subset
      <4>6. Cardinality(A) >= k + 1
        BY <2>0, <4>3, <4>5
      <4> QED BY <4>4, <4>6 DEF A
    <3> QED BY <3>4, <3>5
  <2> HIDE DEF Enough
  <2> QED BY <2>0, <2>1
<1>7. T = Nat
  <2>1. T \in SUBSET Nat
    OBVIOUS
  <2> HIDE DEF T
  <2> QED BY <1>5, <1>6, <2>1, Induct
<1>8. Longest \in 0..Longest
  BY <1>2
<1>9. Starts \subseteq Within[Longest] /\ Enough(Longest)
  BY <1>2, <1>7, <1>8
<1>10. CASE Cardinality(Within[Longest]) >= Longest
  <2> DEFINE A == Within[Longest]
  <2>1. A \in SUBSET U /\ Cardinality(A) >= Longest /\ Cardinality(A) \in Nat
    BY <1>3, <1>4, <1>8, <1>10
  <2> HIDE DEF A, U
  <2>2. Cardinality(A) <= Longest /\ (Cardinality(U) = Cardinality(A) => U = A)
    BY <1>2, <2>1, FS_Subset
  <2>3. A = U
    BY <1>2, <2>1, <2>2
  <2>4. ClosedUnderSteps(A)
    BY <2>3, PathTypes DEF U
  <2> QED BY <1>3, <1>8, <1>9, <2>4 DEF PathStates, A, U
<1>11. CASE ClosedUnderSteps(Within[Longest])
  BY <1>3, <1>8, <1>9, <1>11 DEF PathStates
<1> QED BY <1>9, <1>10, <1>11

-----------------------------------------------------------------------------
(* The join of the states the paths reach a node in. *)
AlongPaths(n) == UNION {p[2] : p \in {q \in PathStates : q[1] = n}}

LEMMA AlongPathsReached ==
  ASSUME FiniteChain, ProblemOK, NEW n \in reachable
  PROVE  AlongPaths(n) \in State /\ <<n, AlongPaths(n)>> \in PathStates
<1> DEFINE F == {p[2] : p \in {q \in PathStates : q[1] = n}}
<1>1. \A s \in F : s \in State /\ <<n, s>> \in PathStates
  BY PathsClosed
<1>2. problem.boundary[n] \in F
  <2>1. PICK p : p = <<n, problem.boundary[n]>>
    OBVIOUS
  <2>2. p \in Starts /\ p[1] = n /\ p[2] = problem.boundary[n]
    BY <2>1 DEF Starts
  <2>3. p \in PathStates
    BY <2>2, PathsClosed
  <2> QED BY <2>2, <2>3
<1>3. F \in SUBSET State /\ F # {}
  BY <1>1, <1>2
<1> HIDE DEF F
<1>4. UNION F \in F
  BY <1>3, ChainHasGreatest
<1> QED BY <1>1, <1>4 DEF F, AlongPaths

(* What the paths join to solves the equations of the problem.             *)
LEMMA PathsSolve ==
  ASSUME FiniteChain, ProblemOK, Monotone
  PROVE  \E x \in Solutions : \A n \in reachable : Joined(x, n) = AlongPaths(n)
<1> DEFINE x == [n \in reachable |-> problem.transfer[n][AlongPaths(n)]]
<1>1. reachable \subseteq Node /\ \A n \in reachable : problem.transfer[n] \in [State -> State]
  BY DEF ProblemOK, Problem
<1>2. \A n \in reachable : AlongPaths(n) \in State /\ <<n, AlongPaths(n)>> \in PathStates
  BY AlongPathsReached
<1>3. x \in [reachable -> State]
  BY <1>1, <1>2
<1>4. ASSUME NEW n \in reachable PROVE Joined(x, n) \subseteq AlongPaths(n)
  <2>1. problem.boundary[n] \subseteq AlongPaths(n)
    <3>1. PICK p : p = <<n, problem.boundary[n]>>
      OBVIOUS
    <3>2. p \in Starts /\ p[1] = n /\ p[2] = problem.boundary[n]
      BY <3>1 DEF Starts
    <3>3. p \in PathStates
      BY <3>2, PathsClosed
    <3> QED BY <3>2, <3>3 DEF AlongPaths
  <2>2. ASSUME NEW m \in Upstream(n) PROVE Flow(m, n, x[m]) \subseteq AlongPaths(n)
    <3> DEFINE f == Flow(m, n, problem.transfer[m][AlongPaths(m)])
    <3>1. m \in reachable
      BY DEF Upstream
    <3>2. f = {} \/ <<n, f>> \in Crossings(m, AlongPaths(m))
      BY <1>2, <3>1, FlowCrosses
    <3>3. x[m] = problem.transfer[m][AlongPaths(m)]
      BY <3>1
    <3> HIDE DEF f, x
    <3>4. ASSUME <<n, f>> \in Crossings(m, AlongPaths(m)) PROVE f \subseteq AlongPaths(n)
      <4>1. PICK p : p = <<m, AlongPaths(m)>>
        OBVIOUS
      <4>2. PICK c : c = <<n, f>>
        OBVIOUS
      <4>3. p \in PathStates /\ c \in Crossings(p[1], p[2])
        BY <1>2, <3>1, <3>4, <4>1, <4>2
      <4>4. Arrival(c) \in PathStates
        BY <4>3, PathsClosed DEF ClosedUnderSteps
      <4>5. Arrival(c)[1] = n /\ f \subseteq Arrival(c)[2]
        BY <4>2 DEF Arrival
      <4> QED BY <4>4, <4>5 DEF AlongPaths
    <3> QED BY <3>2, <3>3, <3>4 DEF f
  <2> QED BY <2>1, <2>2 DEF Joined
<1> HIDE DEF x
<1>5. \A n \in reachable : x[n] = problem.transfer[n][AlongPaths(n)]
  BY DEF x
<1>6. \A p \in PathStates : p[2] \subseteq Joined(x, p[1])
  <2> DEFINE G == {p \in PathStates : p[2] \subseteq Joined(x, p[1])}
  <2>1. Starts \subseteq G
    BY PathsClosed DEF Starts, Joined
  <2>2. ASSUME NEW p \in G, NEW c \in Crossings(p[1], p[2]) PROVE Arrival(c) \in G
    <3>1. p \in PathStates /\ p[1] \in reachable /\ p[2] \in State
      BY PathsClosed
    <3>2. p[2] \subseteq AlongPaths(p[1])
      BY <3>1 DEF AlongPaths
    <3>3. /\ c[1] \in reachable /\ p[1] \in Upstream(c[1])
          /\ c[2] = Flow(p[1], c[1], problem.transfer[p[1]][p[2]])
      BY <3>1, CrossingFlows
    <3>4. problem.transfer[p[1]][p[2]] \subseteq x[p[1]]
      <4>1. p[1] \in Node /\ AlongPaths(p[1]) \in State
        BY <1>1, <1>2, <3>1
      <4>2. problem.transfer[p[1]][p[2]] \subseteq problem.transfer[p[1]][AlongPaths(p[1])]
        BY <3>1, <3>2, <4>1 DEF Monotone
      <4> QED BY <1>5, <3>1, <4>2
    <3>5. problem.transfer[p[1]][p[2]] \in State /\ x[p[1]] \in State
      BY <1>1, <1>3, <3>1
    <3>6. c[2] \subseteq Flow(p[1], c[1], x[p[1]])
      BY <1>1, <3>1, <3>3, <3>4, <3>5 DEF Monotone
    <3>7. problem.boundary[c[1]] \cup c[2] \subseteq Joined(x, c[1])
      BY <3>3, <3>6 DEF Joined
    <3>8. Arrival(c) \in PathStates
      BY <3>1, PathsClosed DEF ClosedUnderSteps
    <3> QED BY <3>7, <3>8 DEF Arrival
  <2>3. ClosedUnderSteps(G)
    BY <2>2 DEF ClosedUnderSteps
  <2> HIDE DEF G
  <2>4. \A k \in 0..Longest : Within[k] \subseteq G
    BY <2>1, <2>3, PathsWithin DEF ProblemOK
  <2>5. Longest \in 0..Longest
    BY LongestType DEF ProblemOK
  <2>6. PathStates \subseteq G
    BY <2>4, <2>5 DEF PathStates
  <2> QED BY <2>6 DEF G
<1>7. ASSUME NEW n \in reachable PROVE Joined(x, n) = AlongPaths(n)
  <2>1. <<n, AlongPaths(n)>> \in PathStates
    BY <1>2
  <2>2. AlongPaths(n) \subseteq Joined(x, n)
    BY <1>6, <2>1
  <2> QED BY <1>4, <2>2
<1>8. x \in Solutions
  BY <1>3, <1>5, <1>7 DEF Solutions, Transferred
<1> QED BY <1>7, <1>8

(* No path reaches a node in a state the equations do not allow.           *)
LEMMA PathsBelow ==
  ASSUME FiniteChain, SolverInv, Monotone, \A n \in reachable : SolvedAt(n)
  PROVE  \A n \in reachable : AlongPaths(n) \subseteq Joined(Offered, n)
<1>1. ProblemOK /\ Offered \in [reachable -> State]
  BY DEF SolverInv, TypeOK, Offered
<1>2. reachable \subseteq Node /\ \A n \in reachable : problem.transfer[n] \in [State -> State]
  BY <1>1 DEF ProblemOK, Problem
<1>3. \A n \in reachable : Offered[n] = problem.transfer[n][Joined(Offered, n)]
  BY DEF SolvedAt, NextIn, NextOut, Offered, Transferred
<1> DEFINE G == {p \in reachable \X State : p[2] \subseteq Joined(Offered, p[1])}
<1>4. Starts \subseteq G
  BY <1>1, PathTypes DEF Starts, Joined
<1>5. ASSUME NEW p \in G, NEW c \in Crossings(p[1], p[2]) PROVE Arrival(c) \in G
  <2>1. p[1] \in reachable /\ p[2] \in State /\ p[2] \subseteq Joined(Offered, p[1])
    OBVIOUS
  <2>2. Joined(Offered, p[1]) \in State
    BY <1>1, <2>1, EvaluationType
  <2>3. /\ c[1] \in reachable /\ p[1] \in Upstream(c[1])
        /\ c[2] = Flow(p[1], c[1], problem.transfer[p[1]][p[2]])
    BY <1>1, <2>1, CrossingFlows
  <2>4. problem.transfer[p[1]][p[2]] \subseteq Offered[p[1]]
    BY <1>2, <1>3, <2>1, <2>2 DEF Monotone
  <2>5. problem.transfer[p[1]][p[2]] \in State /\ Offered[p[1]] \in State
    BY <1>1, <1>2, <2>1
  <2>6. c[2] \subseteq Flow(p[1], c[1], Offered[p[1]])
    BY <1>2, <2>1, <2>3, <2>4, <2>5 DEF Monotone
  <2>7. problem.boundary[c[1]] \cup c[2] \subseteq Joined(Offered, c[1])
    BY <2>3, <2>6 DEF Joined
  <2>8. Arrival(c) \in reachable \X State
    BY <1>1, <2>1, PathTypes DEF ClosedUnderSteps
  <2> QED BY <2>7, <2>8 DEF Arrival
<1>6. ClosedUnderSteps(G)
  BY <1>5 DEF ClosedUnderSteps
<1> HIDE DEF G
<1>7. \A k \in 0..Longest : Within[k] \subseteq G
  BY <1>1, <1>4, <1>6, PathsWithin DEF ProblemOK
<1>8. Longest \in 0..Longest
  BY <1>1, LongestType DEF ProblemOK
<1>9. PathStates \subseteq G
  BY <1>7, <1>8 DEF PathStates
<1> QED BY <1>9 DEF G, AlongPaths

(* For every finite chain of states and every monotone problem, in every   *)
(* graph, forward or backward: the solver stops with exactly the join over *)
(* all paths that follow executable edges.                                 *)
THEOREM MeetOverPathsCorrect == FiniteChain /\ Monotone /\ Spec => []MeetOverPaths
<1>1. SolverInv /\ FiniteChain /\ Monotone => MeetOverPaths
  <2> SUFFICES ASSUME SolverInv, FiniteChain, Monotone, Done, NEW n \in reachable
               PROVE  (IF Forward THEN in_states ELSE out_states)[n] = AlongPaths(n)
    BY DEF MeetOverPaths, AlongPaths
  <2>1. ProblemOK /\ Least /\ queued = {}
    BY DEF SolverInv, TypeOK, Done, Elements
  <2>2. \A m \in reachable : SolvedAt(m)
    BY <2>1 DEF SolverInv, Settled
  <2>3. (IF Forward THEN in_states ELSE out_states)[n] = Joined(Offered, n)
    BY <2>2 DEF SolvedAt, NextIn, NextOut
  <2>4. PICK x \in Solutions : \A m \in reachable : Joined(x, m) = AlongPaths(m)
    BY <2>1, PathsSolve
  <2>5. (IF Forward THEN in_states ELSE out_states)[n] \subseteq AlongPaths(n)
    BY <2>1, <2>4 DEF Least, NextIn, NextOut
  <2>6. AlongPaths(n) \subseteq Joined(Offered, n)
    BY <2>2, PathsBelow
  <2> QED BY <2>3, <2>5, <2>6
<1>2. Monotone /\ [Next]_vars => Monotone'
  BY SameInput DEF Next, Evaluate, vars, input
<1>3. FiniteChain => FiniteChain'
  BY DEF FiniteChain
<1> QED BY <1>1, <1>2, <1>3, Invariance, PTL DEF Spec

-----------------------------------------------------------------------------
(* Where no block is on a loop, the list is what is left of the order, and *)
(* nothing joins it again.                                                 *)
LoopFree == \A n \in reachable : ~Graph!OnCycle(Node, edges, n)
InOrder ==
  /\ order \in Seq(reachable) /\ Elements(order) = reachable /\ NoRepeats(order)
  /\ Len(order) <= MaxCount
  /\ LoopFree => \A i, j \in DOMAIN order : order[j] \in Downstream(order[i]) => i < j
Once ==
  /\ evaluations \in Nat /\ evaluations + Len(worklist) = Len(order)
  /\ \A i \in DOMAIN worklist : worklist[i] = order[evaluations + i]

(* The solver as its clients run it: on the facts the walk gives, with a   *)
(* counter that does not saturate.                                         *)
WalkSpec == Init /\ GraphFacts /\ Cardinality(Node) <= MaxCount /\ [][Next]_vars

Walks == INSTANCE FlowGraphProofs

LEMMA WalkOrdersFlow ==
  ASSUME edges \in SUBSET (Node \X Node), LoopFree, NEW forward \in BOOLEAN,
         reachable = Graph!Reachable(Node, edges, Entry),
         order = Graph!EvaluationOrder(forward, Graph!Postorder(Node, edges, Entry))
  PROVE  \A i, j \in DOMAIN order :
           (IF forward THEN <<order[i], order[j]>> ELSE <<order[j], order[i]>>) \in edges => i < j
<1>1. Walks!Blocks
  BY NodeAssumption, SMTT(30) DEF Walks!Blocks, Walks!IsFiniteSet, IsFiniteSet
<1>2. \A E, s : Graph!Walk(Node, E, s) = Walks!Walk(Node, E, s)
  BY DEF Graph!Walk, Walks!Walk, Graph!Ascending, Walks!Ascending, Graph!Successors, Walks!Successors,
         Graph!Finish, Walks!Finish, Graph!Cardinality, Walks!Cardinality
<1>3. reachable = Walks!Reachable(Node, edges, Entry) /\ order = Walks!OrderOf(edges, Entry, forward)
  BY <1>2 DEF Graph!Reachable, Walks!Reachable, Graph!Postorder, Walks!Postorder, Walks!OrderOf,
              Graph!EvaluationOrder, Walks!EvaluationOrder, Graph!Reverse, Walks!Reverse
<1>4. \A n : Graph!OnCycle(Node, edges, n) <=> Walks!OnCycle(Node, edges, n)
  BY DEF Graph!OnCycle, Walks!OnCycle, Graph!Successors, Walks!Successors, Graph!ReachableFrom,
         Walks!ReachableFrom, Graph!Cardinality, Walks!Cardinality
<1>5. \A n \in Walks!Reachable(Node, edges, Entry) : ~Walks!OnCycle(Node, edges, n)
  BY <1>3, <1>4 DEF LoopFree
<1>6. Walks!InFlow(order, edges, forward)
  BY <1>1, <1>3, <1>5, EntryAssumption, Walks!WalkIsTopological
<1> QED
  BY <1>6 DEF Walks!InFlow, Walks!Flows

LEMMA WalkInit == Init /\ GraphFacts /\ Cardinality(Node) <= MaxCount => InOrder /\ Once
<1> SUFFICES ASSUME Init, GraphFacts, Cardinality(Node) <= MaxCount PROVE InOrder /\ Once
  OBVIOUS
<1>1. reachable \in SUBSET Node /\ edges \in SUBSET (Node \X Node) /\ order \in Listings(reachable)
  BY DEF Init
<1>2. order \in Seq(reachable) /\ Elements(order) = reachable /\ NoRepeats(order)
  BY <1>1, ListingElements
<1>3. Len(order) <= MaxCount
  <2>1. Len(order) = Cardinality(reachable)
    <3>1. Cardinality(reachable) \in Nat
      BY <1>1, FS_Subset, FS_CardinalityType, NodeAssumption
    <3>2. DOMAIN order = 1..Cardinality(reachable)
      BY <1>1 DEF Listings
    <3> QED
      BY <1>2, <3>1, <3>2
  <2>2. Cardinality(reachable) <= Cardinality(Node)
    BY <1>1, FS_Subset, NodeAssumption
  <2>3. Cardinality(reachable) \in Nat /\ Cardinality(Node) \in Nat /\ MaxCount \in Nat
    BY <1>1, FS_Subset, FS_CardinalityType, NodeAssumption, CountAssumption
  <2> QED
    BY <2>1, <2>2, <2>3
<1>4. LoopFree => \A i, j \in DOMAIN order : order[j] \in Downstream(order[i]) => i < j
  <2> SUFFICES ASSUME LoopFree, NEW i \in DOMAIN order, NEW j \in DOMAIN order, order[j] \in Downstream(order[i])
               PROVE  i < j
    OBVIOUS
  <2>1. order = Graph!EvaluationOrder(Forward, Graph!Postorder(Node, edges, Entry))
        /\ reachable = Graph!Reachable(Node, edges, Entry)
    BY DEF GraphFacts
  <2>2. Forward \in BOOLEAN
    BY DEF Forward
  <2>3. (IF Forward THEN <<order[i], order[j]>> ELSE <<order[j], order[i]>>) \in edges
    BY DEF Downstream, Successors, Predecessors
  <2> QED
    BY <1>1, <2>1, <2>2, <2>3, WalkOrdersFlow
<1>5. evaluations = 0 /\ worklist = order
  BY DEF Init, Begin
<1>6. Once
  BY <1>2, <1>5 DEF Once
<1> QED
  BY <1>2, <1>3, <1>4, <1>6 DEF InOrder

LEMMA WalkStep == SolverInv /\ InOrder /\ LoopFree /\ Once /\ Evaluate => Once'
<1> SUFFICES ASSUME SolverInv, InOrder, LoopFree, Once, Evaluate PROVE Once'
  OBVIOUS
<1> DEFINE n == Head(worklist)
<1>1. worklist # <<>> /\ worklist \in Seq(reachable) /\ queued = Elements(worklist) /\ NoRepeats(worklist)
  BY DEF SolverInv, TypeOK, Evaluate, Evaluation
<1>2. n = worklist[1] /\ n = order[evaluations + 1] /\ evaluations + 1 \in DOMAIN order
  BY <1>1 DEF Once, InOrder
<1>3. ASSUME NEW d \in Downstream(n) PROVE d \in queued \ {n}
  <2>1. PICK j \in DOMAIN order : order[j] = d
    BY DEF InOrder, Elements, Downstream
  <2>2. evaluations + 1 < j
    BY <1>2, <2>1 DEF InOrder
  <2>3. j - evaluations \in DOMAIN worklist /\ worklist[j - evaluations] = d /\ j - evaluations # 1
    BY <1>1, <2>1, <2>2, SMTT(60) DEF Once, InOrder
  <2>4. d \in queued
    BY <1>1, <2>3 DEF Elements
  <2>5. 1 \in DOMAIN worklist
    BY <1>1
  <2>6. d # n
    BY <1>1, <1>2, <2>3, <2>5 DEF NoRepeats
  <2> QED
    BY <2>4, <2>6
<1>4. Requeued(n) = {}
  BY <1>3 DEF Requeued
<1>5. PICK added \in Ascending({}) : worklist' = Tail(worklist) \o added
  BY <1>4 DEF Evaluate, Evaluation
<1>6. added = <<>>
  BY <1>5, FS_EmptySet, ListingElements DEF Ascending, Listings
<1>7. worklist' = Tail(worklist)
  BY <1>1, <1>5, <1>6
<1>8. evaluations' = evaluations + 1
  BY <1>1, <1>2, CountAssumption DEF Evaluate, Evaluation, InOrder, Once
<1>9. order' = order
  BY DEF Evaluate, input
<1> QED
  BY <1>1, <1>7, <1>8, <1>9, SMTT(60) DEF Once

(* For every graph, problem and direction: a routine without loops is      *)
(* evaluated once per block, given an order as the walk promises it.       *)
THEOREM OncePerNodeCorrect == WalkSpec => []OncePerNode
<1> DEFINE Inv == SolverInv /\ InOrder /\ (LoopFree => Once)
<1>1. Init /\ GraphFacts /\ Cardinality(Node) <= MaxCount => Inv
  BY WalkInit, InitEstablishes
<1>2. Inv /\ [Next]_vars => Inv'
  <2> SUFFICES ASSUME Inv, [Next]_vars PROVE Inv'
    OBVIOUS
  <2>1. SolverInv'
    BY NextPreserves
  <2>2. UNCHANGED <<edges, reachable, order, direction, problem>>
    BY DEF Next, Evaluate, vars, input
  <2>3. InOrder' /\ (LoopFree' <=> LoopFree)
    BY <2>2 DEF InOrder, LoopFree, Downstream, Successors, Predecessors, Forward
  <2>4. CASE Evaluate
    BY <2>1, <2>3, <2>4, WalkStep
  <2>5. CASE UNCHANGED vars
    BY <2>1, <2>3, <2>5 DEF Once, vars, input
  <2> QED
    BY <2>4, <2>5 DEF Next
<1>3. Inv => OncePerNode
  <2> SUFFICES ASSUME Inv, Done, LoopFree PROVE evaluations = Len(order)
    BY DEF OncePerNode, LoopFree
  <2> QED
    BY DEF Done, Once, InOrder
<1> QED
  BY <1>1, <1>2, <1>3, PTL DEF WalkSpec

-----------------------------------------------------------------------------
(* Loops that change code by positions in it.                              *)
(* Positions that are not strictly inside a branch.                        *)
Boundary(p) == \A j \in Site : p <= at[j] \/ End(j) <= p

(* What is saved inside a branch is the difference of its two forms.       *)
Sized ==
  \A j \in Site : shift[End(j)] = shift[at[j]] + (long[j].size - form[j].size)

(* Boundaries only come closer, and never pass each other.                 *)
Ordered ==
  \A p, q \in Position :
    p <= q /\ Boundary(p) /\ Boundary(q) => shift[p] <= shift[q] /\ Placed(p) <= Placed(q)

(* What a branch has of its own saving left to count is none.              *)
Reaching ==
  \A j \in Site : form[j] # long[j] =>
    Reach(form[j], Placed(target[j]) - (Placed(at[j]) + form[j].base))

LayoutInv == InputOK /\ LayoutOK /\ Sized /\ Ordered /\ Reaching

-----------------------------------------------------------------------------
(* The fields of the forms that occur.                                     *)
LEMMA FormFacts ==
  ASSUME InputOK, LayoutOK, NEW j \in Site
  PROVE  /\ FormOK(form[j]) /\ FormOK(long[j]) /\ \A f \in forms[j] : FormOK(f)
         /\ form[j].size <= long[j].size
         /\ at[j] \in Position /\ End(j) \in Position /\ target[j] \in Position
         /\ at[j] < End(j)
         /\ End(j) = at[j] + long[j].size
<1>1. FormOK(long[j]) /\ (\A f \in forms[j] : FormOK(f)) /\ End(j) <= Last
  BY DEF InputOK
<1>2. at[j] \in Position /\ target[j] \in Position
  BY DEF InputOK
<1>3. form[j] = long[j] \/ (form[j] \in forms[j] /\ form[j].size < long[j].size)
  BY DEF LayoutOK
<1>4. FormOK(form[j])
  BY <1>1, <1>3
<1>5. long[j].size \in Nat \ {0} /\ form[j].size \in Nat \ {0}
  BY <1>1, <1>4 DEF FormOK, Form
<1>6. at[j] \in Nat /\ Last \in Nat
  BY <1>2, SiteAssumption DEF Position
<1>7. End(j) \in Position /\ at[j] < End(j)
  BY <1>1, <1>5, <1>6 DEF End, Position
<1> QED
  BY <1>1, <1>2, <1>3, <1>4, <1>5, <1>7 DEF End

(* Branches begin, end and lead at boundaries.                             *)
LEMMA Boundaries ==
  ASSUME InputOK, LayoutOK, NEW j \in Site
  PROVE  Boundary(at[j]) /\ Boundary(End(j)) /\ Boundary(target[j])
<1>1. Boundary(target[j])
  BY DEF InputOK, Boundary
<1>2. ASSUME NEW k \in Site
      PROVE  /\ at[j] <= at[k] \/ End(k) <= at[j]
             /\ End(j) <= at[k] \/ End(k) <= End(j)
  <2>1. at[j] \in Int /\ End(j) \in Int /\ at[k] \in Int /\ End(k) \in Int
    BY FormFacts DEF Position
  <2>2. at[j] < End(j) /\ at[k] < End(k)
    BY FormFacts
  <2>3. j = k \/ End(j) <= at[k] \/ End(k) <= at[j]
    BY DEF InputOK
  <2> QED
    BY <2>1, <2>2, <2>3
<1> QED
  BY <1>1, <1>2 DEF Boundary

-----------------------------------------------------------------------------
(* Nothing has shrunk at first.                                            *)
LEMMA InitIInv == Unshrunk => LayoutInv
<1> SUFFICES ASSUME Unshrunk PROVE LayoutInv
  OBVIOUS
<1>1. InputOK /\ form = long /\ shift = [p \in Position |-> 0]
  BY DEF Unshrunk
<1>2. LayoutOK
  BY <1>1 DEF InputOK, LayoutOK
<1>3. Sized
  <2> SUFFICES ASSUME NEW j \in Site
               PROVE  shift[End(j)] = shift[at[j]] + (long[j].size - form[j].size)
    BY DEF Sized
  <2>1. at[j] \in Position /\ End(j) \in Position /\ FormOK(long[j])
    BY <1>1, <1>2, FormFacts
  <2>2. long[j].size \in Nat
    BY <2>1 DEF FormOK, Form
  <2> QED
    BY <1>1, <2>1, <2>2
<1>4. Ordered
  BY <1>1 DEF Ordered, Placed, Position
<1>5. Reaching
  BY <1>1 DEF Reaching
<1> QED
  BY <1>1, <1>2, <1>3, <1>4, <1>5 DEF LayoutInv

(* What a branch's shrinking does to the positions.                        *)
LEMMA TakeMoves ==
  ASSUME LayoutInv, NEW i \in Site, NEW f \in forms[i], f.size < form[i].size, Take(i, f),
         NEW p \in Position, NEW q \in Position, p <= q, Boundary(p), Boundary(q)
  PROVE  /\ shift'[p] \in Nat /\ shift'[q] \in Nat
         /\ shift[q] - shift[p] <= shift'[q] - shift'[p]
         /\ shift'[p] <= shift'[q]
         /\ Placed(p)' <= Placed(q)'
<1> DEFINE d == form[i].size - f.size
<1>1. InputOK /\ LayoutOK /\ Sized /\ Ordered
  BY DEF LayoutInv
<1>2. /\ at[i] \in Position /\ End(i) \in Position /\ at[i] < End(i)
      /\ FormOK(form[i]) /\ FormOK(long[i]) /\ FormOK(f)
      /\ End(i) = at[i] + long[i].size
  BY <1>1, FormFacts
<1>3. /\ f.size \in Nat \ {0} /\ form[i].size \in Nat /\ long[i].size \in Nat
      /\ d \in Nat /\ p \in Int /\ q \in Int /\ at[i] \in Int /\ End(i) \in Int
  BY <1>2 DEF FormOK, Form, Position
<1>4. \A r \in Position : shift[r] \in Nat
  BY <1>1 DEF LayoutOK
<1>5. \A r \in Position : shift'[r] = IF End(i) <= r THEN shift[r] + d ELSE shift[r]
  BY DEF Take
<1>6. shift[p] <= shift[q] /\ p - shift[p] <= q - shift[q]
  BY <1>1 DEF Ordered, Placed
<1>7. ASSUME p < End(i), End(i) <= q
      PROVE  p - shift[p] + d <= q - shift[q]
  <2>1. p <= at[i]
    BY <1>3, <1>7 DEF Boundary
  <2>2. Boundary(at[i]) /\ Boundary(End(i))
    BY <1>1, Boundaries
  <2>3. p - shift[p] <= at[i] - shift[at[i]]
    BY <1>1, <1>2, <2>1, <2>2 DEF Ordered, Placed
  <2>4. End(i) - shift[End(i)] <= q - shift[q]
    BY <1>1, <1>2, <1>7, <2>2 DEF Ordered, Placed
  <2>5. shift[End(i)] = shift[at[i]] + (long[i].size - form[i].size)
    BY <1>1 DEF Sized
  <2> QED
    BY <1>2, <1>3, <1>4, <2>3, <2>4, <2>5
<1>8. shift'[p] \in Nat /\ shift'[q] \in Nat
  BY <1>3, <1>4, <1>5
<1>9. shift[q] - shift[p] <= shift'[q] - shift'[p] /\ shift'[p] <= shift'[q]
  BY <1>3, <1>4, <1>5, <1>6
<1>10. p - shift'[p] <= q - shift'[q]
  BY <1>3, <1>4, <1>5, <1>6, <1>7
<1> QED
  BY <1>8, <1>9, <1>10 DEF Placed

(* Taking a shorter form that reaches keeps everything, for the other      *)
(* branches too.                                                           *)
LEMMA TakeIInv ==
  ASSUME LayoutInv, NEW i \in Site, NEW f \in forms[i], f.size < form[i].size,
         Reach(f, Displacement(i, f)), Take(i, f)
  PROVE  LayoutInv'
<1>1. InputOK /\ LayoutOK /\ Sized /\ Ordered /\ Reaching
  BY DEF LayoutInv
<1>2. /\ at' = at /\ target' = target /\ forms' = forms /\ long' = long
      /\ form' = [form EXCEPT ![i] = f]
  BY DEF Take, branches
<1>3. \A j \in Site : End(j)' = End(j)
  BY <1>2 DEF End
<1>4. \A j \in Site : form'[j] = IF j = i THEN f ELSE form[j]
  BY <1>1, <1>2 DEF LayoutOK
<1>5. FormOK(f) /\ FormOK(form[i]) /\ f.size \in Nat \ {0} /\ form[i].size \in Nat
  BY <1>1, FormFacts DEF FormOK, Form
<1>6. \A r \in Position : /\ shift[r] \in Nat
                          /\ shift'[r] = IF End(i) <= r THEN shift[r] + (form[i].size - f.size)
                                         ELSE shift[r]
  BY <1>1 DEF Take, LayoutOK
<1>7. InputOK'
  <2>1. \A j \in Site : \A g \in Form : FormOK(g)' = FormOK(g)
    BY DEF FormOK
  <2> QED
    BY <1>1, <1>2, <1>3 DEF InputOK, FormOK
<1>8. LayoutOK'
  <2>1. form' \in [Site -> Form]
    BY <1>1, <1>2, <1>5 DEF LayoutOK, FormOK
  <2>2. shift' \in [Position -> Nat]
    <3>1. shift' = [p \in Position |-> IF End(i) <= p THEN shift[p] + (form[i].size - f.size)
                                       ELSE shift[p]]
      BY DEF Take
    <3>2. \A p \in Position : shift[p] \in Nat /\ shift[p] + (form[i].size - f.size) \in Nat
      BY <1>5, <1>6
    <3> QED
      BY <3>1, <3>2
  <2>3. ASSUME NEW j \in Site
        PROVE  form'[j] = long[j] \/ (form'[j] \in forms[j] /\ form'[j].size < long[j].size)
    <3>1. CASE j = i
      <4>1. form[i].size <= long[i].size /\ FormOK(long[i])
        BY <1>1, FormFacts
      <4>2. f.size < long[i].size
        BY <1>5, <4>1 DEF FormOK, Form
      <4> QED
        BY <1>4, <3>1, <4>2
    <3>2. CASE j # i
      BY <1>1, <1>4, <3>2 DEF LayoutOK
    <3> QED
      BY <3>1, <3>2
  <2> QED
    BY <1>2, <2>1, <2>2, <2>3 DEF LayoutOK
<1>9. Sized'
  <2> SUFFICES ASSUME NEW j \in Site
               PROVE  shift'[End(j)] = shift'[at[j]] + (long[j].size - form'[j].size)
    BY <1>2, <1>3 DEF Sized
  <2>1. /\ at[j] \in Position /\ End(j) \in Position /\ at[j] < End(j)
        /\ at[i] \in Position /\ End(i) \in Position /\ at[i] < End(i)
        /\ FormOK(long[j]) /\ FormOK(form[j])
    BY <1>1, FormFacts
  <2>2. /\ at[j] \in Int /\ End(j) \in Int /\ at[i] \in Int /\ End(i) \in Int
        /\ long[j].size \in Nat /\ form[j].size \in Nat
    BY <2>1 DEF FormOK, Form, Position
  <2>3. shift[End(j)] = shift[at[j]] + (long[j].size - form[j].size)
    BY <1>1 DEF Sized
  <2>4. j = i \/ End(j) <= at[i] \/ End(i) <= at[j]
    BY <1>1 DEF InputOK
  <2>5. CASE j = i
    BY <1>4, <1>5, <1>6, <2>1, <2>2, <2>3, <2>5
  <2>6. CASE j # i
    BY <1>4, <1>5, <1>6, <2>1, <2>2, <2>3, <2>4, <2>6
  <2> QED
    BY <2>5, <2>6
<1>10. Ordered'
  <2> SUFFICES ASSUME NEW p \in Position, NEW q \in Position,
                      p <= q, Boundary(p)', Boundary(q)'
               PROVE  shift'[p] <= shift'[q] /\ Placed(p)' <= Placed(q)'
    BY DEF Ordered, Position
  <2>1. Boundary(p) /\ Boundary(q)
    BY <1>2, <1>3 DEF Boundary
  <2> QED
    BY <2>1, TakeMoves
<1>11. Reaching'
  <2> SUFFICES ASSUME NEW j \in Site, form'[j] # long[j]
               PROVE  /\ form'[j].low <= target[j] - shift'[target[j]] - (at[j] - shift'[at[j]] + form'[j].base)
                      /\ target[j] - shift'[target[j]] - (at[j] - shift'[at[j]] + form'[j].base) <= form'[j].high
    BY <1>2 DEF Reaching, Reach, Placed
  <2> DEFINE a == at[j]  t == target[j]  g == form'[j]
  <2>1. /\ a \in Position /\ End(j) \in Position /\ t \in Position /\ a < End(j)
        /\ FormOK(g) /\ End(j) = a + long[j].size /\ FormOK(long[j]) /\ FormOK(form[j])
        /\ at[i] < End(i) /\ at[i] \in Position /\ End(i) \in Position
    BY <1>1, <1>4, <1>5, FormFacts
  <2>2. /\ g.size \in Nat /\ g.base \in Nat /\ g.low \in Int /\ g.high \in Int
        /\ g.base <= g.size /\ g.low <= 0 /\ 0 <= g.high /\ long[j].size \in Nat
        /\ a \in Int /\ End(j) \in Int /\ t \in Int /\ at[i] \in Int /\ End(i) \in Int
        /\ form[j].size \in Nat
    BY <2>1 DEF FormOK, Form, Position
  <2>3. Boundary(a) /\ Boundary(End(j)) /\ Boundary(t)
    BY <1>1, Boundaries
  <2>5. ASSUME j # i
        PROVE  g.low <= t - shift[t] - (a - shift[a] + g.base)
               /\ t - shift[t] - (a - shift[a] + g.base) <= g.high
    <3>1. g = form[j]
      BY <1>4, <2>5
    <3> QED
      BY <1>1, <3>1 DEF Reaching, Reach, Placed
  <2>6. shift[t] \in Int /\ shift'[t] \in Int /\ shift[a] \in Int /\ shift'[a] \in Int
        /\ shift'[End(j)] \in Int
    BY <1>6, <1>8, <2>1 DEF LayoutOK
  <2>7. shift'[End(j)] = shift'[a] + (long[j].size - g.size)
    BY <1>2, <1>3, <1>9 DEF Sized
  <2>8. CASE t >= End(j)
    <3>1. End(j) - shift'[End(j)] <= t - shift'[t]
      BY <2>1, <2>3, <2>8, TakeMoves, <1>2 DEF Placed
    <3>2. 0 <= t - shift'[t] - (a - shift'[a] + g.base)
      BY <2>1, <2>2, <2>6, <2>7, <3>1
    <3>3. t - shift'[t] - (a - shift'[a] + g.base) <= g.high
      <4>1. CASE j = i
        <5>1. g = f
          BY <1>4, <4>1
        <5>2. Displacement(j, g) = t - shift[t] - (form[i].size - g.size) - (a - shift[a] + g.base)
          BY <2>8, <4>1 DEF Displacement, Placed, Ahead
        <5>3. Displacement(j, g) <= g.high
          BY <4>1, <5>1 DEF Reach
        <5>4. shift'[t] = shift[t] + (form[i].size - g.size) /\ shift'[a] = shift[a]
          BY <1>6, <2>1, <2>2, <2>8, <4>1, <5>1
        <5> QED
          BY <1>5, <2>2, <2>6, <5>2, <5>3, <5>4
      <4>2. CASE j # i
        <5>1. shift[t] - shift[a] <= shift'[t] - shift'[a]
          BY <2>1, <2>2, <2>3, <2>8, TakeMoves
        <5> QED
          BY <2>2, <2>5, <2>6, <4>2, <5>1
      <4> QED
        BY <4>1, <4>2
    <3> QED
      BY <3>2, <3>3, <2>2, <2>6
  <2>9. CASE ~(t >= End(j))
    <3>1. t <= a
      BY <2>2, <2>3, <2>9 DEF Boundary
    <3>2. t - shift'[t] <= a - shift'[a] /\ shift[a] - shift[t] <= shift'[a] - shift'[t]
      BY <2>1, <2>3, <3>1, TakeMoves, <1>2 DEF Placed
    <3>3. t - shift'[t] - (a - shift'[a] + g.base) <= 0
      BY <2>2, <2>6, <3>2
    <3>4. g.low <= t - shift'[t] - (a - shift'[a] + g.base)
      <4>1. CASE j = i
        <5>1. g = f
          BY <1>4, <4>1
        <5>2. Displacement(j, g) = t - shift[t] - 0 - (a - shift[a] + g.base)
          BY <2>9, <4>1 DEF Displacement, Placed, Ahead
        <5>3. g.low <= Displacement(j, g)
          BY <4>1, <5>1 DEF Reach
        <5> QED
          BY <2>2, <2>6, <3>2, <5>2, <5>3
      <4>2. CASE j # i
        BY <2>2, <2>5, <2>6, <3>2, <4>2
      <4> QED
        BY <4>1, <4>2
    <3> QED
      BY <3>3, <3>4, <2>2, <2>6
  <2> QED
    BY <2>8, <2>9
<1> QED
  BY <1>7, <1>8, <1>9, <1>10, <1>11 DEF LayoutInv

(* The invariant holds in every layout the abstract relaxation reaches.    *)
THEOREM LayoutCorrect == ShrinkSpec => []LayoutInv
<1>1. Unshrunk => LayoutInv
  BY InitIInv
<1>2. LayoutInv /\ [ShrinkNext]_<<branches, layout>> => LayoutInv'
  <2> SUFFICES ASSUME LayoutInv, [ShrinkNext]_<<branches, layout>> PROVE LayoutInv'
    OBVIOUS
  <2>1. CASE ShrinkNext
    <3>1. PICK i \in Site : \E f \in forms[i] : Shrink(i, f)
      BY <2>1 DEF ShrinkNext
    <3>2. PICK f \in forms[i] : Shrink(i, f)
      BY <3>1
    <3> QED
      BY <3>2, TakeIInv DEF Shrink
  <2>2. CASE UNCHANGED <<branches, layout>>
    <3>1. /\ at' = at /\ target' = target /\ forms' = forms /\ long' = long
          /\ form' = form /\ shift' = shift
      BY <2>2 DEF branches, layout
    <3> QED
      BY <3>1 DEF LayoutInv, InputOK, LayoutOK, Sized, Ordered, Reaching, Boundary, Placed,
                  End, Reach, FormOK
  <2> QED
    BY <2>1, <2>2
<1> QED
  BY <1>1, <1>2, PTL DEF ShrinkSpec

(* A branch keeps reaching its target in the form it was given, however    *)
(* many others shrink after it: no layout that is finished is unstable.    *)
THEOREM ChosenReachCorrect == ShrinkSpec => []ChosenReach
<1>1. LayoutInv => ChosenReach
  <2> SUFFICES ASSUME LayoutInv, NEW j \in Site, form[j] # long[j]
               PROVE  Reach(form[j], Displacement(j, form[j]))
    BY DEF ChosenReach
  <2>1. FormOK(form[j]) /\ at[j] \in Position /\ target[j] \in Position
    BY FormFacts DEF LayoutInv
  <2>2. /\ form[j].size \in Nat /\ form[j].base \in Nat
        /\ Placed(target[j]) \in Int /\ Placed(at[j]) \in Int
    BY <2>1 DEF LayoutInv, LayoutOK, FormOK, Form, Placed, Position
  <2>3. (IF Ahead(j) THEN form[j].size - form[j].size ELSE 0) = 0
    BY <2>2
  <2>4. Displacement(j, form[j]) = Placed(target[j]) - (Placed(at[j]) + form[j].base)
    BY <2>2, <2>3 DEF Displacement
  <2> QED
    BY <2>4 DEF LayoutInv, Reaching
<1> QED
  BY <1>1, LayoutCorrect, PTL

-----------------------------------------------------------------------------
(* The layout of the 65816 relaxes: each branch it tries is left alone or  *)
(* shrinks by the distance the layout of that moment leaves it.            *)

(* The forms a branch may take count from their end.                       *)
FormsKnown == \A i \in Site : forms[i] \subseteq {Relative8, Relative16}

LEMMA FormsKnownStays == FormsKnown /\ [LocalNext]_<<branches, layout, next, changed>> => FormsKnown'
<1>1. [LocalNext]_<<branches, layout, next, changed>> => forms' = forms
  BY DEF LocalNext, Try, Again, Take, branches
<1> QED
  BY <1>1 DEF FormsKnown, Relative8, Relative16, Signed

LEMMA TryIsShrink ==
  ASSUME FormsKnown, NEW i \in Site, NEW f \in forms[i], FirstFit(i, f)
  PROVE  f.size < form[i].size /\ Reach(f, Displacement(i, f))
<1>1. f.base = f.size
  BY DEF FormsKnown, Relative8, Relative16, Signed
<1>2. Delta(i, f) = Displacement(i, f)
  BY <1>1 DEF Delta, Displacement, Ahead, End
<1> QED
  BY <1>2 DEF FirstFit, Fits

(* Whatever the branches and the order of the code, every step of the      *)
(* layout is a step of the abstract relaxation or changes no branch.       *)
THEOREM LocalRefines == LocalSpec => ShrinkSpec
<1>1. LocalInit => Unshrunk /\ FormsKnown
  BY DEF LocalInit, FormsKnown, IsConditional, IsJump
<1>2. FormsKnown /\ [LocalNext]_<<branches, layout, next, changed>> => [ShrinkNext]_<<branches, layout>>
  <2> SUFFICES ASSUME FormsKnown, [LocalNext]_<<branches, layout, next, changed>>
               PROVE  [ShrinkNext]_<<branches, layout>>
    OBVIOUS
  <2>1. ASSUME NEW i \in Site, Try(i) PROVE [ShrinkNext]_<<branches, layout>>
    <3>1. CASE \E f \in forms[i] : FirstFit(i, f) /\ Take(i, f)
      <4>1. PICK f \in forms[i] : FirstFit(i, f) /\ Take(i, f)
        BY <3>1
      <4>2. Shrink(i, f)
        BY <4>1, TryIsShrink DEF Shrink
      <4> QED
        BY <4>2 DEF ShrinkNext
    <3>2. CASE UNCHANGED <<branches, layout, changed>>
      BY <3>2
    <3> QED
      BY <2>1, <3>1, <3>2 DEF Try
  <2>2. CASE Again
    BY <2>2 DEF Again
  <2>3. CASE UNCHANGED <<branches, layout, next, changed>>
    BY <2>3
  <2> QED
    BY <2>1, <2>2, <2>3 DEF LocalNext
<1> QED
  BY <1>1, <1>2, FormsKnownStays, PTL DEF LocalSpec, ShrinkSpec

(* No routine ends in the error of an unstable layout.                     *)
THEOREM LocalReach == LocalSpec => []ChosenReach
  BY LocalRefines, ChosenReachCorrect, PTL

-----------------------------------------------------------------------------
(* The relaxation of the 68000 measures in a layout that is out of date,   *)
(* and may: every distance it reads is at least the one that is left.      *)

(* The forms of a branch, and how long the ones to relax are.              *)
WordFormsKnown ==
  /\ \A i \in Site : forms[i] = {BranchRelative} /\ long[i].size \in {6, 8}

(* Since the pass began, boundaries have only come closer.                 *)
Stale ==
  /\ \A p \in Position : measured[p] \in Nat
  /\ \A p, q \in Position : p <= q /\ Boundary(p) /\ Boundary(q) =>
       measured[q] - measured[p] <= shift[q] - shift[p]

WIInv == LayoutInv /\ WordFormsKnown /\ Stale

-----------------------------------------------------------------------------
LEMMA WordInitInv == WordInit => WIInv
<1> SUFFICES ASSUME WordInit PROVE WIInv
  OBVIOUS
<1>1. Unshrunk /\ measured = shift /\ WordFormsKnown
  BY DEF WordInit, WordFormsKnown, Absolute
<1>2. LayoutInv
  BY <1>1, InitIInv
<1>3. Stale
  BY <1>1, <1>2 DEF Stale, Unshrunk, Position
<1> QED
  BY <1>1, <1>2, <1>3 DEF WIInv

(* A branch that fits in the old layout fits in the new one.               *)
LEMMA RelaxIsShrink ==
  ASSUME WIInv, NEW i \in Site, InRange(i)
  PROVE  /\ BranchRelative \in forms[i]
         /\ BranchRelative.size < form[i].size
         /\ Reach(BranchRelative, Displacement(i, BranchRelative))
<1> DEFINE a == at[i]  t == target[i]  b == BranchRelative
<1>1. InputOK /\ LayoutOK /\ Sized /\ Ordered /\ WordFormsKnown /\ Stale
  BY DEF WIInv, LayoutInv
<1>2. b.size = 4 /\ b.base = 2 /\ b.low = -WordReach /\ b.high = WordReach - 1
  BY DEF BranchRelative
<1>3. b \in forms[i] /\ form[i] = long[i] /\ long[i].size \in {6, 8}
  BY <1>1 DEF WordFormsKnown, LayoutOK, InRange
<1>4. /\ a \in Position /\ t \in Position /\ End(i) \in Position
      /\ FormOK(b) /\ a < End(i) /\ End(i) = a + long[i].size
  BY <1>1, <1>3, FormFacts
<1>5. /\ a \in Int /\ t \in Int /\ End(i) \in Int
      /\ b.low \in Int /\ b.high \in Int /\ b.low <= 0 /\ 0 <= b.high
  BY <1>4 DEF Position, FormOK, Form
<1>6. /\ shift[a] \in Nat /\ shift[t] \in Nat /\ shift[End(i)] \in Nat
      /\ measured[a] \in Nat /\ measured[t] \in Nat
  BY <1>1, <1>4 DEF LayoutOK, Stale
<1>7. Boundary(a) /\ Boundary(t) /\ Boundary(End(i))
  BY <1>1, Boundaries
<1>8. /\ b.low <= t - measured[t] - (a - measured[a] + 2)
      /\ t - measured[t] - (a - measured[a] + 2) <= b.high
  BY DEF InRange, Reach, Label, Cursor
<1>9. CASE t >= End(i)
  <2>1. Displacement(i, b) = t - shift[t] - (form[i].size - b.size) - (a - shift[a] + b.base)
    BY <1>9 DEF Displacement, Ahead, Placed
  <2>2. measured[t] - measured[a] <= shift[t] - shift[a]
    BY <1>1, <1>4, <1>5, <1>7, <1>9 DEF Stale
  <2>3. End(i) - shift[End(i)] <= t - shift[t]
    BY <1>1, <1>4, <1>7, <1>9 DEF Ordered, Placed
  <2>4. shift[End(i)] = shift[a]
    BY <1>1, <1>3, <1>6 DEF Sized
  <2>5. b.low <= Displacement(i, b) /\ Displacement(i, b) <= b.high
    BY <1>2, <1>3, <1>4, <1>5, <1>6, <1>8, <2>1, <2>2, <2>3, <2>4
  <2> QED
    BY <1>2, <1>3, <2>5 DEF Reach
<1>10. CASE ~(t >= End(i))
  <2>1. Displacement(i, b) = t - shift[t] - 0 - (a - shift[a] + b.base)
    BY <1>10 DEF Displacement, Ahead, Placed
  <2>2. t <= a
    BY <1>5, <1>7, <1>10 DEF Boundary
  <2>3. measured[a] - measured[t] <= shift[a] - shift[t] /\ t - shift[t] <= a - shift[a]
    BY <1>1, <1>4, <1>7, <2>2 DEF Stale, Ordered, Placed
  <2>4. b.low <= Displacement(i, b) /\ Displacement(i, b) <= b.high
    BY <1>2, <1>5, <1>6, <1>8, <2>1, <2>3
  <2> QED
    BY <1>2, <1>3, <2>4 DEF Reach
<1> QED
  BY <1>9, <1>10

(* Shrinking a branch leaves what is measured on the safe side.            *)
LEMMA TakeStale ==
  ASSUME WIInv, NEW i \in Site, NEW f \in forms[i], f.size < form[i].size, Take(i, f),
         measured' = measured, LayoutInv'
  PROVE  Stale'
<1>1. \A p \in Position : measured[p] \in Nat
  BY DEF WIInv, Stale
<1>2. \A p : Boundary(p)' = Boundary(p)
  BY DEF Take, branches, Boundary, End
<1>3. ASSUME NEW p \in Position, NEW q \in Position, p <= q, Boundary(p), Boundary(q)
      PROVE  measured[q] - measured[p] <= shift'[q] - shift'[p]
  <2>1. measured[q] - measured[p] <= shift[q] - shift[p]
    BY <1>3 DEF WIInv, Stale
  <2>2. shift[q] - shift[p] <= shift'[q] - shift'[p]
    BY <1>3, TakeMoves DEF WIInv
  <2>3. /\ measured[p] \in Int /\ measured[q] \in Int /\ shift[p] \in Int /\ shift[q] \in Int
        /\ shift'[p] \in Int /\ shift'[q] \in Int
    BY <1>1 DEF WIInv, LayoutInv, LayoutOK
  <2> QED
    BY <2>1, <2>2, <2>3
<1> QED
  BY <1>1, <1>2, <1>3 DEF Stale, Position

LEMMA WordStep ==
  ASSUME WIInv, [WordNext]_<<branches, layout, next, changed, measured>>
  PROVE  WIInv' /\ [ShrinkNext]_<<branches, layout>>
<1>1. forms' = forms /\ long' = long
  BY DEF WordNext, Relax, Remeasure, Again, Take, branches
<1>2. WordFormsKnown'
  BY <1>1 DEF WIInv, WordFormsKnown, BranchRelative
<1>3. ASSUME UNCHANGED <<branches, layout>> PROVE LayoutInv' /\ \A p : Boundary(p)' = Boundary(p)
  BY <1>3 DEF WIInv, LayoutInv, InputOK, LayoutOK, Sized, Ordered, Reaching, Boundary, Placed,
              End, Reach, FormOK, branches, layout
<1>4. ASSUME UNCHANGED <<branches, layout, measured>> PROVE WIInv'
  <2>1. shift' = shift /\ measured' = measured
    BY <1>4 DEF layout
  <2>2. Stale'
    BY <1>3, <1>4, <2>1 DEF WIInv, Stale, Position
  <2> QED
    BY <1>2, <1>3, <1>4, <2>2 DEF WIInv
<1>5. ASSUME NEW i \in Site, Relax(i) PROVE WIInv' /\ [ShrinkNext]_<<branches, layout>>
  <2>1. CASE InRange(i) /\ Take(i, BranchRelative)
    <3>1. /\ BranchRelative \in forms[i] /\ BranchRelative.size < form[i].size
          /\ Reach(BranchRelative, Displacement(i, BranchRelative))
      BY <2>1, RelaxIsShrink
    <3>2. LayoutInv'
      BY <2>1, <3>1, TakeIInv DEF WIInv
    <3>3. Stale'
      BY <1>5, <2>1, <3>1, <3>2, TakeStale DEF Relax
    <3>4. Shrink(i, BranchRelative)
      BY <2>1, <3>1 DEF Shrink
    <3> QED
      BY <1>2, <3>1, <3>2, <3>3, <3>4 DEF WIInv, ShrinkNext
  <2>2. CASE UNCHANGED <<branches, layout, changed>>
    BY <1>4, <1>5, <2>2 DEF Relax
  <2> QED
    BY <1>5, <2>1, <2>2 DEF Relax
<1>6. CASE Remeasure
  <2>1. shift' = shift /\ measured' = shift /\ UNCHANGED <<branches, layout>>
    BY <1>6 DEF Remeasure, Again, layout
  <2>2. Stale'
    BY <2>1 DEF WIInv, LayoutInv, LayoutOK, Stale, Position
  <2> QED
    BY <1>2, <1>3, <2>1, <2>2 DEF WIInv
<1>7. CASE UNCHANGED <<branches, layout, next, changed, measured>>
  BY <1>4, <1>7
<1> QED
  BY <1>5, <1>6, <1>7 DEF WordNext

(* Measuring a whole pass in the layout it began with shrinks no branch    *)
(* that the layout of the moment would not let shrink.                     *)
THEOREM WordRefines == WordSpec => ShrinkSpec
<1>1. WordInit => WIInv /\ Unshrunk
  BY WordInitInv DEF WordInit
<1>2. WIInv /\ [WordNext]_<<branches, layout, next, changed, measured>> => WIInv' /\ [ShrinkNext]_<<branches, layout>>
  BY WordStep
<1> QED
  BY <1>1, <1>2, PTL DEF WordSpec, ShrinkSpec

(* A branch once made a word branch stays in range.                        *)
THEOREM WordReachKept == WordSpec => []ChosenReach
  BY WordRefines, ChosenReachCorrect, PTL

-----------------------------------------------------------------------------
(* In a pass that has changed nothing, no branch that was tried would have *)
(* fitted, and every branch has been tried when the pass is over.          *)
NextOK == next \in Nat \ {0}
LocalTried == ~changed => \A i \in Site : i < next => \A f \in forms[i] : ~Fits(i, f)
LocalInv == FormsKnown /\ NextOK /\ LocalTried

LEMMA AllTried == ASSUME NextOK, next \notin Site, NEW i \in Site PROVE i < next
  BY SiteOrder, SiteAssumption DEF NextOK

LEMMA LocalInitInv == LocalInit => LocalInv
<1> SUFFICES ASSUME LocalInit PROVE LocalInv
  OBVIOUS
<1>1. next = 1 /\ \A i \in Site : ~(i < 1)
  BY SiteOrder, SiteAssumption DEF LocalInit, FirstPass
<1> QED
  BY <1>1 DEF LocalInit, LocalInv, FormsKnown, IsConditional, IsJump, NextOK, LocalTried

LEMMA LocalStep == LocalInv /\ [LocalNext]_<<branches, layout, next, changed>> => LocalInv'
<1> SUFFICES ASSUME LocalInv, [LocalNext]_<<branches, layout, next, changed>> PROVE LocalInv'
  OBVIOUS
<1>1. FormsKnown'
  BY FormsKnownStays DEF LocalInv
<1>2. ASSUME UNCHANGED <<branches, layout>>, NEW i \in Site, NEW f PROVE Fits(i, f)' = Fits(i, f)
  BY <1>2 DEF Fits, Delta, Placed, Reach, branches, layout
<1>3. ASSUME NEW i \in Site, Try(i) PROVE NextOK' /\ LocalTried'
  <2>1. next' = next + 1 /\ next = i /\ next \in Nat \ {0}
    BY <1>3 DEF Try, LocalInv, NextOK
  <2>2. CASE \E f \in forms[i] : FirstFit(i, f) /\ Take(i, f) /\ changed' = TRUE
    BY <2>1, <2>2 DEF NextOK, LocalTried
  <2>3. CASE (\A f \in forms[i] : ~Fits(i, f)) /\ UNCHANGED <<branches, layout, changed>>
    <3>1. ASSUME ~changed', NEW j \in Site, j < next', NEW f \in forms'[j] PROVE ~Fits(j, f)'
      <4>1. (j < next \/ j = i) /\ forms' = forms /\ ~changed
        BY <2>1, <2>3, <3>1, SiteAssumption DEF branches
      <4>2. ~Fits(j, f)
        BY <2>3, <3>1, <4>1 DEF LocalInv, LocalTried
      <4> QED
        BY <1>2, <2>3, <4>2
    <3>2. NextOK'
      BY <2>1 DEF NextOK
    <3>3. LocalTried'
      BY Zenon, <3>1 DEF LocalTried
    <3> QED
      BY <3>2, <3>3
  <2>4. \/ \E f \in forms[i] : FirstFit(i, f) /\ Take(i, f) /\ changed' = TRUE
        \/ (\A f \in forms[i] : ~Fits(i, f)) /\ UNCHANGED <<branches, layout, changed>>
    BY Zenon, <1>3 DEF Try
  <2> QED
    BY Zenon, <2>2, <2>3, <2>4
<1>4. CASE Again
  <2>1. next' = 1 /\ \A i \in Site : ~(i < 1)
    BY <1>4, SiteOrder, SiteAssumption DEF Again
  <2> QED
    BY <1>1, <2>1 DEF LocalInv, NextOK, LocalTried
<1>5. CASE UNCHANGED <<branches, layout, next, changed>>
  <2>1. forms' = forms /\ next' = next /\ changed' = changed
    BY <1>5 DEF branches
  <2>2. LocalTried'
    BY <1>2, <1>5, <2>1 DEF LocalInv, LocalTried
  <2> QED
    BY <1>1, <2>1, <2>2 DEF LocalInv, NextOK
<1> QED
  BY <1>1, <1>3, <1>4, <1>5 DEF LocalNext, LocalInv

LEMMA LocalEnd == LocalInv => LocalMissesNothing
<1> SUFFICES ASSUME LocalInv, PassesDone, NEW i \in Site, NEW f \in forms[i], f.size < form[i].size
             PROVE  ~Reach(f, Displacement(i, f))
  BY DEF LocalMissesNothing
<1>1. ~Fits(i, f)
  BY AllTried DEF LocalInv, LocalTried, PassesDone
<1>2. f.base = f.size
  BY DEF LocalInv, FormsKnown, Relative8, Relative16, Signed
<1>3. Delta(i, f) = Displacement(i, f)
  BY <1>2 DEF Delta, Displacement, Ahead, End
<1> QED
  BY <1>1, <1>3 DEF Fits

(* The same on the 68000, in a layout that is up to date as long as the    *)
(* pass has changed nothing.                                               *)
WordTried ==
  ~changed => measured = shift /\ \A i \in Site : i < next => ~InRange(i)
WordInv == WordFormsKnown /\ NextOK /\ WordTried

LEMMA WordInitTried == WordInit => WordInv
<1> SUFFICES ASSUME WordInit PROVE WordInv
  OBVIOUS
<1>1. next = 1 /\ measured = shift /\ \A i \in Site : ~(i < 1)
  BY SiteOrder, SiteAssumption DEF WordInit, FirstPass
<1> QED
  BY <1>1 DEF WordInit, WordInv, WordFormsKnown, Absolute, NextOK, WordTried

LEMMA WordStepTried ==
  WordInv /\ [WordNext]_<<branches, layout, next, changed, measured>> => WordInv'
<1> SUFFICES ASSUME WordInv, [WordNext]_<<branches, layout, next, changed, measured>> PROVE WordInv'
  OBVIOUS
<1>1. WordFormsKnown'
  <2>1. forms' = forms /\ long' = long
    BY DEF WordNext, Relax, Remeasure, Again, Take, branches
  <2> QED
    BY <2>1 DEF WordInv, WordFormsKnown, BranchRelative
<1>2. ASSUME UNCHANGED <<branches, layout, measured>>, NEW i \in Site PROVE InRange(i)' = InRange(i)
  BY <1>2 DEF InRange, Label, Cursor, Reach, BranchRelative, branches, layout
<1>3. ASSUME NEW i \in Site, Relax(i) PROVE NextOK' /\ WordTried'
  <2>1. next' = next + 1 /\ next = i /\ next \in Nat \ {0} /\ measured' = measured
    BY <1>3 DEF Relax, WordInv, NextOK
  <2>2. CASE changed' = TRUE
    BY <2>1, <2>2 DEF NextOK, WordTried
  <2>3. CASE ~InRange(i) /\ UNCHANGED <<branches, layout, changed>>
    <3>1. ASSUME ~changed', NEW j \in Site, j < next' PROVE ~InRange(j)'
      <4>1. (j < next \/ j = i) /\ ~changed
        BY <2>1, <2>3, <3>1, SiteAssumption
      <4> QED
        BY <1>2, <2>1, <2>3, <4>1 DEF WordInv, WordTried
    <3>2. shift' = shift
      BY <2>3 DEF layout
    <3> QED
      BY <2>1, <2>3, <3>1, <3>2 DEF NextOK, WordInv, WordTried
  <2> QED
    BY <1>3, <2>2, <2>3 DEF Relax
<1>4. CASE Remeasure
  <2>1. next' = 1 /\ measured' = shift /\ shift' = shift /\ \A i \in Site : ~(i < 1)
    BY <1>4, SiteOrder, SiteAssumption DEF Remeasure, Again, layout
  <2> QED
    BY <1>1, <2>1 DEF WordInv, NextOK, WordTried
<1>5. CASE UNCHANGED <<branches, layout, next, changed, measured>>
  <2>1. shift' = shift /\ next' = next /\ changed' = changed /\ measured' = measured
    BY <1>5 DEF layout
  <2>2. WordTried'
    BY <1>2, <1>5, <2>1 DEF WordInv, WordTried
  <2> QED
    BY <1>1, <2>1, <2>2 DEF WordInv, NextOK
<1> QED
  BY <1>1, <1>3, <1>4, <1>5 DEF WordNext, WordInv

LEMMA WordEnd == WordInv => WordMissesNothing
<1> SUFFICES ASSUME WordInv, PassesDone, NEW i \in Site, NEW f \in forms[i], f.size < form[i].size
             PROVE  ~Reach(f, Placed(target[i]) - (Placed(at[i]) + f.base))
  BY DEF WordMissesNothing
<1>1. ~InRange(i) /\ measured = shift
  BY AllTried DEF WordInv, WordTried, PassesDone
<1>2. f = BranchRelative /\ f.size = 4 /\ f.base = 2
  BY DEF WordInv, WordFormsKnown, BranchRelative
<1>3. form[i] # f
  BY <1>2
<1> QED
  BY <1>1, <1>2, <1>3 DEF InRange, Label, Cursor, Placed

(* Whichever loop, however many branches, forms and passes: when it ends,  *)
(* no branch is left in a form longer than it needs.                       *)
THEOREM NothingMissedCorrect == CodeSpec => []NothingMissed
<1> DEFINE Inv == /\ machine = "65816" => LocalInv
                  /\ machine = "68000" => WordInv
<1>1. AnyCode => Inv
  BY LocalInitInv, WordInitTried DEF AnyCode, RelaxInit, NotRelaxing
<1>2. Inv /\ [CodeNext]_allVars => Inv'
  <2> SUFFICES ASSUME Inv, [CodeNext]_allVars PROVE Inv'
    OBVIOUS
  <2>1. CASE machine = "65816" /\ LocalNext /\ UNCHANGED <<machine, measured, rewriteVars>>
    BY <2>1, LocalStep
  <2>2. CASE machine = "68000" /\ WordNext /\ UNCHANGED <<machine, rewriteVars>>
    BY <2>2, WordStepTried
  <2>3. CASE machine = "6502" /\ UNCHANGED relaxed
    BY <2>3 DEF relaxed
  <2>4. CASE UNCHANGED allVars
    <3>1. UNCHANGED <<branches, layout, next, changed, measured, machine>>
      BY <2>4 DEF allVars, relaxed
    <3> QED
      BY <3>1, LocalStep, WordStepTried
  <2> QED
    BY <2>1, <2>2, <2>3, <2>4 DEF CodeNext
<1>3. Inv => NothingMissed
  BY LocalEnd, WordEnd DEF NothingMissed
<1>4. QED
  BY <1>1, <1>2, <1>3, PTL DEF CodeSpec

-----------------------------------------------------------------------------
(* Rewrites of the 6502.  Between batches every operation has its own      *)
(* name; while plans are being selected, too.  Selected plans are apart,   *)
(* and up to the end of each the block is still as it was.                 *)
Batches ==
  [driver : {"pre-home", "post-home"}, stage : {"round", "batch", "converged", "refused"},
   round : Int, generation : Int]
Unspliced == block = Named(Len(block)) /\ producer = compare
BlockOK ==
  /\ block \in Seq(Nat \cup {New}) /\ producer \in Nat /\ compare \in Nat
  /\ plans \subseteq AnyPlan /\ selected \subseteq AnyPlan
  /\ rewrite \in Batches
Fresh(p) == 1 <= p.first /\ p.first <= p.last /\ p.last <= Len(block)
Untouched(p) == Fresh(p) /\ \A k \in 1..p.last : block[k] = k
Between == Unspliced /\ plans = {} /\ selected = {}
Matched ==
  /\ plans # {} => Unspliced
  /\ \A p \in plans \cup selected : Untouched(p)
  /\ \A p, q \in selected : p # q => ~Overlap(p, q)
  /\ \A k \in DOMAIN block : block[k] = compare => producer = k
RewriteInv ==
  /\ BlockOK
  /\ rewrite.stage = "round" => Between
  /\ rewrite.stage = "batch" => Matched

LEMMA NamedFacts ==
  ASSUME NEW n \in Nat
  PROVE  /\ Named(n) \in Seq(Nat \cup {New}) /\ Len(Named(n)) = n
         /\ DOMAIN Named(n) = 1..n /\ \A k \in 1..n : Named(n)[k] = k
  BY DEF Named

LEMMA UnsplicedMatches ==
  ASSUME BlockOK, Unspliced
  PROVE  /\ \A k \in 1..Len(block) : block[k] = k
         /\ \A k \in DOMAIN block : block[k] = compare => producer = k
<1>1. Len(block) \in Nat /\ DOMAIN block = 1..Len(block)
  BY DEF BlockOK
<1>2. \A k \in 1..Len(block) : block[k] = k
  BY <1>1, NamedFacts DEF Unspliced
<1> QED
  BY <1>1, <1>2 DEF Unspliced

(* Positions in sequences that are put together or taken apart.           *)
LEMMA ConcatTwo ==
  ASSUME NEW S, NEW u \in Seq(S), NEW v \in Seq(S)
  PROVE  /\ u \o v \in Seq(S) /\ Len(u \o v) = Len(u) + Len(v)
         /\ \A k \in 1..Len(u) : (u \o v)[k] = u[k]
         /\ \A k \in 1..Len(v) : (u \o v)[Len(u) + k] = v[k]
<1>0. Len(u) \in Nat /\ Len(v) \in Nat
  OBVIOUS
<1>1. \A k \in 1..(Len(u) + Len(v)) : (u \o v)[k] = IF k <= Len(u) THEN u[k] ELSE v[k - Len(u)]
  BY ConcatProperties
<1>2. ASSUME NEW k \in 1..Len(v) PROVE (u \o v)[Len(u) + k] = v[k]
  <2>1. Len(u) + k \in 1..(Len(u) + Len(v)) /\ ~(Len(u) + k <= Len(u)) /\ (Len(u) + k) - Len(u) = k
    BY <1>0
  <2> QED
    BY <1>1, <2>1
<1>3. \A k \in 1..Len(u) : (u \o v)[k] = u[k]
  BY <1>0, <1>1
<1>4. u \o v \in Seq(S) /\ Len(u \o v) = Len(u) + Len(v)
  BY ConcatProperties
<1> QED
  BY <1>2, <1>3, <1>4

(* t is u, then v, then w. *)
InThree(t, u, v, w) ==
  /\ Len(t) = Len(u) + Len(v) + Len(w)
  /\ \A k \in 1..Len(u) : t[k] = u[k]
  /\ \A k \in 1..Len(v) : t[Len(u) + k] = v[k]
  /\ \A k \in 1..Len(w) : t[Len(u) + Len(v) + k] = w[k]

LEMMA JoinThree ==
  ASSUME NEW S, NEW u \in Seq(S), NEW v \in Seq(S), NEW w \in Seq(S)
  PROVE  u \o v \o w \in Seq(S) /\ InThree(u \o v \o w, u, v, w)
<1>0. Len(u) \in Nat /\ Len(v) \in Nat
  OBVIOUS
<1>1. /\ u \o v \in Seq(S) /\ Len(u \o v) = Len(u) + Len(v)
      /\ \A k \in 1..Len(u) : (u \o v)[k] = u[k]
      /\ \A k \in 1..Len(v) : (u \o v)[Len(u) + k] = v[k]
  BY ConcatTwo
<1>2. /\ (u \o v) \o w \in Seq(S) /\ Len((u \o v) \o w) = Len(u \o v) + Len(w)
      /\ \A k \in 1..Len(u \o v) : ((u \o v) \o w)[k] = (u \o v)[k]
      /\ \A k \in 1..Len(w) : ((u \o v) \o w)[Len(u \o v) + k] = w[k]
  BY <1>1, ConcatTwo
<1>3. ASSUME NEW k \in 1..Len(u) PROVE ((u \o v) \o w)[k] = u[k]
  <2>1. k \in 1..Len(u \o v)
    BY <1>0, <1>1
  <2> QED
    BY <1>1, <1>2, <2>1
<1>4. ASSUME NEW k \in 1..Len(v) PROVE ((u \o v) \o w)[Len(u) + k] = v[k]
  <2>1. Len(u) + k \in 1..Len(u \o v)
    BY <1>0, <1>1
  <2> QED
    BY <1>1, <1>2, <2>1
<1> QED
  BY <1>1, <1>2, <1>3, <1>4 DEF InThree

LEMMA Suffix ==
  ASSUME NEW S, NEW s \in Seq(S), NEW b \in Nat, NEW n \in Nat, n = Len(s), b <= n
  PROVE  /\ SubSeq(s, b + 1, n) \in Seq(S) /\ Len(SubSeq(s, b + 1, n)) = n - b
         /\ \A k \in 1..(n - b) : SubSeq(s, b + 1, n)[k] = s[b + k]
<1>1. \A k \in (b + 1)..n : s[k] \in S
  OBVIOUS
<1>2. /\ SubSeq(s, b + 1, n) \in Seq(S)
      /\ Len(SubSeq(s, b + 1, n)) = IF b + 1 <= n THEN n - (b + 1) + 1 ELSE 0
      /\ \A k \in 1..(n - (b + 1) + 1) : SubSeq(s, b + 1, n)[k] = s[b + 1 + k - 1]
  BY <1>1, SubSeqProperties
<1>3. ASSUME NEW k \in 1..(n - b) PROVE SubSeq(s, b + 1, n)[k] = s[b + k]
  <2>1. k \in 1..(n - (b + 1) + 1) /\ b + 1 + k - 1 = b + k
    OBVIOUS
  <2> QED
    BY <1>2, <2>1
<1> QED
  BY <1>2, <1>3

LEMMA Prefix ==
  ASSUME NEW S, NEW s \in Seq(S), NEW a \in Nat, a <= Len(s)
  PROVE  /\ SubSeq(s, 1, a) \in Seq(S) /\ Len(SubSeq(s, 1, a)) = a
         /\ \A k \in 1..a : SubSeq(s, 1, a)[k] = s[k]
<1>1. \A k \in 1..a : s[k] \in S
  OBVIOUS
<1>2. /\ SubSeq(s, 1, a) \in Seq(S)
      /\ Len(SubSeq(s, 1, a)) = IF 1 <= a THEN a - 1 + 1 ELSE 0
      /\ \A k \in 1..(a - 1 + 1) : SubSeq(s, 1, a)[k] = s[1 + k - 1]
  BY <1>1, SubSeqProperties
<1>3. ASSUME NEW k \in 1..a PROVE SubSeq(s, 1, a)[k] = s[k]
  <2>1. k \in 1..(a - 1 + 1) /\ 1 + k - 1 = k
    OBVIOUS
  <2> QED
    BY <1>2, <2>1
<1> QED
  BY <1>2, <1>3

LEMMA Repeated ==
  ASSUME NEW S, NEW x \in S, NEW m \in Nat
  PROVE  [k \in 1..m |-> x] \in Seq(S) /\ Len([k \in 1..m |-> x]) = m
         /\ \A k \in 1..m : [j \in 1..m |-> x][k] = x
OBVIOUS

(* What a splice does to the positions of a block: t is s with the         *)
(* positions after a up to b gone and m times x in their place.            *)
IsSplice(t, s, x, m, n, a, b) ==
  /\ t = SubSeq(s, 1, a) \o [k \in 1..m |-> x] \o SubSeq(s, b + 1, n)
  /\ Len(t) = a + m + (n - b)
  /\ \A k \in 1..a : t[k] = s[k]
  /\ \A k \in 1..m : t[a + k] = x
  /\ \A k \in 1..(n - b) : t[a + m + k] = s[b + k]

LEMMA SpliceFacts ==
  ASSUME NEW S, NEW s \in Seq(S), NEW x \in S, NEW m \in Nat, NEW n \in Nat, n = Len(s),
         NEW a \in Nat, NEW b \in Nat, a < b, b <= n
  PROVE  \E t \in Seq(S) : IsSplice(t, s, x, m, n, a, b)
<1>0. a <= Len(s) /\ n - b \in Nat
  OBVIOUS
<1>1. /\ SubSeq(s, 1, a) \in Seq(S) /\ Len(SubSeq(s, 1, a)) = a
      /\ \A k \in 1..a : SubSeq(s, 1, a)[k] = s[k]
  BY <1>0, Prefix
<1>2. /\ SubSeq(s, b + 1, n) \in Seq(S) /\ Len(SubSeq(s, b + 1, n)) = n - b
      /\ \A k \in 1..(n - b) : SubSeq(s, b + 1, n)[k] = s[b + k]
  BY Suffix, SMTT(60)
<1>3. PICK u : u = SubSeq(s, 1, a)
  OBVIOUS
<1>4. PICK v : v = [k \in 1..m |-> x] /\ v \in Seq(S) /\ Len(v) = m /\ \A k \in 1..m : v[k] = x
  BY Repeated
<1>5. PICK w : w = SubSeq(s, b + 1, n)
  OBVIOUS
<1>6. /\ u \in Seq(S) /\ Len(u) = a /\ \A k \in 1..a : u[k] = s[k]
      /\ w \in Seq(S) /\ Len(w) = n - b /\ \A k \in 1..(n - b) : w[k] = s[b + k]
  BY <1>1, <1>2, <1>3, <1>5
<1>7. PICK t : t = u \o v \o w
  OBVIOUS
<1>8. /\ t \in Seq(S) /\ Len(t) = a + m + (n - b)
      /\ \A k \in 1..a : t[k] = s[k]
      /\ \A k \in 1..m : t[a + k] = x
      /\ \A k \in 1..(n - b) : t[a + m + k] = s[b + k]
  <2>1. u \in Seq(S) /\ v \in Seq(S) /\ w \in Seq(S)
    BY <1>4, <1>6
  <2>2. /\ t \in Seq(S) /\ Len(t) = Len(u) + Len(v) + Len(w)
        /\ \A k \in 1..Len(u) : t[k] = u[k]
        /\ \A k \in 1..Len(v) : t[Len(u) + k] = v[k]
        /\ \A k \in 1..Len(w) : t[Len(u) + Len(v) + k] = w[k]
    <3>1. t \in Seq(S) /\ InThree(t, u, v, w)
      BY <1>7, <2>1, JoinThree
    <3> QED
      BY <3>1 DEF InThree
  <2>3. Len(u) = a /\ Len(v) = m /\ Len(w) = n - b
    BY <1>4, <1>6
  <2>4. /\ \A k \in 1..a : t[k] = u[k]
        /\ \A k \in 1..m : t[a + k] = v[k]
        /\ \A k \in 1..(n - b) : t[a + m + k] = w[k]
    BY <2>2, <2>3
  <2> QED
    BY <1>4, <1>6, <2>2, <2>3, <2>4, ZenonT(60)
<1>9. t = SubSeq(s, 1, a) \o [k \in 1..m |-> x] \o SubSeq(s, b + 1, n)
  BY <1>3, <1>4, <1>5, <1>7
<1> QED
  BY <1>8, <1>9 DEF IsSplice

LEMMA BatchFacts ==
  ASSUME NEW r \in Batches, NEW s \in {"round", "batch", "converged", "refused"}
  PROVE  /\ [r EXCEPT !.round = @ + 1] \in Batches /\ [r EXCEPT !.generation = @ + 1] \in Batches
         /\ [r EXCEPT !.stage = s] \in Batches /\ [r EXCEPT !.stage = s].stage = s
  BY DEF Batches

LEMMA RewriteStartInv == RewriteStart => RewriteInv
<1> SUFFICES ASSUME NEW driver \in {"pre-home", "post-home"}, NEW n \in Nat, NEW origin \in 0..n, RewriteInit(driver, n, origin)
             PROVE  RewriteInv
  BY DEF RewriteStart
<1> QED
  <2>1. /\ Named(n) \in Seq(Nat \cup {New}) /\ Len(Named(n)) = n /\ block = Named(n)
        /\ rewrite = [driver |-> driver, stage |-> "round", round |-> 0, generation |-> 0]
    BY NamedFacts DEF RewriteInit
  <2>2. block = Named(Len(block)) /\ rewrite \in Batches /\ rewrite.stage = "round"
    BY <2>1 DEF Batches
  <2> QED
    BY <2>1, <2>2 DEF RewriteInit, RewriteInv, BlockOK, Between, Unspliced

LEMMA DiscoverKeeps ==
  ASSUME RewriteInv, NEW found \in SUBSET AnyPlan, Discover(found)
  PROVE  RewriteInv'
<1>0. /\ rewrite'.stage \in {"refused", "converged", "batch"}
      /\ rewrite' \in Batches
  <2>1. PICK s \in {"refused", "converged", "batch"} : rewrite' = [rewrite EXCEPT !.round = @ + 1, !.stage = s]
    BY DEF Discover
  <2>2. PICK r : r = [rewrite EXCEPT !.round = @ + 1]
    OBVIOUS
  <2>3. r \in Batches /\ rewrite' = [r EXCEPT !.stage = s]
    BY <2>1, <2>2, BatchFacts DEF RewriteInv, BlockOK
  <2> QED
    BY <2>3, BatchFacts
<1>1. /\ BlockOK /\ Between /\ block' = block /\ producer' = producer
      /\ compare' = compare /\ selected' = {}
  BY DEF Discover, RewriteInv, Between
<1>2. BlockOK' /\ Unspliced'
  <2>1. plans' \subseteq AnyPlan
    BY DEF Discover
  <2> QED
    BY <1>0, <1>1, <2>1 DEF BlockOK, Between, Unspliced
<1>3. rewrite'.stage # "round"
  BY <1>0
<1>4. ASSUME rewrite'.stage = "batch" PROVE Matched'
  <2>1. plans' = found /\ \A p \in found : Valid(p)
    BY <1>4 DEF Discover
  <2>2. /\ \A k \in 1..Len(block) : block[k] = k
        /\ \A k \in DOMAIN block : block[k] = compare => producer = k
    BY <1>1, UnsplicedMatches DEF Between
  <2>3. ASSUME NEW p \in found PROVE Untouched(p)'
    <3>1. p \in AnyPlan /\ Valid(p) /\ Len(block) \in Nat
      BY <1>1, <2>1 DEF BlockOK
    <3>2. /\ p.first \in Nat \ {0} /\ p.last \in Nat /\ p.first <= p.last
          /\ p.last <= Len(block)
      BY <3>1 DEF AnyPlan, Valid
    <3> QED
      BY <1>1, <2>2, <3>1, <3>2 DEF Untouched, Fresh
  <2> QED
    BY <1>1, <1>2, <2>1, <2>2, <2>3 DEF Matched
<1> QED
  BY <1>2, <1>3, <1>4 DEF RewriteInv

LEMMA SelectKeeps ==
  ASSUME RewriteInv, NEW p \in plans, Select(p)
  PROVE  RewriteInv'
<1>1. /\ BlockOK /\ Matched /\ rewrite' = rewrite /\ rewrite.stage = "batch"
      /\ block' = block /\ producer' = producer /\ compare' = compare
      /\ plans' = plans \ {p}
      /\ selected' = selected \cup {q \in {p} : ~ \E s \in selected : Overlap(s, q)}
  BY DEF Select, RewriteInv
<1>2. BlockOK' /\ Unspliced'
  BY <1>1 DEF BlockOK, Matched, Unspliced
<1>3. \A q \in plans' \cup selected' : Untouched(q)'
  BY <1>1 DEF Matched, Untouched, Fresh
<1>4. ASSUME NEW q \in selected', NEW r \in selected', q # r PROVE ~Overlap(q, r)
  <2>1. CASE q \in selected /\ r \in selected
    BY <1>1, <1>4, <2>1 DEF Matched
  <2>2. CASE q = p \/ r = p
    <3>1. \A s \in selected' \ selected : s = p /\ \A u \in selected : ~Overlap(u, p)
      BY <1>1
    <3>2. (q \in selected /\ r = p) \/ (q = p /\ r \in selected) \/ (q = p /\ p \in selected)
            \/ (r = p /\ p \in selected)
      BY <1>4, <2>2, <3>1
    <3> QED
      BY <1>1, <1>4, <2>1, <3>1, <3>2 DEF Overlap
  <2> QED
    BY <1>1, <2>1, <2>2
<1> QED
  BY <1>1, <1>2, <1>3, <1>4 DEF RewriteInv, Matched, Overlap

(* A splice of the last plan selected leaves the others in front of it.    *)
LEMMA SpliceKeeps ==
  ASSUME RewriteInv, NEW p \in selected, Splice(p)
  PROVE  RewriteInv'
<1>1. /\ BlockOK /\ Matched /\ rewrite' = rewrite /\ rewrite.stage = "batch"
      /\ plans = {} /\ plans' = {} /\ selected' = selected \ {p} /\ compare' = compare
      /\ \A q \in selected : q.first <= p.first
      /\ block' = SubSeq(block, 1, p.first - 1) \o [k \in 1..p.inserted |-> New]
                     \o SubSeq(block, p.last + 1, Len(block))
      /\ producer' = Shifted(p)
  BY DEF Splice, Upcoming, RewriteInv
<1>2. /\ p \in AnyPlan /\ p.first \in Nat \ {0} /\ p.last \in Nat /\ p.inserted \in Nat
      /\ Untouched(p) /\ p.first <= p.last /\ p.last <= Len(block)
      /\ block \in Seq(Nat \cup {New})
  BY <1>1 DEF BlockOK, AnyPlan, Matched, Untouched, Fresh
<1>3. PICK a \in Nat, b \in Nat, m \in Nat, n \in Nat :
        a = p.first - 1 /\ b = p.last /\ m = p.inserted /\ n = Len(block)
  BY <1>2
<1>4. a < b /\ b <= n
  BY <1>2, <1>3
<1>5. PICK t \in Seq(Nat \cup {New}) :
        /\ block' = t
        /\ Len(t) = a + m + (n - b)
        /\ \A k \in 1..a : t[k] = block[k]
        /\ \A k \in 1..m : t[a + k] = New
        /\ \A k \in 1..(n - b) : t[a + m + k] = block[b + k]
  <2>1. PICK S : S = Nat \cup {New}
    OBVIOUS
  <2>2. block \in Seq(S) /\ n = Len(block) /\ New \in S
    BY <1>2, <1>3, <2>1
  <2>3. PICK t \in Seq(S) : IsSplice(t, block, New, m, n, a, b)
    BY <1>4, <2>2, SpliceFacts
  <2>4. block' = SubSeq(block, 1, a) \o [k \in 1..m |-> New] \o SubSeq(block, b + 1, n)
    BY <1>1, <1>3
  <2> QED
    BY <2>1, <2>3, <2>4 DEF IsSplice
<1>6. block' = t /\ DOMAIN block = 1..n /\ DOMAIN t = 1..(a + m + (n - b))
  <2>1. block' = t
    BY <1>5
  <2>2. DOMAIN block = 1..n
    BY <1>2, <1>3
  <2>3. DOMAIN t = 1..Len(t)
    BY <1>5
  <2> QED
    BY <1>5, <2>1, <2>2, <2>3
<1>7. BlockOK'
  <2>1. producer' \in Nat
    BY <1>1, <1>2, SMTT(60) DEF BlockOK, Shifted
  <2> QED
    BY <1>1, <1>6, <2>1 DEF BlockOK
<1>8. ASSUME NEW q \in selected' PROVE Untouched(q)'
  <2>1. /\ q \in AnyPlan /\ q.first \in Nat \ {0} /\ q.last \in Nat
        /\ Untouched(q) /\ q.first <= p.first /\ ~Overlap(q, p)
    BY <1>1 DEF BlockOK, AnyPlan, Matched
  <2>2. q.last <= a
    BY <1>2, <1>3, <2>1, SMTT(60) DEF Overlap
  <2>3. \A k \in 1..q.last : k \in 1..a /\ block[k] = k
    BY <2>1, <2>2 DEF Untouched
  <2>4. q.last <= Len(t)
    BY <1>3, <1>4, <1>5, <2>1, <2>2
  <2> QED
    BY <1>5, <1>6, <2>1, <2>3, <2>4 DEF Untouched, Fresh
<1>9. ASSUME NEW k \in DOMAIN block', block'[k] = compare PROVE producer' = k
  <2>1. compare \in Nat /\ New \notin Nat /\ producer \in Nat /\ k \in 1..(a + m + (n - b))
    BY <1>1, <1>6, <1>9, NewAssumption DEF BlockOK
  <2>2. CASE k <= a
    <3>1. k \in 1..a /\ k \in DOMAIN block
      BY <1>4, <1>6, <2>1, <2>2
    <3>2. block[k] = compare
      BY <1>5, <1>6, <1>9, <3>1
    <3>3. producer = k
      BY <1>1, <3>1, <3>2 DEF Matched
    <3> QED
      BY <1>1, <1>3, <1>4, <2>1, <2>2, <3>3 DEF Shifted
  <2>3. CASE a < k /\ k <= a + m
    <3>1. k - a \in 1..m /\ a + (k - a) = k
      BY <2>1, <2>3
    <3>2. t[k] = New
      BY <1>5, <3>1
    <3> QED
      BY <1>6, <1>9, <2>1, <3>2
  <2>4. CASE a + m < k
    <3>1. PICK d \in 1..(n - b) : a + m + d = k /\ b + d \in 1..n
      <4>1. k \in Nat /\ k <= a + m + (n - b) /\ a + m < k /\ b <= n
        BY <1>4, <2>1, <2>4
      <4>2. k - (a + m) \in 1..(n - b) /\ a + m + (k - (a + m)) = k
        BY <4>1
      <4>3. b + (k - (a + m)) \in 1..n
        BY <4>1
      <4> QED
        BY <4>2, <4>3
    <3>2. t[k] = block[b + d]
      BY <1>5, <3>1
    <3>3. producer = b + d
      BY <1>1, <1>6, <1>9, <3>1, <3>2 DEF Matched
    <3>4. producer' = producer - (b - (a + 1) + 1) + m
      <4>1. producer > p.last
        BY <1>3, <3>1, <3>3
      <4>2. p.first = a + 1
        BY <1>2, <1>3
      <4> QED
        BY <1>1, <1>3, <4>1, <4>2 DEF Shifted
    <3> QED
      BY <3>1, <3>3, <3>4
  <2> QED
    BY <2>1, <2>2, <2>3, <2>4
<1>10. \A q, r \in selected' : q # r => ~Overlap(q, r)
  BY <1>1 DEF Matched
<1> QED
  BY <1>1, <1>7, <1>8, <1>9, <1>10 DEF RewriteInv, Matched, Overlap

LEMMA RewriteStepInv == RewriteInv /\ [RewriteStep]_rewriteVars => RewriteInv'
<1> SUFFICES ASSUME RewriteInv, [RewriteStep]_rewriteVars PROVE RewriteInv'
  OBVIOUS
<1>1. CASE GiveUp
  <2>1. rewrite' = [rewrite EXCEPT !.stage = "refused"] /\ UNCHANGED batch
    BY <1>1 DEF GiveUp
  <2>2. BlockOK' /\ rewrite'.stage = "refused"
    BY <2>1 DEF batch, RewriteInv, BlockOK, Batches
  <2> QED
    BY <2>2 DEF RewriteInv
<1>2. CASE EndBatch
  <2>0. rewrite' \in Batches /\ rewrite'.stage # "batch"
    <3>1. PICK s \in {"refused", "round"} : rewrite' = [rewrite EXCEPT !.generation = @ + 1, !.stage = s]
      BY <1>2 DEF EndBatch
    <3>2. PICK r : r = [rewrite EXCEPT !.generation = @ + 1]
      OBVIOUS
    <3>3. r \in Batches /\ rewrite' = [r EXCEPT !.stage = s]
      BY <3>1, <3>2, BatchFacts DEF RewriteInv, BlockOK
    <3> QED
      BY <3>1, <3>3, BatchFacts, ZenonT(60)
  <2>1. Len(block) \in Nat /\ block' = Named(Len(block)) /\ compare' = producer
    BY <1>2 DEF EndBatch, RewriteInv, BlockOK
  <2>2. BlockOK' /\ Between'
    <3>1. PICK n \in Nat : n = Len(block)
      BY <2>1
    <3>2. block' = Named(n) /\ Len(block') = n /\ block' \in Seq(Nat \cup {New})
      BY <2>1, <3>1, NamedFacts
    <3>3. producer \in Nat
      BY <1>2 DEF EndBatch, RewriteInv, BlockOK
    <3> QED
      BY <1>2, <2>0, <2>1, <3>2, <3>3 DEF EndBatch, RewriteInv, BlockOK, Between, Unspliced
  <2> QED
    BY <2>0, <2>2 DEF RewriteInv
<1>3. CASE UNCHANGED rewriteVars
  BY <1>3 DEF rewriteVars, batch, RewriteInv, BlockOK, Between, Unspliced, Matched, Untouched, Fresh
<1> QED
  BY <1>1, <1>2, <1>3, DiscoverKeeps, SelectKeeps, SpliceKeeps DEF RewriteStep, RewriteNext

(* For blocks of any length, any plans and any choice among those that     *)
(* overlap: whatever was spliced before, a plan replaces what it matched.  *)
THEOREM RewritesAsMatchedCorrect == RewriteSpec => []RewritesAsMatched
<1>1. RewriteInv => RewritesAsMatched
  <2> SUFFICES ASSUME RewriteInv, rewrite.stage = "batch"
               PROVE  /\ \A p \in plans \cup selected : \A k \in p.first..p.last :
                           k \in DOMAIN block /\ block[k] = k
                      /\ \A k \in DOMAIN block : block[k] = compare => producer = k
    BY DEF RewritesAsMatched
  <2>1. ASSUME NEW p \in plans \cup selected, NEW k \in p.first..p.last
        PROVE  k \in DOMAIN block /\ block[k] = k
    <3>1. Untouched(p) /\ p.first \in Nat /\ p.last \in Nat /\ DOMAIN block = 1..Len(block)
          /\ Len(block) \in Nat
      BY DEF RewriteInv, Matched, BlockOK, AnyPlan
    <3> QED
      BY <3>1 DEF Untouched, Fresh
  <2> QED
    BY <2>1 DEF RewriteInv, Matched
<1> QED
  BY <1>1, RewriteStartInv, RewriteStepInv, PTL DEF RewriteSpec
=============================================================================

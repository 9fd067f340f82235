----------------------------- MODULE FilesProofs -----------------------------
(***************************************************************************)
(* Depth-first loading puts every module after what it uses, for every     *)
(* graph of uses: a known name that is not active has been ordered.  What  *)
(* is loaded is what the root reaches, as the stack is a path from it.     *)
(* And for any number of processes, outputs and backups: whatever fails or *)
(* dies, the last output survives.  And for every disk, however many       *)
(* sectors, entries and files: writing keeps the chains apart and the      *)
(* bitmap right.                                                           *)
(***************************************************************************)
EXTENDS MCFiles, FiniteSetTheorems, WellFoundedInduction, TLAPS

Ordered == {graph_order[i] : i \in 1..Len(graph_order)}

FrameType == [user : Module, next : Nat]

LoaderTypeOK ==
  /\ InputOK
  /\ frames \in Seq(FrameType)
  /\ modules_by_path \subseteq Module
  /\ dependencies \in [Module -> Seq(Module)]
  /\ graph_order \in Seq(Module)
  /\ status \in {"start", "loading", "loaded", "cycle", "failed"}

(* Frame i waits for frame i + 1.                                          *)
Waits(i, p) ==
  \/ frames[i].next = 0 /\ UsesSys /\ p = Sys
  \/ frames[i].next \in 1..Len(uses[frames[i].user]) /\ p = uses[frames[i].user][frames[i].next]

StackOK ==
  /\ Top >= 1 /\ frames[1].user = Root
  /\ \A i \in 2..Top : frames[i].next >= 1
  /\ \A i, j \in 1..Top : frames[i].user = frames[j].user => i = j
  /\ \A i \in 1..Top - 1 : Waits(i, frames[i + 1].user)
KnownOK ==
  /\ modules_by_path \subseteq Active \cup Ordered
  /\ Ordered \subseteq modules_by_path
  /\ \A i \in 2..Top : frames[i].user \in modules_by_path
  /\ Active \cap Ordered = {}
(* What a frame has already used is in order.                              *)
UsedOK ==
  \A i \in 1..Top :
    /\ \A k \in 1..Len(uses[frames[i].user]) : k < frames[i].next => uses[frames[i].user][k] \in Ordered
    /\ i = 1 /\ frames[i].next >= 1 /\ UsesSys => Sys \in Ordered

IInv ==
  /\ LoaderTypeOK
  /\ DependenciesFirst
  /\ status = "start" => graph_order = <<>>
  /\ status = "loading" => StackOK /\ KnownOK /\ UsedOK

-----------------------------------------------------------------------------
LEMMA AppendFacts ==
  ASSUME NEW S, NEW s \in Seq(S), NEW e \in S
  PROVE  /\ Append(s, e) \in Seq(S) /\ Len(Append(s, e)) = Len(s) + 1 /\ Len(s) \in Nat
         /\ \A i \in 1..Len(s) : Append(s, e)[i] = s[i]
         /\ Append(s, e)[Len(s) + 1] = e
  OBVIOUS

LEMMA SeqFacts ==
  ASSUME NEW S, NEW s \in Seq(S)
  PROVE  Len(s) \in Nat /\ s = [i \in 1..Len(s) |-> s[i]] /\ \A i \in 1..Len(s) : s[i] \in S
  OBVIOUS

LEMMA SeqMade ==
  ASSUME NEW S, NEW n \in Nat, NEW F(_), \A i \in 1..n : F(i) \in S
  PROVE  [i \in 1..n |-> F(i)] \in Seq(S) /\ Len([i \in 1..n |-> F(i)]) = n
  OBVIOUS

LEMMA InitIInv == LoadInit => IInv
<1> SUFFICES ASSUME LoadInit PROVE IInv
  OBVIOUS
<1>1. InputOK /\ frames = <<>> /\ modules_by_path = {} /\ graph_order = <<>> /\ status = "start"
      /\ dependencies = [m \in Module |-> <<>>]
  BY DEF LoadInit
<1>2. LoaderTypeOK
  BY <1>1 DEF LoaderTypeOK
<1>3. DependenciesFirst
  BY <1>1 DEF DependenciesFirst
<1> QED
  BY <1>1, <1>2, <1>3 DEF IInv

(* Recording a use keeps dependencies a function of sequences.             *)
LEMMA DependsType ==
  ASSUME LoaderTypeOK, NEW m \in Module, NEW p \in Module
  PROVE  Depends(m, p) \in [Module -> Seq(Module)]
<1>1. dependencies[m] \in Seq(Module)
  BY DEF LoaderTypeOK
<1>2. Append(dependencies[m], p) \in Seq(Module)
  BY <1>1, AppendFacts
<1> QED
  BY <1>1, <1>2 DEF Depends, LoaderTypeOK

(* The frame on top, and what it may use next.                             *)
LEMMA TopFacts ==
  ASSUME IInv, status = "loading"
  PROVE  /\ Top \in Nat /\ Top >= 1
         /\ \A i \in 1..Top : frames[i] \in FrameType /\ frames[i].user \in Module /\ frames[i].next \in Nat
         /\ User \in Module /\ Use \in Nat
         /\ uses[User] \in Seq(Module)
         /\ \A p : Pending(p) => p \in Module /\ Waits(Top, p)
<1>1. frames \in Seq(FrameType) /\ Top >= 1 /\ InputOK
  BY DEF IInv, LoaderTypeOK, StackOK
<1>2. Top \in Nat /\ \A i \in 1..Top : frames[i] \in FrameType /\ frames[i].user \in Module /\ frames[i].next \in Nat
  <2>1. Top \in Nat /\ \A i \in 1..Top : frames[i] \in FrameType
    BY <1>1, SeqFacts DEF Top
  <2> QED
    BY <2>1 DEF FrameType
<1>3. User \in Module /\ Use \in Nat
  BY <1>1, <1>2 DEF User, Use, FrameType
<1>4. uses[User] \in Seq(Module)
  BY <1>1, <1>3 DEF InputOK
<1>5. ASSUME NEW p, Pending(p) PROVE p \in Module /\ Waits(Top, p)
  BY <1>4, <1>5, LoaderAssumption DEF Pending, Waits, User, Use
<1> QED
  BY <1>1, <1>2, <1>3, <1>4, <1>5

(* The order is right as long as it and what modules use are the same.     *)
LEMMA OrderKept ==
  ASSUME DependenciesFirst, uses' = uses, UsesSys' = UsesSys, graph_order' = graph_order
  PROVE  DependenciesFirst'
<1>1. \A m : Wants(m)' = Wants(m)
  BY DEF Wants
<1> QED
  BY <1>1 DEF DependenciesFirst

(* The frames once the top one goes on to its next use.                    *)
LEMMA AdvanceFrames ==
  ASSUME IInv, status = "loading", frames' = Advanced
  PROVE  /\ Top' = Top /\ frames' \in Seq(FrameType)
         /\ \A i \in 1..Top : frames'[i].user = frames[i].user
         /\ \A i \in 1..Top : frames'[i].next = IF i = Top THEN Use + 1 ELSE frames[i].next
<1>2. /\ Top \in Nat /\ Top >= 1 /\ User \in Module /\ Use \in Nat
      /\ \A i \in 1..Top : frames[i] \in FrameType /\ frames[i].user \in Module /\ frames[i].next \in Nat
  BY TopFacts
<1>4. /\ Len(frames') = Top
      /\ \A i \in 1..Top : frames'[i] = IF i = Top THEN Frame(User, Use + 1) ELSE frames[i]
      /\ frames' \in Seq(FrameType)
  <2>1. frames \in Seq(FrameType)
    BY DEF IInv, LoaderTypeOK
  <2>2. frames = [i \in 1..Top |-> frames[i]]
    BY <2>1, SeqFacts DEF Top
  <2>3. [frames[Top] EXCEPT !.next = @ + 1] = Frame(User, Use + 1)
    BY <1>2 DEF Frame, User, Use, FrameType
  <2>4. frames' = [i \in 1..Top |-> IF i = Top THEN Frame(User, Use + 1) ELSE frames[i]]
    <3>1. frames' = [frames EXCEPT ![Top] = [frames[Top] EXCEPT !.next = @ + 1]]
      BY DEF Advanced
    <3> QED
      BY <1>2, <2>2, <2>3, <3>1
  <2>5. Frame(User, Use + 1) \in FrameType
    BY <1>2 DEF Frame, FrameType
  <2>6. frames' \in Seq(FrameType) /\ Len(frames') = Top
    <3> DEFINE F(i) == IF i = Top THEN Frame(User, Use + 1) ELSE frames[i]
    <3>1. \A i \in 1..Top : F(i) \in FrameType
      BY <1>2, <2>5
    <3>2. frames' = [i \in 1..Top |-> F(i)]
      BY <2>4
    <3> HIDE DEF F
    <3> QED
      BY <1>2, <3>1, <3>2, SeqMade
  <2> QED
    BY <1>2, <2>4, <2>6
<1>5. /\ Top' = Top
      /\ \A i \in 1..Top : frames'[i].user = frames[i].user
      /\ \A i \in 1..Top : frames'[i].next = IF i = Top THEN Use + 1 ELSE frames[i].next
  BY <1>2, <1>4 DEF Frame, Top, User
<1> QED
  BY <1>4, <1>5

(* Going on to the next use: the one before it is in order.                *)
LEMMA AdvanceKeeps ==
  ASSUME IInv, status = "loading", NEW p, Waits(Top, p) => p \in Ordered,
         (Use = 0 /\ ~UsesSys) \/ Waits(Top, p),
         frames' = Advanced, UNCHANGED <<program, modules_by_path, graph_order, status>>,
         dependencies' \in [Module -> Seq(Module)]
  PROVE  IInv'
<1>1. LoaderTypeOK /\ DependenciesFirst /\ StackOK /\ KnownOK /\ UsedOK
  BY DEF IInv
<1>2. /\ Top \in Nat /\ Top >= 1 /\ User \in Module /\ Use \in Nat
      /\ \A i \in 1..Top : frames[i] \in FrameType /\ frames[i].user \in Module /\ frames[i].next \in Nat
  BY TopFacts
<1>3. /\ uses' = uses /\ provided' = provided /\ named' = named /\ implicit' = implicit
      /\ UsesSys' = UsesSys /\ Ordered' = Ordered
      /\ graph_order' = graph_order /\ modules_by_path' = modules_by_path /\ status' = status
  BY DEF program, UsesSys, Ordered
<1>5. /\ Top' = Top /\ frames' \in Seq(FrameType)
      /\ \A i \in 1..Top : frames'[i].user = frames[i].user
      /\ \A i \in 1..Top : frames'[i].next = IF i = Top THEN Use + 1 ELSE frames[i].next
  BY AdvanceFrames
<1>6. Active' = Active
  BY <1>5 DEF Active
<1>7. LoaderTypeOK'
  BY <1>1, <1>3, <1>5 DEF LoaderTypeOK, InputOK
<1>8. DependenciesFirst'
  BY <1>1, <1>3, OrderKept
<1>9. StackOK'
  <2>1. ASSUME NEW i \in 1..Top - 1 PROVE Waits(i, frames[i + 1].user)'
    <3>1. i \in 1..Top /\ i + 1 \in 1..Top /\ i # Top
      BY <1>2
    <3>2. /\ frames'[i].user = frames[i].user /\ frames'[i].next = frames[i].next
          /\ frames'[i + 1].user = frames[i + 1].user
      BY <1>5, <3>1
    <3>3. Waits(i, frames[i + 1].user)
      BY <1>1 DEF StackOK
    <3> QED
      BY <1>3, <3>2, <3>3 DEF Waits
  <2>2. frames'[1].user = Root
    <3>1. 1 \in 1..Top /\ frames[1].user = Root
      BY <1>1, <1>2 DEF StackOK
    <3> QED
      BY <1>5, <3>1
  <2>3. ASSUME NEW i \in 2..Top PROVE frames'[i].next >= 1
    <3>1. i \in 1..Top /\ frames[i].next >= 1
      BY <1>1, <1>2 DEF StackOK
    <3>2. frames'[i].next = IF i = Top THEN Use + 1 ELSE frames[i].next
      BY <1>5, <3>1
    <3>3. Use + 1 >= 1
      BY <1>2
    <3> QED
      BY <3>1, <3>2, <3>3
  <2>4. \A i, j \in 1..Top : frames'[i].user = frames'[j].user => i = j
    BY <1>1, <1>2, <1>5 DEF StackOK
  <2>5. \A i \in 1..Top - 1 : Waits(i, frames[i + 1].user)'
    BY <2>1
  <2> QED
    BY <1>2, <1>5, <2>2, <2>3, <2>4, <2>5 DEF StackOK
<1>10. KnownOK'
  <2>1. ASSUME NEW i \in 2..Top PROVE frames'[i].user \in modules_by_path
    <3>1. i \in 1..Top /\ frames[i].user \in modules_by_path
      BY <1>1, <1>2 DEF KnownOK
    <3> QED
      BY <1>5, <3>1
  <2> QED
    BY <1>1, <1>3, <1>5, <1>6, <2>1 DEF KnownOK
<1>11. UsedOK'
  <2> SUFFICES ASSUME NEW i \in 1..Top
               PROVE  /\ \A k \in 1..Len(uses[frames[i].user]) :
                           k < frames'[i].next => uses[frames[i].user][k] \in Ordered
                      /\ i = 1 /\ frames'[i].next >= 1 /\ UsesSys => Sys \in Ordered
    BY <1>3, <1>5 DEF UsedOK
  <2>1. CASE i # Top
    BY <1>1, <1>5, <2>1 DEF UsedOK
  <2>2. CASE i = Top
    <3>1. frames'[i].next = Use + 1 /\ frames[i].next = Use
      BY <1>5, <2>2 DEF Use
    <3>2. ASSUME NEW k \in 1..Len(uses[frames[i].user]), k < Use + 1
          PROVE  uses[frames[i].user][k] \in Ordered
      <4>1. CASE k = Use
        BY <1>2, <2>2, <3>1, <4>1, SMTT(60) DEF Waits
      <4>2. CASE k < Use
        BY <1>1, <2>2, <3>1, <4>2 DEF UsedOK
      <4> QED
        BY <1>2, <3>2, <4>1, <4>2
    <3>3. i = 1 /\ UsesSys => Sys \in Ordered
      BY <1>1, <1>2, <2>2, <3>1 DEF UsedOK, Waits
    <3> QED
      BY <3>1, <3>2, <3>3
  <2> QED
    BY <2>1, <2>2
<1> QED
  BY <1>7, <1>8, <1>9, <1>10, <1>11 DEF IInv

LEMMA LoadRootKeeps == IInv /\ LoadRoot => IInv'
<1> SUFFICES ASSUME IInv, LoadRoot PROVE IInv'
  OBVIOUS
<1>1. /\ LoaderTypeOK /\ graph_order = <<>> /\ graph_order' = <<>> /\ status' = "loading"
      /\ frames' = <<Frame(Root, 0)>> /\ modules_by_path' \subseteq {Root}
      /\ uses' = uses /\ provided' = provided /\ named' = named /\ implicit' = implicit
      /\ dependencies' = dependencies
  BY DEF IInv, LoadRoot, program
<1>2. Top' = 1 /\ frames'[1] = Frame(Root, 0) /\ Active' = {Root} /\ Ordered' = {}
  BY <1>1 DEF Top, Active, Ordered, Frame
<1>3. LoaderTypeOK'
  <2>1. Frame(Root, 0) \in FrameType
    BY LoaderAssumption DEF Frame, FrameType
  <2>2. <<Frame(Root, 0)>> \in Seq(FrameType)
    BY <2>1
  <2> QED
    BY <1>1, <2>2, LoaderAssumption DEF LoaderTypeOK, InputOK
<1>4. DependenciesFirst'
  BY <1>1 DEF DependenciesFirst
<1>5. StackOK' /\ KnownOK' /\ UsedOK'
  BY <1>1, <1>2 DEF StackOK, KnownOK, UsedOK, Frame
<1> QED
  BY <1>1, <1>3, <1>4, <1>5 DEF IInv

(* The frames once the module p is loaded.                                 *)
LEMMA PushFrames ==
  ASSUME IInv, NEW p \in Module, UseLoads(p)
  PROVE  /\ frames' \in Seq(FrameType) /\ Top' = Top + 1
         /\ \A i \in 1..Top : frames'[i] = frames[i]
         /\ frames'[Top + 1].user = p /\ frames'[Top + 1].next = 1
<1>4. /\ frames' \in Seq(FrameType)
      /\ Top' = Top + 1
      /\ \A i \in 1..Top : frames'[i] = frames[i]
      /\ frames'[Top + 1] = Frame(p, 1)
  <2>1. frames' = Append(frames, Frame(p, 1)) /\ Frame(p, 1) \in FrameType
    BY DEF UseLoads, Frame, FrameType
  <2>2. frames \in Seq(FrameType)
    BY DEF IInv, LoaderTypeOK
  <2> QED
    BY <2>1, <2>2, AppendFacts DEF Top
<1> QED
  BY <1>4 DEF Frame

LEMMA UseLoadsKeeps == ASSUME IInv, NEW p \in Module, UseLoads(p) PROVE IInv'
<1>1. LoaderTypeOK /\ DependenciesFirst /\ StackOK /\ KnownOK /\ UsedOK /\ status = "loading" /\ status' = status
  BY DEF IInv, UseLoads
<1>2. /\ Top \in Nat /\ Top >= 1 /\ User \in Module /\ Use \in Nat /\ Waits(Top, p)
      /\ \A i \in 1..Top : frames[i] \in FrameType /\ frames[i].user \in Module /\ frames[i].next \in Nat
  BY <1>1, TopFacts DEF UseLoads
<1>3. /\ uses' = uses /\ provided' = provided /\ named' = named /\ implicit' = implicit
      /\ UsesSys' = UsesSys /\ graph_order' = graph_order /\ Ordered' = Ordered
      /\ dependencies' = dependencies /\ modules_by_path' = modules_by_path \cup {p}
      /\ p \notin Active /\ p \notin modules_by_path
  BY DEF UseLoads, program, UsesSys, Ordered
<1>4. /\ frames' \in Seq(FrameType) /\ Top' = Top + 1
      /\ \A i \in 1..Top : frames'[i] = frames[i]
  BY PushFrames
<1>5. frames'[Top + 1].user = p /\ frames'[Top + 1].next = 1
  BY PushFrames
<1>6. Active' = Active \cup {p}
  <2>1. 1..Top + 1 = 1..Top \cup {Top + 1}
    BY <1>2
  <2> QED
    BY <1>4, <1>5, <2>1 DEF Active
<1>7. \A i \in 1..Top : frames[i].user # p
  BY <1>3 DEF Active
<1>8. LoaderTypeOK'
  BY <1>1, <1>3, <1>4 DEF LoaderTypeOK, InputOK
<1>9. DependenciesFirst'
  BY <1>1, <1>3, OrderKept
<1>10. StackOK'
  <2>1. ASSUME NEW i \in 1..Top PROVE Waits(i, frames[i + 1].user)'
    <3>1. frames'[i] = frames[i]
      BY <1>4
    <3>2. CASE i = Top
      <4>1. frames'[i + 1].user = p
        BY <1>5, <3>2
      <4>2. Waits(i, p)
        BY <1>2, <3>2
      <4> QED
        BY <1>3, <3>1, <4>1, <4>2 DEF Waits
    <3>3. CASE i # Top
      <4>1. i \in 1..Top - 1 /\ i + 1 \in 1..Top
        BY <1>2, <3>3
      <4>2. frames'[i + 1] = frames[i + 1]
        BY <1>4, <4>1
      <4>3. Waits(i, frames[i + 1].user)
        BY <1>1, <4>1 DEF StackOK
      <4> QED
        BY <1>3, <3>1, <4>2, <4>3 DEF Waits
    <3> QED
      BY <3>2, <3>3
  <2>2. \A i, j \in 1..Top + 1 : frames'[i].user = frames'[j].user => i = j
    <3>1. \A i \in 1..Top + 1 : i = Top + 1 \/ i \in 1..Top
      BY <1>2
    <3>2. \A i \in 1..Top : frames'[i].user = frames[i].user /\ frames'[i].user # p
      BY <1>4, <1>7
    <3>3. \A i, j \in 1..Top : frames[i].user = frames[j].user => i = j
      BY <1>1 DEF StackOK
    <3> QED
      BY <1>5, <3>1, <3>2, <3>3
  <2>3. frames'[1].user = Root /\ Top' >= 1 /\ \A i \in 2..Top + 1 : frames'[i].next >= 1
    BY <1>1, <1>2, <1>4, <1>5 DEF StackOK
  <2>4. \A i \in 1..Top' - 1 : Waits(i, frames[i + 1].user)'
    BY <1>2, <1>4, <2>1
  <2> QED
    BY <1>2, <1>4, <2>2, <2>3, <2>4 DEF StackOK
<1>11. KnownOK'
  <2>1. p \notin Ordered
    BY <1>1, <1>3 DEF KnownOK
  <2>2. \A i \in 2..Top + 1 : frames'[i].user \in modules_by_path'
    BY <1>1, <1>2, <1>3, <1>4, <1>5, SMTT(60) DEF KnownOK
  <2> QED
    BY <1>1, <1>3, <1>4, <1>6, <2>1, <2>2 DEF KnownOK
<1>12. UsedOK'
  <2> SUFFICES ASSUME NEW i \in 1..Top + 1
               PROVE  /\ \A k \in 1..Len(uses[frames'[i].user]) :
                           k < frames'[i].next => uses[frames'[i].user][k] \in Ordered
                      /\ i = 1 /\ frames'[i].next >= 1 /\ UsesSys => Sys \in Ordered
    BY <1>3, <1>4 DEF UsedOK
  <2>1. CASE i = Top + 1
    BY <1>2, <1>5, <2>1
  <2>2. CASE i # Top + 1
    <3>1. i \in 1..Top
      BY <1>2, <2>2
    <3> QED
      BY <1>1, <1>4, <3>1 DEF UsedOK
  <2> QED
    BY <2>1, <2>2
<1> QED
  BY <1>1, <1>8, <1>9, <1>10, <1>11, <1>12 DEF IInv

(* The frames once the top one is done: the one below goes on.             *)
LEMMA PopFrames ==
  ASSUME IInv, Return, Top # 1
  PROVE  /\ frames' \in Seq(FrameType) /\ Top' = Top - 1
         /\ \A i \in 1..Top - 1 : frames'[i].user = frames[i].user
         /\ \A i \in 1..Top - 1 :
              frames'[i].next = IF i = Top - 1 THEN frames[i].next + 1 ELSE frames[i].next
<1>1. /\ Top \in Nat /\ Top >= 1
      /\ \A i \in 1..Top : frames[i] \in FrameType /\ frames[i].user \in Module /\ frames[i].next \in Nat
  BY TopFacts DEF Return
<1>2. Top - 1 \in 1..Top /\ Top - 1 \in Nat /\ Top - 1 >= 1
  BY <1>1
<1>3. frames' = [i \in 1..Top - 1 |->
                   IF i = Top - 1 THEN Frame(frames[i].user, frames[i].next + 1) ELSE frames[i]]
  BY DEF Return
<1>4. /\ frames' \in Seq(FrameType) /\ Top' = Top - 1
      /\ \A i \in 1..Top - 1 :
           /\ frames'[i].user = frames[i].user
           /\ frames'[i].next = IF i = Top - 1 THEN frames[i].next + 1 ELSE frames[i].next
  <2> DEFINE F(i) == IF i = Top - 1 THEN Frame(frames[i].user, frames[i].next + 1) ELSE frames[i]
  <2>1. \A i \in 1..Top - 1 : F(i) \in FrameType
    BY <1>1 DEF Frame, FrameType
  <2>2. frames' = [i \in 1..Top - 1 |-> F(i)]
    BY <1>3
  <2>3. frames' \in Seq(FrameType) /\ Len(frames') = Top - 1
    <3> HIDE DEF F
    <3> QED
      BY <1>2, <2>1, <2>2, SeqMade
  <2>4. \A i \in 1..Top - 1 :
          frames'[i] = IF i = Top - 1 THEN Frame(frames[i].user, frames[i].next + 1) ELSE frames[i]
    BY <1>3
  <2>5. \A i \in 1..Top - 1 :
          /\ frames'[i].user = frames[i].user
          /\ frames'[i].next = IF i = Top - 1 THEN frames[i].next + 1 ELSE frames[i].next
    <3> SUFFICES ASSUME NEW i \in 1..Top - 1
                 PROVE  /\ frames'[i].user = frames[i].user
                        /\ frames'[i].next = IF i = Top - 1 THEN frames[i].next + 1 ELSE frames[i].next
      OBVIOUS
    <3>1. CASE i = Top - 1
      <4>1. frames'[i] = Frame(frames[i].user, frames[i].next + 1)
        BY <2>4, <3>1
      <4> QED
        BY <3>1, <4>1 DEF Frame
    <3>2. CASE i # Top - 1
      BY <2>4, <3>2
    <3> QED
      BY <3>1, <3>2
  <2> QED
    BY <2>3, <2>5 DEF Top
<1> QED
  BY <1>4

(* A finished module is ordered after all it wants.                        *)
LEMMA ReturnKeeps == IInv /\ Return => IInv'
<1> SUFFICES ASSUME IInv, Return PROVE IInv'
  OBVIOUS
<1>1. LoaderTypeOK /\ DependenciesFirst /\ StackOK /\ KnownOK /\ UsedOK /\ status = "loading"
  BY DEF IInv, Return
<1>2. /\ Top \in Nat /\ Top >= 1 /\ User \in Module /\ Use \in Nat
      /\ uses[User] \in Seq(Module)
      /\ \A i \in 1..Top : frames[i] \in FrameType /\ frames[i].user \in Module /\ frames[i].next \in Nat
  BY <1>1, TopFacts
<1>3. /\ uses' = uses /\ provided' = provided /\ named' = named /\ implicit' = implicit
      /\ UsesSys' = UsesSys /\ modules_by_path' = modules_by_path
  BY DEF Return, program, UsesSys
<1>4. Wants(User) \subseteq Ordered
  <2>1. Use > Len(uses[User]) /\ Use >= 1 /\ Len(uses[User]) \in Nat
    BY <1>2 DEF Return
  <2>2. \A k \in 1..Len(uses[User]) : uses[User][k] \in Ordered
    BY <1>1, <1>2, <2>1 DEF UsedOK, User, Use
  <2>3. User = Root => Top = 1
    BY <1>1, <1>2, SMTT(60) DEF StackOK, User
  <2>4. User = Root /\ UsesSys => Sys \in Ordered
    BY <1>1, <1>2, <2>1, <2>3 DEF UsedOK, User, Use
  <2> QED
    BY <2>2, <2>4 DEF Wants
<1>5. User \notin Ordered
  BY <1>1, <1>2 DEF KnownOK, Active, User
<1>6. /\ graph_order' \in Seq(Module) /\ Len(graph_order') = Len(graph_order) + 1
      /\ Len(graph_order) \in Nat
      /\ \A i \in 1..Len(graph_order) : graph_order'[i] = graph_order[i]
      /\ graph_order'[Len(graph_order) + 1] = User
  <2>1. graph_order \in Seq(Module) /\ graph_order' = Append(graph_order, User)
    BY <1>1 DEF LoaderTypeOK, Return
  <2> QED
    BY <1>2, <2>1, AppendFacts
<1>7. Ordered' = Ordered \cup {User}
  <2>1. 1..Len(graph_order) + 1 = 1..Len(graph_order) \cup {Len(graph_order) + 1}
    BY <1>6
  <2> QED
    BY <1>6, <2>1 DEF Ordered
<1>8. DependenciesFirst'
  <2> SUFFICES ASSUME NEW i \in 1..Len(graph_order) + 1
               PROVE  /\ \A p \in Wants(graph_order'[i]) : \E j \in 1..i - 1 : graph_order'[j] = p
                      /\ \A j \in 1..Len(graph_order) + 1 : graph_order'[j] = graph_order'[i] => j = i
    <3>1. \A m : Wants(m)' = Wants(m)
      BY <1>3 DEF Wants
    <3> QED
      BY <1>6, <3>1 DEF DependenciesFirst
  <2>1. \A j \in 1..Len(graph_order) : graph_order[j] # User
    BY <1>5 DEF Ordered
  <2>2. CASE i = Len(graph_order) + 1
    <3>1. \A p \in Wants(User) : \E j \in 1..Len(graph_order) : graph_order[j] = p
      BY <1>4 DEF Ordered
    <3> QED
      BY <1>6, <2>1, <2>2, <3>1
  <2>3. CASE i # Len(graph_order) + 1
    <3>1. i \in 1..Len(graph_order) /\ graph_order'[i] = graph_order[i]
      BY <1>6, <2>3
    <3>2. \A p \in Wants(graph_order[i]) : \E j \in 1..i - 1 : graph_order[j] = p
      BY <1>1, <3>1 DEF DependenciesFirst
    <3>3. \A j \in 1..i - 1 : graph_order'[j] = graph_order[j]
      BY <1>6, <3>1
    <3>4. \A j \in 1..Len(graph_order) + 1 : graph_order'[j] = graph_order'[i] => j = i
      BY <1>1, <1>6, <2>1, <3>1 DEF DependenciesFirst
    <3> QED
      BY <3>1, <3>2, <3>3, <3>4
  <2> QED
    BY <2>2, <2>3
<1>9. CASE Top = 1
  <2>1. frames' = [i \in 1..0 |-> frames[i]] /\ status' = "loaded" /\ dependencies' = dependencies
    BY <1>2, <1>9 DEF Return
  <2>2. frames' = <<>>
    BY <2>1
  <2>3. LoaderTypeOK'
    BY <1>1, <1>3, <1>6, <2>1, <2>2 DEF LoaderTypeOK, InputOK
  <2> QED
    BY <1>8, <2>1, <2>3 DEF IInv
<1>10. CASE Top # 1
  <2>1. Top - 1 \in 1..Top /\ Top - 1 \in Nat /\ Top - 1 >= 1
    BY <1>2, <1>10
  <2>2. frames' = [i \in 1..Top - 1 |->
                     IF i = Top - 1 THEN Frame(frames[i].user, frames[i].next + 1) ELSE frames[i]]
        /\ status' = status /\ dependencies' = Depends(frames[Top - 1].user, User)
    BY <1>10 DEF Return
  <2>3. /\ frames' \in Seq(FrameType) /\ Top' = Top - 1
        /\ \A i \in 1..Top - 1 : frames'[i].user = frames[i].user
        /\ \A i \in 1..Top - 1 :
             frames'[i].next = IF i = Top - 1 THEN frames[i].next + 1 ELSE frames[i].next
    BY <1>10, PopFrames
  <2>4. frames[Top - 1].user \in Module
    BY <1>2, <2>1 DEF FrameType
  <2>5. LoaderTypeOK'
    BY <1>1, <1>2, <1>3, <1>6, <2>2, <2>3, <2>4, DependsType DEF LoaderTypeOK, InputOK
  <2>6. StackOK'
    <3>1. ASSUME NEW i \in 1..Top - 2 PROVE Waits(i, frames[i + 1].user)'
      <4>1. i \in 1..Top - 1 /\ i + 1 \in 1..Top - 1 /\ i # Top - 1
        BY <1>2
      <4>2. /\ frames'[i].user = frames[i].user /\ frames'[i].next = frames[i].next
            /\ frames'[i + 1].user = frames[i + 1].user
        BY <2>3, <4>1
      <4>3. Waits(i, frames[i + 1].user)
        BY <1>1, <4>1 DEF StackOK
      <4> QED
        BY <1>3, <4>2, <4>3 DEF Waits
    <3>2. frames'[1].user = Root
      BY <1>1, <1>2, <2>1, <2>3 DEF StackOK
    <3>5. ASSUME NEW i \in 2..Top - 1 PROVE frames'[i].next >= 1
      <4>1. i \in 2..Top /\ i \in 1..Top /\ i \in 1..Top - 1
        BY <1>2
      <4>2. frames[i].next >= 1 /\ frames[i].next \in Nat
        BY <1>1, <1>2, <4>1 DEF StackOK
      <4>3. frames'[i].next = IF i = Top - 1 THEN frames[i].next + 1 ELSE frames[i].next
        BY <2>3, <4>1
      <4> QED
        BY <4>2, <4>3
    <3>3. \A i, j \in 1..Top - 1 : frames'[i].user = frames'[j].user => i = j
      BY <1>1, <1>2, <2>3 DEF StackOK
    <3>4. \A i \in 1..Top' - 1 : Waits(i, frames[i + 1].user)'
      BY <1>2, <2>3, <3>1
    <3> QED
      BY <1>2, <2>1, <2>3, <3>2, <3>3, <3>4, <3>5 DEF StackOK
  <2>7. KnownOK'
    <3>1. Active = Active' \cup {User}
      <4>1. 1..Top = (1..Top - 1) \cup {Top}
        BY <1>2
      <4>2. Active = {frames[i].user : i \in 1..Top}
        BY DEF Active
      <4>3. Active' = {frames'[i].user : i \in 1..Top - 1}
        BY <2>3 DEF Active
      <4>4. {frames'[i].user : i \in 1..Top - 1} = {frames[i].user : i \in 1..Top - 1}
        BY <2>3
      <4>5. {frames[i].user : i \in 1..Top} = {frames[i].user : i \in 1..Top - 1} \cup {frames[Top].user}
        BY <4>1
      <4> QED
        BY <4>2, <4>3, <4>4, <4>5 DEF User
    <3>2. User \notin Active'
      <4>1. ASSUME NEW i \in 1..Top - 1, frames'[i].user = User PROVE FALSE
        <5>1. i \in 1..Top /\ Top \in 1..Top /\ i # Top
          BY <1>2
        <5>2. frames[i].user = frames[Top].user
          BY <2>3, <4>1 DEF User
        <5> QED
          BY <1>1, <5>1, <5>2 DEF StackOK
      <4> QED
        BY <2>3, <4>1 DEF Active
    <3>3. User \in modules_by_path
      BY <1>1, <1>2, <1>10 DEF KnownOK, User
    <3>4. \A i \in 2..Top - 1 : frames'[i].user \in modules_by_path
      BY <1>1, <1>2, <2>3 DEF KnownOK
    <3> QED
      BY <1>1, <1>3, <1>7, <2>3, <3>1, <3>2, <3>3, <3>4 DEF KnownOK
  <2>8. UsedOK'
    <3> SUFFICES ASSUME NEW i \in 1..Top - 1
                 PROVE  /\ \A k \in 1..Len(uses[frames[i].user]) :
                             k < frames'[i].next => uses[frames[i].user][k] \in Ordered \cup {User}
                        /\ i = 1 /\ frames'[i].next >= 1 /\ UsesSys => Sys \in Ordered \cup {User}
      BY <1>3, <1>7, <2>3 DEF UsedOK
    <3>1. i \in 1..Top
      BY <1>2
    <3>2. CASE i # Top - 1
      BY <1>1, <2>3, <3>1, <3>2 DEF UsedOK
    <3>3. CASE i = Top - 1
      <4>1. Waits(i, User)
        <5>1. i \in 1..Top - 1 /\ i + 1 = Top
          BY <1>2, <3>3
        <5> QED
          BY <1>1, <5>1 DEF StackOK, User
      <4>2. frames'[i].next = frames[i].next + 1 /\ frames[i].next \in Nat
        BY <1>2, <2>3, <3>1, <3>3
      <4>3. ASSUME NEW k \in 1..Len(uses[frames[i].user]), k < frames[i].next + 1
            PROVE  uses[frames[i].user][k] \in Ordered \cup {User}
        <5>1. CASE k = frames[i].next
          BY <4>1, <5>1 DEF Waits
        <5>2. CASE k < frames[i].next
          BY <1>1, <3>1, <5>2 DEF UsedOK
        <5> QED
          BY <4>2, <4>3, <5>1, <5>2
      <4>4. i = 1 /\ UsesSys => Sys \in Ordered \cup {User}
        BY <1>1, <3>1, <4>1, <4>2 DEF UsedOK, Waits
      <4> QED
        BY <4>2, <4>3, <4>4
    <3> QED
      BY <3>2, <3>3
  <2> QED
    BY <1>1, <1>8, <2>2, <2>5, <2>6, <2>7, <2>8 DEF IInv
<1> QED
  BY <1>9, <1>10

LEMMA NextKeeps == IInv /\ [Load]_loader => IInv'
<1> SUFFICES ASSUME IInv, [Load]_loader PROVE IInv'
  OBVIOUS
<1>1. CASE LoadRoot
  BY <1>1, LoadRootKeeps
<1>2. CASE SkipSys
  <2>1. dependencies' \in [Module -> Seq(Module)]
    BY <1>2 DEF SkipSys, IInv, LoaderTypeOK
  <2>2. PICK p : p = "none"
    OBVIOUS
  <2>3. ~Waits(Top, p)
    BY <1>2, TopFacts DEF SkipSys, Waits, Use
  <2> QED
    BY <1>2, <2>1, <2>3, AdvanceKeeps DEF SkipSys
<1>3. CASE Return
  BY <1>3, ReturnKeeps
<1>4. ASSUME NEW p \in Module, FindsCycle(p) \/ UseFails(p) PROVE IInv'
  <2>1. /\ LoaderTypeOK /\ DependenciesFirst /\ status' \in {"cycle", "failed"}
        /\ UNCHANGED <<program, frames, modules_by_path, dependencies, graph_order>>
    BY <1>4 DEF IInv, FindsCycle, UseFails
  <2>2. /\ uses' = uses /\ provided' = provided /\ named' = named /\ implicit' = implicit
        /\ frames' = frames /\ modules_by_path' = modules_by_path
        /\ dependencies' = dependencies /\ graph_order' = graph_order
    BY <2>1 DEF program
  <2>3. LoaderTypeOK'
    BY <2>1, <2>2 DEF LoaderTypeOK, InputOK
  <2>4. DependenciesFirst'
    BY <2>1, <2>2, OrderKept DEF UsesSys
  <2> QED
    BY <2>1, <2>3, <2>4 DEF IInv
<1>5. ASSUME NEW p \in Module, UseKnown(p) PROVE IInv'
  <2>1. /\ status = "loading" /\ Pending(p) /\ p \notin Active /\ p \in modules_by_path
        /\ dependencies' = Depends(User, p) /\ frames' = Advanced
        /\ UNCHANGED <<program, modules_by_path, graph_order, status>>
    BY <1>5 DEF UseKnown, Reuses
  <2>2. p \in Ordered
    BY <2>1 DEF IInv, KnownOK
  <2>3. Waits(Top, p) /\ User \in Module
    BY <2>1, TopFacts
  <2>4. dependencies' \in [Module -> Seq(Module)]
    BY <2>1, <2>3, DependsType DEF IInv
  <2> QED
    BY <2>1, <2>2, <2>3, <2>4, AdvanceKeeps
<1>6. ASSUME NEW p \in Module, UseLoads(p) PROVE IInv'
  BY <1>6, UseLoadsKeeps
<1>7. CASE UNCHANGED loader
  <2>1. /\ uses' = uses /\ provided' = provided /\ named' = named /\ implicit' = implicit
        /\ frames' = frames /\ modules_by_path' = modules_by_path
        /\ dependencies' = dependencies /\ graph_order' = graph_order /\ status' = status
    BY <1>7 DEF loader, program
  <2>2. LoaderTypeOK' /\ DependenciesFirst'
    <3>1. UsesSys' = UsesSys
      BY <2>1 DEF UsesSys
    <3>2. DependenciesFirst'
      BY <2>1, <3>1, OrderKept DEF IInv
    <3> QED
      BY <2>1, <3>2 DEF IInv, LoaderTypeOK, InputOK
  <2>3. status = "loading" => StackOK' /\ KnownOK' /\ UsedOK'
    <3>1. Top' = Top /\ Active' = Active /\ Ordered' = Ordered /\ UsesSys' = UsesSys
      BY <2>1 DEF Top, Active, Ordered, UsesSys
    <3>2. StackOK => StackOK'
      BY <2>1, <3>1 DEF StackOK, Waits
    <3>3. (KnownOK => KnownOK') /\ (UsedOK => UsedOK')
      BY <2>1, <3>1 DEF KnownOK, UsedOK
    <3> QED
      BY <3>2, <3>3 DEF IInv
  <2> QED
    BY <2>1, <2>2, <2>3 DEF IInv
<1> QED
  BY <1>1, <1>2, <1>3, <1>4, <1>5, <1>6, <1>7 DEF Load

(* The stack, the table of names and the order keep their types.           *)
THEOREM LoaderTypeCorrect == LoadSpec => []LoaderTypeOK
<1>1. IInv => LoaderTypeOK
  BY DEF IInv
<1> QED
  BY <1>1, InitIInv, NextKeeps, PTL DEF LoadSpec

(* For every graph of uses, graph_order lists each module once and after   *)
(* everything it uses, at every moment of the loading.                     *)
THEOREM DependenciesFirstCorrect == LoadSpec => []DependenciesFirst
<1>1. IInv => DependenciesFirst
  BY DEF IInv
<1> QED
  BY <1>1, InitIInv, NextKeeps, PTL DEF LoadSpec
-----------------------------------------------------------------------------
(* What the loader records of a module, and what it has by its n-th use.   *)
Recorded(m) == {dependencies[m][i] : i \in 1..Len(dependencies[m])}
Past(m, n) ==
  {uses[m][k] : k \in {k \in 1..Len(uses[m]) : k < n}} \cup (IF m = Root /\ n >= 1 /\ UsesSys THEN {Sys} ELSE {})

(* The stack is a path of uses from the root, and everything loaded is on  *)
(* such a path; of each module just the uses behind it are recorded.       *)
PathOK ==
  /\ \A i \in 1..Top : frames[i].user \in Needed
  /\ \A i, j \in 1..Top : i < j => frames[j].user \in Reached(frames[i].user)
  /\ Ordered \subseteq Needed
RecordOK ==
  /\ \A m \in Ordered : Recorded(m) = Wants(m)
  /\ \A i \in 1..Top : Recorded(frames[i].user) = Past(frames[i].user, frames[i].next)
  /\ \A m \in Module \ (Active \cup Ordered) : Recorded(m) = {}

OutcomeInv ==
  /\ status = "start" => \A m \in Module : Recorded(m) = {}
  /\ status = "loading" => PathOK /\ RecordOK
  /\ OutcomeJustified

(* What is reached from a module is what it uses and what that reaches.    *)
LEMMA WantsType == ASSUME InputOK, NEW m \in Module PROVE Wants(m) \subseteq Module
<1>1. \A i \in 1..Len(uses[m]) : uses[m][i] \in Module
  <2>1. uses[m] \in Seq(Module)
    BY DEF InputOK
  <2> QED
    BY <2>1, SeqFacts
<1> QED
  BY <1>1, LoaderAssumption DEF Wants

LEMMA ReachedFacts ==
  ASSUME InputOK, NEW m \in Module
  PROVE  /\ Wants(m) \subseteq Reached(m)
         /\ \A k \in Reached(m) : Wants(k) \subseteq Reached(m)
         /\ \A S \in SUBSET Module : Wants(m) \subseteq S /\ Closed(S) => Reached(m) \subseteq S
         /\ Reached(m) \subseteq Module
<1>1. Wants(m) \subseteq Reached(m)
  BY WantsType DEF Reached
<1>2. ASSUME NEW k \in Reached(m), NEW x \in Wants(k) PROVE x \in Reached(m)
  <2>1. k \in Module /\ x \in Module
    BY <1>2, WantsType DEF Reached
  <2>2. ASSUME NEW S \in SUBSET Module, Wants(m) \subseteq S, Closed(S) PROVE x \in S
    <3>1. k \in S
      BY <2>2 DEF Reached
    <3> QED
      BY <1>2, <2>2, <3>1 DEF Closed
  <2> QED
    BY <2>1, <2>2 DEF Reached
<1> QED
  BY <1>1, <1>2 DEF Reached

LEMMA NeededFacts ==
  ASSUME InputOK
  PROVE  /\ Root \in Needed /\ Needed \subseteq Module
         /\ \A m \in Needed : Wants(m) \subseteq Reached(Root) /\ Wants(m) \subseteq Needed
<1>1. Root \in Module
  BY LoaderAssumption
<1>2. /\ Wants(Root) \subseteq Reached(Root) /\ Reached(Root) \subseteq Module
      /\ \A k \in Reached(Root) : Wants(k) \subseteq Reached(Root)
  BY <1>1, ReachedFacts
<1> QED
  BY <1>1, <1>2 DEF Needed

LEMMA ReachedKept ==
  ASSUME UNCHANGED program
  PROVE  /\ \A m : Wants(m)' = Wants(m) /\ Reached(m)' = Reached(m)
         /\ Needed' = Needed /\ \A m, n : Past(m, n)' = Past(m, n)
<1>1. uses' = uses /\ UsesSys' = UsesSys
  BY DEF program, UsesSys
<1>2. \A m : Wants(m)' = Wants(m)
  BY <1>1 DEF Wants
<1>3. \A S : Closed(S)' = Closed(S)
  BY <1>2 DEF Closed
<1>4. \A m : Reached(m)' = Reached(m)
  BY <1>2, <1>3 DEF Reached
<1> QED
  BY <1>1, <1>2, <1>4 DEF Needed, Past

(* How what is behind a use grows from one use to the next.                *)
LEMMA PastFacts ==
  ASSUME InputOK, NEW m \in Module
  PROVE  /\ Past(m, 0) = {}
         /\ Past(m, 1) = IF m = Root /\ UsesSys THEN {Sys} ELSE {}
         /\ \A n \in 1..Len(uses[m]) : Past(m, n + 1) = Past(m, n) \cup {uses[m][n]}
         /\ \A n \in Nat : n >= 1 /\ n > Len(uses[m]) => Past(m, n) = Wants(m)
<1>1. Len(uses[m]) \in Nat
  BY DEF InputOK
<1>2. Past(m, 0) = {} /\ Past(m, 1) = IF m = Root /\ UsesSys THEN {Sys} ELSE {}
  BY <1>1 DEF Past
<1>3. ASSUME NEW n \in 1..Len(uses[m]) PROVE Past(m, n + 1) = Past(m, n) \cup {uses[m][n]}
  <2>1. {k \in 1..Len(uses[m]) : k < n + 1} = {k \in 1..Len(uses[m]) : k < n} \cup {n}
    BY <1>1
  <2>2. n + 1 >= 1 /\ n >= 1
    BY <1>1
  <2> QED
    BY <2>1, <2>2 DEF Past
<1>4. ASSUME NEW n \in Nat, n >= 1, n > Len(uses[m]) PROVE Past(m, n) = Wants(m)
  <2>1. {k \in 1..Len(uses[m]) : k < n} = 1..Len(uses[m])
    BY <1>1, <1>4
  <2> QED
    BY <1>4, <2>1 DEF Past, Wants
<1> QED
  BY <1>2, <1>3, <1>4

LEMMA DependsRecords ==
  ASSUME LoaderTypeOK, NEW m \in Module, NEW p \in Module, dependencies' = Depends(m, p)
  PROVE  \A x \in Module : Recorded(x)' = IF x = m THEN Recorded(m) \cup {p} ELSE Recorded(x)
<1>1. dependencies[m] \in Seq(Module) /\ dependencies \in [Module -> Seq(Module)]
  BY DEF LoaderTypeOK
<1>2. CASE \E i \in 1..Len(dependencies[m]) : dependencies[m][i] = p
  <2>1. dependencies' = dependencies
    BY <1>1, <1>2 DEF Depends
  <2> QED
    BY <1>2, <2>1 DEF Recorded
<1>3. CASE ~\E i \in 1..Len(dependencies[m]) : dependencies[m][i] = p
  <2>1. dependencies' = [dependencies EXCEPT ![m] = Append(dependencies[m], p)]
    BY <1>3 DEF Depends
  <2>2. dependencies'[m] = Append(dependencies[m], p) /\ \A x \in Module \ {m} : dependencies'[x] = dependencies[x]
    BY <1>1, <2>1
  <2>3. /\ Len(dependencies'[m]) = Len(dependencies[m]) + 1 /\ Len(dependencies[m]) \in Nat
        /\ \A i \in 1..Len(dependencies[m]) : dependencies'[m][i] = dependencies[m][i]
        /\ dependencies'[m][Len(dependencies[m]) + 1] = p
    BY <1>1, <2>2, AppendFacts
  <2>4. 1..Len(dependencies[m]) + 1 = 1..Len(dependencies[m]) \cup {Len(dependencies[m]) + 1}
    BY <2>3
  <2>5. Recorded(m)' = Recorded(m) \cup {p}
    <3>1. PICK s, t, n : s = dependencies[m] /\ t = dependencies'[m] /\ n = Len(dependencies[m])
      OBVIOUS
    <3>2. n \in Nat /\ Len(t) = n + 1 /\ t[n + 1] = p /\ \A i \in 1..n : t[i] = s[i]
      BY <2>3, <3>1
    <3>3. \A i \in 1..(n + 1) : i \in 1..n \/ i = n + 1
      BY <3>2
    <3>4. \A i \in 1..n : i \in 1..(n + 1)
      BY <3>2
    <3>5. n + 1 \in 1..(n + 1)
      BY <3>2
    <3>6. {t[i] : i \in 1..(n + 1)} = {s[i] : i \in 1..n} \cup {p}
      BY ONLY <3>2, <3>3, <3>4, <3>5
    <3>7. Recorded(m)' = {t[i] : i \in 1..(n + 1)} /\ Recorded(m) = {s[i] : i \in 1..n}
      BY <3>1, <3>2 DEF Recorded
    <3> QED
      BY <3>6, <3>7
  <2> QED
    BY <2>2, <2>5, SMTT(60) DEF Recorded
<1> QED
  BY <1>2, <1>3

(* A frame that waits for p wants it, and has it behind when it goes on.   *)
LEMMA WaitsFacts ==
  ASSUME IInv, status = "loading", NEW i \in 1..Top, NEW p, Waits(i, p)
  PROVE  /\ p \in Wants(frames[i].user)
         /\ Past(frames[i].user, frames[i].next + 1) = Past(frames[i].user, frames[i].next) \cup {p}
<1>1. /\ frames[i].user \in Module /\ frames[i].next \in Nat /\ InputOK
      /\ frames[i].next = 0 => frames[i].user = Root
  <2>1. frames[i].user \in Module /\ frames[i].next \in Nat /\ Top \in Nat
    BY TopFacts
  <2>2. i = 1 \/ i \in 2..Top
    BY <2>1
  <2> QED
    BY <2>1, <2>2 DEF IInv, StackOK, LoaderTypeOK
<1>2. CASE frames[i].next = 0 /\ UsesSys /\ p = Sys
  BY <1>1, <1>2, PastFacts DEF Wants
<1>3. CASE frames[i].next \in 1..Len(uses[frames[i].user]) /\ p = uses[frames[i].user][frames[i].next]
  BY <1>1, <1>3, PastFacts DEF Wants
<1> QED
  BY <1>2, <1>3 DEF Waits

LEMMA WaitsReached ==
  ASSUME IInv, status = "loading", PathOK, NEW p, Waits(Top, p)
  PROVE  /\ p \in Needed /\ p \in Reached(Root)
         /\ \A i \in 1..Top : p \in Reached(frames[i].user)
<1>1. InputOK /\ Top \in Nat /\ Top >= 1 /\ Top \in 1..Top /\ \A i \in 1..Top : frames[i].user \in Module
  BY TopFacts DEF IInv, LoaderTypeOK
<1>2. p \in Wants(User) /\ User \in Needed
  BY <1>1, WaitsFacts DEF PathOK, User
<1>3. p \in Needed /\ p \in Reached(Root)
  BY <1>1, <1>2, NeededFacts
<1>4. ASSUME NEW i \in 1..Top PROVE p \in Reached(frames[i].user)
  <2>1. CASE i = Top
    <3>1. Wants(User) \subseteq Reached(User)
      BY <1>1, ReachedFacts DEF User
    <3> QED
      BY <1>2, <2>1, <3>1 DEF User
  <2>2. CASE i < Top
    <3>1. User \in Reached(frames[i].user)
      BY <1>1, <2>2 DEF PathOK, User
    <3>2. \A k \in Reached(frames[i].user) : Wants(k) \subseteq Reached(frames[i].user)
      BY <1>1, ReachedFacts
    <3> QED
      BY <1>2, <3>1, <3>2
  <2> QED
    BY <1>1, <2>1, <2>2
<1> QED
  BY <1>3, <1>4

LEMMA OutcomeInit == LoadInit => OutcomeInv
<1> SUFFICES ASSUME LoadInit PROVE OutcomeInv
  OBVIOUS
<1>1. \A m \in Module : dependencies[m] = <<>>
  BY DEF LoadInit
<1>2. ASSUME NEW m \in Module PROVE Recorded(m) = {}
  <2>1. dependencies[m] = <<>>
    BY <1>1
  <2>2. 1..Len(dependencies[m]) = {}
    BY <2>1
  <2> QED
    BY <2>2 DEF Recorded
<1> QED
  BY <1>2 DEF LoadInit, OutcomeInv, OutcomeJustified

LEMMA LoadRootOutcome == ASSUME IInv, OutcomeInv, LoadRoot PROVE OutcomeInv'
<1>1. /\ graph_order' = <<>> /\ status' = "loading" /\ frames' = <<Frame(Root, 0)>>
      /\ dependencies' = dependencies /\ UNCHANGED program /\ InputOK
      /\ \A m \in Module : Recorded(m) = {}
  BY DEF IInv, LoaderTypeOK, OutcomeInv, LoadRoot
<1>2. Top' = 1 /\ frames'[1].user = Root /\ frames'[1].next = 0 /\ Active' = {Root} /\ Ordered' = {}
  BY <1>1 DEF Top, Active, Ordered, Frame
<1>3. \A m : Recorded(m)' = Recorded(m)
  BY <1>1 DEF Recorded
<1>4. Root \in Module /\ Past(Root, 0)' = {} /\ Needed' = Needed /\ Root \in Needed
  <2>1. Root \in Module
    BY LoaderAssumption
  <2> QED
    BY <1>1, <2>1, PastFacts, ReachedKept, NeededFacts
<1>5. PathOK'
  BY <1>2, <1>4 DEF PathOK
<1>6. RecordOK'
  <2>1. ASSUME NEW i \in 1..1 PROVE (Recorded(frames[i].user) = Past(frames[i].user, frames[i].next))'
    <3>1. frames'[i].user = Root /\ frames'[i].next = 0
      BY <1>2
    <3>2. \A m : m = Root => Recorded(m)' = {} /\ Past(m, 0)' = {}
      BY <1>1, <1>3, <1>4
    <3> QED
      BY <3>1, <3>2
  <2>2. \A m \in Module : Recorded(m)' = {}
    BY <1>1, <1>3
  <2> QED
    BY <1>2, <2>1, <2>2 DEF RecordOK
<1> QED
  BY <1>1, <1>5, <1>6 DEF OutcomeInv, OutcomeJustified

(* The top frame goes on to its next use, with P recorded of the last.     *)
LEMMA AdvanceOutcome ==
  ASSUME IInv, OutcomeInv, status = "loading", frames' = Advanced,
         UNCHANGED <<program, graph_order, status>>, NEW P,
         \A x \in Module : Recorded(x)' = IF x = User THEN Recorded(x) \cup P ELSE Recorded(x),
         Past(User, Use + 1) = Past(User, Use) \cup P
  PROVE  OutcomeInv'
<1>1. /\ Top \in Nat /\ Top >= 1 /\ Top \in 1..Top /\ User \in Module
      /\ \A i \in 1..Top : frames[i].user \in Module
      /\ StackOK /\ KnownOK /\ PathOK /\ RecordOK
  BY TopFacts DEF IInv, OutcomeInv
<1>2. /\ Top' = Top
      /\ \A i \in 1..Top : frames'[i].user = frames[i].user
      /\ \A i \in 1..Top : frames'[i].next = IF i = Top THEN Use + 1 ELSE frames[i].next
  BY AdvanceFrames
<1>3. Active' = Active /\ Ordered' = Ordered /\ status' = "loading"
  BY <1>2 DEF Active, Ordered
<1>4. /\ \A m : Wants(m)' = Wants(m) /\ Reached(m)' = Reached(m)
      /\ Needed' = Needed /\ \A m, n : Past(m, n)' = Past(m, n)
  BY ReachedKept
<1>5. PathOK'
  BY <1>1, <1>2, <1>3, <1>4 DEF PathOK
<1>6. User \in Active /\ User \notin Ordered
  BY <1>1 DEF KnownOK, Active, User
<1>7. \A m \in Ordered : Recorded(m)' = Wants(m)
  <2>1. Ordered \subseteq Module
    BY DEF IInv, LoaderTypeOK, KnownOK
  <2> QED
    BY <1>1, <1>6, <2>1 DEF RecordOK
<1>8. ASSUME NEW i \in 1..Top, NEW m, m = frames[i].user PROVE Recorded(m)' = Past(m, frames'[i].next)
  <2>1. m \in Module /\ Recorded(m) = Past(m, frames[i].next)
    BY <1>1, <1>8 DEF RecordOK
  <2>2. CASE i = Top
    BY <1>2, <1>8, <2>1, <2>2 DEF User, Use
  <2>3. CASE i # Top
    <3>1. m # User
      BY <1>1, <1>8, <2>3 DEF StackOK, User
    <3> QED
      BY <1>2, <2>1, <2>3, <3>1
  <2> QED
    BY <2>2, <2>3
<1>9. \A m \in Module \ (Active \cup Ordered) : Recorded(m)' = {}
  BY <1>1, <1>6 DEF RecordOK
<1>10. RecordOK'
  <2>1. ASSUME NEW i \in 1..Top PROVE (Recorded(frames[i].user) = Past(frames[i].user, frames[i].next))'
    <3>1. frames'[i].user = frames[i].user
      BY <1>2
    <3> QED
      BY <1>4, <1>8, <3>1
  <2> QED
    BY <1>2, <1>3, <1>4, <1>7, <1>9, <2>1 DEF RecordOK
<1> QED
  BY <1>3, <1>5, <1>10 DEF OutcomeInv, OutcomeJustified

(* The module p is loaded above its user.                                  *)
LEMMA UseLoadsOutcome == ASSUME IInv, OutcomeInv, NEW p \in Module, UseLoads(p) PROVE OutcomeInv'
<1>1. /\ Top \in Nat /\ Top >= 1 /\ Top \in 1..Top /\ User \in Module /\ Waits(Top, p) /\ InputOK
      /\ StackOK /\ KnownOK /\ PathOK /\ RecordOK /\ status = "loading" /\ status' = status
      /\ UNCHANGED program /\ graph_order' = graph_order /\ dependencies' = dependencies
      /\ p \notin Active /\ p \notin modules_by_path
  BY TopFacts DEF IInv, OutcomeInv, UseLoads, LoaderTypeOK
<1>2. /\ Top' = Top + 1
      /\ \A i \in 1..Top : frames'[i] = frames[i]
      /\ frames'[Top + 1].user = p /\ frames'[Top + 1].next = 1
  BY PushFrames
<1>3. /\ Ordered' = Ordered /\ \A m : Recorded(m)' = Recorded(m)
      /\ \A m : Wants(m)' = Wants(m) /\ Reached(m)' = Reached(m)
      /\ Needed' = Needed /\ \A m, n : Past(m, n)' = Past(m, n)
  BY <1>1, ReachedKept DEF Ordered, Recorded
<1>4. p \in Needed /\ \A i \in 1..Top : p \in Reached(frames[i].user)
  BY <1>1, WaitsReached
<1>5. \A i \in 1..Top + 1 : i = Top + 1 \/ i \in 1..Top
  BY <1>1
<1>6. Active' = Active \cup {p}
  <2>1. 1..Top + 1 = 1..Top \cup {Top + 1}
    BY <1>1
  <2> QED
    BY <1>2, <2>1 DEF Active
<1>7. PathOK'
  <2>1. \A i \in 1..Top + 1 : frames'[i].user \in Needed
    BY <1>1, <1>2, <1>4, <1>5 DEF PathOK
  <2>2. ASSUME NEW i \in 1..Top + 1, NEW j \in 1..Top + 1, i < j PROVE frames'[j].user \in Reached(frames'[i].user)
    <3>1. i \in 1..Top /\ frames'[i].user = frames[i].user
      BY <1>1, <1>2, <2>2
    <3>2. CASE j = Top + 1
      BY <1>2, <1>4, <3>1, <3>2
    <3>3. CASE j \in 1..Top
      BY <1>1, <1>2, <2>2, <3>1, <3>3 DEF PathOK
    <3> QED
      BY <1>5, <3>2, <3>3
  <2>3. \A i, j \in 1..Top' : i < j => (frames[j].user \in Reached(frames[i].user))'
    BY <1>2, <1>3, <2>2
  <2> QED
    BY <1>1, <1>2, <1>3, <2>1, <2>3 DEF PathOK
<1>8. RecordOK'
  <2>1. p # Root /\ p \notin Ordered
    BY <1>1 DEF StackOK, KnownOK, Active
  <2>2. Recorded(p) = {} /\ Past(p, 1) = {}
    BY <1>1, <2>1, PastFacts DEF RecordOK
  <2>3. ASSUME NEW i \in 1..Top + 1, NEW m, m = frames'[i].user PROVE Recorded(m)' = Past(m, frames'[i].next)
    <3>1. CASE i = Top + 1
      BY <1>2, <1>3, <2>2, <2>3, <3>1
    <3>2. CASE i \in 1..Top
      <4>1. frames'[i].next = frames[i].next /\ m = frames[i].user
        BY <1>2, <2>3, <3>2
      <4>2. Recorded(m) = Past(m, frames[i].next)
        BY <1>1, <3>2, <4>1 DEF RecordOK
      <4> QED
        BY <1>3, <4>1, <4>2
    <3> QED
      BY <1>5, <3>1, <3>2
  <2>4. ASSUME NEW i \in 1..Top + 1 PROVE (Recorded(frames[i].user) = Past(frames[i].user, frames[i].next))'
    BY <1>3, <2>3
  <2> QED
    BY <1>1, <1>2, <1>3, <1>6, <2>4 DEF RecordOK
<1> QED
  BY <1>1, <1>7, <1>8 DEF OutcomeInv, OutcomeJustified

(* The top module is done; its user, if any, records it.                   *)
LEMMA LoadedFacts ==
  IInv /\ Root \in Ordered /\ Ordered \subseteq Needed /\ Ordered \subseteq Module
    => Ordered = Needed /\ \A m \in Needed : m \notin Reached(m)
<1> SUFFICES ASSUME IInv, Root \in Ordered, Ordered \subseteq Needed, Ordered \subseteq Module
             PROVE  Ordered = Needed /\ \A m \in Needed : m \notin Reached(m)
  OBVIOUS
<1>1. InputOK /\ DependenciesFirst /\ Root \in Module
  BY LoaderAssumption DEF IInv, LoaderTypeOK
<1>2. \A m \in Ordered : Wants(m) \subseteq Ordered
  <2>1. ASSUME NEW i \in 1..Len(graph_order) PROVE Wants(graph_order[i]) \subseteq Ordered
    <3>1. Len(graph_order) \in Nat
      BY DEF IInv, LoaderTypeOK
    <3>2. 1..i - 1 \subseteq 1..Len(graph_order)
      BY <3>1
    <3> QED
      BY <1>1, <3>2, SMTT(60) DEF DependenciesFirst, Ordered
  <2> QED
    BY <2>1 DEF Ordered
<1>3. Needed \subseteq Ordered
  <2>1. Reached(Root) \subseteq Ordered
    BY <1>1, <1>2, ReachedFacts DEF Closed
  <2> QED
    BY <2>1 DEF Needed
<1>4. ASSUME NEW i \in 1..Len(graph_order) PROVE graph_order[i] \notin Reached(graph_order[i])
  <2> DEFINE S == {graph_order[j] : j \in 1..i - 1}
  <2>1. Len(graph_order) \in Nat
    BY DEF IInv, LoaderTypeOK
  <2>2. 1..i - 1 \subseteq 1..Len(graph_order) /\ i \notin 1..i - 1
    BY <2>1
  <2>3. S \subseteq Ordered /\ graph_order[i] \in Ordered /\ S \subseteq Module /\ graph_order[i] \in Module
    BY <2>2 DEF Ordered
  <2>4. Wants(graph_order[i]) \subseteq S
    BY <1>1 DEF DependenciesFirst
  <2>5. ASSUME NEW j \in 1..i - 1 PROVE Wants(graph_order[j]) \subseteq S
    <3>1. j \in 1..Len(graph_order) /\ 1..j - 1 \subseteq 1..i - 1
      BY <2>1, <2>2
    <3> QED
      BY <1>1, <3>1 DEF DependenciesFirst
  <2>6. Closed(S)
    BY <2>5 DEF Closed
  <2>7. Reached(graph_order[i]) \subseteq S
    <3> HIDE DEF S
    <3> QED
      BY <1>1, <2>3, <2>4, <2>6, ReachedFacts
  <2>8. graph_order[i] \notin S
    BY <1>1, <2>2 DEF DependenciesFirst
  <2> QED
    BY <2>7, <2>8
<1> QED
  BY <1>3, <1>4 DEF Ordered

LEMMA ReturnOutcome == ASSUME IInv, OutcomeInv, Return PROVE OutcomeInv'
<1>1. /\ Top \in Nat /\ Top >= 1 /\ Top \in 1..Top /\ User \in Module /\ Use \in Nat /\ InputOK
      /\ \A i \in 1..Top : frames[i].user \in Module /\ frames[i].next \in Nat
      /\ StackOK /\ KnownOK /\ PathOK /\ RecordOK /\ status = "loading" /\ LoaderTypeOK
      /\ UNCHANGED program
  BY TopFacts DEF IInv, OutcomeInv, Return, LoaderTypeOK
<1>2. Ordered' = Ordered \cup {User}
  <2>1. graph_order \in Seq(Module) /\ graph_order' = Append(graph_order, User)
    BY <1>1 DEF LoaderTypeOK, Return
  <2>2. /\ Len(graph_order') = Len(graph_order) + 1 /\ Len(graph_order) \in Nat
        /\ \A i \in 1..Len(graph_order) : graph_order'[i] = graph_order[i]
        /\ graph_order'[Len(graph_order) + 1] = User
    BY <1>1, <2>1, AppendFacts
  <2>3. 1..Len(graph_order) + 1 = 1..Len(graph_order) \cup {Len(graph_order) + 1}
    BY <2>2
  <2> QED
    BY <2>2, <2>3 DEF Ordered
<1>3. /\ \A m : Wants(m)' = Wants(m) /\ Reached(m)' = Reached(m)
      /\ Needed' = Needed /\ \A m, n : Past(m, n)' = Past(m, n)
  BY <1>1, ReachedKept
<1>4. Recorded(User) = Wants(User)
  <2>1. Use >= 1 /\ Use > Len(uses[User])
    <3>1. Len(uses[User]) \in Nat
      BY <1>1 DEF InputOK
    <3> QED
      BY <1>1, <3>1 DEF Return
  <2> QED
    BY <1>1, <2>1, PastFacts DEF RecordOK, User, Use
<1>5. User \notin Ordered /\ User \in Needed /\ Ordered \subseteq Module
  BY <1>1 DEF KnownOK, Active, PathOK, User, LoaderTypeOK
<1>6. Ordered' \subseteq Needed' /\ Ordered' \subseteq Module
  BY <1>1, <1>2, <1>3, <1>5 DEF PathOK
<1>7. CASE Top = 1
  <2>1. status' = "loaded" /\ dependencies' = dependencies
    BY <1>7 DEF Return
  <2>2. \A m : Recorded(m)' = Recorded(m)
    BY <2>1 DEF Recorded
  <2>3. \A m \in Ordered' : Recorded(m)' = Wants(m)'
    BY <1>1, <1>2, <1>3, <1>4, <2>2 DEF RecordOK
  <2>4. User = Root
    BY <1>1, <1>7 DEF StackOK, User
  <2>5. IInv'
    BY ReturnKeeps
  <2>6. Ordered' = Needed' /\ \A m \in Needed' : m \notin Reached(m)'
    <3>1. (IInv /\ Root \in Ordered /\ Ordered \subseteq Needed /\ Ordered \subseteq Module
            => Ordered = Needed /\ \A m \in Needed : m \notin Reached(m))'
      BY LoadedFacts, PTL
    <3> QED
      BY <1>2, <1>6, <2>4, <2>5, <3>1
  <2>7. OutcomeJustified'
    BY <2>1, <2>3, <2>6 DEF OutcomeJustified, Ordered, Recorded
  <2> QED
    BY <2>1, <2>7 DEF OutcomeInv
<1>8. CASE Top # 1
  <2>1. status' = status /\ dependencies' = Depends(frames[Top - 1].user, User)
        /\ Top - 1 \in 1..Top /\ Top - 1 \in 1..Top - 1
    BY <1>1, <1>8 DEF Return
  <2>2. /\ Top' = Top - 1
        /\ \A i \in 1..Top - 1 : frames'[i].user = frames[i].user
        /\ \A i \in 1..Top - 1 :
             frames'[i].next = IF i = Top - 1 THEN frames[i].next + 1 ELSE frames[i].next
    BY <1>8, PopFrames
  <2>3. \A x \in Module : Recorded(x)' = IF x = frames[Top - 1].user THEN Recorded(x) \cup {User} ELSE Recorded(x)
    BY <1>1, <2>1, DependsRecords
  <2>4. \A i \in 1..Top - 1 : i \in 1..Top /\ frames[i].user # User
    BY <1>1 DEF StackOK, User
  <2>5. Active = Active' \cup {User}
    <3>1. 1..Top = (1..Top - 1) \cup {Top}
      BY <1>1
    <3>2. {frames'[i].user : i \in 1..Top - 1} = {frames[i].user : i \in 1..Top - 1}
      BY <2>2
    <3> QED
      BY <2>2, <3>1, <3>2 DEF Active, User
  <2>6. PathOK'
    <3>1. \A i \in 1..Top - 1 : frames'[i].user \in Needed
      BY <1>1, <2>2, <2>4 DEF PathOK
    <3>2. \A i, j \in 1..Top - 1 : i < j => frames'[j].user \in Reached(frames'[i].user)
      BY <1>1, <2>2, <2>4 DEF PathOK
    <3>3. \A i, j \in 1..Top' : i < j => (frames[j].user \in Reached(frames[i].user))'
      BY <1>3, <2>2, <3>2
    <3> QED
      BY <1>3, <1>6, <2>2, <3>1, <3>3 DEF PathOK
  <2>7. ASSUME NEW i \in 1..Top - 1, NEW m, m = frames'[i].user PROVE Recorded(m)' = Past(m, frames'[i].next)
    <3>1. i \in 1..Top /\ m = frames[i].user /\ m \in Module
      BY <1>1, <2>2, <2>4, <2>7
    <3>2. Recorded(m) = Past(m, frames[i].next)
      BY <1>1, <3>1 DEF RecordOK
    <3>3. CASE i = Top - 1
      <4>1. Waits(Top - 1, User)
        BY <1>1, <2>1 DEF StackOK, User
      <4>2. Past(m, frames[i].next + 1) = Past(m, frames[i].next) \cup {User}
        BY <1>1, <2>1, <3>1, <3>3, <4>1, WaitsFacts
      <4> QED
        BY <2>2, <2>3, <3>1, <3>2, <3>3, <4>2
    <3>4. CASE i # Top - 1
      <4>1. m # frames[Top - 1].user
        BY <1>1, <2>1, <3>1, <3>4 DEF StackOK
      <4> QED
        BY <2>2, <2>3, <3>1, <3>2, <3>4, <4>1
    <3> QED
      BY <3>3, <3>4
  <2>8. RecordOK'
    <3>1. ASSUME NEW i \in 1..Top - 1 PROVE (Recorded(frames[i].user) = Past(frames[i].user, frames[i].next))'
      BY <1>3, <2>7
    <3>2. frames[Top - 1].user \in Active /\ frames[Top - 1].user \notin Ordered
      BY <1>1, <2>1 DEF KnownOK, Active
    <3>3. frames[Top - 1].user # User
      BY <2>1, <2>4
    <3>4. \A m \in Ordered' : Recorded(m)' = Wants(m)
      BY <1>1, <1>2, <1>4, <1>5, <2>3, <3>2, <3>3 DEF RecordOK
    <3>5. \A m \in Module \ (Active' \cup Ordered') : Recorded(m)' = {}
      BY <1>1, <1>2, <2>3, <2>5, <3>2 DEF RecordOK
    <3> QED
      BY <1>3, <2>2, <3>1, <3>4, <3>5 DEF RecordOK
  <2> QED
    BY <1>1, <2>1, <2>6, <2>8 DEF OutcomeInv, OutcomeJustified
<1> QED
  BY <1>7, <1>8

LEMMA NextOutcome == IInv /\ OutcomeInv /\ [Load]_loader => OutcomeInv'
<1> SUFFICES ASSUME IInv, OutcomeInv, [Load]_loader PROVE OutcomeInv'
  OBVIOUS
<1>0. LoaderTypeOK /\ InputOK
  BY DEF IInv, LoaderTypeOK
<1>1. CASE SkipSys
  <2>1. /\ status = "loading" /\ Use = 0 /\ ~UsesSys /\ frames' = Advanced /\ dependencies' = dependencies
        /\ UNCHANGED <<program, graph_order, status>>
    BY <1>1 DEF SkipSys
  <2>2. \A x \in Module : Recorded(x)' = IF x = User THEN Recorded(x) \cup {} ELSE Recorded(x)
    BY <2>1 DEF Recorded
  <2>3. User \in Module
    BY <2>1, TopFacts
  <2>4. Past(User, Use + 1) = Past(User, Use) \cup {}
    <3>1. Past(User, 0) = {} /\ Past(User, 1) = {}
      BY <1>0, <2>1, <2>3, PastFacts
    <3>2. Past(User, Use) = Past(User, 0) /\ Past(User, Use + 1) = Past(User, 1)
      <4>1. Use + 1 = 1
        BY <2>1
      <4> QED
        BY <2>1, <4>1
    <3> QED
      BY <3>1, <3>2
  <2> QED
    BY <2>1, <2>2, <2>4, AdvanceOutcome
<1>2. ASSUME NEW p \in Module, UseKnown(p) PROVE OutcomeInv'
  <2>1. /\ status = "loading" /\ Pending(p) /\ frames' = Advanced /\ dependencies' = Depends(User, p)
        /\ UNCHANGED <<program, graph_order, status>>
    BY <1>2 DEF UseKnown
  <2>2. Top \in 1..Top /\ User \in Module /\ Waits(Top, p)
    BY <2>1, TopFacts
  <2>3. \A x \in Module : Recorded(x)' = IF x = User THEN Recorded(x) \cup {p} ELSE Recorded(x)
    BY <1>0, <2>1, <2>2, DependsRecords
  <2>4. Past(User, Use + 1) = Past(User, Use) \cup {p}
    BY <2>1, <2>2, WaitsFacts DEF User, Use
  <2> QED
    BY <2>1, <2>3, <2>4, AdvanceOutcome
<1>3. ASSUME NEW p \in Module, FindsCycle(p) PROVE OutcomeInv'
  <2>1. status = "loading" /\ Pending(p) /\ p \in Active /\ status' = "cycle" /\ UNCHANGED program
    BY <1>3 DEF FindsCycle
  <2>2. Waits(Top, p) /\ PathOK
    BY <2>1, TopFacts DEF OutcomeInv
  <2>3. p \in Needed /\ p \in Reached(p)
    <3>1. PICK i \in 1..Top : p = frames[i].user
      BY <2>1 DEF Active
    <3> QED
      BY <2>1, <2>2, <3>1, WaitsReached
  <2>4. \E m \in Needed' : m \in Reached(m)'
    BY <2>1, <2>3, ReachedKept
  <2> QED
    BY <2>1, <2>4 DEF OutcomeInv, OutcomeJustified
<1>4. ASSUME NEW p \in Module, UseFails(p) PROVE OutcomeInv'
  <2>1. status = "loading" /\ Pending(p) /\ provided[p] # "named" /\ status' = "failed" /\ UNCHANGED program
    BY <1>4 DEF UseFails
  <2>2. Waits(Top, p) /\ PathOK
    BY <2>1, TopFacts DEF OutcomeInv
  <2>3. p \in Reached(Root)
    BY <2>1, <2>2, WaitsReached
  <2>4. Reached(Root)' = Reached(Root) /\ provided' = provided
    <3>1. \A m : Reached(m)' = Reached(m)
      BY <2>1, ReachedKept
    <3> QED
      BY <2>1, <3>1 DEF program
  <2> QED
    BY <2>1, <2>3, <2>4 DEF OutcomeInv, OutcomeJustified
<1>5. CASE UNCHANGED loader
  <2>1. /\ UNCHANGED program /\ frames' = frames /\ dependencies' = dependencies /\ provided' = provided
        /\ graph_order' = graph_order /\ status' = status /\ Top' = Top
    BY <1>5 DEF loader, program, Top
  <2>2. /\ \A m : Wants(m)' = Wants(m) /\ Reached(m)' = Reached(m) /\ Recorded(m)' = Recorded(m)
        /\ Needed' = Needed /\ \A m, n : Past(m, n)' = Past(m, n)
        /\ Ordered' = Ordered /\ Active' = Active
    BY <2>1, ReachedKept DEF Recorded, Ordered, Active
  <2>3. PathOK => PathOK'
    BY <2>1, <2>2 DEF PathOK
  <2>4. RecordOK => RecordOK'
    BY <2>1, <2>2 DEF RecordOK
  <2>5. OutcomeJustified'
    BY <2>1, <2>2 DEF OutcomeInv, OutcomeJustified, Recorded, Ordered
  <2> QED
    BY <2>1, <2>2, <2>3, <2>4, <2>5 DEF OutcomeInv
<1> QED
  BY <1>1, <1>2, <1>3, <1>4, <1>5, LoadRootOutcome, UseLoadsOutcome, ReturnOutcome DEF Load

(* For every graph of uses: what is loaded is exactly what the root        *)
(* reaches, with just its uses recorded and no cycle, and a program is     *)
(* refused only for a cycle or a module without a file that it reaches.    *)
THEOREM OutcomeJustifiedCorrect == LoadSpec => []OutcomeJustified
<1>1. OutcomeInv => OutcomeJustified
  BY DEF OutcomeInv
<1>2. LoadInit => IInv /\ OutcomeInv
  BY InitIInv, OutcomeInit
<1>3. IInv /\ OutcomeInv /\ [Load]_loader => IInv' /\ OutcomeInv'
  BY NextKeeps, NextOutcome
<1> QED
  BY <1>1, <1>2, <1>3, PTL DEF LoadSpec

-----------------------------------------------------------------------------

Wholes == Image \cup {Absent}
HasTemporary == {"install", "rename", "retire", "replace"}

(* Temporaries are whole by the time they are renamed, backups always, and *)
(* a backup about to be removed is not the one the output depends on.      *)
InstallInv ==
  /\ TypeOK
  /\ \A p \in Process : pc[p] \in HasTemporary => file[Temporary(p)] = call[p].image
  /\ \A k \in Backups : file[k] \in Wholes
  /\ \A p \in Process : pc[p] \in {"retire", "replace", "restore", "drop"} => Retires(p)
  /\ \A p \in Process : pc[p] = "drop" /\ ~Exists(Destination) => retired # Backup(p)
  /\ LastOutputSurvives

(* No two names are the same file. *)
LEMMA Paths ==
  /\ Destination \in Path /\ Temporaries \subseteq Path /\ Backups \subseteq Path
  /\ Destination \notin Temporaries \cup Backups
  /\ Temporaries \cap Backups = {}
<1>1. \A x \in Temporaries : x[1] = "tmp"
  BY DEF Temporaries
<1>2. \A x \in Backups : x[1] = "bak"
  BY DEF Backups
<1>3. Destination[1] = "output"
  BY DEF Destination
<1> QED BY <1>1, <1>2, <1>3 DEF Path

(* A running process has its own names, which are its own only. *)
LEMMA Names ==
  ASSUME TypeOK, NEW p \in Process, pc[p] # "idle"
  PROVE  /\ Temporary(p) \in Temporaries /\ Backup(p) \in Backups
         /\ \A q \in Process : q # p /\ pc[q] # "idle" =>
              Temporary(q) # Temporary(p) /\ Backup(q) # Backup(p)
<1>1. call[p] \in [tool : Tool, image : Image, sequence : Sequence]
  BY DEF TypeOK
<1>2. Temporary(p) \in Temporaries /\ Backup(p) \in Backups
  BY <1>1 DEF Temporary, Temporaries, Backup, Backups
<1>3. ASSUME NEW q \in Process, q # p
      PROVE  Temporary(q) # Temporary(p) /\ Backup(q) # Backup(p)
  <2>1. Temporary(q)[3] = q /\ Temporary(p)[3] = p /\ Backup(q)[2] = q /\ Backup(p)[2] = p
    BY DEF Temporary, Backup
  <2> QED BY <1>3, <2>1
<1> QED BY <1>2, <1>3

LEMMA InstallInit == Init => InstallInv
<1> SUFFICES ASSUME Init PROVE InstallInv
  OBVIOUS
<1>1. PICK old \in Image \cup {Absent} :
        file = [f \in Path |-> IF f = Destination THEN old ELSE Absent] /\ shown = old
  BY DEF Init
<1>2. TypeOK
  BY <1>1 DEF Init, TypeOK, Stage
<1>3. /\ \A k \in Backups : file[k] = Absent
      /\ file[Destination] = old
  BY <1>1, Paths
<1>4. LastOutputSurvives
  BY <1>1, <1>3 DEF LastOutputSurvives, Exists
<1> QED BY <1>2, <1>3, <1>4 DEF Init, InstallInv, Wholes, HasTemporary

(* Steps that leave every file and the history alone. *)
LEMMA Quiet ==
  ASSUME InstallInv, TypeOK', UNCHANGED <<system, file, shown, retired>>,
         NEW p \in Process,
         \A q \in Process \ {p} : pc'[q] = pc[q] /\ call'[q] = call[q],
         pc'[p] \notin HasTemporary \cup {"restore", "drop"}
           \/ (call'[p] = call[p]
               /\ (pc'[p] \in HasTemporary => file[Temporary(p)] = call[p].image)
               /\ (pc'[p] \in {"retire", "replace", "restore", "drop"} => Retires(p))
               /\ pc'[p] # "drop")
  PROVE  InstallInv'
<1>1. LastOutputSurvives'
  BY DEF InstallInv, LastOutputSurvives, Exists
<1>2. \A q \in Process : pc'[q] \in HasTemporary => file'[Temporary(q)'] = call'[q].image
  BY DEF InstallInv, Temporary
<1>3. \A q \in Process : pc'[q] \in {"retire", "replace", "restore", "drop"} => Retires(q)'
  BY DEF InstallInv, Retires, HasTemporary
<1>4. \A q \in Process : pc'[q] = "drop" /\ ~Exists(Destination)' => retired' # Backup(q)'
  BY DEF InstallInv, Exists, Backup, Destination
<1> QED BY <1>1, <1>2, <1>3, <1>4 DEF InstallInv, Wholes

(* Steps that change a temporary file of the process itself. *)
LEMMA Local ==
  ASSUME InstallInv, TypeOK', NEW p \in Process, pc[p] # "idle", NEW c,
         file' = [file EXCEPT ![Temporary(p)] = c],
         UNCHANGED <<system, shown, retired>>,
         \A q \in Process \ {p} : pc'[q] = pc[q] /\ call'[q] = call[q],
         pc'[p] \in {"idle", "fill"}
           \/ (pc'[p] = "install" /\ c = call[p].image /\ call'[p] = call[p])
  PROVE  InstallInv'
<1>1. Temporary(p) \in Path /\ Temporary(p) # Destination /\ Temporary(p) \notin Backups
  BY Names, Paths DEF InstallInv
<1>2. /\ file'[Temporary(p)] = c
      /\ \A f \in Path : f # Temporary(p) => file'[f] = file[f]
  BY <1>1 DEF InstallInv, TypeOK
<1>3. file'[Destination] = file[Destination] /\ \A k \in Backups : file'[k] = file[k]
  BY <1>1, <1>2, Paths
<1>4. LastOutputSurvives'
  BY <1>3 DEF InstallInv, LastOutputSurvives, Exists, Destination, TypeOK
<1>5. ASSUME NEW q \in Process, pc'[q] \in HasTemporary PROVE file'[Temporary(q)'] = call'[q].image
  <2>1. CASE q = p
    BY <1>2, <1>5, <2>1 DEF Temporary, HasTemporary
  <2>2. CASE q # p
    <3>1. pc[q] \in HasTemporary /\ pc[q] # "idle" /\ Temporary(q)' = Temporary(q)
      BY <1>5, <2>2 DEF Temporary, HasTemporary
    <3>2. Temporary(q) # Temporary(p) /\ Temporary(q) \in Path
      BY <2>2, <3>1, Names, Paths DEF InstallInv
    <3> QED BY <1>2, <1>5, <2>2, <3>1, <3>2 DEF InstallInv
  <2> QED BY <2>1, <2>2
<1>6. \A q \in Process : pc'[q] \in {"retire", "replace", "restore", "drop"} => Retires(q)'
  BY DEF InstallInv, Retires
<1>7. \A q \in Process : pc'[q] = "drop" /\ ~Exists(Destination)' => retired' # Backup(q)'
  BY <1>3 DEF InstallInv, Exists, Backup, Destination
<1> QED BY <1>3, <1>4, <1>5, <1>6, <1>7 DEF InstallInv, Wholes

(* A whole file renamed over the destination becomes the output, and the   *)
(* other processes' files stay as they are.                                *)
LEMMA Installed ==
  ASSUME InstallInv, TypeOK', NEW p \in Process, pc[p] # "idle",
         NEW f \in {Temporary(p), Backup(p)}, file[f] \in Image, Install(f),
         UNCHANGED <<system, call, retired>>,
         \A q \in Process \ {p} : pc'[q] = pc[q],
         pc'[p] \in {"done", "discard"} \/ (pc'[p] = "drop" /\ Retires(p))
  PROVE  InstallInv'
<1>1. f \in Path /\ f # Destination
  BY Names, Paths DEF InstallInv
<1>2. /\ file'[Destination] = file[f] /\ file'[f] = Absent
      /\ \A g \in Path \ {f, Destination} : file'[g] = file[g]
  BY <1>1, Paths DEF InstallInv, TypeOK, Install, Rename
<1>3. file'[Destination] # Absent /\ shown' = file[f]
  BY <1>2, DistinctContents DEF Install
<1>4. LastOutputSurvives' /\ Exists(Destination)'
  BY <1>2, <1>3 DEF LastOutputSurvives, Exists, Destination
<1>5. \A k \in Backups : file'[k] \in Wholes
  BY <1>2, Paths DEF InstallInv, Wholes
<1>6. ASSUME NEW q \in Process, pc'[q] \in HasTemporary PROVE file'[Temporary(q)'] = call'[q].image
  <2>1. q # p /\ pc[q] \in HasTemporary /\ pc[q] # "idle" /\ Temporary(q)' = Temporary(q)
    BY <1>6 DEF Temporary, HasTemporary
  <2>2. Temporary(q) \in Path \ {f, Destination}
    BY <2>1, Names, Paths DEF InstallInv
  <2> QED BY <1>2, <2>1, <2>2 DEF InstallInv
<1>7. \A q \in Process : pc'[q] \in {"retire", "replace", "restore", "drop"} => Retires(q)'
  BY DEF InstallInv, Retires
<1> QED BY <1>4, <1>5, <1>6, <1>7 DEF InstallInv

(* The destination renamed to the process' backup. *)
LEMMA Retired ==
  ASSUME InstallInv, TypeOK', NEW p \in Process, pc[p] = "retire",
         Exists(Destination), Rename(Destination, Backup(p)), retired' = Backup(p),
         UNCHANGED <<system, call, shown>>, pc' = [pc EXCEPT ![p] = "replace"]
  PROVE  InstallInv'
<1>1. Backup(p) \in Backups /\ Backup(p) \in Path /\ Backup(p) # Destination
  BY Names, Paths DEF InstallInv
<1>2. /\ file'[Backup(p)] = file[Destination] /\ file'[Destination] = Absent
      /\ \A g \in Path \ {Backup(p), Destination} : file'[g] = file[g]
  BY <1>1, Paths DEF InstallInv, TypeOK, Rename
<1>3. file[Destination] = shown /\ shown \in Image
  BY DEF InstallInv, LastOutputSurvives
<1>4. Retires(p) /\ system = "windows"
  BY DEF InstallInv, Retires
<1>5. \A k \in Backups : file'[k] \in Wholes
  BY <1>2, <1>3, Paths DEF InstallInv, Wholes
<1>6. \A q \in Process : pc'[q] = IF q = p THEN "replace" ELSE pc[q]
  BY DEF InstallInv, TypeOK
<1>7. ASSUME NEW q \in Process, pc'[q] \in HasTemporary PROVE file'[Temporary(q)'] = call'[q].image
  <2>1. pc[q] \in HasTemporary /\ pc[q] # "idle" /\ Temporary(q)' = Temporary(q)
    BY <1>6, <1>7 DEF Temporary, HasTemporary
  <2>2. Temporary(q) \in Path \ {Backup(p), Destination}
    BY <1>1, <2>1, Names, Paths DEF InstallInv
  <2> QED BY <1>2, <2>1, <2>2 DEF InstallInv
<1>8. \A q \in Process : pc'[q] \in {"retire", "replace", "restore", "drop"} => Retires(q)'
  BY <1>4, <1>6 DEF InstallInv, Retires
<1>9. ASSUME NEW q \in Process, pc'[q] = "drop" PROVE retired' # Backup(q)'
  <2>1. q # p /\ pc[q] = "drop" /\ Backup(q)' = Backup(q)
    BY <1>6, <1>9 DEF Backup
  <2> QED BY <2>1, Names DEF InstallInv
<1>10. LastOutputSurvives'
  BY <1>1, <1>2, <1>3, <1>4, NoPathAssumption DEF LastOutputSurvives, Exists, Destination
<1> QED BY <1>5, <1>7, <1>8, <1>9, <1>10 DEF InstallInv

(* A backup removed once the output it was made of has been replaced. *)
LEMMA Dropped ==
  ASSUME InstallInv, TypeOK', NEW p \in Process, pc[p] = "drop",
         file' \in {file, [file EXCEPT ![Backup(p)] = Absent]},
         UNCHANGED <<system, shown, retired>>,
         \A q \in Process \ {p} : pc'[q] = pc[q] /\ call'[q] = call[q], pc'[p] = "idle"
  PROVE  InstallInv'
<1>1. Backup(p) \in Backups /\ Backup(p) \in Path /\ Backup(p) # Destination
  BY Names, Paths DEF InstallInv
<1>2. /\ file'[Backup(p)] \in {file[Backup(p)], Absent}
      /\ \A g \in Path \ {Backup(p)} : file'[g] = file[g]
  BY <1>1 DEF InstallInv, TypeOK
<1>3. file'[Destination] = file[Destination]
  BY <1>1, <1>2, Paths
<1>4. \A k \in Backups : file'[k] \in Wholes
  BY <1>2, Paths DEF InstallInv, Wholes
<1>5. LastOutputSurvives'
  <2>1. CASE Exists(Destination)
    BY <1>3, <2>1 DEF InstallInv, LastOutputSurvives, Exists, Destination
  <2>2. CASE ~Exists(Destination)
    <3>1. retired # Backup(p)
      BY <2>2 DEF InstallInv
    <3>2. retired \in Backups => file'[retired] = file[retired]
      BY <1>2, <3>1, Paths
    <3> QED BY <1>3, <2>2, <3>2 DEF InstallInv, LastOutputSurvives, Exists, Destination, TypeOK
  <2> QED BY <2>1, <2>2
<1>6. ASSUME NEW q \in Process, pc'[q] \in HasTemporary PROVE file'[Temporary(q)'] = call'[q].image
  <2>1. q # p /\ pc[q] \in HasTemporary /\ pc[q] # "idle" /\ Temporary(q)' = Temporary(q)
    BY <1>6 DEF Temporary, HasTemporary
  <2>2. Temporary(q) \in Path \ {Backup(p)}
    BY <1>1, <2>1, Names, Paths DEF InstallInv
  <2> QED BY <1>2, <1>6, <2>1, <2>2 DEF InstallInv
<1>7. \A q \in Process : pc'[q] \in {"retire", "replace", "restore", "drop"} => Retires(q)'
  BY DEF InstallInv, Retires
<1>8. \A q \in Process : pc'[q] = "drop" /\ ~Exists(Destination)' => retired' # Backup(q)'
  BY <1>3 DEF InstallInv, Exists, Backup, Destination
<1> QED BY <1>4, <1>5, <1>6, <1>7, <1>8 DEF InstallInv

LEMMA Types == TypeOK /\ [Next]_vars => TypeOK'
<1> SUFFICES ASSUME TypeOK, [Next]_vars PROVE TypeOK'
  OBVIOUS
<1>1. ASSUME NEW p \in Process, NEW t \in Tool, NEW i \in Image, NEW s \in Sequence, Begin(p, t, i, s)
      PROVE  TypeOK'
  BY <1>1 DEF Begin, Goto, TypeOK, Stage
<1>2. ASSUME NEW p \in Process, Act(p) PROVE TypeOK'
  <2>1. pc[p] # "idle"
    BY <1>2 DEF Act, Create, Fill, Look, Place, Retire, Replace, Restore, Drop, Discard, Succeed, Dies
  <2>2. /\ Temporary(p) \in Path /\ Backup(p) \in Path /\ Destination \in Path
        /\ call[p].image \in Image /\ Backup(p) \in Backups
    BY <2>1, Names, Paths DEF TypeOK
  <2>3. file' \in [Path -> Image \cup {Absent, Torn}]
    BY <1>2, <2>2 DEF Act, Create, WriteFails, Fill, Look, Place, Retire, Replace, Restore, Drop, Discard,
       Succeed, Dies, Install, Rename, Removes, TypeOK
  <2>4. pc' \in [Process -> Stage] /\ system' = system
    BY <1>2 DEF Act, Create, WriteFails, Fill, Look, Place, Retire, Replace, Restore, Drop, Discard,
       Succeed, Dies, Install, Rename, Removes, TypeOK, Goto, Finish, Stage
  <2>5. /\ DOMAIN call' = Process
        /\ \A q \in Process : pc'[q] # "idle" => pc[q] # "idle" /\ call'[q] = call[q]
    BY <1>2, <2>1 DEF Act, Create, WriteFails, Fill, Look, Place, Retire, Replace, Restore, Drop, Discard,
       Succeed, Dies, Removes, TypeOK, Goto, Finish
  <2>6. report' \in [Process -> {"none", "success", "error"}]
    BY <1>2 DEF Act, Create, WriteFails, Fill, Look, Place, Retire, Replace, Restore, Drop, Discard,
       Succeed, Dies, Removes, TypeOK, Goto, Finish
  <2>7. retired' \in Backups \cup {NoPath}
    BY <1>2, <2>2 DEF Act, Create, Fill, Look, Place, Retire, Replace, Restore, Drop, Discard,
       Succeed, Dies, Removes, TypeOK
  <2>8. shown' \in Image \cup {Absent, Torn}
    BY <1>2, <2>2 DEF Act, Create, Fill, Look, Place, Retire, Replace, Restore, Drop, Discard,
       Succeed, Dies, Install, Removes, TypeOK
  <2> QED BY <2>3, <2>4, <2>5, <2>6, <2>7, <2>8 DEF TypeOK
<1>3. CASE UNCHANGED vars
  BY <1>3 DEF vars, TypeOK
<1> QED BY <1>1, <1>2, <1>3 DEF Next

LEMMA InstallStep == InstallInv /\ [Next]_vars => InstallInv'
<1> SUFFICES ASSUME InstallInv, [Next]_vars PROVE InstallInv'
  OBVIOUS
<1>0. TypeOK /\ TypeOK'
  BY Types DEF InstallInv
<1>1. ASSUME NEW p \in Process, NEW t \in Tool, NEW i \in Image, NEW s \in Sequence, Begin(p, t, i, s)
      PROVE  InstallInv'
  <2>1. /\ \A q \in Process \ {p} : pc'[q] = pc[q] /\ call'[q] = call[q]
        /\ pc'[p] = "create"
    BY <1>0, <1>1 DEF Begin, Goto, TypeOK
  <2> QED BY <1>0, <1>1, <2>1, Quiet DEF Begin, HasTemporary
<1>2. ASSUME NEW p \in Process, Act(p) PROVE InstallInv'
  <2>1. pc[p] # "idle"
    BY <1>2 DEF Act, Create, Fill, Look, Place, Retire, Replace, Restore, Drop, Discard, Succeed, Dies
  <2>2. Temporary(p) \in Path /\ Backup(p) \in Backups /\ Backup(p) \in Path /\ call[p].image \in Image
    BY <1>0, <2>1, Names, Paths DEF TypeOK
  <2>3. \A q \in Process \ {p} : pc'[q] = pc[q] /\ call'[q] = call[q]
    BY <1>0, <1>2 DEF Act, Create, WriteFails, Fill, Look, Place, Retire, Replace, Restore, Drop, Discard,
       Succeed, Dies, Removes, TypeOK, Goto, Finish
  <2>4. CASE WriteFails(p) /\ UNCHANGED <<system, shown, retired>>
    <3>1. pc'[p] \in {"discard", "idle"}
      BY <1>0, <2>4 DEF WriteFails, Finish, Goto, TypeOK
    <3> QED BY <1>0, <2>3, <2>4, <3>1, Quiet DEF WriteFails, HasTemporary
  <2>5. CASE Create(p)
    <3>1. CASE file' = [file EXCEPT ![Temporary(p)] = Torn] /\ Goto(p, "fill")
      <4>1. pc'[p] = "fill"
        BY <1>0, <3>1 DEF Goto, TypeOK
      <4> QED BY <1>0, <2>1, <2>3, <2>5, <3>1, <4>1, Local DEF Create
    <3> QED BY <2>4, <2>5, <3>1 DEF Create
  <2>6. CASE Fill(p)
    <3>1. CASE file' = [file EXCEPT ![Temporary(p)] = call[p].image] /\ Goto(p, "install") /\ UNCHANGED <<call, report>>
      <4>1. pc'[p] = "install"
        BY <1>0, <3>1 DEF Goto, TypeOK
      <4> QED BY <1>0, <2>1, <2>3, <2>6, <3>1, <4>1, Local DEF Fill
    <3> QED BY <2>4, <2>6, <3>1 DEF Fill
  <2>7. CASE Look(p)
    <3>1. pc'[p] \in {"rename", "discard", "retire"} /\ call'[p] = call[p] /\ Retires(p)
      BY <1>0, <2>7 DEF Look, Goto, TypeOK
    <3>2. file[Temporary(p)] = call[p].image
      BY <2>7 DEF Look, InstallInv, HasTemporary
    <3> QED BY <1>0, <2>3, <2>7, <3>1, <3>2, Quiet DEF Look
  <2>8. CASE Place(p)
    <3>1. pc[p] \in HasTemporary /\ file[Temporary(p)] \in Image
      BY <2>2, <2>8 DEF Place, InstallInv, HasTemporary
    <3>2. CASE Install(Temporary(p)) /\ Goto(p, "done")
      <4>1. pc'[p] = "done"
        BY <1>0, <3>2 DEF Goto, TypeOK
      <4> QED BY <1>0, <2>1, <2>3, <2>8, <3>1, <3>2, <4>1, Installed DEF Place
    <3>3. CASE Goto(p, "discard") /\ UNCHANGED <<file, shown>>
      <4>1. pc'[p] = "discard"
        BY <1>0, <3>3 DEF Goto, TypeOK
      <4> QED BY <1>0, <2>3, <2>8, <3>3, <4>1, Quiet DEF Place, HasTemporary
    <3> QED BY <2>8, <3>2, <3>3 DEF Place
  <2>9. CASE Retire(p)
    <3>1. CASE Exists(Destination) /\ Rename(Destination, Backup(p)) /\ retired' = Backup(p) /\ Goto(p, "replace")
      BY <1>0, <2>9, <3>1, Retired DEF Retire, Goto
    <3>2. CASE Goto(p, "discard") /\ UNCHANGED <<file, retired>>
      <4>1. pc'[p] = "discard"
        BY <1>0, <3>2 DEF Goto, TypeOK
      <4> QED BY <1>0, <2>3, <2>9, <3>2, <4>1, Quiet DEF Retire, HasTemporary
    <3> QED BY <2>9, <3>1, <3>2 DEF Retire
  <2>10. CASE Replace(p)
    <3>1. file[Temporary(p)] \in Image /\ Retires(p)
      BY <2>2, <2>10 DEF Replace, InstallInv, HasTemporary
    <3>2. CASE Install(Temporary(p)) /\ Goto(p, "drop")
      <4>1. pc'[p] = "drop"
        BY <1>0, <3>2 DEF Goto, TypeOK
      <4> QED BY <1>0, <2>1, <2>3, <2>10, <3>1, <3>2, <4>1, Installed DEF Replace
    <3>3. CASE Goto(p, "restore") /\ UNCHANGED <<file, shown>>
      <4>1. pc'[p] = "restore" /\ call'[p] = call[p]
        BY <1>0, <2>10, <3>3 DEF Goto, TypeOK, Replace
      <4> QED BY <1>0, <2>3, <2>10, <3>1, <3>3, <4>1, Quiet DEF Replace, HasTemporary
    <3> QED BY <2>10, <3>2, <3>3 DEF Replace
  <2>11. CASE Restore(p)
    <3>1. pc'[p] = "discard"
      BY <1>0, <2>11 DEF Restore, Goto, TypeOK
    <3>2. CASE Exists(Backup(p)) /\ Install(Backup(p))
      <4>1. file[Backup(p)] \in Image
        BY <2>2, <3>2 DEF InstallInv, Wholes, Exists
      <4> QED BY <1>0, <2>1, <2>3, <2>11, <3>1, <3>2, <4>1, Installed DEF Restore
    <3>3. CASE UNCHANGED <<file, shown>>
      BY <1>0, <2>3, <2>11, <3>1, <3>3, Quiet DEF Restore, HasTemporary
    <3> QED BY <2>11, <3>2, <3>3 DEF Restore
  <2>12. CASE Drop(p)
    <3>1. pc'[p] = "idle"
      BY <1>0, <2>12 DEF Drop, Removes, Finish, Goto, TypeOK
    <3> QED BY <1>0, <2>3, <2>12, <3>1, Dropped DEF Drop, Removes
  <2>13. CASE Discard(p)
    <3>1. pc'[p] = "idle"
      BY <1>0, <2>13 DEF Discard, Removes, Finish, Goto, TypeOK
    <3>2. CASE file' = file
      BY <1>0, <2>3, <2>13, <3>1, <3>2, Quiet DEF Discard, Removes, HasTemporary
    <3>3. CASE file' = [file EXCEPT ![Temporary(p)] = Absent]
      BY <1>0, <2>1, <2>3, <2>13, <3>1, <3>3, Local DEF Discard, Removes
    <3> QED BY <2>13, <3>2, <3>3 DEF Discard, Removes
  <2>14. CASE Succeed(p) \/ Dies(p)
    <3>1. pc'[p] = "idle"
      BY <1>0, <2>14 DEF Succeed, Dies, Finish, Goto, TypeOK
    <3> QED BY <1>0, <2>3, <2>14, <3>1, Quiet DEF Succeed, Dies, HasTemporary
  <2> QED BY <1>2, <2>5, <2>6, <2>7, <2>8, <2>9, <2>10, <2>11, <2>12, <2>13, <2>14 DEF Act
<1>3. CASE UNCHANGED vars
  <2>1. UNCHANGED <<system, file, pc, call, report, shown, retired>>
    BY <1>3 DEF vars
  <2> QED BY <1>0, <2>1 DEF InstallInv, LastOutputSurvives, Exists, Temporary, Backup, Retires, Destination
<1> QED BY <1>1, <1>2, <1>3 DEF Next

(* Whatever fails and whoever dies, for any number of processes writing    *)
(* any outputs: the last output the destination held is still there.       *)
THEOREM LastOutputSurvivesCorrect == Spec => []LastOutputSurvives
<1>1. Init => InstallInv
  BY InstallInit
<1>2. InstallInv /\ [Next]_vars => InstallInv'
  BY InstallStep
<1>3. InstallInv => LastOutputSurvives
  BY DEF InstallInv
<1> QED BY <1>1, <1>2, <1>3, PTL DEF Spec

-----------------------------------------------------------------------------
(* While runners on Windows take turns, the backup a call may have to      *)
(* restore is the output it retired: nobody has replaced it since.         *)
Turns ==
  serial => /\ \A p, q \in Process : pc[p] # "idle" /\ pc[q] # "idle" => p = q
            /\ \A p \in Process : pc[p] \in {"replace", "restore"} => file[Backup(p)] = shown

OneAtATime == serial => \A p, q \in Process : pc'[p] # "idle" /\ pc'[q] # "idle" => p = q

LEMMA TurnsStep ==
  ASSUME InstallInv, Turns, [Next]_vars, OneAtATime, serial' = serial
  PROVE  Turns'
<1>0. TypeOK /\ TypeOK'
  BY Types DEF InstallInv
<1>1. SUFFICES ASSUME serial, NEW q \in Process, pc'[q] \in {"replace", "restore"}
               PROVE  file'[Backup(q)'] = shown'
  BY DEF Turns, OneAtATime
<1>2. \A p \in Process : pc'[p] # "idle" => p = q
  BY <1>1 DEF OneAtATime
<1>3. \A p \in Process : pc[p] # "idle" /\ pc[q] # "idle" => p = q
  BY <1>1 DEF Turns
<1>4. ASSUME NEW p \in Process, NEW t \in Tool, NEW i \in Image, NEW s \in Sequence, Begin(p, t, i, s)
      PROVE  FALSE
  <2>1. pc'[p] = "create"
    BY <1>0, <1>4 DEF Begin, Goto, TypeOK
  <2> QED BY <1>1, <1>2, <2>1
<1>5. ASSUME NEW p \in Process, Act(p) PROVE file'[Backup(q)'] = shown'
  <2>1. pc[p] # "idle"
    BY <1>5 DEF Act, Create, Fill, Look, Place, Retire, Replace, Restore, Drop, Discard, Succeed, Dies
  <2>2. q # p => pc'[q] = pc[q]
    BY <1>0, <1>5 DEF Act, Create, WriteFails, Fill, Look, Place, Retire, Replace, Restore, Drop, Discard,
       Succeed, Dies, Removes, TypeOK, Goto, Finish
  <2>3. q = p
    BY <1>1, <1>3, <2>1, <2>2
  <2>4. CASE Retire(p)
    <3>1. Exists(Destination) /\ Rename(Destination, Backup(p)) /\ shown' = shown /\ Backup(p)' = Backup(p)
      BY <1>0, <1>1, <2>3, <2>4 DEF Retire, Goto, TypeOK, Backup
    <3>2. Backup(p) \in Path /\ Backup(p) # Destination
      BY <1>0, <2>1, Names, Paths
    <3>3. file'[Backup(p)] = file[Destination]
      BY <1>0, <3>1, <3>2 DEF Rename, TypeOK
    <3> QED BY <2>3, <3>1, <3>3 DEF InstallInv, LastOutputSurvives
  <2>5. CASE Replace(p)
    <3>1. UNCHANGED <<file, shown, call>> /\ pc[p] = "replace"
      BY <1>0, <1>1, <2>3, <2>5 DEF Replace, Goto, TypeOK
    <3> QED BY <1>1, <2>3, <3>1 DEF Turns, Backup
  <2>6. CASE Create(p) \/ Fill(p) \/ Look(p) \/ Place(p) \/ Restore(p) \/ Drop(p) \/ Discard(p) \/ Succeed(p) \/ Dies(p)
    <3>1. pc'[p] \notin {"replace", "restore"}
      BY <1>0, <2>6 DEF Create, WriteFails, Fill, Look, Place, Restore, Drop, Discard,
         Succeed, Dies, Removes, TypeOK, Goto, Finish
    <3> QED BY <1>1, <2>3, <3>1
  <2> QED BY <1>5, <2>4, <2>5, <2>6 DEF Act
<1>6. CASE UNCHANGED vars
  BY <1>1, <1>6 DEF vars, Turns, Backup
<1> QED BY <1>4, <1>5, <1>6 DEF Next

(* What a step shows of the abstract file.                                 *)
Asked(p) == [image |-> call[p].image, placed |-> pc[p] \in {"drop", "done"}]

LEMMA CallsAt ==
  /\ \A p \in Process : Calls[p] = IF pc[p] = "idle" THEN None ELSE Asked(p)
  /\ DOMAIN Calls = Process
BY DEF Calls, Busy, Asked

LEMMA AskedIsSome ==
  ASSUME TypeOK, NEW p \in Process, pc[p] # "idle"
  PROVE  Asked(p) # None /\ Asked(p).image = call[p].image /\ Asked(p).placed = (pc[p] \in {"drop", "done"})
<1>1. call[p].image \in Image
  BY DEF TypeOK
<1>2. Asked(p) \in [image : Image, placed : BOOLEAN]
  BY <1>1 DEF Asked
<1> QED BY <1>2, NoneAssumption DEF Asked

LEMMA CallsStep ==
  ASSUME NEW p \in Process, \A q \in Process \ {p} : pc'[q] = pc[q] /\ call'[q] = call[q]
  PROVE  Calls' = [Calls EXCEPT ![p] = IF pc'[p] = "idle" THEN None
                     ELSE [image |-> call'[p].image, placed |-> pc'[p] \in {"drop", "done"}]]
BY DEF Calls, Busy

LEMMA AbstractStutter ==
  ASSUME NEW p \in Process, \A q \in Process \ {p} : pc'[q] = pc[q] /\ call'[q] = call[q],
         pc[p] # "idle", pc'[p] # "idle", call'[p] = call[p],
         pc'[p] \in {"drop", "done"} <=> pc[p] \in {"drop", "done"}, UNCHANGED <<shown, report>>
  PROVE  UNCHANGED Output!vars
<1>1. Calls' = Calls
  BY DEF Calls, Busy
<1>2. Content' = Content
  BY DEF Content
<1> QED BY <1>1, <1>2 DEF Output!vars

LEMMA AbstractBegin ==
  ASSUME NEW p \in Process, \A q \in Process \ {p} : pc'[q] = pc[q] /\ call'[q] = call[q],
         pc[p] = "idle", pc'[p] = "create", call'[p].image \in Image,
         report' = [report EXCEPT ![p] = "none"], shown' = shown
  PROVE  Output!Begin(p)
<1>1. Calls[p] = None
  BY CallsAt
<1>2. (pc'[p] \in {"drop", "done"}) = FALSE
  OBVIOUS
<1>4. Calls' = [Calls EXCEPT ![p] = [image |-> call'[p].image, placed |-> FALSE]]
  BY <1>2, CallsStep
<1>3. Content' = Content
  BY DEF Content
<1> QED BY <1>1, <1>3, <1>4 DEF Output!Begin

LEMMA Placed ==
  ASSUME NEW i, NEW x, NEW y, NEW r, r = [image |-> i, placed |-> x]
  PROVE  [r EXCEPT !.placed = y] = [image |-> i, placed |-> y]
OBVIOUS

LEMMA AbstractPlace ==
  ASSUME TypeOK, NEW p \in Process, \A q \in Process \ {p} : pc'[q] = pc[q] /\ call'[q] = call[q],
         pc[p] \notin {"idle", "drop", "done"}, pc'[p] \in {"drop", "done"}, call'[p] = call[p],
         shown' = call[p].image, report' = report
  PROVE  Output!Place(p)
<1>0. (pc[p] \in {"drop", "done"}) = FALSE /\ (pc'[p] \in {"drop", "done"}) = TRUE
  OBVIOUS
<1>1. Calls[p] = Asked(p) /\ Asked(p) # None /\ Asked(p).image = call[p].image /\ ~Asked(p).placed
  <2>1. Calls[p] = Asked(p)
    BY CallsAt
  <2>2. Asked(p) # None /\ Asked(p).image = call[p].image
    BY AskedIsSome
  <2>3. ~Asked(p).placed
    BY <1>0, AskedIsSome
  <2> QED BY <2>1, <2>2, <2>3
<1>2. Calls' = [Calls EXCEPT ![p] = [image |-> call[p].image, placed |-> TRUE]]
  BY <1>0, CallsStep
<1>3. [Asked(p) EXCEPT !.placed = TRUE] = [image |-> call[p].image, placed |-> TRUE]
  <2>1. Asked(p) = [image |-> call[p].image, placed |-> FALSE]
    BY <1>0 DEF Asked
  <2>2. PICK y : y = TRUE
    OBVIOUS
  <2>3. [Asked(p) EXCEPT !.placed = y] = [image |-> call[p].image, placed |-> y]
    BY <2>1, Placed
  <2> QED BY <2>2, <2>3
<1>4. Calls' = [Calls EXCEPT ![p].placed = TRUE]
  BY <1>1, <1>2, <1>3
<1>5. call[p].image # Absent
  BY DistinctContents DEF TypeOK
<1>6. Content' = Calls[p].image
  BY <1>1, <1>5 DEF Content
<1> QED BY <1>1, <1>4, <1>6 DEF Output!Place

LEMMA AbstractEnd ==
  ASSUME TypeOK, NEW p \in Process, \A q \in Process \ {p} : pc'[q] = pc[q] /\ call'[q] = call[q],
         pc[p] # "idle", pc'[p] = "idle", shown' = shown,
         report' = report
           \/ report' = [report EXCEPT ![p] = IF pc[p] \in {"drop", "done"} THEN "success" ELSE "error"]
  PROVE  Output!End(p)
<1>1. Calls[p] # None /\ Calls[p].placed = (pc[p] \in {"drop", "done"})
  BY CallsAt, AskedIsSome
<1>2. Calls' = [Calls EXCEPT ![p] = None]
  BY CallsStep
<1>3. Content' = Content
  BY DEF Content
<1>4. report' \in {report, [report EXCEPT ![p] = IF Calls[p].placed THEN "success" ELSE "error"]}
  BY <1>1
<1> QED BY <1>1, <1>2, <1>3, <1>4 DEF Output!End

(* Each call of the file system, seen from outside: a failure changes      *)
(* nothing, and what Restore brings back is what was last shown.           *)
LEMMA ActRefines ==
  ASSUME InstallInv, Turns, Atomic, NEW p \in Process, Act(p)
  PROVE  Output!Place(p) \/ Output!End(p) \/ UNCHANGED Output!vars
<1>0. TypeOK /\ pc[p] # "idle"
  BY DEF InstallInv, Act, Create, Fill, Look, Place, Retire, Replace, Restore, Drop, Discard, Succeed, Dies
<1>1. \A q \in Process \ {p} : pc'[q] = pc[q] /\ call'[q] = call[q]
  BY <1>0 DEF Act, Create, WriteFails, Fill, Look, Place, Retire, Replace, Restore, Drop, Discard,
     Succeed, Dies, Removes, TypeOK, Goto, Finish
<1>2. file[Temporary(p)] = call[p].image \/ pc[p] \notin HasTemporary
  BY DEF InstallInv
<1>3. CASE WriteFails(p) /\ pc[p] \in {"create", "fill"} /\ shown' = shown
  <2>1. CASE Goto(p, "discard") /\ UNCHANGED <<call, report>>
    BY <1>0, <1>1, <1>3, <2>1, AbstractStutter DEF Goto, TypeOK
  <2>2. CASE Finish(p, "error")
    BY <1>0, <1>1, <1>3, <2>2, AbstractEnd DEF Goto, Finish, TypeOK
  <2> QED BY <1>3, <2>1, <2>2 DEF WriteFails
<1>4. ASSUME NEW s \in Stage \ {"idle", "drop", "done"}, Goto(p, s), UNCHANGED <<call, report, shown>>,
             pc[p] \notin {"drop", "done"}
      PROVE  UNCHANGED Output!vars
  BY <1>0, <1>1, <1>4, AbstractStutter DEF Goto, TypeOK
<1>5. CASE Create(p)
  BY <1>3, <1>4, <1>5 DEF Create, Stage
<1>6. CASE Fill(p)
  BY <1>3, <1>4, <1>6 DEF Fill, Stage
<1>7. CASE Look(p)
  <2>1. PICK s \in {"rename", "discard", "retire"} : Goto(p, s)
    BY <1>7 DEF Look
  <2> QED BY <1>4, <1>7, <2>1 DEF Look, Stage
<1>8. CASE Place(p)
  <2>1. CASE Install(Temporary(p)) /\ Goto(p, "done")
    <3>1. pc'[p] = "done" /\ pc[p] \in HasTemporary /\ pc[p] \notin {"idle", "drop", "done"}
      BY <1>0, <1>8, <2>1 DEF Place, Goto, TypeOK, HasTemporary
    <3>2. shown' = call[p].image /\ UNCHANGED <<call, report>>
      BY <1>2, <1>8, <2>1, <3>1 DEF Place, Install
    <3> QED BY <1>0, <1>1, <3>1, <3>2, AbstractPlace
  <2>2. CASE Goto(p, "discard") /\ UNCHANGED <<file, shown>>
    BY <1>4, <1>8, <2>2 DEF Place, Stage
  <2> QED BY <1>8, <2>1, <2>2 DEF Place
<1>9. CASE Retire(p)
  BY <1>4, <1>9 DEF Retire, Stage
<1>10. CASE Replace(p)
  <2>1. CASE Install(Temporary(p)) /\ Goto(p, "drop")
    <3>1. pc'[p] = "drop" /\ pc[p] = "replace"
      BY <1>0, <1>10, <2>1 DEF Replace, Goto, TypeOK
    <3>2. shown' = call[p].image /\ UNCHANGED <<call, report>>
      BY <1>2, <1>10, <2>1, <3>1 DEF Replace, Install, HasTemporary
    <3> QED BY <1>0, <1>1, <3>1, <3>2, AbstractPlace
  <2>2. CASE Goto(p, "restore") /\ UNCHANGED <<file, shown>>
    BY <1>4, <1>10, <2>2 DEF Replace, Stage
  <2> QED BY <1>10, <2>1, <2>2 DEF Replace
<1>11. CASE Restore(p)
  <2>1. serial
    BY <1>11 DEF Restore, InstallInv, Retires, Atomic
  <2>2. file[Backup(p)] = shown
    BY <1>11, <2>1 DEF Restore, Turns
  <2>3. shown' = shown
    BY <1>11, <2>2 DEF Restore, Install
  <2> QED BY <1>4, <1>11, <2>3 DEF Restore, Stage
<1>12. CASE Drop(p) \/ Discard(p) \/ Succeed(p) \/ Dies(p)
  <2>1. pc'[p] = "idle" /\ shown' = shown
    BY <1>0, <1>12 DEF Drop, Discard, Removes, Succeed, Dies, Finish, Goto, TypeOK
  <2>2. report' = report
          \/ report' = [report EXCEPT ![p] = IF pc[p] \in {"drop", "done"} THEN "success" ELSE "error"]
    BY <1>0, <1>12 DEF Drop, Discard, Removes, Succeed, Dies, Finish, TypeOK
  <2> QED BY <1>0, <1>1, <2>1, <2>2, AbstractEnd
<1> QED BY <1>5, <1>6, <1>7, <1>8, <1>9, <1>10, <1>11, <1>12 DEF Act

LEMMA NextRefines ==
  ASSUME InstallInv, Turns, Atomic, [Next]_vars
  PROVE  Output!Next \/ UNCHANGED Output!vars
<1>1. ASSUME NEW p \in Process, NEW t \in Tool, NEW i \in Image, NEW s \in Sequence, Begin(p, t, i, s)
      PROVE  Output!Begin(p)
  <2>1. /\ \A q \in Process \ {p} : pc'[q] = pc[q] /\ call'[q] = call[q]
        /\ pc[p] = "idle" /\ pc'[p] = "create" /\ call'[p].image = i
    BY <1>1 DEF Begin, Goto, InstallInv, TypeOK
  <2> QED BY <1>1, <2>1, AbstractBegin DEF Begin
<1>2. CASE UNCHANGED vars
  BY <1>2 DEF vars, Output!vars, Content, Calls, Busy
<1> QED BY <1>1, <1>2, ActRefines DEF Next, Output!Next

LEMMA InitRefines == Init => Output!Init
BY CallsAt DEF Init, Output!Init, Content, Calls, Busy

(* A call changes the output whole, at one instant, exactly when it        *)
(* reports success, as long as runners on Windows take turns: whatever     *)
(* fails or dies, and for any number of processes.                         *)
THEOREM RefinesOutputFileCorrect == FilesSpec => RefinesOutputFile
<1>1. FilesInit => Init
  BY DEF FilesInit, NoInstall, AnyInstall
<1>2. FilesInit => InstallInv /\ Turns /\ (Atomic => Output!Init)
  BY <1>1, InstallInit, InitRefines DEF Turns, Init
<1>3. ASSUME InstallInv, Turns, [FilesNext]_<<loader, vars, disk, serial, family>>
      PROVE  InstallInv' /\ Turns' /\ [Atomic => Output!Next]_(Output!vars)
  <2>1. [Next]_vars /\ serial' = serial /\ (vars' = vars \/ OneAtATime)
    BY <1>3 DEF FilesNext, InstallOutput, OneAtATime, Busy
  <2>2. Turns'
    BY <1>3, <2>1, TurnsStep DEF Turns, OneAtATime, vars
  <2> QED BY <1>3, <2>1, <2>2, InstallStep, NextRefines
<1> QED BY <1>2, <1>3, PTL DEF FilesSpec, RefinesOutputFile

-----------------------------------------------------------------------------
(* The directory stores a name as it was written, and no name twice.       *)
Faithful == \A t \in Spelling : Stored[t] = t
NamesUnique ==
  \A i, j \in Slot : i # j /\ IsLive(slot[i]) /\ IsLive(slot[j]) => slot[i].name # slot[j].name

DiskTypeOK ==
  /\ slot = [i \in Slot |-> slot[i]]
  /\ \A e \in Live : e.count \in Nat

DiskInv == DiskTypeOK /\ NamesUnique /\ ChainsDisjoint

-----------------------------------------------------------------------------
(* Induction, from the well-founded order on the natural numbers.          *)
LEMMA LessWellFounded ==
  \E R : IsWellFoundedOn(R, Nat) /\ \A x, y \in Nat : y < x => <<y, x>> \in R
<1>1. PICK R : R = OpToRel(<, Nat)
  OBVIOUS
<1>2. IsWellFoundedOn(R, Nat)
  BY <1>1, NatLessThanWellFounded, Zenon
<1>3. ASSUME NEW x \in Nat, NEW y \in Nat, y < x PROVE <<y, x>> \in R
  <2>1. R = {ss \in Nat \X Nat : ss[1] < ss[2]}
    BY <1>1 DEF OpToRel
  <2> QED BY <1>3, <2>1
<1> QED BY <1>2, <1>3

LEMMA LeastNumber ==
  ASSUME NEW T \in SUBSET Nat, T # {}
  PROVE  \E x \in T : \A y \in T : x <= y
<1>1. PICK R : IsWellFoundedOn(R, Nat) /\ \A x, y \in Nat : y < x => <<y, x>> \in R
  BY LessWellFounded
<1>2. PICK x \in T : \A y \in T : ~(<<y, x>> \in R)
  BY <1>1, WFMin, Zenon
<1>3. \A y \in T : ~(y < x)
  BY <1>1, <1>2
<1> QED BY <1>2, <1>3

LEMMA Induct ==
  ASSUME NEW T \in SUBSET Nat, 0 \in T, \A n \in T : n + 1 \in T
  PROVE  T = Nat
<1> SUFFICES ASSUME Nat \ T # {} PROVE FALSE
  OBVIOUS
<1>1. PICK x \in Nat \ T : \A y \in Nat \ T : x <= y
  BY LeastNumber, Nat \ T \in SUBSET Nat
<1>2. x # 0 /\ x - 1 \in Nat /\ x - 1 < x
  BY <1>1
<1>3. x - 1 \in T
  BY <1>1, <1>2
<1>4. (x - 1) + 1 \in T
  BY <1>3
<1> QED BY <1>1, <1>2, <1>4

-----------------------------------------------------------------------------
(* Following a chain through any sectors m.                                *)
HopIn(m, s) == IF s \in Sector THEN m[s].next ELSE 0
Follows(m, start, n, c) == c = [i \in 1..n |-> IF i = 1 THEN start ELSE HopIn(m, c[i - 1])]
ChainIn(m, e) ==
  LET Visits[i \in 1..e.count] == IF i = 1 THEN e.start ELSE HopIn(m, Visits[i - 1])
  IN  Visits

LEMMA FollowsExists ==
  ASSUME NEW m, NEW start, NEW n \in Nat
  PROVE  \E c : Follows(m, start, n, c)
<1> DEFINE T == {k \in Nat : \E c : Follows(m, start, k, c)}
<1>1. 0 \in T
  <2> DEFINE v == [i \in 1..0 |-> start]
  <2>1. v = [i \in 1..0 |-> IF i = 1 THEN start ELSE HopIn(m, v[i - 1])]
    <3>1. \A i \in 1..0 : FALSE
      OBVIOUS
    <3> QED BY <3>1
  <2> QED BY <2>1 DEF Follows
<1>2. ASSUME NEW k \in T PROVE k + 1 \in T
  <2>1. PICK c : Follows(m, start, k, c)
    BY <1>2
  <2>2. c = [i \in 1..k |-> IF i = 1 THEN start ELSE HopIn(m, c[i - 1])] /\ k \in Nat
    BY <2>1 DEF Follows
  <2> DEFINE v == [i \in 1..(k + 1) |-> IF i <= k THEN c[i] ELSE IF i = 1 THEN start ELSE HopIn(m, c[k])]
  <2>3. \A i \in 1..(k + 1) : v[i] = IF i = 1 THEN start ELSE HopIn(m, v[i - 1])
    <3> TAKE i \in 1..(k + 1)
    <3>1. CASE i <= k /\ i = 1
      BY <2>2, <3>1
    <3>2. CASE i <= k /\ i # 1
      <4>1. i \in 1..k /\ i - 1 \in 1..k /\ i - 1 \in 1..(k + 1) /\ i - 1 <= k
        BY <2>2, <3>2
      <4>2. c[i] = HopIn(m, c[i - 1])
        BY <2>2, <3>2, <4>1
      <4>3. v[i] = c[i] /\ v[i - 1] = c[i - 1]
        BY <3>2, <4>1
      <4> QED BY <3>2, <4>2, <4>3
    <3>3. CASE ~(i <= k) /\ i # 1
      <4>1. i - 1 = k /\ k \in 1..(k + 1) /\ k <= k
        BY <2>2, <3>3
      <4>2. v[k] = c[k] /\ v[i] = HopIn(m, c[k])
        BY <3>3, <4>1
      <4> QED BY <3>3, <4>1, <4>2
    <3>4. CASE ~(i <= k) /\ i = 1
      BY <3>4
    <3> QED BY <3>1, <3>2, <3>3, <3>4
  <2>4. v = [i \in 1..(k + 1) |-> IF i = 1 THEN start ELSE HopIn(m, v[i - 1])]
    BY <2>3
  <2>5. Follows(m, start, k + 1, v) /\ k + 1 \in Nat
    BY <2>2, <2>4 DEF Follows
  <2> HIDE DEF v
  <2> QED BY <2>5
<1>3. T = Nat
  <2>1. T \in SUBSET Nat
    OBVIOUS
  <2> HIDE DEF T
  <2> QED BY <1>1, <1>2, <2>1, Induct
<1> QED BY <1>3

(* And it is followed in one way: sectors in which both go on to the same. *)
LEMMA FollowsOnce ==
  ASSUME NEW m, NEW k, NEW start, NEW n \in Nat, NEW c, NEW h,
         Follows(m, start, n, c), Follows(k, start, n, h),
         \A i \in 1..n : HopIn(m, c[i]) = HopIn(k, c[i])
  PROVE  h = c
<1> DEFINE T == {i \in Nat : i \in 1..n => h[i] = c[i]}
<1>1. 0 \in T
  OBVIOUS
<1>2. /\ c = [i \in 1..n |-> IF i = 1 THEN start ELSE HopIn(m, c[i - 1])]
      /\ h = [i \in 1..n |-> IF i = 1 THEN start ELSE HopIn(k, h[i - 1])]
  BY DEF Follows
<1>3. /\ \A i \in 1..n : c[i] = IF i = 1 THEN start ELSE HopIn(m, c[i - 1])
      /\ \A i \in 1..n : h[i] = IF i = 1 THEN start ELSE HopIn(k, h[i - 1])
      /\ c = [i \in 1..n |-> c[i]] /\ h = [i \in 1..n |-> h[i]]
  BY <1>2
<1>4. ASSUME NEW i \in T PROVE i + 1 \in T
  <2>1. i \in Nat
    OBVIOUS
  <2>2. ASSUME i + 1 \in 1..n PROVE h[i + 1] = c[i + 1]
    <3>1. CASE i = 0
      <4>1. 1 \in 1..n /\ i + 1 = 1
        BY <2>2, <3>1
      <4>2. h[1] = start /\ c[1] = start
        BY <1>3, <4>1
      <4> QED BY <4>1, <4>2
    <3>2. CASE i # 0
      <4>1. i \in 1..n /\ i + 1 # 1 /\ (i + 1) - 1 = i
        BY <2>1, <2>2, <3>2
      <4>2. h[i] = c[i] /\ HopIn(m, c[i]) = HopIn(k, c[i])
        BY <4>1
      <4> DEFINE j == i + 1
      <4>3. j \in 1..n /\ j # 1 /\ j - 1 = i
        BY <2>2, <4>1
      <4> HIDE DEF j
      <4>4. h[j] = HopIn(k, h[j - 1]) /\ c[j] = HopIn(m, c[j - 1])
        BY <1>3, <4>3
      <4>5. h[j] = c[j]
        BY <4>2, <4>3, <4>4
      <4> QED BY <4>5 DEF j
    <3> QED BY <3>1, <3>2
  <2> QED BY <2>1, <2>2
<1>5. T = Nat
  <2>1. T \in SUBSET Nat
    OBVIOUS
  <2> HIDE DEF T
  <2> QED BY <1>1, <1>4, <2>1, Induct
<1>6. \A i \in 1..n : h[i] = c[i]
  BY <1>5
<1> QED BY <1>3, <1>6

LEMMA ChainFollows ==
  ASSUME NEW m, NEW e, e.count \in Nat
  PROVE  Follows(m, e.start, e.count, ChainIn(m, e))
<1>1. \E c : c = [i \in 1..e.count |-> IF i = 1 THEN e.start ELSE HopIn(m, c[i - 1])]
  <2>1. PICK n \in Nat : n = e.count
    OBVIOUS
  <2>2. PICK start : start = e.start
    OBVIOUS
  <2>3. \E c : Follows(m, start, n, c)
    BY <2>1, FollowsExists
  <2> QED BY <2>1, <2>2, <2>3 DEF Follows
<1> QED BY <1>1 DEF ChainIn, Follows

LEMMA ChainIs ==
  ASSUME NEW m, NEW k, NEW e, e.count \in Nat, NEW c,
         Follows(m, e.start, e.count, c),
         \A i \in 1..e.count : HopIn(m, c[i]) = HopIn(k, c[i])
  PROVE  ChainIn(k, e) = c
<1>1. Follows(k, e.start, e.count, ChainIn(k, e))
  BY ChainFollows
<1>2. PICK n \in Nat : n = e.count
  OBVIOUS
<1> QED BY <1>1, <1>2, FollowsOnce

(* The entries' chains before a step and after it.                         *)
ExtentIn(m, e) ==
  IF e.kind = "directory" THEN {e.start + i : i \in 0..e.count - 1} ELSE ToSet(ChainIn(m, e))
ReadableIn(m, e) ==
  IF e.kind = "directory" THEN ExtentIn(m, e) \subseteq Sector
  ELSE ToSet(ChainIn(m, e)) \subseteq Sector /\ IsInjective(ChainIn(m, e))
WithinIn(m, d) == {e \in UNION {ToSet(m[s].entries) : s \in ExtentIn(m, d) \cap Sector} : IsLive(e)}

LEMMA ChainsNow ==
  ASSUME NEW e
  PROVE  /\ Chain(e) = ChainIn(sector, e) /\ Chain(e)' = ChainIn(sector', e)
         /\ Extent(e) = ExtentIn(sector, e) /\ Extent(e)' = ExtentIn(sector', e)
         /\ Readable(e) = ReadableIn(sector, e) /\ Readable(e)' = ReadableIn(sector', e)
         /\ Within(e) = WithinIn(sector, e) /\ Within(e)' = WithinIn(sector', e)
<1>1. Chain(e) = ChainIn(sector, e) /\ Chain(e)' = ChainIn(sector', e)
  BY DEF Chain, ChainIn, Hop, HopIn
<1>2. Extent(e) = ExtentIn(sector, e) /\ Extent(e)' = ExtentIn(sector', e)
  BY <1>1 DEF Extent, ExtentIn
<1>3. Readable(e) = ReadableIn(sector, e) /\ Readable(e)' = ReadableIn(sector', e)
  BY <1>1, <1>2 DEF Readable, ReadableIn, Intact
<1>4. Within(e) = WithinIn(sector, e) /\ Within(e)' = WithinIn(sector', e)
  BY <1>2 DEF Within, WithinIn
<1> QED BY <1>1, <1>2, <1>3, <1>4

(* A chain none of whose sectors is written goes where it went.            *)
LEMMA Untouched ==
  ASSUME NEW m, NEW k, NEW e, e.count \in Nat,
         \A s \in Sector : s \in ExtentIn(m, e) => k[s] = m[s]
  PROVE  /\ e.kind # "directory" => ChainIn(k, e) = ChainIn(m, e)
         /\ ExtentIn(k, e) = ExtentIn(m, e)
         /\ ReadableIn(k, e) = ReadableIn(m, e)
         /\ WithinIn(k, e) = WithinIn(m, e)
<1>1. ASSUME e.kind # "directory" PROVE ChainIn(k, e) = ChainIn(m, e)
  <2>1. PICK n \in Nat : n = e.count
    OBVIOUS
  <2>2. PICK c : c = ChainIn(m, e)
    OBVIOUS
  <2>3. Follows(m, e.start, n, c)
    BY <2>1, <2>2, ChainFollows
  <2>4. \A i \in 1..n : c[i] \in ExtentIn(m, e)
    <3>1. DOMAIN c = 1..n
      BY <2>3 DEF Follows
    <3> QED BY <1>1, <2>2, <3>1 DEF ExtentIn, ToSet
  <2>5. \A i \in 1..n : HopIn(m, c[i]) = HopIn(k, c[i])
    BY <2>4 DEF HopIn
  <2>7. Follows(k, e.start, n, ChainIn(k, e))
    BY <2>1, ChainFollows
  <2>8. PICK start, h : start = e.start /\ h = ChainIn(k, e)
    OBVIOUS
  <2>9. Follows(m, start, n, c) /\ Follows(k, start, n, h)
    BY <2>3, <2>7, <2>8
  <2>10. h = c
    BY <2>5, <2>9, FollowsOnce
  <2> QED BY <2>2, <2>8, <2>10
<1>2. ExtentIn(k, e) = ExtentIn(m, e)
  BY <1>1 DEF ExtentIn
<1>3. ReadableIn(k, e) = ReadableIn(m, e)
  BY <1>1, <1>2 DEF ReadableIn
<1>4. \A s \in ExtentIn(m, e) \cap Sector : k[s] = m[s]
  OBVIOUS
<1>5. {ToSet(m[s].entries) : s \in ExtentIn(m, e) \cap Sector} = {ToSet(k[s].entries) : s \in ExtentIn(k, e) \cap Sector}
  BY <1>2, <1>4
<1>6. WithinIn(k, e) = WithinIn(m, e)
  BY <1>5 DEF WithinIn
<1> QED BY <1>1, <1>2, <1>3, <1>6

-----------------------------------------------------------------------------
(* The lowest free sectors are there when enough are free.                 *)
LEMMA LowestExists ==
  ASSUME NEW S \in SUBSET Nat, IsFiniteSet(S), NEW n \in Nat, n <= Cardinality(S)
  PROVE  \E c \in [1..n -> S] : Lowest(c, n, S)
<1> DEFINE Ok(k, c) == c \in [1..k -> S] /\ Lowest(c, k, S) /\ IsFiniteSet(ToSet(c)) /\ Cardinality(ToSet(c)) = k
           T == {k \in Nat : k <= Cardinality(S) => \E c : Ok(k, c)}
<1>0. Cardinality(S) \in Nat
  BY FS_CardinalityType
<1>1. 0 \in T
  <2>1. PICK c : c = [i \in 1..0 |-> 0]
    OBVIOUS
  <2>2. \A i \in 1..0 : FALSE
    OBVIOUS
  <2>3. c \in [1..0 -> S] /\ Lowest(c, 0, S)
    BY <2>1, <2>2 DEF Lowest
  <2>4. ToSet(c) = {}
    BY <2>1, <2>2 DEF ToSet
  <2>5. Ok(0, c)
    BY <2>3, <2>4, FS_EmptySet
  <2> QED BY <2>5
<1>2. ASSUME NEW k \in T PROVE k + 1 \in T
  <2>0. k \in Nat /\ k + 1 \in Nat
    OBVIOUS
  <2>1. ASSUME k + 1 <= Cardinality(S) PROVE \E c : Ok(k + 1, c)
    <3>1. PICK c : Ok(k, c)
      BY <1>0, <2>0, <2>1
    <3>2. c \in [1..k -> S] /\ Lowest(c, k, S) /\ IsFiniteSet(ToSet(c)) /\ Cardinality(ToSet(c)) = k
      BY <3>1
    <3>3. S \ ToSet(c) # {}
      <4>1. ToSet(c) # S
        BY <1>0, <2>0, <2>1, <3>2
      <4>2. ToSet(c) \subseteq S
        BY <3>2 DEF ToSet
      <4> QED BY <4>1, <4>2
    <3>4. PICK x \in S \ ToSet(c) : \A y \in S \ ToSet(c) : x <= y
      BY <3>3, LeastNumber, S \ ToSet(c) \in SUBSET Nat
    <3>5. PICK h : h = [i \in 1..(k + 1) |-> IF i <= k THEN c[i] ELSE x]
      OBVIOUS
    <3>6. \A i \in 1..(k + 1) : i \in 1..k \/ i = k + 1
      BY <2>0
    <3>7. \A i \in 1..k : i \in 1..(k + 1) /\ i <= k /\ h[i] = c[i]
      BY <2>0, <3>5
    <3>8. k + 1 \in 1..(k + 1) /\ h[k + 1] = x
      BY <2>0, <3>5
    <3>9. h \in [1..(k + 1) -> S]
      BY <3>2, <3>4, <3>5, <3>6
    <3>10. ToSet(h) = ToSet(c) \cup {x}
      <4>1. DOMAIN h = 1..(k + 1) /\ DOMAIN c = 1..k
        BY <3>2, <3>5
      <4>2. \A i \in 1..(k + 1) : h[i] \in ToSet(c) \cup {x}
        BY <3>6, <3>7, <3>8, <4>1 DEF ToSet
      <4>3. \A i \in 1..k : c[i] \in ToSet(h)
        BY <3>7, <4>1 DEF ToSet
      <4>4. x \in ToSet(h)
        BY <3>8, <4>1 DEF ToSet
      <4> QED BY <4>1, <4>2, <4>3, <4>4 DEF ToSet
    <3>11. Lowest(h, k + 1, S)
      <4>1. ASSUME NEW i \in 1..(k + 1), NEW j \in 1..(k + 1), i < j PROVE h[i] < h[j]
        <5>1. i \in 1..k
          BY <2>0, <4>1
        <5>2. CASE j \in 1..k
          BY <3>2, <3>7, <4>1, <5>1, <5>2 DEF Lowest
        <5>3. CASE j = k + 1
          <6>1. c[i] < x
            BY <3>2, <3>4, <5>1 DEF Lowest
          <6> QED BY <3>7, <3>8, <5>1, <5>3, <6>1
        <5> QED BY <3>6, <5>2, <5>3
      <4>2. ASSUME NEW s \in S \ ToSet(h), NEW i \in 1..(k + 1) PROVE h[i] < s
        <5>1. s \in S \ ToSet(c) /\ s # x /\ s \in Nat /\ x \in Nat
          BY <3>4, <3>10
        <5>2. CASE i \in 1..k
          BY <3>2, <3>7, <5>1, <5>2 DEF Lowest
        <5>3. CASE i = k + 1
          <6>1. x <= s
            BY <3>4, <5>1
          <6> QED BY <3>8, <5>1, <5>3, <6>1
        <5> QED BY <3>6, <5>2, <5>3
      <4> QED BY <4>1, <4>2 DEF Lowest
    <3>12. IsFiniteSet(ToSet(h)) /\ Cardinality(ToSet(h)) = k + 1
      BY <3>2, <3>4, <3>10, FS_AddElement
    <3>13. Ok(k + 1, h)
      BY <3>9, <3>11, <3>12
    <3> HIDE DEF Ok
    <3> QED BY <3>13
  <2> HIDE DEF Ok
  <2> QED BY <2>0, <2>1
<1>3. T = Nat
  <2>1. T \in SUBSET Nat
    OBVIOUS
  <2> HIDE DEF T
  <2> QED BY <1>1, <1>2, <2>1, Induct
<1>4. \E c : Ok(n, c)
  BY <1>3
<1> QED BY <1>4

LEMMA AllocatedFree ==
  ASSUME NEW t, NEW n \in Nat, ~(Cardinality(Free(t)) < n)
  PROVE  /\ Allocated(t, n) \in [1..n -> Free(t)]
         /\ \A i, j \in 1..n : Allocated(t, n)[i] = Allocated(t, n)[j] => i = j
<1>1. Free(t) \in SUBSET Nat /\ Free(t) \subseteq Sector
  BY DiskAssumption DEF Free, Sector
<1>2. IsFiniteSet(Free(t)) /\ Cardinality(Free(t)) \in Nat
  <2>1. IsFiniteSet(Sector)
    BY FS_Interval, DiskAssumption DEF Sector
  <2>2. IsFiniteSet(Free(t))
    BY <1>1, <2>1, FS_Subset
  <2> QED BY <2>2, FS_CardinalityType
<1>3. PICK S : S = Free(t)
  OBVIOUS
<1>4. \E c \in [1..n -> S] : Lowest(c, n, S)
  BY <1>1, <1>2, <1>3, LowestExists
<1>5. PICK c : c = Allocated(t, n)
  OBVIOUS
<1>6. c \in [1..n -> Free(t)] /\ Lowest(c, n, Free(t))
  BY <1>3, <1>4, <1>5 DEF Allocated
<1>7. ASSUME NEW i \in 1..n, NEW j \in 1..n, c[i] = c[j] PROVE i = j
  <2>1. c[i] \in Nat /\ c[j] \in Nat
    BY <1>1, <1>6
  <2>2. ~(c[i] < c[j]) /\ ~(c[j] < c[i])
    BY <1>7, <2>1
  <2>3. ~(i < j) /\ ~(j < i)
    BY <1>6, <2>2 DEF Lowest
  <2> QED BY <2>3
<1> QED BY <1>5, <1>6, <1>7

-----------------------------------------------------------------------------
(* A write, with what it allocates and the entry it writes named.          *)
Step(t, n, d, i, c, new) ==
  /\ i \in Slot /\ c \in [1..n -> Free(t)] /\ \A x, y \in 1..n : c[x] = c[y] => x = y
  /\ new = [kind |-> "file", name |-> t, start |-> c[1], count |-> n]
  /\ slot' = [slot EXCEPT ![i] = new]
  /\ sector' = Written(c, d)
  /\ vtoc' = Used(t) \cup ToSet(c)
  /\ \A e \in Replaced(t) : e.kind = "file"
  /\ \A j \in Slot : j # i /\ IsLive(slot[j]) => slot[j].name # t
  /\ IsLive(slot[i]) => slot[i].name = t

LEMMA UpsertSteps ==
  ASSUME DiskInv, Faithful, NEW t \in Spelling, NEW n \in Length, NEW d \in Data, Upsert(t, n, d)
  PROVE  \E i, c, new : Step(t, n, d, i, c, new)
<1>1. n \in Nat /\ n # 0
  BY DiskAssumption
<1>2. PICK c : c = Allocated(t, n)
  OBVIOUS
<1>3. PICK i : i = RootSlot(t)
  OBVIOUS
<1>4. PICK new : new = [kind |-> "file", name |-> t, start |-> c[1], count |-> n]
  OBVIOUS
<1>5. ~Fails(t, n)
  BY DEF Upsert
<1>6. c \in [1..n -> Free(t)] /\ \A x, y \in 1..n : c[x] = c[y] => x = y
  <2>1. ~(Cardinality(Free(t)) < n)
    BY <1>5 DEF Fails
  <2> QED BY <1>1, <1>2, <2>1, AllocatedFree
<1>7. slot' = [slot EXCEPT ![i] = new] /\ sector' = Written(c, d) /\ vtoc' = Used(t) \cup ToSet(c)
  BY <1>2, <1>3, <1>4 DEF Upsert, Faithful
<1>8. Candidates(t) # {} /\ Candidates(t) \subseteq Slot
  BY <1>5 DEF Fails, Candidates
<1>9. i \in Candidates(t)
  <2>1. Candidates(t) \in SUBSET Nat
    BY <1>8, DiskAssumption DEF Slot
  <2>2. \E x \in Candidates(t) : \A y \in Candidates(t) : x <= y
    BY <1>8, <2>1, LeastNumber
  <2> QED BY <1>3, <2>2 DEF RootSlot
<1>10. IsLive(slot[i]) => slot[i].name = t
  BY <1>9 DEF Candidates, IsLive
<1>11. ASSUME NEW j \in Slot, j # i, IsLive(slot[j]), slot[j].name = t PROVE FALSE
  <2>1. IsLive(slot[i]) /\ slot[i].name = t
    BY <1>9, <1>11 DEF Candidates
  <2> QED BY <1>8, <1>9, <1>11, <2>1 DEF DiskInv, NamesUnique
<1>12. \A e \in Replaced(t) : e.kind = "file"
  BY <1>5 DEF Fails, Replaced, RootEntries, IsLive
<1> QED BY <1>4, <1>6, <1>7, <1>8, <1>9, <1>10, <1>11, <1>12 DEF Step

(* What the new entry's chain is, and what the bitmap kept it off.         *)
LEMMA NewChain ==
  ASSUME NEW t, NEW n \in Length, NEW d, NEW i, NEW c, NEW new, Step(t, n, d, i, c, new)
  PROVE  /\ ChainIn(sector', new) = c
         /\ ExtentIn(sector', new) = ToSet(c)
         /\ ReadableIn(sector', new)
         /\ \A x \in 1..n : sector'[c[x]].chunk = <<d, x>>
         /\ ToSet(c) \subseteq Sector /\ ToSet(c) \cap Used(t) = {}
         /\ \A s \in Sector : s \notin ToSet(c) => sector'[s] = sector[s]
<1>1. n \in Nat /\ n # 0 /\ 1 \in 1..n
  BY DiskAssumption
<1>2. /\ c \in [1..n -> Free(t)] /\ \A x, y \in 1..n : c[x] = c[y] => x = y
      /\ new = [kind |-> "file", name |-> t, start |-> c[1], count |-> n]
      /\ sector' = Written(c, d)
  BY DEF Step
<1>3. Free(t) \subseteq Sector /\ Free(t) \cap Used(t) = {}
  BY DEF Free
<1>4. DOMAIN c = 1..n /\ ToSet(c) = {c[x] : x \in 1..n}
  BY <1>2 DEF ToSet
<1>5. ToSet(c) \subseteq Sector /\ ToSet(c) \cap Used(t) = {}
  BY <1>2, <1>3, <1>4
<1>6. Len(c) = n
  BY <1>1, <1>4, <1>2
<1>7. \A s \in Sector : s \notin ToSet(c) => sector'[s] = sector[s]
  BY <1>2 DEF Written
<1>8. ASSUME NEW x \in 1..n
      PROVE  sector'[c[x]].next = (IF x = n THEN 0 ELSE c[x + 1]) /\ sector'[c[x]].chunk = <<d, x>>
  <2>1. c[x] \in Sector /\ c[x] \in ToSet(c)
    BY <1>4, <1>5
  <2>2. PICK z : z = CHOOSE j \in DOMAIN c : c[j] = c[x]
    OBVIOUS
  <2>3. z \in 1..n /\ c[z] = c[x]
    BY <1>4, <2>2
  <2>4. z = x
    BY <1>2, <2>3
  <2>5. sector'[c[x]] = LET j == CHOOSE j \in DOMAIN c : c[j] = c[x] IN
          [next |-> IF j = Len(c) THEN 0 ELSE c[j + 1], chunk |-> <<d, j>>, entries |-> <<>>]
    BY <1>2, <2>1 DEF Written
  <2>6. sector'[c[x]] = [next |-> IF z = Len(c) THEN 0 ELSE c[z + 1], chunk |-> <<d, z>>, entries |-> <<>>]
    BY <2>2, <2>5
  <2>7. PICK nx, ck, em : nx = (IF x = n THEN 0 ELSE c[x + 1]) /\ ck = <<d, x>> /\ em = <<>>
    OBVIOUS
  <2>8. sector'[c[x]] = [next |-> nx, chunk |-> ck, entries |-> em]
    BY <1>6, <2>4, <2>6, <2>7
  <2>9. sector'[c[x]].next = nx /\ sector'[c[x]].chunk = ck
    BY <2>8
  <2> QED BY <2>7, <2>9
<1>9. Follows(sector', c[1], n, c)
  <2>1. \A x \in 1..n : c[x] = IF x = 1 THEN c[1] ELSE HopIn(sector', c[x - 1])
    <3> SUFFICES ASSUME NEW x \in 1..n, x # 1 PROVE c[x] = HopIn(sector', c[x - 1])
      OBVIOUS
    <3> DEFINE y == x - 1
    <3>1. y \in 1..n /\ y # n /\ y + 1 = x
      BY <1>1
    <3> HIDE DEF y
    <3>2. c[y] \in Sector
      BY <1>4, <1>5, <3>1
    <3>3. sector'[c[y]].next = c[x]
      BY <1>8, <3>1
    <3>4. HopIn(sector', c[y]) = c[x]
      BY <3>2, <3>3 DEF HopIn
    <3> QED BY <3>4 DEF y
  <2>2. c = [x \in 1..n |-> c[x]]
    BY <1>2
  <2>3. c = [x \in 1..n |-> IF x = 1 THEN c[1] ELSE HopIn(sector', c[x - 1])]
    BY <2>1, <2>2
  <2> QED BY <2>3 DEF Follows
<1>10. ChainIn(sector', new) = c
  <2>1. new.start = c[1] /\ new.count = n
    BY <1>2
  <2>2. Follows(sector', new.start, new.count, c) /\ new.count \in Nat
    BY <1>1, <1>9, <2>1
  <2>3. \A x \in 1..new.count : HopIn(sector', c[x]) = HopIn(sector', c[x])
    OBVIOUS
  <2> QED BY <2>2, <2>3, ChainIs
<1>11. new.kind = "file"
  BY <1>2
<1>12. ExtentIn(sector', new) = ToSet(c)
  BY <1>10, <1>11 DEF ExtentIn
<1>13. ReadableIn(sector', new)
  <2>1. IsInjective(c)
    <3>1. \A x, y \in DOMAIN c : c[x] = c[y] => x = y
      BY <1>2, <1>4
    <3> QED BY <3>1 DEF IsInjective
  <2>2. new.kind # "directory"
    BY <1>11
  <2> QED BY <1>5, <1>10, <2>1, <2>2 DEF ReadableIn
<1>14. \A x \in 1..n : sector'[c[x]].chunk = <<d, x>>
  BY <1>8
<1> QED BY <1>5, <1>7, <1>10, <1>12, <1>13, <1>14

(* Whatever is kept stays where it was.                                    *)
LEMMA KeptStays ==
  ASSUME DiskInv, NEW t, NEW n \in Length, NEW d, NEW i, NEW c, NEW new, Step(t, n, d, i, c, new),
         NEW e \in Kept(t)
  PROVE  /\ e.kind # "directory" => ChainIn(sector', e) = ChainIn(sector, e)
         /\ ExtentIn(sector', e) = ExtentIn(sector, e)
         /\ ReadableIn(sector', e) /\ ReadableIn(sector, e)
         /\ WithinIn(sector', e) = WithinIn(sector, e)
         /\ ExtentIn(sector, e) \subseteq Used(t)
         /\ ExtentIn(sector, e) \cap ToSet(c) = {}
         /\ ExtentIn(sector, e) \cap Reserved = {}
         /\ \A s \in ExtentIn(sector, e) : s \in Sector /\ sector'[s] = sector[s]
<1>1. e \in Live /\ e.count \in Nat
  BY DEF DiskInv, DiskTypeOK, Live, Kept
<1>2. Extent(e) = ExtentIn(sector, e) /\ Readable(e) = ReadableIn(sector, e)
  BY ChainsNow
<1>3. ExtentIn(sector, e) \subseteq Used(t)
  BY <1>2 DEF Used, Extents
<1>4. ExtentIn(sector, e) \cap ToSet(c) = {}
  BY <1>3, NewChain
<1>5. \A s \in Sector : s \in ExtentIn(sector, e) => sector'[s] = sector[s]
  BY <1>4, NewChain
<1>6. Readable(e) /\ Extent(e) \cap Reserved = {}
  BY <1>1 DEF DiskInv, ChainsDisjoint
<1>7. ExtentIn(sector, e) \subseteq Sector
  BY <1>2, <1>6 DEF ReadableIn, ExtentIn
<1>8. /\ e.kind # "directory" => ChainIn(sector', e) = ChainIn(sector, e)
      /\ ExtentIn(sector', e) = ExtentIn(sector, e)
      /\ ReadableIn(sector', e) = ReadableIn(sector, e)
      /\ WithinIn(sector', e) = WithinIn(sector, e)
  BY <1>1, <1>5, Untouched
<1> QED BY <1>2, <1>3, <1>4, <1>5, <1>6, <1>7, <1>8

(* The entries after a write.                                              *)
LEMMA EntriesAfter ==
  ASSUME DiskInv, NEW t, NEW n \in Length, NEW d, NEW i, NEW c, NEW new, Step(t, n, d, i, c, new)
  PROVE  /\ RootEntries' = (RootEntries \ Replaced(t)) \cup {new}
         /\ Nested' = Nested
         /\ Live' = Kept(t) \cup {new}
         /\ \A j \in Slot : j # i => slot'[j] = slot[j] /\ (IsLive(slot[j]) => slot[j] \in Kept(t))
         /\ slot'[i] = new /\ IsLive(new) /\ i \in Slot
<1>1. /\ i \in Slot /\ slot' = [slot EXCEPT ![i] = new]
      /\ new = [kind |-> "file", name |-> t, start |-> c[1], count |-> n]
      /\ \A e \in Replaced(t) : e.kind = "file"
      /\ \A j \in Slot : j # i /\ IsLive(slot[j]) => slot[j].name # t
      /\ IsLive(slot[i]) => slot[i].name = t
  BY DEF Step
<1>2. new.kind = "file" /\ new.name = t /\ IsLive(new)
  BY <1>1 DEF IsLive
<1>3. slot'[i] = new /\ \A j \in Slot : j # i => slot'[j] = slot[j]
  BY <1>1 DEF DiskInv, DiskTypeOK
<1>4. \A j \in Slot : j # i /\ IsLive(slot[j]) => slot[j] \in RootEntries \ Replaced(t)
  BY <1>1 DEF RootEntries, Replaced
<1>5. \A e \in RootEntries \ Replaced(t) : \E j \in Slot : j # i /\ IsLive(slot[j]) /\ e = slot[j]
  BY <1>1 DEF RootEntries, Replaced
<1>6. RootEntries' = {slot'[j] : j \in {k \in Slot : IsLive(slot'[k])}}
  BY DEF RootEntries, IsLive
<1>7. RootEntries' = (RootEntries \ Replaced(t)) \cup {new}
  <2>1. \A e \in RootEntries' : e \in (RootEntries \ Replaced(t)) \cup {new}
    BY <1>3, <1>4, <1>6
  <2>2. \A e \in RootEntries \ Replaced(t) : e \in RootEntries'
    BY <1>3, <1>5, <1>6
  <2>3. new \in RootEntries'
    BY <1>1, <1>2, <1>3, <1>6
  <2> QED BY <2>1, <2>2, <2>3
<1>8. Subdirectories' = Subdirectories
  <2>1. Subdirectories' = {e \in RootEntries' : e.kind = "directory"}
    BY DEF Subdirectories
  <2>2. \A e \in RootEntries : e.kind = "directory" => e \notin Replaced(t)
    BY <1>1
  <2>3. \A e : e \in RootEntries' /\ e.kind = "directory" <=> e \in RootEntries /\ e.kind = "directory"
    BY <1>2, <1>7, <2>2
  <2> QED BY <2>1, <2>3 DEF Subdirectories
<1>9. \A e \in Subdirectories : WithinIn(sector', e) = WithinIn(sector, e)
  <2> TAKE e \in Subdirectories
  <2>1. e \in Kept(t)
    BY <1>1 DEF Subdirectories, Kept, Replaced
  <2> QED BY <2>1, KeptStays
<1>10. Nested' = Nested
  <2>1. Nested = UNION {WithinIn(sector, e) : e \in Subdirectories}
    BY ChainsNow DEF Nested
  <2>2. Nested' = UNION {WithinIn(sector', e) : e \in Subdirectories'}
    BY ChainsNow DEF Nested
  <2> QED BY <1>8, <1>9, <2>1, <2>2
<1>11. Live' = Kept(t) \cup {new}
  BY <1>7, <1>10 DEF Live, Kept
<1> QED BY <1>1, <1>2, <1>3, <1>4, <1>7, <1>10, <1>11 DEF Kept

-----------------------------------------------------------------------------
LEMMA StepKeepsApart ==
  ASSUME DiskInv, NEW t, NEW n \in Length, NEW d, NEW i, NEW c, NEW new, Step(t, n, d, i, c, new)
  PROVE  ChainsDisjoint'
<1>1. /\ RootEntries' = (RootEntries \ Replaced(t)) \cup {new}
      /\ Nested' = Nested
      /\ Live' = Kept(t) \cup {new}
      /\ \A j \in Slot : j # i => slot'[j] = slot[j] /\ (IsLive(slot[j]) => slot[j] \in Kept(t))
      /\ slot'[i] = new /\ IsLive(new) /\ i \in Slot
  BY EntriesAfter
<1> DEFINE Ext(e) == ExtentIn(sector', e)
<1>0. /\ ChainIn(sector', new) = c
      /\ ExtentIn(sector', new) = ToSet(c)
      /\ ReadableIn(sector', new)
      /\ \A x \in 1..n : sector'[c[x]].chunk = <<d, x>>
      /\ ToSet(c) \subseteq Sector /\ ToSet(c) \cap Used(t) = {}
      /\ \A s \in Sector : s \notin ToSet(c) => sector'[s] = sector[s]
  BY NewChain, ZenonT(60)
<1>2. \A e : Extent(e)' = Ext(e) /\ Readable(e)' = ReadableIn(sector', e) /\ Extent(e) = ExtentIn(sector, e)
  BY ChainsNow
<1>3. \A e \in Kept(t) : Ext(e) = Extent(e) /\ Ext(e) \cap Ext(new) = {} /\ Ext(e) \cap Reserved = {} /\ ReadableIn(sector', e)
  <2> TAKE e \in Kept(t)
  <2>1. /\ ExtentIn(sector', e) = ExtentIn(sector, e) /\ ReadableIn(sector', e)
        /\ ExtentIn(sector, e) \cap ToSet(c) = {} /\ ExtentIn(sector, e) \cap Reserved = {}
    BY KeptStays
  <2>2. Ext(new) = ToSet(c)
    BY <1>0
  <2> QED BY <1>2, <2>1, <2>2
<1>4. Ext(new) \cap Reserved = {} /\ ReadableIn(sector', new)
  BY <1>0 DEF Used
<1>5. Reserved' = Reserved
  BY DEF Reserved
<1>6. Nested \subseteq Kept(t) /\ RootEntries \ Replaced(t) \subseteq Kept(t) /\ Kept(t) \subseteq RootEntries \cup Nested
  BY DEF Kept
<1> HIDE DEF Ext
<1>7. /\ \A x, y \in Slot : x # y /\ IsLive(slot[x]) /\ IsLive(slot[y]) => Extent(slot[x]) \cap Extent(slot[y]) = {}
      /\ \A e \in RootEntries, f \in Nested : Extent(e) \cap Extent(f) = {}
      /\ \A e, f \in Nested : e # f => Extent(e) \cap Extent(f) = {}
  BY DEF DiskInv, ChainsDisjoint
<1>8. \A e \in Kept(t) \cup {new} : ReadableIn(sector', e) /\ Ext(e) \cap Reserved = {}
  BY <1>3, <1>4
<1>9. \A x, y \in Slot : x # y /\ IsLive(slot'[x]) /\ IsLive(slot'[y]) => Ext(slot'[x]) \cap Ext(slot'[y]) = {}
  <2> SUFFICES ASSUME NEW x \in Slot, NEW y \in Slot, x # y, IsLive(slot'[x]), IsLive(slot'[y])
               PROVE  Ext(slot'[x]) \cap Ext(slot'[y]) = {}
    OBVIOUS
  <2>1. CASE x = i
    <3>1. slot'[y] \in Kept(t) /\ slot'[x] = new
      BY <1>1, <2>1
    <3> QED BY <1>3, <3>1
  <2>2. CASE y = i
    <3>1. slot'[x] \in Kept(t) /\ slot'[y] = new
      BY <1>1, <2>2
    <3> QED BY <1>3, <3>1
  <2>3. CASE x # i /\ y # i
    <3>1. slot'[x] = slot[x] /\ slot'[y] = slot[y] /\ slot[x] \in Kept(t) /\ slot[y] \in Kept(t)
          /\ IsLive(slot[x]) /\ IsLive(slot[y])
      BY <1>1, <2>3
    <3> QED BY <1>3, <1>7, <3>1
  <2> QED BY <2>1, <2>2, <2>3
<1>10. \A e \in (RootEntries \ Replaced(t)) \cup {new}, f \in Nested : Ext(e) \cap Ext(f) = {}
  <2> SUFFICES ASSUME NEW e \in (RootEntries \ Replaced(t)) \cup {new}, NEW f \in Nested
               PROVE  Ext(e) \cap Ext(f) = {}
    OBVIOUS
  <2>1. f \in Kept(t)
    BY <1>6
  <2>2. CASE e = new
    BY <1>3, <2>1, <2>2
  <2>3. CASE e # new
    <3>1. e \in RootEntries /\ e \in Kept(t)
      BY <1>6, <2>3
    <3> QED BY <1>3, <1>7, <2>1, <3>1
  <2> QED BY <2>2, <2>3
<1>11. \A e, f \in Nested : e # f => Ext(e) \cap Ext(f) = {}
  BY <1>3, <1>6, <1>7
<1>12. \A e : IsLive(e)' = IsLive(e)
  BY DEF IsLive
<1>13. (\A x, y \in Slot : x # y /\ IsLive(slot[x]) /\ IsLive(slot[y]) => Extent(slot[x]) \cap Extent(slot[y]) = {})'
  <2>1. Slot' = Slot
    BY DEF Slot
  <2>4. \A x : Extent(slot[x])' = Ext(slot'[x])
    BY ChainsNow DEF Ext, Extent, ExtentIn, Chain, ChainIn, Hop, HopIn
  <2>5. \A x : IsLive(slot[x])' = IsLive(slot'[x])
    BY DEF IsLive
  <2> QED BY <1>9, <2>1, <2>4, <2>5
<1>14. (\A e \in Live : Readable(e) /\ Extent(e) \cap Reserved = {})'
  BY <1>1, <1>2, <1>5, <1>8
<1>15. (\A e \in RootEntries, f \in Nested : Extent(e) \cap Extent(f) = {})'
  BY <1>1, <1>2, <1>10
<1>16. (\A e, f \in Nested : e # f => Extent(e) \cap Extent(f) = {})'
  BY <1>1, <1>2, <1>11
<1> QED BY <1>13, <1>14, <1>15, <1>16 DEF ChainsDisjoint

LEMMA StepKeepsNames ==
  ASSUME DiskInv, NEW t, NEW n \in Length, NEW d, NEW i, NEW c, NEW new, Step(t, n, d, i, c, new)
  PROVE  DiskTypeOK' /\ NamesUnique'
<1>0. /\ RootEntries' = (RootEntries \ Replaced(t)) \cup {new}
      /\ Nested' = Nested
      /\ Live' = Kept(t) \cup {new}
      /\ \A j \in Slot : j # i => slot'[j] = slot[j] /\ (IsLive(slot[j]) => slot[j] \in Kept(t))
      /\ slot'[i] = new /\ IsLive(new) /\ i \in Slot
  BY EntriesAfter
<1>1. /\ Live' = Kept(t) \cup {new}
      /\ \A j \in Slot : j # i => slot'[j] = slot[j]
      /\ slot'[i] = new /\ i \in Slot
  BY <1>0
<1>2. slot' = [slot EXCEPT ![i] = new] /\ slot = [j \in Slot |-> slot[j]]
      /\ new = [kind |-> "file", name |-> t, start |-> c[1], count |-> n]
      /\ \A j \in Slot : j # i /\ IsLive(slot[j]) => slot[j].name # t
  BY DEF Step, DiskInv, DiskTypeOK
<1>3. new.count \in Nat /\ new.name = t
  BY <1>2, DiskAssumption
<1>4. \A e \in Kept(t) : e.count \in Nat
  BY DEF Kept, Live, DiskInv, DiskTypeOK
<1>5. slot' = [j \in Slot |-> slot'[j]]
  BY <1>2
<1>6. DiskTypeOK'
  <2>1. Slot' = Slot
    BY DEF Slot
  <2>2. \A e \in Live' : e.count \in Nat
    BY <1>1, <1>3, <1>4
  <2> QED BY <1>5, <2>1, <2>2 DEF DiskTypeOK
<1>7. ASSUME NEW x \in Slot, NEW y \in Slot, x # y, IsLive(slot'[x]), IsLive(slot'[y])
      PROVE  slot'[x].name # slot'[y].name
  <2>1. CASE x = i
    BY <1>1, <1>2, <1>3, <1>7, <2>1
  <2>2. CASE y = i
    BY <1>1, <1>2, <1>3, <1>7, <2>2
  <2>3. CASE x # i /\ y # i
    BY <1>1, <1>7, <2>3 DEF DiskInv, NamesUnique
  <2> QED BY <2>1, <2>2, <2>3
<1>8. NamesUnique'
  BY <1>7 DEF NamesUnique, IsLive, Slot
<1> QED BY <1>6, <1>8

LEMMA StepAccounts ==
  ASSUME DiskInv, NEW t, NEW n \in Length, NEW d, NEW i, NEW c, NEW new, Step(t, n, d, i, c, new)
  PROVE  Extents(Live)' \subseteq vtoc' /\ Orphans' = Orphans
<1> DEFINE Kpt == UNION {Extent(e) : e \in Kept(t)}
           Gone == UNION {Extent(e) : e \in Replaced(t)}
<1>0. /\ RootEntries' = (RootEntries \ Replaced(t)) \cup {new}
      /\ Nested' = Nested
      /\ Live' = Kept(t) \cup {new}
      /\ \A j \in Slot : j # i => slot'[j] = slot[j] /\ (IsLive(slot[j]) => slot[j] \in Kept(t))
      /\ slot'[i] = new /\ IsLive(new) /\ i \in Slot
  BY EntriesAfter
<1>1. Live' = Kept(t) \cup {new} /\ vtoc' = Used(t) \cup ToSet(c)
  BY <1>0 DEF Step
<1>2. Live = Kept(t) \cup Replaced(t)
  BY DEF Live, Kept, Replaced
<1>3. \A e \in Kept(t) : Extent(e)' = Extent(e)
  BY ChainsNow, KeptStays
<1>4. Extent(new)' = ToSet(c) /\ ToSet(c) \cap Used(t) = {}
  <2>1. /\ ChainIn(sector', new) = c
        /\ ExtentIn(sector', new) = ToSet(c)
        /\ ReadableIn(sector', new)
        /\ \A x \in 1..n : sector'[c[x]].chunk = <<d, x>>
        /\ ToSet(c) \subseteq Sector /\ ToSet(c) \cap Used(t) = {}
        /\ \A s \in Sector : s \notin ToSet(c) => sector'[s] = sector[s]
    BY NewChain, ZenonT(60)
  <2> QED BY <2>1, ChainsNow
<1>5. Extents(Live)' = UNION {Extent(e)' : e \in Live'}
  BY DEF Extents
<1>6. Extents(Live)' = Kpt \cup ToSet(c)
  <2>1. {Extent(e)' : e \in Live'} = {Extent(e) : e \in Kept(t)} \cup {ToSet(c)}
    BY <1>1, <1>3, <1>4
  <2> QED BY <1>5, <2>1
<1>7. Extents(Live) = Kpt \cup Gone
  BY <1>2 DEF Extents
<1>8. Used(t) = ((vtoc \cup Reserved) \ Gone) \cup Kpt \cup Reserved
  BY DEF Used, Extents
<1>9. Reserved' = Reserved
  BY DEF Reserved
<1> HIDE DEF Kpt, Gone
<1>10. Extents(Live)' \subseteq vtoc'
  BY <1>1, <1>6, <1>8
<1>11. Orphans' = (Used(t) \cup ToSet(c)) \ (Kpt \cup ToSet(c) \cup Reserved)
  BY <1>1, <1>6, <1>9 DEF Orphans
<1>12. Orphans = vtoc \ (Kpt \cup Gone \cup Reserved)
  BY <1>7 DEF Orphans
<1>13. Orphans' = Orphans
  BY <1>4, <1>8, <1>11, <1>12
<1> QED BY <1>10, <1>13

LEMMA DiskStep ==
  ASSUME DiskInv, Faithful, [WriteDisk]_disk
  PROVE  /\ DiskInv'
         /\ disk' # disk => Extents(Live)' \subseteq vtoc' /\ Orphans' = Orphans
<1>1. CASE WriteDisk
  <2>1. PICK t \in Spelling, n \in Length, d \in Data : Upsert(t, n, d)
    BY <1>1 DEF WriteDisk
  <2>2. PICK i, c, new : Step(t, n, d, i, c, new)
    BY <2>1, UpsertSteps
  <2> QED BY <2>2, StepKeepsApart, StepKeepsNames, StepAccounts DEF DiskInv
<1>2. CASE disk' = disk
  <2>1. slot' = slot /\ sector' = sector
    BY <1>2 DEF disk
  <2>2. \A e : Extent(e)' = Extent(e) /\ Readable(e)' = Readable(e) /\ Within(e)' = Within(e)
    BY <2>1, ChainsNow
  <2>3. RootEntries' = RootEntries /\ Subdirectories' = Subdirectories /\ Nested' = Nested /\ Live' = Live
    BY <2>1, <2>2 DEF RootEntries, Subdirectories, Nested, Live, IsLive, Slot
  <2>4. DiskTypeOK' /\ NamesUnique'
    BY <2>1, <2>3 DEF DiskInv, DiskTypeOK, NamesUnique, IsLive, Slot
  <2>5. \A x : Extent(slot[x])' = Extent(slot[x])
    BY <2>1 DEF Extent, Chain, Hop
  <2>6. ChainsDisjoint'
    BY <2>1, <2>2, <2>3, <2>5 DEF DiskInv, ChainsDisjoint, IsLive, Slot, Reserved, Sector
  <2> QED BY <1>2, <2>4, <2>6 DEF DiskInv
<1> QED BY <1>1, <1>2

(* Whatever sound disk it is given and whatever the bitmap said: no two    *)
(* chains ever meet, and every one can be followed.                        *)
THEOREM ChainsDisjointCorrect ==
  Faithful /\ DiskInv /\ [][WriteDisk]_disk => []ChainsDisjoint
<1>1. DiskInv => ChainsDisjoint
  BY DEF DiskInv
<1>2. Faithful /\ DiskInv /\ [WriteDisk]_disk => DiskInv'
  BY DiskStep
<1>3. Faithful => Faithful'
  BY DEF Faithful
<1> QED BY <1>1, <1>2, <1>3, PTL

(* And a write leaves the bitmap right about every file, loses no sector   *)
(* and reuses none that the bitmap keeps for something else.               *)
THEOREM SpaceAccountedCorrect ==
  Faithful /\ DiskInv /\ [][WriteDisk]_disk => SpaceAccounted
<1> DEFINE Accounts == disk' # disk => Extents(Live)' \subseteq vtoc' /\ Orphans' = Orphans
<1>1. Faithful /\ DiskInv /\ [WriteDisk]_disk => DiskInv' /\ [Accounts]_disk
  BY DiskStep
<1>2. Faithful => Faithful'
  BY DEF Faithful
<1> QED BY <1>1, <1>2, PTL DEF SpaceAccounted

-----------------------------------------------------------------------------
(* What a reader sees: contents of one entry, and the entries of a name.   *)
ContentsIn(m, e) == [x \in 1..e.count |-> m[ChainIn(m, e)[x]].chunk]

LEMMA ContentsNow ==
  ASSUME NEW e
  PROVE  Contents(e) = ContentsIn(sector, e) /\ Contents(e)' = ContentsIn(sector', e)
<1> QED BY ChainsNow DEF Contents, ContentsIn

LEMMA ContentsStay ==
  ASSUME DiskInv, NEW t, NEW n \in Length, NEW d, NEW i, NEW c, NEW new, Step(t, n, d, i, c, new),
         NEW e \in Kept(t), e.kind = "file"
  PROVE  ContentsIn(sector', e) = ContentsIn(sector, e)
<1>1. /\ ChainIn(sector', e) = ChainIn(sector, e)
      /\ \A s \in ExtentIn(sector, e) : sector'[s] = sector[s]
  <2>1. /\ e.kind # "directory" => ChainIn(sector', e) = ChainIn(sector, e)
        /\ ExtentIn(sector', e) = ExtentIn(sector, e)
        /\ ReadableIn(sector', e) /\ ReadableIn(sector, e)
        /\ WithinIn(sector', e) = WithinIn(sector, e)
        /\ ExtentIn(sector, e) \subseteq Used(t)
        /\ ExtentIn(sector, e) \cap ToSet(c) = {}
        /\ ExtentIn(sector, e) \cap Reserved = {}
        /\ \A s \in ExtentIn(sector, e) : s \in Sector /\ sector'[s] = sector[s]
    BY KeptStays
  <2> QED BY <2>1
<1>2. PICK k \in Nat : k = e.count
  BY DEF Kept, Live, DiskInv, DiskTypeOK
<1>3. PICK h : h = ChainIn(sector, e)
  OBVIOUS
<1>4. DOMAIN h = 1..k
  BY <1>2, <1>3, ChainFollows DEF Follows
<1>5. ExtentIn(sector, e) = ToSet(h)
  BY <1>3 DEF ExtentIn
<1>6. \A x \in 1..k : sector'[h[x]] = sector[h[x]]
  BY <1>1, <1>4, <1>5 DEF ToSet
<1> QED BY <1>1, <1>2, <1>3, <1>6 DEF ContentsIn

LEMMA ContentsNew ==
  ASSUME NEW t, NEW n \in Length, NEW d, NEW i, NEW c, NEW new, Step(t, n, d, i, c, new)
  PROVE  ContentsIn(sector', new) = Chunks(n, d)
<1>1. /\ ChainIn(sector', new) = c
      /\ ExtentIn(sector', new) = ToSet(c)
      /\ ReadableIn(sector', new)
      /\ \A x \in 1..n : sector'[c[x]].chunk = <<d, x>>
      /\ ToSet(c) \subseteq Sector /\ ToSet(c) \cap Used(t) = {}
      /\ \A s \in Sector : s \notin ToSet(c) => sector'[s] = sector[s]
  BY NewChain, ZenonT(60)
<1>2. new.count = n
  BY DEF Step
<1> QED BY <1>1, <1>2 DEF ContentsIn, Chunks

LEMMA StepStores ==
  ASSUME DiskInv, Faithful, NEW t \in Spelling, NEW n \in Length, NEW d \in Data, NEW i, NEW c, NEW new,
         Step(t, n, d, i, c, new)
  PROVE  Shown' = [Shown EXCEPT ![<<"root", t>>] = Chunks(n, d)]
<1>1. /\ RootEntries' = (RootEntries \ Replaced(t)) \cup {new}
      /\ Nested' = Nested
      /\ Live' = Kept(t) \cup {new}
      /\ \A j \in Slot : j # i => slot'[j] = slot[j] /\ (IsLive(slot[j]) => slot[j] \in Kept(t))
      /\ slot'[i] = new /\ IsLive(new) /\ i \in Slot
  BY EntriesAfter
<1>2. new.kind = "file" /\ new.name = t
  BY DEF Step
<1> DEFINE Seen(A) == IF A = {} THEN NoFile ELSE ContentsIn(sector, CHOOSE e \in A : TRUE)
           SeenAfter(A) == IF A = {} THEN NoFile ELSE ContentsIn(sector', CHOOSE e \in A : TRUE)
           P == {"root", "sub"} \X Name
<1>3. \A A : (\A e \in A : e \in Kept(t) /\ e.kind = "file") => Seen(A) = SeenAfter(A)
  <2> SUFFICES ASSUME NEW A, \A e \in A : e \in Kept(t) /\ e.kind = "file", A # {}
               PROVE  Seen(A) = SeenAfter(A)
    OBVIOUS
  <2>1. PICK e : e = CHOOSE x \in A : TRUE
    OBVIOUS
  <2>2. e \in A
    BY <2>1
  <2>3. ContentsIn(sector', e) = ContentsIn(sector, e)
    BY <2>2, ContentsStay
  <2> QED BY <2>1, <2>3
<1>4. \A p : At(p)' = IF p[1] = "root" THEN {e \in RootEntries' : e.kind = "file" /\ e.name = p[2]}
                      ELSE {e \in Nested' : e.kind = "file" /\ e.name = p[2]}
  BY DEF At
<1>5. \A p \in P : p # <<"root", t>> => At(p)' = At(p) /\ \A e \in At(p) : e \in Kept(t) /\ e.kind = "file"
  <2> SUFFICES ASSUME NEW p \in P, p # <<"root", t>>
               PROVE  At(p)' = At(p) /\ \A e \in At(p) : e \in Kept(t) /\ e.kind = "file"
    OBVIOUS
  <2>1. CASE p[1] = "root"
    <3>1. p[2] # t
      BY <2>1
    <3>2. At(p) = {e \in RootEntries : e.kind = "file" /\ e.name = p[2]}
      BY <2>1 DEF At
    <3>3. At(p)' = {e \in RootEntries' : e.kind = "file" /\ e.name = p[2]}
      BY <1>4, <2>1
    <3>4. \A e \in RootEntries : e.name = p[2] => e \notin Replaced(t)
      BY <3>1 DEF Replaced
    <3>5. At(p)' = At(p)
      BY <1>1, <1>2, <3>1, <3>2, <3>3, <3>4
    <3> QED BY <3>2, <3>4, <3>5 DEF Kept
  <2>2. CASE p[1] # "root"
    <3>1. At(p) = {e \in Nested : e.kind = "file" /\ e.name = p[2]}
      BY <2>2 DEF At
    <3> QED BY <1>1, <1>4, <2>2, <3>1 DEF Kept
  <2> QED BY <2>1, <2>2
<1>6. At(<<"root", t>>)' = {new}
  <2>1. At(<<"root", t>>)' = {e \in RootEntries' : e.kind = "file" /\ e.name = t}
    BY <1>4
  <2>2. \A e \in RootEntries \ Replaced(t) : e.name # t
    BY DEF Replaced
  <2> QED BY <1>1, <1>2, <2>1, <2>2
<1>7. Shown = [p \in P |-> Seen(At(p))]
  BY ContentsNow DEF Shown
<1>8. Shown' = [p \in P |-> SeenAfter(At(p)')]
  BY ContentsNow DEF Shown
<1>9. SeenAfter({new}) = Chunks(n, d)
  <2>1. (CHOOSE e \in {new} : TRUE) = new
    OBVIOUS
  <2> QED BY <2>1, ContentsNew
<1>10. \A p \in P : p # <<"root", t>> => SeenAfter(At(p)') = Seen(At(p))
  BY <1>3, <1>5
<1> HIDE DEF Seen, SeenAfter
<1>11. \A p \in P : SeenAfter(At(p)') = IF p = <<"root", t>> THEN Chunks(n, d) ELSE Seen(At(p))
  BY <1>6, <1>9, <1>10
<1> QED BY <1>7, <1>8, <1>11

LEMMA StoreStep ==
  ASSUME DiskInv, Faithful, [WriteDisk]_disk
  PROVE  [Store!Next]_Shown
<1>1. CASE WriteDisk
  <2>1. PICK t \in Spelling, n \in Length, d \in Data : Upsert(t, n, d)
    BY <1>1 DEF WriteDisk
  <2>2. PICK i, c, new : Step(t, n, d, i, c, new)
    BY <2>1, UpsertSteps
  <2>3. Shown' = [Shown EXCEPT ![<<"root", t>>] = Chunks(n, d)]
    BY <2>2, StepStores
  <2>4. <<"root", t>> \in {"root"} \X {Stored[u] : u \in Spelling}
    BY DEF Faithful
  <2>5. Chunks(n, d) \in {Chunks(m, x) : m \in Length, x \in Data \cup {"A", "B", "N"}}
    OBVIOUS
  <2>6. Store!Write(<<"root", t>>, Chunks(n, d))
    BY <2>3 DEF Store!Write
  <2>7. Store!Next
    BY <2>4, <2>5, <2>6 DEF Store!Next
  <2> QED BY <2>7
<1>2. CASE disk' = disk
  <2>1. slot' = slot /\ sector' = sector
    BY <1>2 DEF disk
  <2>2. \A e : Contents(e)' = Contents(e) /\ Within(e)' = Within(e)
    BY <2>1, ContentsNow, ChainsNow
  <2>3. RootEntries' = RootEntries /\ Nested' = Nested
    BY <2>1, <2>2 DEF RootEntries, Subdirectories, Nested, IsLive, Slot
  <2>4. \A p : At(p)' = At(p)
    BY <2>3 DEF At
  <2> DEFINE Seen(m, A) == IF A = {} THEN NoFile ELSE ContentsIn(m, CHOOSE e \in A : TRUE)
  <2>5. Shown = [p \in {"root", "sub"} \X Name |-> Seen(sector, At(p))]
    BY ContentsNow DEF Shown
  <2>6. Shown' = [p \in {"root", "sub"} \X Name |-> Seen(sector', At(p)')]
    BY ContentsNow DEF Shown
  <2> HIDE DEF Seen
  <2>7. Shown' = Shown
    BY <2>1, <2>4, <2>5, <2>6
  <2> QED BY <2>7
<1> QED BY <1>1, <1>2

-----------------------------------------------------------------------------
(* The small disks the checker starts from are sound.                      *)
LEMMA JoinedInjective ==
  ASSUME NEW S, NEW s \in Seq(S), NEW t \in Seq(S), IsInjective(s \o t)
  PROVE  /\ IsInjective(s) /\ IsInjective(t) /\ ToSet(s) \cap ToSet(t) = {}
         /\ s \o t \in Seq(S) /\ ToSet(s) \subseteq ToSet(s \o t) /\ ToSet(t) \subseteq ToSet(s \o t)
<1> DEFINE k == Len(s)
           st == s \o t
<1>1. /\ k \in Nat /\ Len(t) \in Nat /\ st \in Seq(S) /\ DOMAIN s = 1..k /\ DOMAIN t = 1..Len(t)
      /\ DOMAIN st = 1..(k + Len(t))
  OBVIOUS
<1>2. \A x \in DOMAIN s : x \in DOMAIN st /\ st[x] = s[x]
  OBVIOUS
<1>3. \A x \in DOMAIN t : x + k \in DOMAIN st /\ st[x + k] = t[x]
  OBVIOUS
<1>4. \A x, y \in DOMAIN st : st[x] = st[y] => x = y
  BY DEF IsInjective
<1> HIDE DEF st, k
<1>5. IsInjective(s)
  BY <1>2, <1>4 DEF IsInjective
<1>6. IsInjective(t)
  <2> SUFFICES ASSUME NEW x \in DOMAIN t, NEW y \in DOMAIN t, t[x] = t[y] PROVE x = y
    BY DEF IsInjective
  <2>1. x + k = y + k
    BY <1>3, <1>4
  <2> QED BY <1>1, <2>1
<1>7. \A x \in DOMAIN s, y \in DOMAIN t : s[x] # t[y]
  <2> SUFFICES ASSUME NEW x \in DOMAIN s, NEW y \in DOMAIN t, s[x] = t[y] PROVE FALSE
    OBVIOUS
  <2>1. x = y + k
    BY <1>2, <1>3, <1>4
  <2> QED BY <1>1, <2>1
<1>8. ToSet(s) \cap ToSet(t) = {}
  BY <1>7 DEF ToSet
<1>9. ToSet(s) \subseteq ToSet(st) /\ ToSet(t) \subseteq ToSet(st)
  BY <1>2, <1>3 DEF ToSet
<1> QED BY <1>1, <1>5, <1>6, <1>8, <1>9 DEF st

LEMMA OldChain ==
  ASSUME NEW m, NEW name, NEW c \in Seq(Linkable), IsInjective(c), c # <<>>,
         \A s \in ToSet(c) : m[s] = Old(name, c, s)
  PROVE  \A label : /\ ExtentIn(m, File(label, c)) = ToSet(c) /\ ReadableIn(m, File(label, c))
                    /\ ContentsIn(m, File(label, c)) = Chunks(Len(c), name)
<1> DEFINE n == Len(c)
<1>1. n \in Nat /\ DOMAIN c = 1..n /\ c = [x \in 1..n |-> c[x]] /\ ToSet(c) = {c[x] : x \in 1..n}
  BY DEF ToSet
<1>2. \A x, y \in 1..n : c[x] = c[y] => x = y
  BY <1>1 DEF IsInjective
<1>3. ToSet(c) \subseteq Sector
  BY <1>1 DEF Linkable, DataSector
<1>4. ASSUME NEW x \in 1..n
      PROVE  m[c[x]].next = (IF x = n THEN 0 ELSE c[x + 1]) /\ m[c[x]].chunk = <<name, x>>
  <2>1. PICK z : z = Position(c[x], c)
    OBVIOUS
  <2>2. z \in 1..n /\ c[z] = c[x]
    BY <1>1, <2>1 DEF Position
  <2>3. z = x
    BY <1>2, <2>2
  <2>4. PICK nx, ck, em : nx = (IF x = n THEN 0 ELSE c[x + 1]) /\ ck = <<name, x>> /\ em = <<>>
    OBVIOUS
  <2>5. m[c[x]] = [next |-> nx, chunk |-> ck, entries |-> em]
    <3>1. c[x] \in ToSet(c)
      BY <1>1
    <3>2. m[c[x]] = [next |-> IF z = n THEN 0 ELSE c[z + 1], chunk |-> <<name, z>>, entries |-> <<>>]
      BY <2>1, <3>1 DEF Old
    <3> QED BY <2>3, <2>4, <3>2
  <2> QED BY <2>4, <2>5
<1> HIDE DEF n
<1>5. Follows(m, c[1], n, c)
  <2>1. \A x \in 1..n : c[x] = IF x = 1 THEN c[1] ELSE HopIn(m, c[x - 1])
    <3> SUFFICES ASSUME NEW x \in 1..n, x # 1 PROVE c[x] = HopIn(m, c[x - 1])
      OBVIOUS
    <3> DEFINE y == x - 1
    <3>1. y \in 1..n /\ y # n /\ y + 1 = x
      BY <1>1
    <3> HIDE DEF y
    <3>2. c[y] \in Sector
      BY <1>1, <1>3, <3>1
    <3>3. m[c[y]].next = c[x]
      BY <1>4, <3>1
    <3>4. HopIn(m, c[y]) = c[x]
      BY <3>2, <3>3 DEF HopIn
    <3> QED BY <3>4 DEF y
  <2>2. c = [x \in 1..n |-> IF x = 1 THEN c[1] ELSE HopIn(m, c[x - 1])]
    BY <1>1, <2>1
  <2> QED BY <2>2 DEF Follows
<1>6. ASSUME NEW label
      PROVE  /\ ExtentIn(m, File(label, c)) = ToSet(c) /\ ReadableIn(m, File(label, c))
             /\ ContentsIn(m, File(label, c)) = Chunks(n, name)
  <2>1. PICK e : e = File(label, c)
    OBVIOUS
  <2>2. e.kind = "file" /\ e.start = c[1] /\ e.count = n
    BY <2>1 DEF File, n
  <2>3. Follows(m, c[1], n, ChainIn(m, e))
    BY <1>1, <2>2, ChainFollows
  <2>4. PICK start, h : start = c[1] /\ h = ChainIn(m, e)
    OBVIOUS
  <2>5. Follows(m, start, n, c) /\ Follows(m, start, n, h)
    BY <1>5, <2>3, <2>4
  <2>6. h = c
    BY <1>1, <2>5, FollowsOnce
  <2>7. ExtentIn(m, e) = ToSet(c) /\ ReadableIn(m, e)
    BY <1>3, <2>2, <2>4, <2>6 DEF ExtentIn, ReadableIn
  <2>8. ContentsIn(m, e) = Chunks(n, name)
    <3>1. ContentsIn(m, e) = [x \in 1..n |-> m[c[x]].chunk]
      BY <2>2, <2>4, <2>6 DEF ContentsIn
    <3>2. \A x \in 1..n : m[c[x]].chunk = <<name, x>>
      BY <1>4
    <3> QED BY <3>1, <3>2 DEF Chunks
  <2> QED BY <2>1, <2>7, <2>8
<1> QED BY <1>6 DEF n

(* The pieces of such a disk. *)
Starting(A, B, N, D) ==
  /\ A \in ChainSeqs /\ B \in ChainSeqs /\ N \in ChainSeqs /\ D \in {<<>>} \cup {<<s>> : s \in Linkable}
  /\ IsInjective(A \o B \o N \o D)
  /\ \E order \in SetToSeqs(Occupied(A, B, D)), rest \in {Blank, Deleted} :
       slot = [i \in Slot |-> IF i > Len(order) THEN rest ELSE Thing(A, B, D, order[i])]
  /\ sector = [s \in Sector |-> Holds(A, B, N, D, s)]

LEMMA AnyDiskStarts == AnyDisk => \E A, B, N, D : Starting(A, B, N, D)
<1> SUFFICES ASSUME AnyDisk PROVE \E A, B, N, D : Starting(A, B, N, D)
  OBVIOUS
<1>1. PICK A, B, N \in ChainSeqs, D \in {<<>>} \cup {<<s>> : s \in Linkable} : Laid(A, B, N, D)
  BY DEF AnyDisk
<1>2. /\ IsInjective(A \o B \o N \o D)
      /\ \E order \in SetToSeqs(Occupied(A, B, D)), rest \in {Blank, Deleted} :
           slot = [i \in Slot |-> IF i > Len(order) THEN rest ELSE Thing(A, B, D, order[i])]
      /\ sector = [s \in Sector |-> Holds(A, B, N, D, s)]
  BY <1>1 DEF Laid
<1> QED BY <1>2 DEF Starting

LEMMA ChainSeqsType ==
  ASSUME NEW A \in ChainSeqs
  PROVE  A \in Seq(Linkable) /\ (A # <<>> => Len(A) \in {1, 2})
<1>1. CASE A = <<>>
  BY <1>1
<1>2. ASSUME NEW s \in Linkable, A = <<s>> PROVE A \in Seq(Linkable) /\ Len(A) \in {1, 2}
  BY <1>2
<1>3. ASSUME NEW s \in Linkable, NEW t \in Linkable, A = <<s, t>>
      PROVE  A \in Seq(Linkable) /\ Len(A) \in {1, 2}
  BY <1>3
<1>4. \/ A = <<>>
      \/ \E s \in Linkable : A = <<s>>
      \/ \E s, t \in Linkable : A = <<s, t>>
  BY DEF ChainSeqs
<1> QED BY <1>1, <1>2, <1>3, <1>4

LEMMA StartingSlots ==
  ASSUME NEW A, NEW B, NEW N, NEW D, Starting(A, B, N, D)
  PROVE  /\ slot = [i \in Slot |-> slot[i]]
         /\ \A i \in Slot : IsLive(slot[i]) => \E k \in Occupied(A, B, D) : slot[i] = Thing(A, B, D, k)
         /\ \A i, j \in Slot : i # j /\ IsLive(slot[i]) /\ IsLive(slot[j]) =>
              \E k, l \in Occupied(A, B, D) : k # l /\ slot[i] = Thing(A, B, D, k) /\ slot[j] = Thing(A, B, D, l)
<1> DEFINE W == Occupied(A, B, D)
           n == Cardinality(W)
<1>1. PICK order \in SetToSeqs(W), rest \in {Blank, Deleted} :
        slot = [i \in Slot |-> IF i > Len(order) THEN rest
                               ELSE Thing(A, B, D, order[i])]
  BY DEF Starting
<1>2. n \in Nat
  <2>1. IsFiniteSet(1..3)
    BY FS_Interval, 1 \in Int, 3 \in Int
  <2>3. W \in SUBSET (1..3)
    BY DEF Occupied
  <2>2. IsFiniteSet(W)
    BY <2>1, <2>3, FS_Subset
  <2> QED BY <2>2, FS_CardinalityType
<1>3. order \in [1..n -> W] /\ \A x, y \in 1..n : x # y => order[x] # order[y]
  BY DEF SetToSeqs
<1>4. Len(order) = n
  BY <1>2, <1>3
<1>5. ~IsLive(rest)
  <2>1. Blank.kind = "empty"
    BY DEF Blank
  <2>2. Deleted.kind = "deleted"
    BY DEF Deleted
  <2>3. rest.kind \in {"empty", "deleted"}
    BY <2>1, <2>2
  <2> QED BY <2>3 DEF IsLive
<1>6. \A i \in Slot : slot[i] = IF i > n THEN rest ELSE Thing(A, B, D, order[i])
  BY <1>1, <1>4
<1>7. slot = [i \in Slot |-> slot[i]]
  BY <1>1
<1> HIDE DEF W, n
<1>8. \A i \in Slot : IsLive(slot[i]) => i \in 1..n /\ slot[i] = Thing(A, B, D, order[i])
  BY <1>2, <1>5, <1>6, DiskAssumption DEF Slot
<1>9. \A i \in 1..n : order[i] \in W
  BY <1>3
<1>10. \A i \in Slot : IsLive(slot[i]) => \E k \in W : slot[i] = Thing(A, B, D, k)
  BY <1>8, <1>9
<1>11. \A i, j \in Slot : i # j /\ IsLive(slot[i]) /\ IsLive(slot[j]) =>
         \E k, l \in W : k # l /\ slot[i] = Thing(A, B, D, k) /\ slot[j] = Thing(A, B, D, l)
  BY <1>3, <1>8, <1>9
<1> QED BY <1>7, <1>10, <1>11 DEF W

(* Where its pieces are. *)
Region(A, B, D, k) == CASE k = 1 -> ToSet(A) [] k = 2 -> ToSet(B) [] k = 3 -> ToSet(D)
Label(k) == CASE k = 1 -> "A" [] k = 2 -> "B" [] k = 3 -> "D"
OldContents == {Chunks(n, x) : n \in {1, 2}, x \in {"A", "B", "N"}}

LEMMA StartingPieces ==
  ASSUME NEW A, NEW B, NEW N, NEW D, Starting(A, B, N, D)
  PROVE  /\ ToSet(A) \cap ToSet(B) = {} /\ ToSet(A) \cap ToSet(N) = {} /\ ToSet(A) \cap ToSet(D) = {}
         /\ ToSet(B) \cap ToSet(N) = {} /\ ToSet(B) \cap ToSet(D) = {} /\ ToSet(N) \cap ToSet(D) = {}
         /\ \A c \in {A, B, N, D} : c \in Seq(Linkable) /\ IsInjective(c)
<1>1. A \in Seq(Linkable) /\ B \in Seq(Linkable) /\ N \in Seq(Linkable) /\ D \in Seq(Linkable)
  <2>1. D \in ChainSeqs
    BY DEF Starting, ChainSeqs
  <2> QED BY <2>1, ChainSeqsType DEF Starting
<1> DEFINE AB == A \o B
           ABN == AB \o N
<1>2. IsInjective(ABN \o D)
  BY DEF Starting
<1>3. AB \in Seq(Linkable) /\ ABN \in Seq(Linkable)
  BY <1>1
<1> HIDE DEF ABN
<1>4. IsInjective(ABN) /\ IsInjective(D) /\ ToSet(ABN) \cap ToSet(D) = {}
  BY <1>1, <1>2, <1>3, JoinedInjective
<1>5. IsInjective(AB \o N)
  BY <1>4 DEF ABN
<1> HIDE DEF AB
<1>6. IsInjective(AB) /\ IsInjective(N) /\ ToSet(AB) \cap ToSet(N) = {} /\ ToSet(AB) \subseteq ToSet(AB \o N)
      /\ ToSet(N) \subseteq ToSet(AB \o N)
  BY <1>1, <1>3, <1>5, JoinedInjective
<1>7. IsInjective(A \o B)
  BY <1>6 DEF AB
<1>8. IsInjective(A) /\ IsInjective(B) /\ ToSet(A) \cap ToSet(B) = {} /\ ToSet(A) \subseteq ToSet(A \o B)
      /\ ToSet(B) \subseteq ToSet(A \o B)
  BY <1>1, <1>7, JoinedInjective
<1>9. ToSet(A) \subseteq ToSet(AB) /\ ToSet(B) \subseteq ToSet(AB)
  BY <1>8 DEF AB
<1>10. ToSet(AB) \subseteq ToSet(ABN) /\ ToSet(N) \subseteq ToSet(ABN)
  BY <1>6 DEF ABN
<1> QED BY <1>1, <1>4, <1>6, <1>8, <1>9, <1>10

LEMMA StartingChains ==
  ASSUME NEW A, NEW B, NEW N, NEW D, Starting(A, B, N, D)
  PROVE  /\ \A k \in Occupied(A, B, D) :
              LET e == Thing(A, B, D, k) IN
              /\ ExtentIn(sector, e) = Region(A, B, D, k) /\ ReadableIn(sector, e) /\ e.count \in Nat
              /\ e.kind = "file" => ContentsIn(sector, e) \in OldContents
              /\ e.kind = "directory" => k = 3
              /\ e.name = Label(k)
         /\ \A f \in Nested :
              /\ f = File("A", N) /\ f.count \in Nat
              /\ ExtentIn(sector, f) = ToSet(N) /\ ReadableIn(sector, f)
              /\ ContentsIn(sector, f) \in OldContents
<1>1. /\ ToSet(A) \cap ToSet(B) = {} /\ ToSet(A) \cap ToSet(N) = {} /\ ToSet(A) \cap ToSet(D) = {}
      /\ ToSet(B) \cap ToSet(N) = {} /\ ToSet(B) \cap ToSet(D) = {} /\ ToSet(N) \cap ToSet(D) = {}
      /\ \A c \in {A, B, N, D} : c \in Seq(Linkable) /\ IsInjective(c)
  BY StartingPieces
<1>2. \A c \in {A, B, N, D} : ToSet(c) \subseteq Linkable
  BY <1>1 DEF ToSet
<1>3. Linkable \subseteq Sector
  BY DEF Linkable, DataSector
<1>4. \A s \in Sector : sector[s] = Holds(A, B, N, D, s)
  BY DEF Starting
<1>5. /\ \A s \in ToSet(A) : sector[s] = Old("A", A, s)
      /\ \A s \in ToSet(B) : sector[s] = Old("B", B, s)
      /\ \A s \in ToSet(N) : sector[s] = Old("N", N, s)
      /\ \A s \in ToSet(D) : sector[s] = [Unused EXCEPT !.entries = IF N = <<>> THEN <<>> ELSE <<File("A", N)>>]
  <2>1. \A s \in ToSet(A) \cup ToSet(B) \cup ToSet(N) \cup ToSet(D) : s \in Sector
    BY <1>2, <1>3
  <2>2. \A s \in ToSet(A) : Holds(A, B, N, D, s) = Old("A", A, s)
    BY <1>1 DEF Holds
  <2>3. \A s \in ToSet(B) : Holds(A, B, N, D, s) = Old("B", B, s)
    BY <1>1 DEF Holds
  <2>4. \A s \in ToSet(N) : Holds(A, B, N, D, s) = Old("N", N, s)
    BY <1>1 DEF Holds
  <2>5. \A s \in ToSet(D) : Holds(A, B, N, D, s) = [Unused EXCEPT !.entries = IF N = <<>> THEN <<>> ELSE <<File("A", N)>>]
    BY <1>1 DEF Holds
  <2> QED BY <1>4, <2>1, <2>2, <2>3, <2>4, <2>5
<1>6. \A c \in {A, B, N} : c \in ChainSeqs /\ (c # <<>> => Len(c) \in {1, 2})
  BY ChainSeqsType DEF Starting
<1>7. A # <<>> => \A label : /\ ExtentIn(sector, File(label, A)) = ToSet(A) /\ ReadableIn(sector, File(label, A))
                            /\ ContentsIn(sector, File(label, A)) = Chunks(Len(A), "A")
  BY <1>1, <1>5, OldChain
<1>8. B # <<>> => \A label : /\ ExtentIn(sector, File(label, B)) = ToSet(B) /\ ReadableIn(sector, File(label, B))
                            /\ ContentsIn(sector, File(label, B)) = Chunks(Len(B), "B")
  BY <1>1, <1>5, OldChain
<1>9. N # <<>> => \A label : /\ ExtentIn(sector, File(label, N)) = ToSet(N) /\ ReadableIn(sector, File(label, N))
                            /\ ContentsIn(sector, File(label, N)) = Chunks(Len(N), "N")
  BY <1>1, <1>5, OldChain
<1>10. /\ A # <<>> => Chunks(Len(A), "A") \in OldContents
       /\ B # <<>> => Chunks(Len(B), "B") \in OldContents
       /\ N # <<>> => Chunks(Len(N), "N") \in OldContents
  <2>1. \A n \in {1, 2}, x \in {"A", "B", "N"} : Chunks(n, x) \in OldContents
    BY DEF OldContents
  <2> QED BY <1>6, <2>1
<1>11. ASSUME D # <<>>
       PROVE  LET e == Subdirectory(D[1]) IN
              ExtentIn(sector, e) = ToSet(D) /\ ReadableIn(sector, e) /\ e.count \in Nat
              /\ e.kind = "directory" /\ e.name = "D"
  <2>1. PICK s \in Linkable : D = <<s>>
    BY <1>11 DEF Starting
  <2>2. D[1] = s /\ ToSet(D) = {s} /\ s \in Nat /\ s \in Sector
    BY <1>3, <2>1, DiskAssumption DEF ToSet, Sector
  <2>3. PICK e : e = Subdirectory(D[1])
    OBVIOUS
  <2>4. e.kind = "directory" /\ e.name = "D" /\ e.start = s /\ e.count = 1
    BY <2>2, <2>3 DEF Subdirectory
  <2>5. ExtentIn(sector, e) = {s}
    <3>1. ExtentIn(sector, e) = {s + x : x \in 0..(1 - 1)}
      BY <2>4 DEF ExtentIn
    <3> QED BY <2>2, <3>1
  <2>6. ReadableIn(sector, e)
    BY <2>2, <2>4, <2>5 DEF ReadableIn
  <2> QED BY <2>2, <2>3, <2>4, <2>5, <2>6
<1>12. \A label, c : File(label, c).kind = "file" /\ File(label, c).name = label /\ File(label, c).count = Len(c)
  BY DEF File
<1>13. ASSUME NEW k \in Occupied(A, B, D)
       PROVE  LET e == Thing(A, B, D, k) IN
              /\ ExtentIn(sector, e) = Region(A, B, D, k) /\ ReadableIn(sector, e) /\ e.count \in Nat
              /\ e.kind = "file" => ContentsIn(sector, e) \in OldContents
              /\ e.kind = "directory" => k = 3
              /\ e.name = Label(k)
  <2>1. k \in 1..3 /\ (k = 1 => A # <<>>) /\ (k = 2 => B # <<>>) /\ (k = 3 => D # <<>>)
    BY DEF Occupied
  <2>2. k = 1 \/ k = 2 \/ k = 3
    BY <2>1
  <2>3. CASE k = 1
    <3>1. Thing(A, B, D, k) = File("A", A) /\ Region(A, B, D, k) = ToSet(A)
      BY <2>3 DEF Thing, Region
    <3> QED BY <1>1, <1>7, <1>10, <1>12, <2>1, <2>3, <3>1 DEF Label
  <2>4. CASE k = 2
    <3>1. Thing(A, B, D, k) = File("B", B) /\ Region(A, B, D, k) = ToSet(B)
      BY <2>4 DEF Thing, Region
    <3> QED BY <1>1, <1>8, <1>10, <1>12, <2>1, <2>4, <3>1 DEF Label
  <2>5. CASE k = 3
    <3>1. Thing(A, B, D, k) = Subdirectory(D[1]) /\ Region(A, B, D, k) = ToSet(D)
      BY <2>5 DEF Thing, Region
    <3> QED BY <1>11, <2>1, <2>5, <3>1 DEF Label
  <2> QED BY <2>2, <2>3, <2>4, <2>5
<1>14. ASSUME NEW f \in Nested
       PROVE  f = File("A", N) /\ N # <<>>
  <2>1. PICK e \in Subdirectories : f \in WithinIn(sector, e)
    BY ChainsNow DEF Nested
  <2>2. PICK k \in Occupied(A, B, D) : e = Thing(A, B, D, k)
    BY <2>1, StartingSlots DEF Subdirectories, RootEntries
  <2>3. e.kind = "directory"
    BY <2>1 DEF Subdirectories
  <2>4. k = 3
    BY <1>13, <2>2, <2>3
  <2>5. ExtentIn(sector, e) = ToSet(D)
    BY <1>13, <2>2, <2>4 DEF Region
  <2>6. PICK s \in ToSet(D) : f \in ToSet(sector[s].entries)
    BY <2>1, <2>5 DEF WithinIn
  <2>7. sector[s].entries = IF N = <<>> THEN <<>> ELSE <<File("A", N)>>
    BY <1>5 DEF Unused
  <2>8. ToSet(<<>>) = {} /\ ToSet(<<File("A", N)>>) = {File("A", N)}
    BY DEF ToSet
  <2> QED BY <2>6, <2>7, <2>8
<1>15. \A f \in Nested :
         /\ f = File("A", N) /\ f.count \in Nat
         /\ ExtentIn(sector, f) = ToSet(N) /\ ReadableIn(sector, f)
         /\ ContentsIn(sector, f) \in OldContents
  BY <1>1, <1>9, <1>10, <1>12, <1>14
<1> QED BY <1>13, <1>15

LEMMA AnyDiskSound ==
  ASSUME AnyDisk
  PROVE  /\ DiskInv
         /\ \A p \in {"root", "sub"} \X Name : \A e \in At(p) : Contents(e) \in OldContents
<1>1. PICK A, B, N, D : Starting(A, B, N, D)
  BY AnyDiskStarts
<1> DEFINE W == Occupied(A, B, D)
           Th(k) == Thing(A, B, D, k)
           Re(k) == Region(A, B, D, k)
           Na(k) == Label(k)
<1>2. /\ slot = [i \in Slot |-> slot[i]]
      /\ \A i \in Slot : IsLive(slot[i]) => \E k \in W : slot[i] = Th(k)
      /\ \A i, j \in Slot : i # j /\ IsLive(slot[i]) /\ IsLive(slot[j]) =>
           \E k, l \in W : k # l /\ slot[i] = Th(k) /\ slot[j] = Th(l)
  BY <1>1, StartingSlots
<1>3. \A k \in W : /\ Extent(Th(k)) = Re(k) /\ Readable(Th(k)) /\ Th(k).count \in Nat
                   /\ Th(k).kind = "file" => Contents(Th(k)) \in OldContents
                   /\ Th(k).name = Na(k)
  <2> TAKE k \in W
  <2>0. LET e == Thing(A, B, D, k) IN
        /\ ExtentIn(sector, e) = Region(A, B, D, k) /\ ReadableIn(sector, e) /\ e.count \in Nat
        /\ e.kind = "file" => ContentsIn(sector, e) \in OldContents
        /\ e.kind = "directory" => k = 3
        /\ e.name = Label(k)
    <3>1. k \in Occupied(A, B, D)
      OBVIOUS
    <3> HIDE DEF W
    <3> QED BY <1>1, <3>1, StartingChains
  <2>1. PICK e : e = Th(k)
    OBVIOUS
  <2>2. /\ ExtentIn(sector, e) = Re(k) /\ ReadableIn(sector, e) /\ e.count \in Nat
        /\ e.kind = "file" => ContentsIn(sector, e) \in OldContents
        /\ e.name = Na(k)
    BY <2>0, <2>1
  <2>3. Extent(e) = ExtentIn(sector, e) /\ Readable(e) = ReadableIn(sector, e) /\ Contents(e) = ContentsIn(sector, e)
    BY ChainsNow, ContentsNow
  <2> HIDE DEF Th, Re, Na
  <2> QED BY <2>1, <2>2, <2>3
<1>4. \A f \in Nested : /\ f = File("A", N) /\ f.count \in Nat /\ Extent(f) = ToSet(N) /\ Readable(f)
                        /\ Contents(f) \in OldContents
  BY <1>1, StartingChains, ChainsNow, ContentsNow
<1>5. /\ ToSet(A) \cap ToSet(B) = {} /\ ToSet(A) \cap ToSet(N) = {} /\ ToSet(A) \cap ToSet(D) = {}
      /\ ToSet(B) \cap ToSet(N) = {} /\ ToSet(B) \cap ToSet(D) = {} /\ ToSet(N) \cap ToSet(D) = {}
      /\ \A c \in {A, B, N, D} : c \in Seq(Linkable) /\ IsInjective(c)
  BY <1>1, StartingPieces
<1>6. \A c \in {A, B, N, D} : ToSet(c) \subseteq Linkable
  BY <1>5 DEF ToSet
<1>7. Linkable \cap Reserved = {}
  BY DEF Linkable, DataSector
<1>8. \A k \in W : k = 1 \/ k = 2 \/ k = 3
  BY DEF Occupied
<1>9. \A k, l \in W : k # l => Re(k) \cap Re(l) = {} /\ Na(k) # Na(l)
  BY <1>5, <1>8 DEF Region, Label
<1>10. \A k \in W : Re(k) \subseteq Linkable /\ Re(k) \cap ToSet(N) = {}
  BY <1>5, <1>6, <1>8 DEF Region
<1> HIDE DEF W, Th, Re, Na
<1>11. \A e \in RootEntries : \E k \in W : e = Th(k)
  BY <1>2 DEF RootEntries
<1>12. DiskTypeOK
  BY <1>2, <1>3, <1>4, <1>11 DEF DiskTypeOK, Live
<1>13. NamesUnique
  BY <1>2, <1>3, <1>9 DEF NamesUnique
<1>14. ChainsDisjoint
  <2>1. \A e \in Live : Readable(e) /\ Extent(e) \cap Reserved = {}
    <3> SUFFICES ASSUME NEW e \in Live PROVE Readable(e) /\ Extent(e) \cap Reserved = {}
      OBVIOUS
    <3>1. CASE e \in RootEntries
      BY <1>3, <1>7, <1>10, <1>11, <3>1
    <3>2. CASE e \in Nested
      BY <1>4, <1>6, <1>7, <3>2
    <3> QED BY <3>1, <3>2 DEF Live
  <2>2. \A i, j \in Slot : i # j /\ IsLive(slot[i]) /\ IsLive(slot[j]) =>
          Extent(slot[i]) \cap Extent(slot[j]) = {}
    <3> SUFFICES ASSUME NEW i \in Slot, NEW j \in Slot, i # j, IsLive(slot[i]), IsLive(slot[j])
                 PROVE  Extent(slot[i]) \cap Extent(slot[j]) = {}
      OBVIOUS
    <3>1. PICK k \in W, l \in W : k # l /\ slot[i] = Th(k) /\ slot[j] = Th(l)
      BY <1>2
    <3> QED BY <1>3, <1>9, <3>1
  <2>3. \A e \in RootEntries, f \in Nested : Extent(e) \cap Extent(f) = {}
    BY <1>3, <1>4, <1>10, <1>11
  <2>4. \A e, f \in Nested : e # f => Extent(e) \cap Extent(f) = {}
    BY <1>4
  <2> QED BY <2>1, <2>2, <2>3, <2>4 DEF ChainsDisjoint
<1>15. ASSUME NEW p \in {"root", "sub"} \X Name, NEW e \in At(p) PROVE Contents(e) \in OldContents
  <2>1. (e \in RootEntries \/ e \in Nested) /\ e.kind = "file"
    BY DEF At
  <2> QED BY <1>3, <1>4, <1>11, <2>1
<1> QED BY <1>12, <1>13, <1>14, <1>15 DEF DiskInv

(* To its readers the image is a store of whole files, from every disk the *)
(* checker starts from, on any number of sectors.                          *)
THEOREM RefinesFileStoreCorrect ==
  Faithful /\ {1, 2} \subseteq Length /\ FilesSpec => RefinesFileStore
<1> DEFINE Inv == OnDisk => DiskInv
<1>1. {1, 2} \subseteq Length /\ FilesInit => Inv /\ (OnDisk => Store!Init)
  <2> SUFFICES ASSUME {1, 2} \subseteq Length, FilesInit, OnDisk PROVE DiskInv /\ Store!Init
    OBVIOUS
  <2>1. AnyDisk
    BY DEF FilesInit, OnDisk
  <2>2. DiskInv /\ \A p \in {"root", "sub"} \X Name : \A e \in At(p) : Contents(e) \in OldContents
    BY <2>1, AnyDiskSound
  <2> DEFINE Whole == {Chunks(n, d) : n \in Length, d \in Data \cup {"A", "B", "N"}}
  <2>3. OldContents \subseteq Whole
    BY DEF OldContents
  <2> HIDE DEF Whole
  <2>4. Shown \in [{"root", "sub"} \X Name -> Whole \cup {NoFile}]
    <3>1. \A p \in {"root", "sub"} \X Name : At(p) # {} => Contents(CHOOSE e \in At(p) : TRUE) \in Whole
      <4> SUFFICES ASSUME NEW p \in {"root", "sub"} \X Name, At(p) # {}
                   PROVE  Contents(CHOOSE e \in At(p) : TRUE) \in Whole
        OBVIOUS
      <4>1. PICK e : e = CHOOSE x \in At(p) : TRUE
        OBVIOUS
      <4>2. e \in At(p)
        BY <4>1
      <4>3. Contents(e) \in Whole
        BY <2>2, <2>3, <4>2
      <4> QED BY <4>1, <4>3
    <3> QED BY <3>1 DEF Shown
  <2>5. Store!Init
    BY <2>4 DEF Store!Init, Whole
  <2> QED BY <2>2, <2>5
<1>2. Faithful /\ Inv /\ [FilesNext]_<<loader, vars, disk, serial, family>> => Inv' /\ [OnDisk => Store!Next]_Shown
  <2> SUFFICES ASSUME Faithful, Inv, [FilesNext]_<<loader, vars, disk, serial, family>>
               PROVE  Inv' /\ [OnDisk => Store!Next]_Shown
    OBVIOUS
  <2>1. family' = family /\ OnDisk' = OnDisk
    BY DEF FilesNext, OnDisk
  <2>2. CASE OnDisk
    <3>1. [WriteDisk]_disk
      BY <2>2 DEF FilesNext, OnDisk
    <3>2. DiskInv
      BY <2>2
    <3> QED BY <2>1, <3>1, <3>2, DiskStep, StoreStep
  <2>3. CASE ~OnDisk
    BY <2>1, <2>3
  <2> QED BY <2>2, <2>3
<1>3. Faithful => Faithful'
  BY DEF Faithful
<1> QED BY <1>1, <1>2, <1>3, PTL DEF FilesSpec, RefinesFileStore
=============================================================================

--------------------------- MODULE FlowGraphProofs ---------------------------
(***************************************************************************)
(* The walk over the blocks of any routine: it reaches the entry and what  *)
(* follows from it and no other block, lists each once, and where there    *)
(* are no loops a block comes after all that follow from it.               *)
(***************************************************************************)
EXTENDS FlowGraph, FiniteSetTheorems, WellFoundedInduction, TLAPS

CONSTANT Node

Blocks == Node \subseteq Int /\ IsFiniteSet(Node)

-----------------------------------------------------------------------------
(* Induction, from the well-founded order on the natural numbers.          *)
LEMMA LessWellFounded ==
  \E R : IsWellFoundedOn(R, Nat) /\ \A x, y \in Nat : y < x => <<y, x>> \in R
<1>1. PICK R : R = OpToRel(<, Nat)
  OBVIOUS
<1>2. IsWellFoundedOn(R, Nat)
  BY <1>1, NatLessThanWellFounded, Zenon
<1>3. ASSUME NEW x \in Nat, NEW y \in Nat, y < x PROVE <<y, x>> \in R
  <2>1. R = {ss \in Nat \X Nat : ss[1] < ss[2]}
    BY <1>1 DEF OpToRel
  <2> QED BY <1>3, <2>1
<1> QED BY <1>2, <1>3

LEMMA LeastNumber ==
  ASSUME NEW T \in SUBSET Nat, T # {}
  PROVE  \E x \in T : \A y \in T : x <= y
<1>1. PICK R : IsWellFoundedOn(R, Nat) /\ \A x, y \in Nat : y < x => <<y, x>> \in R
  BY LessWellFounded
<1>2. PICK x \in T : \A y \in T : ~(<<y, x>> \in R)
  BY <1>1, WFMin, Zenon
<1>3. \A y \in T : ~(y < x)
  BY <1>1, <1>2
<1> QED BY <1>2, <1>3

LEMMA UpTo ==
  ASSUME NEW c \in Nat, NEW T, 0 \in T, \A k \in 1..c : k - 1 \in T => k \in T
  PROVE  0..c \subseteq T
<1> SUFFICES ASSUME (0..c) \ T # {} PROVE FALSE
  OBVIOUS
<1>1. PICK x \in (0..c) \ T : \A y \in (0..c) \ T : x <= y
  BY LeastNumber, (0..c) \ T \in SUBSET Nat
<1>2. x \in 1..c /\ x - 1 \in 0..c /\ x - 1 < x
  BY <1>1
<1>3. x - 1 \in T
  BY <1>1, <1>2
<1> QED BY <1>1, <1>2, <1>3

-----------------------------------------------------------------------------
(* Recursive functions, a step at a time.                                  *)
Stage(F, f, k, x) == IF k = 0 THEN x ELSE F[<<k, f[k - 1]>>]

Iteration(f, n, D, x, F) ==
  /\ f = [k \in 0..n |-> Stage(F, f, k, x)]
  /\ \A k \in 0..n : f[k] \in D

LEMMA Iterates ==
  ASSUME NEW n \in Nat, NEW D, NEW x \in D, NEW F, \A k \in 1..n, d \in D : F[<<k, d>>] \in D
  PROVE  \E f : Iteration(f, n, D, x, F)
<1> DEFINE Good(f, m) == /\ f = [k \in 0..n |-> f[k]]
                         /\ \A k \in 0..m : f[k] = Stage(F, f, k, x) /\ f[k] \in D
           T == {m \in 0..n : \E f : Good(f, m)}
<1>1. 0 \in T
  <2> DEFINE f == [k \in 0..n |-> x]
  <2>1. f = [k \in 0..n |-> f[k]] /\ f[0] = x
    OBVIOUS
  <2> HIDE DEF f
  <2>2. Good(f, 0)
    BY <2>1 DEF Stage
  <2> HIDE DEF Good
  <2> QED BY <2>2
<1>2. ASSUME NEW m \in 1..n, m - 1 \in T PROVE m \in T
  <2>1. PICK f : Good(f, m - 1)
    BY <1>2
  <2> DEFINE y == F[<<m, f[m - 1]>>]
             g == [k \in 0..n |-> IF k = m THEN y ELSE f[k]]
  <2>2. f[m - 1] \in D
    <3>1. m - 1 \in 0..(m - 1)
      BY <1>2
    <3> QED BY <2>1, <3>1
  <2>3. y \in D
    BY <2>2
  <2> HIDE DEF y
  <2>4. g = [k \in 0..n |-> g[k]] /\ g[m] = y /\ \A k \in 0..(m - 1) : g[k] = f[k]
    OBVIOUS
  <2> HIDE DEF g
  <2>5. ASSUME NEW k \in 0..m PROVE g[k] = Stage(F, g, k, x) /\ g[k] \in D
    <3>1. CASE k = m
      <4>1. g[k - 1] = f[m - 1] /\ k # 0
        BY <2>4, <3>1, SMTT(60)
      <4> QED BY <2>3, <2>4, <3>1, <4>1 DEF Stage, y
    <3>2. CASE k # m
      <4>1. k \in 0..(m - 1) /\ (k # 0 => k - 1 \in 0..(m - 1))
        BY <3>2
      <4>2. g[k] = f[k] /\ (k # 0 => g[k - 1] = f[k - 1])
        BY <2>4, <4>1
      <4>3. f[k] = Stage(F, f, k, x) /\ f[k] \in D
        BY <2>1, <4>1
      <4> QED BY <4>2, <4>3 DEF Stage
    <3> QED BY <3>1, <3>2
  <2>6. Good(g, m)
    BY <2>4, <2>5
  <2> HIDE DEF Good
  <2> QED BY <2>6
<1>3. n \in T
  <2> HIDE DEF T
  <2>1. 0..n \subseteq T
    BY <1>1, <1>2, UpTo
  <2> QED BY <2>1
<1>4. PICK f : Good(f, n)
  BY <1>3
<1>5. f = [k \in 0..n |-> Stage(F, f, k, x)]
  <2>1. f = [k \in 0..n |-> f[k]] /\ \A k \in 0..n : f[k] = Stage(F, f, k, x)
    BY <1>4
  <2>2. [k \in 0..n |-> f[k]] = [k \in 0..n |-> Stage(F, f, k, x)]
    BY <2>1
  <2> QED BY <2>1, <2>2
<1> QED BY <1>4, <1>5 DEF Iteration

(* As many steps as a set has members take a growing subset to a fixpoint. *)
LEMMA Saturates ==
  ASSUME NEW S, IsFiniteSet(S), NEW F \in [SUBSET S -> SUBSET S],
         \A P, Q \in SUBSET S : P \subseteq Q => F[P] \subseteq F[Q],
         NEW T, T[0] \in SUBSET S, T[0] \subseteq F[T[0]],
         \A k \in 1..Cardinality(S) : T[k] = F[T[k - 1]]
  PROVE  F[T[Cardinality(S)]] = T[Cardinality(S)]
<1> DEFINE n == Cardinality(S)
<1>0. n \in Nat
  BY FS_CardinalityType
<1> DEFINE M == {k \in 0..n : T[k] \in SUBSET S /\ T[k] \subseteq F[T[k]]}
<1>1. 0..n \subseteq M
  <2>1. 0 \in M
    BY <1>0
  <2>2. ASSUME NEW k \in 1..n, k - 1 \in M PROVE k \in M
    <3>1. T[k - 1] \in SUBSET S /\ T[k - 1] \subseteq F[T[k - 1]] /\ T[k] = F[T[k - 1]]
      BY <2>2
    <3>2. T[k] \in SUBSET S
      BY <3>1
    <3>3. F[T[k - 1]] \subseteq F[T[k]]
      BY <3>1, <3>2
    <3> QED BY <1>0, <3>1, <3>2, <3>3
  <2> HIDE DEF M, n
  <2> QED BY <1>0, <2>1, <2>2, UpTo
<1> DEFINE L == {k \in 0..n : F[T[k]] = T[k] \/ Cardinality(T[k]) >= k}
<1>2. ASSUME NEW k \in 0..n PROVE T[k] \in SUBSET S /\ IsFiniteSet(T[k]) /\ Cardinality(T[k]) \in Nat
  <2>1. T[k] \in SUBSET S
    BY <1>1
  <2> QED BY <2>1, FS_Subset, FS_CardinalityType
<1>3. 0..n \subseteq L
  <2>1. 0 \in L
    BY <1>0, <1>2
  <2>2. ASSUME NEW k \in 1..n, k - 1 \in L PROVE k \in L
    <3>1. k \in 0..n /\ k - 1 \in 0..n /\ T[k] = F[T[k - 1]]
      BY <1>0
    <3>2. T[k - 1] \subseteq T[k]
      BY <1>1, <3>1
    <3>3. CASE F[T[k - 1]] = T[k - 1]
      BY <3>1, <3>3
    <3>4. CASE F[T[k - 1]] # T[k - 1] /\ Cardinality(T[k - 1]) >= k - 1
      <4>1. T[k - 1] # T[k]
        BY <3>1, <3>4
      <4>2. Cardinality(T[k - 1]) <= Cardinality(T[k]) /\ Cardinality(T[k - 1]) # Cardinality(T[k])
        BY <1>2, <3>1, <3>2, <4>1, FS_Subset
      <4>3. Cardinality(T[k]) \in Nat /\ Cardinality(T[k - 1]) \in Nat
        BY <1>2, <3>1
      <4>4. Cardinality(T[k]) >= k
        BY <3>4, <4>2, <4>3
      <4> QED BY <3>1, <4>4
    <3> QED BY <2>2, <3>3, <3>4
  <2> HIDE DEF L, n
  <2> QED BY <1>0, <2>1, <2>2, UpTo
<1>4. n \in 0..n
  BY <1>0
<1>5. CASE F[T[n]] = T[n]
  BY <1>5
<1>6. CASE Cardinality(T[n]) >= n
  <2>1. T[n] \in SUBSET S /\ Cardinality(T[n]) \in Nat /\ Cardinality(T[n]) <= n
    BY <1>2, <1>4, FS_Subset
  <2>2. T[n] = S
    BY <1>0, <1>6, <2>1, FS_Subset
  <2>3. F[T[n]] \in SUBSET S /\ T[n] \subseteq F[T[n]]
    BY <1>1, <1>4, <2>1
  <2> QED BY <2>2, <2>3
<1> QED BY <1>3, <1>4, <1>5, <1>6

-----------------------------------------------------------------------------
(* What ReachableFrom computes: the least set that holds the start and     *)
(* whatever an edge leads to from it.                                      *)
Near(E, S) == S \cup UNION {Successors(E, n) : n \in S}
AllNear(R, E, s) ==
  [k \in 0..Cardinality(Node) |-> IF k = 0 THEN {s} ELSE Near(E, R[k - 1])]

LEMMA NearType ==
  ASSUME NEW E \in SUBSET (Node \X Node), NEW S \in SUBSET Node
  PROVE  Near(E, S) \in SUBSET Node
<1>1. ASSUME NEW n \in S, NEW m \in Successors(E, n) PROVE m \in Node
  <2>1. <<n, m>> \in E
    BY DEF Successors
  <2>2. <<n, m>> \in Node \X Node
    BY <2>1
  <2> QED
    BY <2>2
<1> QED
  BY <1>1 DEF Near

LEMMA ReachIs ==
  ASSUME Blocks, NEW E \in SUBSET (Node \X Node), NEW s \in Node
  PROVE  \E R : /\ R[0] = {s}
                /\ \A k \in 1..Cardinality(Node) : R[k] = Near(E, R[k - 1])
                /\ ReachableFrom(Node, E, s) = R[Cardinality(Node)]
<1> DEFINE N == Cardinality(Node)
           D == SUBSET Node
           F == [a \in (1..N) \X D |-> Near(E, a[2])]
           x == {s}
           Reach == CHOOSE R : R = AllNear(R, E, s)
<1>0. N \in Nat
  BY FS_CardinalityType DEF Blocks
<1>1. x \in D
  OBVIOUS
<1>2. ASSUME NEW k \in 1..N, NEW d \in D PROVE F[<<k, d>>] = Near(E, d) /\ F[<<k, d>>] \in D
  <2>1. F[<<k, d>>] = Near(E, d)
    OBVIOUS
  <2>2. Near(E, d) \in SUBSET Node
    BY NearType
  <2> QED
    BY <2>1, <2>2
<1>3. \A k \in 1..N, d \in D : F[<<k, d>>] \in D
  BY <1>2
<1> HIDE DEF F, x, D, N
<1>4. PICK f : Iteration(f, N, D, x, F)
  BY <1>0, <1>1, <1>3, Iterates
<1>5. f = AllNear(f, E, s)
  <2>1. ASSUME NEW k \in 0..N
        PROVE  Stage(F, f, k, x) = IF k = 0 THEN {s} ELSE Near(E, f[k - 1])
    <3>1. CASE k = 0
      BY <3>1 DEF Stage, x
    <3>2. CASE k # 0
      <4>1. k \in 1..N /\ k - 1 \in 0..N
        BY <1>0, <3>2
      <4>2. F[<<k, f[k - 1]>>] = Near(E, f[k - 1])
        BY <1>2, <1>4, <4>1 DEF Iteration
      <4> QED
        BY <3>2, <4>2 DEF Stage
    <3> QED
      BY <3>1, <3>2
  <2>2. [k \in 0..N |-> Stage(F, f, k, x)] = AllNear(f, E, s)
    BY <2>1 DEF AllNear, N
  <2> QED
    BY <1>4, <2>2 DEF Iteration
<1>6. Reach = AllNear(Reach, E, s)
  BY <1>5
<1>7. ReachableFrom(Node, E, s) = Reach[N]
  BY DEF ReachableFrom, AllNear, Near, N
<1> HIDE DEF Reach
<1>8. \A k \in 0..N : Reach[k] = IF k = 0 THEN {s} ELSE Near(E, Reach[k - 1])
  BY <1>6 DEF AllNear, N
<1>9. Reach[0] = {s} /\ \A k \in 1..N : Reach[k] = Near(E, Reach[k - 1])
  BY <1>0, <1>8
<1> QED
  BY <1>7, <1>9 DEF N

LEMMA ReachesAll ==
  ASSUME Blocks, NEW E \in SUBSET (Node \X Node), NEW s \in Node
  PROVE  /\ s \in ReachableFrom(Node, E, s)
         /\ ReachableFrom(Node, E, s) \subseteq Node
         /\ \A e \in E : e[1] \in ReachableFrom(Node, E, s) => e[2] \in ReachableFrom(Node, E, s)
<1> DEFINE N == Cardinality(Node)
           F == [S \in SUBSET Node |-> Near(E, S)]
<1>0. N \in Nat /\ IsFiniteSet(Node)
  BY FS_CardinalityType DEF Blocks
<1>1. PICK R : /\ R[0] = {s} /\ \A k \in 1..N : R[k] = Near(E, R[k - 1])
               /\ ReachableFrom(Node, E, s) = R[N]
  BY ReachIs, ZenonT(60)
<1>2. ASSUME NEW S \in SUBSET Node PROVE F[S] = Near(E, S) /\ Near(E, S) \in SUBSET Node
  BY NearType
<1>3. F \in [SUBSET Node -> SUBSET Node]
  BY <1>2
<1>4. \A P, Q \in SUBSET Node : P \subseteq Q => F[P] \subseteq F[Q]
  BY <1>2 DEF Near
<1>5. R[0] \in SUBSET Node /\ R[0] \subseteq F[R[0]]
  BY <1>1, <1>2 DEF Near
<1> DEFINE T == {k \in 0..N : R[k] \in SUBSET Node /\ s \in R[k]}
<1>6. 0..N \subseteq T
  <2>1. 0 \in T
    BY <1>0, <1>1
  <2>2. ASSUME NEW k \in 1..N, k - 1 \in T PROVE k \in T
    <3>1. R[k] = Near(E, R[k - 1]) /\ R[k - 1] \in SUBSET Node /\ s \in R[k - 1]
      BY <1>1, <2>2
    <3>2. R[k] \in SUBSET Node /\ s \in R[k]
      BY <3>1, <1>2 DEF Near
    <3> QED
      BY <1>0, <3>2
  <2> HIDE DEF T, N
  <2> QED
    BY <1>0, <2>1, <2>2, UpTo
<1>7. N \in 0..N
  BY <1>0
<1>8. R[N] \in SUBSET Node /\ s \in R[N]
  BY <1>6, <1>7
<1>9. \A k \in 1..N : R[k] = F[R[k - 1]]
  <2> TAKE k \in 1..N
  <2>1. k - 1 \in T
    BY <1>0, <1>6
  <2> QED
    BY <1>1, <1>2, <2>1
<1> HIDE DEF F
<1>10. F[R[N]] = R[N]
  BY <1>0, <1>3, <1>4, <1>5, <1>9, Saturates
<1>11. Near(E, R[N]) = R[N]
  BY <1>2, <1>8, <1>10
<1>12. ASSUME NEW e \in E, e[1] \in R[N] PROVE e[2] \in R[N]
  <2>1. e = <<e[1], e[2]>> /\ e[2] \in Node
    OBVIOUS
  <2>2. e[2] \in Successors(E, e[1])
    BY <2>1 DEF Successors
  <2> QED
    BY <1>11, <1>12, <2>2 DEF Near
<1> QED
  BY <1>1, <1>8, <1>12

LEMMA ReachesOnly ==
  ASSUME Blocks, NEW E \in SUBSET (Node \X Node), NEW s \in Node,
         NEW S, s \in S, \A e \in E : e[1] \in S => e[2] \in S
  PROVE  ReachableFrom(Node, E, s) \subseteq S
<1> DEFINE N == Cardinality(Node)
<1>0. N \in Nat
  BY FS_CardinalityType DEF Blocks
<1>1. PICK R : /\ R[0] = {s} /\ \A k \in 1..N : R[k] = Near(E, R[k - 1])
               /\ ReachableFrom(Node, E, s) = R[N]
  BY ReachIs, ZenonT(60)
<1> DEFINE T == {k \in 0..N : R[k] \subseteq S}
<1>2. 0 \in T
  BY <1>0, <1>1
<1>3. ASSUME NEW k \in 1..N, k - 1 \in T PROVE k \in T
  <2>1. R[k] = Near(E, R[k - 1]) /\ R[k - 1] \subseteq S
    BY <1>1, <1>3
  <2>2. ASSUME NEW n \in R[k - 1], NEW m \in Successors(E, n) PROVE m \in S
    <3>1. <<n, m>> \in E /\ n \in S
      BY <2>1, <2>2 DEF Successors
    <3>2. <<n, m>>[1] = n /\ <<n, m>>[2] = m
      OBVIOUS
    <3> QED
      BY <3>1, <3>2
  <2> QED
    BY <1>0, <2>1, <2>2 DEF Near
<1>4. 0..N \subseteq T
  <2> HIDE DEF T, N
  <2> QED
    BY <1>0, <1>2, <1>3, UpTo
<1>5. N \in T
  BY <1>0, <1>4
<1> QED
  BY <1>1, <1>5

-----------------------------------------------------------------------------
(* A finite set of numbers has a greatest member, and can be listed.       *)
LEMMA SizeOf ==
  ASSUME Blocks, NEW S \in SUBSET Node
  PROVE  /\ IsFiniteSet(S) /\ Cardinality(S) \in Nat /\ S \subseteq Int
         /\ Cardinality(S) <= Cardinality(Node) /\ Cardinality(Node) \in Nat
         /\ Cardinality(S) = 0 <=> S = {}
         /\ \A x \in S : Cardinality(S \ {x}) = Cardinality(S) - 1
  BY FS_Subset, FS_CardinalityType, FS_EmptySet, FS_RemoveElement DEF Blocks

LEMMA Greatest ==
  ASSUME Blocks, NEW S \in SUBSET Node, S # {}
  PROVE  \E x \in S : \A y \in S : y <= x
<1> DEFINE N == Cardinality(Node)
           T == {k \in 0..N : \A Q \in SUBSET Node : Cardinality(Q) = k /\ Q # {} => \E x \in Q : \A y \in Q : y <= x}
<1>0. N \in Nat
  BY FS_CardinalityType DEF Blocks
<1>1. 0 \in T
  BY <1>0, SizeOf
<1>2. ASSUME NEW k \in 1..N, k - 1 \in T PROVE k \in T
  <2> SUFFICES ASSUME NEW Q \in SUBSET Node, Cardinality(Q) = k PROVE \E x \in Q : \A y \in Q : y <= x
    BY <1>0
  <2>1. PICK a \in Q : TRUE
    BY <1>0, SizeOf
  <2>2. Q \ {a} \in SUBSET Node /\ Cardinality(Q \ {a}) = k - 1 /\ Q \subseteq Int
    BY SizeOf
  <2>3. CASE Q \ {a} = {}
    BY <2>1, <2>2, <2>3
  <2>4. CASE Q \ {a} # {}
    <3>1. PICK b \in Q \ {a} : \A y \in Q \ {a} : y <= b
      BY <1>2, <2>2, <2>4
    <3>2. CASE a <= b
      BY <2>2, <3>1, <3>2
    <3>3. CASE ~(a <= b)
      BY <2>1, <2>2, <3>1, <3>3
    <3> QED BY <3>2, <3>3
  <2> QED BY <2>3, <2>4
<1>3. 0..N \subseteq T
  <2> HIDE DEF T, N
  <2> QED BY <1>0, <1>1, <1>2, UpTo
<1>4. Cardinality(S) \in T
  BY <1>3, SizeOf
<1> QED BY <1>4

Increasing(s) == \A i, j \in DOMAIN s : i < j => s[i] < s[j]

LEMMA ListingExists ==
  ASSUME Blocks, NEW S \in SUBSET Node
  PROVE  \E s \in [1..Cardinality(S) -> S] : Increasing(s) /\ \A x \in S : \E i \in DOMAIN s : s[i] = x
<1> DEFINE N == Cardinality(Node)
           Listed(Q, k) == \E s \in [1..k -> Q] : Increasing(s) /\ \A x \in Q : \E i \in DOMAIN s : s[i] = x
           T == {k \in 0..N : \A Q \in SUBSET Node : Cardinality(Q) = k => Listed(Q, k)}
<1>0. N \in Nat
  BY FS_CardinalityType DEF Blocks
<1>1. 0 \in T
  <2> SUFFICES ASSUME NEW Q \in SUBSET Node, Cardinality(Q) = 0 PROVE Listed(Q, 0)
    BY <1>0
  <2>1. Q = {}
    BY SizeOf
  <2> DEFINE s == [i \in 1..0 |-> i]
  <2>2. s \in [1..0 -> Q] /\ DOMAIN s = {}
    OBVIOUS
  <2> QED BY <2>1, <2>2 DEF Increasing
<1>2. ASSUME NEW k \in 1..N, k - 1 \in T PROVE k \in T
  <2> SUFFICES ASSUME NEW Q \in SUBSET Node, Cardinality(Q) = k PROVE Listed(Q, k)
    BY <1>0
  <2>0. Q # {} /\ Q \subseteq Int /\ k \in Nat /\ k >= 1
    BY <1>0, SizeOf
  <2>1. PICK m \in Q : \A y \in Q : y <= m
    BY <2>0, Greatest
  <2>2. Q \ {m} \in SUBSET Node /\ Cardinality(Q \ {m}) = k - 1
    BY SizeOf
  <2>3. PICK r \in [1..(k - 1) -> Q \ {m}] : Increasing(r) /\ \A x \in Q \ {m} : \E i \in DOMAIN r : r[i] = x
    BY <1>2, <2>2
  <2> DEFINE s == [i \in 1..k |-> IF i = k THEN m ELSE r[i]]
  <2>4. ASSUME NEW i \in 1..k PROVE i # k => i \in 1..(k - 1) /\ r[i] \in Q \ {m}
    BY <2>0, <2>3
  <2>5. s \in [1..k -> Q] /\ DOMAIN s = 1..k
    BY <2>1, <2>4
  <2>6. \A i \in 1..k : s[i] = IF i = k THEN m ELSE r[i]
    OBVIOUS
  <2> HIDE DEF s
  <2>7. ASSUME NEW i \in 1..k, NEW j \in 1..k, i < j PROVE s[i] < s[j]
    <3>1. i # k /\ i \in 1..(k - 1)
      BY <2>0, <2>7
    <3>2. CASE j = k
      <4>1. s[i] = r[i] /\ r[i] \in Q \ {m} /\ s[j] = m
        BY <2>4, <2>6, <3>1, <3>2
      <4>2. r[i] \in Int /\ m \in Int /\ r[i] <= m /\ r[i] # m
        BY <2>0, <2>1, <4>1
      <4> QED BY <4>1, <4>2
    <3>3. CASE j # k
      <4>1. j \in 1..(k - 1) /\ DOMAIN r = 1..(k - 1)
        BY <2>0, <2>3, <3>3
      <4>2. r[i] < r[j]
        BY <2>3, <2>7, <3>1, <4>1 DEF Increasing
      <4> QED BY <2>6, <3>1, <3>3, <4>2
    <3> QED BY <3>2, <3>3
  <2>8. ASSUME NEW x \in Q PROVE \E i \in 1..k : s[i] = x
    <3>1. CASE x = m
      BY <2>0, <2>6, <3>1
    <3>2. CASE x # m
      <4>1. PICK i \in DOMAIN r : r[i] = x
        BY <2>3, <3>2
      <4>2. i \in 1..k /\ i # k
        BY <2>0, <2>3, <4>1
      <4> QED BY <2>6, <4>1, <4>2
    <3> QED BY <3>1, <3>2
  <2>9. Increasing(s)
    BY <2>5, <2>7 DEF Increasing
  <2> QED BY <2>5, <2>8, <2>9
<1>3. 0..N \subseteq T
  <2> HIDE DEF T, N
  <2> QED BY <1>0, <1>1, <1>2, UpTo
<1>4. Cardinality(S) \in T
  <2> HIDE DEF T
  <2>1. Cardinality(S) \in 0..N
    BY SizeOf
  <2> QED BY <1>3, <2>1
<1> QED BY <1>4

(* An increasing listing as long as the set leaves nobody out.             *)
LEMMA AscendingLists ==
  ASSUME Blocks, NEW S \in SUBSET Node
  PROVE  /\ Ascending(S) \in Seq(S) /\ Len(Ascending(S)) = Cardinality(S)
         /\ \A x \in S : \E i \in DOMAIN Ascending(S) : Ascending(S)[i] = x
<1> DEFINE c == Cardinality(S)
           s == Ascending(S)
<1>0. c \in Nat /\ IsFiniteSet(S) /\ S \subseteq Int
  BY SizeOf
<1>1. s \in [1..c -> S] /\ Increasing(s)
  BY ListingExists DEF Ascending, Increasing
<1> HIDE DEF s
<1>2. DOMAIN s = 1..c /\ \A i \in 1..c : s[i] \in S
  BY <1>1
<1>3. \A i, j \in 1..c : i # j => s[i] # s[j]
  <2> SUFFICES ASSUME NEW i \in 1..c, NEW j \in 1..c, i # j PROVE s[i] # s[j]
    OBVIOUS
  <2>1. s[i] \in S /\ s[j] \in S
    BY <1>2
  <2>2. s[i] \in Int /\ s[j] \in Int
    BY <1>0, <2>1
  <2>3. i < j \/ j < i
    BY <1>0
  <2>4. s[i] < s[j] \/ s[j] < s[i]
    BY <1>1, <1>2, <2>3 DEF Increasing
  <2> QED BY <2>2, <2>4
<1>4. {s[i] : i \in 1..c} = S
  <2>1. s \in Injection(1..c, S)
    BY <1>1, <1>2, <1>3 DEF Injection, IsInjective
  <2>2. Cardinality(1..c) = c /\ IsFiniteSet(1..c)
    BY <1>0, FS_Interval
  <2> HIDE DEF c
  <2>3. s \in Surjection(1..c, S)
    BY <1>0, <2>1, <2>2, FS_Injection DEF c
  <2> QED BY <1>2, <2>3 DEF Surjection
<1>5. s \in Seq(S) /\ Len(s) = c
  BY <1>0, <1>1
<1> QED BY <1>2, <1>4, <1>5 DEF s
-----------------------------------------------------------------------------
(* A call of visit_postorder, given what the calls inside it answer.       *)
Result == [seen : SUBSET Node, order : Seq(Node)]
Level == [Node \X SUBSET Node -> Result]
NextOf(E, n) == Ascending(Successors(E, n))

Joined(V, done, m) ==
  LET sub == V[<<m, done.seen>>] IN [seen |-> sub.seen, order |-> done.order \o sub.order]
AllThrough(t, V, E, call) ==
  [k \in 0..Len(NextOf(E, call[1])) |->
     IF k = 0 THEN [seen |-> call[2] \cup {call[1]}, order |-> <<>>]
     ELSE Joined(V, t[k - 1], NextOf(E, call[1])[k])]
ThroughOf(V, E, call) == CHOOSE t : t = AllThrough(t, V, E, call)
Explored(V, E, call) ==
  LET all == ThroughOf(V, E, call)[Len(NextOf(E, call[1]))]
  IN [seen |-> all.seen, order |-> Finish(all.order, call[1])]
Onto(V, E, depth) ==
  [call \in Node \X SUBSET Node |->
     IF call[1] \in call[2] \/ depth = 0 THEN [seen |-> call[2], order |-> <<>>] ELSE Explored(V, E, call)]
AllVisit(v, E) == [depth \in 0..Cardinality(Node) |-> Onto(v[depth - 1], E, depth)]

LEMMA NextType ==
  ASSUME Blocks, NEW E \in SUBSET (Node \X Node), NEW n \in Node
  PROVE  /\ Successors(E, n) \in SUBSET Node
         /\ \A m : m \in Successors(E, n) <=> <<n, m>> \in E
         /\ NextOf(E, n) \in Seq(Node) /\ Len(NextOf(E, n)) \in Nat
         /\ DOMAIN NextOf(E, n) = 1..Len(NextOf(E, n))
         /\ \A k \in 1..Len(NextOf(E, n)) : NextOf(E, n)[k] \in Successors(E, n)
         /\ \A m \in Successors(E, n) : \E k \in 1..Len(NextOf(E, n)) : NextOf(E, n)[k] = m
<1>1. \A m : m \in Successors(E, n) <=> <<n, m>> \in E
  <2> TAKE m
  <2>1. ASSUME <<n, m>> \in E PROVE m \in {e[2] : e \in E}
    <3>1. <<n, m>>[2] = m
      OBVIOUS
    <3> QED BY <2>1, <3>1
  <2> QED BY <2>1 DEF Successors
<1>2. Successors(E, n) \in SUBSET Node
  <2>1. ASSUME NEW m, <<n, m>> \in E PROVE m \in Node
    <3>1. <<n, m>> \in Node \X Node
      BY <2>1
    <3> QED BY <3>1
  <2> QED BY <1>1, <2>1
<1>3. /\ NextOf(E, n) \in Seq(Successors(E, n))
      /\ \A m \in Successors(E, n) : \E k \in DOMAIN NextOf(E, n) : NextOf(E, n)[k] = m
  BY <1>2, AscendingLists DEF NextOf
<1> HIDE DEF NextOf
<1> QED BY <1>1, <1>2, <1>3

LEMMA JoinedType ==
  ASSUME NEW V \in Level, NEW done \in Result, NEW m \in Node
  PROVE  /\ Joined(V, done, m) \in Result
         /\ V[<<m, done.seen>>] \in Result
         /\ Joined(V, done, m).seen = V[<<m, done.seen>>].seen
         /\ Joined(V, done, m).order = done.order \o V[<<m, done.seen>>].order
<1>0. done.seen \in SUBSET Node /\ done.order \in Seq(Node)
  BY DEF Result
<1>1. <<m, done.seen>> \in Node \X SUBSET Node
  BY <1>0
<1>2. V[<<m, done.seen>>] \in Result
  BY <1>1 DEF Level
<1>3. V[<<m, done.seen>>].seen \in SUBSET Node /\ V[<<m, done.seen>>].order \in Seq(Node)
  BY <1>2 DEF Result
<1> DEFINE sub == V[<<m, done.seen>>]
           order == done.order \o sub.order
<1>4. Joined(V, done, m) = [seen |-> sub.seen, order |-> order]
  BY DEF Joined
<1>5. order \in Seq(Node)
  BY <1>0, <1>3, SMTT(60)
<1> HIDE DEF order, sub
<1>6. [seen |-> sub.seen, order |-> order] \in Result
  BY <1>3, <1>5 DEF Result, sub
<1>7. Joined(V, done, m).seen = sub.seen /\ Joined(V, done, m).order = order
  BY <1>4
<1> QED BY <1>2, <1>4, <1>6, <1>7 DEF order, sub

Steps(t, V, E, n, past) ==
  /\ t[0] = [seen |-> past \cup {n}, order |-> <<>>]
  /\ \A k \in 0..Len(NextOf(E, n)) : t[k] \in Result
  /\ \A k \in 1..Len(NextOf(E, n)) : t[k] = Joined(V, t[k - 1], NextOf(E, n)[k])
  /\ Explored(V, E, <<n, past>>) = [seen |-> t[Len(NextOf(E, n))].seen,
                                    order |-> t[Len(NextOf(E, n))].order \o <<n>>]

LEMMA ThroughIs ==
  ASSUME Blocks, NEW E \in SUBSET (Node \X Node), NEW V \in Level, NEW n \in Node, NEW past \in SUBSET Node
  PROVE  \E t : Steps(t, V, E, n, past)
<1> DEFINE next == NextOf(E, n)
           L == Len(next)
           x == [seen |-> past \cup {n}, order |-> <<>>]
           F == [a \in (1..L) \X Result |-> Joined(V, a[2], next[a[1]])]
           t == ThroughOf(V, E, <<n, past>>)
           G(f) == [k \in 0..L |-> IF k = 0 THEN x ELSE Joined(V, f[k - 1], next[k])]
<1>0. L \in Nat /\ \A k \in 1..L : next[k] \in Node
  BY NextType
<1>1. x \in Result
  <2>1. past \cup {n} \in SUBSET Node /\ <<>> \in Seq(Node)
    OBVIOUS
  <2> QED BY <2>1 DEF Result
<1>2. ASSUME NEW k \in 1..L, NEW d \in Result PROVE F[<<k, d>>] = Joined(V, d, next[k]) /\ F[<<k, d>>] \in Result
  <2>1. F[<<k, d>>] = Joined(V, d, next[k])
    OBVIOUS
  <2>2. next[k] \in Node
    BY <1>0
  <2> HIDE DEF F, next
  <2>3. Joined(V, d, next[k]) \in Result
    BY <2>2, JoinedType
  <2> QED BY <2>1, <2>3
<1>3. \A k \in 1..L, d \in Result : F[<<k, d>>] \in Result
  BY <1>2
<1>g. \A f : AllThrough(f, V, E, <<n, past>>) = G(f)
  <2> TAKE f
  <2>1. <<n, past>>[1] = n /\ <<n, past>>[2] = past
    OBVIOUS
  <2> QED BY <2>1 DEF AllThrough
<1> HIDE DEF F, x, L, next
<1>4. PICK f : Iteration(f, L, Result, x, F)
  BY <1>0, <1>1, <1>3, Iterates
<1>5. f = G(f)
  <2>1. ASSUME NEW k \in 0..L
        PROVE  Stage(F, f, k, x) = IF k = 0 THEN x ELSE Joined(V, f[k - 1], next[k])
    <3>1. CASE k = 0
      BY <3>1 DEF Stage
    <3>2. CASE k # 0
      <4>1. k \in 1..L /\ k - 1 \in 0..L
        BY <1>0, <3>2
      <4>2. F[<<k, f[k - 1]>>] = Joined(V, f[k - 1], next[k])
        BY <1>2, <1>4, <4>1 DEF Iteration
      <4> QED BY <3>2, <4>2 DEF Stage
    <3> QED BY <3>1, <3>2
  <2>2. [k \in 0..L |-> Stage(F, f, k, x)] = G(f)
    BY <2>1
  <2> QED BY <1>4, <2>2 DEF Iteration
<1> HIDE DEF G
<1>6. t = G(t)
  <2>1. \E h : h = AllThrough(h, V, E, <<n, past>>)
    BY <1>5, <1>g
  <2>2. t = AllThrough(t, V, E, <<n, past>>)
    BY <2>1 DEF ThroughOf
  <2> HIDE DEF t
  <2> QED BY <2>2, <1>g
<1>7. Explored(V, E, <<n, past>>) = [seen |-> t[L].seen, order |-> t[L].order \o <<n>>]
  <2>1. <<n, past>>[1] = n
    OBVIOUS
  <2> QED BY <2>1 DEF Explored, Finish, L, next
<1> HIDE DEF t
<1>8. \A k \in 0..L : t[k] = IF k = 0 THEN x ELSE Joined(V, t[k - 1], next[k])
  BY <1>6 DEF G
<1>9. t[0] = x /\ \A k \in 1..L : t[k] = Joined(V, t[k - 1], next[k])
  BY <1>0, <1>8
<1> DEFINE T == {k \in 0..L : t[k] \in Result}
<1>10. 0..L \subseteq T
  <2>1. 0 \in T
    BY <1>0, <1>1, <1>9
  <2>2. ASSUME NEW k \in 1..L, k - 1 \in T PROVE k \in T
    <3>1. t[k - 1] \in Result /\ next[k] \in Node /\ k \in 0..L
      BY <1>0, <2>2
    <3>2. Joined(V, t[k - 1], next[k]) \in Result
      BY <3>1, JoinedType
    <3> QED BY <1>9, <3>1, <3>2
  <2> HIDE DEF T
  <2> QED BY <1>0, <2>1, <2>2, UpTo
<1>11. \A k \in 0..L : t[k] \in Result
  BY <1>10
<1> QED BY <1>7, <1>9, <1>11 DEF L, next, x, Steps

Answers(V, E, depth) ==
  \A n \in Node, past \in SUBSET Node :
    Onto(V, E, depth)[<<n, past>>] =
      IF n \in past \/ depth = 0 THEN [seen |-> past, order |-> <<>>] ELSE Explored(V, E, <<n, past>>)

LEMMA OntoType ==
  ASSUME Blocks, NEW E \in SUBSET (Node \X Node), NEW V, NEW depth \in Nat, depth = 0 \/ V \in Level
  PROVE  /\ Onto(V, E, depth) \in Level
         /\ Answers(V, E, depth)
<1> DEFINE Answer(call) ==
             IF call[1] \in call[2] \/ depth = 0 THEN [seen |-> call[2], order |-> <<>>]
             ELSE Explored(V, E, call)
<1>1. ASSUME NEW n \in Node, NEW past \in SUBSET Node PROVE Answer(<<n, past>>) \in Result
  <2>0. <<n, past>>[1] = n /\ <<n, past>>[2] = past
    OBVIOUS
  <2>1. CASE n \in past \/ depth = 0
    <3>1. <<>> \in Seq(Node)
      OBVIOUS
    <3>2. Answer(<<n, past>>) = [seen |-> past, order |-> <<>>]
      BY <2>0, <2>1
    <3> HIDE DEF Answer
    <3>3. past \in SUBSET Node
      OBVIOUS
    <3>4. [seen |-> past, order |-> <<>>] \in Result
      BY <3>1, <3>3 DEF Result
    <3> QED BY <3>2, <3>4
  <2>2. CASE ~(n \in past \/ depth = 0)
    <3>1. V \in Level
      BY <2>2
    <3> HIDE DEF Answer
    <3> DEFINE L == Len(NextOf(E, n))
    <3>2. PICK t : Steps(t, V, E, n, past)
      BY <3>1, ThroughIs
    <3>3. L \in Nat /\ t[L] \in Result
      <4>1. L \in Nat
        BY NextType
      <4>2. \A k \in 0..L : t[k] \in Result
        BY <3>2 DEF Steps
      <4> HIDE DEF L
      <4> QED BY <4>1, <4>2
    <3> HIDE DEF L
    <3> DEFINE order == t[L].order \o <<n>>
    <3>4. t[L].seen \in SUBSET Node /\ t[L].order \in Seq(Node)
      BY <3>3 DEF Result
    <3>5. order \in Seq(Node)
      BY <3>4
    <3>6. Explored(V, E, <<n, past>>) = [seen |-> t[L].seen, order |-> order]
      BY <3>2 DEF L, Steps
    <3> HIDE DEF order
    <3>7. Explored(V, E, <<n, past>>) \in Result
      BY <3>4, <3>5, <3>6, SMTT(60) DEF Result
    <3>8. Answer(<<n, past>>) = Explored(V, E, <<n, past>>)
      BY <2>0, <2>2 DEF Answer
    <3> QED BY <3>7, <3>8
  <2> HIDE DEF Answer
  <2> QED BY <2>1, <2>2
<1>2. Onto(V, E, depth) = [call \in Node \X SUBSET Node |-> Answer(call)]
  BY DEF Onto
<1>3. \A n \in Node, past \in SUBSET Node : Onto(V, E, depth)[<<n, past>>] = Answer(<<n, past>>)
  <2> HIDE DEF Answer
  <2> QED BY <1>2
<1>4. Onto(V, E, depth) \in Level
  <2> HIDE DEF Answer
  <2>1. \A call \in Node \X SUBSET Node : Answer(call) \in Result
    BY <1>1
  <2> QED BY <1>2, <2>1 DEF Level
<1>5. \A n \in Node, past \in SUBSET Node :
        Answer(<<n, past>>) =
          IF n \in past \/ depth = 0 THEN [seen |-> past, order |-> <<>>] ELSE Explored(V, E, <<n, past>>)
  <2> TAKE n \in Node, past \in SUBSET Node
  <2>1. <<n, past>>[1] = n /\ <<n, past>>[2] = past
    OBVIOUS
  <2> QED BY <2>1
<1> HIDE DEF Answer
<1> QED BY <1>3, <1>4, <1>5 DEF Answers

LEMMA VisitIs ==
  ASSUME Blocks, NEW E \in SUBSET (Node \X Node), NEW s \in Node
  PROVE  \E v : /\ \A d \in 0..Cardinality(Node) : v[d] \in Level
                /\ \A d \in 0..Cardinality(Node) : v[d] = Onto(v[d - 1], E, d)
                /\ Walk(Node, E, s) = v[Cardinality(Node)][<<s, {}>>]
<1> DEFINE N == Cardinality(Node)
           x == Onto(0, E, 0)
           F == [a \in (1..N) \X Level |-> Onto(a[2], E, a[1])]
           v == CHOOSE f : f = AllVisit(f, E)
<1>0. N \in Nat
  BY FS_CardinalityType DEF Blocks
<1>1. x \in Level /\ \A w : Onto(w, E, 0) = x
  <2>1. \A w : Onto(w, E, 0) = x
    BY DEF Onto
  <2>2. x \in Level
    BY OntoType
  <2> QED BY <2>1, <2>2
<1>2. ASSUME NEW k \in 1..N, NEW d \in Level PROVE F[<<k, d>>] = Onto(d, E, k) /\ F[<<k, d>>] \in Level
  <2>1. F[<<k, d>>] = Onto(d, E, k)
    OBVIOUS
  <2>2. k \in Nat
    BY <1>0
  <2>3. Onto(d, E, k) \in Level
    BY <2>2, OntoType
  <2> QED BY <2>1, <2>3
<1>3. \A k \in 1..N, d \in Level : F[<<k, d>>] \in Level
  BY <1>2
<1> HIDE DEF F, x, N
<1>4. PICK f : Iteration(f, N, Level, x, F)
  BY <1>0, <1>1, <1>3, Iterates
<1>5. f = AllVisit(f, E)
  <2>1. ASSUME NEW k \in 0..N PROVE Stage(F, f, k, x) = Onto(f[k - 1], E, k)
    <3>1. CASE k = 0
      BY <1>1, <3>1 DEF Stage
    <3>2. CASE k # 0
      <4>1. k \in 1..N /\ k - 1 \in 0..N
        BY <1>0, <3>2
      <4>2. F[<<k, f[k - 1]>>] = Onto(f[k - 1], E, k)
        BY <1>2, <1>4, <4>1 DEF Iteration
      <4> QED BY <3>2, <4>2 DEF Stage
    <3> QED BY <3>1, <3>2
  <2>2. [k \in 0..N |-> Stage(F, f, k, x)] = AllVisit(f, E)
    BY <2>1 DEF AllVisit, N
  <2> QED BY <1>4, <2>2 DEF Iteration
<1>6. v = AllVisit(v, E)
  BY <1>5
<1>7. Walk(Node, E, s) = v[N][<<s, {}>>]
  BY DEF Walk, AllVisit, Onto, Explored, ThroughOf, AllThrough, Joined, NextOf, N
<1> HIDE DEF v
<1>8. \A d \in 0..N : v[d] = Onto(v[d - 1], E, d)
  BY <1>6 DEF AllVisit, N
<1> DEFINE T == {k \in 0..N : v[k] \in Level}
<1>10. 0..N \subseteq T
  <2>1. 0 \in T
    BY <1>0, <1>1, <1>8
  <2>2. ASSUME NEW k \in 1..N, k - 1 \in T PROVE k \in T
    <3>1. k \in 0..N /\ k \in Nat /\ v[k - 1] \in Level /\ v[k] = Onto(v[k - 1], E, k)
      BY <1>0, <1>8, <2>2
    <3> DEFINE w == v[k - 1]
    <3> HIDE DEF w
    <3>2. Onto(w, E, k) \in Level
      <4>1. w \in Level /\ k \in Nat
        BY <3>1 DEF w
      <4> QED BY <4>1, OntoType
    <3> QED BY <3>1, <3>2 DEF w
  <2> HIDE DEF T
  <2> QED BY <1>0, <2>1, <2>2, UpTo
<1> QED BY <1>7, <1>8, <1>10 DEF N
-----------------------------------------------------------------------------
(* What a part of the walk leaves: of the blocks it found, starting from   *)
(* those of R where `past` were known, each is listed once, and what       *)
(* follows from it was known, comes before it or leads back to it.         *)
LeadsTo(E, n, x) == \A C \in SUBSET Node : n \in C /\ Closed(C, E) => x \in C
Before(order, i, y) == \E j \in 1..(i - 1) : order[j] = y

Found(E, R, past, r) ==
  \A x \in r.seen \ past : (\E n \in R : LeadsTo(E, n, x)) /\ (\E i \in 1..Len(r.order) : r.order[i] = x)
Listed(past, r) ==
  /\ \A i \in 1..Len(r.order) : r.order[i] \in r.seen \ past
  /\ \A i, j \in 1..Len(r.order) : i # j => r.order[i] # r.order[j]
Followed(E, past, r) ==
  \A i \in 1..Len(r.order) : \A y \in Successors(E, r.order[i]) :
    /\ y \in r.seen
    /\ y \in past \/ LeadsTo(E, y, r.order[i]) \/ Before(r.order, i, y)

Walked(E, R, past, r) ==
  r \in Result /\ past \subseteq r.seen /\ Found(E, R, past, r) /\ Listed(past, r) /\ Followed(E, past, r)

LEMMA ConcatIs ==
  ASSUME NEW s \in Seq(Node), NEW q \in Seq(Node)
  PROVE  /\ Len(s) \in Nat /\ Len(q) \in Nat /\ s \o q \in Seq(Node) /\ Len(s \o q) = Len(s) + Len(q)
         /\ \A i \in 1..Len(s) : i \in 1..Len(s \o q) /\ (s \o q)[i] = s[i]
         /\ \A i \in 1..Len(q) : Len(s) + i \in 1..Len(s \o q) /\ (s \o q)[Len(s) + i] = q[i]
         /\ \A k \in 1..Len(s \o q) : k \in 1..Len(s) \/ (k - Len(s) \in 1..Len(q) /\ k = Len(s) + (k - Len(s)))
OBVIOUS

LEMMA NothingWalked ==
  ASSUME NEW E, NEW R, NEW past \in SUBSET Node
  PROVE  Walked(E, R, past, [seen |-> past, order |-> <<>>])
<1> DEFINE r == [seen |-> past, order |-> <<>>]
<1>1. <<>> \in Seq(Node) /\ Len(<<>>) = 0 /\ 1..0 = {}
  OBVIOUS
<1>2. r \in Result /\ r.seen = past /\ r.order = <<>>
  <2>1. past \in SUBSET Node
    OBVIOUS
  <2> QED BY <1>1, <2>1 DEF Result
<1> HIDE DEF r
<1>3. 1..Len(r.order) = {}
  BY <1>1, <1>2
<1>4. Found(E, R, past, r)
  BY <1>2 DEF Found
<1>5. Listed(past, r) /\ Followed(E, past, r)
  BY <1>3 DEF Listed, Followed
<1> QED BY <1>2, <1>4, <1>5 DEF Walked, r

(* One part after another.                                                 *)
LEMMA WalkedOn ==
  ASSUME NEW E, NEW R, NEW R2 \in SUBSET R, NEW past \in SUBSET Node, NEW a, NEW b, NEW r,
         Walked(E, R, past, a), Walked(E, R2, a.seen, b),
         r \in Result, r.seen = b.seen, r.order = a.order \o b.order
  PROVE  Walked(E, R, past, r) /\ a.seen \subseteq r.seen
<1> DEFINE A == Len(a.order)
           B == Len(b.order)
           N == Len(r.order)
<1>0. /\ a.seen \in SUBSET Node /\ a.order \in Seq(Node) /\ b.seen \in SUBSET Node /\ b.order \in Seq(Node)
      /\ past \subseteq a.seen /\ a.seen \subseteq b.seen
  BY DEF Walked, Result
<1>1. /\ A \in Nat /\ B \in Nat /\ N = A + B
      /\ \A i \in 1..A : i \in 1..N /\ r.order[i] = a.order[i]
      /\ \A i \in 1..B : A + i \in 1..N /\ r.order[A + i] = b.order[i]
      /\ \A k \in 1..N : k \in 1..A \/ (k - A \in 1..B /\ k = A + (k - A))
  <2> DEFINE s == a.order
             q == b.order
  <2>1. s \in Seq(Node) /\ q \in Seq(Node) /\ r.order = s \o q
    BY <1>0
  <2> HIDE DEF s, q
  <2>2. /\ Len(s) \in Nat /\ Len(q) \in Nat /\ Len(s \o q) = Len(s) + Len(q)
        /\ \A i \in 1..Len(s) : i \in 1..Len(s \o q) /\ (s \o q)[i] = s[i]
        /\ \A i \in 1..Len(q) : Len(s) + i \in 1..Len(s \o q) /\ (s \o q)[Len(s) + i] = q[i]
        /\ \A k \in 1..Len(s \o q) : k \in 1..Len(s) \/ (k - Len(s) \in 1..Len(q) /\ k = Len(s) + (k - Len(s)))
    BY <2>1, ConcatIs
  <2> QED BY <2>1, <2>2 DEF s, q
<1>2. Found(E, R, past, a) /\ Listed(past, a) /\ Followed(E, past, a)
      /\ Found(E, R2, a.seen, b) /\ Listed(a.seen, b) /\ Followed(E, a.seen, b)
  BY DEF Walked
<1>3. \A i \in 1..A : a.order[i] \in a.seen \ past
  BY <1>2 DEF Listed
<1>4. \A i \in 1..B : b.order[i] \in b.seen \ a.seen
  BY <1>2 DEF Listed
<1>5. Found(E, R, past, r)
  <2> SUFFICES ASSUME NEW x \in r.seen \ past
               PROVE  (\E n \in R : LeadsTo(E, n, x)) /\ (\E i \in 1..N : r.order[i] = x)
    BY DEF Found
  <2>1. CASE x \in a.seen
    <3>1. (\E n \in R : LeadsTo(E, n, x)) /\ (\E i \in 1..A : a.order[i] = x)
      BY <1>2, <2>1 DEF Found
    <3> HIDE DEF A, B, N
    <3> QED BY <1>1, <3>1
  <2>2. CASE x \notin a.seen
    <3>1. (\E n \in R2 : LeadsTo(E, n, x)) /\ (\E i \in 1..B : b.order[i] = x)
      BY <1>2, <2>2 DEF Found
    <3> HIDE DEF A, B, N
    <3> QED BY <1>1, <3>1
  <2> QED BY <2>1, <2>2
<1>6. Listed(past, r)
  <2>1. \A k \in 1..N : r.order[k] \in r.seen \ past
    <3> HIDE DEF A, B, N
    <3> SUFFICES ASSUME NEW k \in 1..N PROVE r.order[k] \in r.seen \ past
      OBVIOUS
    <3>1. CASE k \in 1..A
      BY <1>0, <1>1, <1>3, <3>1
    <3>2. CASE k - A \in 1..B /\ k = A + (k - A)
      <4>1. r.order[k] = b.order[k - A]
        BY <1>1, <3>2
      <4> QED BY <1>0, <1>4, <3>2, <4>1
    <3> QED BY <1>1, <3>1, <3>2
  <2>2. ASSUME NEW i \in 1..N, NEW j \in 1..N, i # j PROVE r.order[i] # r.order[j]
    <3>0. /\ \A k, l \in 1..A : k # l => a.order[k] # a.order[l]
          /\ \A k, l \in 1..B : k # l => b.order[k] # b.order[l]
      BY <1>2 DEF Listed
    <3> HIDE DEF A, B, N
    <3>1. CASE i \in 1..A /\ j \in 1..A
      BY <1>1, <2>2, <3>0, <3>1
    <3>2. CASE i \in 1..A /\ j - A \in 1..B /\ j = A + (j - A)
      <4>1. r.order[j] = b.order[j - A] /\ r.order[i] = a.order[i]
        BY <1>1, <3>2
      <4> QED BY <1>3, <1>4, <3>2, <4>1
    <3>3. CASE j \in 1..A /\ i - A \in 1..B /\ i = A + (i - A)
      <4>1. r.order[i] = b.order[i - A] /\ r.order[j] = a.order[j]
        BY <1>1, <3>3
      <4> QED BY <1>3, <1>4, <3>3, <4>1
    <3>4. CASE i - A \in 1..B /\ i = A + (i - A) /\ j - A \in 1..B /\ j = A + (j - A)
      <4>1. r.order[i] = b.order[i - A] /\ r.order[j] = b.order[j - A]
        BY <1>1, <3>4
      <4>2. i - A # j - A
        BY <2>2, <3>4
      <4> QED BY <3>0, <3>4, <4>1, <4>2
    <3> QED BY <1>1, <3>1, <3>2, <3>3, <3>4
  <2> QED BY <2>1, <2>2 DEF Listed
<1>7. Followed(E, past, r)
  <2> SUFFICES ASSUME NEW k \in 1..N, NEW y \in Successors(E, r.order[k])
               PROVE  /\ y \in r.seen
                      /\ y \in past \/ LeadsTo(E, y, r.order[k]) \/ Before(r.order, k, y)
    BY DEF Followed
  <2>1. CASE k \in 1..A
    <3>1. r.order[k] = a.order[k]
      BY <1>1, <2>1
    <3>2. y \in a.seen /\ (y \in past \/ LeadsTo(E, y, a.order[k]) \/ Before(a.order, k, y))
      BY <1>2, <2>1, <3>1 DEF Followed
    <3>3. ASSUME Before(a.order, k, y) PROVE Before(r.order, k, y)
      <4>1. PICK j \in 1..(k - 1) : a.order[j] = y
        BY <3>3 DEF Before
      <4>2. j \in 1..A
        BY <1>1, <2>1
      <4>3. r.order[j] = y
        BY <1>1, <4>1, <4>2
      <4> QED BY <4>3 DEF Before
    <3> QED BY <1>0, <3>1, <3>2, <3>3
  <2>2. CASE k - A \in 1..B /\ k = A + (k - A)
    <3>1. r.order[k] = b.order[k - A]
      BY <1>1, <2>2
    <3>2. y \in b.seen /\ (y \in a.seen \/ LeadsTo(E, y, b.order[k - A]) \/ Before(b.order, k - A, y))
      BY <1>2, <2>2, <3>1 DEF Followed
    <3>3. ASSUME Before(b.order, k - A, y) PROVE Before(r.order, k, y)
      <4>1. PICK j \in 1..(k - A - 1) : b.order[j] = y
        BY <3>3 DEF Before
      <4>2. j \in 1..B /\ A + j \in 1..(k - 1)
        BY <1>1, <2>2
      <4>3. r.order[A + j] = y
        BY <1>1, <4>1, <4>2
      <4> QED BY <4>2, <4>3 DEF Before
    <3>4. ASSUME y \in a.seen, y \notin past PROVE Before(r.order, k, y)
      <4>1. PICK j \in 1..A : a.order[j] = y
        BY <1>2, <3>4 DEF Found
      <4>2. j \in 1..(k - 1)
        BY <1>1, <2>2
      <4>3. r.order[j] = y
        BY <1>1, <4>1
      <4> QED BY <4>2, <4>3 DEF Before
    <3> QED BY <3>1, <3>2, <3>3, <3>4
  <2> QED BY <1>1, <2>1, <2>2
<1> QED BY <1>0, <1>5, <1>6, <1>7 DEF Walked
(* And the block itself after what follows from it.                        *)
LEMMA WalkedThrough ==
  ASSUME NEW E \in SUBSET (Node \X Node), NEW n \in Node, NEW past \in SUBSET Node, n \notin past, NEW all, NEW r,
         Walked(E, Successors(E, n), past \cup {n}, all), Successors(E, n) \subseteq all.seen,
         r \in Result, r.seen = all.seen, r.order = all.order \o <<n>>
  PROVE  Walked(E, {n}, past, r) /\ n \in r.seen
<1> DEFINE A == Len(all.order)
           N == Len(r.order)
<1>0. /\ all.seen \in SUBSET Node /\ all.order \in Seq(Node)
      /\ past \subseteq all.seen /\ n \in all.seen
  BY DEF Walked, Result
<1>1. /\ A \in Nat /\ N = A + 1 /\ \A i \in 1..A : i \in 1..N /\ r.order[i] = all.order[i]
      /\ r.order[N] = n /\ N \in 1..N /\ \A k \in 1..N : k \in 1..A \/ k = N
  <2> DEFINE s == all.order
  <2>1. s \in Seq(Node) /\ r.order = s \o <<n>> /\ <<n>> \in Seq(Node) /\ Len(<<n>>) = 1 /\ <<n>>[1] = n
    BY <1>0
  <2> HIDE DEF s
  <2>2. /\ Len(s) \in Nat /\ Len(s \o <<n>>) = Len(s) + 1
        /\ \A i \in 1..Len(s) : i \in 1..Len(s \o <<n>>) /\ (s \o <<n>>)[i] = s[i]
        /\ Len(s) + 1 \in 1..Len(s \o <<n>>) /\ (s \o <<n>>)[Len(s) + 1] = n
        /\ \A k \in 1..Len(s \o <<n>>) : k \in 1..Len(s) \/ k = Len(s) + 1
    BY <2>1
  <2> QED BY <2>1, <2>2 DEF s
<1>2. /\ Found(E, Successors(E, n), past \cup {n}, all) /\ Listed(past \cup {n}, all)
      /\ Followed(E, past \cup {n}, all)
  BY DEF Walked
<1>3. \A i \in 1..A : all.order[i] \in all.seen \ (past \cup {n})
  BY <1>2 DEF Listed
<1>4. ASSUME NEW m \in Successors(E, n), NEW x, LeadsTo(E, m, x) PROVE LeadsTo(E, n, x)
  <2> SUFFICES ASSUME NEW C \in SUBSET Node, n \in C, Closed(C, E) PROVE x \in C
    BY DEF LeadsTo
  <2>1. m \in C
    BY DEF Closed
  <2> QED BY <1>4, <2>1 DEF LeadsTo
<1>5. LeadsTo(E, n, n)
  BY DEF LeadsTo
<1>6. Found(E, {n}, past, r)
  <2> SUFFICES ASSUME NEW x \in r.seen \ past
               PROVE  LeadsTo(E, n, x) /\ (\E i \in 1..N : r.order[i] = x)
    BY DEF Found
  <2>1. CASE x = n
    BY <1>1, <1>5, <2>1
  <2>2. CASE x # n
    <3>1. (\E m \in Successors(E, n) : LeadsTo(E, m, x)) /\ (\E i \in 1..A : all.order[i] = x)
      BY <1>2, <2>2 DEF Found
    <3> HIDE DEF A, N
    <3> QED BY <1>1, <1>4, <3>1
  <2> QED BY <2>1, <2>2
<1>7. Listed(past, r)
  <2>0. \A k, l \in 1..A : k # l => all.order[k] # all.order[l]
    BY <1>2 DEF Listed
  <2>1. \A k \in 1..N : r.order[k] \in r.seen \ past
    <3> HIDE DEF A, N
    <3> QED BY <1>0, <1>1, <1>3
  <2>2. \A i, j \in 1..N : i # j => r.order[i] # r.order[j]
    <3> HIDE DEF A, N
    <3> SUFFICES ASSUME NEW i \in 1..N, NEW j \in 1..N, i # j PROVE r.order[i] # r.order[j]
      OBVIOUS
    <3>1. CASE i \in 1..A /\ j \in 1..A
      BY <1>1, <2>0, <3>1
    <3>2. CASE i \in 1..A /\ j = N
      BY <1>1, <1>3, <3>2
    <3>3. CASE i = N /\ j \in 1..A
      BY <1>1, <1>3, <3>3
    <3> QED BY <1>1, <3>1, <3>2, <3>3
  <2> QED BY <2>1, <2>2 DEF Listed
<1>8. Followed(E, past, r)
  <2> SUFFICES ASSUME NEW k \in 1..N, NEW y \in Successors(E, r.order[k])
               PROVE  /\ y \in r.seen
                      /\ y \in past \/ LeadsTo(E, y, r.order[k]) \/ Before(r.order, k, y)
    BY DEF Followed
  <2>1. CASE k \in 1..A
    <3>1. r.order[k] = all.order[k]
      BY <1>1, <2>1
    <3>2. y \in all.seen /\ (y \in past \cup {n} \/ LeadsTo(E, y, all.order[k]) \/ Before(all.order, k, y))
      BY <1>2, <2>1, <3>1 DEF Followed
    <3>3. ASSUME Before(all.order, k, y) PROVE Before(r.order, k, y)
      <4>1. PICK j \in 1..(k - 1) : all.order[j] = y
        BY <3>3 DEF Before
      <4>2. j \in 1..A
        BY <1>1, <2>1
      <4>3. r.order[j] = y
        BY <1>1, <4>1, <4>2
      <4> QED BY <4>3 DEF Before
    <3>4. ASSUME y = n PROVE LeadsTo(E, y, r.order[k])
      <4>1. all.order[k] \in all.seen \ (past \cup {n})
        BY <1>3, <2>1
      <4>2. PICK m \in Successors(E, n) : LeadsTo(E, m, all.order[k])
        BY <1>2, <4>1 DEF Found
      <4> QED BY <1>4, <3>1, <3>4, <4>2
    <3> QED BY <3>1, <3>2, <3>3, <3>4
  <2>2. CASE k = N
    <3>1. y \in Successors(E, n) /\ r.order[k] = n
      BY <1>1, <2>2
    <3>2. y \in all.seen
      BY <3>1
    <3>3. ASSUME y # n, y \notin past PROVE Before(r.order, k, y)
      <4>1. PICK i \in 1..A : all.order[i] = y
        BY <1>2, <3>2, <3>3 DEF Found
      <4>2. i \in 1..(k - 1) /\ r.order[i] = y
        BY <1>1, <2>2, <4>1
      <4> QED BY <4>2 DEF Before
    <3> QED BY <1>5, <3>1, <3>2, <3>3
  <2> QED BY <1>1, <2>1, <2>2
<1> QED BY <1>0, <1>6, <1>7, <1>8 DEF Walked
-----------------------------------------------------------------------------
(* Deep enough for the blocks not yet known, a call explores them.         *)
Explores(E, V, d) ==
  \A m \in Node, past \in SUBSET Node :
    Cardinality(Node \ past) <= d =>
      Walked(E, {m}, past, V[<<m, past>>]) /\ m \in V[<<m, past>>].seen

LEMMA FewerLeft ==
  ASSUME Blocks, NEW past \in SUBSET Node, NEW n \in Node \ past, NEW more \in SUBSET Node,
         past \subseteq more, n \in more, NEW d \in Nat, Cardinality(Node \ past) <= d
  PROVE  d # 0 /\ Cardinality(Node \ more) <= d - 1
<1>0. IsFiniteSet(Node \ past)
  BY FS_Subset, Node \ past \subseteq Node DEF Blocks
<1>1. Cardinality((Node \ past) \ {n}) = Cardinality(Node \ past) - 1 /\ Cardinality(Node \ past) \in Nat
  BY <1>0, FS_RemoveElement, FS_CardinalityType
<1>2. IsFiniteSet((Node \ past) \ {n}) /\ Cardinality((Node \ past) \ {n}) \in Nat
  BY <1>0, FS_RemoveElement, FS_CardinalityType
<1>3. Node \ more \subseteq (Node \ past) \ {n}
  OBVIOUS
<1>4. Cardinality(Node \ more) <= Cardinality((Node \ past) \ {n}) /\ Cardinality(Node \ more) \in Nat
  BY <1>2, <1>3, FS_Subset, FS_CardinalityType
<1> QED BY <1>1, <1>2, <1>4

LEMMA CallExplores ==
  ASSUME Blocks, NEW E \in SUBSET (Node \X Node), NEW V \in Level, NEW d \in Nat,
         d = 0 \/ Explores(E, V, d - 1)
  PROVE  Explores(E, Onto(V, E, d), d)
<1>a. Answers(V, E, d)
  BY OntoType
<1> SUFFICES ASSUME NEW n \in Node, NEW past \in SUBSET Node, Cardinality(Node \ past) <= d
             PROVE  /\ Walked(E, {n}, past, Onto(V, E, d)[<<n, past>>])
                    /\ n \in Onto(V, E, d)[<<n, past>>].seen
  BY DEF Explores
<1>0. Onto(V, E, d)[<<n, past>>] =
        IF n \in past \/ d = 0 THEN [seen |-> past, order |-> <<>>] ELSE Explored(V, E, <<n, past>>)
  BY <1>a DEF Answers
<1>1. CASE n \in past
  <2>1. Onto(V, E, d)[<<n, past>>] = [seen |-> past, order |-> <<>>]
    BY <1>0, <1>1
  <2>2. [seen |-> past, order |-> <<>>].seen = past
    OBVIOUS
  <2> QED BY <1>1, <2>1, <2>2, NothingWalked
<1>2. CASE n \notin past
  <2> DEFINE next == NextOf(E, n)
             L == Len(next)
             start == past \cup {n}
             S == Successors(E, n)
  <2>0. start \in SUBSET Node /\ past \subseteq start /\ n \in start
    OBVIOUS
  <2>1. d # 0
    BY <1>2, <2>0, FewerLeft
  <2>2. PICK t : Steps(t, V, E, n, past)
    BY ThroughIs
  <2>3. /\ t[0] = [seen |-> start, order |-> <<>>]
        /\ \A k \in 0..L : t[k] \in Result
        /\ \A k \in 1..L : t[k] = Joined(V, t[k - 1], next[k])
        /\ Explored(V, E, <<n, past>>) = [seen |-> t[L].seen, order |-> t[L].order \o <<n>>]
    BY <2>2 DEF Steps
  <2>4. /\ L \in Nat /\ S \in SUBSET Node /\ \A k \in 1..L : next[k] \in S
        /\ \A m \in S : \E k \in 1..L : next[k] = m
    BY NextType
  <2> HIDE DEF next, L, S
  <2> DEFINE T == {k \in 0..L : Walked(E, S, start, t[k]) /\ \A j \in 1..k : next[j] \in t[k].seen}
  <2>5. 0 \in T
    <3>1. Walked(E, S, start, t[0])
      BY <2>0, <2>3, NothingWalked
    <3>2. 0 \in 0..L /\ 1..0 = {}
      BY <2>4
    <3> QED BY <3>1, <3>2
  <2>6. ASSUME NEW k \in 1..L, k - 1 \in T PROVE k \in T
    <3> DEFINE a == t[k - 1]
               m == next[k]
               b == V[<<m, a.seen>>]
    <3>0. k \in 0..L /\ k - 1 \in 0..L
      BY <2>4
    <3>1. Walked(E, S, start, a) /\ (\A j \in 1..(k - 1) : next[j] \in a.seen) /\ a \in Result
      BY <2>3, <2>6, <3>0
    <3>2. m \in S /\ m \in Node
      BY <2>4
    <3>3. t[k] \in Result /\ t[k].seen = b.seen /\ t[k].order = a.order \o b.order
      <4>1. t[k] = Joined(V, a, m)
        BY <2>3
      <4> HIDE DEF a, m
      <4>2. a \in Result /\ m \in Node
        BY <3>1, <3>2
      <4>3. Joined(V, a, m) \in Result /\ Joined(V, a, m).seen = b.seen /\ Joined(V, a, m).order = a.order \o b.order
        BY <4>2, JoinedType
      <4> QED BY <4>1, <4>3
    <3>4. a.seen \in SUBSET Node /\ past \subseteq a.seen /\ n \in a.seen
      BY <3>1 DEF Walked, Result
    <3> HIDE DEF a, m
    <3>5. Walked(E, {m}, a.seen, b) /\ m \in b.seen
      <4>1. Cardinality(Node \ a.seen) <= d - 1
        BY <1>2, <3>4, FewerLeft
      <4> QED BY <2>1, <3>2, <3>4, <4>1 DEF Explores
    <3> HIDE DEF b
    <3>6. {m} \in SUBSET S
      BY <3>2
    <3> HIDE DEF start
    <3>7. Walked(E, S, start, t[k]) /\ a.seen \subseteq t[k].seen
      BY <2>0, <3>1, <3>3, <3>5, <3>6, WalkedOn
    <3>8. \A j \in 1..k : next[j] \in t[k].seen
      <4> SUFFICES ASSUME NEW j \in 1..k PROVE next[j] \in t[k].seen
        OBVIOUS
      <4>1. CASE j = k
        BY <3>3, <3>5, <4>1 DEF m
      <4>2. CASE j # k
        <5>1. j \in 1..(k - 1)
          BY <2>4, <4>2
        <5> QED BY <3>1, <3>7, <5>1
      <4> QED BY <4>1, <4>2
    <3> QED BY <3>0, <3>7, <3>8
  <2>7. L \in T
    <3> HIDE DEF T
    <3>1. 0..L \subseteq T
      BY <2>4, <2>5, <2>6, UpTo
    <3> QED BY <2>4, <3>1
  <2>8. Walked(E, S, start, t[L]) /\ S \subseteq t[L].seen
    BY <2>4, <2>7
  <2> DEFINE r == Onto(V, E, d)[<<n, past>>]
  <2>9. r \in Result /\ r.seen = t[L].seen /\ r.order = t[L].order \o <<n>>
    <3>1. r = [seen |-> t[L].seen, order |-> t[L].order \o <<n>>]
      BY <1>0, <1>2, <2>1, <2>3
    <3>2. r \in Result
      <4>1. Onto(V, E, d) \in Level /\ <<n, past>> \in Node \X SUBSET Node
        BY OntoType
      <4> QED BY <4>1 DEF Level
    <3> QED BY <3>1, <3>2
  <2> HIDE DEF r
  <2>10. Walked(E, {n}, past, r) /\ n \in r.seen
    BY <1>2, <2>8, <2>9, WalkedThrough DEF S, start
  <2> QED BY <2>10 DEF r
<1> QED BY <1>1, <1>2
-----------------------------------------------------------------------------
LEMMA WalkIs ==
  ASSUME Blocks, NEW E \in SUBSET (Node \X Node), NEW s \in Node
  PROVE  /\ Walked(E, {s}, {}, Walk(Node, E, s))
         /\ s \in Walk(Node, E, s).seen
<1> DEFINE N == Cardinality(Node)
<1>0. N \in Nat
  BY FS_CardinalityType DEF Blocks
<1>1. PICK v : /\ \A d \in 0..N : v[d] \in Level
               /\ \A d \in 0..N : v[d] = Onto(v[d - 1], E, d)
               /\ Walk(Node, E, s) = v[N][<<s, {}>>]
  BY VisitIs
<1> DEFINE T == {d \in 0..N : Explores(E, v[d], d)}
<1> HIDE DEF N
<1>2. 0 \in T
  <2>1. 0 \in 0..N /\ v[0] \in Level
    BY <1>0, <1>1
  <2>2. v[0] = Onto(v[0 - 1], E, 0) /\ Onto(v[0 - 1], E, 0) = Onto(v[0], E, 0)
    <3>1. v[0] = Onto(v[0 - 1], E, 0)
      BY <1>1, <2>1
    <3>2. \A V, W : Onto(V, E, 0) = Onto(W, E, 0)
      BY DEF Onto
    <3> QED BY <3>1, <3>2
  <2>3. Explores(E, Onto(v[0], E, 0), 0)
    <3> DEFINE w == v[0]
    <3>1. w \in Level
      BY <2>1
    <3> HIDE DEF w
    <3>2. Explores(E, Onto(w, E, 0), 0)
      BY <3>1, CallExplores
    <3> QED BY <3>2 DEF w
  <2> QED BY <2>1, <2>2, <2>3
<1>3. ASSUME NEW d \in 1..N, d - 1 \in T PROVE d \in T
  <2>1. d \in 0..N /\ d \in Nat /\ d - 1 \in 0..N /\ Explores(E, v[d - 1], d - 1) /\ v[d - 1] \in Level
    BY <1>0, <1>1, <1>3
  <2> DEFINE w == v[d - 1]
  <2>2. w \in Level /\ Explores(E, w, d - 1)
    BY <2>1
  <2> HIDE DEF w
  <2>3. Explores(E, Onto(w, E, d), d)
    BY <2>1, <2>2, CallExplores
  <2>4. v[d] = Onto(w, E, d)
    BY <1>1, <2>1 DEF w
  <2> QED BY <2>1, <2>3, <2>4
<1> HIDE DEF T
<1>4. N \in T
  BY <1>0, <1>2, <1>3, UpTo
<1>5. Explores(E, v[N], N)
  BY <1>4 DEF T
<1>6. Cardinality(Node \ {}) <= N
  BY <1>0 DEF N
<1> QED BY <1>1, <1>5, <1>6 DEF Explores

(* visit_postorder finds the block it starts from and all that follows     *)
(* from it, and no other block.                                            *)
THEOREM WalkReaches ==
  ASSUME Blocks, NEW E \in SUBSET (Node \X Node), NEW s \in Node
  PROVE  /\ s \in Reachable(Node, E, s) /\ Reachable(Node, E, s) \in SUBSET Node
         /\ Closed(Reachable(Node, E, s), E)
         /\ Reachable(Node, E, s) = ReachableFrom(Node, E, s)
<1> DEFINE r == Walk(Node, E, s)
<1>1. Walked(E, {s}, {}, r) /\ s \in r.seen
  BY WalkIs
<1> HIDE DEF r
<1>2. r.seen \in SUBSET Node /\ Found(E, {s}, {}, r) /\ Followed(E, {}, r)
  BY <1>1 DEF Walked, Result
<1>3. Closed(r.seen, E)
  <2> SUFFICES ASSUME NEW n \in r.seen, NEW y \in Successors(E, n) PROVE y \in r.seen
    BY DEF Closed
  <2>1. PICK i \in 1..Len(r.order) : r.order[i] = n
    BY <1>2 DEF Found
  <2> QED BY <1>2, <2>1 DEF Followed
<1>4. ASSUME NEW C \in SUBSET Node, s \in C, Closed(C, E) PROVE r.seen \subseteq C
  BY <1>2, <1>4 DEF Found, LeadsTo
<1> DEFINE C == ReachableFrom(Node, E, s)
<1>5. s \in C /\ C \in SUBSET Node /\ \A e \in E : e[1] \in C => e[2] \in C
  BY ReachesAll
<1>6. C \subseteq r.seen
  <2>1. ASSUME NEW e \in E, e[1] \in r.seen PROVE e[2] \in r.seen
    <3>1. e = <<e[1], e[2]>> /\ e[1] \in Node
      OBVIOUS
    <3>2. e[2] \in Successors(E, e[1])
      <4> DEFINE n == e[1]
      <4>1. n \in Node /\ <<n, e[2]>> \in E
        BY <3>1
      <4> HIDE DEF n
      <4>2. \A m : m \in Successors(E, n) <=> <<n, m>> \in E
        BY <4>1, NextType
      <4> QED BY <4>1, <4>2 DEF n
    <3> QED BY <1>3, <2>1, <3>2 DEF Closed
  <2> HIDE DEF C
  <2> QED BY <1>1, <2>1, ReachesOnly DEF C
<1> HIDE DEF C
<1>7. Closed(C, E)
  <2> SUFFICES ASSUME NEW n \in C, NEW m \in Successors(E, n) PROVE m \in C
    BY DEF Closed
  <2>1. n \in Node
    BY <1>5
  <2>2. <<n, m>> \in E /\ <<n, m>>[1] = n /\ <<n, m>>[2] = m
    BY <2>1, NextType
  <2> QED BY <1>5, <2>2
<1>8. r.seen = C
  BY <1>4, <1>5, <1>6, <1>7
<1> QED BY <1>1, <1>2, <1>3, <1>8 DEF Reachable, r, C

(* The order of solve_dataflow, and where it finds the blocks.              *)
OrderOf(E, s, forward) == EvaluationOrder(forward, Postorder(Node, E, s))
ListsAll(w, S) ==
  /\ w \in Seq(S)
  /\ \A i, j \in DOMAIN w : i # j => w[i] # w[j]
  /\ \A n \in S : \E i \in DOMAIN w : w[i] = n
Flows(E, forward, n, m) == (IF forward THEN <<n, m>> ELSE <<m, n>>) \in E
InFlow(w, E, forward) == \A i, j \in DOMAIN w : Flows(E, forward, w[i], w[j]) => i < j

LEMMA WalkOrders ==
  ASSUME Blocks, NEW E \in SUBSET (Node \X Node), NEW s \in Node, NEW forward \in BOOLEAN
  PROVE  /\ ListsAll(OrderOf(E, s, forward), Reachable(Node, E, s))
         /\ (\A n \in Reachable(Node, E, s) : ~OnCycle(Node, E, n)) => InFlow(OrderOf(E, s, forward), E, forward)
<1> DEFINE r == Walk(Node, E, s)
           o == r.order
           L == Len(o)
           walk == EvaluationOrder(forward, o)
           Acyclic == \A n \in r.seen : ~OnCycle(Node, E, n)
<1>1. Walked(E, {s}, {}, r)
  BY WalkIs
<1> HIDE DEF r
<1>2. /\ o \in Seq(Node) /\ Found(E, {s}, {}, r) /\ Listed({}, r) /\ Followed(E, {}, r)
      /\ r.seen \in SUBSET Node
  BY <1>1 DEF Walked, Result
<1>3. /\ L \in Nat /\ DOMAIN o = 1..L
      /\ \A i \in 1..L : o[i] \in r.seen
      /\ \A i, j \in 1..L : i # j => o[i] # o[j]
      /\ \A n \in r.seen : \E i \in 1..L : o[i] = n
  BY <1>2 DEF Found, Listed
<1>4. ASSUME Acyclic, NEW i \in 1..L, NEW j \in 1..L, <<o[i], o[j]>> \in E PROVE j < i
  <2>1. o[j] \in Successors(E, o[i]) /\ o[i] \in Node /\ o[j] \in Node
    BY <1>2, <1>3, <1>4, NextType
  <2>2. LeadsTo(E, o[j], o[i]) \/ Before(o, i, o[j])
    BY <1>2, <2>1 DEF Followed
  <2>3. ~LeadsTo(E, o[j], o[i])
    <3> SUFFICES ASSUME LeadsTo(E, o[j], o[i]) PROVE FALSE
      OBVIOUS
    <3> DEFINE C == ReachableFrom(Node, E, o[j])
    <3>1. o[j] \in C /\ C \subseteq Node /\ \A e \in E : e[1] \in C => e[2] \in C
      BY <2>1, ReachesAll
    <3> HIDE DEF C
    <3>2. Closed(C, E)
      <4> SUFFICES ASSUME NEW n \in C, NEW m \in Successors(E, n) PROVE m \in C
        BY DEF Closed
      <4>1. n \in Node
        BY <3>1
      <4>2. <<n, m>> \in E /\ <<n, m>>[1] = n /\ <<n, m>>[2] = m
        BY <4>1, NextType
      <4> QED BY <3>1, <4>2
    <3>3. o[i] \in C
      BY <3>1, <3>2 DEF LeadsTo
    <3>4. OnCycle(Node, E, o[i])
      BY <2>1, <3>3 DEF OnCycle, C
    <3> QED BY <1>3, <1>4, <3>4
  <2>4. PICK k \in 1..(i - 1) : o[k] = o[j]
    BY <2>2, <2>3 DEF Before
  <2>5. k \in 1..L
    BY <1>3
  <2>6. k = j
    BY <1>3, <2>4, <2>5
  <2> QED BY <1>3, <2>4, <2>6
<1> DEFINE Good(w) ==
             /\ w \in Seq(r.seen)
             /\ \A i, j \in DOMAIN w : i # j => w[i] # w[j]
             /\ \A n \in r.seen : \E i \in DOMAIN w : w[i] = n
             /\ Acyclic =>
                  \A i, j \in DOMAIN w :
                    (IF forward THEN <<w[i], w[j]>> ELSE <<w[j], w[i]>>) \in E => i < j
<1>5. ASSUME ~forward PROVE Good(walk)
  <2>1. walk = o
    BY <1>5 DEF EvaluationOrder
  <2>2. o \in Seq(r.seen)
    <3>1. o = [i \in 1..L |-> o[i]]
      BY <1>2
    <3>2. o \in [1..L -> r.seen]
      <4> HIDE DEF o, L
      <4> QED BY <1>3, <3>1
    <3> HIDE DEF o, L
    <3> QED BY <1>3, <3>2
  <2> HIDE DEF o, L, Acyclic
  <2>3. Good(o)
    BY <1>3, <1>4, <1>5, <2>2
  <2> QED BY <2>1, <2>3
<1>6. ASSUME forward PROVE Good(walk)
  <2> HIDE DEF L, Acyclic, o
  <2>1. walk = [i \in 1..L |-> o[L - i + 1]]
    BY <1>6 DEF EvaluationOrder, Reverse, L
  <2> HIDE DEF walk
  <2>2. DOMAIN walk = 1..L /\ \A i \in 1..L : walk[i] = o[L - i + 1] /\ L - i + 1 \in 1..L
    BY <1>3, <2>1
  <2>3. walk \in Seq(r.seen)
    <3>1. walk \in [1..L -> r.seen]
      BY <1>3, <2>1, <2>2
    <3> QED BY <1>3, <3>1
  <2>4. \A i, j \in 1..L : i # j => walk[i] # walk[j]
    <3> SUFFICES ASSUME NEW i \in 1..L, NEW j \in 1..L, i # j PROVE walk[i] # walk[j]
      OBVIOUS
    <3>1. L - i + 1 # L - j + 1
      BY <1>3
    <3> QED BY <1>3, <2>2, <3>1
  <2>5. ASSUME NEW n \in r.seen PROVE \E i \in 1..L : walk[i] = n
    <3>1. PICK k \in 1..L : o[k] = n
      BY <1>3
    <3>2. L - k + 1 \in 1..L /\ L - (L - k + 1) + 1 = k
      BY <1>3
    <3>3. walk[L - k + 1] = n
      BY <2>2, <3>1, <3>2
    <3> QED BY <3>2, <3>3
  <2>6. ASSUME Acyclic, NEW i \in 1..L, NEW j \in 1..L, <<walk[i], walk[j]>> \in E PROVE i < j
    <3>1. L - j + 1 < L - i + 1
      BY <1>4, <2>2, <2>6
    <3> QED BY <1>3, <3>1
  <2> QED BY <1>6, <2>2, <2>3, <2>4, <2>5, <2>6
<1>7. Good(walk)
  BY <1>5, <1>6
<1>8. Reachable(Node, E, s) = r.seen /\ Postorder(Node, E, s) = o
  BY DEF Reachable, Postorder, r
<1> HIDE DEF o
<1> QED BY <1>7, <1>8 DEF ListsAll, InFlow, Flows, OrderOf

(* The order of solve_dataflow lists what the walk found, each block once. *)
THEOREM WalkLists ==
  ASSUME Blocks, NEW E \in SUBSET (Node \X Node), NEW s \in Node, NEW forward \in BOOLEAN
  PROVE  ListsAll(OrderOf(E, s, forward), Reachable(Node, E, s))
BY WalkOrders

(* Where none of these blocks is on a loop, a block is listed before all   *)
(* that its facts flow to, forwards or backwards.                          *)
THEOREM WalkIsTopological ==
  ASSUME Blocks, NEW E \in SUBSET (Node \X Node), NEW s \in Node, NEW forward \in BOOLEAN,
         \A n \in Reachable(Node, E, s) : ~OnCycle(Node, E, n)
  PROVE  InFlow(OrderOf(E, s, forward), E, forward)
BY WalkOrders
=============================================================================

---------------------------- MODULE StorageProofs ----------------------------
(***************************************************************************)
(* For routines of any size and shape: forwarding loads and dropping       *)
(* stores changes nothing that the routine, its callees or a fault find.   *)
(***************************************************************************)
EXTENDS MCStorage, FiniteSetTheorems, WellFoundedInduction, TLAPS

-----------------------------------------------------------------------------
(* Induction, from the well-founded order on the natural numbers.          *)
LEMMA LessWellFounded ==
  \E R : IsWellFoundedOn(R, Nat) /\ \A x, y \in Nat : y < x => <<y, x>> \in R
<1>1. PICK R : R = OpToRel(<, Nat)
  OBVIOUS
<1>2. IsWellFoundedOn(R, Nat)
  BY <1>1, NatLessThanWellFounded, Zenon
<1>3. ASSUME NEW x \in Nat, NEW y \in Nat, y < x PROVE <<y, x>> \in R
  <2>1. R = {ss \in Nat \X Nat : ss[1] < ss[2]}
    BY <1>1 DEF OpToRel
  <2> QED BY <1>3, <2>1
<1> QED BY <1>2, <1>3

LEMMA LeastNumber ==
  ASSUME NEW T \in SUBSET Nat, T # {}
  PROVE  \E x \in T : \A y \in T : x <= y
<1>1. PICK R : IsWellFoundedOn(R, Nat) /\ \A x, y \in Nat : y < x => <<y, x>> \in R
  BY LessWellFounded
<1>2. PICK x \in T : \A y \in T : ~(<<y, x>> \in R)
  BY <1>1, WFMin, Zenon
<1>3. \A y \in T : ~(y < x)
  BY <1>1, <1>2
<1> QED BY <1>2, <1>3

LEMMA UpTo ==
  ASSUME NEW c \in Nat, NEW T, 0 \in T, \A k \in 1..c : k - 1 \in T => k \in T
  PROVE  0..c \subseteq T
<1> SUFFICES ASSUME (0..c) \ T # {} PROVE FALSE
  OBVIOUS
<1>1. PICK x \in (0..c) \ T : \A y \in (0..c) \ T : x <= y
  BY LeastNumber, (0..c) \ T \in SUBSET Nat
<1>2. x \in 1..c /\ x - 1 \in 0..c /\ x - 1 < x
  BY <1>1
<1>3. x - 1 \in T
  BY <1>1, <1>2
<1> QED BY <1>1, <1>2, <1>3

-----------------------------------------------------------------------------
(* Recursive functions, a step at a time.                                  *)
Stage(F, f, k, x) == IF k = 0 THEN x ELSE F[<<k, f[k - 1]>>]

Iteration(f, n, D, x, F) ==
  /\ f = [k \in 0..n |-> Stage(F, f, k, x)]
  /\ \A k \in 0..n : f[k] \in D

LEMMA Iterates ==
  ASSUME NEW n \in Nat, NEW D, NEW x \in D, NEW F, \A k \in 1..n, d \in D : F[<<k, d>>] \in D
  PROVE  \E f : Iteration(f, n, D, x, F)
<1> DEFINE Good(f, m) == /\ f = [k \in 0..n |-> f[k]]
                         /\ \A k \in 0..m : f[k] = Stage(F, f, k, x) /\ f[k] \in D
           T == {m \in 0..n : \E f : Good(f, m)}
<1>1. 0 \in T
  <2> DEFINE f == [k \in 0..n |-> x]
  <2>1. f = [k \in 0..n |-> f[k]] /\ f[0] = x
    OBVIOUS
  <2> HIDE DEF f
  <2>2. Good(f, 0)
    BY <2>1 DEF Stage
  <2> HIDE DEF Good
  <2> QED BY <2>2
<1>2. ASSUME NEW m \in 1..n, m - 1 \in T PROVE m \in T
  <2>1. PICK f : Good(f, m - 1)
    BY <1>2
  <2> DEFINE y == F[<<m, f[m - 1]>>]
             g == [k \in 0..n |-> IF k = m THEN y ELSE f[k]]
  <2>2. f[m - 1] \in D
    <3>1. m - 1 \in 0..(m - 1)
      BY <1>2
    <3> QED BY <2>1, <3>1
  <2>3. y \in D
    BY <2>2
  <2> HIDE DEF y
  <2>4. g = [k \in 0..n |-> g[k]] /\ g[m] = y /\ \A k \in 0..(m - 1) : g[k] = f[k]
    OBVIOUS
  <2> HIDE DEF g
  <2>5. ASSUME NEW k \in 0..m PROVE g[k] = Stage(F, g, k, x) /\ g[k] \in D
    <3>1. CASE k = m
      <4>1. g[k - 1] = f[m - 1] /\ k # 0
        BY <2>4, <3>1
      <4> QED BY <2>3, <2>4, <3>1, <4>1 DEF Stage, y
    <3>2. CASE k # m
      <4>1. k \in 0..(m - 1) /\ (k # 0 => k - 1 \in 0..(m - 1))
        BY <3>2
      <4>2. g[k] = f[k] /\ (k # 0 => g[k - 1] = f[k - 1])
        BY <2>4, <4>1
      <4>3. f[k] = Stage(F, f, k, x) /\ f[k] \in D
        BY <2>1, <4>1
      <4> QED BY <4>2, <4>3 DEF Stage
    <3> QED BY <3>1, <3>2
  <2>6. Good(g, m)
    BY <2>4, <2>5
  <2> HIDE DEF Good
  <2> QED BY <2>6
<1>3. n \in T
  <2> HIDE DEF T
  <2>1. 0..n \subseteq T
    BY <1>1, <1>2, UpTo
  <2> QED BY <2>1
<1>4. PICK f : Good(f, n)
  BY <1>3
<1>5. f = [k \in 0..n |-> Stage(F, f, k, x)]
  <2>1. f = [k \in 0..n |-> f[k]] /\ \A k \in 0..n : f[k] = Stage(F, f, k, x)
    BY <1>4
  <2>2. [k \in 0..n |-> f[k]] = [k \in 0..n |-> Stage(F, f, k, x)]
    BY <2>1
  <2> QED BY <2>1, <2>2
<1> QED BY <1>4, <1>5 DEF Iteration

-----------------------------------------------------------------------------
(* What ReachableFrom computes: the least set that holds the start and     *)
(* whatever an edge leads to from it.                                      *)
Walks == INSTANCE FlowGraphProofs

LEMMA BlocksOK == Walks!Blocks
  BY BlockAssumption, SMTT(30) DEF Walks!Blocks, Walks!IsFiniteSet, IsFiniteSet

LEMMA SameReach == \A E, s : Graph!ReachableFrom(Node, E, s) = Walks!ReachableFrom(Node, E, s)
  BY DEF Graph!ReachableFrom, Walks!ReachableFrom, Graph!Successors, Walks!Successors,
         Graph!Cardinality, Walks!Cardinality

LEMMA ReachesAll ==
  ASSUME NEW E \in SUBSET (Node \X Node), NEW s \in Node
  PROVE  /\ s \in Graph!ReachableFrom(Node, E, s)
         /\ Graph!ReachableFrom(Node, E, s) \subseteq Node
         /\ \A e \in E : e[1] \in Graph!ReachableFrom(Node, E, s) => e[2] \in Graph!ReachableFrom(Node, E, s)
BY BlocksOK, SameReach, Walks!ReachesAll

LEMMA ReachesOnly ==
  ASSUME NEW E \in SUBSET (Node \X Node), NEW s \in Node,
         NEW S, s \in S, \A e \in E : e[1] \in S => e[2] \in S
  PROVE  Graph!ReachableFrom(Node, E, s) \subseteq S
BY BlocksOK, SameReach, Walks!ReachesOnly
-----------------------------------------------------------------------------
(* Names: a temp, a home and a constant are never the same.                *)
LEMMA TempShape ==
  ASSUME NEW t \in Temps
  PROVE  /\ t = Temp(t[2], t[3]) /\ IsTemp(t)
         /\ t[2] \in Node /\ t[3] \in DOMAIN source[t[2]] /\ DefinesTemp(source[t[2]][t[3]])
<1>0. PICK n \in Node : \E i \in DOMAIN source[n] : t = Temp(n, i) /\ DefinesTemp(source[n][i])
  BY DEF Temps
<1>1. PICK i \in DOMAIN source[n] : t = Temp(n, i) /\ DefinesTemp(source[n][i])
  BY <1>0
<1>2. t[1] = "temp" /\ t[2] = n /\ t[3] = i
  BY <1>1 DEF Temp
<1> QED
  BY <1>1, <1>2 DEF IsTemp

LEMMA TempNamed ==
  ASSUME NEW n \in Node, NEW i \in DOMAIN source[n], DefinesTemp(source[n][i])
  PROVE  Temp(n, i) \in Temps
  BY DEF Temps

LEMMA TempParts ==
  ASSUME NEW n, NEW i
  PROVE  IsTemp(Temp(n, i)) /\ Temp(n, i)[2] = n /\ Temp(n, i)[3] = i
  BY DEF Temp, IsTemp

LEMMA Apart ==
  /\ Const \notin Temps /\ NoValue \notin Temps /\ ~IsTemp(Const) /\ ~IsTemp(NoValue) /\ Const # NoValue
  /\ \A h : Place(h) \notin Temps /\ Place(h) # Const /\ Place(h) # NoValue /\ ~IsTemp(Place(h))
  /\ \A h, n, i : Place(h) # Temp(n, i)
  /\ \A g, h : Place(g) = Place(h) => g = h
<1>1. ~IsTemp(Const) /\ ~IsTemp(NoValue) /\ Const # NoValue
  BY DEF Const, NoValue, IsTemp
<1>2. ASSUME NEW h PROVE ~IsTemp(Place(h)) /\ Place(h) # Const /\ Place(h) # NoValue
  <2>1. Place(h)[1] = "home" /\ Const[1] = "const" /\ NoValue[1] = "none"
    BY DEF Place, Const, NoValue
  <2> QED
    BY <2>1 DEF IsTemp
<1>3. \A g, h : Place(g) = Place(h) => g = h
  BY DEF Place
<1> QED
  BY <1>1, <1>2, <1>3, TempShape, TempParts

LEMMA ImageFinite ==
  ASSUME NEW S, IsFiniteSet(S), NEW g
  PROVE  IsFiniteSet({g[x] : x \in S})
<1> DEFINE T == {g[x] : x \in S}
           h == [x \in S |-> g[x]]
<1>1. h \in Surjection(S, T)
  BY DEF Surjection
<1> HIDE DEF T, h
<1>2. IsFiniteSet(T)
  BY <1>1, FS_Surjection
<1> QED
  BY <1>2 DEF T

LEMMA TempsFinite == WellFormed => IsFiniteSet(Temps)
<1> SUFFICES ASSUME WellFormed PROVE IsFiniteSet(Temps)
  OBVIOUS
<1> DEFINE Of(n) == {Temp(n, i) : i \in {j \in DOMAIN source[n] : DefinesTemp(source[n][j])}}
           All == {Of(n) : n \in Node}
<1>1. ASSUME NEW n \in Node PROVE IsFiniteSet(Of(n))
  <2> DEFINE L == Len(source[n])
             J == {j \in DOMAIN source[n] : DefinesTemp(source[n][j])}
             g == [i \in J |-> Temp(n, i)]
  <2>1. DOMAIN source[n] = 1..L /\ L \in Nat
    BY DEF WellFormed
  <2> HIDE DEF L
  <2>2. IsFiniteSet(1..L)
    <3>1. 1 \in Int /\ L \in Int
      BY <2>1
    <3> QED
      BY <3>1, FS_Interval
  <2>3. J \subseteq 1..L
    BY <2>1
  <2>4. IsFiniteSet(J)
    BY <2>2, <2>3, FS_Subset
  <2> HIDE DEF J
  <2>5. IsFiniteSet({g[i] : i \in J})
    BY <2>4, ImageFinite
  <2>6. {g[i] : i \in J} = Of(n)
    BY DEF J
  <2> QED
    BY <2>5, <2>6
<1> HIDE DEF Of
<1>2. IsFiniteSet(All)
  <2> DEFINE g == [n \in Node |-> Of(n)]
  <2>1. IsFiniteSet({g[n] : n \in Node})
    BY BlockAssumption, ImageFinite
  <2>2. {g[n] : n \in Node} = All
    OBVIOUS
  <2> QED
    BY <2>1, <2>2
<1>3. \A S \in All : IsFiniteSet(S)
  BY <1>1
<1>4. IsFiniteSet(UNION All)
  BY <1>2, <1>3, FS_UNION
<1> QED
  BY <1>4 DEF Temps, Of

-----------------------------------------------------------------------------
(* Facts that hold of a value: both names have it, or neither has.         *)
Agree(known, names) == \A f \in known : f[1] \in names <=> f[2] \in names

(* Following replacements from a value leads to itself or to the right of  *)
(* some fact, and to an equal.                                             *)
AllFollow(r, v, known) ==
  [k \in 0..Cardinality(Temps) |-> IF k = 0 THEN v ELSE Onward(r[k - 1], known)]

LEMMA OnwardIs ==
  ASSUME NEW u, NEW known
  PROVE  Onward(u, known) = u \/ \E f \in known : f[1] = u /\ f[2] = Onward(u, known)
<1> DEFINE values == {f[2] : f \in {g \in known : g[1] = u}}
<1>1. Onward(u, known) = IF values = {} THEN u ELSE CHOOSE w \in values : TRUE
  BY DEF Onward
<1> QED
  BY <1>1

LEMMA ResolveIs ==
  ASSUME WellFormed, NEW v, NEW known
  PROVE  \E r : /\ r[0] = v
                /\ \A k \in 1..Cardinality(Temps) : r[k] = Onward(r[k - 1], known)
                /\ Resolve(v, known) = r[Cardinality(Temps)]
<1> DEFINE N == Cardinality(Temps)
           D == {v} \cup {f[2] : f \in known}
           F == [a \in (1..N) \X D |-> Onward(a[2], known)]
           Follow == CHOOSE r : r = AllFollow(r, v, known)
<1>0. N \in Nat
  BY TempsFinite, FS_CardinalityType
<1>1. v \in D
  OBVIOUS
<1>2. ASSUME NEW k \in 1..N, NEW d \in D PROVE F[<<k, d>>] = Onward(d, known) /\ F[<<k, d>>] \in D
  <2>1. F[<<k, d>>] = Onward(d, known)
    OBVIOUS
  <2> QED
    BY <2>1, OnwardIs
<1>3. \A k \in 1..N, d \in D : F[<<k, d>>] \in D
  BY <1>2
<1> HIDE DEF F, D, N
<1>4. PICK f : Iteration(f, N, D, v, F)
  BY <1>0, <1>1, <1>3, Iterates
<1>5. f = AllFollow(f, v, known)
  <2>1. ASSUME NEW k \in 0..N
        PROVE  Stage(F, f, k, v) = IF k = 0 THEN v ELSE Onward(f[k - 1], known)
    <3>1. CASE k = 0
      BY <3>1 DEF Stage
    <3>2. CASE k # 0
      <4>1. k \in 1..N /\ k - 1 \in 0..N
        BY <1>0, <3>2
      <4>2. F[<<k, f[k - 1]>>] = Onward(f[k - 1], known)
        BY <1>2, <1>4, <4>1 DEF Iteration
      <4>3. Stage(F, f, k, v) = Onward(f[k - 1], known)
        BY <3>2, <4>2 DEF Stage
      <4> QED
        BY <3>2, <4>3
    <3> QED
      BY <3>1, <3>2
  <2>2. [k \in 0..N |-> Stage(F, f, k, v)] = AllFollow(f, v, known)
    BY <2>1 DEF AllFollow, N
  <2> QED
    BY <1>4, <2>2 DEF Iteration
<1>6. Follow = AllFollow(Follow, v, known)
  BY <1>5
<1>7. Resolve(v, known) = Follow[N]
  BY DEF Resolve, AllFollow, N
<1> HIDE DEF Follow
<1>8. \A k \in 0..N : Follow[k] = IF k = 0 THEN v ELSE Onward(Follow[k - 1], known)
  BY <1>6 DEF AllFollow, N
<1>9. Follow[0] = v /\ \A k \in 1..N : Follow[k] = Onward(Follow[k - 1], known)
  BY <1>0, <1>8
<1> QED
  BY <1>7, <1>9 DEF N

LEMMA ResolveFacts ==
  ASSUME WellFormed, NEW v, NEW known
  PROVE  /\ Resolve(v, known) \in {v} \cup {f[2] : f \in known}
         /\ \A names : Agree(known, names) => (v \in names <=> Resolve(v, known) \in names)
<1> DEFINE N == Cardinality(Temps)
<1>0. N \in Nat
  BY TempsFinite, FS_CardinalityType
<1>1. PICK r : /\ r[0] = v /\ \A k \in 1..N : r[k] = Onward(r[k - 1], known)
               /\ Resolve(v, known) = r[N]
  BY ResolveIs
<1> DEFINE Good(u) == /\ u \in {v} \cup {f[2] : f \in known}
                      /\ \A names : Agree(known, names) => (v \in names <=> u \in names)
           T == {k \in 0..N : Good(r[k])}
<1>2. 0 \in T
  BY <1>0, <1>1
<1>3. ASSUME NEW k \in 1..N, k - 1 \in T PROVE k \in T
  <2>1. Good(r[k - 1]) /\ r[k] = Onward(r[k - 1], known)
    BY <1>1, <1>3
  <2>2. r[k] = r[k - 1] \/ \E f \in known : f[1] = r[k - 1] /\ f[2] = r[k]
    BY <2>1, OnwardIs
  <2>3. Good(r[k])
    BY <2>1, <2>2 DEF Agree
  <2> QED
    BY <1>0, <2>3
<1>4. 0..N \subseteq T
  <2> HIDE DEF T, N
  <2> QED
    BY <1>0, <1>2, <1>3, UpTo
<1>5. Good(r[N])
  BY <1>0, <1>4
<1> QED
  BY <1>1, <1>5
-----------------------------------------------------------------------------
(* The facts after one operation.                                          *)
Right == {Const} \cup Temps
Kept(n, i, known) == Retained(n, i, Without({Temp(n, i)}, known))
Held(n, i, known) == (CHOOSE f \in known : f[1] = Place(source[n][i].home))[2]

LEMMA OpFacts ==
  ASSUME WellFormed, NEW n \in Node, NEW i \in DOMAIN source[n]
  PROVE  /\ Len(source[n]) \in 1..MaxOps /\ DOMAIN source[n] = 1..Len(source[n])
         /\ i \in 1..Len(source[n]) /\ i \in 1..MaxOps
         /\ source[n][i].kind \in Kinds
         /\ source[n][i].value \in Temps \cup {Const, NoValue}
         /\ source[n][i].kind = "leave" <=> i = Len(source[n])
         /\ source[n][i].kind \in {"load", "store", "region"} => source[n][i].home \in Home
         /\ source[n][i].kind = "store" => source[n][i].value \in Right
         /\ IsTemp(source[n][i].value) => Defined(source[n][i].value, n, i)
<1>1. source[n] \in Seq(Operation) /\ Len(source[n]) \in 1..MaxOps
  BY DEF WellFormed
<1>2. source[n][i] \in Operation /\ DOMAIN source[n] = 1..Len(source[n])
  BY <1>1
<1>3. source[n][i].kind \in Kinds /\ source[n][i].value \in Temps \cup {Const, NoValue}
  BY <1>2 DEF Operation
<1>4. i \in 1..Len(source[n]) /\ i \in 1..MaxOps
  BY <1>1, <1>2, SizeAssumption
<1>5. /\ source[n][i].kind = "leave" <=> i = Len(source[n])
      /\ source[n][i].kind \in {"load", "store", "region"} => source[n][i].home \in Home
      /\ source[n][i].kind = "store" => source[n][i].value # NoValue
      /\ IsTemp(source[n][i].value) => Defined(source[n][i].value, n, i)
  BY DEF WellFormed
<1> QED
  BY <1>1, <1>2, <1>3, <1>4, <1>5 DEF Right

LEMMA RetainedIs ==
  ASSUME NEW n, NEW i, NEW known
  PROVE  /\ Kept(n, i, known) \subseteq known
         /\ \A f \in Kept(n, i, known) : f[1] # Temp(n, i)
  BY DEF Kept, Retained, Without

LEMMA UnkeptIs ==
  /\ EveryPlace = {Place(h) : h \in Home}
  /\ Unkept(SurvivesCall) = {Place(h) : h \in {g \in Home : ~Private(g)}}
  /\ Unkept(LAMBDA h : kind[h] # "global") = {Place(h) : h \in {g \in Home : kind[g] = "global"}}
  BY DEF EveryPlace, Unkept, SurvivesCall

LEMMA AfterForwarded ==
  ASSUME NEW n, NEW i, NEW known, Forwarded(n, i, known)
  PROVE  /\ source[n][i].kind = "load"
         /\ After(n, i, known) = Without({Temp(n, i)}, known)
                                   \cup {<<Temp(n, i), Resolve(Held(n, i, known), known)>>}
<1>1. source[n][i].kind = "load"
  BY DEF Forwarded
<1> QED
  BY <1>1 DEF After, Held

LEMMA AfterLoad ==
  ASSUME NEW n, NEW i, NEW known, source[n][i].kind = "load", ~Forwarded(n, i, known)
  PROVE  After(n, i, known) = Without({Place(source[n][i].home)}, Kept(n, i, known))
                                \cup {<<Place(source[n][i].home), Temp(n, i)>>}
BY DEF After, Kept

LEMMA AfterStore ==
  ASSUME NEW n, NEW i, NEW known, source[n][i].kind = "store"
  PROVE  After(n, i, known) = Without({Place(source[n][i].home)}, known)
                                \cup {<<Place(source[n][i].home), Resolve(source[n][i].value, known)>>}
BY DEF After, Forwarded

Lost(n, i) ==
  CASE source[n][i].kind = "compute" -> {}
    [] source[n][i].kind = "divide" -> EveryPlace
    [] source[n][i].kind = "call" -> {Place(h) : h \in {g \in Home : ~Private(g)}}
    [] source[n][i].kind = "callee" -> {Place(h) : h \in {g \in Home : kind[g] = "global"}}
    [] source[n][i].kind = "region" -> {Place(source[n][i].home)}

LEMMA AfterOther ==
  ASSUME NEW n, NEW i, NEW known
  PROVE  /\ source[n][i].kind \in {"compute", "divide", "call", "callee", "region"} =>
              After(n, i, known) = Without(Lost(n, i), Kept(n, i, known))
         /\ source[n][i].kind \in {"poke", "foreign"} => After(n, i, known) = Without(EveryPlace, known)
         /\ source[n][i].kind = "leave" => After(n, i, known) = known
<1> DEFINE op == source[n][i]
<1>1. Without({}, Kept(n, i, known)) = Kept(n, i, known)
  BY DEF Without
<1>2. op.kind # "load" => ~Forwarded(n, i, known)
  BY DEF Forwarded
<1>3. CASE op.kind = "compute"
  BY <1>1, <1>2, <1>3 DEF After, Kept, Lost
<1>4. CASE op.kind = "divide"
  BY <1>2, <1>4 DEF After, Kept, Lost
<1>5. CASE op.kind = "call"
  BY <1>2, <1>5, UnkeptIs DEF After, Kept, Lost
<1>6. CASE op.kind = "callee"
  BY <1>2, <1>6, UnkeptIs DEF After, Kept, Lost
<1>7. CASE op.kind = "region"
  BY <1>2, <1>7 DEF After, Kept, Lost
<1>8. CASE op.kind \in {"poke", "foreign"}
  BY <1>2, <1>8 DEF After
<1>9. CASE op.kind = "leave"
  BY <1>2, <1>9 DEF After
<1> QED
  BY <1>3, <1>4, <1>5, <1>6, <1>7, <1>8, <1>9
LEMMA FactParts ==
  ASSUME NEW f \in Fact
  PROVE  /\ f = <<f[1], f[2]>> /\ f[2] \in Right
         /\ f[1] \in Temps \/ \E h \in Home : f[1] = Place(h)
  BY DEF Fact, Right

LEMMA FactMade ==
  /\ \A h \in Home, v \in Right : <<Place(h), v>> \in Fact
  /\ \A t \in Temps, v \in Right : <<t, v>> \in Fact
  BY DEF Fact, Right

LEMMA HeldIs ==
  ASSUME NEW n, NEW i, NEW known, Forwarded(n, i, known)
  PROVE  \E f \in known : f[1] = Place(source[n][i].home) /\ f[2] = Held(n, i, known)
  BY DEF Forwarded, Held

LEMMA AfterFacts ==
  ASSUME WellFormed, NEW n \in Node, NEW i \in DOMAIN source[n], NEW known \in SUBSET Fact
  PROVE  /\ After(n, i, known) \in SUBSET Fact
         /\ \A f \in After(n, i, known) :
              \/ \E g \in known : g[2] = f[2]
              \/ f[2] = Temp(n, i) \/ f[2] = source[n][i].value
<1> DEFINE op == source[n][i]
           place == Place(op.home)
           temp == Temp(n, i)
           after == After(n, i, known)
           Good(f) == /\ f \in Fact
                      /\ \/ \E g \in known : g[2] = f[2]
                         \/ f[2] = temp \/ f[2] = op.value
<1>1. op.kind \in Kinds
  BY OpFacts
<1>2. \A f \in known : Good(f)
  OBVIOUS
<1>3. Kept(n, i, known) \subseteq known /\ \A names : Without(names, known) \subseteq known
                                       /\ Without(names, Kept(n, i, known)) \subseteq known
  BY RetainedIs DEF Without
<1>4. CASE Forwarded(n, i, known)
  <2>1. op.kind = "load" /\ after = Without({temp}, known) \cup {<<temp, Resolve(Held(n, i, known), known)>>}
    BY <1>4, AfterForwarded
  <2>2. temp \in Temps
    BY <2>1, TempNamed DEF DefinesTemp
  <2>3. PICK g \in known : g[2] = Resolve(Held(n, i, known), known)
    BY <1>4, HeldIs, ResolveFacts
  <2>4. Good(<<temp, g[2]>>)
    BY <2>2, FactParts, FactMade
  <2> HIDE DEF Good
  <2> QED
    BY <1>2, <1>3, <2>1, <2>3, <2>4 DEF Good
<1>5. CASE op.kind = "load" /\ ~Forwarded(n, i, known)
  <2>1. after = Without({place}, Kept(n, i, known)) \cup {<<place, temp>>}
    BY <1>5, AfterLoad
  <2>2. temp \in Right /\ op.home \in Home
    BY <1>5, TempNamed, OpFacts DEF DefinesTemp, Right
  <2>3. Good(<<place, temp>>)
    BY <2>2, FactMade
  <2> HIDE DEF Good
  <2> QED
    BY <1>2, <1>3, <2>1, <2>3 DEF Good
<1>6. CASE op.kind = "store"
  <2>1. after = Without({place}, known) \cup {<<place, Resolve(op.value, known)>>}
    BY <1>6, AfterStore
  <2>2. op.value \in Right /\ op.home \in Home
    BY <1>6, OpFacts
  <2>3. Resolve(op.value, known) = op.value \/ \E g \in known : g[2] = Resolve(op.value, known)
    BY ResolveFacts
  <2>4. Good(<<place, Resolve(op.value, known)>>)
    BY <2>2, <2>3, FactParts, FactMade
  <2> HIDE DEF Good
  <2> QED
    BY <1>2, <1>3, <2>1, <2>4 DEF Good
<1>7. CASE ~Forwarded(n, i, known) /\ op.kind \notin {"load", "store"}
  <2>1. after \subseteq known
    <3>1. op.kind \in {"compute", "divide", "call", "callee", "region"}
            \/ op.kind \in {"poke", "foreign"} \/ op.kind = "leave"
      BY <1>1, <1>7 DEF Kinds
    <3> QED
      BY <1>3, <3>1, AfterOther
  <2> QED
    BY <1>2, <2>1
<1> QED
  BY <1>4, <1>5, <1>6, <1>7

-----------------------------------------------------------------------------
(* What an operation does to the names that hold a value, as far as facts  *)
(* are concerned.                                                          *)
Moved(n, i, held, next) ==
  LET op == source[n][i] IN
  /\ op.kind = "load" =>
       /\ Temp(n, i) \in next <=> Place(op.home) \in held
       /\ \A x : x # Temp(n, i) => (x \in next <=> x \in held)
  /\ op.kind = "store" =>
       /\ Place(op.home) \in next <=> op.value \in held
       /\ \A x : x # Place(op.home) => (x \in next <=> x \in held)
  /\ op.kind \in {"compute", "divide"} => \A x : x # Temp(n, i) => (x \in next <=> x \in held)
  /\ op.kind \notin {"load", "store", "compute", "divide"} =>
       \A x : (\A h \in Writes(op) : x # Place(h)) => (x \in next <=> x \in held)

LEMMA StillAgree ==
  ASSUME NEW held, NEW next, NEW known, NEW fewer \in SUBSET known, Agree(known, held),
         \A f \in fewer : (f[1] \in next <=> f[1] \in held) /\ (f[2] \in next <=> f[2] \in held)
  PROVE  Agree(fewer, next)
  BY DEF Agree

LEMMA AgreeWith ==
  ASSUME NEW names, NEW known, Agree(known, names), NEW a, NEW b, a \in names <=> b \in names
  PROVE  Agree(known \cup {<<a, b>>}, names)
<1> DEFINE g == <<a, b>>
<1>1. g[1] = a /\ g[2] = b
  OBVIOUS
<1> HIDE DEF g
<1>2. Agree(known \cup {g}, names)
  BY <1>1 DEF Agree
<1> QED
  BY <1>2 DEF g

(* Facts stay true over an operation, if none has the temp it defines on   *)
(* the right.                                                              *)
LEMMA AfterAgrees ==
  ASSUME WellFormed, NEW n \in Node, NEW i \in DOMAIN source[n], NEW known \in SUBSET Fact,
         NEW held, NEW next, Agree(known, held), Moved(n, i, held, next),
         \A f \in known : f[2] # Temp(n, i)
  PROVE  Agree(After(n, i, known), next)
<1> DEFINE op == source[n][i]
           place == Place(op.home)
           temp == Temp(n, i)
           after == After(n, i, known)
<1>1. op.kind \in Kinds
  BY OpFacts
<1>2. /\ Kept(n, i, known) \subseteq known /\ \A f \in Kept(n, i, known) : f[1] # temp
      /\ \A names, facts : /\ Without(names, facts) \subseteq facts
                           /\ \A f \in Without(names, facts) : f[1] \notin names
  BY RetainedIs DEF Without
<1>3. \A h : \A f \in known : f[2] # Place(h)
  BY FactParts, Apart DEF Right
<1>4. \A h : temp # Place(h)
  BY Apart
<1>5. CASE Forwarded(n, i, known)
  <2> DEFINE r == Resolve(Held(n, i, known), known)
             fewer == Without({temp}, known)
  <2>1. op.kind = "load" /\ after = fewer \cup {<<temp, r>>}
    BY <1>5, AfterForwarded
  <2>2. (temp \in next <=> place \in held) /\ \A x : x # temp => (x \in next <=> x \in held)
    BY <2>1 DEF Moved
  <2>3. PICK f \in known : f[1] = place /\ f[2] = Held(n, i, known)
    BY <1>5, HeldIs
  <2>4. place \in held <=> r \in held
    BY <2>3, ResolveFacts DEF Agree
  <2>5. r # temp
    BY <2>3, ResolveFacts
  <2>6. temp \in next <=> r \in next
    BY <2>2, <2>4, <2>5
  <2>7. fewer \in SUBSET known /\ \A g \in fewer : g[1] # temp /\ g[2] # temp
    BY <1>2
  <2>8. \A g \in fewer : (g[1] \in next <=> g[1] \in held) /\ (g[2] \in next <=> g[2] \in held)
    BY <2>2, <2>7
  <2>9. Agree(fewer, next)
    BY <2>7, <2>8, StillAgree, Zenon
  <2> HIDE DEF r, fewer
  <2> QED
    BY <2>1, <2>6, <2>9, AgreeWith
<1>6. CASE op.kind = "load" /\ ~Forwarded(n, i, known)
  <2> DEFINE fewer == Without({place}, Kept(n, i, known))
  <2>1. after = fewer \cup {<<place, temp>>}
    BY <1>6, AfterLoad
  <2>2. (temp \in next <=> place \in held) /\ \A x : x # temp => (x \in next <=> x \in held)
    BY <1>6 DEF Moved
  <2>3. place \in next <=> temp \in next
    BY <1>4, <2>2
  <2>4. fewer \in SUBSET known /\ \A f \in fewer : f[1] # temp /\ f[2] # temp
    BY <1>2
  <2>6. \A f \in fewer : (f[1] \in next <=> f[1] \in held) /\ (f[2] \in next <=> f[2] \in held)
    BY <2>2, <2>4
  <2>5. Agree(fewer, next)
    BY <2>4, <2>6, StillAgree, ZenonT(60)
  <2> HIDE DEF fewer
  <2> QED
    BY <2>1, <2>3, <2>5, AgreeWith
<1>7. CASE op.kind = "store"
  <2> DEFINE r == Resolve(op.value, known)
             fewer == Without({place}, known)
  <2>1. after = fewer \cup {<<place, r>>}
    BY <1>7, AfterStore
  <2>2. (place \in next <=> op.value \in held) /\ \A x : x # place => (x \in next <=> x \in held)
    BY <1>7 DEF Moved
  <2>3. op.value \in held <=> r \in held
    BY ResolveFacts
  <2>4. r # place
    <3>1. op.value # place
      BY <1>7, OpFacts, Apart DEF Right
    <3> QED
      BY <1>3, <3>1, ResolveFacts
  <2>5. place \in next <=> r \in next
    BY <2>2, <2>3, <2>4
  <2>6. fewer \in SUBSET known /\ \A f \in fewer : f[1] # place /\ f[2] # place
    BY <1>2, <1>3
  <2>8. \A f \in fewer : (f[1] \in next <=> f[1] \in held) /\ (f[2] \in next <=> f[2] \in held)
    BY <2>2, <2>6
  <2>7. Agree(fewer, next)
    BY <2>6, <2>8, StillAgree, ZenonT(60)
  <2> HIDE DEF r, fewer
  <2> QED
    BY <2>1, <2>5, <2>7, AgreeWith
<1>8. CASE op.kind \in {"compute", "divide"}
  <2>1. \A x : x # temp => (x \in next <=> x \in held)
    BY <1>8 DEF Moved
  <2>2. after \subseteq Kept(n, i, known)
    BY <1>2, <1>8, AfterOther
  <2>3. \A f \in after : f[1] # temp /\ f[2] # temp
    BY <1>2, <2>2
  <2> QED
    BY <1>2, <2>1, <2>2, <2>3, StillAgree
<1>9. CASE op.kind \notin {"load", "store", "compute", "divide"}
  <2> DEFINE W == {Place(h) : h \in Writes(op)}
  <2>1. \A x : x \notin W => (x \in next <=> x \in held)
    BY <1>9 DEF Moved
  <2>2. \/ op.kind = "call" /\ Writes(op) = {g \in Home : ~Private(g)}
        \/ op.kind = "callee" /\ Writes(op) = {g \in Home : kind[g] = "global"}
        \/ op.kind = "region" /\ Writes(op) \subseteq {op.home}
        \/ op.kind = "poke" /\ Writes(op) = {}
        \/ op.kind = "foreign" /\ Writes(op) = Home
        \/ op.kind = "leave" /\ Writes(op) = {}
    BY <1>1, <1>9 DEF Kinds, Writes, Reads
  <2>3. after \subseteq known /\ \A f \in after : f[1] \notin W
    <3>1. CASE op.kind \in {"call", "callee", "region"}
      <4>1. after = Without(Lost(n, i), Kept(n, i, known))
        BY <3>1, AfterOther
      <4>2. W \subseteq Lost(n, i)
        BY <2>2, <3>1 DEF Lost
      <4> HIDE DEF W
      <4> QED
        BY <1>2, <4>1, <4>2
    <3>2. CASE op.kind = "poke" \/ op.kind = "leave"
      <4>1. after \subseteq known
        BY <1>2, <3>2, AfterOther
      <4> QED
        BY <2>2, <3>2, <4>1
    <3>3. CASE op.kind = "foreign"
      <4>1. after = Without(EveryPlace, known)
        BY <3>3, AfterOther
      <4> QED
        BY <1>2, <2>2, <3>3, <4>1, UnkeptIs
    <3> QED
      BY <2>2, <3>1, <3>2, <3>3
  <2>4. \A f \in after : f[2] \notin W
    BY <1>3, <2>3
  <2> HIDE DEF W
  <2> QED
    BY <2>1, <2>3, <2>4, StillAgree
<1> QED
  BY <1>5, <1>6, <1>7, <1>8, <1>9
-----------------------------------------------------------------------------
(* The facts before each operation of a block, an operation at a time.     *)
Passed(n, i, known) == [before \in SUBSET Fact |-> After(n, i, before)][known]
AllAt(facts, n, known) ==
  [i \in 1..(Len(source[n]) + 1) |-> IF i = 1 THEN known ELSE Passed(n, i - 1, facts[i - 1])]

LEMMA FactsIs ==
  ASSUME WellFormed, NEW n \in Node, NEW known \in SUBSET Fact
  PROVE  /\ Facts(n, known)[1] = known
         /\ \A i \in 1..Len(source[n]) :
              Facts(n, known)[i + 1] = After(n, i, Facts(n, known)[i])
         /\ \A i \in 1..(Len(source[n]) + 1) : Facts(n, known)[i] \in SUBSET Fact
<1> DEFINE L == Len(source[n])
           D == SUBSET Fact
           F == [a \in (1..L) \X D |-> After(n, a[1], a[2])]
           At == CHOOSE f : f = AllAt(f, n, known)
<1>0. L \in Nat /\ DOMAIN source[n] = 1..L
  BY DEF WellFormed
<1>passed. \A i, d : d \in D => Passed(n, i, d) = After(n, i, d)
  BY DEF Passed
<1>1. ASSUME NEW i \in 1..L, NEW d \in D
      PROVE  F[<<i, d>>] = After(n, i, d) /\ F[<<i, d>>] \in D
  <2>1. F[<<i, d>>] = After(n, i, d)
    OBVIOUS
  <2>2. After(n, i, d) \in D
    BY <1>0, AfterFacts
  <2> QED
    BY <2>1, <2>2
<1>2. \A i \in 1..L, d \in D : F[<<i, d>>] \in D
  BY <1>1
<1> HIDE DEF F, L
<1>3. PICK f : Iteration(f, L, D, known, F)
  BY <1>0, <1>2, Iterates
<1> DEFINE g == [i \in 1..(L + 1) |-> f[i - 1]]
<1>4. g = AllAt(g, n, known)
  <2>1. ASSUME NEW i \in 1..(L + 1)
        PROVE  f[i - 1] = IF i = 1 THEN known ELSE Passed(n, i - 1, g[i - 1])
    <3>1. i - 1 \in 0..L /\ f[i - 1] = Stage(F, f, i - 1, known)
      BY <1>0, <1>3 DEF Iteration
    <3>2. CASE i = 1
      BY <3>1, <3>2 DEF Stage
    <3>3. CASE i # 1
      <4>1. i - 1 \in 1..L /\ i - 1 \in 1..(L + 1) /\ (i - 1) - 1 \in 0..L /\ i - 1 # 0
        BY <1>0, <3>3
      <4>2. f[i - 1] = F[<<i - 1, f[(i - 1) - 1]>>] /\ f[(i - 1) - 1] \in D
        BY <1>3, <3>1, <4>1 DEF Stage, Iteration
      <4>3. g[i - 1] = f[(i - 1) - 1]
        BY <4>1
      <4> QED
        BY <1>1, <1>passed, <3>3, <4>1, <4>2, <4>3
    <3> QED
      BY <3>2, <3>3
  <2>2. g = [i \in 1..(L + 1) |-> IF i = 1 THEN known ELSE Passed(n, i - 1, g[i - 1])]
    <3> HIDE DEF g
    <3>1. g = [i \in 1..(L + 1) |-> f[i - 1]]
      BY DEF g
    <3> QED
      BY <2>1, <3>1
  <2> HIDE DEF g
  <2> QED
    BY <2>2 DEF AllAt, L
<1>5. At = AllAt(At, n, known)
  <2> HIDE DEF g
  <2> QED
    BY <1>4
<1>6. Facts(n, known) = At
  BY DEF Facts, AllAt, Passed
<1> HIDE DEF At, g
<1>7. \A i \in 1..(L + 1) : At[i] = IF i = 1 THEN known ELSE Passed(n, i - 1, At[i - 1])
  BY <1>5 DEF AllAt, L
<1>8. 1 \in 1..(L + 1) /\ \A i \in 1..L : i + 1 \in 1..(L + 1) /\ i + 1 # 1 /\ (i + 1) - 1 = i
  BY <1>0
<1>9. At[1] = known /\ \A i \in 1..L : At[i + 1] = Passed(n, i, At[i])
  BY <1>7, <1>8
<1> DEFINE T == {k \in 0..L : At[k + 1] \in D}
<1>10. 0 \in T
  <2>1. At[0 + 1] = known
    BY <1>9
  <2> QED
    BY <1>0, <2>1
<1>11. ASSUME NEW k \in 1..L, k - 1 \in T PROVE k \in T
  <2>1. At[k] \in D /\ k \in 0..L
    <3>1. (k - 1) + 1 = k
      BY <1>0
    <3> QED
      BY <1>0, <1>11, <3>1
  <2>2. At[k + 1] \in D
    <3>1. At[k + 1] = Passed(n, k, At[k])
      BY <1>9, <1>11
    <3>2. Passed(n, k, At[k]) = After(n, k, At[k])
      BY <1>passed, <2>1
    <3>3. After(n, k, At[k]) \in D
      <4> HIDE DEF D
      <4> QED
        BY <1>1, <1>11, <2>1
    <3> QED
      BY <3>1, <3>2, <3>3
  <2> QED
    BY <2>1, <2>2
<1>12. 0..L \subseteq T
  <2> HIDE DEF T
  <2> QED
    BY <1>0, <1>10, <1>11, UpTo
<1>13. \A i \in 1..(L + 1) : At[i] \in D
  <2> TAKE i \in 1..(L + 1)
  <2>1. i - 1 \in 0..L /\ (i - 1) + 1 = i
    BY <1>0
  <2> QED
    BY <1>12, <2>1
<1>14. \A i \in 1..L : At[i + 1] = After(n, i, At[i])
  BY <1>0, <1>9, <1>13, <1>passed
<1> QED
  BY <1>6, <1>9, <1>13, <1>14 DEF L

(* Where the temps on the right of facts come from, over a block.          *)
LEMMA RightsOver ==
  ASSUME WellFormed, NEW n \in Node, NEW known \in SUBSET Fact, NEW i \in 1..(Len(source[n]) + 1)
  PROVE  \A f \in Facts(n, known)[i] :
           \/ \E g \in known : g[2] = f[2]
           \/ \E j \in 1..(i - 1) : j \in DOMAIN source[n] /\ (f[2] = Temp(n, j) \/ f[2] = source[n][j].value)
<1> DEFINE L == Len(source[n])
           At == Facts(n, known)
           Good(f, m) == \/ \E g \in known : g[2] = f[2]
                         \/ \E j \in 1..m : j \in DOMAIN source[n] /\ (f[2] = Temp(n, j) \/ f[2] = source[n][j].value)
           T == {k \in 0..L : \A f \in At[k + 1] : Good(f, k)}
<1>0. L \in Nat /\ DOMAIN source[n] = 1..L
  BY DEF WellFormed
<1>1. /\ At[1] = known
      /\ \A k \in 1..L : At[k + 1] = After(n, k, At[k])
      /\ \A k \in 1..(L + 1) : At[k] \in SUBSET Fact
  BY FactsIs
<1> HIDE DEF At, L
<1>2. 0 \in T
  <2>1. At[0 + 1] = known
    BY <1>1
  <2>2. \A f \in At[0 + 1] : Good(f, 0)
    BY <2>1
  <2> HIDE DEF Good
  <2> QED
    BY <1>0, <2>2
<1>3. ASSUME NEW k \in 1..L, k - 1 \in T PROVE k \in T
  <2>1. k \in DOMAIN source[n] /\ k \in 1..(L + 1) /\ (k - 1) + 1 = k /\ k \in 0..L
    BY <1>0
  <2>2. At[k] \in SUBSET Fact /\ At[k + 1] = After(n, k, At[k]) /\ \A f \in At[k] : Good(f, k - 1)
    BY <1>1, <1>3, <2>1
  <2>3. \A f \in At[k + 1] :
          (\E g \in At[k] : g[2] = f[2]) \/ f[2] = Temp(n, k) \/ f[2] = source[n][k].value
    BY <2>1, <2>2, AfterFacts
  <2>4. \A f \in At[k] : Good(f, k)
    <3>1. \A j \in 1..(k - 1) : j \in 1..k
      BY <1>0
    <3> QED
      BY <2>2, <3>1
  <2>5. k \in 1..k
    BY <2>1
  <2>6. \A f \in At[k + 1] : Good(f, k)
    BY <2>1, <2>3, <2>4, <2>5
  <2> HIDE DEF Good
  <2> QED
    BY <2>1, <2>6
<1>4. 0..L \subseteq T
  <2> HIDE DEF T
  <2> QED
    BY <1>0, <1>2, <1>3, UpTo
<1>5. i - 1 \in 0..L /\ (i - 1) + 1 = i
  BY <1>0 DEF L
<1>6. \A f \in At[i] : Good(f, i - 1)
  <2>1. i - 1 \in T
    BY <1>4, <1>5
  <2> QED
    BY <1>5, <2>1
<1> QED
  BY <1>6 DEF At
-----------------------------------------------------------------------------
(* What can be reached at all, and what can without leaving block d.       *)
Reached == Graph!ReachableFrom(Node, edges, Entry)
Around(d) == {e \in edges : e[1] # d}
Skirting(d) == Graph!ReachableFrom(Node, Around(d), Entry)

LEMMA ReachedIs ==
  ASSUME WellFormed
  PROVE  /\ Entry \in Reached /\ Reached \subseteq Node
         /\ \A e \in edges : e = <<e[1], e[2]>> /\ e[1] \in Node /\ e[2] \in Node
         /\ \A e \in edges : e[1] \in Reached => e[2] \in Reached
<1>1. edges \in SUBSET (Node \X Node) /\ Entry \in Node
  BY BlockAssumption DEF WellFormed, Entry
<1>2. \A e \in edges : e = <<e[1], e[2]>> /\ e[1] \in Node /\ e[2] \in Node
  BY <1>1
<1> QED
  BY <1>1, <1>2, ReachesAll DEF Reached

LEMMA SkirtingIs ==
  ASSUME WellFormed, NEW d
  PROVE  /\ Entry \in Skirting(d) /\ Skirting(d) \subseteq Reached
         /\ \A e \in edges : e[1] \in Skirting(d) /\ e[1] # d => e[2] \in Skirting(d)
         /\ \A n : ~Dominates(d, n) => n \in Skirting(d)
         /\ \A n \in Skirting(d) : Dominates(d, n) => n = d
<1>1. Around(d) \in SUBSET (Node \X Node) /\ Entry \in Node /\ Around(d) \subseteq edges
  BY BlockAssumption DEF WellFormed, Entry, Around
<1>2. Entry \in Skirting(d) /\ \A e \in Around(d) : e[1] \in Skirting(d) => e[2] \in Skirting(d)
  BY <1>1, ReachesAll DEF Skirting
<1>3. Skirting(d) \subseteq Reached
  <2>1. Entry \in Reached /\ \A e \in Around(d) : e[1] \in Reached => e[2] \in Reached
    BY <1>1, ReachedIs
  <2> QED
    BY <1>1, <2>1, ReachesOnly DEF Skirting
<1>4. \A n : Dominates(d, n) <=> (d = n \/ n \notin Skirting(d))
  BY DEF Dominates, Skirting, Around
<1> QED
  BY <1>2, <1>3, <1>4 DEF Around

(* The first way to a block does not leave it before.                      *)
LEMMA SkirtsItself ==
  ASSUME WellFormed, NEW n \in Reached
  PROVE  n \in Skirting(n)
<1> SUFFICES ASSUME n \notin Skirting(n) PROVE FALSE
  OBVIOUS
<1>1. edges \in SUBSET (Node \X Node) /\ Entry \in Node
  BY BlockAssumption DEF WellFormed, Entry
<1>2. Entry \in Skirting(n) /\ \A e \in edges : e[1] \in Skirting(n) => e[2] \in Skirting(n)
  BY SkirtingIs
<1>3. Reached \subseteq Skirting(n)
  BY <1>1, <1>2, ReachesOnly DEF Reached
<1> QED
  BY <1>3

-----------------------------------------------------------------------------
(* Facts at the start of every block that hold however it is reached.      *)
Ending(n) == Len(source[n]) + 1
Sound(known) ==
  /\ known \in [Node -> SUBSET Fact]
  /\ known[Entry] = {}
  /\ \A e \in edges : e[1] \in Reached => known[e[2]] \subseteq Facts(e[1], known[e[1]])[Ending(e[1])]

(* Where block d can be gone around, no fact has a temp of d on the right. *)
LEMMA NoneOnTheRight ==
  ASSUME WellFormed, NEW known, Sound(known), NEW d
  PROVE  \A n \in Skirting(d) : \A f \in known[n] : IsTemp(f[2]) => f[2][2] # d
<1> DEFINE S == {n \in Skirting(d) : \A f \in known[n] : IsTemp(f[2]) => f[2][2] # d}
<1>1. Entry \in S
  BY SkirtingIs DEF Sound
<1>2. ASSUME NEW e \in Around(d), e[1] \in S PROVE e[2] \in S
  <2> DEFINE n == e[1]
  <2>1. e \in edges /\ n # d /\ n \in Skirting(d) /\ n \in Node /\ n \in Reached /\ e[2] \in Skirting(d)
    BY <1>2, SkirtingIs, ReachedIs DEF Around
  <2>2. known[n] \in SUBSET Fact /\ known[e[2]] \subseteq Facts(n, known[n])[Ending(n)]
    BY <2>1 DEF Sound
  <2>3. Ending(n) \in 1..(Len(source[n]) + 1)
    BY <2>1 DEF WellFormed, Ending
  <2> HIDE DEF n
  <2>4. ASSUME NEW f \in known[e[2]], IsTemp(f[2]) PROVE f[2][2] # d
    <3>1. \/ \E g \in known[n] : g[2] = f[2]
          \/ \E j \in DOMAIN source[n] : f[2] = Temp(n, j) \/ f[2] = source[n][j].value
      BY <2>1, <2>2, <2>3, RightsOver
    <3>2. CASE \E g \in known[n] : g[2] = f[2]
      BY <1>2, <2>4, <3>2 DEF n
    <3>3. CASE \E j \in DOMAIN source[n] : f[2] = Temp(n, j)
      BY <2>1, <3>3, TempParts
    <3>4. ASSUME NEW j \in DOMAIN source[n], f[2] = source[n][j].value PROVE f[2][2] # d
      <4>1. Defined(f[2], n, j)
        BY <2>1, <2>4, <3>4, OpFacts
      <4>2. f[2][2] # n => Dominates(f[2][2], n)
        BY <4>1 DEF Defined
      <4> QED
        BY <2>1, <4>2, SkirtingIs
    <3> QED
      BY <3>1, <3>2, <3>3, <3>4
  <2> QED
    BY <2>1, <2>4
<1>3. Around(d) \in SUBSET (Node \X Node) /\ Entry \in Node
  BY BlockAssumption DEF WellFormed, Entry, Around
<1>4. Skirting(d) \subseteq S
  <2> HIDE DEF S
  <2> QED
    BY <1>1, <1>2, <1>3, ReachesOnly DEF Skirting
<1> QED
  BY <1>4

(* Nor has one the temp of an operation still to come in its block.        *)
LEMMA NoneYet ==
  ASSUME WellFormed, NEW known, Sound(known), NEW n \in Reached, NEW i \in 1..Len(source[n])
  PROVE  /\ Facts(n, known[n])[i] \in SUBSET Fact
         /\ Facts(n, known[n])[i + 1] = After(n, i, Facts(n, known[n])[i])
         /\ \A f \in Facts(n, known[n])[i] : f[2] # Temp(n, i)
<1>1. n \in Node /\ n \in Skirting(n) /\ known[n] \in SUBSET Fact
  BY SkirtsItself, ReachedIs DEF Sound
<1>2. Len(source[n]) \in Nat /\ i \in 1..(Len(source[n]) + 1) /\ DOMAIN source[n] = 1..Len(source[n])
  BY <1>1 DEF WellFormed
<1>3. ASSUME NEW f \in Facts(n, known[n])[i], f[2] = Temp(n, i) PROVE FALSE
  <2>1. IsTemp(f[2]) /\ f[2][2] = n /\ f[2][3] = i
    BY <1>3, TempParts
  <2>2. \/ \E g \in known[n] : g[2] = f[2]
        \/ \E j \in 1..(i - 1) : j \in DOMAIN source[n] /\ (f[2] = Temp(n, j) \/ f[2] = source[n][j].value)
    BY <1>1, <1>2, RightsOver
  <2>3. ~\E g \in known[n] : g[2] = f[2]
    BY <1>1, <2>1, NoneOnTheRight
  <2>4. PICK j \in 1..(i - 1) : j \in DOMAIN source[n] /\ (f[2] = Temp(n, j) \/ f[2] = source[n][j].value)
    BY <2>2, <2>3
  <2>5. j < i /\ j # i
    BY <1>2
  <2>6. f[2] # Temp(n, j)
    BY <2>1, <2>5, TempParts
  <2>7. Defined(f[2], n, j)
    BY <1>1, <2>1, <2>4, <2>6, OpFacts
  <2>8. i < j
    BY <2>1, <2>7 DEF Defined
  <2> QED
    BY <1>2, <2>5, <2>8
<1> QED
  BY <1>1, <1>2, <1>3, FactsIs
-----------------------------------------------------------------------------
(* Liveness inside a block.                                                *)
Shaped == \A n \in Node : DOMAIN code[n] = DOMAIN source[n] /\ Len(code[n]) = Len(source[n])
AllThrough(through, n, live) ==
  [i \in 1..(Len(code[n]) + 1) |->
     IF i > Len(code[n]) THEN live ELSE Before(code[n][i], through[i + 1])]

LEMMA BeforeFacts ==
  ASSUME NEW op, NEW live
  PROVE  /\ Before(op, live) \subseteq Candidates
         /\ op.kind = "load" /\ op.home \in Candidates => op.home \in Before(op, live)
         /\ Candidates \cap Reads(op) \subseteq Before(op, live)
         /\ Candidates \cap live \subseteq Before(op, live) \cup {op.home}
         /\ op.kind # "store" => Candidates \cap live \subseteq Before(op, live)
<1> DEFINE before == Before(op, live)
<1>1. Candidates \subseteq Home /\ \A h \in Candidates : kind[h] # "global"
  BY DEF Candidates
<1>2. Observable = {h \in Candidates : ~Private(h)}
  BY DEF Observable
<1>3. CASE op.kind = "load"
  <2>1. before = Candidates \cap (live \cup {op.home}) /\ Reads(op) = {}
    BY <1>3 DEF Before, Reads
  <2> QED BY <1>3, <2>1
<1>4. CASE op.kind = "store"
  <2>1. before = Candidates \cap (live \ {op.home}) /\ Reads(op) = {}
    BY <1>4 DEF Before, Reads
  <2> QED BY <1>4, <2>1
<1>5. CASE op.kind \in {"divide", "call"}
  <2>1. before = Candidates \cap (live \cup Observable) /\ Reads(op) = {h \in Home : ~Private(h)}
    BY <1>5 DEF Before, Reads
  <2> QED BY <1>1, <1>2, <1>5, <2>1
<1>6. CASE op.kind = "region"
  <2>1. before = Candidates \cap ((live \ {op.home}) \cup {op.home}) /\ Reads(op) = {h \in Home : h = op.home}
    BY <1>6 DEF Before, Reads
  <2> QED BY <1>6, <2>1
<1>7. CASE op.kind = "foreign"
  <2>1. before = Candidates \cap (live \cup Candidates)
    BY <1>7 DEF Before
  <2> QED BY <1>1, <1>7, <2>1 DEF Reads
<1>8. CASE op.kind = "callee"
  <2>1. before = Candidates \cap live /\ Reads(op) = {h \in Home : kind[h] = "global"}
    BY <1>8 DEF Before, Reads
  <2> QED BY <1>1, <1>8, <2>1
<1>9. CASE op.kind \notin {"load", "store", "divide", "call", "region", "foreign", "callee"}
  <2>1. before = Candidates \cap live /\ Reads(op) = {}
    BY <1>9 DEF Before, Reads
  <2> QED BY <1>9, <2>1
<1> QED
  BY <1>3, <1>4, <1>5, <1>6, <1>7, <1>8, <1>9

LEMMA LiveIs ==
  ASSUME WellFormed, Shaped, NEW n \in Node, NEW live \in SUBSET Home
  PROVE  /\ LiveThrough(n, live)[Ending(n)] = live
         /\ \A i \in 1..Len(source[n]) :
              LiveThrough(n, live)[i] = Before(code[n][i], LiveThrough(n, live)[i + 1])
         /\ \A i \in 1..Ending(n) : LiveThrough(n, live)[i] \in SUBSET Home
<1> DEFINE L == Len(code[n])
           D == SUBSET Home
           F == [a \in (1..L) \X D |-> Before(code[n][L + 1 - a[1]], a[2])]
           Thr == CHOOSE f : f = AllThrough(f, n, live)
<1>0. L \in Nat /\ Len(source[n]) = L /\ Ending(n) = L + 1
  BY DEF WellFormed, Shaped, Ending
<1>1. ASSUME NEW i \in 1..L, NEW d \in D
      PROVE  F[<<i, d>>] = Before(code[n][L + 1 - i], d) /\ F[<<i, d>>] \in D
  <2>1. F[<<i, d>>] = Before(code[n][L + 1 - i], d)
    OBVIOUS
  <2>2. Before(code[n][L + 1 - i], d) \in D
    BY BeforeFacts DEF Candidates
  <2> QED
    BY <2>1, <2>2
<1>2. \A i \in 1..L, d \in D : F[<<i, d>>] \in D
  BY <1>1
<1> HIDE DEF F, L
<1>3. PICK f : Iteration(f, L, D, live, F)
  BY <1>0, <1>2, Iterates
<1> DEFINE g == [i \in 1..(L + 1) |-> f[L + 1 - i]]
<1>4. g = AllThrough(g, n, live)
  <2>1. ASSUME NEW i \in 1..(L + 1)
        PROVE  f[L + 1 - i] = IF i > L THEN live ELSE Before(code[n][i], g[i + 1])
    <3>0. \A k \in 0..L : f[k] = Stage(F, f, k, live)
      BY <1>3 DEF Iteration
    <3>1. L + 1 - i \in 0..L /\ f[L + 1 - i] = Stage(F, f, L + 1 - i, live)
      <4>1. L + 1 - i \in 0..L
        BY <1>0
      <4> QED
        BY <3>0, <4>1
    <3>2. CASE i > L
      <4>1. L + 1 - i = 0
        BY <1>0, <3>2
      <4> QED
        BY <3>1, <3>2, <4>1 DEF Stage
    <3>3. CASE ~(i > L)
      <4>1. /\ L + 1 - i \in 1..L /\ L + 1 - i # 0 /\ (L + 1 - i) - 1 \in 0..L /\ i + 1 \in 1..(L + 1)
            /\ L + 1 - (i + 1) = (L + 1 - i) - 1 /\ L + 1 - (L + 1 - i) = i
        BY <1>0, <3>3
      <4>2. f[L + 1 - i] = F[<<L + 1 - i, f[(L + 1 - i) - 1]>>] /\ f[(L + 1 - i) - 1] \in D
        BY <1>3, <3>1, <4>1 DEF Stage, Iteration
      <4>3. f[L + 1 - i] = Before(code[n][i], f[(L + 1 - i) - 1])
        BY <1>1, <4>1, <4>2
      <4>4. g[i + 1] = f[(L + 1 - i) - 1]
        BY <4>1
      <4> QED
        BY <3>3, <4>3, <4>4
    <3> QED
      BY <3>2, <3>3
  <2>2. g = [i \in 1..(L + 1) |-> IF i > L THEN live ELSE Before(code[n][i], g[i + 1])]
    <3>1. g = [i \in 1..(L + 1) |-> f[L + 1 - i]]
      OBVIOUS
    <3> HIDE DEF g
    <3> QED
      BY <2>1, <3>1
  <2> HIDE DEF g
  <2> QED
    BY <2>2 DEF AllThrough, L
<1>5. Thr = AllThrough(Thr, n, live)
  <2> HIDE DEF g
  <2> QED
    BY <1>4
<1>6. LiveThrough(n, live) = Thr
  BY DEF LiveThrough, AllThrough
<1> HIDE DEF Thr, g
<1>7. \A i \in 1..(L + 1) : Thr[i] = IF i > L THEN live ELSE Before(code[n][i], Thr[i + 1])
  BY <1>5 DEF AllThrough, L
<1>8. Thr[L + 1] = live
  BY <1>0, <1>7
<1>9. \A i \in 1..L : Thr[i] = Before(code[n][i], Thr[i + 1])
  BY <1>0, <1>7
<1>10. \A i \in 1..(L + 1) : Thr[i] \in D
  <2> TAKE i \in 1..(L + 1)
  <2>1. CASE i > L
    BY <1>7, <2>1
  <2>2. CASE ~(i > L)
    BY <1>7, <2>2, BeforeFacts DEF Candidates
  <2> QED
    BY <2>1, <2>2
<1> QED
  BY <1>0, <1>6, <1>8, <1>9, <1>10
-----------------------------------------------------------------------------
(* The problems handed to the solver: what a block makes of a state is a   *)
(* state, and an edge changes nothing.                                     *)
LEMMA StatesClosed ==
  /\ {} \in States /\ \A known : Some(known) \in States \/ ~WellFormed
  /\ \A live \in SUBSET Home : AsState(live) \in States
<1>1. {} \in States
  BY DEF States
<1>2. ASSUME WellFormed, NEW known PROVE Some(known) \in States
  <2>1. ASSUME NEW t \in Temps PROVE t \in Names
    <3>1. t = Temp(t[2], t[3]) /\ t[2] \in Node /\ t[3] \in DOMAIN source[t[2]]
      BY TempShape
    <3>2. t[3] \in 1..MaxOps
      BY <1>2, <3>1, OpFacts
    <3> QED
      BY <3>1, <3>2 DEF Names
  <2>2. {Place(h) : h \in Home} \subseteq Names
    BY DEF Names
  <2>3. ASSUME NEW f \in Fact PROVE f \in Names \X (Names \cup {Const, Alive})
    <3>1. f = <<f[1], f[2]>> /\ f[1] \in Names /\ f[2] \in Names \cup {Const}
      BY <2>1, <2>2, FactParts DEF Right
    <3> QED
      BY <3>1
  <2> QED
    BY <2>3 DEF Some, States
<1>3. ASSUME NEW live \in SUBSET Home PROVE AsState(live) \in States
  <2>1. \A h \in live : <<Place(h), Alive>> \in Names \X (Names \cup {Const, Alive})
    BY DEF Names
  <2> QED
    BY <2>1 DEF AsState, States
<1> QED
  BY <1>1, <1>2, <1>3

LEMMA LiveOf ==
  /\ \A s : Live(s) \in SUBSET Home
  /\ \A live \in SUBSET Home : Live(AsState(live)) = live
<1>1. \A s : Live(s) \in SUBSET Home
  BY DEF Live
<1>2. ASSUME NEW live \in SUBSET Home PROVE Live(AsState(live)) = live
  <2>1. ASSUME NEW h \in Home, <<Place(h), Alive>> \in AsState(live) PROVE h \in live
    <3>1. PICK g \in live : <<Place(h), Alive>> = <<Place(g), Alive>>
      BY <2>1 DEF AsState
    <3>2. Place(h) = Place(g)
      BY <3>1
    <3> QED
      BY <3>2, Apart
  <2>2. \A h \in live : <<Place(h), Alive>> \in AsState(live)
    BY DEF AsState
  <2> QED
    BY <2>1, <2>2 DEF Live
<1> QED
  BY <1>1, <1>2

LEMMA TransferTypes ==
  ASSUME WellFormed, Shaped, NEW n \in Node, NEW s \in States
  PROVE  Boundary(n) \in States /\ Transfer(n, s) \in States
<1>1. Boundary(n) \in States
  BY StatesClosed DEF Boundary
<1>2. ForwardTransfer(n, s) \in States
  BY StatesClosed DEF ForwardTransfer
<1>3. BackwardTransfer(n, s) \in States
  <2>1. 1 \in 1..Ending(n)
    BY DEF WellFormed, Ending
  <2>2. LiveThrough(n, Live(s))[1] \in SUBSET Home
    BY <2>1, LiveIs, LiveOf
  <2> QED
    BY <2>2, StatesClosed DEF BackwardTransfer
<1> QED
  BY <1>1, <1>2, <1>3 DEF Transfer

LEMMA SolverIs ==
  ASSUME WellFormed, Shaped, reachable \subseteq Node,
         NEW offered \in [reachable -> States], NEW n \in reachable
  PROVE  /\ Solver!Joined(offered, n) = Boundary(n) \cup UNION {offered[m] : m \in Solver!Upstream(n)}
         /\ Solver!Joined(offered, n) \in States
         /\ Solver!Transferred(offered, n) = Transfer(n, Solver!Joined(offered, n))
         /\ Solver!Transferred(offered, n) \in States
<1>1. Solver!Upstream(n) \subseteq reachable
  BY DEF Solver!Upstream
<1>2. /\ Problem.boundary = [m \in Node |-> Boundary(m)]
      /\ Problem.transfer = [m \in Node |-> [s \in States |-> Transfer(m, s)]]
      /\ Problem.executable = [e \in Node \X Node |-> States]
      /\ Problem.edge = [e \in Node \X Node |-> [s \in States |-> s]]
  BY DEF Problem
<1>3. ASSUME NEW m \in Solver!Upstream(n) PROVE Solver!Flow(m, n, offered[m]) = offered[m]
  <2>1. m \in reachable /\ <<m, n>> \in Node \X Node /\ offered[m] \in States
    BY <1>1
  <2>2. Problem.executable[<<m, n>>] = States /\ Problem.edge[<<m, n>>][offered[m]] = offered[m]
    BY <1>2, <2>1
  <2> QED
    BY <2>1, <2>2 DEF Solver!Flow
<1>4. Solver!Joined(offered, n) = Boundary(n) \cup UNION {offered[m] : m \in Solver!Upstream(n)}
  <2>1. {Solver!Flow(m, n, offered[m]) : m \in Solver!Upstream(n)} = {offered[m] : m \in Solver!Upstream(n)}
    BY <1>3
  <2>2. Problem.boundary[n] = Boundary(n)
    BY <1>2
  <2> QED
    BY <2>1, <2>2 DEF Solver!Joined
<1>5. Solver!Joined(offered, n) \in States
  <2>1. Boundary(n) \in States /\ \A m \in Solver!Upstream(n) : offered[m] \in States
    BY <1>1, TransferTypes, StatesClosed
  <2> QED
    BY <1>4, <2>1 DEF States
<1>6. Solver!Transferred(offered, n) = Transfer(n, Solver!Joined(offered, n))
  <2>1. Problem.transfer[n][Solver!Joined(offered, n)] = Transfer(n, Solver!Joined(offered, n))
    BY <1>2, <1>5
  <2> QED
    BY <2>1 DEF Solver!Transferred
<1> QED
  BY <1>4, <1>5, <1>6, TransferTypes
-----------------------------------------------------------------------------
(* The solver on either problem: what is not waiting is up to date.        *)
Solving ==
  /\ in_states \in [reachable -> States] /\ out_states \in [reachable -> States]
  /\ worklist \in Seq(reachable) /\ \A n \in queued : \E i \in DOMAIN worklist : worklist[i] = n
  /\ \A n \in reachable \ queued : Solver!SolvedAt(n)

(* A worklist popped and extended by t: nothing but its head is lost.      *)
AllKept(S, s, t, w) ==
  /\ w \in Seq(S)
  /\ \A i \in DOMAIN s : s[i] = Head(s) \/ \E j \in DOMAIN w : w[j] = s[i]
  /\ \A i \in DOMAIN t : \E j \in DOMAIN w : w[j] = t[i]

LEMMA Pops ==
  ASSUME NEW S, NEW s \in Seq(S), s # <<>>, NEW t \in Seq(S)
  PROVE  Head(s) \in S /\ AllKept(S, s, t, Tail(s) \o t)
<1> DEFINE u == Tail(s)
<1>1. Head(s) = s[1] /\ Head(s) \in S /\ u \in Seq(S) /\ Len(s) \in Nat \ {0} /\ Len(u) = Len(s) - 1
  OBVIOUS
<1>2. \A i \in 1..Len(u) : u[i] = s[i + 1]
  OBVIOUS
<1> HIDE DEF u
<1>3. u \o t \in Seq(S) /\ Len(u \o t) = Len(u) + Len(t)
  BY <1>1
<1>4. ASSUME NEW i \in DOMAIN s, s[i] # Head(s) PROVE \E j \in DOMAIN (u \o t) : (u \o t)[j] = s[i]
  <2>1. i \in 1..Len(s) /\ i # 1
    BY <1>1, <1>4
  <2>2. i - 1 \in 1..Len(u) /\ (i - 1) + 1 = i
    BY <1>1, <2>1
  <2>3. i - 1 \in DOMAIN (u \o t) /\ (u \o t)[i - 1] = u[i - 1]
    BY <1>1, <1>3, <2>2
  <2> QED
    BY <1>2, <2>2, <2>3
<1>5. ASSUME NEW i \in DOMAIN t PROVE \E j \in DOMAIN (u \o t) : (u \o t)[j] = t[i]
  <2>1. i \in 1..Len(t)
    OBVIOUS
  <2>2. i + Len(u) \in DOMAIN (u \o t) /\ (u \o t)[i + Len(u)] = t[i]
    BY <1>1, <1>3, <2>1
  <2> QED
    BY <2>2
<1>6. AllKept(S, s, t, u \o t)
  BY <1>3, <1>4, <1>5 DEF AllKept
<1> QED
  BY <1>1, <1>6 DEF u

LEMMA SameProblem ==
  ASSUME UNCHANGED <<source, kind, edges, code, stage>>
  PROVE  /\ Problem' = Problem /\ Direction' = Direction /\ States' = States
         /\ WellFormed' = WellFormed /\ Shaped' = Shaped /\ Reached' = Reached
<1>1. Problem' = Problem
  BY DEF Problem, Boundary, Transfer, BackwardTransfer, Some, LiveThrough, Before, Observable, Candidates,
         ReadBeforeDefinition, Graph!ReachableFrom, Avoiding, Private, ForwardTransfer, Known, Facts, Temps,
         Fact, After, Forwarded, Available, Resolve, Retained, Without, Dominates, UsedIn, UsedAfter,
         Unkept, EveryPlace, SurvivesCall
<1>2. WellFormed' = WellFormed
  BY DEF WellFormed, Defined, Dominates, Operation, Temps, Graph!ReachableFrom
<1> QED
  BY <1>1, <1>2 DEF Direction, States, Names, Shaped, Reached, Graph!ReachableFrom

LEMMA SameEvaluation ==
  ASSUME UNCHANGED <<source, kind, edges, code, stage, reachable>>
  PROVE  /\ \A x, n : /\ Solver!NextIn(x, n)' = Solver!NextIn(x, n)
                      /\ Solver!NextOut(x, n)' = Solver!NextOut(x, n)
         /\ Solver!Forward' = Solver!Forward
<1>1. Problem' = Problem /\ Direction' = Direction
  BY SameProblem
<1> HIDE DEF Problem, Direction
<1> QED
  BY <1>1 DEF Solver!NextIn, Solver!NextOut, Solver!Transferred, Solver!Joined, Solver!Flow, Solver!Forward,
              Solver!Upstream, Solver!Predecessors, Solver!Successors

(* An evaluation reads its upstream neighbours only.                       *)
LEMMA EvaluationReads ==
  ASSUME NEW offered, NEW other, NEW n, \A m \in Solver!Upstream(n) : offered[m] = other[m]
  PROVE  /\ Solver!NextIn(offered, n) = Solver!NextIn(other, n)
         /\ Solver!NextOut(offered, n) = Solver!NextOut(other, n)
<1>1. {Solver!Flow(m, n, offered[m]) : m \in Solver!Upstream(n)}
        = {Solver!Flow(m, n, other[m]) : m \in Solver!Upstream(n)}
  OBVIOUS
<1>2. Solver!Joined(offered, n) = Solver!Joined(other, n)
  BY <1>1 DEF Solver!Joined
<1> QED
  BY <1>2 DEF Solver!NextIn, Solver!NextOut, Solver!Transferred

LEMMA ListedElements ==
  ASSUME NEW S \in SUBSET Node, NEW s \in Solver!Ascending(S)
  PROVE  s \in Seq(S) /\ \A n \in S : \E i \in DOMAIN s : s[i] = n
<1>1. Solver!Cardinality(S) = Cardinality(S)
  BY DEF Solver!Cardinality, Cardinality
<1>2. Cardinality(S) \in Nat
  BY BlockAssumption, FS_Subset, FS_CardinalityType
<1>3. s \in [1..Cardinality(S) -> S] /\ {s[i] : i \in DOMAIN s} = S
  BY <1>1 DEF Solver!Ascending, Solver!Listings, Solver!Elements
<1> QED
  BY <1>2, <1>3
LEMMA SolveKeeps ==
  ASSUME WellFormed, Shaped, reachable \subseteq Node, Solving, Solve
  PROVE  Solving'
<1> DEFINE n == Head(worklist)
           O == Solver!Offered
<1>0. /\ UNCHANGED <<source, kind, edges, code, stage, reachable>>
      /\ worklist # <<>> /\ Solver!Evaluation
  BY DEF Solve, graph, Solver!Evaluation
<1>1. PICK added \in Solver!Ascending(Solver!Requeued(n)) : worklist' = Tail(worklist) \o added
  BY <1>0 DEF Solver!Evaluation
<1>2. /\ in_states' = [in_states EXCEPT ![n] = Solver!NextIn(O, n)]
      /\ out_states' = [out_states EXCEPT ![n] = Solver!NextOut(O, n)]
      /\ queued' = (queued \ {n}) \cup Solver!Requeued(n)
  BY <1>0 DEF Solver!Evaluation
<1>3. Solver!Requeued(n) \subseteq reachable /\ Solver!Requeued(n) \in SUBSET Node
  BY DEF Solver!Requeued, Solver!Downstream
<1>4. added \in Seq(reachable) /\ \A m \in Solver!Requeued(n) : \E i \in DOMAIN added : added[i] = m
  <2>1. added \in Seq(Solver!Requeued(n))
    BY <1>3, ListedElements
  <2> QED
    BY <1>3, <2>1, ListedElements
<1>5. /\ n \in reachable /\ worklist' \in Seq(reachable)
      /\ \A i \in DOMAIN worklist : worklist[i] = n \/ \E j \in DOMAIN worklist' : worklist'[j] = worklist[i]
      /\ \A i \in DOMAIN added : \E j \in DOMAIN worklist' : worklist'[j] = added[i]
  <2>1. worklist \in Seq(reachable) /\ worklist # <<>>
    BY <1>0 DEF Solving
  <2>2. added \in Seq(reachable)
    BY <1>4
  <2>3. n \in reachable /\ AllKept(reachable, worklist, added, Tail(worklist) \o added)
    BY <2>1, <2>2, Pops
  <2>4. AllKept(reachable, worklist, added, worklist')
    BY <1>1, <2>3
  <2> QED
    BY <2>3, <2>4 DEF AllKept
<1>6. \A m \in queued' : \E i \in DOMAIN worklist' : worklist'[i] = m
  <2> SUFFICES ASSUME NEW m \in queued' PROVE \E i \in DOMAIN worklist' : worklist'[i] = m
    OBVIOUS
  <2>1. CASE m \in Solver!Requeued(n)
    BY <1>4, <1>5, <2>1
  <2>2. CASE m \in queued /\ m # n
    <3>1. PICK i \in DOMAIN worklist : worklist[i] = m
      BY <2>2 DEF Solving
    <3> QED
      BY <1>5, <2>2, <3>1
  <2> QED
    BY <1>2, <2>1, <2>2
<1>7. O \in [reachable -> States] /\ in_states \in [reachable -> States] /\ out_states \in [reachable -> States]
  BY DEF Solving, Solver!Offered
<1>8. Solver!NextIn(O, n) \in States /\ Solver!NextOut(O, n) \in States
  BY <1>5, <1>7, SolverIs DEF Solver!NextIn, Solver!NextOut
<1>9. in_states' \in [reachable -> States] /\ out_states' \in [reachable -> States]
  BY <1>2, <1>7, <1>8
<1>10. O' = [O EXCEPT ![n] = Solver!Transferred(O, n)] /\ \A m \in reachable : m # n => O'[m] = O[m]
  <2>1. Solver!Forward' = Solver!Forward
    BY <1>0, SameEvaluation
  <2>2. O' = [O EXCEPT ![n] = Solver!Transferred(O, n)]
    BY <1>2, <2>1 DEF Solver!Offered, Solver!NextIn, Solver!NextOut
  <2> HIDE DEF O
  <2> QED
    BY <1>7, <2>2
<1>11. ASSUME NEW m \in reachable, m \notin queued' PROVE Solver!SolvedAt(m)'
  <2>1. \A k \in Solver!Upstream(m) : O'[k] = O[k]
    <3> SUFFICES ASSUME NEW k \in Solver!Upstream(m) PROVE O'[k] = O[k]
      OBVIOUS
    <3>1. k \in reachable
      BY DEF Solver!Upstream
    <3>2. CASE k # n
      BY <1>10, <3>1, <3>2
    <3>3. CASE k = n
      <4>1. m \in Solver!Downstream(n)
        BY <1>11, <3>3 DEF Solver!Downstream, Solver!Upstream, Solver!Predecessors, Solver!Successors
      <4>2. m \notin Solver!Requeued(n) /\ m \notin queued \ {n}
        BY <1>2, <1>11
      <4>3. Solver!Transferred(O, n) = O[n]
        BY <4>1, <4>2 DEF Solver!Requeued, Solver!Propagates
      <4> HIDE DEF O
      <4> QED
        BY <1>5, <1>7, <1>10, <3>3, <4>3
    <3> QED
      BY <3>2, <3>3
  <2>2. Solver!NextIn(O', m) = Solver!NextIn(O, m) /\ Solver!NextOut(O', m) = Solver!NextOut(O, m)
    BY <2>1, EvaluationReads
  <2>3. in_states'[m] = Solver!NextIn(O, m) /\ out_states'[m] = Solver!NextOut(O, m)
    <3>1. CASE m = n
      BY <1>2, <1>5, <1>7, <3>1
    <3>2. CASE m # n
      <4>1. Solver!SolvedAt(m)
        BY <1>2, <1>11, <3>2 DEF Solving
      <4> QED
        BY <1>2, <1>7, <1>11, <3>2, <4>1 DEF Solver!SolvedAt
    <3> QED
      BY <3>1, <3>2
  <2>4. Solver!NextIn(O, m)' = Solver!NextIn(O', m) /\ Solver!NextOut(O, m)' = Solver!NextOut(O', m)
    <3>1. Problem' = Problem /\ Direction' = Direction
      BY <1>0, SameProblem
    <3> HIDE DEF Problem, Direction, O
    <3> QED
      BY <1>0, <3>1 DEF Solver!NextIn, Solver!NextOut, Solver!Transferred, Solver!Joined, Solver!Flow,
           Solver!Forward, Solver!Upstream, Solver!Predecessors, Solver!Successors
  <2> QED
    BY <2>2, <2>3, <2>4 DEF Solver!SolvedAt
<1>12. States' = States /\ reachable' = reachable
  BY <1>0, SameProblem
<1> QED
  BY <1>5, <1>6, <1>9, <1>11, <1>12 DEF Solving
-----------------------------------------------------------------------------
(* What the solver has at the end of forwarding: facts that are sound.     *)
Walked ==
  /\ reachable \subseteq Node /\ Reached \subseteq reachable
  /\ \A forward \in BOOLEAN :
       /\ OrderFor(forward) \in Seq(reachable)
       /\ \A n \in reachable : \E i \in DOMAIN OrderFor(forward) : OrderFor(forward)[i] = n

LEMMA AllSolved ==
  ASSUME Solving, Solver!Done
  PROVE  \A n \in reachable : Solver!SolvedAt(n)
<1>1. worklist = <<>> /\ DOMAIN worklist = {}
  BY DEF Solver!Done
<1>2. queued = {}
  BY <1>1 DEF Solving
<1> QED
  BY <1>2 DEF Solving

LEMMA ForwardSolved ==
  ASSUME WellFormed, Shaped, Walked, Solving, Solver!Done, stage = "forwarding"
  PROVE  /\ Some({}) \subseteq in_states[Entry]
         /\ \A n \in reachable : out_states[n] = ForwardTransfer(n, in_states[n])
         /\ \A e \in edges : e[1] \in reachable /\ e[2] \in reachable => out_states[e[1]] \subseteq in_states[e[2]]
<1>1. Direction = "Forward"
  BY DEF Direction
<1>2. Solver!Forward /\ Solver!Offered = out_states
  BY <1>1 DEF Solver!Forward, Solver!Offered
<1>3. ASSUME NEW n \in reachable
      PROVE  /\ in_states[n] = Boundary(n) \cup UNION {out_states[m] : m \in Solver!Upstream(n)}
             /\ out_states[n] = ForwardTransfer(n, in_states[n])
  <2>1. in_states[n] = Solver!NextIn(out_states, n) /\ out_states[n] = Solver!NextOut(out_states, n)
    BY <1>2, AllSolved DEF Solver!SolvedAt
  <2>2. in_states[n] = Solver!Joined(out_states, n) /\ out_states[n] = Solver!Transferred(out_states, n)
    BY <1>2, <2>1 DEF Solver!NextIn, Solver!NextOut
  <2>3. out_states \in [reachable -> States] /\ reachable \subseteq Node
    BY DEF Solving, Walked
  <2> QED
    BY <2>2, <2>3, SolverIs DEF Transfer
<1>4. Some({}) \subseteq in_states[Entry]
  <2>1. Entry \in reachable
    BY ReachedIs DEF Walked
  <2> QED
    BY <1>3, <2>1 DEF Boundary
<1>5. ASSUME NEW e \in edges, e[1] \in reachable, e[2] \in reachable
      PROVE  out_states[e[1]] \subseteq in_states[e[2]]
  <2>1. e[1] \in Solver!Upstream(e[2])
    BY <1>2, <1>5, ReachedIs DEF Solver!Upstream, Solver!Predecessors
  <2> QED
    BY <1>3, <1>5, <2>1
<1> QED
  BY <1>3, <1>4, <1>5

AtStart == [n \in Node |-> Known(in_states[n])]

LEMMA ForwardSound ==
  ASSUME WellFormed, Shaped, Walked, Solving, Solver!Done, stage = "forwarding"
  PROVE  Sound(AtStart)
<1> DEFINE S == {n \in Reached : Arrived \in in_states[n]}
<1>1. Arrived \in Some({}) /\ \A known : Arrived \in Some(known) /\ Some({}) = {Arrived} \cup Fact
  BY DEF Some
<1>2. Entry \in S
  BY <1>1, ForwardSolved, ReachedIs
<1>3. ASSUME NEW n \in S, NEW m, <<n, m>> \in edges
      PROVE  /\ m \in S
             /\ Known(in_states[m]) \subseteq Facts(n, Known(in_states[n]))[Ending(n)]
  <2> DEFINE ends == Facts(n, Known(in_states[n]))[Ending(n)]
  <2>1. m \in Reached /\ n \in reachable /\ m \in reachable
    <3>1. <<n, m>>[1] = n /\ <<n, m>>[2] = m
      OBVIOUS
    <3> QED
      BY <1>3, <3>1, ReachedIs DEF Walked
  <2>2. out_states[n] = Some(ends)
    BY <1>3, <2>1, ForwardSolved DEF ForwardTransfer, Ending
  <2>3. out_states[n] \subseteq in_states[m]
    <3>1. <<n, m>>[1] = n /\ <<n, m>>[2] = m
      OBVIOUS
    <3> QED
      BY <1>3, <2>1, <3>1, ForwardSolved
  <2> HIDE DEF ends
  <2>4. Arrived \in in_states[m] /\ Fact \ ends \subseteq in_states[m]
    BY <2>2, <2>3 DEF Some
  <2>5. Known(in_states[m]) \subseteq ends
    BY <2>4 DEF Known
  <2> QED
    BY <2>1, <2>4, <2>5 DEF ends
<1>4. Reached \subseteq S
  <2>1. ASSUME NEW e \in edges, e[1] \in S PROVE e[2] \in S
    <3>1. e = <<e[1], e[2]>>
      BY ReachedIs
    <3>2. <<e[1], e[2]>> \in edges
      BY <3>1
    <3> HIDE DEF S
    <3> QED
      BY <1>3, <2>1, <3>2
  <2>2. edges \in SUBSET (Node \X Node) /\ Entry \in Node
    BY BlockAssumption DEF WellFormed, Entry
  <2> HIDE DEF S
  <2> QED
    BY <1>2, <2>1, <2>2, ReachesOnly DEF Reached
<1>5. AtStart \in [Node -> SUBSET Fact]
  BY DEF AtStart, Known
<1>6. Entry \in Node /\ AtStart[Entry] = {}
  <2>1. Entry \in Node
    BY BlockAssumption DEF Entry
  <2>2. Fact \subseteq in_states[Entry]
    BY <1>1, ForwardSolved
  <2> QED
    BY <2>1, <2>2 DEF AtStart, Known
<1>7. ASSUME NEW e \in edges, e[1] \in Reached
      PROVE  AtStart[e[2]] \subseteq Facts(e[1], AtStart[e[1]])[Ending(e[1])]
  <2>1. e = <<e[1], e[2]>> /\ e[1] \in Node /\ e[2] \in Node
    BY ReachedIs
  <2>2. <<e[1], e[2]>> \in edges /\ e[1] \in S
    BY <1>4, <1>7, <2>1
  <2>3. AtStart[e[1]] = Known(in_states[e[1]]) /\ AtStart[e[2]] = Known(in_states[e[2]])
    BY <2>1 DEF AtStart
  <2> HIDE DEF S, AtStart
  <2> QED
    BY <1>3, <2>2, <2>3
<1> QED
  BY <1>5, <1>6, <1>7 DEF Sound
-----------------------------------------------------------------------------
(* What the routine that comes out has to do with the one that went in.    *)
Copy(n, i, known) ==
  /\ code[n][i].kind = source[n][i].kind /\ code[n][i].home = source[n][i].home
  /\ code[n][i].value = Resolve(source[n][i].value, Facts(n, known[n])[i])
Follows(known) ==
  /\ Sound(known)
  /\ \A n \in Node : \A i \in DOMAIN source[n] :
       \/ Copy(n, i, known)
       \/ code[n][i] = Dropped /\ source[n][i].kind \in {"load", "store"}
StoresLeft ==
  \A n \in Node : \A i \in DOMAIN source[n] :
    source[n][i].kind = "store" => code[n][i].kind = "store" /\ code[n][i].home = source[n][i].home

(* What the stores that are gone rely on: no home of C is read before the  *)
(* next store into it but where it is live.                                *)
Plan(C, thr) ==
  /\ C \subseteq Home
  /\ \A n \in Node : \A i \in DOMAIN source[n] :
       /\ code[n][i].kind = "load" /\ code[n][i].home \in C => code[n][i].home \in thr[n][i]
       /\ C \cap Reads(code[n][i]) \subseteq thr[n][i]
       /\ source[n][i].kind # "store" => C \cap thr[n][i + 1] \subseteq thr[n][i]
       /\ source[n][i].kind = "store" =>
            /\ C \cap thr[n][i + 1] \subseteq thr[n][i] \cup {source[n][i].home}
            /\ code[n][i] = Dropped => source[n][i].home \in C \ thr[n][i + 1]
  /\ \A e \in edges : e[1] \in Reached => thr[e[2]][1] \subseteq thr[e[1]][Ending(e[1])]

LEMMA DroppedIs ==
  Dropped.kind = "dropped" /\ Reads(Dropped) = {}
BY DEF Dropped, Op, Reads

LEMMA LenIs ==
  ASSUME NEW L \in Nat, NEW f, DOMAIN f = 1..L, f = [i \in DOMAIN f |-> f[i]]
  PROVE  Len(f) = L
<1> DEFINE S == {f[i] : i \in 1..L}
<1>1. f \in [1..L -> S]
  OBVIOUS
<1> HIDE DEF S
<1>2. f \in Seq(S)
  BY <1>1
<1> QED
  BY <1>2

LEMMA SameFacts ==
  ASSUME UNCHANGED <<source, kind, edges>>
  PROVE  /\ \A n, known : Facts(n, known)' = Facts(n, known)
         /\ \A v, known : Resolve(v, known)' = Resolve(v, known)
         /\ \A known : Sound(known)' <=> Sound(known)
<1>1. ASSUME NEW n, NEW known PROVE Facts(n, known)' = Facts(n, known)
  BY DEF Facts, Fact, Temps, After, Forwarded, Available, Resolve, Retained, Without, Dominates, UsedIn, UsedAfter,
         Unkept, EveryPlace, SurvivesCall, Private, Graph!ReachableFrom
<1>2. ASSUME NEW v, NEW known PROVE Resolve(v, known)' = Resolve(v, known)
  BY DEF Resolve, Temps
<1>3. Fact' = Fact /\ Reached' = Reached /\ \A n : Ending(n)' = Ending(n)
  BY DEF Fact, Temps, Reached, Graph!ReachableFrom, Ending
<1>4. ASSUME NEW known PROVE Sound(known)' <=> Sound(known)
  BY <1>1, <1>3 DEF Sound
<1> QED
  BY <1>1, <1>2, <1>4

LEMMA ForwardRewrites ==
  ASSUME WellFormed, Shaped, Walked, Solving, stage = "forwarding", Forward
  PROVE  Shaped' /\ StoresLeft' /\ \E known : Follows(known)'
<1>0. UNCHANGED <<source, kind, edges, reachable>> /\ Solver!Done /\ code' = [n \in Node |-> ForwardedCode(n, Known(in_states[n]))]
  BY DEF Forward, graph
<1>1. PICK k : k = AtStart
  OBVIOUS
<1>2. Sound(k)
  BY <1>0, <1>1, ForwardSound
<1>3. Sound(k)'
  BY <1>0, <1>2, SameFacts
<1>4. ASSUME NEW n \in Node
      PROVE  /\ code'[n] = [i \in DOMAIN source[n] |-> Rewritten(n, i, Facts(n, k[n])[i])]
             /\ DOMAIN code'[n] = DOMAIN source[n] /\ Len(code'[n]) = Len(source[n])
  <2>1. k[n] = Known(in_states[n])
    BY <1>1 DEF AtStart
  <2>2. code'[n] = [i \in DOMAIN source[n] |-> Rewritten(n, i, Facts(n, k[n])[i])]
    BY <1>0, <2>1 DEF ForwardedCode
  <2>3. DOMAIN code'[n] = DOMAIN source[n] /\ code'[n] = [i \in DOMAIN code'[n] |-> code'[n][i]]
    BY <2>2
  <2>4. DOMAIN source[n] = 1..Len(source[n]) /\ Len(source[n]) \in Nat
    BY DEF WellFormed
  <2>5. Len(code'[n]) = Len(source[n])
    BY <2>3, <2>4, LenIs
  <2> QED
    BY <2>2, <2>3, <2>5
<1>5. Shaped'
  BY <1>0, <1>4 DEF Shaped
<1>6. ASSUME NEW n \in Node, NEW i \in DOMAIN source[n]
      PROVE  \/ code'[n][i] = Dropped /\ source[n][i].kind = "load"
             \/ /\ code'[n][i].kind = source[n][i].kind /\ code'[n][i].home = source[n][i].home
                /\ code'[n][i].value = Resolve(source[n][i].value, Facts(n, k[n])[i])
  <2> DEFINE op == source[n][i]
             r == Resolve(source[n][i].value, Facts(n, k[n])[i])
  <2>1. code'[n][i] = Rewritten(n, i, Facts(n, k[n])[i])
    BY <1>4
  <2>2. CASE Forwarded(n, i, Facts(n, k[n])[i])
    BY <2>1, <2>2 DEF Rewritten, Forwarded
  <2>3. CASE ~Forwarded(n, i, Facts(n, k[n])[i])
    <3>1. code'[n][i] = [op EXCEPT !.value = r]
      BY <2>1, <2>3 DEF Rewritten
    <3>2. op \in Operation
      <4>1. source[n] \in Seq(Operation)
        BY DEF WellFormed
      <4> QED
        BY <4>1
    <3> HIDE DEF op, r
    <3>3. [op EXCEPT !.value = r].kind = op.kind /\ [op EXCEPT !.value = r].home = op.home
          /\ [op EXCEPT !.value = r].value = r
      BY <3>2 DEF Operation
    <3> QED
      BY <3>1, <3>3 DEF op, r
  <2> QED
    BY <2>2, <2>3
<1>7. \A n \in Node : \A v, i : Resolve(v, Facts(n, k[n])[i])' = Resolve(v, Facts(n, k[n])[i])
  BY <1>0, SameFacts
<1>8. Follows(k)'
  <2>1. ASSUME NEW n \in Node, NEW i \in DOMAIN source[n], code'[n][i] # Dropped
        PROVE  Copy(n, i, k)'
    <3>1. PICK v : v = source[n][i].value
      OBVIOUS
    <3>2. Resolve(source[n][i].value, Facts(n, k[n])[i])' = Resolve(v, Facts(n, k[n])[i])'
      BY <1>0, <3>1
    <3>3. Resolve(source[n][i].value, Facts(n, k[n])[i])' = Resolve(source[n][i].value, Facts(n, k[n])[i])
      BY <1>7, <3>1, <3>2
    <3> QED
      BY <1>0, <1>6, <2>1, <3>3 DEF Copy
  <2>2. \A n \in Node : \A i \in DOMAIN source[n] : code'[n][i] = Dropped =>
          source[n][i].kind \in {"load", "store"}
    <3>1. \A n \in Node : \A i \in DOMAIN source[n] : source[n][i].kind \in Kinds /\ "dropped" \notin Kinds
      BY OpFacts DEF Kinds
    <3> QED
      BY <1>6, <3>1, DroppedIs
  <2> QED
    BY <1>0, <1>3, <2>1, <2>2 DEF Follows
<1>9. StoresLeft'
  BY <1>0, <1>6 DEF StoresLeft
<1> QED
  BY <1>5, <1>8, <1>9
-----------------------------------------------------------------------------
LEMMA BackwardSolved ==
  ASSUME WellFormed, Shaped, Walked, Solving, Solver!Done, stage = "liveness",
         NEW e \in edges, e[1] \in reachable, e[2] \in reachable
  PROVE  LiveThrough(e[2], Live(out_states[e[2]]))[1] \subseteq Live(out_states[e[1]])
<1> DEFINE n == e[1]
           m == e[2]
           thr == LiveThrough(m, Live(out_states[m]))
<1>1. Direction = "Backward"
  BY DEF Direction
<1>2. ~Solver!Forward /\ Solver!Offered = in_states
  BY <1>1 DEF Solver!Forward, Solver!Offered
<1>3. out_states[n] = Solver!Joined(in_states, n) /\ in_states[m] = Solver!Transferred(in_states, m)
      /\ out_states[m] = Solver!Joined(in_states, m)
  <2>1. Solver!SolvedAt(n) /\ Solver!SolvedAt(m)
    BY AllSolved
  <2> QED
    BY <1>2, <2>1 DEF Solver!SolvedAt, Solver!NextIn, Solver!NextOut
<1>4. in_states \in [reachable -> States] /\ reachable \subseteq Node /\ m \in Node
  BY DEF Solving, Walked
<1>5. in_states[m] = AsState(thr[1])
  <2>1. Solver!Transferred(in_states, m) = Transfer(m, Solver!Joined(in_states, m))
    BY <1>4, SolverIs
  <2> QED
    BY <1>3, <2>1 DEF Transfer, BackwardTransfer
<1>6. m \in Solver!Upstream(n)
  BY <1>2, ReachedIs DEF Solver!Upstream, Solver!Successors
<1>7. in_states[m] \subseteq out_states[n]
  <2>1. Solver!Joined(in_states, n) = Boundary(n) \cup UNION {in_states[k] : k \in Solver!Upstream(n)}
    BY <1>4, SolverIs
  <2> QED
    BY <1>3, <1>6, <2>1
<1>8. thr[1] \in SUBSET Home
  <2>1. 1 \in 1..Ending(m)
    BY <1>4 DEF WellFormed, Ending
  <2> QED
    BY <1>4, <2>1, LiveIs, LiveOf
<1>9. Live(AsState(thr[1])) = thr[1]
  BY <1>8, LiveOf
<1>10. Live(in_states[m]) \subseteq Live(out_states[n])
  BY <1>7 DEF Live
<1> QED
  BY <1>5, <1>9, <1>10

LEMMA EliminatePlans ==
  ASSUME WellFormed, Shaped, Walked, Solving, stage = "liveness", Eliminate, StoresLeft,
         NEW known, Follows(known)
  PROVE  Shaped' /\ Follows(known)' /\ \E C, thr : Plan(C, thr)'
<1>0. /\ UNCHANGED <<source, kind, edges, reachable>> /\ Solver!Done
      /\ code' = [n \in Node |-> Elided(n, Live(out_states[n]))]
  BY DEF Eliminate, graph
<1> DEFINE Thr == [n \in Node |-> LiveThrough(n, Live(out_states[n]))]
<1>1. PICK C, thr : C = Candidates /\ thr = Thr
  OBVIOUS
<1>2. C \subseteq Home
  BY <1>1 DEF Candidates
<1>3. ASSUME NEW n \in Node
      PROVE  /\ code'[n] = [i \in DOMAIN code[n] |->
                              IF code[n][i].kind = "store" /\ code[n][i].home \in C \ thr[n][i + 1]
                                THEN Dropped ELSE code[n][i]]
             /\ DOMAIN code'[n] = DOMAIN source[n] /\ Len(code'[n]) = Len(source[n])
  <2>1. thr[n] = LiveThrough(n, Live(out_states[n]))
    BY <1>1
  <2>2. code'[n] = [i \in DOMAIN code[n] |->
                      IF code[n][i].kind = "store" /\ code[n][i].home \in C \ thr[n][i + 1]
                        THEN Dropped ELSE code[n][i]]
    BY <1>0, <1>1, <2>1 DEF Elided
  <2>3. DOMAIN code'[n] = DOMAIN source[n] /\ code'[n] = [i \in DOMAIN code'[n] |-> code'[n][i]]
    BY <2>2 DEF Shaped
  <2>4. DOMAIN source[n] = 1..Len(source[n]) /\ Len(source[n]) \in Nat
    BY DEF WellFormed
  <2>5. Len(code'[n]) = Len(source[n])
    BY <2>3, <2>4, LenIs
  <2> QED
    BY <2>2, <2>3, <2>5
<1>4. Shaped'
  BY <1>0, <1>3 DEF Shaped
<1>5. ASSUME NEW n \in Node, NEW i \in DOMAIN source[n]
      PROVE  \/ code'[n][i] = code[n][i]
             \/ /\ code'[n][i] = Dropped /\ code[n][i].kind = "store"
                /\ code[n][i].home \in C \ thr[n][i + 1]
  BY <1>3, ZenonT(60) DEF Shaped
<1>6. ASSUME NEW n \in Node, NEW i \in DOMAIN source[n], source[n][i].kind = "store"
      PROVE  /\ code[n][i].home = source[n][i].home /\ code[n][i] # Dropped
             /\ code'[n][i] = Dropped => source[n][i].home \in C \ thr[n][i + 1]
  <2>1. code[n][i].kind = "store" /\ code[n][i].home = source[n][i].home
    BY <1>6 DEF StoresLeft
  <2> QED
    BY <1>5, <2>1, DroppedIs
<1>7. Follows(known)'
  <2>1. Sound(known)'
    BY <1>0, SameFacts DEF Follows
  <2>2. ASSUME NEW n \in Node, NEW i \in DOMAIN source[n]
        PROVE  \/ Copy(n, i, known)'
               \/ code'[n][i] = Dropped /\ source[n][i].kind \in {"load", "store"}
    <3>1. CASE code'[n][i] = Dropped /\ code[n][i].kind = "store"
      <4>1. source[n][i].kind = "store"
        BY <3>1, DroppedIs DEF Follows, Copy
      <4> QED
        BY <3>1, <4>1
    <3>2. CASE code'[n][i] = code[n][i] /\ Copy(n, i, known)
      <4>1. PICK v : v = source[n][i].value
        OBVIOUS
      <4>2. PICK F : F = Facts(n, known[n])[i]
        OBVIOUS
      <4>3. Facts(n, known[n])[i]' = F
        BY <1>0, <4>2, SameFacts
      <4>4. Resolve(v, F)' = Resolve(v, F)
        BY <1>0, SameFacts
      <4>5. Resolve(source[n][i].value, Facts(n, known[n])[i])' = Resolve(v, F)'
        BY <1>0, <4>1, <4>3
      <4> QED
        BY <1>0, <3>2, <4>1, <4>2, <4>4, <4>5 DEF Copy
    <3>3. CASE code'[n][i] = code[n][i] /\ code[n][i] = Dropped /\ source[n][i].kind \in {"load", "store"}
      BY <3>3
    <3> QED
      BY <1>5, <3>1, <3>2, <3>3 DEF Follows
  <2> QED
    BY <1>0, <2>1, <2>2 DEF Follows
<1>8. ASSUME NEW n \in Node, NEW i \in DOMAIN source[n]
      PROVE  /\ code'[n][i].kind = "load" /\ code'[n][i].home \in C => code'[n][i].home \in thr[n][i]
             /\ C \cap Reads(code'[n][i]) \subseteq thr[n][i]
             /\ source[n][i].kind # "store" => C \cap thr[n][i + 1] \subseteq thr[n][i]
             /\ source[n][i].kind = "store" => C \cap thr[n][i + 1] \subseteq thr[n][i] \cup {source[n][i].home}
  <2>1. i \in 1..Len(source[n])
    BY DEF WellFormed
  <2>2. thr[n][i] = Before(code[n][i], thr[n][i + 1])
    BY <1>1, <2>1, LiveIs, LiveOf
  <2>3. /\ code[n][i].kind = "load" /\ code[n][i].home \in C => code[n][i].home \in thr[n][i]
        /\ C \cap Reads(code[n][i]) \subseteq thr[n][i]
        /\ C \cap thr[n][i + 1] \subseteq thr[n][i] \cup {code[n][i].home}
        /\ code[n][i].kind # "store" => C \cap thr[n][i + 1] \subseteq thr[n][i]
    BY <1>1, <2>2, BeforeFacts
  <2>4. source[n][i].kind # "store" => code[n][i].kind # "store"
    BY DroppedIs DEF Follows, Copy
  <2> QED
    BY <1>5, <1>6, <2>3, <2>4, DroppedIs
<1>9. ASSUME NEW e \in edges, e[1] \in Reached PROVE thr[e[2]][1] \subseteq thr[e[1]][Ending(e[1])]
  <2>1. e[1] \in Node /\ e[2] \in Node /\ e[1] \in reachable /\ e[2] \in reachable
    BY <1>9, ReachedIs DEF Walked
  <2>2. thr[e[1]][Ending(e[1])] = Live(out_states[e[1]])
    BY <1>1, <2>1, LiveIs, LiveOf
  <2>3. thr[e[2]] = LiveThrough(e[2], Live(out_states[e[2]]))
    BY <1>1, <2>1
  <2> QED
    BY <1>0, <2>1, <2>2, <2>3, BackwardSolved
<1>10. Reached' = Reached /\ \A n : Ending(n)' = Ending(n)
  BY <1>0 DEF Reached, Ending, Graph!ReachableFrom
<1>11. \A n, i : Reads(code[n][i])' = Reads(code'[n][i])
  BY <1>0 DEF Reads, Private
<1>12. Plan(C, thr)'
  <2>1. ASSUME NEW n \in Node, NEW i \in DOMAIN source[n]
        PROVE  /\ code'[n][i].kind = "load" /\ code'[n][i].home \in C => code'[n][i].home \in thr[n][i]
               /\ C \cap Reads(code[n][i])' \subseteq thr[n][i]
               /\ source[n][i].kind # "store" => C \cap thr[n][i + 1] \subseteq thr[n][i]
               /\ source[n][i].kind = "store" =>
                    /\ C \cap thr[n][i + 1] \subseteq thr[n][i] \cup {source[n][i].home}
                    /\ code'[n][i] = Dropped => source[n][i].home \in C \ thr[n][i + 1]
    BY <1>6, <1>8, <1>11
  <2>2. \A e \in edges' : e[1] \in Reached' => thr[e[2]][1] \subseteq thr[e[1]][Ending(e[1])]
    BY <1>0, <1>9, <1>10
  <2>3. \A e : Ending(e[1])' = Ending(e[1])
    BY <1>10
  <2>4. Dropped' = Dropped
    BY DEF Dropped
  <2> QED
    BY <1>0, <1>2, <2>1, <2>2, <2>3, <2>4 DEF Plan
<1> QED
  BY <1>4, <1>7, <1>12
-----------------------------------------------------------------------------
(* The run: facts hold of the value followed, and no home whose store is   *)
(* gone is live.                                                           *)
Running(known, C, thr) ==
  /\ at = <<at[1], at[2]>> /\ at[1] \in Reached /\ at[2] \in 1..Len(source[at[1]])
  /\ Agree(Facts(at[1], known[at[1]])[at[2]], holders)
  /\ stale \subseteq C /\ stale \cap thr[at[1]][at[2]] = {}
Guided == \E known, C, thr : Follows(known) /\ Plan(C, thr) /\ Running(known, C, thr)

LEMMA SameCode ==
  ASSUME UNCHANGED <<source, kind, edges, code>>
  PROVE  /\ \A known : Follows(known) => Follows(known)'
         /\ \A C, thr : Plan(C, thr) => Plan(C, thr)'
<1>1. ASSUME NEW known, Follows(known) PROVE Follows(known)'
  <2>1. Sound(known)'
    BY <1>1, SameFacts DEF Follows
  <2>2. ASSUME NEW n, NEW i, Copy(n, i, known) PROVE Copy(n, i, known)'
    <3>1. PICK v, F : v = source[n][i].value /\ F = Facts(n, known[n])[i]
      OBVIOUS
    <3>2. Facts(n, known[n])[i]' = F
      BY <3>1, SameFacts
    <3>3. Resolve(v, F)' = Resolve(v, F)
      BY SameFacts
    <3>4. Resolve(source[n][i].value, Facts(n, known[n])[i])' = Resolve(v, F)'
      BY <3>1, <3>2
    <3> QED
      BY <2>2, <3>1, <3>3, <3>4 DEF Copy
  <2> QED
    BY <1>1, <2>1, <2>2 DEF Follows, Dropped
<1>2. ASSUME NEW C, NEW thr, Plan(C, thr) PROVE Plan(C, thr)'
  <2>1. \A n, i : Reads(code[n][i])' = Reads(code[n][i])
    BY DEF Reads, Private
  <2>2. Reached' = Reached /\ \A e : Ending(e[1])' = Ending(e[1])
    BY DEF Reached, Ending, Graph!ReachableFrom
  <2>3. \A n \in Node : \A i \in DOMAIN source[n] :
          /\ code[n][i].kind = "load" /\ code[n][i].home \in C => code[n][i].home \in thr[n][i]
          /\ C \cap Reads(code[n][i])' \subseteq thr[n][i]
          /\ source[n][i].kind # "store" => C \cap thr[n][i + 1] \subseteq thr[n][i]
          /\ source[n][i].kind = "store" =>
               /\ C \cap thr[n][i + 1] \subseteq thr[n][i] \cup {source[n][i].home}
               /\ code[n][i] = Dropped => source[n][i].home \in C \ thr[n][i + 1]
    BY <1>2, <2>1 DEF Plan
  <2>4. C \subseteq Home /\ \A e \in edges : e[1] \in Reached => thr[e[2]][1] \subseteq thr[e[1]][Ending(e[1])]
    BY <1>2 DEF Plan
  <2>5. Dropped' = Dropped
    BY DEF Dropped
  <2> QED
    BY <2>2, <2>3, <2>4, <2>5 DEF Plan
<1> QED
  BY <1>1, <1>2

LEMMA StepMoves ==
  ASSUME WellFormed, Step, NEW n \in Node, NEW i \in DOMAIN source[n], at = <<n, i>>
  PROVE  Moved(n, i, holders, holders')
<1> DEFINE op == source[n][i]
<1>0. at[1] = n /\ at[2] = i /\ Upcoming = op
  BY DEF Upcoming
<1>1. ASSUME NEW names, holders' \in Fresh(names)
      PROVE  \A x : x \notin names => (x \in holders' <=> x \in holders)
  BY <1>1 DEF Fresh
<1>2. CASE op.kind = "load"
  <2>1. holders' = Copied(Place(op.home), Temp(n, i))
    BY <1>0, <1>2 DEF Step
  <2> QED
    BY <1>2, <2>1 DEF Moved, Copied
<1>3. CASE op.kind = "store"
  <2>1. holders' = Copied(op.value, Place(op.home))
    BY <1>0, <1>3 DEF Step
  <2> QED
    BY <1>3, <2>1 DEF Moved, Copied
<1>4. CASE op.kind \in {"compute", "divide"}
  <2>1. holders' \in Fresh({Temp(n, i)})
    BY <1>0, <1>4 DEF Step
  <2>2. \A x : x # Temp(n, i) => (x \in holders' <=> x \in holders)
    BY <1>1, <2>1
  <2> QED
    BY <1>4, <2>2 DEF Moved
<1>5. CASE op.kind \notin {"load", "store", "compute", "divide"}
  <2>1. PICK W \in SUBSET Writes(op) : holders' \in Fresh({Place(h) : h \in W})
    BY <1>0, <1>5 DEF Step
  <2>2. \A x : x \notin {Place(h) : h \in W} => (x \in holders' <=> x \in holders)
    BY <1>1, <2>1
  <2>3. \A x : (\A h \in Writes(op) : x # Place(h)) => x \notin {Place(h) : h \in W}
    OBVIOUS
  <2> QED
    BY <1>5, <2>2, <2>3 DEF Moved
<1> QED
  BY <1>2, <1>3, <1>4, <1>5

LEMMA StepGuided ==
  ASSUME WellFormed, Guided, Step
  PROVE  Guided'
<1>1. PICK known, C, thr : Follows(known) /\ Plan(C, thr) /\ Running(known, C, thr)
  BY DEF Guided
<1>2. UNCHANGED <<source, kind, edges, code>> /\ Upcoming.kind # "leave"
  BY DEF Step, graph
<1>3. PICK n, i : n = at[1] /\ i = at[2]
  OBVIOUS
<1>4. /\ at = <<n, i>> /\ n \in Reached /\ n \in Node /\ i \in 1..Len(source[n]) /\ i \in DOMAIN source[n]
      /\ Upcoming = source[n][i] /\ Optimized = code[n][i]
  <2>1. at = <<n, i>> /\ n \in Reached /\ n \in Node /\ i \in 1..Len(source[n])
    BY <1>1, <1>3, ReachedIs DEF Running
  <2> QED
    BY <1>3, <2>1 DEF WellFormed, Upcoming, Optimized
<1>5. at' = <<n, i + 1>> /\ i + 1 \in 1..Len(source[n])
  <2>1. i # Len(source[n]) /\ Len(source[n]) \in Nat
    BY <1>2, <1>4, OpFacts
  <2> QED
    BY <1>3, <1>4, <2>1 DEF Step
<1>6. Agree(Facts(n, known[n])[i + 1], holders')
  <2>1. /\ Facts(n, known[n])[i] \in SUBSET Fact
        /\ Facts(n, known[n])[i + 1] = After(n, i, Facts(n, known[n])[i])
        /\ \A f \in Facts(n, known[n])[i] : f[2] # Temp(n, i)
    BY <1>1, <1>4, NoneYet DEF Follows
  <2>2. Moved(n, i, holders, holders')
    BY <1>4, StepMoves
  <2>3. Agree(Facts(n, known[n])[i], holders)
    BY <1>1, <1>3 DEF Running
  <2> QED
    BY <1>4, <2>1, <2>2, <2>3, AfterAgrees
<1>7. stale' \subseteq C /\ stale' \cap thr[n][i + 1] = {}
  <2>1. stale \subseteq C /\ stale \cap thr[n][i] = {}
    BY <1>1, <1>3 DEF Running
  <2>2. CASE source[n][i].kind = "store" /\ code[n][i] = Dropped
    <3>1. stale' = stale \cup {source[n][i].home}
      BY <1>4, <2>2 DEF Step
    <3>2. source[n][i].home \in C \ thr[n][i + 1] /\ C \cap thr[n][i + 1] \subseteq thr[n][i] \cup {source[n][i].home}
      BY <1>1, <1>4, <2>2 DEF Plan
    <3> QED
      BY <2>1, <3>1, <3>2
  <2>3. CASE source[n][i].kind = "store" /\ code[n][i] # Dropped
    <3>1. stale' = stale \ {source[n][i].home}
      BY <1>4, <2>3 DEF Step
    <3>2. C \cap thr[n][i + 1] \subseteq thr[n][i] \cup {source[n][i].home}
      BY <1>1, <1>4, <2>3 DEF Plan
    <3> QED
      BY <2>1, <3>1, <3>2
  <2>4. CASE source[n][i].kind # "store"
    <3>1. stale' = stale
      BY <1>4, <2>4 DEF Step
    <3>2. C \cap thr[n][i + 1] \subseteq thr[n][i]
      BY <1>1, <1>4, <2>4 DEF Plan
    <3> QED
      BY <2>1, <3>1, <3>2
  <2> QED
    BY <2>2, <2>3, <2>4
<1>8. Reached' = Reached /\ Facts(n, known[n])' = Facts(n, known[n]) /\ at'[1] = n /\ at'[2] = i + 1
  BY <1>2, <1>5, SameFacts DEF Reached, Graph!ReachableFrom
<1>9. Running(known, C, thr)'
  <2>1. Facts(at[1], known[at[1]])' = Facts(n, known[n])'
    BY <1>8
  <2> QED
    BY <1>2, <1>4, <1>5, <1>6, <1>7, <1>8, <2>1 DEF Running, Agree
<1>10. Follows(known)' /\ Plan(C, thr)'
  BY <1>1, <1>2, SameCode
<1> QED
  BY <1>9, <1>10 DEF Guided

LEMMA JumpGuided ==
  ASSUME WellFormed, Guided, Jump
  PROVE  Guided'
<1>1. PICK known, C, thr : Follows(known) /\ Plan(C, thr) /\ Running(known, C, thr)
  BY DEF Guided
<1>2. /\ UNCHANGED <<source, kind, edges, code>> /\ holders' = holders /\ stale' = stale
      /\ Upcoming.kind = "leave"
  BY DEF Jump, graph
<1>3. PICK n, i : n = at[1] /\ i = at[2]
  OBVIOUS
<1>4. PICK m \in Graph!Successors(edges, n) : at' = <<m, 1>>
  BY <1>3 DEF Jump
<1>5. /\ n \in Reached /\ n \in Node /\ i \in 1..Len(source[n]) /\ i \in DOMAIN source[n]
      /\ Upcoming = source[n][i]
  <2>1. n \in Reached /\ n \in Node /\ i \in 1..Len(source[n])
    BY <1>1, <1>3, ReachedIs DEF Running
  <2> QED
    BY <1>3, <2>1 DEF WellFormed, Upcoming
<1>6. i = Len(source[n]) /\ i + 1 = Ending(n) /\ source[n][i].kind = "leave"
  BY <1>2, <1>5, OpFacts DEF Ending
<1> DEFINE e == <<n, m>>
<1>7. e \in edges /\ e[1] = n /\ e[2] = m
  BY <1>4 DEF Graph!Successors
<1> HIDE DEF e
<1>8. m \in Reached /\ m \in Node
  BY <1>5, <1>7, ReachedIs
<1>9. Agree(Facts(m, known[m])[1], holders)
  <2>1. /\ Facts(n, known[n])[i + 1] = After(n, i, Facts(n, known[n])[i])
    BY <1>1, <1>5, NoneYet DEF Follows
  <2>2. Facts(n, known[n])[Ending(n)] = Facts(n, known[n])[i]
    BY <1>6, <2>1, AfterOther
  <2>3. known[m] \subseteq Facts(n, known[n])[i] /\ known[m] \in SUBSET Fact
    BY <1>1, <1>5, <1>7, <1>8, <2>2 DEF Follows, Sound
  <2>4. Facts(m, known[m])[1] = known[m]
    BY <1>8, <2>3, FactsIs
  <2>5. Agree(Facts(n, known[n])[i], holders)
    BY <1>1, <1>3 DEF Running
  <2> QED
    BY <2>3, <2>4, <2>5 DEF Agree
<1>10. stale \subseteq C /\ stale \cap thr[m][1] = {}
  <2>1. stale \subseteq C /\ stale \cap thr[n][i] = {}
    BY <1>1, <1>3 DEF Running
  <2>2. thr[m][1] \subseteq thr[n][i + 1]
    BY <1>1, <1>5, <1>6, <1>7 DEF Plan
  <2>3. C \cap thr[n][i + 1] \subseteq thr[n][i]
    BY <1>1, <1>5, <1>6 DEF Plan
  <2> QED
    BY <2>1, <2>2, <2>3
<1>11. Reached' = Reached /\ Facts(m, known[m])' = Facts(m, known[m]) /\ at'[1] = m /\ at'[2] = 1
  BY <1>2, <1>4, SameFacts DEF Reached, Graph!ReachableFrom
<1>12. Running(known, C, thr)'
  <2>1. Facts(at[1], known[at[1]])' = Facts(m, known[m])'
    BY <1>11
  <2>2. 1 \in 1..Len(source[m])
    BY <1>8 DEF WellFormed
  <2> QED
    BY <1>2, <1>4, <1>8, <1>9, <1>10, <1>11, <2>1, <2>2 DEF Running, Agree
<1>13. Follows(known)' /\ Plan(C, thr)'
  BY <1>1, <1>2, SameCode
<1> QED
  BY <1>12, <1>13 DEF Guided
-----------------------------------------------------------------------------
StorageSpec == Init /\ WellFormed /\ [][Next]_vars

AtEntry == at = <<Entry, 1>> /\ stale = {}
IInv ==
  /\ WellFormed /\ Shaped /\ Walked
  /\ \/ stage = "forwarding" /\ Solving /\ AtEntry
     \/ stage = "liveness" /\ Solving /\ AtEntry /\ StoresLeft /\ \E known : Follows(known)
     \/ stage = "running" /\ Guided

LEMMA Begun ==
  ASSUME Walked, NEW forward \in BOOLEAN
  PROVE  /\ OrderFor(forward) \in Seq(reachable)
         /\ \A n \in reachable : \E i \in DOMAIN OrderFor(forward) : OrderFor(forward)[i] = n
         /\ [n \in reachable |-> {}] \in [reachable -> States]
BY StatesClosed DEF Walked

LEMMA WalkFacts ==
  ASSUME WellFormed, reachable = Graph!Reachable(Node, edges, Entry)
  PROVE  Walked
<1>1. edges \in SUBSET (Node \X Node) /\ Entry \in Node
  BY BlockAssumption DEF WellFormed, Entry
<1>w. Walks!Blocks
  BY BlocksOK
<1>s. \A E, s : Graph!Walk(Node, E, s) = Walks!Walk(Node, E, s)
  BY DEF Graph!Walk, Walks!Walk, Graph!Ascending, Walks!Ascending, Graph!Successors, Walks!Successors,
         Graph!Finish, Walks!Finish, Graph!Cardinality, Walks!Cardinality
<1>r. /\ Graph!Reachable(Node, edges, Entry) = Walks!Reachable(Node, edges, Entry)
      /\ \A forward : OrderFor(forward) = Walks!EvaluationOrder(forward, Walks!Postorder(Node, edges, Entry))
  BY <1>s DEF Graph!Reachable, Walks!Reachable, Graph!Postorder, Walks!Postorder, OrderFor,
              Graph!EvaluationOrder, Walks!EvaluationOrder, Graph!Reverse, Walks!Reverse
<1>2. ASSUME NEW forward \in BOOLEAN
      PROVE  /\ OrderFor(forward) \in Seq(reachable)
             /\ \A n \in reachable : \E i \in DOMAIN OrderFor(forward) : OrderFor(forward)[i] = n
  <2>1. Walks!ListsAll(Walks!OrderOf(edges, Entry, forward), Walks!Reachable(Node, edges, Entry))
    BY <1>1, <1>w, Walks!WalkLists
  <2>2. Walks!ListsAll(OrderFor(forward), reachable)
    BY <1>r, <2>1 DEF Walks!OrderOf
  <2> QED
    BY <2>2 DEF Walks!ListsAll
<1>3. Entry \in reachable /\ reachable \subseteq Node /\ Walks!Closed(reachable, edges)
  BY <1>1, <1>w, <1>r, Walks!WalkReaches
<1>4. ASSUME NEW e \in edges, e[1] \in reachable PROVE e[2] \in reachable
  <2>1. e = <<e[1], e[2]>>
    BY <1>1
  <2>2. e[2] \in Walks!Successors(edges, e[1])
    BY <2>1 DEF Walks!Successors
  <2> QED
    BY <1>3, <1>4, <2>2 DEF Walks!Closed
<1>5. Reached \subseteq reachable
  BY <1>1, <1>3, <1>4, ReachesOnly DEF Reached
<1> QED
  BY <1>2, <1>3, <1>5 DEF Walked

LEMMA InitEstablishes == Init /\ WellFormed => IInv
<1> SUFFICES ASSUME Init, WellFormed PROVE IInv
  OBVIOUS
<1>1. /\ stage = "forwarding" /\ code = source /\ reachable = Graph!Reachable(Node, edges, Entry)
      /\ order = OrderFor(TRUE) /\ at = <<Entry, 1>> /\ stale = {}
      /\ in_states = [n \in reachable |-> {}] /\ out_states = [n \in reachable |-> {}]
      /\ worklist = order /\ queued = reachable
  BY DEF Init, Solver!Begin, Solver!Bottom
<1>2. Walked /\ Shaped
  BY <1>1, WalkFacts DEF Shaped
<1>3. Solving
  BY <1>1, <1>2, Begun DEF Solving
<1> QED
  BY <1>1, <1>2, <1>3 DEF IInv, AtEntry

LEMMA NextPreserves == IInv /\ [Next]_vars => IInv'
<1> SUFFICES ASSUME IInv, [Next]_vars PROVE IInv'
  OBVIOUS
<1>0. WellFormed /\ Shaped /\ Walked /\ reachable \subseteq Node
  BY DEF IInv, Walked
<1>1. ASSUME UNCHANGED <<source, kind, edges>> PROVE WellFormed'
  <2>1. WellFormed' = WellFormed
    BY <1>1 DEF WellFormed, Defined, Dominates, Operation, Temps, Graph!ReachableFrom
  <2> QED
    BY <1>0, <2>1
<1>2. ASSUME UNCHANGED <<edges, reachable>> PROVE Walked'
  <2>1. Reached' = Reached /\ \A forward : OrderFor(forward)' = OrderFor(forward)
    BY <1>2 DEF Reached, Graph!ReachableFrom, OrderFor
  <2> QED
    BY <1>0, <1>2, <2>1 DEF Walked
<1>3. ASSUME UNCHANGED <<source, code>> PROVE Shaped'
  BY <1>0, <1>3 DEF Shaped
<1>4. CASE Solve
  <2>1. UNCHANGED <<stage, kind, source, code, edges, reachable, at, stale>> /\ stage \in {"forwarding", "liveness"}
    BY <1>4 DEF Solve, graph, run
  <2>2. Solving /\ AtEntry
    BY <2>1 DEF IInv
  <2>3. Solving' /\ AtEntry'
    BY <1>0, <1>4, <2>1, <2>2, SolveKeeps DEF AtEntry
  <2>4. stage = "liveness" => StoresLeft /\ \E known : Follows(known)
    BY DEF IInv
  <2>5. stage' = "liveness" => StoresLeft' /\ \E known : Follows(known)'
    BY <2>1, <2>4, SameCode DEF StoresLeft
  <2> QED
    BY <1>1, <1>2, <1>3, <2>1, <2>3, <2>5 DEF IInv
<1>5. CASE Forward
  <2>1. /\ UNCHANGED <<kind, source, edges, reachable, at, stale>> /\ stage = "forwarding" /\ stage' = "liveness"
        /\ Begins(FALSE)
    BY <1>5 DEF Forward, graph, run
  <2>2. Solving /\ AtEntry
    BY <2>1 DEF IInv
  <2>3. Shaped' /\ StoresLeft' /\ \E known : Follows(known)'
    BY <1>0, <1>5, <2>1, <2>2, ForwardRewrites
  <2>4. Walked'
    BY <1>2, <2>1
  <2>5. /\ in_states' = [n \in reachable |-> {}] /\ out_states' = [n \in reachable |-> {}]
        /\ worklist' = OrderFor(FALSE) /\ queued' = reachable
    BY <2>1 DEF Begins
  <2>6. States' = States
    BY DEF States, Names
  <2>7. Solving'
    BY <1>0, <2>1, <2>5, <2>6, Begun DEF Solving
  <2> QED
    BY <1>1, <2>1, <2>2, <2>3, <2>4, <2>7 DEF IInv, AtEntry
<1>6. CASE Eliminate
  <2>1. /\ UNCHANGED <<kind, source, edges, reachable, at, stale>> /\ stage = "liveness" /\ stage' = "running"
    BY <1>6 DEF Eliminate, graph
  <2>2. Solving /\ AtEntry /\ StoresLeft /\ \E known : Follows(known)
    BY <2>1 DEF IInv
  <2>3. PICK known : Follows(known)
    BY <2>2
  <2>4. Shaped' /\ Follows(known)' /\ \E C, thr : Plan(C, thr)'
    BY <1>0, <1>6, <2>1, <2>2, <2>3, EliminatePlans
  <2>5. PICK C, thr : Plan(C, thr)'
    BY <2>4
  <2>6. at' = <<1, 1>> /\ stale' = {}
    BY <2>1, <2>2 DEF AtEntry, Entry
  <2>7. Facts(1, known[1])[1] = {}
    <3>1. 1 \in Node /\ known[1] = {}
      BY <2>3, BlockAssumption DEF Follows, Sound, Entry
    <3> QED
      BY <1>0, <3>1, FactsIs
  <2>8. Running(known, C, thr)'
    <3>1. Facts(at[1], known[at[1]])' = Facts(1, known[1])' /\ Facts(1, known[1])' = Facts(1, known[1])
      BY <2>1, <2>6, SameFacts
    <3>2. Reached' = Reached /\ 1 \in Reached
      BY <1>0, <2>1, ReachedIs DEF Reached, Entry, Graph!ReachableFrom
    <3>3. 1 \in 1..Len(source[1])
      BY <1>0, BlockAssumption DEF WellFormed
    <3> QED
      BY <2>1, <2>6, <2>7, <3>1, <3>2, <3>3 DEF Running, Agree
  <2>9. Guided'
    BY <2>4, <2>5, <2>8 DEF Guided
  <2> QED
    BY <1>1, <1>2, <2>1, <2>4, <2>9 DEF IInv
<1>7. CASE Step
  <2>1. UNCHANGED <<stage, kind, source, code, edges, reachable>> /\ stage = "running"
    BY <1>7 DEF Step, graph
  <2>2. Guided'
    BY <1>0, <1>7, <2>1, StepGuided DEF IInv
  <2> QED
    BY <1>1, <1>2, <1>3, <2>1, <2>2 DEF IInv
<1>8. CASE Jump
  <2>1. UNCHANGED <<stage, kind, source, code, edges, reachable>> /\ stage = "running"
    BY <1>8 DEF Jump, graph
  <2>2. Guided'
    BY <1>0, <1>8, <2>1, JumpGuided DEF IInv
  <2> QED
    BY <1>1, <1>2, <1>3, <2>1, <2>2 DEF IInv
<1>9. CASE UNCHANGED vars
  <2>1. /\ UNCHANGED <<stage, kind, source, code, edges, reachable, at, holders, stale>>
        /\ UNCHANGED <<in_states, out_states, worklist, queued>>
    BY <1>9 DEF vars, graph, solver, run
  <2>2. Solving => Solving'
    <3>1. \A n : Solver!SolvedAt(n)' <=> Solver!SolvedAt(n)
      <4>1. Problem' = Problem /\ Direction' = Direction
        BY <2>1, SameProblem
      <4> HIDE DEF Problem, Direction
      <4> QED
        BY <2>1, <4>1 DEF Solver!SolvedAt, Solver!NextIn, Solver!NextOut, Solver!Transferred, Solver!Joined,
             Solver!Flow, Solver!Forward, Solver!Offered, Solver!Upstream, Solver!Predecessors, Solver!Successors
    <3>2. States' = States
      BY DEF States, Names
    <3> QED
      BY <2>1, <3>1, <3>2 DEF Solving
  <2>3. (\E known : Follows(known)) => (\E known : Follows(known)')
    BY <2>1, SameCode
  <2>4. Guided => Guided'
    <3> SUFFICES ASSUME Guided PROVE Guided'
      OBVIOUS
    <3>1. PICK known, C, thr : Follows(known) /\ Plan(C, thr) /\ Running(known, C, thr)
      BY DEF Guided
    <3>2. Follows(known)' /\ Plan(C, thr)'
      BY <2>1, <3>1, SameCode
    <3>3. PICK n : n = at[1]
      OBVIOUS
    <3>4. Facts(at[1], known[at[1]])' = Facts(n, known[n])' /\ Facts(n, known[n])' = Facts(n, known[n])
      BY <2>1, <3>3, SameFacts
    <3>5. Reached' = Reached
      BY <2>1 DEF Reached, Graph!ReachableFrom
    <3>6. Running(known, C, thr)'
      BY <2>1, <3>1, <3>3, <3>4, <3>5 DEF Running, Agree
    <3> QED
      BY <3>2, <3>6 DEF Guided
  <2>5. StoresLeft' = StoresLeft /\ AtEntry' = AtEntry
    BY <2>1 DEF StoresLeft, AtEntry
  <2> QED
    BY <1>1, <1>2, <1>3, <2>1, <2>2, <2>3, <2>4, <2>5 DEF IInv
<1> QED
  BY <1>4, <1>5, <1>6, <1>7, <1>8, <1>9 DEF Next

LEMMA InvariantSuffices == IInv => OptimizedAgrees
<1> SUFFICES ASSUME IInv, stage = "running", Optimized # Dropped
             PROVE  /\ Upcoming.value \in holders <=> Optimized.value \in holders
                    /\ Optimized.kind = "load" => Optimized.home \notin stale
                    /\ Reads(Optimized) \cap stale = {}
  BY DEF OptimizedAgrees
<1>1. WellFormed /\ Guided
  BY DEF IInv
<1>2. PICK known, C, thr : Follows(known) /\ Plan(C, thr) /\ Running(known, C, thr)
  BY <1>1 DEF Guided
<1>3. PICK n, i : n = at[1] /\ i = at[2]
  OBVIOUS
<1>4. /\ n \in Node /\ i \in DOMAIN source[n] /\ Upcoming = source[n][i] /\ Optimized = code[n][i]
      /\ Agree(Facts(n, known[n])[i], holders) /\ stale \subseteq C /\ stale \cap thr[n][i] = {}
  <2>1. n \in Node /\ i \in 1..Len(source[n])
    BY <1>1, <1>2, <1>3, ReachedIs DEF Running
  <2> QED
    BY <1>1, <1>2, <1>3, <2>1 DEF WellFormed, Upcoming, Optimized, Running
<1>5. Optimized.value = Resolve(Upcoming.value, Facts(n, known[n])[i])
  BY <1>2, <1>4 DEF Follows, Copy
<1>6. Upcoming.value \in holders <=> Optimized.value \in holders
  BY <1>1, <1>4, <1>5, ResolveFacts
<1>7. /\ Optimized.kind = "load" /\ Optimized.home \in C => Optimized.home \in thr[n][i]
      /\ C \cap Reads(Optimized) \subseteq thr[n][i]
  BY <1>2, <1>4 DEF Plan
<1> QED
  BY <1>4, <1>6, <1>7

LEMMA SpecInvariant == StorageSpec => []IInv
<1> QED
  BY InitEstablishes, NextPreserves, PTL DEF StorageSpec

(* In every well-formed routine, of any blocks, operations and homes, and  *)
(* for whatever callees and faults do: after one round of forwarding and   *)
(* dead-store elimination an operation that is left uses values equal to   *)
(* those it used, and finds every home it reads as it found it.            *)
THEOREM OptimizedAgreesCorrect == StorageSpec => []OptimizedAgrees
<1> QED
  BY SpecInvariant, InvariantSuffices, PTL

LEMMA CheckedRoutines == MCSpec => StorageSpec
BY DEF MCSpec, AnyRoutine, StorageSpec
=============================================================================

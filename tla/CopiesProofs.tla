---------------------------- MODULE CopiesProofs ----------------------------
(***************************************************************************)
(* For every edge, whatever its homes, widths and overlaps: what a planner *)
(* of the 65816 schedules and captures is one simultaneous assignment,     *)
(* leaves A as the copies in argument order would, captures only where it  *)
(* must and refuses only what is not well allocated.                       *)
(*                                                                         *)
(* The edges of the 68000 and the block moves of the 65816 are             *)
(* simultaneous assignments too: any number of parameters in any homes, in *)
(* any order and with any cycles, over one slot; any extents, overlapping  *)
(* or not, in chunks of any size.                                          *)
(***************************************************************************)
EXTENDS EdgeCopies, FiniteSetTheorems, WellFoundedInduction, TLAPS

-----------------------------------------------------------------------------
(* Induction, from the well-founded order on the natural numbers.          *)
LEMMA LessWellFounded ==
  \E R : IsWellFoundedOn(R, Nat) /\ \A x, y \in Nat : y < x => <<y, x>> \in R
<1>1. PICK R : R = OpToRel(<, Nat)
  OBVIOUS
<1>2. IsWellFoundedOn(R, Nat)
  BY <1>1, NatLessThanWellFounded, Zenon
<1>3. ASSUME NEW x \in Nat, NEW y \in Nat, y < x PROVE <<y, x>> \in R
  <2>1. R = {ss \in Nat \X Nat : ss[1] < ss[2]}
    BY <1>1 DEF OpToRel
  <2> QED BY <1>3, <2>1
<1> QED BY <1>2, <1>3

LEMMA LeastNumber ==
  ASSUME NEW T \in SUBSET Nat, T # {}
  PROVE  \E x \in T : \A y \in T : x <= y
<1>1. PICK R : IsWellFoundedOn(R, Nat) /\ \A x, y \in Nat : y < x => <<y, x>> \in R
  BY LessWellFounded
<1>2. PICK x \in T : \A y \in T : ~(<<y, x>> \in R)
  BY <1>1, WFMin, Zenon
<1>3. \A y \in T : ~(y < x)
  BY <1>1, <1>2
<1> QED BY <1>2, <1>3

LEMMA Induct ==
  ASSUME NEW T \in SUBSET Nat, 0 \in T, \A n \in T : n + 1 \in T
  PROVE  T = Nat
<1> SUFFICES ASSUME Nat \ T # {} PROVE FALSE
  OBVIOUS
<1>1. PICK x \in Nat \ T : \A y \in Nat \ T : x <= y
  BY LeastNumber, Nat \ T \in SUBSET Nat
<1>2. x # 0 /\ x - 1 \in Nat /\ x - 1 < x
  BY <1>1
<1>3. x - 1 \in T
  BY <1>1, <1>2
<1>4. (x - 1) + 1 \in T
  BY <1>3
<1> QED BY <1>1, <1>2, <1>4

-----------------------------------------------------------------------------
(* Sequences of instructions.                                              *)
IsCode(s) == s \in Seq({s[k] : k \in DOMAIN s})

LEMMA SeqFacts ==
  ASSUME NEW S, NEW s \in Seq(S)
  PROVE  Len(s) \in Nat /\ DOMAIN s = 1..Len(s) /\ s = [k \in 1..Len(s) |-> s[k]]
  OBVIOUS

LEMMA CodeMade ==
  ASSUME NEW n \in Nat, NEW s, s = [k \in 1..n |-> s[k]]
  PROVE  IsCode(s) /\ Len(s) = n /\ DOMAIN s = 1..n
<1>1. s \in [1..n -> {s[k] : k \in DOMAIN s}]
  OBVIOUS
<1> QED BY <1>1 DEF IsCode

LEMMA CodeFacts ==
  ASSUME NEW s, IsCode(s)
  PROVE  /\ Len(s) \in Nat /\ DOMAIN s = 1..Len(s) /\ s = [k \in 1..Len(s) |-> s[k]]
         /\ (s = <<>> <=> Len(s) = 0)
  BY DEF IsCode

LEMMA Joined ==
  ASSUME NEW s, NEW t, IsCode(s), IsCode(t)
  PROVE  /\ IsCode(s \o t) /\ Len(s \o t) = Len(s) + Len(t)
         /\ \A k \in 1..Len(s) : (s \o t)[k] = s[k]
         /\ \A k \in 1..Len(t) : (s \o t)[Len(s) + k] = t[k]
         /\ \A k \in Len(s) + 1..Len(s) + Len(t) : (s \o t)[k] = t[k - Len(s)]
<1> DEFINE S == {s[k] : k \in DOMAIN s} \cup {t[k] : k \in DOMAIN t}
<1>1. s \in Seq(S) /\ t \in Seq(S)
  <2>1. Len(s) \in Nat /\ DOMAIN s = 1..Len(s) /\ s = [k \in 1..Len(s) |-> s[k]]
    BY CodeFacts
  <2>2. Len(t) \in Nat /\ DOMAIN t = 1..Len(t) /\ t = [k \in 1..Len(t) |-> t[k]]
    BY CodeFacts
  <2>3. s \in [1..Len(s) -> S]
    BY <2>1
  <2>4. t \in [1..Len(t) -> S]
    BY <2>2
  <2> QED BY ONLY <2>1, <2>2, <2>3, <2>4
<1>2. /\ s \o t \in Seq(S) /\ Len(s \o t) = Len(s) + Len(t)
      /\ \A k \in 1..Len(s) : (s \o t)[k] = s[k]
      /\ \A k \in 1..Len(t) : (s \o t)[Len(s) + k] = t[k]
      /\ \A k \in Len(s) + 1..Len(s) + Len(t) : (s \o t)[k] = t[k - Len(s)]
  BY ONLY <1>1
<1>3. IsCode(s \o t)
  <2>1. /\ Len(s \o t) \in Nat /\ s \o t = [k \in 1..Len(s \o t) |-> (s \o t)[k]]
    BY <1>2, SeqFacts
  <2> QED BY <2>1, CodeMade
<1> QED BY <1>2, <1>3

LEMMA Single ==
  ASSUME NEW i
  PROVE  IsCode(<<i>>) /\ Len(<<i>>) = 1 /\ <<i>>[1] = i /\ <<i>> # <<>>
<1>1. <<i>> \in Seq({i}) /\ Len(<<i>>) = 1 /\ <<i>>[1] = i /\ DOMAIN <<i>> = 1..1
  OBVIOUS
<1>2. {<<i>>[k] : k \in DOMAIN <<i>>} = {i}
  BY <1>1
<1> QED BY <1>1, <1>2 DEF IsCode

LEMMA NoCode == IsCode(<<>>) /\ Len(<<>>) = 0
  BY DEF IsCode

LEMMA AppendJoins ==
  ASSUME NEW s, NEW i, IsCode(s)
  PROVE  Append(s, i) = s \o <<i>>
<1>1. s \in Seq({s[k] : k \in DOMAIN s} \cup {i}) /\ <<i>> \in Seq({s[k] : k \in DOMAIN s} \cup {i})
  <2>1. Len(s) \in Nat /\ DOMAIN s = 1..Len(s) /\ s = [k \in 1..Len(s) |-> s[k]]
    BY CodeFacts
  <2>2. s \in [1..Len(s) -> {s[k] : k \in DOMAIN s} \cup {i}]
    BY <2>1
  <2> QED BY ONLY <2>1, <2>2
<1> QED BY ONLY <1>1

LEMMA PairMade ==
  ASSUME NEW i, NEW j
  PROVE  Append(<<i>>, j) = <<i, j>>
<1>1. <<i>> \in Seq({i, j}) /\ Len(<<i>>) = 1 /\ <<i>>[1] = i
  OBVIOUS
<1>2. /\ Append(<<i>>, j) \in Seq({i, j}) /\ Len(Append(<<i>>, j)) = 2
      /\ Append(<<i>>, j)[1] = i /\ Append(<<i>>, j)[2] = j
  BY <1>1
<1>3. Append(<<i>>, j) = [k \in 1..2 |-> Append(<<i>>, j)[k]]
  BY <1>2, SeqFacts
<1>4. \A f : [k \in 1..2 |-> f[k]] = <<f[1], f[2]>>
  OBVIOUS
<1>5. Append(<<i>>, j) = <<Append(<<i>>, j)[1], Append(<<i>>, j)[2]>>
  BY <1>3, <1>4, Zenon
<1> QED BY <1>2, <1>5

LEMMA HeadTail ==
  ASSUME NEW s, IsCode(s), s # <<>>
  PROVE  /\ IsCode(Tail(s)) /\ Len(Tail(s)) = Len(s) - 1 /\ Len(s) >= 1 /\ Head(s) = s[1]
         /\ \A k \in 1..Len(s) - 1 : Tail(s)[k] = s[k + 1]
<1>1. s \in Seq({s[k] : k \in DOMAIN s})
  BY DEF IsCode
<1>2. /\ Tail(s) \in Seq({s[k] : k \in DOMAIN s}) /\ Len(Tail(s)) = Len(s) - 1 /\ Len(s) >= 1 /\ Head(s) = s[1]
      /\ \A k \in 1..Len(s) - 1 : Tail(s)[k] = s[k + 1]
  BY <1>1
<1>3. Len(Tail(s)) \in Nat /\ Tail(s) = [k \in 1..Len(Tail(s)) |-> Tail(s)[k]]
  BY <1>2, SeqFacts
<1> QED BY <1>2, <1>3, CodeMade
-----------------------------------------------------------------------------
(* What an instruction does to a machine x, and what a run of them does.   *)
ReadIn(x, b) ==
  IF b = AccLow THEN x.acc[1] ELSE IF b = AccHigh THEN x.acc[2]
  ELSE IF b \in Cell THEN x.memory[b] ELSE b
ValueIn(x, i) == [k \in DOMAIN i.from |-> ReadIn(x, i.from[k])]
StoresTo(i, c) == {k \in DOMAIN i.to : i.to[k] = c}
After(x, i) ==
  [memory |-> [c \in Cell |-> IF StoresTo(i, c) = {} THEN x.memory[c] ELSE ValueIn(x, i)[Smallest(StoresTo(i, c))]],
   acc |-> IF Len(ValueIn(x, i)) = 2 THEN ValueIn(x, i) ELSE <<ValueIn(x, i)[1], x.acc[2]>>]
Trace(s, x, z, tr) ==
  tr[0] = x /\ tr[Len(s)] = z /\ \A k \in 1..Len(s) : tr[k] = After(tr[k - 1], s[k])
Runs(s, x, z) == \E tr : Trace(s, x, z, tr)

Now == [memory |-> memory, acc |-> acc]
IsMachine(x) ==
  /\ x = [memory |-> x.memory, acc |-> x.acc]
  /\ x.memory = [c \in Cell |-> x.memory[c]]

LEMMA RunsNone ==
  ASSUME NEW x, NEW z
  PROVE  Runs(<<>>, x, z) <=> x = z
<1>1. Len(<<>>) = 0
  BY NoCode
<1>2. Trace(<<>>, x, x, [k \in {0} |-> x])
  BY <1>1 DEF Trace
<1>3. ASSUME NEW tr, Trace(<<>>, x, z, tr) PROVE x = z
  BY <1>1, <1>3 DEF Trace
<1> QED BY <1>2, <1>3 DEF Runs

LEMMA RunsOne ==
  ASSUME NEW x, NEW i
  PROVE  Runs(<<i>>, x, After(x, i))
<1> DEFINE tr == [k \in 0..1 |-> IF k = 0 THEN x ELSE After(x, i)]
<1>1. Len(<<i>>) = 1 /\ <<i>>[1] = i
  BY Single
<1>2. tr[0] = x /\ tr[1] = After(x, i)
  OBVIOUS
<1>3. \A k \in 1..1 : tr[k] = After(tr[k - 1], <<i>>[k])
  <2> HIDE DEF tr
  <2>1. 1 - 1 = 0 /\ \A k \in 1..1 : k = 1
    OBVIOUS
  <2> QED BY <1>1, <1>2, <2>1
<1>4. Trace(<<i>>, x, After(x, i), tr)
  <2> HIDE DEF tr
  <2> QED BY <1>1, <1>2, <1>3 DEF Trace
<1> QED BY <1>4 DEF Runs

LEMMA RunsJoined ==
  ASSUME NEW s, NEW t, IsCode(s), IsCode(t), NEW x, NEW y, NEW z, Runs(s, x, y), Runs(t, y, z)
  PROVE  Runs(s \o t, x, z)
<1>1. PICK u : Trace(s, x, y, u)
  BY DEF Runs
<1>2. PICK v : Trace(t, y, z, v)
  BY DEF Runs
<1>3. Len(s) \in Nat /\ Len(t) \in Nat
  BY CodeFacts
<1>4. /\ Len(s \o t) = Len(s) + Len(t)
      /\ \A k \in 1..Len(s) : (s \o t)[k] = s[k]
      /\ \A k \in Len(s) + 1..Len(s) + Len(t) : (s \o t)[k] = t[k - Len(s)]
  BY Joined
<1> DEFINE tr == [k \in 0..Len(s) + Len(t) |-> IF k <= Len(s) THEN u[k] ELSE v[k - Len(s)]]
<1>5. /\ \A k \in 0..Len(s) : tr[k] = u[k]
      /\ \A k \in Len(s)..Len(s) + Len(t) : tr[k] = v[k - Len(s)]
  <2>1. u[Len(s)] = y /\ v[0] = y
    BY <1>1, <1>2 DEF Trace
  <2> QED BY <1>3, <2>1
<1> HIDE DEF tr
<1>6. tr[0] = x /\ tr[Len(s) + Len(t)] = z
  <2>1. u[0] = x /\ v[Len(t)] = z
    BY <1>1, <1>2 DEF Trace
  <2>2. 0 \in 0..Len(s) /\ Len(s) + Len(t) \in Len(s)..Len(s) + Len(t) /\ (Len(s) + Len(t)) - Len(s) = Len(t)
    BY <1>3
  <2> QED BY <1>5, <2>1, <2>2
<1>7. ASSUME NEW k \in 1..Len(s) + Len(t) PROVE tr[k] = After(tr[k - 1], (s \o t)[k])
  <2>1. CASE k <= Len(s)
    <3>1. k \in 1..Len(s) /\ k \in 0..Len(s) /\ k - 1 \in 0..Len(s)
      BY <1>3, <2>1
    <3>2. u[k] = After(u[k - 1], s[k])
      BY <1>1, <3>1 DEF Trace
    <3> QED BY <1>4, <1>5, <3>1, <3>2
  <2>2. CASE k > Len(s)
    <3>1. /\ k \in Len(s) + 1..Len(s) + Len(t) /\ k \in Len(s)..Len(s) + Len(t)
          /\ k - 1 \in Len(s)..Len(s) + Len(t) /\ k - Len(s) \in 1..Len(t)
          /\ (k - 1) - Len(s) = (k - Len(s)) - 1
      BY <1>3, <2>2
    <3>2. v[k - Len(s)] = After(v[(k - Len(s)) - 1], t[k - Len(s)])
      BY <1>2, <3>1 DEF Trace
    <3> QED BY <1>4, <1>5, <3>1, <3>2
  <2> QED BY <1>3, <2>1, <2>2
<1>8. Trace(s \o t, x, z, tr)
  BY <1>4, <1>6, <1>7 DEF Trace
<1> QED BY <1>8 DEF Runs

LEMMA RunsOn ==
  ASSUME NEW s, IsCode(s), s # <<>>, NEW x, NEW z, Runs(s, x, z)
  PROVE  Runs(Tail(s), After(x, Head(s)), z)
<1>1. PICK u : Trace(s, x, z, u)
  BY DEF Runs
<1>2. /\ Len(Tail(s)) = Len(s) - 1 /\ Len(s) >= 1 /\ Head(s) = s[1] /\ Len(s) \in Nat
      /\ \A k \in 1..Len(s) - 1 : Tail(s)[k] = s[k + 1]
  BY HeadTail, CodeFacts
<1>3. u[0] = x /\ u[Len(s)] = z /\ \A k \in 1..Len(s) : u[k] = After(u[k - 1], s[k])
  BY <1>1 DEF Trace
<1> DEFINE tr == [k \in 0..Len(s) - 1 |-> u[k + 1]]
<1>4. \A k \in 0..Len(s) - 1 : tr[k] = u[k + 1]
  OBVIOUS
<1> HIDE DEF tr
<1>5. tr[0] = After(x, Head(s))
  <2>1. 0 \in 0..Len(s) - 1 /\ 0 + 1 = 1 /\ 1 - 1 = 0 /\ 1 \in 1..Len(s)
    BY <1>2
  <2> QED BY <1>2, <1>3, <1>4, <2>1
<1>6. tr[Len(s) - 1] = z
  <2>1. Len(s) - 1 \in 0..Len(s) - 1 /\ (Len(s) - 1) + 1 = Len(s)
    BY <1>2
  <2> QED BY <1>3, <1>4, <2>1
<1>7. ASSUME NEW k \in 1..Len(s) - 1 PROVE tr[k] = After(tr[k - 1], Tail(s)[k])
  <2>1. k \in 0..Len(s) - 1 /\ k - 1 \in 0..Len(s) - 1 /\ (k - 1) + 1 = k /\ k + 1 \in 1..Len(s) /\ (k + 1) - 1 = k
    BY <1>2
  <2>2. u[k + 1] = After(u[(k + 1) - 1], s[k + 1])
    BY <1>3, <2>1
  <2> QED BY <1>2, <1>4, <2>1, <2>2
<1>8. Trace(Tail(s), After(x, Head(s)), z, tr)
  BY <1>2, <1>5, <1>6, <1>7 DEF Trace
<1> QED BY <1>8 DEF Runs

(* A run made one instruction after the other. *)
LEMMA RunsExtended ==
  ASSUME NEW s, IsCode(s), NEW i, NEW x, NEW y, Runs(s, x, y)
  PROVE  IsCode(Append(s, i)) /\ Runs(Append(s, i), x, After(y, i))
<1>1. IsCode(<<i>>) /\ Runs(<<i>>, y, After(y, i))
  BY Single, RunsOne
<1>2. IsCode(s \o <<i>>)
  BY <1>1, Joined
<1>3. Runs(s \o <<i>>, x, After(y, i))
  BY <1>1, RunsJoined
<1> QED BY <1>2, <1>3, AppendJoins
-----------------------------------------------------------------------------
(* Places and their bytes.                                                 *)
At(p, k) == <<p.space, p.at + k - 1>>
Offset(p, c) == c[2] - p.at + 1
IsPlace(p) ==
  /\ p.space \in {"stack", "dp", "imm", "link", "result"} /\ p.at \in Nat /\ p.width \in 1..4

LEMMA SpacesApart ==
  /\ \A a \in {"stack", "dp", "imm", "link", "result"} : a # "acc" /\ a # "staged"
  /\ "stack" # "dp" /\ "imm" \notin {"stack", "dp", "result"} /\ "link" \notin {"stack", "dp", "result"}
  /\ "result" \notin {"stack", "dp"} /\ "staged" \notin {"stack", "dp", "result"}
  OBVIOUS

LEMMA BytesOf ==
  ASSUME NEW p, IsPlace(p)
  PROVE  /\ DOMAIN Bytes(p) = 1..p.width /\ Len(Bytes(p)) = p.width /\ IsCode(Bytes(p))
         /\ \A k \in 1..p.width : Bytes(p)[k] = At(p, k)
<1>1. p.width \in Nat
  BY DEF IsPlace
<1>2. Bytes(p) = [k \in 1..p.width |-> Bytes(p)[k]] /\ \A k \in 1..p.width : Bytes(p)[k] = At(p, k)
  BY DEF Bytes, At
<1> QED BY <1>1, <1>2, CodeMade

LEMMA CellsOf ==
  ASSUME NEW p, IsPlace(p)
  PROVE  /\ \A c : c \in Cells(p) <=> \E k \in 1..p.width : c = At(p, k)
         /\ \A k \in 1..p.width : At(p, k) \in Cells(p)
         /\ \A c \in Cells(p) : Offset(p, c) \in 1..p.width /\ At(p, Offset(p, c)) = c
         /\ \A j, k \in Int : At(p, j) = At(p, k) => j = k
         /\ \A k \in Int : Offset(p, At(p, k)) = k
         /\ \A k : At(p, k) # AccLow /\ At(p, k) # AccHigh
<1>1. p.width \in Nat /\ p.at \in Nat /\ p.space # "acc"
  BY DEF IsPlace
<1>2. \A c : c \in Cells(p) <=> \E k \in 1..p.width : c = At(p, k)
  BY DEF Cells, At
<1>3. \A k \in Int : At(p, k)[1] = p.space /\ At(p, k)[2] = p.at + k - 1
  BY DEF At
<1>4. \A k \in Int : Offset(p, At(p, k)) = k
  BY <1>1, <1>3 DEF Offset
<1>5. \A j, k \in Int : At(p, j) = At(p, k) => j = k
  BY <1>4
<1>6. \A c \in Cells(p) : Offset(p, c) \in 1..p.width /\ At(p, Offset(p, c)) = c
  <2> SUFFICES ASSUME NEW c \in Cells(p) PROVE Offset(p, c) \in 1..p.width /\ At(p, Offset(p, c)) = c
    OBVIOUS
  <2>1. PICK k \in 1..p.width : c = At(p, k)
    BY <1>2
  <2>2. Offset(p, c) = k
    BY <1>1, <1>4, <2>1
  <2> QED BY <2>1, <2>2
<1>7. \A k : At(p, k) # AccLow /\ At(p, k) # AccHigh
  BY <1>1 DEF At, AccLow, AccHigh
<1> QED BY <1>2, <1>4, <1>5, <1>6, <1>7

LEMMA AccApart == AccLow # AccHigh /\ AccLow \notin Cell /\ AccHigh \notin Cell
<1>1. \A c \in Cell : c[1] \in {"stack", "dp", "result"}
  BY CellAssumption
<1>2. AccLow[1] = "acc" /\ AccHigh[1] = "acc" /\ AccLow[2] = 1 /\ AccHigh[2] = 2
  BY DEF AccLow, AccHigh
<1> QED BY <1>1, <1>2

(* Bytes that are no cells are what they are. *)
LEMMA ReadPlace ==
  ASSUME NEW p, IsPlace(p), NEW x, NEW k
  PROVE  /\ At(p, k) \in Cell => ReadIn(x, At(p, k)) = x.memory[At(p, k)]
         /\ At(p, k) \notin Cell => ReadIn(x, At(p, k)) = At(p, k)
  BY CellsOf DEF ReadIn

-----------------------------------------------------------------------------
(* The instructions a planner uses.                                        *)
LEMMA TwoBytes ==
  ASSUME NEW x, NEW a1, NEW a2, NEW d1, NEW d2, d1 # d2
  PROVE  After(x, [from |-> <<a1, a2>>, to |-> <<d1, d2>>]) =
           [memory |-> [c \in Cell |-> IF c = d1 THEN ReadIn(x, a1)
                                       ELSE IF c = d2 THEN ReadIn(x, a2) ELSE x.memory[c]],
            acc |-> <<ReadIn(x, a1), ReadIn(x, a2)>>]
<1> DEFINE i == [from |-> <<a1, a2>>, to |-> <<d1, d2>>]
<1>1. i.from = <<a1, a2>> /\ i.to = <<d1, d2>>
  OBVIOUS
<1> HIDE DEF i
<1>2. ValueIn(x, i) = <<ReadIn(x, a1), ReadIn(x, a2)>>
  <2>1. DOMAIN i.from = 1..2 /\ i.from[1] = a1 /\ i.from[2] = a2
    BY <1>1
  <2>2. ValueIn(x, i) = [k \in 1..2 |-> ReadIn(x, i.from[k])]
    BY <2>1 DEF ValueIn
  <2>3. [k \in 1..2 |-> ReadIn(x, i.from[k])] = <<ReadIn(x, i.from[1]), ReadIn(x, i.from[2])>>
    OBVIOUS
  <2> QED BY <2>1, <2>2, <2>3
<1>3. Len(ValueIn(x, i)) = 2 /\ ValueIn(x, i)[1] = ReadIn(x, a1) /\ ValueIn(x, i)[2] = ReadIn(x, a2)
  BY <1>2
<1>4. DOMAIN i.to = {1, 2} /\ i.to[1] = d1 /\ i.to[2] = d2
  BY <1>1
<1>5. ASSUME NEW c \in Cell
      PROVE  (IF StoresTo(i, c) = {} THEN x.memory[c] ELSE ValueIn(x, i)[Smallest(StoresTo(i, c))])
              = IF c = d1 THEN ReadIn(x, a1) ELSE IF c = d2 THEN ReadIn(x, a2) ELSE x.memory[c]
  <2>1. c = d1 => StoresTo(i, c) = {1}
    BY <1>4 DEF StoresTo
  <2>2. c = d2 => StoresTo(i, c) = {2}
    BY <1>4 DEF StoresTo
  <2>3. c # d1 /\ c # d2 => StoresTo(i, c) = {}
    BY <1>4 DEF StoresTo
  <2>4. Smallest({1}) = 1 /\ Smallest({2}) = 2
    BY DEF Smallest
  <2> QED BY <1>3, <2>1, <2>2, <2>3, <2>4
<1>6. After(x, i) = [memory |-> [c \in Cell |-> IF c = d1 THEN ReadIn(x, a1)
                                       ELSE IF c = d2 THEN ReadIn(x, a2) ELSE x.memory[c]],
                     acc |-> <<ReadIn(x, a1), ReadIn(x, a2)>>]
  BY <1>2, <1>3, <1>5 DEF After
<1> QED BY <1>6 DEF i

LEMMA OneByte ==
  ASSUME NEW x, NEW a, NEW d
  PROVE  After(x, [from |-> <<a>>, to |-> <<d>>]) =
           [memory |-> [c \in Cell |-> IF c = d THEN ReadIn(x, a) ELSE x.memory[c]],
            acc |-> <<ReadIn(x, a), x.acc[2]>>]
<1> DEFINE i == [from |-> <<a>>, to |-> <<d>>]
<1>1. i.from = <<a>> /\ i.to = <<d>>
  OBVIOUS
<1> HIDE DEF i
<1>2. ValueIn(x, i) = <<ReadIn(x, a)>>
  <2>1. DOMAIN i.from = 1..1 /\ i.from[1] = a
    BY <1>1
  <2>2. ValueIn(x, i) = [k \in 1..1 |-> ReadIn(x, i.from[k])]
    BY <2>1 DEF ValueIn
  <2>3. [k \in 1..1 |-> ReadIn(x, i.from[k])] = <<ReadIn(x, i.from[1])>>
    OBVIOUS
  <2> QED BY <2>1, <2>2, <2>3
<1>3. Len(ValueIn(x, i)) # 2 /\ ValueIn(x, i)[1] = ReadIn(x, a)
  BY <1>2
<1>4. DOMAIN i.to = {1} /\ i.to[1] = d
  BY <1>1
<1>5. ASSUME NEW c \in Cell
      PROVE  (IF StoresTo(i, c) = {} THEN x.memory[c] ELSE ValueIn(x, i)[Smallest(StoresTo(i, c))])
              = IF c = d THEN ReadIn(x, a) ELSE x.memory[c]
  <2>1. c = d => StoresTo(i, c) = {1}
    BY <1>4 DEF StoresTo
  <2>2. c # d => StoresTo(i, c) = {}
    BY <1>4 DEF StoresTo
  <2>3. Smallest({1}) = 1
    BY DEF Smallest
  <2> QED BY <1>3, <2>1, <2>2, <2>3
<1>6. After(x, i) = [memory |-> [c \in Cell |-> IF c = d THEN ReadIn(x, a) ELSE x.memory[c]],
                     acc |-> <<ReadIn(x, a), x.acc[2]>>]
  BY <1>2, <1>3, <1>5 DEF After
<1> QED BY <1>6 DEF i

LEMMA Loads ==
  ASSUME NEW x, IsMachine(x), NEW bs
  PROVE  /\ After(x, Load(bs)).memory = x.memory
         /\ (DOMAIN bs = 1..1 => After(x, Load(bs)).acc = <<ReadIn(x, bs[1]), x.acc[2]>>)
         /\ (DOMAIN bs = 1..2 => After(x, Load(bs)).acc = <<ReadIn(x, bs[1]), ReadIn(x, bs[2])>>)
<1> DEFINE i == Load(bs)
<1>1. i.from = bs /\ i.to = <<>>
  BY DEF Load
<1> HIDE DEF i
<1>2. \A c \in Cell : StoresTo(i, c) = {}
  BY <1>1 DEF StoresTo
<1>3. [c \in Cell |-> IF StoresTo(i, c) = {} THEN x.memory[c] ELSE ValueIn(x, i)[Smallest(StoresTo(i, c))]]
        = [c \in Cell |-> x.memory[c]]
  BY <1>2
<1>4. After(x, i).memory = x.memory
  BY <1>3 DEF After, IsMachine
<1>5. ASSUME DOMAIN bs = 1..1 PROVE After(x, i).acc = <<ReadIn(x, bs[1]), x.acc[2]>>
  <2>1. ValueIn(x, i) = [k \in 1..1 |-> ReadIn(x, bs[k])]
    BY <1>1, <1>5 DEF ValueIn
  <2>2. [k \in 1..1 |-> ReadIn(x, bs[k])] = <<ReadIn(x, bs[1])>>
    OBVIOUS
  <2>3. Len(ValueIn(x, i)) = 1 /\ ValueIn(x, i)[1] = ReadIn(x, bs[1])
    BY <2>1, <2>2
  <2> QED BY <2>3 DEF After
<1>6. ASSUME DOMAIN bs = 1..2 PROVE After(x, i).acc = <<ReadIn(x, bs[1]), ReadIn(x, bs[2])>>
  <2>1. ValueIn(x, i) = [k \in 1..2 |-> ReadIn(x, bs[k])]
    BY <1>1, <1>6 DEF ValueIn
  <2>2. [k \in 1..2 |-> ReadIn(x, bs[k])] = <<ReadIn(x, bs[1]), ReadIn(x, bs[2])>>
    OBVIOUS
  <2>3. Len(ValueIn(x, i)) = 2
    BY <2>1, <2>2
  <2> QED BY <2>1, <2>2, <2>3 DEF After
<1> QED BY <1>4, <1>5, <1>6 DEF i

LEMMA AlwaysMachine ==
  ASSUME NEW x, NEW i PROVE IsMachine(After(x, i))
  BY DEF IsMachine, After
-----------------------------------------------------------------------------
(* Copies: q has what p held, nothing else has changed.                    *)
Put(x, p, q) ==
  [c \in Cell |-> IF c \in Cells(q) THEN ReadIn(x, At(p, Offset(q, c))) ELSE x.memory[c]]
Upto(x, p, q, k) ==
  [c \in Cell |-> IF c \in Cells(q) /\ Offset(q, c) <= k THEN ReadIn(x, At(p, Offset(q, c))) ELSE x.memory[c]]
Apart(p, q) == Cells(p) \cap Cells(q) = {}
Copyable(p, q) == IsPlace(p) /\ IsPlace(q) /\ p.width = q.width

LEMMA PutWhere ==
  ASSUME NEW x, NEW p, NEW q, IsPlace(q)
  PROVE  /\ \A k \in 1..q.width : At(q, k) \in Cell => Put(x, p, q)[At(q, k)] = ReadIn(x, At(p, k))
         /\ \A c \in Cell : c \notin Cells(q) => Put(x, p, q)[c] = x.memory[c]
         /\ Put(x, p, q) = [c \in Cell |-> Put(x, p, q)[c]]
<1>1. \A k \in 1..q.width : At(q, k) \in Cells(q) /\ Offset(q, At(q, k)) = k
  BY CellsOf DEF IsPlace
<1> QED BY <1>1 DEF Put

LEMMA ByteCopied ==
  ASSUME NEW x, IsMachine(x), NEW p, NEW q, Copyable(p, q), Apart(p, q)
  PROVE  /\ IsCode(ByteCopy(p, q)) /\ ByteCopy(p, q) # <<>>
         /\ Runs(ByteCopy(p, q), x, [memory |-> Put(x, p, q), acc |-> <<ReadIn(x, At(p, q.width)), x.acc[2]>>])
<1> DEFINE s == ByteCopy(p, q)
           Held(k) == IF k = 0 THEN x.acc ELSE <<ReadIn(x, At(p, k)), x.acc[2]>>
           tr == [k \in 0..q.width |-> [memory |-> Upto(x, p, q, k), acc |-> Held(k)]]
<1>1. q.width \in 1..4 /\ q.width \in Nat /\ p.width = q.width
  BY DEF Copyable, IsPlace
<1>2. \A k \in 1..q.width : s[k] = [from |-> <<At(p, k)>>, to |-> <<At(q, k)>>]
  <2>1. \A k \in 1..q.width : Bytes(p)[k] = At(p, k) /\ Bytes(q)[k] = At(q, k)
    BY <1>1, BytesOf DEF Copyable
  <2> QED BY <2>1 DEF ByteCopy
<1>3. s = [k \in 1..q.width |-> s[k]]
  BY DEF ByteCopy
<1> HIDE DEF s
<1>4. IsCode(s) /\ Len(s) = q.width
  BY <1>1, <1>3, CodeMade
<1>5. \A k \in 0..q.width : tr[k].memory = Upto(x, p, q, k) /\ tr[k].acc = Held(k)
                             /\ tr[k] = [memory |-> Upto(x, p, q, k), acc |-> Held(k)]
  OBVIOUS
<1>6. tr[0] = x
  <2>1. \A c \in Cells(q) : Offset(q, c) \in 1..q.width
    BY CellsOf DEF Copyable
  <2>2. \A c \in Cells(q) : ~(Offset(q, c) <= 0)
    BY <1>1, <2>1
  <2>3. Upto(x, p, q, 0) = [c \in Cell |-> x.memory[c]]
    BY <2>2 DEF Upto
  <2>4. Upto(x, p, q, 0) = x.memory /\ Held(0) = x.acc /\ 0 \in 0..q.width
    BY <1>1, <2>3 DEF IsMachine
  <2> HIDE DEF Held, tr
  <2> QED BY <1>5, <2>4 DEF IsMachine
<1>7. tr[q.width] = [memory |-> Put(x, p, q), acc |-> <<ReadIn(x, At(p, q.width)), x.acc[2]>>]
  <2>1. \A c \in Cells(q) : Offset(q, c) <= q.width
    <3>1. \A c \in Cells(q) : Offset(q, c) \in 1..q.width
      BY CellsOf DEF Copyable
    <3> QED BY <1>1, <3>1
  <2>2. Upto(x, p, q, q.width) = Put(x, p, q)
    BY <2>1 DEF Upto, Put
  <2>3. q.width \in 0..q.width /\ q.width # 0
    BY <1>1
  <2> HIDE DEF tr
  <2> QED BY <1>5, <2>2, <2>3
<1>8. ASSUME NEW k \in 1..q.width PROVE tr[k] = After(tr[k - 1], s[k])
  <2> DEFINE y == tr[k - 1]
  <2>1. k - 1 \in 0..q.width /\ k \in 0..q.width /\ k # 0 /\ k \in Int
    BY <1>1
  <2>2. y.memory = Upto(x, p, q, k - 1) /\ y.acc = Held(k - 1)
    BY <1>5, <2>1
  <2>3. tr[k] = [memory |-> Upto(x, p, q, k), acc |-> Held(k)]
    BY <1>5, <2>1
  <2> HIDE DEF tr, y
  <2>4. At(p, k) \in Cells(p) /\ At(p, k) \notin Cells(q)
    BY <1>1, CellsOf DEF Copyable, Apart
  <2>5. ReadIn(y, At(p, k)) = ReadIn(x, At(p, k))
    <3>1. At(p, k) \in Cell => y.memory[At(p, k)] = x.memory[At(p, k)]
      BY <2>2, <2>4 DEF Upto
    <3> QED BY <3>1, ReadPlace DEF Copyable
  <2>6. y.acc[2] = x.acc[2]
    BY <2>2
  <2>7. After(y, s[k]) = [memory |-> [c \in Cell |-> IF c = At(q, k) THEN ReadIn(x, At(p, k)) ELSE y.memory[c]],
                          acc |-> <<ReadIn(x, At(p, k)), x.acc[2]>>]
    <3>1. After(y, [from |-> <<At(p, k)>>, to |-> <<At(q, k)>>]) =
            [memory |-> [c \in Cell |-> IF c = At(q, k) THEN ReadIn(y, At(p, k)) ELSE y.memory[c]],
             acc |-> <<ReadIn(y, At(p, k)), y.acc[2]>>]
      BY OneByte
    <3>2. s[k] = [from |-> <<At(p, k)>>, to |-> <<At(q, k)>>]
      BY <1>2
    <3> QED BY ONLY <2>5, <2>6, <3>1, <3>2
  <2>8. ASSUME NEW c \in Cell
        PROVE  (IF c = At(q, k) THEN ReadIn(x, At(p, k)) ELSE y.memory[c]) = Upto(x, p, q, k)[c]
    <3>1. y.memory[c] = IF c \in Cells(q) /\ Offset(q, c) <= k - 1 THEN ReadIn(x, At(p, Offset(q, c))) ELSE x.memory[c]
      BY <2>2 DEF Upto
    <3>2. Upto(x, p, q, k)[c] = IF c \in Cells(q) /\ Offset(q, c) <= k THEN ReadIn(x, At(p, Offset(q, c))) ELSE x.memory[c]
      BY DEF Upto
    <3>3. CASE c = At(q, k)
      <4>1. c \in Cells(q) /\ Offset(q, c) = k
        BY <3>3, <2>1, CellsOf DEF Copyable
      <4> QED BY <3>2, <3>3, <4>1, <2>1
    <3>4. CASE c # At(q, k)
      <4>1. c \in Cells(q) => Offset(q, c) \in Int /\ Offset(q, c) # k
        <5>1. c \in Cells(q) => Offset(q, c) \in 1..q.width /\ At(q, Offset(q, c)) = c
          BY CellsOf DEF Copyable
        <5> QED BY <3>4, <5>1
      <4>2. c \in Cells(q) => (Offset(q, c) <= k - 1 <=> Offset(q, c) <= k)
        BY <2>1, <4>1
      <4> QED BY <3>1, <3>2, <3>4, <4>2
    <3> QED BY <3>3, <3>4
  <2>9. [c \in Cell |-> IF c = At(q, k) THEN ReadIn(x, At(p, k)) ELSE y.memory[c]] = Upto(x, p, q, k)
    <3>1. Upto(x, p, q, k) = [c \in Cell |-> Upto(x, p, q, k)[c]]
      BY DEF Upto
    <3> QED BY <2>8, <3>1
  <2>10. Held(k) = <<ReadIn(x, At(p, k)), x.acc[2]>>
    BY <2>1
  <2> HIDE DEF Held
  <2>11. tr[k] = After(y, s[k])
    BY <2>3, <2>7, <2>9, <2>10
  <2> QED BY <2>11 DEF y
<1>9. Trace(s, x, [memory |-> Put(x, p, q), acc |-> <<ReadIn(x, At(p, q.width)), x.acc[2]>>], tr)
  <2> HIDE DEF tr
  <2> QED BY <1>4, <1>6, <1>7, <1>8 DEF Trace
<1>10. Runs(s, x, [memory |-> Put(x, p, q), acc |-> <<ReadIn(x, At(p, q.width)), x.acc[2]>>])
  BY <1>9 DEF Runs
<1>11. s # <<>>
  BY <1>1, <1>4, CodeFacts
<1> QED BY <1>4, <1>10, <1>11 DEF s

(* A word is loaded before it is stored: it may overlap its own source.    *)
Worded(x, p, q, k) ==
  [memory |-> [c \in Cell |-> IF c = At(q, k) THEN ReadIn(x, At(p, k))
                              ELSE IF c = At(q, k + 1) THEN ReadIn(x, At(p, k + 1)) ELSE x.memory[c]],
   acc |-> <<ReadIn(x, At(p, k)), ReadIn(x, At(p, k + 1))>>]

LEMMA WordMoved ==
  ASSUME NEW x, NEW p, NEW q, Copyable(p, q), NEW k \in 1..q.width - 1
  PROVE  After(x, WordAt(p, q, k)) = Worded(x, p, q, k)
<1>1. k \in Int /\ k + 1 \in Int /\ k # k + 1 /\ p.at \in Nat /\ q.at \in Nat
  BY DEF Copyable, IsPlace
<1>2. At(q, k) # At(q, k + 1)
  BY <1>1, CellsOf DEF Copyable
<1>3. At(p, k + 1) = <<p.space, p.at + k>> /\ At(q, k + 1) = <<q.space, q.at + k>>
  BY <1>1 DEF At
<1>4. WordAt(p, q, k) = [from |-> <<At(p, k), At(p, k + 1)>>, to |-> <<At(q, k), At(q, k + 1)>>]
  BY <1>3 DEF WordAt, Pair, At
<1>5. After(x, [from |-> <<At(p, k), At(p, k + 1)>>, to |-> <<At(q, k), At(q, k + 1)>>]) =
           [memory |-> [c \in Cell |-> IF c = At(q, k) THEN ReadIn(x, At(p, k))
                                       ELSE IF c = At(q, k + 1) THEN ReadIn(x, At(p, k + 1)) ELSE x.memory[c]],
            acc |-> <<ReadIn(x, At(p, k)), ReadIn(x, At(p, k + 1))>>]
  BY <1>2, TwoBytes
<1> QED BY <1>4, <1>5 DEF Worded

LEMMA WordCopied ==
  ASSUME NEW x, IsMachine(x), NEW p, NEW q, Copyable(p, q), q.width = 2
  PROVE  After(x, WordAt(p, q, 1)) =
           [memory |-> Put(x, p, q), acc |-> <<ReadIn(x, At(p, 1)), ReadIn(x, At(p, 2))>>]
<1>1. 1 \in 1..q.width - 1 /\ 1 + 1 = 2
  OBVIOUS
<1>2. ASSUME NEW c \in Cell
      PROVE  (IF c = At(q, 1) THEN ReadIn(x, At(p, 1)) ELSE IF c = At(q, 2) THEN ReadIn(x, At(p, 2)) ELSE x.memory[c])
               = Put(x, p, q)[c]
  <2>1. c \in Cells(q) <=> c = At(q, 1) \/ c = At(q, 2)
    <3>1. c \in Cells(q) <=> \E k \in 1..2 : c = At(q, k)
      BY CellsOf DEF Copyable
    <3> QED BY <3>1
  <2>2. /\ At(q, 1) \in Cell => Put(x, p, q)[At(q, 1)] = ReadIn(x, At(p, 1))
        /\ At(q, 2) \in Cell => Put(x, p, q)[At(q, 2)] = ReadIn(x, At(p, 2))
        /\ c \notin Cells(q) => Put(x, p, q)[c] = x.memory[c]
    <3>1. 1 \in 1..q.width /\ 2 \in 1..q.width
      OBVIOUS
    <3> QED BY <3>1, PutWhere DEF Copyable
  <2> QED BY <2>1, <2>2
<1>3. [c \in Cell |-> IF c = At(q, 1) THEN ReadIn(x, At(p, 1)) ELSE IF c = At(q, 2) THEN ReadIn(x, At(p, 2)) ELSE x.memory[c]]
        = Put(x, p, q)
  BY <1>2, PutWhere DEF Copyable
<1>4. After(x, WordAt(p, q, 1)) = Worded(x, p, q, 1)
  BY <1>1, WordMoved
<1>5. After(x, WordAt(p, q, 1)) =
           [memory |-> [c \in Cell |-> IF c = At(q, 1) THEN ReadIn(x, At(p, 1))
                                       ELSE IF c = At(q, 2) THEN ReadIn(x, At(p, 2)) ELSE x.memory[c]],
            acc |-> <<ReadIn(x, At(p, 1)), ReadIn(x, At(p, 2))>>]
  BY <1>1, <1>4 DEF Worded
<1> QED BY ONLY <1>3, <1>5
(* Two words cover a pointer, where they share a byte, or four bytes. *)
LEMMA TwoWords ==
  ASSUME NEW x, NEW p, NEW q, Copyable(p, q), Apart(p, q), NEW j \in {2, 3}, q.width = j + 1
  PROVE  /\ IsCode(<<WordAt(p, q, 1), WordAt(p, q, j)>>)
         /\ Runs(<<WordAt(p, q, 1), WordAt(p, q, j)>>, x,
                 [memory |-> Put(x, p, q), acc |-> <<ReadIn(x, At(p, j)), ReadIn(x, At(p, j + 1))>>])
<1> DEFINE y == After(x, WordAt(p, q, 1))
           z == After(y, WordAt(p, q, j))
<1>1. 1 \in 1..q.width - 1 /\ j \in 1..q.width - 1 /\ 1 + 1 = 2 /\ j \in 1..q.width /\ j + 1 \in 1..q.width
  OBVIOUS
<1>2. y = Worded(x, p, q, 1)
  <2> HIDE DEF y
  <2> QED BY <1>1, WordMoved DEF y
<1>3. y.memory = [c \in Cell |-> IF c = At(q, 1) THEN ReadIn(x, At(p, 1))
                                 ELSE IF c = At(q, 2) THEN ReadIn(x, At(p, 2)) ELSE x.memory[c]]
  BY <1>1, <1>2 DEF Worded
<1>4. z = Worded(y, p, q, j)
  <2> HIDE DEF y, z
  <2> QED BY <1>1, WordMoved DEF z
<1> HIDE DEF y, z
<1>5. ASSUME NEW k \in 1..q.width PROVE ReadIn(y, At(p, k)) = ReadIn(x, At(p, k))
  <2>1. At(p, k) \in Cells(p) /\ At(q, 1) \in Cells(q) /\ At(q, 2) \in Cells(q)
    BY <1>1, CellsOf DEF Copyable
  <2>2. At(p, k) # At(q, 1) /\ At(p, k) # At(q, 2)
    BY <2>1 DEF Apart
  <2>3. At(p, k) \in Cell => y.memory[At(p, k)] = x.memory[At(p, k)]
    BY <1>3, <2>2
  <2> QED BY <2>3, ReadPlace DEF Copyable
<1>6. z = [memory |-> [c \in Cell |-> IF c = At(q, j) THEN ReadIn(x, At(p, j))
                                      ELSE IF c = At(q, j + 1) THEN ReadIn(x, At(p, j + 1)) ELSE y.memory[c]],
           acc |-> <<ReadIn(x, At(p, j)), ReadIn(x, At(p, j + 1))>>]
  BY <1>1, <1>4, <1>5 DEF Worded
<1>7. ASSUME NEW c \in Cell
      PROVE  (IF c = At(q, j) THEN ReadIn(x, At(p, j)) ELSE IF c = At(q, j + 1) THEN ReadIn(x, At(p, j + 1)) ELSE y.memory[c])
               = Put(x, p, q)[c]
  <2>1. y.memory[c] = IF c = At(q, 1) THEN ReadIn(x, At(p, 1)) ELSE IF c = At(q, 2) THEN ReadIn(x, At(p, 2)) ELSE x.memory[c]
    BY <1>3
  <2>2. c \in Cells(q) <=> c = At(q, 1) \/ c = At(q, 2) \/ c = At(q, j) \/ c = At(q, j + 1)
    <3>1. c \in Cells(q) <=> \E k \in 1..q.width : c = At(q, k)
      BY CellsOf DEF Copyable
    <3>2. \A k \in 1..q.width : k = 1 \/ k = 2 \/ k = j \/ k = j + 1
      OBVIOUS
    <3> QED BY <1>1, <3>1, <3>2
  <2>3. /\ c \notin Cells(q) => Put(x, p, q)[c] = x.memory[c]
        /\ \A k \in 1..q.width : c = At(q, k) => Put(x, p, q)[c] = ReadIn(x, At(p, k))
    BY PutWhere DEF Copyable
  <2>4. /\ c = At(q, 1) => Put(x, p, q)[c] = ReadIn(x, At(p, 1))
        /\ c = At(q, 2) => Put(x, p, q)[c] = ReadIn(x, At(p, 2))
        /\ c = At(q, j) => Put(x, p, q)[c] = ReadIn(x, At(p, j))
        /\ c = At(q, j + 1) => Put(x, p, q)[c] = ReadIn(x, At(p, j + 1))
    BY <1>1, <2>3
  <2> QED BY ONLY <2>1, <2>2, <2>3, <2>4
<1>8. [c \in Cell |-> IF c = At(q, j) THEN ReadIn(x, At(p, j)) ELSE IF c = At(q, j + 1) THEN ReadIn(x, At(p, j + 1)) ELSE y.memory[c]]
        = Put(x, p, q)
  <2>1. Put(x, p, q) = [c \in Cell |-> Put(x, p, q)[c]]
    BY DEF Put
  <2> QED BY <1>7, <2>1
<1>9. z = [memory |-> Put(x, p, q), acc |-> <<ReadIn(x, At(p, j)), ReadIn(x, At(p, j + 1))>>]
  BY <1>6, <1>8
<1>10. Runs(<<WordAt(p, q, 1)>>, x, y) /\ IsCode(<<WordAt(p, q, 1)>>)
  BY RunsOne, Single DEF y
<1>11. /\ IsCode(Append(<<WordAt(p, q, 1)>>, WordAt(p, q, j)))
       /\ Runs(Append(<<WordAt(p, q, 1)>>, WordAt(p, q, j)), x, z)
  BY <1>10, RunsExtended DEF z
<1>12. Append(<<WordAt(p, q, 1)>>, WordAt(p, q, j)) = <<WordAt(p, q, 1), WordAt(p, q, j)>>
  BY PairMade
<1> QED BY <1>9, <1>11, <1>12

(* What a copy of any kind does. *)
LEMMA PointerCopied ==
  ASSUME NEW x, NEW p, NEW q, Copyable(p, q), Apart(p, q), q.width = 3
  PROVE  /\ IsCode(PointerCopy(p, q))
         /\ Runs(PointerCopy(p, q), x, [memory |-> Put(x, p, q), acc |-> <<ReadIn(x, At(p, 2)), ReadIn(x, At(p, 3))>>])
<1>1. 2 \in {2, 3} /\ q.width = 2 + 1 /\ 2 + 1 = 3
  OBVIOUS
<1>2. /\ IsCode(<<WordAt(p, q, 1), WordAt(p, q, 2)>>)
      /\ Runs(<<WordAt(p, q, 1), WordAt(p, q, 2)>>, x,
              [memory |-> Put(x, p, q), acc |-> <<ReadIn(x, At(p, 2)), ReadIn(x, At(p, 2 + 1))>>])
  BY <1>1, TwoWords
<1> QED BY <1>1, <1>2 DEF PointerCopy

PieceDone(wide, p, q, x, y) ==
  /\ Runs(Piecewise(wide, p, q), x, y) /\ IsMachine(y)
  /\ y.memory = Put(x, p, q)
  /\ ~wide => y.acc = <<ReadIn(x, At(p, q.width)), x.acc[2]>>

LEMMA PieceCopied ==
  ASSUME NEW wide \in BOOLEAN, NEW x, IsMachine(x), NEW p, NEW q, Copyable(p, q), Apart(p, q),
         wide => q.width # 3
  PROVE  /\ IsCode(Piecewise(wide, p, q)) /\ Piecewise(wide, p, q) # <<>>
         /\ \E y : PieceDone(wide, p, q, x, y)
<1>1. q.width \in 1..4
  BY DEF Copyable, IsPlace
<1>2. ASSUME NEW a PROVE IsMachine([memory |-> Put(x, p, q), acc |-> a])
  BY DEF IsMachine, Put
<1>3. CASE ~wide \/ q.width = 1
  <2>1. Piecewise(wide, p, q) = ByteCopy(p, q)
    BY <1>3 DEF Piecewise
  <2> DEFINE y == [memory |-> Put(x, p, q), acc |-> <<ReadIn(x, At(p, q.width)), x.acc[2]>>]
  <2>2. IsCode(ByteCopy(p, q)) /\ ByteCopy(p, q) # <<>> /\ Runs(ByteCopy(p, q), x, y)
    BY ByteCopied
  <2>3. IsMachine(y) /\ y.memory = Put(x, p, q) /\ y.acc = <<ReadIn(x, At(p, q.width)), x.acc[2]>>
    BY <1>2
  <2> HIDE DEF y
  <2> QED BY <2>1, <2>2, <2>3 DEF PieceDone
<1>4. CASE wide /\ q.width = 2
  <2>1. Piecewise(wide, p, q) = <<WordAt(p, q, 1)>>
    BY <1>4 DEF Piecewise, WordCopy
  <2> DEFINE y == [memory |-> Put(x, p, q), acc |-> <<ReadIn(x, At(p, 1)), ReadIn(x, At(p, 2))>>]
  <2>2. After(x, WordAt(p, q, 1)) = y
    BY <1>4, WordCopied
  <2>3. IsMachine(y) /\ y.memory = Put(x, p, q)
    BY <1>2
  <2> HIDE DEF y
  <2>4. Runs(<<WordAt(p, q, 1)>>, x, y) /\ IsCode(<<WordAt(p, q, 1)>>) /\ <<WordAt(p, q, 1)>> # <<>>
    BY <2>2, RunsOne, Single
  <2> QED BY <1>4, <2>1, <2>3, <2>4 DEF PieceDone
<1>5. CASE wide /\ q.width = 4
  <2>1. Piecewise(wide, p, q) = <<WordAt(p, q, 1), WordAt(p, q, 3)>>
    BY <1>5 DEF Piecewise, QuadCopy
  <2> DEFINE y == [memory |-> Put(x, p, q), acc |-> <<ReadIn(x, At(p, 3)), ReadIn(x, At(p, 3 + 1))>>]
  <2>2. 3 \in {2, 3} /\ q.width = 3 + 1
    BY <1>5
  <2>3. IsCode(<<WordAt(p, q, 1), WordAt(p, q, 3)>>) /\ Runs(<<WordAt(p, q, 1), WordAt(p, q, 3)>>, x, y)
    BY <2>2, TwoWords
  <2>4. IsMachine(y) /\ y.memory = Put(x, p, q)
    BY <1>2
  <2> HIDE DEF y
  <2>5. <<WordAt(p, q, 1), WordAt(p, q, 3)>> # <<>>
    OBVIOUS
  <2> QED BY <1>5, <2>1, <2>3, <2>4, <2>5 DEF PieceDone
<1> QED BY <1>1, <1>3, <1>4, <1>5
-----------------------------------------------------------------------------
(* The edge in hand, and the machine it starts on.                         *)
Legal == LegalEdge(moves, pool)
Origin == [memory |-> [c \in Cell |-> c], acc |-> <<AccLow, AccHigh>>]

LEMMA SomeSequence ==
  ASSUME NEW S, NEW s \in Seq(S), s # <<>>
  PROVE  Len(s) \in Nat /\ Len(s) >= 1 /\ DOMAIN s = 1..Len(s) /\ \A i \in 1..Len(s) : s[i] \in S
  OBVIOUS

LEMMA MoveFacts ==
  ASSUME Legal
  PROVE  /\ Final \in Nat /\ Final >= 1 /\ Moves = 1..Final /\ Final \in Moves /\ IsFiniteSet(Moves)
         /\ Cardinality(Moves) = Final
         /\ \A i \in Moves :
              /\ IsPlace(From(i)) /\ IsPlace(To(i)) /\ From(i).width = To(i).width
              /\ To(i).width \in 1..4 /\ IsHome(To(i)) /\ Cells(To(i)) \subseteq Cell
              /\ IsHome(From(i)) => Cells(From(i)) \subseteq Cell
              /\ From(i).space # "staged" /\ From(i).space # "result" /\ To(i).space # "result"
              /\ From(i) \in Place /\ To(i) \in Place
<1>1. moves \in Seq([from : Place, to : Place]) /\ moves # <<>>
  BY DEF Legal, LegalEdge
<1>2. Len(moves) \in Nat /\ Len(moves) >= 1 /\ DOMAIN moves = 1..Len(moves)
      /\ \A i \in 1..Len(moves) : moves[i] \in [from : Place, to : Place]
  BY <1>1, SomeSequence, Zenon
<1>3. Final \in Nat /\ Final >= 1 /\ Moves = 1..Final /\ Final \in Moves
  BY <1>2 DEF Final, Moves
<1>4. IsFiniteSet(1..Final) /\ Cardinality(1..Final) = Final
  BY <1>3, FS_Interval
<1>5. ASSUME NEW i \in Moves
      PROVE  /\ From(i) \in Place /\ To(i) \in Place /\ From(i).width = To(i).width /\ IsHome(To(i))
             /\ Cells(To(i)) \subseteq Cell /\ (IsHome(From(i)) => Cells(From(i)) \subseteq Cell)
  <2>1. From(i) \in Place /\ To(i) \in Place
    <3>1. PICK e : e = moves[i]
      OBVIOUS
    <3>2. e \in [from : Place, to : Place]
      BY <1>2, <3>1 DEF Moves
    <3>3. e.from \in Place /\ e.to \in Place
      BY ONLY <3>2
    <3> QED BY <3>1, <3>3 DEF From, To
  <2>2. i \in DOMAIN moves
    BY DEF Moves
  <2> QED BY <2>1, <2>2 DEF Legal, LegalEdge, From, To
<1>6. ASSUME NEW p \in Place
      PROVE  IsPlace(p) /\ p.width \in 1..4 /\ p.space # "staged" /\ p.space # "result"
  BY PlaceAssumption DEF PlaceAssumption, IsPlace
<1> QED BY <1>3, <1>4, <1>5, <1>6

LEMMA HomeCells ==
  ASSUME NEW p, IsPlace(p)
  PROVE  /\ IsHome(p) <=> p.space \in {"stack", "dp"}
         /\ \A q : Overlap(p, q) <=> IsHome(p) /\ ~Apart(p, q)
         /\ ~IsHome(p) /\ p.space # "result" => Cells(p) \cap Cell = {}
         /\ \A c \in Cells(p) : c[1] = p.space
<1>1. \A c \in Cells(p) : c[1] = p.space
  BY DEF Cells
<1>2. IsHome(p) <=> p.space \in {"stack", "dp"}
  BY DEF IsHome
<1>3. \A c \in Cell : c[1] \in {"stack", "dp", "result"}
  BY CellAssumption
<1>4. ~IsHome(p) /\ p.space # "result" => Cells(p) \cap Cell = {}
  BY <1>1, <1>2, <1>3
<1> QED BY <1>1, <1>2, <1>4 DEF Overlap, Apart

LEMMA ApartFlips ==
  ASSUME NEW p, NEW q
  PROVE  Apart(p, q) <=> Apart(q, p)
  BY DEF Apart

(* Values of no home lie apart from every cell. *)
LEMMA ConstantsApart ==
  ASSUME NEW p, IsPlace(p), NEW q, Cells(q) \subseteq Cell, p.space # "result", ~Overlap(p, q)
  PROVE  Apart(p, q)
<1>1. CASE IsHome(p)
  BY <1>1, HomeCells
<1>2. CASE ~IsHome(p)
  <2>1. Cells(p) \cap Cell = {}
    BY <1>2, HomeCells
  <2> QED BY <2>1 DEF Apart
<1> QED BY <1>1, <1>2

-----------------------------------------------------------------------------
(* Staging slots.                                                          *)
LEMMA SlotFacts ==
  ASSUME Legal, NEW k \in Nat, k >= 1, NEW w
  PROVE  /\ Slot(k, w).space = "stack" /\ Slot(k, w).width = w /\ Slot(k, w).at \in Nat
         /\ Slot(k, w).at = pool + SlotWidth * (k - 1) /\ Slot(k, w).at >= pool
         /\ w \in 1..4 => IsPlace(Slot(k, w)) /\ IsHome(Slot(k, w))
         /\ w \in 1..4 /\ k \in 1..Final => Cells(Slot(k, w)) \subseteq Cell
<1>1. pool \in Nat /\ SlotWidth \in Nat /\ k - 1 \in Nat
  BY SlotAssumption DEF Legal, LegalEdge
<1>2. SlotWidth * (k - 1) \in Nat
  BY <1>1
<1>3. /\ Slot(k, w).space = "stack" /\ Slot(k, w).width = w
      /\ Slot(k, w).at = pool + SlotWidth * (k - 1)
  BY DEF Slot
<1>4. Slot(k, w).at \in Nat /\ Slot(k, w).at >= pool
  BY <1>1, <1>2, <1>3
<1>5. w \in 1..4 => IsPlace(Slot(k, w)) /\ IsHome(Slot(k, w))
  BY <1>3, <1>4 DEF IsPlace, IsHome
<1>6. ASSUME w \in 1..4, k \in 1..Final PROVE Cells(Slot(k, w)) \subseteq Cell
  <2>1. \A j \in 0..3 : <<"stack", pool + SlotWidth * (k - 1) + j>> \in Cell
    BY <1>6 DEF Legal, LegalEdge, Final
  <2>2. ASSUME NEW c \in Cells(Slot(k, w)) PROVE c \in Cell
    <3>1. PICK j \in 1..w : c = <<"stack", pool + SlotWidth * (k - 1) + j - 1>>
      BY <1>3 DEF Cells
    <3>2. j - 1 \in 0..3 /\ pool + SlotWidth * (k - 1) + j - 1 = pool + SlotWidth * (k - 1) + (j - 1)
      BY <1>1, <1>2, <1>6
    <3> QED BY <2>1, <3>1, <3>2
  <2> QED BY <2>2
<1> QED BY <1>3, <1>4, <1>5, <1>6

LEMMA SlotsApart ==
  ASSUME Legal, NEW k \in Nat, k >= 1, NEW j \in Nat, j > k,
         NEW w \in Nat, NEW v \in Nat, w <= SlotWidth
  PROVE  Apart(Slot(k, w), Slot(j, v))
<1>1. pool \in Nat /\ SlotWidth \in Nat /\ SlotWidth >= 4
  BY SlotAssumption DEF Legal, LegalEdge
<1>2. SlotWidth * (j - 1) >= SlotWidth * (k - 1) + SlotWidth
  <2>1. j - 1 = (k - 1) + (j - k) /\ j - k >= 1 /\ j - k \in Nat /\ k - 1 \in Nat
    OBVIOUS
  <2>2. SlotWidth * (j - 1) = SlotWidth * (k - 1) + SlotWidth * (j - k)
    BY <1>1, <2>1
  <2>3. SlotWidth * (j - k) >= SlotWidth
    BY <1>1, <2>1
  <2> QED BY <1>1, <2>1, <2>2, <2>3
<1>3. SUFFICES ASSUME NEW c \in Cells(Slot(k, w)), c \in Cells(Slot(j, v)) PROVE FALSE
  BY DEF Apart
<1>4. PICK a \in 1..w : c = <<"stack", Slot(k, w).at + a - 1>>
  BY DEF Cells, Slot
<1>5. PICK b \in 1..v : c = <<"stack", Slot(j, v).at + b - 1>>
  BY <1>3 DEF Cells, Slot
<1>6. Slot(k, w).at + a - 1 = Slot(j, v).at + b - 1
  BY <1>4, <1>5
<1>7. /\ Slot(k, w).at = pool + SlotWidth * (k - 1) /\ Slot(j, v).at = pool + SlotWidth * (j - 1)
      /\ SlotWidth * (k - 1) \in Int /\ SlotWidth * (j - 1) \in Int
  BY <1>1 DEF Slot
<1> HIDE DEF Slot
<1> QED BY <1>1, <1>2, <1>6, <1>7

(* A slot that is clear of the homes is clear in its smaller uses too.     *)
LEMMA SmallerSlot ==
  ASSUME NEW k, NEW w \in Nat, NEW v \in Nat, v <= w
  PROVE  Cells(Slot(k, v)) \subseteq Cells(Slot(k, w))
  BY DEF Cells, Slot
-----------------------------------------------------------------------------
(* What a planner keeps: in the machine x that its code so far leads to,   *)
(* each pending move still finds its value where source says, the others   *)
(* are made, and nothing but slots has changed beside.                     *)
Finds(x, p, i) == \A k \in 1..To(i).width : ReadIn(x, At(p, k)) = At(From(i), k)
Kept(x, made, slots) ==
  \A c \in Cell : (\A i \in made : c \notin Cells(To(i))) /\ (\A s \in slots : c \notin Cells(s)) => x.memory[c] = c
PlanAt(pend, src, slots, x) ==
  /\ \A j \in pend : Finds(x, Physical(src[j]), j)
  /\ \A j \in Moves \ pend : Finds(x, To(j), j)
  /\ Kept(x, Moves \ pend, slots)

LEMMA PutOther ==
  ASSUME NEW x, NEW y, NEW p, NEW q, y.memory = Put(x, p, q), IsPlace(q), NEW r, IsPlace(r), Apart(r, q)
  PROVE  \A k \in 1..r.width : ReadIn(y, At(r, k)) = ReadIn(x, At(r, k))
<1> SUFFICES ASSUME NEW k \in 1..r.width PROVE ReadIn(y, At(r, k)) = ReadIn(x, At(r, k))
  OBVIOUS
<1>1. At(r, k) \notin Cells(q)
  BY CellsOf DEF Apart
<1>2. At(r, k) \in Cell => y.memory[At(r, k)] = x.memory[At(r, k)]
  BY <1>1, PutWhere
<1> QED BY <1>2, ReadPlace

LEMMA PutMoved ==
  ASSUME NEW x, NEW y, NEW p, NEW q, y.memory = Put(x, p, q), IsPlace(q), Cells(q) \subseteq Cell
  PROVE  \A k \in 1..q.width : ReadIn(y, At(q, k)) = ReadIn(x, At(p, k))
<1> SUFFICES ASSUME NEW k \in 1..q.width PROVE ReadIn(y, At(q, k)) = ReadIn(x, At(p, k))
  OBVIOUS
<1>1. At(q, k) \in Cell
  BY CellsOf
<1>2. y.memory[At(q, k)] = ReadIn(x, At(p, k))
  BY <1>1, PutWhere
<1> QED BY <1>1, <1>2, ReadPlace

LEMMA MoveMade ==
  ASSUME Legal, Disjoint, NEW pend \in SUBSET Moves, NEW src, NEW slots, NEW x, PlanAt(pend, src, slots, x),
         NEW i \in pend, NEW y, y.memory = Put(x, Physical(src[i]), To(i)),
         \A j \in pend : IsPlace(Physical(src[j])) /\ Physical(src[j]).width = To(j).width,
         \A j \in pend \ {i} : Apart(Physical(src[j]), To(i))
  PROVE  PlanAt(pend \ {i}, src, slots, y)
<1>1. i \in Moves /\ IsPlace(To(i)) /\ Cells(To(i)) \subseteq Cell
  BY MoveFacts
<1>2. ASSUME NEW j \in pend \ {i} PROVE Finds(y, Physical(src[j]), j)
  <2>1. \A k \in 1..Physical(src[j]).width : ReadIn(y, At(Physical(src[j]), k)) = ReadIn(x, At(Physical(src[j]), k))
    <3>1. IsPlace(Physical(src[j])) /\ Apart(Physical(src[j]), To(i))
      OBVIOUS
    <3> QED BY <1>1, <3>1, PutOther
  <2>2. Finds(x, Physical(src[j]), j)
    BY DEF PlanAt
  <2> QED BY <2>1, <2>2 DEF Finds
<1>3. Finds(y, To(i), i)
  <2>1. Finds(x, Physical(src[i]), i)
    BY DEF PlanAt
  <2>2. \A k \in 1..To(i).width : ReadIn(y, At(To(i), k)) = ReadIn(x, At(Physical(src[i]), k))
    BY <1>1, PutMoved
  <2> QED BY <2>1, <2>2 DEF Finds
<1>4. ASSUME NEW j \in Moves \ pend PROVE Finds(y, To(j), j)
  <2>1. IsPlace(To(j)) /\ IsHome(To(j)) /\ j # i
    BY MoveFacts
  <2>2. Apart(To(j), To(i))
    <3>1. ~Overlap(To(j), To(i))
      BY <1>1, <2>1 DEF Disjoint
    <3> QED BY <2>1, <3>1, HomeCells
  <2>3. \A k \in 1..To(j).width : ReadIn(y, At(To(j), k)) = ReadIn(x, At(To(j), k))
    BY <1>1, <2>1, <2>2, PutOther
  <2>4. Finds(x, To(j), j)
    BY DEF PlanAt
  <2> QED BY <2>3, <2>4 DEF Finds
<1>5. \A j \in Moves \ (pend \ {i}) : Finds(y, To(j), j)
  BY <1>3, <1>4
<1>6. Kept(y, Moves \ (pend \ {i}), slots)
  <2> SUFFICES ASSUME NEW c \in Cell, \A j \in Moves \ (pend \ {i}) : c \notin Cells(To(j)),
                      \A s \in slots : c \notin Cells(s)
               PROVE  y.memory[c] = c
    BY DEF Kept
  <2>1. c \notin Cells(To(i)) /\ \A j \in Moves \ pend : c \notin Cells(To(j))
    BY <1>1
  <2>2. x.memory[c] = c
    BY <2>1 DEF PlanAt, Kept
  <2>3. y.memory[c] = x.memory[c]
    BY <1>1, <2>1, PutWhere
  <2> QED BY <2>2, <2>3
<1> QED BY <1>2, <1>5, <1>6 DEF PlanAt

(* Saving what some pending moves read: they all read the slot from now on. *)
LEMMA CaptureMade ==
  ASSUME Legal, NEW pend \in SUBSET Moves, NEW src, NEW slots, NEW x, PlanAt(pend, src, slots, x),
         NEW h, NEW s, IsPlace(h), IsPlace(s), h.width = s.width, Cells(s) \subseteq Cell,
         NEW y, y.memory = Put(x, h, s),
         NEW more, slots \subseteq more, NEW t \in more, Cells(s) \subseteq Cells(t),
         NEW src2, \A j \in pend : \/ Physical(src[j]) = h /\ Physical(src2[j]) = s /\ To(j).width = s.width
                                  \/ /\ src2[j] = src[j] /\ IsPlace(Physical(src[j])) /\ Apart(Physical(src[j]), s)
                                     /\ Physical(src[j]).width = To(j).width,
         \A j \in Moves \ pend : Apart(To(j), s)
  PROVE  PlanAt(pend, src2, more, y)
<1>1. ASSUME NEW j \in pend PROVE Finds(y, Physical(src2[j]), j)
  <2>1. Finds(x, Physical(src[j]), j)
    BY DEF PlanAt
  <2>2. CASE Physical(src[j]) = h /\ Physical(src2[j]) = s /\ To(j).width = s.width
    <3>1. \A k \in 1..s.width : ReadIn(y, At(s, k)) = ReadIn(x, At(h, k))
      BY PutMoved
    <3> QED BY <2>1, <2>2, <3>1 DEF Finds
  <2>3. CASE src2[j] = src[j] /\ IsPlace(Physical(src[j])) /\ Apart(Physical(src[j]), s)
             /\ Physical(src[j]).width = To(j).width
    <3>1. \A k \in 1..Physical(src[j]).width : ReadIn(y, At(Physical(src[j]), k)) = ReadIn(x, At(Physical(src[j]), k))
      BY <2>3, PutOther
    <3> QED BY <2>1, <2>3, <3>1 DEF Finds
  <2> QED BY <2>2, <2>3
<1>2. ASSUME NEW j \in Moves \ pend PROVE Finds(y, To(j), j)
  <2>1. IsPlace(To(j)) /\ Apart(To(j), s)
    BY MoveFacts
  <2>2. \A k \in 1..To(j).width : ReadIn(y, At(To(j), k)) = ReadIn(x, At(To(j), k))
    BY <2>1, PutOther
  <2>3. Finds(x, To(j), j)
    BY DEF PlanAt
  <2> QED BY <2>2, <2>3 DEF Finds
<1>3. Kept(y, Moves \ pend, more)
  <2> SUFFICES ASSUME NEW c \in Cell, \A j \in Moves \ pend : c \notin Cells(To(j)),
                      \A r \in more : c \notin Cells(r)
               PROVE  y.memory[c] = c
    BY DEF Kept
  <2>1. c \notin Cells(s) /\ \A r \in slots : c \notin Cells(r)
    OBVIOUS
  <2>2. x.memory[c] = c
    BY <2>1 DEF PlanAt, Kept
  <2>3. y.memory[c] = x.memory[c]
    BY <2>1, PutWhere
  <2> QED BY <2>2, <2>3
<1> QED BY <1>1, <1>2, <1>3 DEF PlanAt
-----------------------------------------------------------------------------
(* Moves in order.                                                         *)
Latest(S) == CHOOSE i \in S : \A j \in S : j <= i
Increasing(s, n) == \A j, k \in 1..n : j < k => s[j] < s[k]

LEMMA GreatestNumber ==
  ASSUME NEW n \in Nat, NEW S \in SUBSET (0..n), S # {}
  PROVE  Latest(S) \in S /\ \A j \in S : j <= Latest(S)
<1> DEFINE T == {n - i : i \in S}
<1>1. T \in SUBSET Nat /\ T # {}
  <2>1. \A i \in S : i \in 0..n /\ n - i \in Nat
    OBVIOUS
  <2>2. PICK i \in S : TRUE
    OBVIOUS
  <2> QED BY <2>1, <2>2
<1>2. PICK t \in T : \A u \in T : t <= u
  <2> HIDE DEF T
  <2> QED BY <1>1, LeastNumber
<1>3. PICK i \in S : t = n - i
  BY <1>2
<1>4. \A j \in S : j <= i
  <2> TAKE j \in S
  <2>1. n - j \in T /\ n - i <= n - j
    BY <1>2, <1>3
  <2> QED BY <2>1
<1> QED BY <1>4 DEF Latest

LEMMA LatestIs ==
  ASSUME NEW S \in SUBSET Nat, NEW i \in S, \A j \in S : j <= i
  PROVE  Latest(S) = i
<1>1. Latest(S) \in S /\ \A j \in S : j <= Latest(S)
  BY DEF Latest
<1>2. Latest(S) <= i /\ i <= Latest(S)
  BY <1>1, Zenon
<1>3. Latest(S) \in Int /\ i \in Int
  <2>1. \A j \in S : j \in Int
    OBVIOUS
  <2> QED BY <1>1, <2>1, Zenon
<1> QED BY ONLY <1>2, <1>3

LEMMA OrderExists ==
  ASSUME NEW f \in Nat
  PROVE  \A S \in SUBSET (1..f) : \E s \in [1..Cardinality(S) -> S] : Increasing(s, Cardinality(S))
<1> DEFINE T == {n \in Nat : \A S \in SUBSET (1..f) :
                    Cardinality(S) = n => \E s \in [1..n -> S] : Increasing(s, n)}
<1>1. \A S \in SUBSET (1..f) : IsFiniteSet(S) /\ Cardinality(S) \in Nat
  <2>1. 1 \in Int /\ f \in Int
    OBVIOUS
  <2>2. IsFiniteSet(1..f)
    BY <2>1, FS_Interval
  <2> TAKE S \in SUBSET (1..f)
  <2>3. IsFiniteSet(S)
    BY <2>2, FS_Subset
  <2> QED BY <2>3, FS_CardinalityType
<1>2. 0 \in T
  <2> SUFFICES ASSUME NEW S \in SUBSET (1..f), Cardinality(S) = 0
               PROVE  \E s \in [1..0 -> S] : Increasing(s, 0)
    OBVIOUS
  <2>1. [k \in 1..0 |-> 1] \in [1..0 -> S] /\ Increasing([k \in 1..0 |-> 1], 0)
    BY DEF Increasing
  <2> QED BY <2>1
<1>3. ASSUME NEW n \in T PROVE n + 1 \in T
  <2> SUFFICES ASSUME NEW S \in SUBSET (1..f), Cardinality(S) = n + 1
               PROVE  \E s \in [1..n + 1 -> S] : Increasing(s, n + 1)
    OBVIOUS
  <2>1. n \in Nat /\ IsFiniteSet(S) /\ S # {}
    BY <1>1, FS_EmptySet
  <2>2. PICK m \in S : \A j \in S : j <= m
    <3>1. S \in SUBSET (0..f)
      OBVIOUS
    <3> QED BY <2>1, <3>1, GreatestNumber
  <2>3. S \ {m} \in SUBSET (1..f) /\ Cardinality(S \ {m}) = n
    <3>1. Cardinality(S \ {m}) = Cardinality(S) - 1
      BY <2>1, FS_RemoveElement
    <3> QED BY <2>1, <3>1
  <2>4. PICK s \in [1..n -> S \ {m}] : Increasing(s, n)
    BY <2>3
  <2> DEFINE t == [k \in 1..n + 1 |-> IF k = n + 1 THEN m ELSE s[k]]
  <2>5. \A k \in 1..n : t[k] = s[k] /\ s[k] \in S \ {m}
    BY <2>1
  <2>6. t[n + 1] = m
    BY <2>1
  <2>7. t \in [1..n + 1 -> S]
    <3>1. \A k \in 1..n + 1 : k \in 1..n \/ k = n + 1
      BY <2>1
    <3> QED BY <2>4, <3>1
  <2> HIDE DEF t
  <2>8. Increasing(t, n + 1)
    <3> SUFFICES ASSUME NEW j \in 1..n + 1, NEW k \in 1..n + 1, j < k PROVE t[j] < t[k]
      BY DEF Increasing
    <3>1. j \in 1..n /\ (k \in 1..n \/ k = n + 1)
      BY <2>1
    <3>2. CASE k \in 1..n
      BY <2>4, <2>5, <3>1, <3>2 DEF Increasing
    <3>3. CASE k = n + 1
      <4>1. t[j] \in S \ {m} /\ t[k] = m
        BY <2>5, <2>6, <3>1, <3>3
      <4>2. t[j] <= m /\ t[j] # m /\ t[j] \in Int /\ m \in Int
        <5>1. \A i \in S : i \in Int
          OBVIOUS
        <5>2. t[j] \in S /\ t[j] # m
          BY ONLY <4>1
        <5> QED BY <2>2, <5>1, <5>2, Zenon
      <4>3. t[j] < m
        BY ONLY <4>2
      <4> QED BY <4>1, <4>3
    <3> QED BY <3>1, <3>2, <3>3
  <2> QED BY <2>7, <2>8
<1>4. T = Nat
  <2> HIDE DEF T
  <2>1. T \in SUBSET Nat
    BY DEF T
  <2> QED BY <1>2, <1>3, <2>1, Induct
<1>5. \A n \in Nat : \A S \in SUBSET (1..f) : Cardinality(S) = n => \E s \in [1..n -> S] : Increasing(s, n)
  BY <1>4
<1> QED BY <1>1, <1>5

LEMMA OrderOf ==
  ASSUME Legal, NEW S \in SUBSET Moves
  PROVE  /\ Cardinality(S) \in Nat /\ Cardinality(S) <= Final
         /\ InOrder(S) \in [1..Cardinality(S) -> S] /\ Increasing(InOrder(S), Cardinality(S))
         /\ \A i \in S : \E k \in 1..Cardinality(S) : InOrder(S)[k] = i
         /\ \A j, k \in 1..Cardinality(S) : InOrder(S)[j] = InOrder(S)[k] => j = k
<1>1. Moves = 1..Final /\ Final \in Nat /\ IsFiniteSet(Moves) /\ Cardinality(Moves) = Final
  BY MoveFacts
<1>2. IsFiniteSet(S) /\ Cardinality(S) \in Nat /\ Cardinality(S) <= Final
  BY <1>1, FS_Subset, FS_CardinalityType
<1> DEFINE n == Cardinality(S)
           s == InOrder(S)
<1>3. \E t \in [1..n -> S] : Increasing(t, n)
  BY <1>1, OrderExists
<1>4. \A t \in [1..n -> S] : Increasing(t, n) <=> \A j, k \in DOMAIN t : j < k => t[j] < t[k]
  BY DEF Increasing
<1>5. s \in [1..n -> S] /\ Increasing(s, n)
  BY <1>3, <1>4 DEF InOrder
<1> HIDE DEF s
<1>6. ASSUME NEW j \in 1..n, NEW k \in 1..n, s[j] = s[k] PROVE j = k
  <2>1. s[j] \in Int /\ s[k] \in Int
    <3>1. s[j] \in S /\ s[k] \in S
      BY <1>5, <1>6
    <3>2. \A i \in S : i \in Int
      BY <1>1
    <3> QED BY <3>1, <3>2
  <2>2. ~(j < k) /\ ~(k < j)
    BY <1>5, <1>6, <2>1 DEF Increasing
  <2> QED BY <1>2, <2>2
<1>7. s \in Injection(1..n, S)
  BY <1>5, <1>6 DEF Injection, IsInjective
<1>8. Cardinality(1..n) = n
  BY <1>2, FS_Interval
<1>9. s \in Surjection(1..n, S)
  <2>1. Cardinality(1..n) = Cardinality(S) <=> s \in Surjection(1..n, S)
    BY <1>2, <1>7, FS_Injection
  <2> QED BY <1>8, <2>1
<1>10. \A i \in S : \E k \in 1..n : s[k] = i
  BY <1>9 DEF Surjection
<1> QED BY <1>2, <1>5, <1>6, <1>10 DEF s
-----------------------------------------------------------------------------
(* A list of copies made one after the other: P[k] to Q[k], where P[k]     *)
(* holds at its turn what V[k] is the name of.  Destinations may overlap.  *)
Wrote(Q, k, c) == {j \in 1..k : c \in Cells(Q[j])}
Mem(base, Q, V, k) ==
  [c \in Cell |-> IF Wrote(Q, k, c) = {} THEN base[c]
                  ELSE At(V[Latest(Wrote(Q, k, c))], Offset(Q[Latest(Wrote(Q, k, c))], c))]
ReadMem(m, b) == IF b \in Cell THEN m[b] ELSE b
Feeds(base, P, Q, V, n) ==
  \A k \in 1..n : /\ Copyable(P[k], Q[k])
                  /\ \A j \in 1..Q[k].width : ReadMem(Mem(base, Q, V, k - 1), At(P[k], j)) = At(V[k], j)

LEMMA NothingWritten ==
  ASSUME NEW base, base = [c \in Cell |-> base[c]], NEW Q, NEW V
  PROVE  Mem(base, Q, V, 0) = base
<1>1. \A c : Wrote(Q, 0, c) = {}
  BY DEF Wrote
<1>2. Mem(base, Q, V, 0) = [c \in Cell |-> base[c]]
  BY <1>1 DEF Mem
<1> QED BY <1>2

LEMMA WrittenNext ==
  ASSUME NEW base, NEW Q, NEW V, NEW k \in Nat, k >= 1, NEW c \in Cell
  PROVE  Mem(base, Q, V, k)[c] = IF c \in Cells(Q[k]) THEN At(V[k], Offset(Q[k], c)) ELSE Mem(base, Q, V, k - 1)[c]
<1>1. Mem(base, Q, V, k)[c] = IF Wrote(Q, k, c) = {} THEN base[c]
                  ELSE At(V[Latest(Wrote(Q, k, c))], Offset(Q[Latest(Wrote(Q, k, c))], c))
  BY DEF Mem
<1>2. Mem(base, Q, V, k - 1)[c] = IF Wrote(Q, k - 1, c) = {} THEN base[c]
                  ELSE At(V[Latest(Wrote(Q, k - 1, c))], Offset(Q[Latest(Wrote(Q, k - 1, c))], c))
  BY DEF Mem
<1>3. CASE c \in Cells(Q[k])
  <2>1. k \in Wrote(Q, k, c) /\ (\A j \in Wrote(Q, k, c) : j <= k) /\ Wrote(Q, k, c) \in SUBSET Nat
    BY <1>3 DEF Wrote
  <2>2. Latest(Wrote(Q, k, c)) = k
    BY <2>1, LatestIs
  <2> QED BY <1>1, <1>3, <2>1, <2>2
<1>4. CASE c \notin Cells(Q[k])
  <2>1. \A j \in 1..k : j \in 1..k - 1 \/ j = k
    OBVIOUS
  <2>2. Wrote(Q, k, c) = Wrote(Q, k - 1, c)
    BY <1>4, <2>1 DEF Wrote
  <2> QED BY <1>1, <1>2, <1>4, <2>2
<1> QED BY <1>3, <1>4

LEMMA ReadsSame ==
  ASSUME NEW p, IsPlace(p), NEW x, NEW j
  PROVE  ReadIn(x, At(p, j)) = ReadMem(x.memory, At(p, j))
  BY ReadPlace DEF ReadMem

LEMMA FedPut ==
  ASSUME NEW base, NEW P, NEW Q, NEW V, NEW n \in Nat, Feeds(base, P, Q, V, n), NEW k \in 1..n,
         NEW x, x.memory = Mem(base, Q, V, k - 1)
  PROVE  /\ Put(x, P[k], Q[k]) = Mem(base, Q, V, k)
         /\ \A j \in 1..Q[k].width : ReadIn(x, At(P[k], j)) = At(V[k], j)
<1>1. Copyable(P[k], Q[k]) /\ k \in Nat /\ k >= 1
  BY DEF Feeds
<1>2. ASSUME NEW j \in 1..Q[k].width PROVE ReadIn(x, At(P[k], j)) = At(V[k], j)
  <2>1. ReadMem(x.memory, At(P[k], j)) = At(V[k], j)
    BY DEF Feeds
  <2> QED BY <1>1, <2>1, ReadsSame DEF Copyable
<1>3. ASSUME NEW c \in Cell PROVE Put(x, P[k], Q[k])[c] = Mem(base, Q, V, k)[c]
  <2>1. Put(x, P[k], Q[k])[c] = IF c \in Cells(Q[k]) THEN ReadIn(x, At(P[k], Offset(Q[k], c))) ELSE x.memory[c]
    BY DEF Put
  <2>2. c \in Cells(Q[k]) => Offset(Q[k], c) \in 1..Q[k].width
    BY <1>1, CellsOf DEF Copyable
  <2>3. c \in Cells(Q[k]) => ReadIn(x, At(P[k], Offset(Q[k], c))) = At(V[k], Offset(Q[k], c))
    BY <1>2, <2>2
  <2>4. Mem(base, Q, V, k)[c] = IF c \in Cells(Q[k]) THEN At(V[k], Offset(Q[k], c)) ELSE Mem(base, Q, V, k - 1)[c]
    BY <1>1, WrittenNext
  <2> QED BY <2>1, <2>3, <2>4
<1>4. /\ Put(x, P[k], Q[k]) = [c \in Cell |-> Put(x, P[k], Q[k])[c]]
      /\ Mem(base, Q, V, k) = [c \in Cell |-> Mem(base, Q, V, k)[c]]
  BY DEF Put, Mem
<1> QED BY <1>2, <1>3, <1>4

LEMMA MemIsMemory ==
  ASSUME NEW base, NEW Q, NEW V, NEW k, NEW a
  PROVE  IsMachine([memory |-> Mem(base, Q, V, k), acc |-> a])
  BY DEF IsMachine, Mem

(* Words, one instruction each. *)
LEMMA WordsCopied ==
  ASSUME NEW base, base = [c \in Cell |-> base[c]], NEW P, NEW Q, NEW V, NEW n \in Nat, Feeds(base, P, Q, V, n),
         \A k \in 1..n : Q[k].width = 2, NEW x, IsMachine(x), x.memory = base,
         NEW s, s = [k \in 1..n |-> WordAt(P[k], Q[k], 1)]
  PROVE  /\ IsCode(s)
         /\ Runs(s, x, [memory |-> Mem(base, Q, V, n),
                        acc |-> IF n = 0 THEN x.acc ELSE <<At(V[n], 1), At(V[n], 2)>>])
<1> DEFINE Held(k) == IF k = 0 THEN x.acc ELSE <<At(V[k], 1), At(V[k], 2)>>
           tr == [k \in 0..n |-> [memory |-> Mem(base, Q, V, k), acc |-> Held(k)]]
<1>1. IsCode(s) /\ Len(s) = n /\ \A k \in 1..n : s[k] = WordAt(P[k], Q[k], 1)
  <2>1. s = [k \in 1..n |-> s[k]]
    OBVIOUS
  <2> QED BY <2>1, CodeMade
<1>2. \A k \in 0..n : tr[k] = [memory |-> Mem(base, Q, V, k), acc |-> Held(k)]
  OBVIOUS
<1>3. tr[0] = x
  <2>1. Mem(base, Q, V, 0) = base
    BY NothingWritten
  <2>2. x = [memory |-> x.memory, acc |-> x.acc]
    BY DEF IsMachine
  <2>3. Held(0) = x.acc /\ 0 \in 0..n
    OBVIOUS
  <2> HIDE DEF tr, Held
  <2> QED BY <1>2, <2>1, <2>2, <2>3
<1>4. ASSUME NEW k \in 1..n PROVE tr[k] = After(tr[k - 1], s[k])
  <2> DEFINE y == tr[k - 1]
  <2>1. k - 1 \in 0..n /\ k \in 0..n /\ k # 0
    OBVIOUS
  <2>2. y = [memory |-> Mem(base, Q, V, k - 1), acc |-> Held(k - 1)]
    BY <1>2, <2>1
  <2>3. Held(k) = <<At(V[k], 1), At(V[k], 2)>>
    BY <2>1
  <2>4. tr[k] = [memory |-> Mem(base, Q, V, k), acc |-> Held(k)]
    BY <1>2, <2>1
  <2> HIDE DEF tr, y, Held
  <2>5. y.memory = Mem(base, Q, V, k - 1) /\ IsMachine(y)
    BY <2>2, MemIsMemory
  <2>6. Copyable(P[k], Q[k]) /\ Q[k].width = 2
    BY DEF Feeds
  <2>7. After(y, WordAt(P[k], Q[k], 1)) =
          [memory |-> Put(y, P[k], Q[k]), acc |-> <<ReadIn(y, At(P[k], 1)), ReadIn(y, At(P[k], 2))>>]
    BY <2>5, <2>6, WordCopied, SMTT(60)
  <2>8. /\ Put(y, P[k], Q[k]) = Mem(base, Q, V, k)
        /\ \A j \in 1..Q[k].width : ReadIn(y, At(P[k], j)) = At(V[k], j)
    BY <2>5, FedPut
  <2>9. ReadIn(y, At(P[k], 1)) = At(V[k], 1) /\ ReadIn(y, At(P[k], 2)) = At(V[k], 2)
    <3>1. 1 \in 1..Q[k].width /\ 2 \in 1..Q[k].width
      BY <2>6
    <3> QED BY <2>8, <3>1
  <2>10. After(y, s[k]) = [memory |-> Mem(base, Q, V, k), acc |-> <<At(V[k], 1), At(V[k], 2)>>]
    BY <1>1, <2>7, <2>8, <2>9
  <2> QED BY <2>3, <2>4, <2>10 DEF y
<1>5. tr[n] = [memory |-> Mem(base, Q, V, n), acc |-> Held(n)]
  BY <1>2
<1>6. Trace(s, x, [memory |-> Mem(base, Q, V, n), acc |-> Held(n)], tr)
  <2> HIDE DEF tr, Held
  <2> QED BY <1>1, <1>3, <1>4, <1>5 DEF Trace
<1>7. Runs(s, x, [memory |-> Mem(base, Q, V, n), acc |-> Held(n)])
  BY <1>6 DEF Runs
<1> QED BY <1>1, <1>7
-----------------------------------------------------------------------------
(* Pieces of code, one after the other.                                    *)
Glued(q, n, f) == f = [i \in 1..n |-> IF i = 1 THEN q[i] ELSE f[i - 1] \o q[i]]
Glue(q) ==
  LET flatten[i \in 1..Len(q)] == IF i = 1 THEN q[i] ELSE flatten[i - 1] \o q[i]
  IN  flatten

LEMMA GlueExists ==
  ASSUME NEW q, NEW n \in Nat
  PROVE  \E f : Glued(q, n, f)
<1> DEFINE T == {k \in Nat : \E f : Glued(q, k, f)}
<1>1. 0 \in T
  <2> DEFINE v == [i \in 1..0 |-> q]
  <2>1. v = [i \in 1..0 |-> IF i = 1 THEN q[i] ELSE v[i - 1] \o q[i]]
    <3>1. \A i \in 1..0 : FALSE
      OBVIOUS
    <3> QED BY <3>1
  <2> QED BY <2>1 DEF Glued
<1>2. ASSUME NEW k \in T PROVE k + 1 \in T
  <2>1. PICK f : Glued(q, k, f)
    BY <1>2
  <2>2. f = [i \in 1..k |-> IF i = 1 THEN q[i] ELSE f[i - 1] \o q[i]] /\ k \in Nat
    BY <2>1 DEF Glued
  <2> DEFINE v == [i \in 1..(k + 1) |-> IF i <= k THEN f[i] ELSE IF i = 1 THEN q[i] ELSE f[k] \o q[i]]
  <2>3. \A i \in 1..(k + 1) : v[i] = IF i = 1 THEN q[i] ELSE v[i - 1] \o q[i]
    <3> TAKE i \in 1..(k + 1)
    <3>1. CASE i <= k /\ i = 1
      BY <2>2, <3>1
    <3>2. CASE i <= k /\ i # 1
      <4>1. i \in 1..k /\ i - 1 \in 1..k /\ i - 1 \in 1..(k + 1) /\ i - 1 <= k
        BY <2>2, <3>2
      <4>2. f[i] = f[i - 1] \o q[i]
        BY <2>2, <3>2, <4>1
      <4>3. v[i] = f[i] /\ v[i - 1] = f[i - 1]
        BY <3>2, <4>1
      <4> QED BY <3>2, <4>2, <4>3
    <3>3. CASE ~(i <= k) /\ i # 1
      <4>1. i - 1 = k /\ k \in 1..(k + 1) /\ k <= k
        BY <2>2, <3>3
      <4>2. v[k] = f[k] /\ v[i] = f[k] \o q[i]
        BY <3>3, <4>1
      <4> QED BY <3>3, <4>1, <4>2
    <3>4. CASE ~(i <= k) /\ i = 1
      BY <3>4
    <3> QED BY <3>1, <3>2, <3>3, <3>4
  <2>4. v = [i \in 1..(k + 1) |-> IF i = 1 THEN q[i] ELSE v[i - 1] \o q[i]]
    BY <2>3
  <2> HIDE DEF v
  <2>5. Glued(q, k + 1, v)
    BY <2>4, Zenon DEF Glued
  <2>6. k + 1 \in Nat
    BY <2>2
  <2> QED BY <2>5, <2>6
<1>3. T = Nat
  <2>1. T \in SUBSET Nat
    OBVIOUS
  <2> HIDE DEF T
  <2> QED BY <1>1, <1>2, <2>1, Induct
<1> QED BY <1>3

Joins(q, n, f) == f[1] = q[1] /\ \A i \in 1..n - 1 : f[i + 1] = f[i] \o q[i + 1]

LEMMA FlatIs ==
  ASSUME NEW q, NEW n \in Nat, Len(q) = n, n >= 1
  PROVE  \E f : FlattenSeq(q) = f[n] /\ Joins(q, n, f)
<1>1. FlattenSeq(q) = Glue(q)[n]
  BY DEF FlattenSeq, Glue
<1>2. Glued(q, n, Glue(q))
  <2>1. \E f : Glued(q, n, f)
    BY GlueExists
  <2> QED BY <2>1 DEF Glued, Glue
<1>3. PICK f : f = Glue(q)
  OBVIOUS
<1>4. \A i \in 1..n : f[i] = IF i = 1 THEN q[i] ELSE f[i - 1] \o q[i]
  <2>1. f = [i \in 1..n |-> IF i = 1 THEN q[i] ELSE f[i - 1] \o q[i]]
    BY <1>2, <1>3 DEF Glued
  <2> QED BY <2>1
<1>5. f[1] = q[1]
  BY <1>4
<1>6. ASSUME NEW i \in 1..n - 1 PROVE f[i + 1] = f[i] \o q[i + 1]
  <2>1. i + 1 \in 1..n /\ i + 1 # 1 /\ (i + 1) - 1 = i
    OBVIOUS
  <2> DEFINE j == i + 1
  <2>2. j \in 1..n /\ j # 1 /\ j - 1 = i
    BY <2>1
  <2> HIDE DEF j
  <2>3. f[j] = f[i] \o q[j]
    BY <1>4, <2>2
  <2> QED BY <2>3 DEF j
<1> QED BY <1>1, <1>3, <1>5, <1>6 DEF Joins

(* What the pieces of a list of copies do: A keeps its high half where the *)
(* pieces are bytes, and its low half is the byte copied last.             *)
PiecesTo(wide, base, Q, V, x, k, y) ==
  /\ IsMachine(y) /\ y.memory = Mem(base, Q, V, k)
  /\ ~wide => y.acc = <<IF k = 0 THEN x.acc[1] ELSE At(V[k], Q[k].width), x.acc[2]>>

PiecesReady(wide, base, P, Q, V, n, x, q) ==
  /\ wide \in BOOLEAN /\ base = [c \in Cell |-> base[c]] /\ n \in Nat /\ Feeds(base, P, Q, V, n)
  /\ \A k \in 1..n : Apart(P[k], Q[k]) /\ (wide => Q[k].width # 3)
  /\ IsMachine(x) /\ x.memory = base /\ (~wide => x.acc = <<x.acc[1], x.acc[2]>>)
  /\ q = [k \in 1..n |-> Piecewise(wide, P[k], Q[k])]
PiecesRun(wide, base, Q, V, n, x, q) ==
  IsCode(FlattenSeq(q)) /\ \E y : Runs(FlattenSeq(q), x, y) /\ PiecesTo(wide, base, Q, V, x, n, y)

LEMMA PiecesCopied ==
  ASSUME NEW wide, NEW base, NEW P, NEW Q, NEW V, NEW n, NEW x, NEW q, PiecesReady(wide, base, P, Q, V, n, x, q)
  PROVE  PiecesRun(wide, base, Q, V, n, x, q)
<1> SUFFICES ASSUME wide \in BOOLEAN, base = [c \in Cell |-> base[c]], n \in Nat, Feeds(base, P, Q, V, n),
                    \A k \in 1..n : Apart(P[k], Q[k]) /\ (wide => Q[k].width # 3),
                    IsMachine(x), x.memory = base, ~wide => x.acc = <<x.acc[1], x.acc[2]>>,
                    q = [k \in 1..n |-> Piecewise(wide, P[k], Q[k])]
             PROVE  /\ IsCode(FlattenSeq(q))
                    /\ \E y : Runs(FlattenSeq(q), x, y) /\ PiecesTo(wide, base, Q, V, x, n, y)
  BY DEF PiecesReady, PiecesRun
<1> DEFINE Reaches(k, y) == PiecesTo(wide, base, Q, V, x, k, y)
<1>1. Reaches(0, x)
  <2>1. Mem(base, Q, V, 0) = base
    BY NothingWritten
  <2> QED BY <2>1 DEF PiecesTo
<1>2. ASSUME NEW k \in 0..n - 1, NEW y, Reaches(k, y)
      PROVE  IsCode(q[k + 1]) /\ \E z : Runs(q[k + 1], y, z) /\ Reaches(k + 1, z)
  <2> DEFINE j == k + 1
  <2>1. j \in 1..n /\ j - 1 = k /\ j # 0
    OBVIOUS
  <2> HIDE DEF j
  <2>2. IsMachine(y) /\ y.memory = Mem(base, Q, V, j - 1)
    BY <1>2, <2>1 DEF PiecesTo
  <2>3. Copyable(P[j], Q[j]) /\ Apart(P[j], Q[j]) /\ (wide => Q[j].width # 3)
    BY <2>1 DEF Feeds
  <2>4. /\ IsCode(Piecewise(wide, P[j], Q[j])) /\ Piecewise(wide, P[j], Q[j]) # <<>>
        /\ \E z : PieceDone(wide, P[j], Q[j], y, z)
    BY <2>2, <2>3, PieceCopied, Zenon
  <2>5. PICK z : /\ Runs(Piecewise(wide, P[j], Q[j]), y, z) /\ IsMachine(z)
                 /\ z.memory = Put(y, P[j], Q[j])
                 /\ ~wide => z.acc = <<ReadIn(y, At(P[j], Q[j].width)), y.acc[2]>>
    BY <2>4 DEF PieceDone
  <2>6. q[j] = Piecewise(wide, P[j], Q[j])
    BY <2>1
  <2>7. /\ Put(y, P[j], Q[j]) = Mem(base, Q, V, j)
        /\ \A a \in 1..Q[j].width : ReadIn(y, At(P[j], a)) = At(V[j], a)
    BY <2>1, <2>2, FedPut
  <2>8. ~wide => ReadIn(y, At(P[j], Q[j].width)) = At(V[j], Q[j].width) /\ y.acc[2] = x.acc[2]
    <3>1. Q[j].width \in 1..Q[j].width
      BY <2>3 DEF Copyable, IsPlace
    <3>2. ~wide => y.acc[2] = x.acc[2]
      BY <1>2 DEF PiecesTo
    <3> QED BY <2>7, <3>1, <3>2
  <2>9. Reaches(j, z)
    BY <2>1, <2>5, <2>7, <2>8 DEF PiecesTo
  <2> QED BY <2>4, <2>5, <2>6, <2>9 DEF j
<1>3. CASE n = 0
  <2>1. q = <<>> /\ Len(q) = 0
    <3>1. q = [k \in 1..0 |-> q[k]]
      BY <1>3
    <3>2. IsCode(q) /\ Len(q) = 0
      BY <3>1, CodeMade
    <3> QED BY <3>2, CodeFacts
  <2>2. FlattenSeq(q) = <<>>
    BY <2>1 DEF FlattenSeq
  <2>3. Runs(<<>>, x, x) /\ IsCode(<<>>)
    BY RunsNone, NoCode
  <2> QED BY <1>1, <1>3, <2>2, <2>3
<1>4. CASE n # 0
  <2>1. Len(q) = n
    <3>1. q = [k \in 1..n |-> q[k]]
      OBVIOUS
    <3> QED BY <3>1, CodeMade
  <2>0. n >= 1
    BY <1>4
  <2>9. \E f : FlattenSeq(q) = f[n] /\ Joins(q, n, f)
    BY <2>0, <2>1, FlatIs, Zenon
  <2>2. PICK f : /\ FlattenSeq(q) = f[n] /\ f[1] = q[1]
                 /\ \A i \in 1..n - 1 : f[i + 1] = f[i] \o q[i + 1]
    BY <2>9, Zenon DEF Joins
  <2> DEFINE T == {k \in Nat : k + 1 <= n => IsCode(f[k + 1]) /\ \E y : Runs(f[k + 1], x, y) /\ Reaches(k + 1, y)}
  <2>3. 0 \in T
    <3>1. 0 \in 0..n - 1 /\ 0 + 1 = 1
      BY <1>4
    <3>2. IsCode(q[1]) /\ \E z : Runs(q[1], x, z) /\ Reaches(1, z)
      <4> HIDE DEF Reaches
      <4> QED BY <1>1, <1>2, <3>1
    <3> HIDE DEF Reaches
    <3> QED BY <2>2, <3>1, <3>2
  <2>4. ASSUME NEW k \in T PROVE k + 1 \in T
    <3> HIDE DEF Reaches
    <3>1. k \in Nat
      OBVIOUS
    <3> SUFFICES ASSUME (k + 1) + 1 <= n
                 PROVE  IsCode(f[(k + 1) + 1]) /\ \E y : Runs(f[(k + 1) + 1], x, y) /\ Reaches((k + 1) + 1, y)
      BY <3>1
    <3> DEFINE j == k + 1
    <3>2. j \in 0..n - 1 /\ j \in 1..n - 1 /\ k + 1 <= n
      BY <3>1
    <3>3. IsCode(f[j]) /\ \E y : Runs(f[j], x, y) /\ Reaches(j, y)
      BY <3>2
    <3> HIDE DEF j
    <3>4. PICK y : Runs(f[j], x, y) /\ Reaches(j, y)
      BY <3>3
    <3>5. IsCode(q[j + 1]) /\ \E z : Runs(q[j + 1], y, z) /\ Reaches(j + 1, z)
      BY <1>2, <3>2, <3>4
    <3>6. PICK z : Runs(q[j + 1], y, z) /\ Reaches(j + 1, z)
      BY <3>5
    <3>7. f[j + 1] = f[j] \o q[j + 1]
      BY <2>2, <3>2
    <3>8. IsCode(f[j + 1]) /\ Runs(f[j + 1], x, z)
      <4>1. IsCode(f[j] \o q[j + 1])
        BY <3>3, <3>5, Joined
      <4>2. Runs(f[j] \o q[j + 1], x, z)
        BY <3>3, <3>4, <3>5, <3>6, RunsJoined
      <4> QED BY <3>7, <4>1, <4>2
    <3> QED BY <3>6, <3>8 DEF j
  <2>5. n - 1 \in T
    <3>1. T = Nat
      <4>1. T \in SUBSET Nat
        OBVIOUS
      <4> HIDE DEF T
      <4> QED BY <2>3, <2>4, <4>1, Induct
    <3>2. n - 1 \in Nat
      BY <1>4
    <3> HIDE DEF T
    <3> QED BY <3>1, <3>2
  <2>6. (n - 1) + 1 = n /\ n <= n
    OBVIOUS
  <2>7. IsCode(f[n]) /\ \E y : Runs(f[n], x, y) /\ Reaches(n, y)
    <3> HIDE DEF Reaches
    <3>1. (n - 1) + 1 <= n => IsCode(f[(n - 1) + 1]) /\ \E y : Runs(f[(n - 1) + 1], x, y) /\ Reaches((n - 1) + 1, y)
      BY <2>5
    <3> QED BY <2>6, <3>1
  <2> QED BY <2>2, <2>7
<1> QED BY <1>3, <1>4
-----------------------------------------------------------------------------
(* What an edge has to leave behind.                                       *)
Owner(c) == {i \in Moves : c \in Cells(To(i))}
Assigned(c) ==
  IF Owner(c) = {} THEN c ELSE At(From(Latest(Owner(c))), Offset(To(Latest(Owner(c))), c))
Placed(x) == \A c \in Cell \ Scratch : x.memory[c] = Assigned(c)
Answer(x) ==
  LET last == Bytes(To(Final)) IN
  IF WordEdge THEN x.acc = <<x.memory[last[1]], x.memory[last[2]]>>
  ELSE x.acc = <<x.memory[last[Len(last)]], AccHigh>>
Good(x) == Placed(x) /\ Answer(x)

Clear(slots) == \A s \in slots, i \in Moves : ~Overlap(s, From(i)) /\ ~Overlap(s, To(i))

LEMMA AnswerIs ==
  ASSUME Legal, NEW x
  PROVE  /\ To(Final).width \in 1..4
         /\ WordEdge => To(Final).width = 2
         /\ Answer(x) <=> IF WordEdge THEN x.acc = <<x.memory[At(To(Final), 1)], x.memory[At(To(Final), 2)]>>
                          ELSE x.acc = <<x.memory[At(To(Final), To(Final).width)], AccHigh>>
<1> DEFINE q == To(Final)
           last == Bytes(q)
<1>1. Final \in Moves /\ IsPlace(q) /\ q.width \in 1..4
  BY MoveFacts
<1>2. WordEdge => q.width = 2
  BY <1>1 DEF WordEdge
<1>3. Len(last) = q.width /\ \A k \in 1..q.width : last[k] = At(q, k)
  BY <1>1, BytesOf
<1>4. Answer(x) <=> IF WordEdge THEN x.acc = <<x.memory[last[1]], x.memory[last[2]]>>
                    ELSE x.acc = <<x.memory[last[Len(last)]], AccHigh>>
  BY DEF Answer
<1> HIDE DEF last
<1>5. last[Len(last)] = At(q, q.width) /\ (WordEdge => last[1] = At(q, 1) /\ last[2] = At(q, 2))
  BY <1>1, <1>2, <1>3
<1> QED BY <1>1, <1>2, <1>4, <1>5

(* The last byte, loaded into the low half. *)
LEMMA LastByteLoads ==
  ASSUME Legal, ~WordEdge, NEW x, IsMachine(x), x.acc[2] = AccHigh, Placed(x)
  PROVE  Good(After(x, LastByte))
<1> DEFINE q == To(Final)
           d == At(q, q.width)
           y == After(x, LastByte)
<1>1. Final \in Moves /\ IsPlace(q) /\ q.width \in 1..4 /\ Cells(q) \subseteq Cell
  BY MoveFacts
<1>2. Bytes(q)[q.width] = d
  BY <1>1, BytesOf
<1>3. LastByte = Load(<<d>>)
  BY <1>2 DEF LastByte
<1>4. d \in Cell /\ ReadIn(x, d) = x.memory[d]
  <2>1. d \in Cells(q)
    BY <1>1, CellsOf
  <2> QED BY <1>1, <2>1, ReadPlace
<1> HIDE DEF q, d
<1>5. y.memory = x.memory /\ y.acc = <<x.memory[d], AccHigh>>
  <2>1. DOMAIN <<d>> = 1..1 /\ <<d>>[1] = d
    OBVIOUS
  <2>2. /\ After(x, Load(<<d>>)).memory = x.memory
        /\ (DOMAIN <<d>> = 1..1 => After(x, Load(<<d>>)).acc = <<ReadIn(x, <<d>>[1]), x.acc[2]>>)
        /\ (DOMAIN <<d>> = 1..2 => After(x, Load(<<d>>)).acc = <<ReadIn(x, <<d>>[1]), ReadIn(x, <<d>>[2])>>)
    BY Loads
  <2> QED BY <1>3, <1>4, <2>1, <2>2
<1> HIDE DEF y
<1>6. Placed(y)
  BY <1>5 DEF Placed
<1>7. Answer(y)
  <2>1. Answer(y) <=> IF WordEdge THEN y.acc = <<y.memory[At(To(Final), 1)], y.memory[At(To(Final), 2)]>>
                          ELSE y.acc = <<y.memory[At(To(Final), To(Final).width)], AccHigh>>
    BY AnswerIs
  <2> QED BY <1>5, <2>1 DEF d, q
<1> QED BY <1>6, <1>7 DEF Good, y

LEMMA OwnerLatest ==
  ASSUME Legal, NEW c, Owner(c) # {}
  PROVE  /\ Latest(Owner(c)) \in Moves /\ c \in Cells(To(Latest(Owner(c))))
         /\ \A j \in Owner(c) : j <= Latest(Owner(c))
<1>1. Final \in Nat /\ Moves = 1..Final
  BY MoveFacts
<1>2. Owner(c) \in SUBSET (0..Final)
  BY <1>1 DEF Owner
<1>3. Latest(Owner(c)) \in Owner(c) /\ \A j \in Owner(c) : j <= Latest(Owner(c))
  BY <1>1, <1>2, GreatestNumber
<1> QED BY <1>3 DEF Owner

(* A move whose destination is its source, or the last to write there.     *)
LEMMA AssignedBy ==
  ASSUME Legal, NEW c, NEW i \in Moves, c \in Cells(To(i)), \A j \in Moves : c \in Cells(To(j)) => j <= i
  PROVE  Assigned(c) = At(From(i), Offset(To(i), c))
<1>1. i \in Owner(c) /\ Owner(c) # {} /\ \A j \in Owner(c) : j <= i
  BY DEF Owner
<1>2. Owner(c) \in SUBSET Nat
  BY MoveFacts DEF Owner
<1>3. Latest(Owner(c)) = i
  BY <1>1, <1>2, LatestIs
<1> QED BY <1>1, <1>3 DEF Assigned

LEMMA AllMade ==
  ASSUME Legal, NEW src, NEW slots, NEW x, PlanAt({}, src, slots, x),
         \A s \in slots : \A c \in Cells(s) : c[1] = "stack" /\ c[2] >= pool
  PROVE  Placed(x)
<1> SUFFICES ASSUME NEW c \in Cell, c \notin Scratch PROVE x.memory[c] = Assigned(c)
  BY DEF Placed
<1>1. CASE Owner(c) = {}
  <2>1. \A i \in Moves : c \notin Cells(To(i))
    BY <1>1 DEF Owner
  <2>2. c \notin PoolCells
    BY <2>1 DEF Scratch
  <2>3. \A s \in slots : c \notin Cells(s)
    BY <2>2 DEF PoolCells
  <2>4. x.memory[c] = c
    BY <2>1, <2>3 DEF PlanAt, Kept
  <2> QED BY <1>1, <2>4 DEF Assigned
<1>2. CASE Owner(c) # {}
  <2> DEFINE i == Latest(Owner(c))
             k == Offset(To(i), c)
  <2>1. i \in Moves /\ c \in Cells(To(i))
    BY <1>2, OwnerLatest
  <2> HIDE DEF i
  <2>2. IsPlace(To(i))
    BY <2>1, MoveFacts
  <2>3. k \in 1..To(i).width /\ At(To(i), k) = c
    BY <2>1, <2>2, CellsOf
  <2>4. Finds(x, To(i), i)
    BY <2>1 DEF PlanAt
  <2>5. ReadIn(x, At(To(i), k)) = At(From(i), k)
    BY <2>3, <2>4 DEF Finds
  <2>6. ReadIn(x, At(To(i), k)) = x.memory[c]
    BY <2>2, <2>3, ReadPlace
  <2> QED BY <1>2, <2>5, <2>6 DEF Assigned, i
<1> QED BY <1>1, <1>2

LEMMA SlotInPool ==
  ASSUME Legal, NEW k \in Nat, k >= 1, NEW w
  PROVE  \A c \in Cells(Slot(k, w)) : c[1] = "stack" /\ c[2] >= pool /\ c[2] \in Nat
<1>1. Slot(k, w).space = "stack" /\ Slot(k, w).width = w /\ Slot(k, w).at \in Nat /\ Slot(k, w).at >= pool
  BY SlotFacts
<1>2. pool \in Nat
  BY DEF Legal, LegalEdge
<1>3. PICK s : s = Slot(k, w)
  OBVIOUS
<1>4. \A c \in Cells(s) : \E j \in 1..w : c = <<"stack", s.at + j - 1>>
  BY <1>1, <1>3 DEF Cells
<1> QED BY <1>1, <1>2, <1>3, <1>4

LEMMA ClearApart ==
  ASSUME NEW slots, Clear(slots), NEW k, NEW w, Slot(k, w) \in slots, NEW i \in Moves,
         NEW v \in Nat, NEW u \in Nat, w = u, v <= u
  PROVE  /\ Apart(Slot(k, v), From(i)) /\ Apart(Slot(k, v), To(i))
         /\ Apart(From(i), Slot(k, v)) /\ Apart(To(i), Slot(k, v))
<1>1. IsHome(Slot(k, w))
  BY DEF IsHome, Slot
<1>2. ~Overlap(Slot(k, w), From(i)) /\ ~Overlap(Slot(k, w), To(i))
  BY DEF Clear
<1>3. Apart(Slot(k, w), From(i)) /\ Apart(Slot(k, w), To(i))
  BY <1>1, <1>2 DEF Overlap, Apart
<1>4. Cells(Slot(k, v)) \subseteq Cells(Slot(k, w))
  BY SmallerSlot
<1> QED BY <1>3, <1>4 DEF Apart

(* Words last moved into the last destination are in A.                    *)
LEMMA LastWord ==
  ASSUME NEW s, IsCode(s), s # <<>>, NEW x, NEW z, Runs(s, x, z),
         NEW p, NEW q, Copyable(p, q), q.width = 2, Cells(q) \subseteq Cell, s[Len(s)] = WordAt(p, q, 1)
  PROVE  z.acc = <<z.memory[At(q, 1)], z.memory[At(q, 2)]>>
<1>1. Len(s) \in Nat /\ Len(s) # 0
  BY CodeFacts
<1>2. PICK tr : Trace(s, x, z, tr)
  BY DEF Runs
<1>3. Len(s) \in 1..Len(s)
  BY <1>1
<1>4. z = After(tr[Len(s) - 1], WordAt(p, q, 1))
  BY <1>2, <1>3 DEF Trace
<1>5. PICK y : y = tr[Len(s) - 1]
  OBVIOUS
<1>6. 1 \in 1..q.width - 1 /\ 1 + 1 = 2
  OBVIOUS
<1>7. z = Worded(y, p, q, 1)
  BY <1>4, <1>5, <1>6, WordMoved
<1>8. /\ z.memory = [c \in Cell |-> IF c = At(q, 1) THEN ReadIn(y, At(p, 1))
                              ELSE IF c = At(q, 2) THEN ReadIn(y, At(p, 2)) ELSE y.memory[c]]
      /\ z.acc = <<ReadIn(y, At(p, 1)), ReadIn(y, At(p, 2))>>
  BY <1>6, <1>7 DEF Worded
<1>9. At(q, 1) \in Cell /\ At(q, 2) \in Cell /\ At(q, 1) # At(q, 2)
  <2>1. 1 \in 1..q.width /\ 2 \in 1..q.width /\ 1 \in Int /\ 2 \in Int /\ 1 # 2
    OBVIOUS
  <2>2. At(q, 1) \in Cells(q) /\ At(q, 2) \in Cells(q) /\ At(q, 1) # At(q, 2)
    BY <2>1, CellsOf DEF Copyable
  <2> QED BY <2>2
<1> QED BY <1>8, <1>9

LEMMA PutSame ==
  ASSUME NEW x, IsMachine(x), NEW p, IsPlace(p)
  PROVE  x.memory = Put(x, p, p)
<1>1. ASSUME NEW c \in Cell PROVE Put(x, p, p)[c] = x.memory[c]
  <2>1. c \in Cells(p) => At(p, Offset(p, c)) = c
    BY CellsOf
  <2>2. c \in Cells(p) => ReadIn(x, At(p, Offset(p, c))) = x.memory[c]
    BY <2>1, ReadPlace
  <2> QED BY <2>2 DEF Put
<1>2. Put(x, p, p) = [c \in Cell |-> Put(x, p, p)[c]] /\ x.memory = [c \in Cell |-> x.memory[c]]
  BY DEF Put, IsMachine
<1> QED BY <1>1, <1>2
-----------------------------------------------------------------------------
(* Keeping A in a place s, and taking it back.                             *)
LEMMA KeepA ==
  ASSUME NEW s, IsPlace(s), s.width = 2, Cells(s) \subseteq Cell, NEW x, NEW y, y = After(x, Store(s))
  PROVE  /\ IsMachine(y) /\ y.acc = <<x.acc[1], x.acc[2]>>
         /\ y.memory[At(s, 1)] = x.acc[1] /\ y.memory[At(s, 2)] = x.acc[2]
         /\ \A c \in Cell : c \notin Cells(s) => y.memory[c] = x.memory[c]
<1>1. 1 \in 1..s.width /\ 2 \in 1..s.width /\ 1 \in Int /\ 2 \in Int /\ 1 # 2 /\ s.at \in Nat
  BY DEF IsPlace
<1>2. At(s, 1) \in Cells(s) /\ At(s, 2) \in Cells(s) /\ At(s, 1) # At(s, 2)
  BY <1>1, CellsOf
<1>3. Store(s) = [from |-> <<AccLow, AccHigh>>, to |-> <<At(s, 1), At(s, 2)>>]
  <2>1. s.at + 1 = s.at + 2 - 1
    BY <1>1
  <2> QED BY <2>1 DEF Store, Pair, At
<1>4. After(x, [from |-> <<AccLow, AccHigh>>, to |-> <<At(s, 1), At(s, 2)>>]) =
        [memory |-> [c \in Cell |-> IF c = At(s, 1) THEN ReadIn(x, AccLow)
                                    ELSE IF c = At(s, 2) THEN ReadIn(x, AccHigh) ELSE x.memory[c]],
         acc |-> <<ReadIn(x, AccLow), ReadIn(x, AccHigh)>>]
  BY <1>2, TwoBytes
<1>5. ReadIn(x, AccLow) = x.acc[1] /\ ReadIn(x, AccHigh) = x.acc[2]
  BY AccApart DEF ReadIn
<1>6. /\ y.memory = [c \in Cell |-> IF c = At(s, 1) THEN x.acc[1] ELSE IF c = At(s, 2) THEN x.acc[2] ELSE x.memory[c]]
      /\ y.acc = <<x.acc[1], x.acc[2]>>
  BY <1>3, <1>4, <1>5
<1>7. IsMachine(y)
  BY AlwaysMachine
<1> QED BY <1>2, <1>6, <1>7

LEMMA TakeA ==
  ASSUME NEW s, IsPlace(s), s.width = 2, Cells(s) \subseteq Cell, NEW x, IsMachine(x), NEW y, y = After(x, Load(Bytes(s)))
  PROVE  /\ IsMachine(y) /\ y.memory = x.memory /\ y.acc = <<x.memory[At(s, 1)], x.memory[At(s, 2)]>>
<1>1. 1 \in 1..s.width /\ 2 \in 1..s.width
  OBVIOUS
<1>2. At(s, 1) \in Cells(s) /\ At(s, 2) \in Cells(s)
  BY <1>1, CellsOf
<1>3. PICK b : b = Bytes(s)
  OBVIOUS
<1>4. DOMAIN b = 1..2 /\ b[1] = At(s, 1) /\ b[2] = At(s, 2)
  BY <1>1, <1>3, BytesOf
<1>5. /\ After(x, Load(b)).memory = x.memory
      /\ (DOMAIN b = 1..1 => After(x, Load(b)).acc = <<ReadIn(x, b[1]), x.acc[2]>>)
      /\ (DOMAIN b = 1..2 => After(x, Load(b)).acc = <<ReadIn(x, b[1]), ReadIn(x, b[2])>>)
  BY Loads
<1>6. ReadIn(x, At(s, 1)) = x.memory[At(s, 1)] /\ ReadIn(x, At(s, 2)) = x.memory[At(s, 2)]
  BY <1>2, ReadPlace
<1>7. IsMachine(y)
  BY AlwaysMachine
<1> QED BY <1>3, <1>4, <1>5, <1>6, <1>7

-----------------------------------------------------------------------------
(* The invariant: what each planner knows of its edge while it plans, that *)
(* what it planned would make every assignment, and that it captures only  *)
(* where some moves block one another.                                     *)
PointerSlots(stg) == IF stg = <<>> THEN {Slot(1, 2)} ELSE {Slot(1, 2), Slot(2, 3)}
KeepsA(x) == x.memory[At(Slot(1, 2), 1)] = AccLow /\ x.memory[At(Slot(1, 2), 2)] = AccHigh
PointerPlan(pend, src, stg, cd) ==
  /\ PointerEdge /\ pend \in SUBSET NotIdentity /\ IsCode(cd)
  /\ stg \in {<<>>, <<2, 3>>} /\ (stg # <<>> => Final >= 2)
  /\ \A j \in pend : src[j] = From(j) \/ (src[j] = Staged(2, 3) /\ stg # <<>>)
  /\ cd = <<>> => NotIdentity = {}
  /\ cd # <<>> /\ Clear(PointerSlots(stg)) =>
       \E x : IsMachine(x) /\ Runs(cd, Origin, x) /\ PlanAt(pend, src, PointerSlots(stg), x) /\ KeepsA(x)

MixedSlots(stg) == {Slot(k, SlotWidth) : k \in 1..Len(stg)}
MixedPlan(pend, src, stg, cd) ==
  /\ Disjoint /\ ~WordEdge /\ pend \in SUBSET NotIdentity /\ IsCode(cd) /\ IsCode(stg)
  /\ \A j \in Moves : src[j] = From(j) \/ \E k \in 1..Len(stg) : src[j] = Staged(k, To(j).width)
  /\ \A k \in 1..Len(stg) : \E j \in Moves : src[j].space = "staged" /\ src[j].at = k
  /\ Clear(MixedSlots(stg)) =>
       \E x : IsMachine(x) /\ Runs(cd, Origin, x) /\ PlanAt(pend, src, MixedSlots(stg), x) /\ x.acc[2] = AccHigh

DirectPlan(pend, src, stg, cd) ==
  /\ WordEdge /\ (Final = 1 \/ WholeWords) /\ pend \in SUBSET Moves /\ IsCode(cd) /\ stg = <<>>
  /\ \A j \in Moves : src[j] = From(j)
  /\ \E x : IsMachine(x) /\ Runs(cd, Origin, x) /\ PlanAt(pend, src, {}, x)

CapturedPlan(st, pend, stg, cd) ==
  WordEdge /\ (st = "selective" => WholeWords) /\ pend = {} /\ stg = <<>> /\ cd = <<>>

BytesPlan(pend, stg, cd) == ~PointerEdge /\ ~WordEdge /\ pend = {} /\ stg = <<>> /\ cd = <<>>

Planned(st, pend, src, stg, cd) ==
  \/ st = "pointer" /\ PointerPlan(pend, src, stg, cd)
  \/ st = "mixed" /\ MixedPlan(pend, src, stg, cd)
  \/ st = "direct" /\ DirectPlan(pend, src, stg, cd)
  \/ st \in {"selective", "complete"} /\ CapturedPlan(st, pend, stg, cd)
  \/ st = "bytes" /\ BytesPlan(pend, stg, cd)

Deadlock(st) ==
  \E P \in SUBSET NotIdentity :
    P # {} /\ \A i \in P : \E j \in P : Overlap(From(j), To(i)) /\ (j # i \/ st = "mixed")

EdgeAt(ph, st, pend, src, stg, cd, x) ==
  /\ Legal /\ IsMachine(x)
  /\ ph \in {"choose", "plan", "run", "done", "rejected"}
  /\ ph \in {"choose", "plan"} => x = Origin
  /\ ph = "choose" => st = "none" /\ stg = <<>> /\ \A i \in Moves : src[i] = From(i)
  /\ ph = "plan" => Planned(st, pend, src, stg, cd)
  /\ ph = "run" => IsCode(cd) /\ \E y : Runs(cd, x, y) /\ Good(y)
  /\ ph = "done" => Good(x)
  /\ ph = "rejected" => ~WellAllocated
  /\ stg # <<>> \/ st = "selective" => Deadlock(st)

EdgeInv == EdgeAt(phase, strategy, pending, source, staged, code, Now)

(* The edge itself never changes. *)
LEMMA SameEdge ==
  ASSUME UNCHANGED edge, NEW ph, NEW st, NEW pend, NEW src, NEW stg, NEW cd, NEW x,
         EdgeAt(ph, st, pend, src, stg, cd, x)
  PROVE  EdgeAt(ph, st, pend, src, stg, cd, x)'
<1>1. /\ Moves' = Moves /\ Final' = Final /\ NotIdentity' = NotIdentity /\ Disjoint' = Disjoint
      /\ PointerGeometry' = PointerGeometry
      /\ PointerEdge' = PointerEdge /\ WordEdge' = WordEdge /\ WholeWords' = WholeWords /\ Legal' = Legal
      /\ WellAllocated' = WellAllocated
  BY DEF edge, Moves, Final, From, To, NotIdentity, Disjoint, PointerEdge, PointerGeometry, WordEdge, WholeWords,
         Legal, WellAllocated, PoolCells
<1>2. ASSUME NEW y PROVE Good(y)' = Good(y)
  <2>1. Placed(y)' = Placed(y)
    BY DEF edge, Placed, Scratch, PoolCells, Moves, Assigned, Owner, From, To
  <2>2. Answer(y)' = Answer(y)
    BY DEF edge, Answer, WordEdge, Moves, Final, From, To
  <2> QED BY <2>1, <2>2 DEF Good
<1>3. ASSUME NEW slots, NEW y
      PROVE  PlanAt(pend, src, slots, y)' = PlanAt(pend, src, slots, y) /\ Clear(slots)' = Clear(slots)
  BY DEF edge, PlanAt, Clear, Finds, Kept, Physical, Slot, Moves, From, To
<1>4. /\ PointerSlots(stg)' = PointerSlots(stg) /\ MixedSlots(stg)' = MixedSlots(stg)
      /\ \A y : KeepsA(y)' = KeepsA(y)
      /\ \A k, w : Slot(k, w)' = Slot(k, w)
  BY DEF edge, PointerSlots, MixedSlots, KeepsA, Slot
<1>5. PointerPlan(pend, src, stg, cd) => PointerPlan(pend, src, stg, cd)'
  <2> SUFFICES ASSUME PointerPlan(pend, src, stg, cd) PROVE PointerPlan(pend, src, stg, cd)'
    OBVIOUS
  <2>1. \A j \in pend : (src[j] = From(j))' = (src[j] = From(j))
    BY DEF edge, From
  <2>2. (\A j \in pend : src[j] = From(j) \/ (src[j] = Staged(2, 3) /\ stg # <<>>))'
    BY <2>1 DEF PointerPlan
  <2>3. (cd # <<>> /\ Clear(PointerSlots(stg)) =>
          \E y : IsMachine(y) /\ Runs(cd, Origin, y) /\ PlanAt(pend, src, PointerSlots(stg), y) /\ KeepsA(y))'
    BY <1>3, <1>4 DEF PointerPlan
  <2> QED BY <1>1, <2>2, <2>3 DEF PointerPlan
<1>6. MixedPlan(pend, src, stg, cd) => MixedPlan(pend, src, stg, cd)'
  <2> SUFFICES ASSUME MixedPlan(pend, src, stg, cd) PROVE MixedPlan(pend, src, stg, cd)'
    OBVIOUS
  <2>2. (\A j \in Moves : src[j] = From(j) \/ \E k \in 1..Len(stg) : src[j] = Staged(k, To(j).width))'
    BY DEF edge, From, To, Moves, MixedPlan
  <2>3. (Clear(MixedSlots(stg)) =>
          \E y : IsMachine(y) /\ Runs(cd, Origin, y) /\ PlanAt(pend, src, MixedSlots(stg), y) /\ y.acc[2] = AccHigh)'
    BY <1>3, <1>4 DEF MixedPlan
  <2> QED BY <1>1, <2>2, <2>3 DEF MixedPlan
<1>7. DirectPlan(pend, src, stg, cd) => DirectPlan(pend, src, stg, cd)'
  <2> SUFFICES ASSUME DirectPlan(pend, src, stg, cd) PROVE DirectPlan(pend, src, stg, cd)'
    OBVIOUS
  <2>2. (\A j \in Moves : src[j] = From(j))'
    BY DEF edge, From, Moves, DirectPlan
  <2>3. (\E y : IsMachine(y) /\ Runs(cd, Origin, y) /\ PlanAt(pend, src, {}, y))'
    BY <1>3 DEF DirectPlan
  <2> QED BY <1>1, <2>2, <2>3 DEF DirectPlan
<1>8. CapturedPlan(st, pend, stg, cd) => CapturedPlan(st, pend, stg, cd)'
  BY <1>1 DEF CapturedPlan
<1>9. BytesPlan(pend, stg, cd) => BytesPlan(pend, stg, cd)'
  BY <1>1 DEF BytesPlan
<1>10. Planned(st, pend, src, stg, cd) => Planned(st, pend, src, stg, cd)'
  BY <1>5, <1>6, <1>7, <1>8, <1>9 DEF Planned
<1>11. Deadlock(st)' = Deadlock(st)
  BY DEF edge, Deadlock, NotIdentity, From, To, Moves
<1>12. (\A i \in Moves : src[i] = From(i))' = (\A i \in Moves : src[i] = From(i))
  BY DEF edge, Moves, From
<1> QED BY <1>1, <1>2, <1>10, <1>11, <1>12 DEF EdgeAt

LEMMA EdgeNext ==
  ASSUME UNCHANGED edge, EdgeAt(phase', strategy', pending', source', staged', code', Now')
  PROVE  EdgeInv'
<1>1. PICK ph, st, pend, src, stg, cd, x :
        /\ ph = phase' /\ st = strategy' /\ pend = pending' /\ src = source' /\ stg = staged' /\ cd = code' /\ x = Now'
  OBVIOUS
<1>2. EdgeAt(ph, st, pend, src, stg, cd, x)
  BY <1>1
<1>3. EdgeAt(ph, st, pend, src, stg, cd, x)'
  BY <1>2, SameEdge
<1>4. EdgeAt(phase, strategy, pending, source, staged, code, Now)'
  BY <1>1, <1>3
<1> QED BY <1>4 DEF EdgeInv
-----------------------------------------------------------------------------
(* The beginning, the choice of a planner, and the run of the code.        *)
LEMMA OriginReads ==
  /\ IsMachine(Origin)
  /\ \A p, k : IsPlace(p) => ReadIn(Origin, At(p, k)) = At(p, k)
<1>1. IsMachine(Origin)
  BY DEF IsMachine, Origin
<1>2. \A c \in Cell : Origin.memory[c] = c
  BY DEF Origin
<1>3. ASSUME NEW p, NEW k, IsPlace(p) PROVE ReadIn(Origin, At(p, k)) = At(p, k)
  BY <1>2, <1>3, ReadPlace
<1> QED BY <1>1, <1>3

LEMMA UnstagedPhysical ==
  ASSUME Legal
  PROVE  /\ \A j \in Moves : Physical(From(j)) = From(j)
         /\ \A k, w : Physical(Staged(k, w)) = Slot(k, w) /\ Staged(k, w).space = "staged" /\ Staged(k, w).at = k
  BY MoveFacts DEF Physical, Staged

LEMMA PlanBegins ==
  ASSUME Legal, NEW pend \in SUBSET Moves, NotIdentity \subseteq pend, NEW src, \A j \in pend : src[j] = From(j),
         NEW slots, NEW x, \A j \in Moves : Finds(x, From(j), j),
         \A c \in Cell : (\A s \in slots : c \notin Cells(s)) => x.memory[c] = c
  PROVE  PlanAt(pend, src, slots, x)
<1>1. ASSUME NEW j \in pend PROVE Finds(x, Physical(src[j]), j)
  BY UnstagedPhysical
<1>2. ASSUME NEW j \in Moves \ pend PROVE Finds(x, To(j), j)
  <2>1. From(j) = To(j)
    BY DEF NotIdentity
  <2> QED BY <2>1
<1> QED BY <1>1, <1>2 DEF PlanAt, Kept

LEMMA OriginFinds ==
  ASSUME Legal
  PROVE  /\ \A j \in Moves : Finds(Origin, From(j), j)
         /\ \A c \in Cell : Origin.memory[c] = c
<1>1. \A c \in Cell : Origin.memory[c] = c
  BY DEF Origin
<1>2. ASSUME NEW j \in Moves PROVE Finds(Origin, From(j), j)
  <2>1. IsPlace(From(j))
    BY MoveFacts
  <2> QED BY <2>1, OriginReads DEF Finds
<1> QED BY <1>1, <1>2

(* What is left alone is still what it was.                                *)
LEMMA StillFinds ==
  ASSUME Legal, NEW j \in Moves, NEW x, \A c \in Cells(From(j)) \cap Cell : x.memory[c] = c
  PROVE  Finds(x, From(j), j)
<1>1. IsPlace(From(j)) /\ From(j).width = To(j).width
  BY MoveFacts
<1> SUFFICES ASSUME NEW k \in 1..To(j).width PROVE ReadIn(x, At(From(j), k)) = At(From(j), k)
  BY DEF Finds
<1>2. At(From(j), k) \in Cells(From(j))
  BY <1>1, CellsOf
<1> QED BY <1>1, <1>2, ReadPlace

LEMMA EdgeStart ==
  ASSUME NEW m, NEW p, LegalEdge(m, p), Start(m, p)
  PROVE  EdgeInv
<1>1. Legal /\ Now = Origin
  BY DEF Legal, Start, Now, Origin
<1>2. /\ phase = "choose" /\ strategy = "none" /\ staged = <<>>
      /\ \A i \in Moves : source[i] = From(i)
  BY DEF Start, Moves, From
<1> QED BY <1>1, <1>2, OriginReads DEF EdgeInv, EdgeAt

(* Running is what the instructions say. *)
LEMMA Executed ==
  ASSUME Execute
  PROVE  Now' = After(Now, Head(code))
<1> DEFINE i == Head(code)
           value == [k \in DOMAIN i.from |-> Read(i.from[k])]
<1>1. Now.memory = memory /\ Now.acc = acc
  BY DEF Now
<1>2. \A b : Read(b) = ReadIn(Now, b)
  BY <1>1 DEF Read, ReadIn
<1>3. value = ValueIn(Now, i)
  BY <1>2 DEF ValueIn
<1>4. acc' = (IF Len(value) = 2 THEN value ELSE <<value[1], acc[2]>>)
  BY DEF Execute
<1>5. memory' = [c \in Cell |-> IF StoresTo(i, c) = {} THEN memory[c] ELSE value[Smallest(StoresTo(i, c))]]
  BY DEF Execute, StoresTo
<1> HIDE DEF i, value
<1>6. Now' = [memory |-> memory', acc |-> acc']
  BY DEF Now
<1>7. Now' = After(Now, i)
  BY <1>1, <1>3, <1>4, <1>5, <1>6 DEF After
<1> QED BY <1>7 DEF i

LEMMA ExecuteKeeps ==
  ASSUME EdgeInv, Execute
  PROVE  EdgeInv'
<1>1. /\ phase = "run" /\ code # <<>> /\ code' = Tail(code)
      /\ UNCHANGED <<edge, strategy, pending, source, staged, phase>>
  BY DEF Execute, planning
<1>2. /\ Legal /\ IsCode(code) /\ \E y : Runs(code, Now, y) /\ Good(y)
      /\ staged # <<>> \/ strategy = "selective" => Deadlock(strategy)
  BY <1>1 DEF EdgeInv, EdgeAt
<1>3. PICK y : Runs(code, Now, y) /\ Good(y)
  BY <1>2
<1>4. Now' = After(Now, Head(code)) /\ IsMachine(Now')
  <2>1. IsMachine(After(Now, Head(code)))
    BY AlwaysMachine
  <2> QED BY <2>1, Executed
<1>5. IsCode(code') /\ Runs(code', Now', y)
  <2>1. Runs(Tail(code), After(Now, Head(code)), y)
    BY <1>1, <1>2, <1>3, RunsOn
  <2>2. IsCode(Tail(code))
    BY <1>1, <1>2, HeadTail
  <2> QED BY <1>1, <1>4, <2>1, <2>2
<1>6. EdgeAt(phase', strategy', pending', source', staged', code', Now')
  BY <1>1, <1>2, <1>3, <1>4, <1>5 DEF EdgeAt
<1> QED BY <1>1, <1>6, EdgeNext

LEMMA ArriveKeeps ==
  ASSUME EdgeInv, Arrive
  PROVE  EdgeInv'
<1>1. /\ phase = "run" /\ code = <<>> /\ phase' = "done"
      /\ UNCHANGED <<edge, strategy, pending, source, staged, code, memory, acc>>
  BY DEF Arrive, planning
<1>2. /\ Legal /\ IsMachine(Now) /\ \E y : Runs(code, Now, y) /\ Good(y)
      /\ staged # <<>> \/ strategy = "selective" => Deadlock(strategy)
  BY <1>1 DEF EdgeInv, EdgeAt
<1>3. Good(Now)
  BY <1>1, <1>2, RunsNone
<1>4. Now' = Now
  BY <1>1 DEF Now
<1>5. EdgeAt(phase', strategy', pending', source', staged', code', Now')
  BY <1>1, <1>2, <1>3, <1>4 DEF EdgeAt
<1> QED BY <1>1, <1>5, EdgeNext

(* Planning does not run anything. *)
LEMMA PlanOnward ==
  ASSUME EdgeInv, phase \in {"choose", "plan"}, UNCHANGED <<edge, memory, acc>>, phase' = "plan",
         Planned(strategy', pending', source', staged', code'),
         staged' # <<>> \/ strategy' = "selective" => Deadlock(strategy')
  PROVE  EdgeInv'
<1>1. Legal /\ IsMachine(Now) /\ Now = Origin
  BY DEF EdgeInv, EdgeAt
<1>2. Now' = Now
  BY DEF Now
<1>3. EdgeAt(phase', strategy', pending', source', staged', code', Now')
  BY <1>1, <1>2 DEF EdgeAt
<1> QED BY <1>3, EdgeNext

LEMMA Refused ==
  ASSUME EdgeInv, UNCHANGED <<edge, strategy, staged, memory, acc>>, phase' = "rejected", ~WellAllocated
  PROVE  EdgeInv'
<1>1. Legal /\ IsMachine(Now) /\ (staged # <<>> \/ strategy = "selective" => Deadlock(strategy))
  BY DEF EdgeInv, EdgeAt
<1>2. Now' = Now
  BY DEF Now
<1>3. EdgeAt(phase', strategy', pending', source', staged', code', Now')
  BY <1>1, <1>2 DEF EdgeAt
<1> QED BY <1>3, EdgeNext

LEMMA ReadyToRun ==
  ASSUME EdgeInv, phase = "plan", UNCHANGED <<edge, planning, memory, acc>>, phase' = "run",
         IsCode(code'), NEW y, Runs(code', Origin, y), Good(y)
  PROVE  EdgeInv'
<1>1. /\ Legal /\ IsMachine(Now) /\ Now = Origin
      /\ staged # <<>> \/ strategy = "selective" => Deadlock(strategy)
  BY DEF EdgeInv, EdgeAt
<1>2. Now' = Now
  BY DEF Now
<1>3. strategy' = strategy /\ staged' = staged
  BY DEF planning
<1>4. EdgeAt(phase', strategy', pending', source', staged', code', Now')
  BY <1>1, <1>2, <1>3 DEF EdgeAt
<1> QED BY <1>4, EdgeNext
-----------------------------------------------------------------------------
LEMMA ChoosePointerKeeps ==
  ASSUME EdgeInv, ChoosePointer
  PROVE  EdgeInv'
<1> DEFINE first == IF NotIdentity = {} THEN <<>> ELSE <<Store(Slot(1, 2))>>
<1>1. /\ phase = "choose" /\ PointerEdge /\ phase' = "plan" /\ UNCHANGED <<edge, source, staged, memory, acc>>
      /\ strategy' = "pointer" /\ pending' = NotIdentity /\ code' = first
  BY DEF ChoosePointer, Begin
<1>2. Legal /\ staged = <<>> /\ \A i \in Moves : source[i] = From(i)
  BY <1>1 DEF EdgeInv, EdgeAt
<1>3. IsCode(first)
  BY NoCode, Single
<1>4. first = <<>> => NotIdentity = {}
  BY Single
<1>5. ASSUME first # <<>>, Clear({Slot(1, 2)})
      PROVE  \E x : /\ IsMachine(x) /\ Runs(first, Origin, x) /\ KeepsA(x)
                    /\ PlanAt(NotIdentity, source, {Slot(1, 2)}, x)
  <2> DEFINE s == Slot(1, 2)
             x == After(Origin, Store(s))
  <2>1. IsPlace(s) /\ s.width = 2 /\ Cells(s) \subseteq Cell
    <3>1. 1 \in Nat /\ 1 >= 1 /\ 2 \in 1..4 /\ 1 \in 1..Final
      BY <1>2, MoveFacts
    <3> QED BY <1>2, <3>1, SlotFacts
  <2>2. \A i \in Moves : Apart(From(i), s)
    <3>1. s \in {s} /\ 2 \in Nat /\ 2 <= 2
      OBVIOUS
    <3> QED BY <1>5, <3>1, ClearApart
  <2> HIDE DEF s
  <2>3. /\ IsMachine(x) /\ x.acc = <<Origin.acc[1], Origin.acc[2]>>
        /\ x.memory[At(s, 1)] = Origin.acc[1] /\ x.memory[At(s, 2)] = Origin.acc[2]
        /\ \A c \in Cell : c \notin Cells(s) => x.memory[c] = Origin.memory[c]
    BY <2>1, KeepA
  <2>4. Runs(<<Store(s)>>, Origin, x)
    BY RunsOne
  <2> HIDE DEF x
  <2>5. Origin.acc[1] = AccLow /\ Origin.acc[2] = AccHigh /\ \A c \in Cell : Origin.memory[c] = c
    BY DEF Origin
  <2>6. \A c \in Cell : c \notin Cells(s) => x.memory[c] = c
    BY <2>3, <2>5
  <2>7. \A j \in Moves : Finds(x, From(j), j)
    <3> TAKE j \in Moves
    <3>1. \A c \in Cells(From(j)) \cap Cell : x.memory[c] = c
      BY <2>2, <2>6 DEF Apart
    <3> QED BY <1>2, <3>1, StillFinds
  <2>8. PlanAt(NotIdentity, source, {s}, x)
    <3>1. NotIdentity \in SUBSET Moves /\ NotIdentity \subseteq NotIdentity /\ \A j \in NotIdentity : source[j] = From(j)
      BY <1>2 DEF NotIdentity
    <3>2. \A c \in Cell : (\A t \in {s} : c \notin Cells(t)) => x.memory[c] = c
      BY <2>6
    <3> QED BY <1>2, <2>7, <3>1, <3>2, PlanBegins
  <2>9. KeepsA(x)
    BY <2>3, <2>5 DEF KeepsA, s
  <2>10. first = <<Store(s)>>
    BY <1>5 DEF s
  <2> QED BY <2>3, <2>4, <2>8, <2>9, <2>10 DEF s
<1> HIDE DEF first
<1>6. PointerSlots(<<>>) = {Slot(1, 2)}
  BY DEF PointerSlots
<1>7. PointerPlan(NotIdentity, source, <<>>, first)
  <2>1. NotIdentity \in SUBSET Moves /\ \A j \in NotIdentity : source[j] = From(j)
    BY <1>2 DEF NotIdentity
  <2> QED BY <1>1, <1>3, <1>4, <1>5, <1>6, <2>1 DEF PointerPlan
<1>8. Planned(strategy', pending', source', staged', code') /\ staged' = <<>>
  BY <1>1, <1>2, <1>7 DEF Planned
<1> QED BY <1>1, <1>8, PlanOnward

LEMMA ChooseWordKeeps ==
  ASSUME EdgeInv, ChooseWord
  PROVE  EdgeInv'
<1>1. /\ phase = "choose" /\ ~PointerEdge /\ WordEdge /\ phase' = "plan"
      /\ UNCHANGED <<edge, source, staged, memory, acc>> /\ code' = <<>>
      /\ \/ (Final = 1 \/ WholeWords) /\ strategy' = "direct" /\ pending' = Moves
         \/ strategy' = "complete" /\ pending' = {}
  BY DEF ChooseWord, Begin
<1>2. Legal /\ staged = <<>> /\ \A i \in Moves : source[i] = From(i)
  BY <1>1 DEF EdgeInv, EdgeAt
<1>3. ASSUME Final = 1 \/ WholeWords PROVE DirectPlan(Moves, source, <<>>, <<>>)
  <2>1. PlanAt(Moves, source, {}, Origin)
    <3>1. NotIdentity \subseteq Moves /\ Moves \in SUBSET Moves
      BY DEF NotIdentity
    <3>2. /\ \A j \in Moves : Finds(Origin, From(j), j)
          /\ \A c \in Cell : (\A t \in {} : c \notin Cells(t)) => Origin.memory[c] = c
      BY <1>2, OriginFinds
    <3> QED BY <1>2, <3>1, <3>2, PlanBegins
  <2>2. Runs(<<>>, Origin, Origin) /\ IsCode(<<>>) /\ IsMachine(Origin)
    BY RunsNone, NoCode, OriginReads
  <2> QED BY <1>1, <1>2, <1>3, <2>1, <2>2 DEF DirectPlan
<1>4. CapturedPlan("complete", {}, <<>>, <<>>)
  BY <1>1 DEF CapturedPlan
<1>5. Planned(strategy', pending', source', staged', code') /\ staged' = <<>> /\ strategy' # "selective"
  BY <1>1, <1>2, <1>3, <1>4 DEF Planned
<1> QED BY <1>1, <1>5, PlanOnward

LEMMA ChooseMixedKeeps ==
  ASSUME EdgeInv, ChooseMixed
  PROVE  EdgeInv'
<1>1. /\ phase = "choose" /\ ~WordEdge /\ UNCHANGED <<edge, source, staged, memory, acc>>
      /\ \/ Disjoint /\ phase' = "plan" /\ strategy' = "mixed" /\ pending' = NotIdentity /\ code' = <<>>
         \/ ~Disjoint /\ phase' = "rejected" /\ UNCHANGED <<planning, code>>
  BY DEF ChooseMixed, Begin, planning
<1>2. Legal /\ staged = <<>> /\ \A i \in Moves : source[i] = From(i)
  BY <1>1 DEF EdgeInv, EdgeAt
<1>3. CASE Disjoint /\ phase' = "plan" /\ strategy' = "mixed" /\ pending' = NotIdentity /\ code' = <<>>
  <2>1. PlanAt(NotIdentity, source, MixedSlots(<<>>), Origin)
    <3>1. NotIdentity \in SUBSET Moves /\ NotIdentity \subseteq NotIdentity /\ \A j \in NotIdentity : source[j] = From(j)
      BY <1>2 DEF NotIdentity
    <3>2. /\ \A j \in Moves : Finds(Origin, From(j), j)
          /\ \A c \in Cell : (\A t \in MixedSlots(<<>>) : c \notin Cells(t)) => Origin.memory[c] = c
      BY <1>2, OriginFinds
    <3> QED BY <1>2, <3>1, <3>2, PlanBegins
  <2>2. Runs(<<>>, Origin, Origin) /\ IsCode(<<>>) /\ Len(<<>>) = 0 /\ IsMachine(Origin) /\ Origin.acc[2] = AccHigh
    BY RunsNone, NoCode, OriginReads DEF Origin
  <2>3. MixedPlan(NotIdentity, source, <<>>, <<>>)
    BY <1>1, <1>2, <1>3, <2>1, <2>2 DEF MixedPlan
  <2>4. Planned(strategy', pending', source', staged', code') /\ staged' = <<>> /\ strategy' # "selective"
    BY <1>1, <1>2, <1>3, <2>3 DEF Planned
  <2> QED BY <1>1, <1>3, <2>4, PlanOnward
<1>4. CASE ~Disjoint /\ phase' = "rejected" /\ UNCHANGED <<planning, code>>
  <2>1. ~WellAllocated /\ strategy' = strategy
    BY <1>4 DEF WellAllocated, planning
  <2> QED BY <1>1, <1>4, <2>1, Refused
<1> QED BY <1>1, <1>3, <1>4

LEMMA ChooseBytesKeeps ==
  ASSUME EdgeInv, ChooseBytes
  PROVE  EdgeInv'
<1>1. /\ phase = "choose" /\ ~PointerEdge /\ ~WordEdge /\ phase' = "plan"
      /\ UNCHANGED <<edge, source, staged, memory, acc>>
      /\ strategy' = "bytes" /\ pending' = {} /\ code' = <<>>
  BY DEF ChooseBytes, Begin
<1>2. Legal /\ staged = <<>>
  BY <1>1 DEF EdgeInv, EdgeAt
<1>3. Planned(strategy', pending', source', staged', code') /\ staged' = <<>> /\ strategy' # "selective"
  BY <1>1, <1>2 DEF Planned, BytesPlan
<1> QED BY <1>1, <1>3, PlanOnward
-----------------------------------------------------------------------------
(* Pointer edges.                                                          *)
LEMMA LongerCode ==
  ASSUME NEW s, NEW t, IsCode(s), IsCode(t), s # <<>>
  PROVE  IsCode(s \o t) /\ s \o t # <<>>
<1>1. IsCode(s \o t) /\ Len(s \o t) = Len(s) + Len(t)
  BY Joined
<1>2. Len(s) \in Nat /\ Len(t) \in Nat /\ Len(s) # 0
  BY CodeFacts
<1>3. Len(s \o t) # 0
  BY <1>1, <1>2
<1> QED BY <1>1, <1>3, NoCode

LEMMA SmallestIn ==
  ASSUME Legal, NEW S \in SUBSET Moves, S # {}
  PROVE  Smallest(S) \in S
<1>1. S \in SUBSET Nat
  BY MoveFacts
<1>2. \E i \in S : \A j \in S : i <= j
  BY <1>1, LeastNumber
<1> QED BY <1>2 DEF Smallest

LEMMA PickReady ==
  ASSUME Legal, pending \in SUBSET Moves, Ready # {}
  PROVE  Pick \in Ready /\ Pick \in pending /\ Pick \in Moves /\ \A j \in pending : ~Blocks(j, Pick)
<1>1. Ready \in SUBSET Moves /\ Ready \ {Final} \in SUBSET Moves
  BY DEF Ready
<1>2. Smallest(Ready) \in Ready
  BY <1>1, SmallestIn
<1>3. Ready \ {Final} # {} => Smallest(Ready \ {Final}) \in Ready \ {Final}
  BY <1>1, SmallestIn
<1>4. Pick \in Ready
  BY <1>2, <1>3 DEF Pick
<1> QED BY <1>4 DEF Ready

LEMMA PointerSlotFacts ==
  ASSUME Legal
  PROVE  /\ IsPlace(Slot(1, 2)) /\ Slot(1, 2).width = 2 /\ Cells(Slot(1, 2)) \subseteq Cell
         /\ IsPlace(Slot(2, 3)) /\ Slot(2, 3).width = 3 /\ (Final >= 2 => Cells(Slot(2, 3)) \subseteq Cell)
         /\ Apart(Slot(1, 2), Slot(2, 3))
         /\ \A stg : \A s \in PointerSlots(stg) : \A c \in Cells(s) : c[1] = "stack" /\ c[2] >= pool
<1>1. IsPlace(Slot(1, 2)) /\ Slot(1, 2).width = 2 /\ Cells(Slot(1, 2)) \subseteq Cell
  <2>1. 1 \in Nat /\ 1 >= 1 /\ 2 \in 1..4 /\ 1 \in 1..Final
    BY MoveFacts
  <2> QED BY <2>1, SlotFacts
<1>2. IsPlace(Slot(2, 3)) /\ Slot(2, 3).width = 3 /\ (Final >= 2 => Cells(Slot(2, 3)) \subseteq Cell)
  <2>1. 2 \in Nat /\ 2 >= 1 /\ 3 \in 1..4 /\ (Final >= 2 => 2 \in 1..Final)
    BY MoveFacts
  <2> QED BY <2>1, SlotFacts
<1>3. Apart(Slot(1, 2), Slot(2, 3))
  <2>1. 1 \in Nat /\ 1 >= 1 /\ 2 \in Nat /\ 2 > 1 /\ 3 \in Nat /\ 2 <= SlotWidth
    BY SlotAssumption
  <2> QED BY <2>1, SlotsApart
<1>4. /\ \A c \in Cells(Slot(1, 2)) : c[1] = "stack" /\ c[2] >= pool
      /\ \A c \in Cells(Slot(2, 3)) : c[1] = "stack" /\ c[2] >= pool
  <2>1. 1 \in Nat /\ 1 >= 1 /\ 2 \in Nat /\ 2 >= 1
    OBVIOUS
  <2> QED BY <2>1, SlotInPool
<1>5. \A stg : \A s \in PointerSlots(stg) : s = Slot(1, 2) \/ s = Slot(2, 3)
  BY DEF PointerSlots
<1> QED BY <1>1, <1>2, <1>3, <1>4, <1>5

LEMMA PointerSources ==
  ASSUME Legal, NEW pend, NEW src, NEW stg, NEW cd, PointerPlan(pend, src, stg, cd), Clear(PointerSlots(stg)),
         NEW j \in pend
  PROVE  /\ j \in Moves /\ To(j).width = 3 /\ IsPlace(Physical(src[j])) /\ Physical(src[j]).width = 3
         /\ \A i \in Moves : src[j] # To(i) => Apart(Physical(src[j]), To(i))
         /\ src[j].space # "staged" => src[j] = From(j)
<1>1. j \in Moves /\ PointerEdge /\ (src[j] = From(j) \/ (src[j] = Staged(2, 3) /\ stg # <<>>))
  BY DEF PointerPlan, NotIdentity
<1>2. IsPlace(From(j)) /\ From(j).width = 3 /\ To(j).width = 3 /\ From(j).space # "result"
  BY <1>1, MoveFacts DEF PointerEdge
<1>3. CASE src[j] = From(j)
  <2>1. Physical(src[j]) = From(j)
    BY <1>1, <1>3, UnstagedPhysical
  <2>2. ASSUME NEW i \in Moves, src[j] # To(i) PROVE Apart(From(j), To(i))
    <3>1. ~Overlap(From(j), To(i))
      BY <1>1, <1>3, <2>2 DEF PointerEdge, PointerGeometry
    <3>2. Cells(To(i)) \subseteq Cell
      BY MoveFacts
    <3> QED BY <1>2, <3>1, <3>2, ConstantsApart
  <2> QED BY <1>1, <1>2, <1>3, <2>1, <2>2
<1>4. CASE src[j] = Staged(2, 3) /\ stg # <<>>
  <2>1. Physical(src[j]) = Slot(2, 3) /\ src[j].space = "staged"
    BY <1>4, UnstagedPhysical
  <2>2. Slot(2, 3) \in PointerSlots(stg)
    BY <1>4 DEF PointerSlots
  <2>3. ASSUME NEW i \in Moves PROVE Apart(Slot(2, 3), To(i))
    <3>1. 3 \in Nat /\ 3 <= 3
      OBVIOUS
    <3> QED BY <2>2, <3>1, ClearApart
  <2> QED BY <1>1, <1>2, <2>1, <2>3, PointerSlotFacts
<1> QED BY <1>1, <1>3, <1>4

LEMMA StillKeepsA ==
  ASSUME Legal, NEW x, KeepsA(x), NEW p, NEW q, IsPlace(q), Apart(Slot(1, 2), q), NEW y, y.memory = Put(x, p, q)
  PROVE  KeepsA(y)
<1> DEFINE s == Slot(1, 2)
<1>1. IsPlace(s) /\ s.width = 2 /\ Cells(s) \subseteq Cell
  BY PointerSlotFacts
<1>2. 1 \in 1..s.width /\ 2 \in 1..s.width
  BY <1>1
<1> HIDE DEF s
<1>3. At(s, 1) \in Cells(s) /\ At(s, 2) \in Cells(s)
  BY <1>1, <1>2, CellsOf
<1>4. At(s, 1) \notin Cells(q) /\ At(s, 2) \notin Cells(q)
  BY <1>3 DEF Apart, s
<1>5. y.memory[At(s, 1)] = x.memory[At(s, 1)] /\ y.memory[At(s, 2)] = x.memory[At(s, 2)]
  BY <1>1, <1>3, <1>4, PutWhere
<1> QED BY <1>5 DEF KeepsA, s

LEMMA SchedulePointer ==
  ASSUME EdgeInv, Schedule, strategy = "pointer"
  PROVE  EdgeInv'
<1> DEFINE i == Pick
           p == Physical(source[i])
           q == To(i)
           more == PointerCopy(p, q)
<1>1. /\ phase = "plan" /\ Ready # {} /\ pending' = pending \ {i} /\ code' = code \o more
      /\ UNCHANGED <<edge, strategy, source, staged, phase, memory, acc>>
  BY DEF Schedule
<1>2. Legal /\ PointerPlan(pending, source, staged, code) /\ (staged # <<>> => Deadlock(strategy))
  BY <1>1 DEF EdgeInv, EdgeAt, Planned
<1>3. PointerEdge /\ Disjoint /\ pending \in SUBSET NotIdentity /\ pending \in SUBSET Moves /\ IsCode(code)
  BY <1>2 DEF PointerPlan, PointerEdge, PointerGeometry, NotIdentity
<1>4. i \in pending /\ i \in Moves /\ \A j \in pending : source[j] # To(i)
  <2>1. Pick \in pending /\ Pick \in Moves /\ \A j \in pending : ~Blocks(j, Pick)
    BY <1>1, <1>2, <1>3, PickReady
  <2> QED BY <2>1 DEF Blocks
<1>5. code # <<>>
  BY <1>2, <1>3, <1>4 DEF PointerPlan
<1>6. IsPlace(q) /\ Cells(q) \subseteq Cell /\ q.width = 3
  BY <1>2, <1>3, <1>4, MoveFacts DEF PointerEdge
<1> HIDE DEF i
<1>7. IsCode(more)
  BY Single, PairMade, RunsExtended, RunsOne DEF PointerCopy
<1>8. IsCode(code') /\ code' # <<>>
  BY <1>1, <1>3, <1>5, <1>7, LongerCode
<1>9. ASSUME Clear(PointerSlots(staged))
      PROVE  \E y : /\ IsMachine(y) /\ Runs(code', Origin, y) /\ KeepsA(y)
                    /\ PlanAt(pending', source, PointerSlots(staged), y)
  <2>1. PICK x : IsMachine(x) /\ Runs(code, Origin, x) /\ PlanAt(pending, source, PointerSlots(staged), x) /\ KeepsA(x)
    BY <1>2, <1>5, <1>9 DEF PointerPlan
  <2>2. \A j \in pending : /\ IsPlace(Physical(source[j])) /\ Physical(source[j]).width = To(j).width
                           /\ Apart(Physical(source[j]), To(i))
    BY <1>2, <1>4, <1>9, PointerSources
  <2>3. Copyable(p, q) /\ Apart(p, q)
    BY <1>4, <1>6, <2>2 DEF Copyable
  <2>4. PICK y : y = [memory |-> Put(x, p, q), acc |-> <<ReadIn(x, At(p, 2)), ReadIn(x, At(p, 3))>>]
    OBVIOUS
  <2>5. Runs(more, x, y)
    BY <1>6, <2>3, <2>4, PointerCopied
  <2>6. y.memory = Put(x, p, q) /\ IsMachine(y)
    BY <2>4 DEF IsMachine, Put
  <2>7. Runs(code', Origin, y)
    BY <1>1, <1>3, <1>7, <2>1, <2>5, RunsJoined
  <2>8. PlanAt(pending \ {i}, source, PointerSlots(staged), y)
    BY <1>2, <1>3, <1>4, <2>1, <2>2, <2>6, MoveMade
  <2>9. KeepsA(y)
    <3>1. Slot(1, 2) \in PointerSlots(staged) /\ 2 \in Nat /\ 2 <= 2
      BY DEF PointerSlots
    <3>2. Apart(Slot(1, 2), q)
      BY <1>4, <1>9, <3>1, ClearApart
    <3> QED BY <1>2, <1>6, <2>1, <2>6, <3>2, StillKeepsA
  <2> QED BY <1>1, <2>6, <2>7, <2>8, <2>9
<1>10. PointerPlan(pending', source', staged', code')
  <2>1. pending' \in SUBSET NotIdentity /\ pending' \subseteq pending
    BY <1>1, <1>3
  <2> QED BY <1>1, <1>2, <1>8, <1>9, <2>1 DEF PointerPlan
<1>11. Planned(strategy', pending', source', staged', code')
  BY <1>1, <1>10 DEF Planned
<1> QED BY <1>1, <1>2, <1>11, PlanOnward
LEMMA DestinationsDiffer ==
  ASSUME Legal
  PROVE  /\ \A i \in Moves : Overlap(To(i), To(i))
         /\ Disjoint => \A i, j \in Moves : To(i) = To(j) => i = j
<1>1. ASSUME NEW i \in Moves PROVE Overlap(To(i), To(i))
  <2>1. IsPlace(To(i)) /\ IsHome(To(i)) /\ 1 \in 1..To(i).width
    BY MoveFacts
  <2>2. At(To(i), 1) \in Cells(To(i))
    BY <2>1, CellsOf
  <2> QED BY <2>1, <2>2 DEF Overlap
<1> QED BY <1>1 DEF Disjoint

(* Where every pending move is in another's way, each is waited for by one: *)
(* none of them reads a slot any more.                                      *)
LEMMA AllBlocked ==
  ASSUME Legal, Disjoint, NEW P \in SUBSET Moves, NEW src, \A i \in P : \E j \in P : src[j] = To(i)
  PROVE  \A j \in P : \E i \in P : src[j] = To(i)
<1> DEFINE f == [i \in P |-> CHOOSE j \in P : src[j] = To(i)]
<1>1. \A i \in P : f[i] \in P /\ src[f[i]] = To(i)
  OBVIOUS
<1>2. f \in [P -> P]
  BY <1>1
<1> HIDE DEF f
<1>3. \A i, j \in P : f[i] = f[j] => i = j
  <2> TAKE i, j \in P
  <2>1. f[i] = f[j] => To(i) = To(j)
    BY <1>1
  <2> QED BY <2>1, DestinationsDiffer
<1>4. f \in Injection(P, P)
  BY <1>2, <1>3 DEF Injection, IsInjective
<1>5. IsFiniteSet(P)
  BY MoveFacts, FS_Subset
<1>6. f \in Surjection(P, P)
  <2>1. Cardinality(P) = Cardinality(P) <=> f \in Surjection(P, P)
    BY <1>4, <1>5, FS_Injection
  <2> QED BY <2>1
<1>7. \A j \in P : \E i \in P : f[i] = j
  BY <1>6 DEF Surjection
<1> QED BY <1>1, <1>7

LEMMA CapturePointerKeeps ==
  ASSUME EdgeInv, CapturePointer
  PROVE  EdgeInv'
<1> DEFINE a == Smallest(pending)
           home == To(a)
           s == Slot(2, 3)
           more == PointerCopy(home, s)
<1>1. /\ phase = "plan" /\ strategy = "pointer" /\ pending # {} /\ Ready = {}
      /\ source' = Redirect(home, 2) /\ code' = code \o more /\ staged' = <<2, 3>>
      /\ UNCHANGED <<edge, strategy, pending, phase, memory, acc>>
  BY DEF CapturePointer
<1>2. Legal /\ PointerPlan(pending, source, staged, code)
  BY <1>1 DEF EdgeInv, EdgeAt, Planned
<1>3. /\ PointerEdge /\ Disjoint /\ pending \in SUBSET NotIdentity /\ pending \in SUBSET Moves /\ IsCode(code)
      /\ \A j \in pending : source[j] = From(j) \/ (source[j] = Staged(2, 3) /\ staged # <<>>)
  BY <1>2 DEF PointerPlan, PointerEdge, PointerGeometry, NotIdentity
<1>4. \A i \in pending : \E j \in pending : source[j] = To(i)
  BY <1>1 DEF Ready, Blocks
<1>5. \A j \in pending : \E i \in pending : source[j] = To(i)
  BY <1>2, <1>3, <1>4, AllBlocked
<1>6. ASSUME NEW j \in pending PROVE source[j] = From(j) /\ Physical(source[j]) = From(j)
  <2>1. PICK i \in pending : source[j] = To(i)
    BY <1>5
  <2>2. To(i).space # "staged"
    BY <1>2, <1>3, MoveFacts, SpacesApart DEF IsHome
  <2>3. source[j] # Staged(2, 3)
    BY <2>1, <2>2, UnstagedPhysical, <1>2
  <2> QED BY <1>2, <1>3, <2>3, UnstagedPhysical
<1>7. \A i \in pending : \E j \in pending : From(j) = To(i) /\ Overlap(From(j), To(i)) /\ j # i
  <2> TAKE i \in pending
  <2>1. PICK j \in pending : source[j] = To(i)
    BY <1>4
  <2>2. From(j) = To(i)
    BY <1>6, <2>1
  <2>3. From(i) # To(i)
    BY <1>3 DEF NotIdentity
  <2>4. Overlap(To(i), To(i))
    BY <1>2, <1>3, DestinationsDiffer
  <2> QED BY <2>2, <2>3, <2>4
<1>8. Deadlock("pointer")
  BY <1>1, <1>3, <1>7 DEF Deadlock
<1>9. Final >= 2
  <2>1. PICK i \in pending : TRUE
    BY <1>1
  <2>2. PICK j \in pending : j # i
    BY <1>7
  <2>3. Moves = 1..Final /\ Final \in Nat
    BY <1>2, MoveFacts
  <2> QED BY <1>3, <2>2, <2>3
<1>10. a \in pending /\ a \in Moves
  BY <1>1, <1>2, <1>3, SmallestIn
<1>11. IsPlace(home) /\ home.width = 3
  BY <1>2, <1>3, <1>10, MoveFacts DEF PointerEdge
<1>12. IsPlace(s) /\ s.width = 3 /\ Cells(s) \subseteq Cell
  BY <1>2, <1>9, PointerSlotFacts
<1> HIDE DEF a
<1>13. code # <<>>
  BY <1>2, <1>3, <1>10 DEF PointerPlan
<1>14. IsCode(more)
  BY Single, PairMade, RunsExtended, RunsOne DEF PointerCopy
<1>15. IsCode(code') /\ code' # <<>>
  BY <1>1, <1>3, <1>13, <1>14, LongerCode
<1>16. ASSUME NEW j \in pending
       PROVE  /\ source[j] = home => source'[j] = Staged(2, 3)
              /\ source[j] # home => source'[j] = source[j]
  BY <1>1, <1>3, <1>11 DEF Redirect
<1>17. PointerSlots(<<2, 3>>) = {Slot(1, 2), s} /\ PointerSlots(staged) \subseteq PointerSlots(<<2, 3>>)
  BY DEF PointerSlots
<1> HIDE DEF s
<1>18. ASSUME Clear(PointerSlots(<<2, 3>>))
       PROVE  \E y : /\ IsMachine(y) /\ Runs(code', Origin, y) /\ KeepsA(y)
                     /\ PlanAt(pending, source', PointerSlots(<<2, 3>>), y)
  <2>1. Clear(PointerSlots(staged))
    BY <1>17, <1>18 DEF Clear
  <2>2. PICK x : IsMachine(x) /\ Runs(code, Origin, x) /\ PlanAt(pending, source, PointerSlots(staged), x) /\ KeepsA(x)
    BY <1>2, <1>13, <2>1 DEF PointerPlan
  <2>3. \A i \in Moves : Apart(From(i), s) /\ Apart(To(i), s)
    <3>1. Slot(2, 3) \in PointerSlots(<<2, 3>>) /\ 3 \in Nat /\ 3 <= 3
      BY <1>17 DEF s
    <3> QED BY <1>18, <3>1, ClearApart DEF s
  <2>4. Copyable(home, s) /\ Apart(home, s)
    BY <1>10, <1>11, <1>12, <2>3 DEF Copyable
  <2>5. PICK y : y = [memory |-> Put(x, home, s), acc |-> <<ReadIn(x, At(home, 2)), ReadIn(x, At(home, 3))>>]
    OBVIOUS
  <2>6. Runs(more, x, y)
    BY <1>12, <2>4, <2>5, PointerCopied
  <2>7. y.memory = Put(x, home, s) /\ IsMachine(y)
    BY <2>5 DEF IsMachine, Put
  <2>8. Runs(code', Origin, y)
    BY <1>1, <1>3, <1>14, <2>2, <2>6, RunsJoined
  <2>9. ASSUME NEW j \in pending
        PROVE  \/ Physical(source[j]) = home /\ Physical(source'[j]) = s /\ To(j).width = s.width
               \/ /\ source'[j] = source[j] /\ IsPlace(Physical(source[j])) /\ Apart(Physical(source[j]), s)
                  /\ Physical(source[j]).width = To(j).width
    <3>1. j \in Moves /\ IsPlace(From(j)) /\ From(j).width = To(j).width /\ To(j).width = 3
      BY <1>2, <1>3, MoveFacts DEF PointerEdge
    <3>2. Physical(source[j]) = From(j) /\ source[j] = From(j)
      BY <1>6
    <3>3. Physical(Staged(2, 3)) = s
      BY <1>2, UnstagedPhysical DEF s
    <3> QED BY <1>12, <1>16, <2>3, <3>1, <3>2, <3>3
  <2>10. PICK src2 : src2 = source'
    OBVIOUS
  <2>11. /\ home.width = s.width /\ s \in PointerSlots(<<2, 3>>) /\ Cells(s) \subseteq Cells(s)
         /\ \A j \in Moves \ pending : Apart(To(j), s)
    BY <1>11, <1>12, <1>17, <2>3
  <2>12. PlanAt(pending, src2, PointerSlots(<<2, 3>>), y)
    <3>1. \A j \in pending : \/ Physical(source[j]) = home /\ Physical(src2[j]) = s /\ To(j).width = s.width
                             \/ /\ src2[j] = source[j] /\ IsPlace(Physical(source[j])) /\ Apart(Physical(source[j]), s)
                                /\ Physical(source[j]).width = To(j).width
      BY <2>9, <2>10
    <3> HIDE DEF home
    <3> QED BY <1>2, <1>3, <1>11, <1>12, <1>17, <2>2, <2>7, <2>11, <3>1, CaptureMade
  <2>13. KeepsA(y)
    BY <1>2, <1>12, <2>2, <2>7, PointerSlotFacts, StillKeepsA DEF s
  <2> QED BY <2>7, <2>8, <2>10, <2>12, <2>13
<1>19. PointerPlan(pending', source', staged', code')
  <2>1. \A j \in pending : source'[j] = From(j) \/ source'[j] = Staged(2, 3)
    BY <1>6, <1>16
  <2>2. <<2, 3>> # <<>>
    OBVIOUS
  <2> HIDE DEF home, more
  <2> QED BY <1>1, <1>3, <1>9, <1>15, <1>18, <2>1, <2>2 DEF PointerPlan
<1>20. Planned(strategy', pending', source', staged', code')
  BY <1>1, <1>19 DEF Planned
<1> QED BY <1>1, <1>8, <1>20, PlanOnward
LEMMA PointerRuns ==
  ASSUME EdgeInv, phase = "plan", strategy = "pointer", pending = {}, StagingClear
  PROVE  IsCode(PointerCode) /\ \E y : Runs(PointerCode, Origin, y) /\ Good(y)
<1>1. Legal /\ PointerPlan(pending, source, staged, code)
  BY DEF EdgeInv, EdgeAt, Planned
<1>2. PointerEdge /\ ~WordEdge /\ IsCode(code) /\ staged \in {<<>>, <<2, 3>>}
  <2>1. PointerEdge /\ IsCode(code) /\ staged \in {<<>>, <<2, 3>>}
    BY <1>1 DEF PointerPlan
  <2>2. To(Final).width = 3
    BY <1>1, <2>1, MoveFacts DEF PointerEdge
  <2> QED BY <1>1, <2>1, <2>2, AnswerIs
<1>3. CASE code = <<>>
  <2>1. NotIdentity = {}
    BY <1>1, <1>3 DEF PointerPlan
  <2>2. PlanAt({}, source, {}, Origin)
    <3>1. {} \in SUBSET Moves /\ NotIdentity \subseteq {} /\ \A j \in {} : source[j] = From(j)
      BY <2>1
    <3>2. /\ \A j \in Moves : Finds(Origin, From(j), j)
          /\ \A c \in Cell : (\A t \in {} : c \notin Cells(t)) => Origin.memory[c] = c
      BY <1>1, OriginFinds
    <3> QED BY <1>1, <3>1, <3>2, PlanBegins
  <2>3. Placed(Origin)
    <3>1. \A s \in {} : \A c \in Cells(s) : c[1] = "stack" /\ c[2] >= pool
      OBVIOUS
    <3> QED BY <1>1, <2>2, <3>1, AllMade
  <2>4. IsMachine(Origin) /\ Origin.acc[2] = AccHigh
    BY OriginReads DEF Origin
  <2>5. Good(After(Origin, LastByte))
    BY <1>1, <1>2, <2>3, <2>4, LastByteLoads
  <2>6. PointerCode = <<LastByte>>
    BY <1>3 DEF PointerCode
  <2> QED BY <2>5, <2>6, Single, RunsOne
<1>4. CASE code # <<>>
  <2> DEFINE s == Slot(1, 2)
             load == Load(Bytes(s))
  <2>1. SlotsUsed = PointerSlots(staged)
    <3>1. SlotsUsed = {Slot(k, k + 1) : k \in IF staged = <<>> THEN {1} ELSE {1, 2}}
      BY <1>4 DEF SlotsUsed
    <3>2. {Slot(k, k + 1) : k \in {1}} = {Slot(1, 2)} /\ {Slot(k, k + 1) : k \in {1, 2}} = {Slot(1, 2), Slot(2, 3)}
      <4>1. 1 + 1 = 2 /\ 2 + 1 = 3
        OBVIOUS
      <4> QED BY <4>1
    <3> QED BY <3>1, <3>2 DEF PointerSlots
  <2>2. Clear(PointerSlots(staged))
    BY <2>1 DEF StagingClear, Clear
  <2>3. PICK x : IsMachine(x) /\ Runs(code, Origin, x) /\ PlanAt({}, source, PointerSlots(staged), x) /\ KeepsA(x)
    BY <1>1, <1>4, <2>2 DEF PointerPlan
  <2>4. Placed(x)
    BY <1>1, <2>3, AllMade, PointerSlotFacts
  <2>5. IsPlace(s) /\ s.width = 2 /\ Cells(s) \subseteq Cell
    BY <1>1, PointerSlotFacts
  <2>6. x.memory[At(s, 1)] = AccLow /\ x.memory[At(s, 2)] = AccHigh
    BY <2>3 DEF KeepsA
  <2> HIDE DEF s
  <2>7. PICK y : y = After(x, load)
    OBVIOUS
  <2>8. IsMachine(y) /\ y.memory = x.memory /\ y.acc = <<x.memory[At(s, 1)], x.memory[At(s, 2)]>>
    BY <2>3, <2>5, <2>7, TakeA
  <2>9. Placed(y) /\ y.acc[2] = AccHigh
    BY <2>4, <2>6, <2>8 DEF Placed
  <2>10. Good(After(y, LastByte))
    BY <1>1, <1>2, <2>8, <2>9, LastByteLoads
  <2>11. Runs(<<load>>, x, y) /\ IsCode(<<load>>)
    BY <2>7, Single, RunsOne
  <2>12. IsCode(<<load, LastByte>>) /\ Runs(<<load, LastByte>>, x, After(y, LastByte))
    <3>1. IsCode(Append(<<load>>, LastByte)) /\ Runs(Append(<<load>>, LastByte), x, After(y, LastByte))
      BY <2>11, RunsExtended
    <3>2. Append(<<load>>, LastByte) = <<load, LastByte>>
      BY PairMade
    <3> QED BY <3>1, <3>2
  <2>13. IsCode(code \o <<load, LastByte>>) /\ Runs(code \o <<load, LastByte>>, Origin, After(y, LastByte))
    <3>1. IsCode(code \o <<load, LastByte>>)
      BY <1>2, <2>12, Joined
    <3>2. Runs(code \o <<load, LastByte>>, Origin, After(y, LastByte))
      BY <1>2, <2>3, <2>12, RunsJoined
    <3> QED BY <3>1, <3>2
  <2>14. PointerCode = code \o <<load, LastByte>>
    BY <1>4 DEF PointerCode, s
  <2> QED BY <2>10, <2>13, <2>14
<1> QED BY <1>3, <1>4

-----------------------------------------------------------------------------
(* A pool that is not clear of the homes is not well allocated.            *)
LEMMA SlotNotClear ==
  ASSUME Legal, NEW k \in Nat, k >= 1, NEW w, NEW i \in Moves,
         Overlap(Slot(k, w), From(i)) \/ Overlap(Slot(k, w), To(i))
  PROVE  ~WellAllocated
<1>1. PICK c \in Cells(Slot(k, w)) : c \in Cells(From(i)) \cup Cells(To(i))
  BY DEF Overlap
<1>2. c[1] = "stack" /\ c[2] >= pool
  BY <1>1, SlotInPool
<1>3. c \in Cell
  <2>1. IsPlace(From(i)) /\ (IsHome(From(i)) => Cells(From(i)) \subseteq Cell) /\ Cells(To(i)) \subseteq Cell
    BY MoveFacts
  <2>2. c \in Cells(From(i)) => IsHome(From(i))
    BY <1>2, <2>1, HomeCells DEF IsHome
  <2> QED BY <1>1, <2>1, <2>2
<1>4. c \in PoolCells
  BY <1>2, <1>3 DEF PoolCells
<1> QED BY <1>1, <1>4 DEF WellAllocated

LEMMA RankIs ==
  ASSUME Legal, Captured \in SUBSET Moves, NEW i \in Captured
  PROVE  /\ Rank(i) \in 1..Cardinality(Captured) /\ InOrder(Captured)[Rank(i)] = i
         /\ Rank(i) \in Nat /\ Rank(i) >= 1 /\ Rank(i) \in 1..Final
<1>1. /\ Cardinality(Captured) \in Nat /\ Cardinality(Captured) <= Final
      /\ InOrder(Captured) \in [1..Cardinality(Captured) -> Captured] /\ Increasing(InOrder(Captured), Cardinality(Captured))
      /\ \A j \in Captured : \E k \in 1..Cardinality(Captured) : InOrder(Captured)[k] = j
      /\ \A j, k \in 1..Cardinality(Captured) : InOrder(Captured)[j] = InOrder(Captured)[k] => j = k
  BY OrderOf
<1>2. DOMAIN InOrder(Captured) = 1..Cardinality(Captured)
  BY <1>1
<1>3. \E k \in DOMAIN InOrder(Captured) : InOrder(Captured)[k] = i
  BY <1>1, <1>2
<1>4. Rank(i) \in DOMAIN InOrder(Captured) /\ InOrder(Captured)[Rank(i)] = i
  BY <1>3 DEF Rank
<1>5. Final \in Nat
  BY MoveFacts
<1> QED BY <1>1, <1>2, <1>4, <1>5

LEMMA CapturedMoves ==
  Captured \in SUBSET Moves /\ (strategy \notin {"complete", "selective"} => Captured = {})
  BY DEF Captured

LEMMA NotClear ==
  ASSUME EdgeInv, phase = "plan", ~StagingClear
  PROVE  ~WellAllocated
<1>1. Legal /\ Planned(strategy, pending, source, staged, code)
  BY DEF EdgeInv, EdgeAt
<1>2. PICK slot \in SlotsUsed, i \in Moves : Overlap(slot, From(i)) \/ Overlap(slot, To(i))
  BY DEF StagingClear
<1>3. \E k \in Nat, w \in Int : k >= 1 /\ slot = Slot(k, w)
  <2>1. CASE strategy = "pointer"
    <3>1. \E k \in {1, 2} : slot = Slot(k, k + 1)
      BY <1>2, <2>1 DEF SlotsUsed
    <3> QED BY <3>1
  <2>2. CASE strategy = "mixed"
    <3>1. DOMAIN staged = 1..Len(staged) /\ Len(staged) \in Nat
      <4>1. IsCode(staged)
        BY <1>1, <2>2 DEF Planned, MixedPlan
      <4> QED BY <4>1, CodeFacts
    <3>2. \E k \in DOMAIN staged : slot = Slot(k, SlotWidth)
      BY <1>2, <2>2 DEF SlotsUsed
    <3> QED BY <3>1, <3>2, SlotAssumption
  <2>3. CASE strategy = "bytes"
    <3>1. \E k \in Moves : slot = Slot(k, To(k).width)
      BY <1>2, <2>3 DEF SlotsUsed
    <3> QED BY <1>1, <3>1, MoveFacts
  <2>4. CASE strategy \notin {"pointer", "mixed", "bytes"}
    <3>1. \E k \in Captured : slot = Slot(Rank(k), 2)
      BY <1>2, <2>4 DEF SlotsUsed
    <3> QED BY <1>1, <3>1, RankIs, CapturedMoves
  <2> QED BY <2>1, <2>2, <2>3, <2>4
<1>4. PICK k \in Nat, w \in Int : k >= 1 /\ slot = Slot(k, w)
  BY <1>3
<1> QED BY <1>1, <1>2, <1>4, SlotNotClear
-----------------------------------------------------------------------------
(* Mixed edges.                                                            *)
LEMMA ClearMixed ==
  ASSUME Legal, NEW stg, Clear(MixedSlots(stg)), NEW k \in 1..Len(stg), NEW v \in 1..4, NEW i \in Moves
  PROVE  /\ Apart(Slot(k, v), From(i)) /\ Apart(Slot(k, v), To(i))
         /\ Apart(From(i), Slot(k, v)) /\ Apart(To(i), Slot(k, v))
<1>1. Slot(k, SlotWidth) \in MixedSlots(stg)
  BY DEF MixedSlots
<1>2. SlotWidth \in Nat /\ v \in Nat /\ v <= SlotWidth
  BY SlotAssumption
<1> QED BY <1>1, <1>2, ClearApart

LEMMA MixedSources ==
  ASSUME Legal, NEW pend, NEW src, NEW stg, NEW cd, MixedPlan(pend, src, stg, cd), Clear(MixedSlots(stg)),
         NEW j \in pend
  PROVE  /\ j \in Moves /\ IsPlace(Physical(src[j])) /\ Physical(src[j]).width = To(j).width
         /\ \A i \in Moves : ~Overlap(src[j], To(i)) => Apart(Physical(src[j]), To(i))
<1>1. j \in Moves /\ IsCode(stg) /\ (src[j] = From(j) \/ \E k \in 1..Len(stg) : src[j] = Staged(k, To(j).width))
  BY DEF MixedPlan, NotIdentity
<1>2. IsPlace(From(j)) /\ From(j).width = To(j).width /\ From(j).space # "result" /\ To(j).width \in 1..4
  BY <1>1, MoveFacts
<1>3. CASE src[j] = From(j)
  <2>1. Physical(src[j]) = From(j)
    BY <1>1, <1>3, UnstagedPhysical
  <2>2. ASSUME NEW i \in Moves, ~Overlap(src[j], To(i)) PROVE Apart(From(j), To(i))
    <3>1. Cells(To(i)) \subseteq Cell
      BY MoveFacts
    <3> QED BY <1>2, <1>3, <2>2, <3>1, ConstantsApart
  <2> QED BY <1>1, <1>2, <2>1, <2>2
<1>4. CASE \E k \in 1..Len(stg) : src[j] = Staged(k, To(j).width)
  <2>1. PICK k \in 1..Len(stg) : src[j] = Staged(k, To(j).width)
    BY <1>4
  <2>2. Physical(src[j]) = Slot(k, To(j).width)
    BY <2>1, UnstagedPhysical
  <2>3. \A i \in Moves : Apart(Slot(k, To(j).width), To(i))
    BY <1>2, ClearMixed
  <2>4. IsPlace(Slot(k, To(j).width)) /\ Slot(k, To(j).width).width = To(j).width
    <3>1. k \in Nat /\ k >= 1
      BY <1>1, CodeFacts
    <3> QED BY <1>2, <3>1, SlotFacts
  <2> QED BY <1>1, <2>2, <2>3, <2>4
<1> QED BY <1>1, <1>3, <1>4

LEMMA ByteCode ==
  ASSUME NEW p, NEW q, IsPlace(q)
  PROVE  IsCode(ByteCopy(p, q))
<1>1. q.width \in Nat
  BY DEF IsPlace
<1>2. ByteCopy(p, q) = [k \in 1..q.width |-> ByteCopy(p, q)[k]]
  BY DEF ByteCopy
<1> QED BY <1>1, <1>2, CodeMade

LEMMA ScheduleMixed ==
  ASSUME EdgeInv, Schedule, strategy = "mixed"
  PROVE  EdgeInv'
<1> DEFINE i == Pick
           p == Physical(source[i])
           q == To(i)
           more == ByteCopy(p, q)
<1>1. /\ phase = "plan" /\ Ready # {} /\ pending' = pending \ {i} /\ code' = code \o more
      /\ UNCHANGED <<edge, strategy, source, staged, phase, memory, acc>>
  BY DEF Schedule
<1>2. Legal /\ MixedPlan(pending, source, staged, code) /\ (staged # <<>> => Deadlock(strategy))
  BY <1>1 DEF EdgeInv, EdgeAt, Planned
<1>3. Disjoint /\ pending \in SUBSET NotIdentity /\ pending \in SUBSET Moves /\ IsCode(code)
  BY <1>2 DEF MixedPlan, NotIdentity
<1>4. i \in pending /\ i \in Moves /\ \A j \in pending : ~Overlap(source[j], To(i))
  <2>1. Pick \in pending /\ Pick \in Moves /\ \A j \in pending : ~Blocks(j, Pick)
    BY <1>1, <1>2, <1>3, PickReady
  <2> QED BY <2>1 DEF Blocks
<1>5. IsPlace(q) /\ Cells(q) \subseteq Cell
  BY <1>2, <1>4, MoveFacts
<1> HIDE DEF i
<1>6. IsCode(more)
  BY <1>5, ByteCode
<1>7. IsCode(code')
  BY <1>1, <1>3, <1>6, Joined
<1>8. ASSUME Clear(MixedSlots(staged))
      PROVE  \E y : /\ IsMachine(y) /\ Runs(code', Origin, y) /\ y.acc[2] = AccHigh
                    /\ PlanAt(pending', source, MixedSlots(staged), y)
  <2>1. PICK x : IsMachine(x) /\ Runs(code, Origin, x) /\ PlanAt(pending, source, MixedSlots(staged), x) /\ x.acc[2] = AccHigh
    BY <1>2, <1>8 DEF MixedPlan
  <2>2. \A j \in pending : /\ IsPlace(Physical(source[j])) /\ Physical(source[j]).width = To(j).width
                           /\ Apart(Physical(source[j]), To(i))
    BY <1>2, <1>4, <1>8, MixedSources
  <2>3. Copyable(p, q) /\ Apart(p, q)
    BY <1>4, <1>5, <2>2 DEF Copyable
  <2>4. PICK y : y = [memory |-> Put(x, p, q), acc |-> <<ReadIn(x, At(p, q.width)), x.acc[2]>>]
    OBVIOUS
  <2>5. Runs(more, x, y)
    BY <2>1, <2>3, <2>4, ByteCopied
  <2>6. y.memory = Put(x, p, q) /\ IsMachine(y) /\ y.acc[2] = AccHigh
    BY <2>1, <2>4 DEF IsMachine, Put
  <2>7. Runs(code', Origin, y)
    BY <1>1, <1>3, <1>6, <2>1, <2>5, RunsJoined
  <2>8. PlanAt(pending \ {i}, source, MixedSlots(staged), y)
    BY <1>2, <1>3, <1>4, <2>1, <2>2, <2>6, MoveMade
  <2> QED BY <1>1, <2>6, <2>7, <2>8
<1>9. MixedPlan(pending', source', staged', code')
  <2>1. pending' \in SUBSET NotIdentity
    BY <1>1, <1>3
  <2> QED BY <1>1, <1>2, <1>7, <1>8, <2>1 DEF MixedPlan
<1>10. Planned(strategy', pending', source', staged', code')
  BY <1>1, <1>9 DEF Planned
<1> QED BY <1>1, <1>2, <1>10, PlanOnward

LEMMA MixedRuns ==
  ASSUME EdgeInv, phase = "plan", strategy = "mixed", pending = {}, StagingClear
  PROVE  IsCode(Append(code, LastByte)) /\ \E y : Runs(Append(code, LastByte), Origin, y) /\ Good(y)
<1>1. Legal /\ MixedPlan(pending, source, staged, code)
  BY DEF EdgeInv, EdgeAt, Planned
<1>2. ~WordEdge /\ IsCode(code) /\ IsCode(staged)
  BY <1>1 DEF MixedPlan
<1>3. SlotsUsed = MixedSlots(staged)
  <2>1. DOMAIN staged = 1..Len(staged)
    BY <1>2, CodeFacts
  <2> QED BY <2>1 DEF SlotsUsed, MixedSlots
<1>4. Clear(MixedSlots(staged))
  BY <1>3 DEF StagingClear, Clear
<1>5. PICK x : IsMachine(x) /\ Runs(code, Origin, x) /\ PlanAt({}, source, MixedSlots(staged), x) /\ x.acc[2] = AccHigh
  BY <1>1, <1>4 DEF MixedPlan
<1>6. Placed(x)
  <2>1. ASSUME NEW s \in MixedSlots(staged) PROVE \A c \in Cells(s) : c[1] = "stack" /\ c[2] >= pool
    <3>1. PICK k \in 1..Len(staged) : s = Slot(k, SlotWidth)
      BY DEF MixedSlots
    <3>2. k \in Nat /\ k >= 1
      BY <1>2, CodeFacts
    <3> QED BY <1>1, <3>1, <3>2, SlotInPool
  <2> QED BY <1>1, <1>5, <2>1, AllMade
<1>7. Good(After(x, LastByte))
  BY <1>1, <1>2, <1>5, <1>6, LastByteLoads
<1>8. IsCode(Append(code, LastByte)) /\ Runs(Append(code, LastByte), Origin, After(x, LastByte))
  BY <1>2, <1>5, RunsExtended
<1> QED BY <1>7, <1>8
(* Every slot in use was made for a move that no longer reads a home.      *)
LEMMA SlotsLeft ==
  ASSUME Legal, NEW pend, NEW src, NEW stg, NEW cd, MixedPlan(pend, src, stg, cd),
         NEW b \in Moves, src[b].space # "staged"
  PROVE  Len(stg) + 1 \in 1..Final
<1>1. /\ IsCode(stg) /\ Len(stg) \in Nat
      /\ \A k \in 1..Len(stg) : \E j \in Moves : src[j].space = "staged" /\ src[j].at = k
  BY CodeFacts DEF MixedPlan
<1>2. Final \in Nat /\ Final >= 1 /\ IsFiniteSet(Moves) /\ Cardinality(Moves) = Final
  BY MoveFacts
<1> DEFINE n == Len(stg)
           g == [k \in 1..n |-> CHOOSE j \in Moves : src[j].space = "staged" /\ src[j].at = k]
<1>3. \A k \in 1..n : g[k] \in Moves /\ src[g[k]].space = "staged" /\ src[g[k]].at = k
  BY <1>1
<1>4. g \in [1..n -> Moves \ {b}]
  BY <1>3
<1> HIDE DEF g
<1>5. g \in Injection(1..n, Moves \ {b})
  BY <1>3, <1>4 DEF Injection, IsInjective
<1>6. IsFiniteSet(Moves \ {b}) /\ Cardinality(Moves \ {b}) = Final - 1
  BY <1>2, FS_RemoveElement
<1>7. Cardinality(1..n) <= Cardinality(Moves \ {b})
  BY <1>5, <1>6, FS_Injection
<1>8. Cardinality(1..n) = n
  BY <1>1, FS_Interval, SMTT(60)
<1> QED BY <1>1, <1>2, <1>6, <1>7, <1>8

LEMMA CaptureMixedKeeps ==
  ASSUME EdgeInv, CaptureMixed
  PROVE  EdgeInv'
<1> DEFINE homes0 == {i \in pending : IsHome(source[i])}
           b == Smallest(homes0)
           home == source[b]
           k == Len(staged) + 1
           s == Slot(k, home.width)
           more == ByteCopy(home, s)
<1>1. phase = "plan" /\ strategy = "mixed" /\ pending # {} /\ Ready = {}
      /\ UNCHANGED <<edge, strategy, pending, memory, acc>>
  BY DEF CaptureMixed
<1>2. Legal /\ MixedPlan(pending, source, staged, code) /\ (staged # <<>> => Deadlock(strategy))
  BY <1>1 DEF EdgeInv, EdgeAt, Planned
<1>3. /\ Disjoint /\ ~WordEdge /\ pending \in SUBSET NotIdentity /\ pending \in SUBSET Moves
      /\ IsCode(code) /\ IsCode(staged)
      /\ \A j \in Moves : source[j] = From(j) \/ \E a \in 1..Len(staged) : source[j] = Staged(a, To(j).width)
      /\ \A a \in 1..Len(staged) : \E j \in Moves : source[j].space = "staged" /\ source[j].at = a
  BY <1>2 DEF MixedPlan, NotIdentity
<1>4. \A i \in pending : \E j \in pending : Overlap(source[j], To(i))
  BY <1>1 DEF Ready, Blocks
<1>5. homes0 # {}
  <2>1. PICK i \in pending : TRUE
    BY <1>1
  <2>2. PICK j \in pending : Overlap(source[j], To(i))
    BY <1>4
  <2> QED BY <2>2 DEF Overlap
<1>6. b \in pending /\ b \in Moves /\ IsHome(home)
  <2>1. homes0 \in SUBSET Moves
    BY <1>3
  <2>2. b \in homes0
    <3> HIDE DEF homes0
    <3> QED BY <1>2, <1>5, <2>1, SmallestIn
  <2> QED BY <1>3, <2>2
<1>7. /\ phase' = phase /\ source' = Redirect(home, k) /\ code' = code \o more
      /\ staged' = Append(staged, home.width)
  BY <1>5 DEF CaptureMixed
<1> HIDE DEF homes0, b
<1>8. ASSUME NEW j \in Moves, IsHome(source[j])
      PROVE  source[j] = From(j) /\ source[j].space # "staged" /\ source[j].width = To(j).width
             /\ Physical(source[j]) = From(j)
  <2>1. source[j].space \in {"stack", "dp"}
    BY <1>8 DEF IsHome
  <2>2. source[j].space # "staged"
    BY <2>1, SpacesApart
  <2>3. source[j] = From(j)
    BY <1>2, <1>3, <2>2, UnstagedPhysical
  <2> QED BY <1>2, <2>2, <2>3, MoveFacts, UnstagedPhysical
<1>9. home = From(b) /\ home.width = To(b).width /\ home.space # "staged"
  BY <1>6, <1>8
<1>10. IsPlace(home) /\ home.width \in 1..4
  BY <1>2, <1>6, <1>9, MoveFacts
<1>11. k \in 1..Final /\ k \in Nat /\ k >= 1 /\ Len(staged) \in Nat
  <2>1. Len(staged) + 1 \in 1..Final
    BY <1>2, <1>6, <1>9, SlotsLeft
  <2> QED BY <1>3, <2>1, CodeFacts
<1>12. IsPlace(s) /\ s.width = home.width /\ Cells(s) \subseteq Cell
  BY <1>2, <1>10, <1>11, SlotFacts
<1>13. IsCode(staged') /\ Len(staged') = k
  <2>1. IsCode(<<home.width>>) /\ Len(<<home.width>>) = 1
    BY Single
  <2>2. IsCode(staged \o <<home.width>>) /\ Len(staged \o <<home.width>>) = Len(staged) + Len(<<home.width>>)
    BY <1>3, <2>1, Joined
  <2>3. staged' = staged \o <<home.width>>
    BY <1>3, <1>7, AppendJoins
  <2> QED BY <2>1, <2>2, <2>3
<1>14. IsCode(more) /\ IsCode(code')
  <2>1. IsCode(more)
    BY <1>12, ByteCode
  <2> QED BY <1>3, <1>7, <2>1, Joined
<1> HIDE DEF home, k
<1>15. ASSUME NEW j \in Moves
       PROVE  /\ j \in pending /\ source[j] = home => source'[j] = Staged(k, home.width)
              /\ ~(j \in pending /\ source[j] = home) => source'[j] = source[j]
  BY <1>7 DEF Redirect
<1>16. Deadlock("mixed")
  <2>1. CASE staged # <<>>
    BY <1>1, <1>2, <2>1
  <2>2. CASE staged = <<>>
    <3>1. \A j \in pending : source[j] = From(j)
      <4>1. Len(staged) = 0
        BY <2>2, NoCode
      <4> QED BY <1>3, <4>1
    <3>2. \A i \in pending : \E j \in pending : Overlap(From(j), To(i))
      BY <1>4, <3>1
    <3> QED BY <1>1, <1>3, <3>2 DEF Deadlock
  <2> QED BY <2>1, <2>2
<1>17. ASSUME NEW j \in Moves
       PROVE  source'[j] = From(j) \/ \E a \in 1..k : source'[j] = Staged(a, To(j).width)
  <2>1. CASE j \in pending /\ source[j] = home
    <3>1. IsHome(source[j])
      BY <1>6, <2>1 DEF home
    <3>2. home.width = To(j).width
      BY <1>8, <2>1, <3>1
    <3>3. k \in 1..k
      BY <1>11
    <3> QED BY <1>15, <2>1, <3>2, <3>3
  <2>2. CASE ~(j \in pending /\ source[j] = home)
    <3>1. \A a \in 1..Len(staged) : a \in 1..k
      BY <1>11 DEF k
    <3> QED BY <1>3, <1>15, <2>2, <3>1
  <2> QED BY <2>1, <2>2
<1>18. ASSUME NEW a \in 1..k PROVE \E j \in Moves : source'[j].space = "staged" /\ source'[j].at = a
  <2>1. CASE a = k
    <3>1. source'[b] = Staged(k, home.width)
      BY <1>6, <1>15 DEF home
    <3>2. Staged(k, home.width).space = "staged" /\ Staged(k, home.width).at = k
      BY <1>2, UnstagedPhysical
    <3> QED BY <1>6, <2>1, <3>1, <3>2
  <2>2. CASE a # k
    <3>1. a \in 1..Len(staged)
      BY <1>11, <2>2 DEF k
    <3>2. PICK j \in Moves : source[j].space = "staged" /\ source[j].at = a
      BY <1>3, <3>1
    <3>3. source[j] # home
      BY <1>9, <3>2
    <3> QED BY <1>15, <3>2, <3>3
  <2> QED BY <2>1, <2>2
<1>19. MixedSlots(staged') = {Slot(a, SlotWidth) : a \in 1..k} /\ MixedSlots(staged) \subseteq MixedSlots(staged')
  <2>1. \A a \in 1..Len(staged) : a \in 1..k
    BY <1>11 DEF k
  <2>2. PICK stg2 : stg2 = staged'
    OBVIOUS
  <2>3. MixedSlots(stg2) = {Slot(a, SlotWidth) : a \in 1..k}
    BY <1>13, <2>2 DEF MixedSlots
  <2>4. MixedSlots(staged) \subseteq MixedSlots(stg2)
    BY <2>1, <2>3 DEF MixedSlots
  <2> QED BY <2>2, <2>3, <2>4
<1> DEFINE slots2 == MixedSlots(staged')
<1> HIDE DEF s
<1>20. ASSUME Clear(slots2)
       PROVE  \E y : /\ IsMachine(y) /\ Runs(code', Origin, y) /\ y.acc[2] = AccHigh
                     /\ PlanAt(pending, source', slots2, y)
  <2>1. Clear(MixedSlots(staged))
    BY <1>19, <1>20 DEF Clear
  <2>2. PICK x : IsMachine(x) /\ Runs(code, Origin, x) /\ PlanAt(pending, source, MixedSlots(staged), x) /\ x.acc[2] = AccHigh
    BY <1>2, <2>1 DEF MixedPlan
  <2>3. \A i \in Moves : Apart(From(i), s) /\ Apart(To(i), s)
    <3>1. k \in 1..Len(staged')
      BY <1>11, <1>13
    <3>2. PICK stg2 : stg2 = staged'
      OBVIOUS
    <3>3. Clear(MixedSlots(stg2)) /\ k \in 1..Len(stg2)
      BY <1>20, <3>1, <3>2
    <3>4. \A i \in Moves : Apart(From(i), Slot(k, home.width)) /\ Apart(To(i), Slot(k, home.width))
      BY <1>2, <1>10, <3>3, ClearMixed
    <3> QED BY <3>4 DEF s
  <2>4. Copyable(home, s) /\ Apart(home, s)
    BY <1>6, <1>9, <1>10, <1>12, <2>3 DEF Copyable
  <2>5. PICK y : y = [memory |-> Put(x, home, s), acc |-> <<ReadIn(x, At(home, s.width)), x.acc[2]>>]
    OBVIOUS
  <2>6. Runs(more, x, y)
    BY <2>2, <2>4, <2>5, ByteCopied
  <2>7. y.memory = Put(x, home, s) /\ IsMachine(y) /\ y.acc[2] = AccHigh
    BY <2>2, <2>5 DEF IsMachine, Put
  <2>8. Runs(code', Origin, y)
    BY <1>3, <1>7, <1>14, <2>2, <2>6, RunsJoined
  <2>9. PICK src2, more2 : src2 = source' /\ more2 = slots2
    OBVIOUS
  <2>10. ASSUME NEW j \in pending
         PROVE  \/ Physical(source[j]) = home /\ Physical(src2[j]) = s /\ To(j).width = s.width
                \/ /\ src2[j] = source[j] /\ IsPlace(Physical(source[j])) /\ Apart(Physical(source[j]), s)
                   /\ Physical(source[j]).width = To(j).width
    <3>1. j \in Moves /\ IsPlace(Physical(source[j])) /\ Physical(source[j]).width = To(j).width
      BY <1>2, <2>1, MixedSources
    <3>2. CASE source[j] = home
      <4>1. IsHome(source[j])
        BY <1>6, <3>2 DEF home
      <4>2. Physical(source[j]) = home /\ home.width = To(j).width
        BY <1>8, <3>1, <3>2, <4>1
      <4>3. src2[j] = Staged(k, home.width)
        BY <1>15, <2>9, <3>1, <3>2
      <4>4. Physical(src2[j]) = s
        BY <1>2, <4>3, UnstagedPhysical DEF s
      <4> QED BY <1>12, <4>2, <4>4
    <3>3. CASE source[j] # home
      <4>1. src2[j] = source[j]
        BY <1>15, <2>9, <3>1, <3>3
      <4>2. CASE source[j] = From(j)
        <5>1. Physical(source[j]) = From(j)
          BY <1>2, <3>1, <4>2, UnstagedPhysical
        <5> QED BY <2>3, <3>1, <4>1, <5>1
      <4>3. CASE \E a \in 1..Len(staged) : source[j] = Staged(a, To(j).width)
        <5>1. PICK a \in 1..Len(staged) : source[j] = Staged(a, To(j).width)
          BY <4>3
        <5>2. Physical(source[j]) = Slot(a, To(j).width)
          BY <1>2, <5>1, UnstagedPhysical
        <5>3. /\ a \in Nat /\ a >= 1 /\ k > a /\ To(j).width \in Nat /\ home.width \in Nat
              /\ To(j).width <= SlotWidth
          <6>1. To(j).width \in 1..4
            BY <1>2, <3>1, MoveFacts
          <6> QED BY <1>10, <1>11, <6>1, SlotAssumption DEF k
        <5>4. Apart(Slot(a, To(j).width), s)
          BY <1>2, <1>11, <5>3, SlotsApart DEF s
        <5> QED BY <3>1, <4>1, <5>2, <5>4
      <4> QED BY <1>3, <3>1, <4>2, <4>3
    <3> QED BY <3>2, <3>3
  <2>11. /\ home.width = s.width /\ MixedSlots(staged) \subseteq more2
         /\ Slot(k, SlotWidth) \in more2 /\ Cells(s) \subseteq Cells(Slot(k, SlotWidth))
         /\ \A j \in Moves \ pending : Apart(To(j), s)
    <3>1. k \in 1..k
      BY <1>11
    <3>2. home.width \in Nat /\ SlotWidth \in Nat /\ home.width <= SlotWidth
      BY <1>10, SlotAssumption
    <3>3. Cells(s) \subseteq Cells(Slot(k, SlotWidth))
      BY <3>2, SmallerSlot DEF s
    <3> QED BY <1>12, <1>19, <2>3, <2>9, <3>1, <3>3
  <2>12. PlanAt(pending, src2, more2, y)
    <3>1. PICK t \in more2 : t = Slot(k, SlotWidth)
      BY <2>11
    <3>2. Cells(s) \subseteq Cells(t)
      BY <2>11, <3>1
    <3> QED BY <1>2, <1>3, <1>10, <1>12, <2>2, <2>7, <2>10, <2>11, <3>2, CaptureMade
  <2> QED BY <2>7, <2>8, <2>9, <2>12
<1>21. MixedPlan(pending', source', staged', code')
  <2>1. PICK pend2, src2, stg2, cd2 : pend2 = pending' /\ src2 = source' /\ stg2 = staged' /\ cd2 = code'
    OBVIOUS
  <2>2. \A j \in Moves : src2[j] = From(j) \/ \E a \in 1..Len(stg2) : src2[j] = Staged(a, To(j).width)
    BY <1>13, <1>17, <2>1
  <2>3. \A a \in 1..Len(stg2) : \E j \in Moves : src2[j].space = "staged" /\ src2[j].at = a
    BY <1>13, <1>18, <2>1
  <2>4. Clear(MixedSlots(stg2)) =>
          \E y : IsMachine(y) /\ Runs(cd2, Origin, y) /\ PlanAt(pend2, src2, MixedSlots(stg2), y) /\ y.acc[2] = AccHigh
    BY <1>1, <1>20, <2>1
  <2>5. MixedPlan(pend2, src2, stg2, cd2)
    BY <1>1, <1>3, <1>13, <1>14, <2>1, <2>2, <2>3, <2>4 DEF MixedPlan
  <2> QED BY <2>1, <2>5
<1>22. Planned(strategy', pending', source', staged', code')
  BY <1>1, <1>21 DEF Planned
<1> QED BY <1>1, <1>7, <1>16, <1>22, PlanOnward
-----------------------------------------------------------------------------
(* Edges of words that some order of plain moves gets right.               *)
LEMMA WordFacts ==
  ASSUME Legal, WordEdge, NEW i \in Moves
  PROVE  /\ Copyable(From(i), To(i)) /\ To(i).width = 2 /\ From(i).width = 2
         /\ Cells(To(i)) \subseteq Cell /\ IsPlace(From(i)) /\ IsPlace(To(i))
         /\ From(i).space # "result" /\ To(i).space # "result"
  BY MoveFacts DEF WordEdge, Copyable

LEMMA DirectDisjoint ==
  ASSUME Legal, Final = 1 \/ WholeWords
  PROVE  Disjoint
<1>1. CASE WholeWords
  BY <1>1 DEF WholeWords, PointerGeometry
<1>2. CASE Final = 1
  <2>1. Moves = 1..1
    BY <1>2, MoveFacts
  <2> QED BY <2>1 DEF Disjoint
<1> QED BY <1>1, <1>2

LEMMA ScheduleDirect ==
  ASSUME EdgeInv, Schedule, strategy = "direct"
  PROVE  EdgeInv'
<1> DEFINE i == Pick
           p == From(i)
           q == To(i)
           more == IF i \in NotIdentity THEN WordCopy(p, q) ELSE <<>>
<1>1. /\ phase = "plan" /\ Ready # {} /\ pending' = pending \ {i} /\ code' = code \o more
      /\ UNCHANGED <<edge, strategy, source, staged, phase, memory, acc>>
  BY DEF Schedule
<1>2. Legal /\ DirectPlan(pending, source, staged, code)
  BY <1>1 DEF EdgeInv, EdgeAt, Planned
<1>3. /\ WordEdge /\ Disjoint /\ pending \in SUBSET Moves /\ IsCode(code) /\ staged = <<>>
      /\ \A j \in Moves : source[j] = From(j)
  BY <1>2, DirectDisjoint DEF DirectPlan
<1>4. i \in pending /\ i \in Moves /\ \A j \in pending \ {i} : ~Overlap(From(j), To(i))
  <2>1. Pick \in pending /\ Pick \in Moves /\ \A j \in pending : ~Blocks(j, Pick)
    BY <1>1, <1>2, <1>3, PickReady
  <2> QED BY <1>3, <2>1 DEF Blocks
<1> HIDE DEF i
<1>5. Copyable(p, q) /\ q.width = 2 /\ Cells(q) \subseteq Cell /\ IsPlace(p) /\ IsPlace(q)
  BY <1>2, <1>3, <1>4, WordFacts
<1>6. IsCode(more)
  BY Single, NoCode DEF WordCopy
<1>7. IsCode(code')
  BY <1>1, <1>3, <1>6, Joined
<1>8. PICK x : IsMachine(x) /\ Runs(code, Origin, x) /\ PlanAt(pending, source, {}, x)
  BY <1>2 DEF DirectPlan
<1>9. \E y : IsMachine(y) /\ Runs(more, x, y) /\ y.memory = Put(x, p, q)
  <2>1. CASE i \in NotIdentity
    <3>1. PICK y : y = After(x, WordAt(p, q, 1))
      OBVIOUS
    <3>2. y = [memory |-> Put(x, p, q), acc |-> <<ReadIn(x, At(p, 1)), ReadIn(x, At(p, 2))>>]
      BY <1>5, <1>8, <3>1, WordCopied
    <3>3. Runs(<<WordAt(p, q, 1)>>, x, y)
      BY <3>1, RunsOne
    <3>4. IsMachine(y)
      BY <3>1, AlwaysMachine
    <3> QED BY <2>1, <3>2, <3>3, <3>4 DEF WordCopy
  <2>2. CASE i \notin NotIdentity
    <3>1. p = q
      BY <1>4, <2>2 DEF NotIdentity
    <3>2. x.memory = Put(x, p, q)
      BY <1>5, <1>8, <3>1, PutSame
    <3>3. Runs(<<>>, x, x)
      BY RunsNone
    <3> QED BY <1>8, <2>2, <3>2, <3>3
  <2> QED BY <2>1, <2>2
<1>10. PICK y : IsMachine(y) /\ Runs(more, x, y) /\ y.memory = Put(x, p, q)
  BY <1>9
<1>11. Runs(code', Origin, y)
  BY <1>1, <1>3, <1>6, <1>8, <1>10, RunsJoined
<1>12. PlanAt(pending \ {i}, source, {}, y)
  <2>1. ASSUME NEW j \in pending
        PROVE  /\ IsPlace(Physical(source[j])) /\ Physical(source[j]).width = To(j).width
               /\ j # i => Apart(Physical(source[j]), To(i))
    <3>1. j \in Moves /\ Physical(source[j]) = From(j)
      BY <1>2, <1>3, UnstagedPhysical
    <3>2. IsPlace(From(j)) /\ From(j).width = To(j).width /\ From(j).space # "result"
      BY <1>2, <3>1, MoveFacts
    <3>3. j # i => Apart(From(j), To(i))
      BY <1>4, <1>5, <3>2, ConstantsApart
    <3> QED BY <3>1, <3>2, <3>3
  <2>2. \A j \in pending \ {i} : Apart(Physical(source[j]), To(i))
    BY <2>1
  <2>3. y.memory = Put(x, Physical(source[i]), To(i))
    BY <1>2, <1>3, <1>4, <1>10, UnstagedPhysical
  <2> QED BY <1>2, <1>3, <1>4, <1>8, <2>1, <2>2, <2>3, MoveMade
<1>13. DirectPlan(pending', source', staged', code')
  BY <1>1, <1>2, <1>3, <1>7, <1>10, <1>11, <1>12 DEF DirectPlan
<1>14. Planned(strategy', pending', source', staged', code') /\ staged' = <<>> /\ strategy' # "selective"
  BY <1>1, <1>3, <1>13 DEF Planned
<1> QED BY <1>1, <1>14, PlanOnward

LEMMA GiveUpKeeps ==
  ASSUME EdgeInv, GiveUpOrder
  PROVE  EdgeInv'
<1>1. /\ phase = "plan" /\ strategy = "direct" /\ pending # {} /\ Ready = {}
      /\ strategy' = "selective" /\ pending' = {} /\ code' = <<>>
      /\ UNCHANGED <<edge, source, staged, phase, memory, acc>>
  BY DEF GiveUpOrder
<1>2. Legal /\ DirectPlan(pending, source, staged, code)
  BY <1>1 DEF EdgeInv, EdgeAt, Planned
<1>3. /\ WordEdge /\ Disjoint /\ pending \in SUBSET Moves /\ staged = <<>>
      /\ \A j \in Moves : source[j] = From(j)
  BY <1>2, DirectDisjoint DEF DirectPlan
<1>4. \A i \in pending : \E j \in pending : j # i /\ Overlap(From(j), To(i))
  BY <1>1, <1>3 DEF Ready, Blocks
<1>5. WholeWords
  <2>1. PICK i \in pending : TRUE
    BY <1>1
  <2>2. PICK j \in pending : j # i
    BY <1>4
  <2>3. Final # 1
    BY <1>2, <1>3, <2>2, MoveFacts
  <2> QED BY <1>2, <2>3 DEF DirectPlan
<1>6. \A i \in pending : \E j \in pending : j # i /\ Overlap(From(j), To(i)) /\ From(j) = To(i)
  BY <1>3, <1>4, <1>5 DEF WholeWords, PointerGeometry
<1>7. \A i, j \in Moves : To(i) = To(j) => i = j
  BY <1>2, <1>3, DestinationsDiffer
<1>8. \A i \in pending : \E j \in pending \cap NotIdentity : j # i /\ Overlap(From(j), To(i))
  <2> TAKE i \in pending
  <2>1. PICK j \in pending : j # i /\ Overlap(From(j), To(i)) /\ From(j) = To(i)
    BY <1>6
  <2>2. From(j) # To(j)
    BY <1>3, <1>7, <2>1
  <2> QED BY <1>3, <2>1, <2>2 DEF NotIdentity
<1>9. Deadlock("selective")
  <2>1. PICK P : P = pending \cap NotIdentity
    OBVIOUS
  <2>2. P # {}
    BY <1>1, <1>8, <2>1
  <2>3. P \in SUBSET NotIdentity
    BY <2>1
  <2>4. \A i \in P : \E j \in P : Overlap(From(j), To(i)) /\ j # i
    BY <1>8, <2>1
  <2> QED BY <2>2, <2>3, <2>4 DEF Deadlock
<1>10. Planned(strategy', pending', source', staged', code')
  BY <1>1, <1>3, <1>5 DEF Planned, CapturedPlan
<1> QED BY <1>1, <1>9, <1>10, PlanOnward

LEMMA DirectRuns ==
  ASSUME EdgeInv, phase = "plan", strategy = "direct", pending = {}
  PROVE  IsCode(DirectCode) /\ \E y : Runs(DirectCode, Origin, y) /\ Good(y)
<1>1. Legal /\ DirectPlan(pending, source, staged, code)
  BY DEF EdgeInv, EdgeAt, Planned
<1>2. WordEdge /\ IsCode(code)
  BY <1>1 DEF DirectPlan
<1>3. PICK x : IsMachine(x) /\ Runs(code, Origin, x) /\ PlanAt({}, source, {}, x)
  BY <1>1 DEF DirectPlan
<1> DEFINE p == From(Final)
           q == To(Final)
<1>4. Copyable(p, q) /\ q.width = 2 /\ Cells(q) \subseteq Cell /\ IsPlace(q)
  BY <1>1, <1>2, MoveFacts, WordFacts
<1>5. Placed(x)
  <2>1. \A s \in {} : \A c \in Cells(s) : c[1] = "stack" /\ c[2] >= pool
    OBVIOUS
  <2> QED BY <1>1, <1>3, <2>1, AllMade
<1>6. \A y : y.acc = <<y.memory[At(q, 1)], y.memory[At(q, 2)]>> => Answer(y)
  BY <1>1, <1>2, AnswerIs
<1>7. CASE code # <<>> /\ code[Len(code)] = WordAt(p, q, 1)
  <2>1. DirectCode = code
    BY <1>7 DEF DirectCode
  <2>2. x.acc = <<x.memory[At(q, 1)], x.memory[At(q, 2)]>>
    BY <1>2, <1>3, <1>4, <1>7, LastWord
  <2>3. Answer(x)
    BY <1>6, <2>2
  <2> QED BY <1>2, <1>3, <1>5, <2>1, <2>3 DEF Good
<1>8. CASE ~(code # <<>> /\ code[Len(code)] = WordAt(p, q, 1))
  <2> DEFINE load == Load(Bytes(q))
  <2>1. DirectCode = Append(code, load)
    BY <1>8 DEF DirectCode
  <2>2. PICK y : y = After(x, load)
    OBVIOUS
  <2>3. IsMachine(y) /\ y.memory = x.memory /\ y.acc = <<x.memory[At(q, 1)], x.memory[At(q, 2)]>>
    BY <1>3, <1>4, <2>2, TakeA
  <2>4. Placed(y)
    BY <1>5, <2>3 DEF Placed
  <2>5. Answer(y)
    <3>1. y.acc = <<y.memory[At(q, 1)], y.memory[At(q, 2)]>>
      BY <2>3
    <3> QED BY <1>6, <3>1
  <2>6. IsCode(Append(code, load)) /\ Runs(Append(code, load), Origin, After(x, load))
    BY <1>2, <1>3, RunsExtended
  <2> QED BY <2>1, <2>2, <2>4, <2>5, <2>6 DEF Good
<1> QED BY <1>7, <1>8
-----------------------------------------------------------------------------
(* What a list of copies leaves in a place.                                *)
LEMMA MemUntouched ==
  ASSUME NEW base, NEW Q, NEW V, NEW n \in Nat, NEW c \in Cell, \A j \in 1..n : c \notin Cells(Q[j])
  PROVE  Mem(base, Q, V, n)[c] = base[c]
<1>1. Wrote(Q, n, c) = {}
  BY DEF Wrote
<1> QED BY <1>1 DEF Mem

LEMMA MemWritten ==
  ASSUME NEW base, NEW Q, NEW V, NEW n \in Nat, NEW c \in Cell, NEW k \in 1..n, c \in Cells(Q[k]),
         \A j \in 1..n : c \in Cells(Q[j]) => j <= k
  PROVE  Mem(base, Q, V, n)[c] = At(V[k], Offset(Q[k], c))
<1>1. k \in Wrote(Q, n, c) /\ Wrote(Q, n, c) \in SUBSET Nat /\ \A j \in Wrote(Q, n, c) : j <= k
  BY DEF Wrote
<1>2. Latest(Wrote(Q, n, c)) = k
  BY <1>1, LatestIs
<1> QED BY <1>1, <1>2 DEF Mem

LEMMA MemReads ==
  ASSUME NEW base, NEW Q, NEW V, NEW n \in Nat, NEW p, IsPlace(p), \A j \in 1..n : Apart(p, Q[j])
  PROVE  \A a \in 1..p.width : ReadMem(Mem(base, Q, V, n), At(p, a)) = ReadMem(base, At(p, a))
<1> TAKE a \in 1..p.width
<1>1. At(p, a) \in Cells(p)
  BY CellsOf
<1>2. \A j \in 1..n : At(p, a) \notin Cells(Q[j])
  BY <1>1 DEF Apart
<1>3. At(p, a) \in Cell => Mem(base, Q, V, n)[At(p, a)] = base[At(p, a)]
  BY <1>2, MemUntouched
<1> QED BY <1>3 DEF ReadMem

LEMMA MemHolds ==
  ASSUME NEW base, NEW Q, NEW V, NEW n \in Nat, NEW k \in 1..n, IsPlace(Q[k]), Cells(Q[k]) \subseteq Cell,
         \A j \in 1..n : j # k => Apart(Q[k], Q[j])
  PROVE  \A a \in 1..Q[k].width : ReadMem(Mem(base, Q, V, n), At(Q[k], a)) = At(V[k], a)
<1> TAKE a \in 1..Q[k].width
<1> DEFINE c == At(Q[k], a)
<1>1. c \in Cells(Q[k]) /\ Offset(Q[k], c) = a
  BY CellsOf DEF IsPlace
<1> HIDE DEF c
<1>2. c \in Cell
  BY <1>1
<1>3. \A j \in 1..n : c \in Cells(Q[j]) => j <= k
  <2> TAKE j \in 1..n
  <2>1. c \in Cells(Q[j]) => j = k
    BY <1>1 DEF Apart
  <2> QED BY <2>1
<1>4. Mem(base, Q, V, n)[c] = At(V[k], Offset(Q[k], c))
  BY <1>1, <1>2, <1>3, MemWritten
<1> QED BY <1>1, <1>2, <1>4 DEF ReadMem, c

-----------------------------------------------------------------------------
(* Edges of words that are captured first.                                 *)
LEMMA CapturedPlaced ==
  ASSUME Legal, NEW base, NEW Q, \A i \in Moves : Q[i] = To(i), NEW V, \A i \in Moves : V[i] = From(i),
         \A c \in Cell \ Scratch : (\A i \in Moves : c \notin Cells(To(i))) => base[c] = c,
         NEW x, x.memory = Mem(base, Q, V, Final)
  PROVE  Placed(x)
<1> SUFFICES ASSUME NEW c \in Cell, c \notin Scratch PROVE x.memory[c] = Assigned(c)
  BY DEF Placed
<1>1. Moves = 1..Final /\ Final \in Nat
  BY MoveFacts
<1>2. CASE Owner(c) = {}
  <2>1. \A i \in Moves : c \notin Cells(To(i))
    BY <1>2 DEF Owner
  <2>2. Mem(base, Q, V, Final)[c] = base[c]
    BY <1>1, <2>1, MemUntouched
  <2> QED BY <1>2, <2>1, <2>2 DEF Assigned
<1>3. CASE Owner(c) # {}
  <2>1. /\ Latest(Owner(c)) \in Moves /\ c \in Cells(To(Latest(Owner(c))))
        /\ \A j \in Owner(c) : j <= Latest(Owner(c))
    BY <1>3, OwnerLatest
  <2>2. PICK i \in Moves : i = Latest(Owner(c))
    BY <2>1
  <2>3. c \in Cells(Q[i]) /\ \A j \in 1..Final : c \in Cells(Q[j]) => j <= i
    BY <1>1, <2>1, <2>2 DEF Owner
  <2>4. Mem(base, Q, V, Final)[c] = At(V[i], Offset(Q[i], c))
    BY <1>1, <2>3, MemWritten
  <2> QED BY <1>3, <2>2, <2>4 DEF Assigned
<1> QED BY <1>2, <1>3

LEMMA CapturedRuns ==
  ASSUME EdgeInv, phase = "plan", strategy \in {"selective", "complete"}, StagingClear
  PROVE  IsCode(CapturedCode) /\ \E y : Runs(CapturedCode, Origin, y) /\ Good(y)
<1>1. Legal /\ CapturedPlan(strategy, pending, staged, code)
  BY DEF EdgeInv, EdgeAt, Planned
<1>2. WordEdge /\ (strategy = "selective" => WholeWords)
  BY <1>1 DEF CapturedPlan
<1>3. Moves = 1..Final /\ Final \in Nat /\ Final >= 1 /\ Final \in Moves
  BY <1>1, MoveFacts
<1> DEFINE C == Captured
           n == Cardinality(C)
           cap == InOrder(C)
<1>4. C \in SUBSET Moves
  BY CapturedMoves
<1>5. n \in Nat /\ n <= Final /\ cap \in [1..n -> C] /\ \A j \in C : \E k \in 1..n : cap[k] = j
  <2>1. /\ Cardinality(Captured) \in Nat /\ Cardinality(Captured) <= Final
        /\ InOrder(Captured) \in [1..Cardinality(Captured) -> Captured] /\ Increasing(InOrder(Captured), Cardinality(Captured))
        /\ \A j \in Captured : \E k \in 1..Cardinality(Captured) : InOrder(Captured)[k] = j
        /\ \A j, k \in 1..Cardinality(Captured) : InOrder(Captured)[j] = InOrder(Captured)[k] => j = k
    BY <1>1, <1>4, OrderOf
  <2> QED BY <2>1
<1>6. \A i \in C : Rank(i) \in 1..n /\ cap[Rank(i)] = i
  BY <1>1, <1>4, RankIs
<1>7. \A k \in 1..n : cap[k] \in C /\ cap[k] \in Moves
  BY <1>4, <1>5
<1>8. \A k \in 1..n : /\ IsPlace(Slot(k, 2)) /\ Slot(k, 2).width = 2 /\ Cells(Slot(k, 2)) \subseteq Cell
                      /\ \A c \in Cells(Slot(k, 2)) : c[1] = "stack" /\ c[2] >= pool
  <2> TAKE k \in 1..n
  <2>1. k \in Nat /\ k >= 1 /\ k \in 1..Final /\ 2 \in 1..4
    BY <1>3, <1>5
  <2> QED BY <1>1, <2>1, SlotFacts, SlotInPool
<1>9. \A j, k \in 1..n : j # k => Apart(Slot(j, 2), Slot(k, 2))
  <2> SUFFICES ASSUME NEW j \in 1..n, NEW k \in 1..n, j < k PROVE Apart(Slot(j, 2), Slot(k, 2)) /\ Apart(Slot(k, 2), Slot(j, 2))
    BY <1>5
  <2>1. j \in Nat /\ j >= 1 /\ k \in Nat /\ k > j /\ 2 \in Nat /\ 2 <= SlotWidth
    BY <1>5, SlotAssumption
  <2>2. Apart(Slot(j, 2), Slot(k, 2))
    BY <1>1, <2>1, SlotsApart
  <2> QED BY <2>2, ApartFlips
<1>10. \A k \in 1..n, i \in Moves : /\ Apart(Slot(k, 2), From(i)) /\ Apart(Slot(k, 2), To(i))
                                    /\ Apart(From(i), Slot(k, 2)) /\ Apart(To(i), Slot(k, 2))
  <2> TAKE k \in 1..n, i \in Moves
  <2>1. SlotsUsed = {Slot(Rank(j), 2) : j \in Captured}
    BY DEF SlotsUsed
  <2>2. Rank(cap[k]) = k
    <3>1. Rank(cap[k]) \in 1..n /\ cap[Rank(cap[k])] = cap[k]
      BY <1>6, <1>7
    <3>2. \A a, b \in 1..n : cap[a] = cap[b] => a = b
      <4>1. /\ Cardinality(Captured) \in Nat /\ Cardinality(Captured) <= Final
            /\ InOrder(Captured) \in [1..Cardinality(Captured) -> Captured] /\ Increasing(InOrder(Captured), Cardinality(Captured))
            /\ \A j \in Captured : \E h \in 1..Cardinality(Captured) : InOrder(Captured)[h] = j
            /\ \A j, h \in 1..Cardinality(Captured) : InOrder(Captured)[j] = InOrder(Captured)[h] => j = h
        BY <1>1, <1>4, OrderOf
      <4> QED BY <4>1
    <3> HIDE DEF cap, n
    <3> QED BY <3>1, <3>2
  <2>3. Slot(k, 2) \in SlotsUsed
    BY <1>7, <2>1, <2>2
  <2>4. Clear(SlotsUsed)
    BY DEF StagingClear, Clear
  <2>5. 2 \in Nat /\ 2 <= 2
    OBVIOUS
  <2>6. PICK U : U = SlotsUsed
    OBVIOUS
  <2>7. Clear(U) /\ Slot(k, 2) \in U
    BY <2>3, <2>4, <2>6
  <2> QED BY <2>5, <2>7, ClearApart
<1>11. \A i \in Moves : /\ Copyable(From(i), To(i)) /\ To(i).width = 2 /\ From(i).width = 2
                        /\ Cells(To(i)) \subseteq Cell /\ IsPlace(From(i)) /\ IsPlace(To(i))
                        /\ From(i).space # "result"
  BY <1>1, <1>2, WordFacts
<1>12. strategy = "complete" => C = Moves
  BY DEF Captured
<1>13. \A i \in Moves : i \notin C => strategy = "selective" /\ \A j \in 1..(i - 1) : From(i) # To(j)
  BY <1>12 DEF Captured
<1> HIDE DEF C, n, cap
<1>14. PICK base, P1, Q1, P2, Q2, V2 :
         /\ base = Origin.memory
         /\ P1 = [k \in 1..n |-> From(cap[k])]
         /\ Q1 = [k \in 1..n |-> Slot(k, 2)]
         /\ P2 = [i \in 1..Final |-> IF i \in C THEN Slot(Rank(i), 2) ELSE From(i)]
         /\ Q2 = [i \in 1..Final |-> To(i)]
         /\ V2 = [i \in 1..Final |-> From(i)]
  OBVIOUS
<1>15. base = [c \in Cell |-> base[c]] /\ \A c \in Cell : base[c] = c
  BY <1>14 DEF Origin
<1>16. \A b : ReadMem(base, b) = b
  BY <1>15 DEF ReadMem
<1>17. Feeds(base, P1, Q1, P1, n)
  <2> SUFFICES ASSUME NEW k \in 1..n
               PROVE  /\ Copyable(P1[k], Q1[k])
                      /\ \A j \in 1..Q1[k].width : ReadMem(Mem(base, Q1, P1, k - 1), At(P1[k], j)) = At(P1[k], j)
    BY DEF Feeds
  <2>1. P1[k] = From(cap[k]) /\ Q1[k] = Slot(k, 2) /\ cap[k] \in Moves
    BY <1>7, <1>14
  <2>2. Copyable(P1[k], Q1[k]) /\ IsPlace(P1[k]) /\ P1[k].width = Q1[k].width
    BY <1>8, <1>11, <2>1 DEF Copyable
  <2>3. k - 1 \in Nat /\ \A j \in 1..(k - 1) : Apart(P1[k], Q1[j])
    <3>1. \A j \in 1..(k - 1) : j \in 1..n
      BY <1>5
    <3> QED BY <1>5, <1>10, <1>14, <2>1, <3>1
  <2>4. \A a \in 1..P1[k].width : ReadMem(Mem(base, Q1, P1, k - 1), At(P1[k], a)) = ReadMem(base, At(P1[k], a))
    BY <2>2, <2>3, MemReads
  <2> QED BY <1>16, <2>2, <2>4
<1> DEFINE base0 == Mem(base, Q1, P1, n)
<1>18. PICK base2 : base2 = base0
  OBVIOUS
<1> HIDE DEF base0
<1>19. base2 = [c \in Cell |-> base2[c]]
  BY <1>18 DEF base0, Mem
<1>20. \A c \in Cell : (\A k \in 1..n : c \notin Cells(Slot(k, 2))) => base2[c] = c
  <2> TAKE c \in Cell
  <2> SUFFICES ASSUME \A k \in 1..n : c \notin Cells(Slot(k, 2)) PROVE base2[c] = c
    OBVIOUS
  <2>1. \A k \in 1..n : c \notin Cells(Q1[k])
    BY <1>14
  <2> QED BY <1>5, <1>15, <1>18, <2>1, MemUntouched DEF base0
<1>21. \A k \in 1..n : \A a \in 1..2 : ReadMem(base2, At(Slot(k, 2), a)) = At(From(cap[k]), a)
  <2> TAKE k \in 1..n
  <2>1. Q1[k] = Slot(k, 2) /\ P1[k] = From(cap[k]) /\ Q1[k].width = 2 /\ IsPlace(Q1[k]) /\ Cells(Q1[k]) \subseteq Cell
    BY <1>8, <1>14
  <2>2. \A j \in 1..n : j # k => Apart(Q1[k], Q1[j])
    BY <1>9, <1>14
  <2>3. \A a \in 1..Q1[k].width : ReadMem(Mem(base, Q1, P1, n), At(Q1[k], a)) = At(P1[k], a)
    BY <1>5, <2>1, <2>2, MemHolds, SMTT(60)
  <2> QED BY <1>18, <2>1, <2>3 DEF base0
<1>22. \A i \in Moves : \A a \in 1..2 : i \notin C => ReadMem(base2, At(From(i), a)) = At(From(i), a)
  <2> TAKE i \in Moves
  <2>1. \A j \in 1..n : Apart(From(i), Q1[j])
    BY <1>10, <1>14
  <2>2. \A a \in 1..From(i).width : ReadMem(Mem(base, Q1, P1, n), At(From(i), a)) = ReadMem(base, At(From(i), a))
    BY <1>5, <1>11, <2>1, MemReads
  <2> QED BY <1>11, <1>16, <1>18, <2>2 DEF base0
<1>23. Feeds(base2, P2, Q2, V2, Final)
  <2> SUFFICES ASSUME NEW i \in 1..Final
               PROVE  /\ Copyable(P2[i], Q2[i])
                      /\ \A a \in 1..Q2[i].width : ReadMem(Mem(base2, Q2, V2, i - 1), At(P2[i], a)) = At(V2[i], a)
    BY DEF Feeds
  <2>1. /\ i \in Moves /\ P2[i] = (IF i \in C THEN Slot(Rank(i), 2) ELSE From(i)) /\ Q2[i] = To(i) /\ V2[i] = From(i)
        /\ \A j \in 1..(i - 1) : j \in Moves /\ Q2[j] = To(j)
    BY <1>3, <1>14
  <2>2. i - 1 \in Nat
    BY <1>3
  <2>3. /\ IsPlace(P2[i]) /\ P2[i].width = 2 /\ Q2[i].width = 2 /\ IsPlace(Q2[i])
        /\ \A a \in 1..2 : ReadMem(base2, At(P2[i], a)) = At(V2[i], a)
        /\ \A j \in 1..(i - 1) : Apart(P2[i], Q2[j])
    <3>1. CASE i \in C
      <4>1. Rank(i) \in 1..n /\ cap[Rank(i)] = i
        BY <1>6, <3>1
      <4> QED BY <1>8, <1>10, <1>11, <1>21, <2>1, <3>1, <4>1
    <3>2. CASE i \notin C
      <4>1. strategy = "selective" /\ \A j \in 1..(i - 1) : From(i) # To(j)
        BY <1>13, <2>1, <3>2
      <4>2. \A j \in 1..(i - 1) : ~Overlap(From(i), To(j))
        BY <1>2, <2>1, <4>1 DEF WholeWords, PointerGeometry
      <4>3. \A j \in 1..(i - 1) : Apart(From(i), To(j))
        BY <1>11, <2>1, <4>2, ConstantsApart
      <4> QED BY <1>11, <1>22, <2>1, <3>2, <4>3
    <3> QED BY <3>1, <3>2
  <2>4. \A a \in 1..P2[i].width : ReadMem(Mem(base2, Q2, V2, i - 1), At(P2[i], a)) = ReadMem(base2, At(P2[i], a))
    BY <2>2, <2>3, MemReads
  <2> QED BY <2>3, <2>4 DEF Copyable
<1>24. PICK s1, s2 : /\ s1 = [k \in 1..n |-> WordAt(P1[k], Q1[k], 1)]
                     /\ s2 = [i \in 1..Final |-> WordAt(P2[i], Q2[i], 1)]
  OBVIOUS
<1>25. CapturedCode = s1 \o s2
  <2>1. DOMAIN cap = 1..n
    BY <1>5
  <2>2. [k \in DOMAIN cap |-> WordAt(From(cap[k]), Slot(k, 2), 1)] = s1
    BY <1>14, <1>24, <2>1
  <2>3. [i \in Moves |-> WordAt(IF i \in Captured THEN Slot(Rank(i), 2) ELSE From(i), To(i), 1)] = s2
    BY <1>3, <1>14, <1>24 DEF C
  <2>4. CapturedCode = [k \in DOMAIN InOrder(Captured) |-> WordAt(From(InOrder(Captured)[k]), Slot(k, 2), 1)]
                        \o [i \in Moves |-> WordAt(IF i \in Captured THEN Slot(Rank(i), 2) ELSE From(i), To(i), 1)]
    BY DEF CapturedCode
  <2> QED BY <2>2, <2>3, <2>4 DEF cap, C
<1>26. PICK x1 : x1 = [memory |-> Mem(base, Q1, P1, n),
                       acc |-> IF n = 0 THEN Origin.acc ELSE <<At(P1[n], 1), At(P1[n], 2)>>]
  OBVIOUS
<1>27. IsCode(s1) /\ Runs(s1, Origin, x1)
  <2>1. \A k \in 1..n : Q1[k].width = 2
    BY <1>8, <1>14
  <2>2. IsMachine(Origin) /\ Origin.memory = base
    BY <1>14, OriginReads
  <2> QED BY <1>5, <1>15, <1>17, <1>24, <1>26, <2>1, <2>2, WordsCopied
<1>28. x1.memory = base2 /\ IsMachine(x1)
  BY <1>18, <1>26, MemIsMemory DEF base0
<1>29. PICK y : y = [memory |-> Mem(base2, Q2, V2, Final),
                     acc |-> IF Final = 0 THEN x1.acc ELSE <<At(V2[Final], 1), At(V2[Final], 2)>>]
  OBVIOUS
<1>30. IsCode(s2) /\ Runs(s2, x1, y)
  <2>1. \A i \in 1..Final : Q2[i].width = 2
    BY <1>3, <1>11, <1>14
  <2> QED BY <1>3, <1>19, <1>23, <1>24, <1>28, <1>29, <2>1, WordsCopied, ZenonT(60)
<1>31. IsCode(s1 \o s2)
  BY <1>27, <1>30, Joined
<1>32. Runs(s1 \o s2, Origin, y)
  BY <1>27, <1>30, RunsJoined
<1>33. Placed(y)
  <2>1. \A i \in Moves : Q2[i] = To(i) /\ V2[i] = From(i)
    BY <1>3, <1>14
  <2>2. \A c \in Cell \ Scratch : (\A i \in Moves : c \notin Cells(To(i))) => base2[c] = c
    <3> TAKE c \in Cell \ Scratch
    <3> SUFFICES ASSUME \A i \in Moves : c \notin Cells(To(i)) PROVE base2[c] = c
      OBVIOUS
    <3>1. c \notin PoolCells
      BY DEF Scratch
    <3>2. \A k \in 1..n : c \notin Cells(Slot(k, 2))
      BY <1>8, <3>1 DEF PoolCells
    <3> QED BY <1>20, <3>2
  <2>3. y.memory = Mem(base2, Q2, V2, Final)
    BY <1>29
  <2> QED BY <1>1, <2>1, <2>2, <2>3, CapturedPlaced
<1>34. Answer(y)
  <2> DEFINE q == To(Final)
  <2>1. y.acc = <<At(From(Final), 1), At(From(Final), 2)>>
    BY <1>3, <1>14, <1>29
  <2>2. ASSUME NEW a \in 1..2 PROVE y.memory[At(q, a)] = At(From(Final), a)
    <3>1. IsPlace(q) /\ a \in 1..q.width /\ Cells(q) \subseteq Cell
      BY <1>3, <1>11
    <3>2. At(q, a) \in Cells(q) /\ Offset(q, At(q, a)) = a
      BY <3>1, CellsOf DEF IsPlace
    <3>3. At(q, a) \notin Scratch
      BY <1>3, <3>2 DEF Scratch
    <3>4. Assigned(At(q, a)) = At(From(Final), Offset(q, At(q, a)))
      <4>1. \A j \in Moves : j <= Final
        BY <1>3
      <4> QED BY <1>1, <1>3, <3>2, <4>1, AssignedBy
    <3> QED BY <1>33, <3>1, <3>2, <3>3, <3>4 DEF Placed
  <2>3. y.acc = <<y.memory[At(q, 1)], y.memory[At(q, 2)]>>
    BY <2>1, <2>2
  <2> QED BY <1>1, <1>2, <2>3, AnswerIs
<1> QED BY <1>25, <1>31, <1>32, <1>33, <1>34 DEF Good
-----------------------------------------------------------------------------
(* Edges staged byte by byte.                                              *)
Rest == {i \in Moves : ~Identity(i)}
Listed(n, rest) ==
  /\ n \in Nat /\ rest \in [1..n -> Rest] /\ Increasing(rest, n)
  /\ \A i \in Rest : \E k \in 1..n : rest[k] = i
  /\ \A j, k \in 1..n : rest[j] = rest[k] => j = k

LEMMA BytesPlaced ==
  ASSUME Legal, NEW n, NEW rest, Listed(n, rest), NEW base, NEW Q, NEW V, \A k \in 1..n : Q[k] = To(rest[k]) /\ V[k] = From(rest[k]),
         \A c \in Cell \ Scratch : base[c] = c,
         NEW x, x.memory = Mem(base, Q, V, n)
  PROVE  Placed(x)
<1> SUFFICES ASSUME n \in Nat, rest \in [1..n -> Rest], Increasing(rest, n),
                    \A i \in Rest : \E k \in 1..n : rest[k] = i,
                    \A j, k \in 1..n : rest[j] = rest[k] => j = k,
                    NEW c \in Cell, c \notin Scratch
             PROVE  x.memory[c] = Assigned(c)
  BY DEF Placed, Listed
<1>1. \A k \in 1..n : rest[k] \in Rest /\ rest[k] \in Moves
  BY DEF Rest
<1>2. Moves = 1..Final /\ Final \in Nat
  BY MoveFacts
<1>3. CASE Owner(c) = {}
  <2>1. \A i \in Moves : c \notin Cells(To(i))
    BY <1>3 DEF Owner
  <2>2. \A k \in 1..n : c \notin Cells(Q[k])
    BY <1>1, <2>1
  <2>3. Mem(base, Q, V, n)[c] = base[c]
    BY <2>2, MemUntouched
  <2> QED BY <1>3, <2>3 DEF Assigned
<1>4. CASE Owner(c) # {}
  <2>1. /\ Latest(Owner(c)) \in Moves /\ c \in Cells(To(Latest(Owner(c))))
        /\ \A j \in Owner(c) : j <= Latest(Owner(c))
    BY <1>4, OwnerLatest
  <2>2. PICK i \in Moves : i = Latest(Owner(c))
    BY <2>1
  <2>3. IsPlace(To(i)) /\ IsHome(To(i))
    BY MoveFacts
  <2>4. CASE Identity(i)
    <3>1. From(i) = To(i) /\ \A j \in Moves : i # j => ~Overlap(To(i), To(j))
      BY <2>4 DEF Identity
    <3>2. \A j \in Moves : c \in Cells(To(j)) => j = i
      BY <2>1, <2>2, <2>3, <3>1 DEF Overlap
    <3>3. \A k \in 1..n : rest[k] # i
      BY <1>1, <2>4 DEF Rest
    <3>4. \A k \in 1..n : c \notin Cells(Q[k])
      BY <1>1, <3>2, <3>3
    <3>5. Mem(base, Q, V, n)[c] = base[c]
      BY <3>4, MemUntouched
    <3>6. At(To(i), Offset(To(i), c)) = c
      BY <2>1, <2>2, <2>3, CellsOf
    <3> QED BY <1>4, <2>2, <3>1, <3>5, <3>6 DEF Assigned
  <2>5. CASE ~Identity(i)
    <3>1. PICK k \in 1..n : rest[k] = i
      BY <2>5 DEF Rest
    <3>2. ASSUME NEW j \in 1..n, c \in Cells(Q[j]) PROVE j <= k
      <4>1. rest[j] <= i
        BY <1>1, <2>1, <2>2, <3>2 DEF Owner
      <4>2. ~(k < j)
        <5>1. rest[j] \in Int /\ i \in Int
          BY <1>1, <1>2
        <5>2. ~(i < rest[j])
          BY <4>1, <5>1
        <5> QED BY <3>1, <5>2 DEF Increasing
      <4> QED BY <4>2
    <3>3. c \in Cells(Q[k])
      BY <2>1, <2>2, <3>1
    <3>4. Mem(base, Q, V, n)[c] = At(V[k], Offset(Q[k], c))
      BY <3>2, <3>3, MemWritten
    <3> QED BY <1>4, <2>2, <3>1, <3>4 DEF Assigned
  <2> QED BY <2>4, <2>5
<1> QED BY <1>3, <1>4

LEMMA ResultFacts ==
  ASSUME Legal
  PROVE  /\ IsPlace(Result) /\ Result.width = 2 /\ Cells(Result) \subseteq Cell
         /\ \A c \in Cells(Result) : c[1] = "result"
         /\ At(Result, 1) \in Cells(Result) /\ At(Result, 2) \in Cells(Result)
<1>1. Result.space = "result" /\ Result.at = 1 /\ Result.width = 2
  BY DEF Result
<1>2. IsPlace(Result)
  BY <1>1 DEF IsPlace
<1>3. \A c \in Cells(Result) : c[1] = "result"
  BY <1>1 DEF Cells
<1>4. 1 \in 1..Result.width /\ 2 \in 1..Result.width
  BY <1>1
<1>5. At(Result, 1) \in Cells(Result) /\ At(Result, 2) \in Cells(Result)
  BY <1>2, <1>4, CellsOf
<1>6. At(Result, 1) = <<"result", 1>> /\ At(Result, 2) = <<"result", 2>>
  BY <1>1 DEF At
<1>7. At(Result, 1) \in Cell /\ At(Result, 2) \in Cell
  BY <1>6 DEF Legal, LegalEdge
<1>8. \A c \in Cells(Result) : c = At(Result, 1) \/ c = At(Result, 2)
  <2>1. \A c : c \in Cells(Result) <=> \E k \in 1..Result.width : c = At(Result, k)
    BY <1>2, CellsOf
  <2>2. \A k \in 1..Result.width : k = 1 \/ k = 2
    BY <1>1
  <2> QED BY <2>1, <2>2
<1> QED BY <1>1, <1>2, <1>3, <1>5, <1>7, <1>8

(* A, kept in the scratch word where words are moved.                      *)
KeptAside(wide, x) ==
  wide => x.memory[At(Result, 1)] = AccLow /\ x.memory[At(Result, 2)] = AccHigh
BytesBegun(wide, x) ==
  /\ IsMachine(x) /\ x.acc = <<AccLow, AccHigh>> /\ KeptAside(wide, x)
  /\ \A c \in Cell : c[1] # "result" => x.memory[c] = c
BytesDone(wide, z) ==
  /\ IsMachine(z) /\ Placed(z) /\ KeptAside(wide, z)
  /\ ~wide => z.acc[2] = AccHigh
  /\ ~wide /\ ~Identity(Final) => z.acc = <<At(From(Final), To(Final).width), AccHigh>>

LEMMA BytesBegin ==
  ASSUME Legal, NEW wide \in BOOLEAN, NEW s, s = IF wide THEN <<Store(Result)>> ELSE <<>>
  PROVE  IsCode(s) /\ \E x : Runs(s, Origin, x) /\ BytesBegun(wide, x)
<1>1. Origin.acc[1] = AccLow /\ Origin.acc[2] = AccHigh /\ Origin.acc = <<AccLow, AccHigh>> /\ \A c \in Cell : Origin.memory[c] = c
  BY DEF Origin
<1>2. CASE wide
  <2>1. PICK x : x = After(Origin, Store(Result))
    OBVIOUS
  <2>2. /\ IsMachine(x) /\ x.acc = <<Origin.acc[1], Origin.acc[2]>>
        /\ x.memory[At(Result, 1)] = Origin.acc[1] /\ x.memory[At(Result, 2)] = Origin.acc[2]
        /\ \A c \in Cell : c \notin Cells(Result) => x.memory[c] = Origin.memory[c]
    BY <2>1, ResultFacts, KeepA
  <2>3. Runs(<<Store(Result)>>, Origin, x) /\ IsCode(<<Store(Result)>>)
    BY <2>1, RunsOne, Single
  <2>4. \A c \in Cell : c[1] # "result" => x.memory[c] = c
    BY <1>1, <2>2, ResultFacts
  <2>5. s = <<Store(Result)>>
    BY <1>2
  <2> QED BY <1>1, <2>2, <2>3, <2>4, <2>5 DEF BytesBegun, KeptAside
<1>3. CASE ~wide
  <2>1. Runs(<<>>, Origin, Origin) /\ IsCode(<<>>) /\ IsMachine(Origin)
    BY RunsNone, NoCode, OriginReads
  <2>2. s = <<>>
    BY <1>3
  <2> QED BY <1>1, <1>3, <2>1, <2>2 DEF BytesBegun, KeptAside
<1> QED BY <1>2, <1>3

(* A's own bytes back where they were kept, and the last byte.             *)
LEMMA BytesEnd ==
  ASSUME Legal, ~WordEdge, NEW wide \in BOOLEAN, NEW x, IsMachine(x), Placed(x),
         wide => x.memory[At(Result, 1)] = AccLow /\ x.memory[At(Result, 2)] = AccHigh,
         ~wide => x.acc[2] = AccHigh,
         ~wide /\ ~Identity(Final) => Answer(x),
         NEW s, s = IF wide THEN <<Load(Bytes(Result))>> ELSE <<>>,
         NEW t, t = IF wide \/ Identity(Final) THEN <<LastByte>> ELSE <<>>
  PROVE  /\ IsCode(s) /\ IsCode(t)
         /\ \E y, z : Runs(s, x, y) /\ Runs(t, y, z) /\ Good(z)
<1>1. CASE wide
  <2>1. PICK y : y = After(x, Load(Bytes(Result)))
    OBVIOUS
  <2>2. IsMachine(y) /\ y.memory = x.memory /\ y.acc = <<x.memory[At(Result, 1)], x.memory[At(Result, 2)]>>
    BY <2>1, ResultFacts, TakeA
  <2>3. Placed(y) /\ y.acc[2] = AccHigh
    BY <1>1, <2>2 DEF Placed
  <2>4. Good(After(y, LastByte))
    BY <2>2, <2>3, LastByteLoads
  <2>5. Runs(<<Load(Bytes(Result))>>, x, y) /\ Runs(<<LastByte>>, y, After(y, LastByte))
    BY <2>1, RunsOne
  <2>6. IsCode(<<Load(Bytes(Result))>>) /\ IsCode(<<LastByte>>)
    BY Single
  <2> QED BY <1>1, <2>4, <2>5, <2>6
<1>2. CASE ~wide /\ Identity(Final)
  <2>1. Good(After(x, LastByte))
    BY <1>2, LastByteLoads
  <2>2. Runs(<<>>, x, x) /\ Runs(<<LastByte>>, x, After(x, LastByte)) /\ IsCode(<<>>) /\ IsCode(<<LastByte>>)
    BY RunsNone, RunsOne, Single, NoCode
  <2> QED BY <1>2, <2>1, <2>2
<1>3. CASE ~wide /\ ~Identity(Final)
  <2>1. Good(x)
    BY <1>3 DEF Good
  <2>2. Runs(<<>>, x, x) /\ IsCode(<<>>)
    BY RunsNone, NoCode
  <2> QED BY <1>3, <2>1, <2>2
<1> QED BY <1>1, <1>2, <1>3
(* The slots of a byte edge: one per move, none shared, clear of the homes. *)
LEMMA BytesSlots ==
  ASSUME Legal, strategy = "bytes", StagingClear, NEW i \in Moves
  PROVE  /\ IsPlace(Slot(i, To(i).width)) /\ Cells(Slot(i, To(i).width)) \subseteq Cell
         /\ Slot(i, To(i).width).width = To(i).width
         /\ \A c \in Cells(Slot(i, To(i).width)) : c[1] = "stack" /\ c[2] >= pool
         /\ \A j \in Moves : /\ Apart(From(j), Slot(i, To(i).width)) /\ Apart(To(j), Slot(i, To(i).width))
                             /\ Apart(Slot(i, To(i).width), To(j))
                             /\ j # i => Apart(Slot(i, To(i).width), Slot(j, To(j).width))
<1>1. Moves = 1..Final /\ Final \in Nat
  BY MoveFacts
<1>2. \A j \in Moves : j \in Nat /\ j >= 1 /\ j \in 1..Final /\ To(j).width \in 1..4
                       /\ To(j).width \in Nat /\ To(j).width <= SlotWidth
  <2>1. \A j \in Moves : To(j).width \in 1..4
    BY MoveFacts
  <2> QED BY <1>1, <2>1, SlotAssumption
<1>3. /\ IsPlace(Slot(i, To(i).width)) /\ Cells(Slot(i, To(i).width)) \subseteq Cell
      /\ Slot(i, To(i).width).width = To(i).width
      /\ \A c \in Cells(Slot(i, To(i).width)) : c[1] = "stack" /\ c[2] >= pool
  <2>1. i \in Nat /\ i >= 1 /\ i \in 1..Final /\ To(i).width \in 1..4
    BY <1>2
  <2> QED BY <2>1, SlotFacts, SlotInPool
<1>4. ASSUME NEW j \in Moves
      PROVE  /\ Apart(From(j), Slot(i, To(i).width)) /\ Apart(To(j), Slot(i, To(i).width))
             /\ Apart(Slot(i, To(i).width), To(j))
  <2>1. Slot(i, To(i).width) \in SlotsUsed
    BY DEF SlotsUsed
  <2>2. Clear(SlotsUsed)
    BY DEF StagingClear, Clear
  <2>3. PICK U, u : U = SlotsUsed /\ u = To(i).width
    OBVIOUS
  <2>4. u \in Nat /\ u <= u
    BY <1>2, <2>3
  <2>5. Clear(U) /\ Slot(i, u) \in U
    BY <2>1, <2>2, <2>3
  <2>6. /\ Apart(Slot(i, u), From(j)) /\ Apart(Slot(i, u), To(j))
        /\ Apart(From(j), Slot(i, u)) /\ Apart(To(j), Slot(i, u))
    BY <2>4, <2>5, ClearApart
  <2> QED BY <2>3, <2>6
<1>5. ASSUME NEW j \in Moves, j # i PROVE Apart(Slot(i, To(i).width), Slot(j, To(j).width))
  <2>1. CASE i < j
    BY <1>2, <2>1, SlotsApart
  <2>2. CASE j < i
    <3>1. Apart(Slot(j, To(j).width), Slot(i, To(i).width))
      BY <1>2, <2>2, SlotsApart
    <3> QED BY <3>1, ApartFlips
  <2> QED BY <1>2, <1>5, <2>1, <2>2
<1> QED BY <1>3, <1>4, <1>5

(* Filling the slots, then the destinations. *)
LEMMA BytesMoved ==
  ASSUME Legal, strategy = "bytes", StagingClear, NEW wide \in BOOLEAN, wide => MayUseWords,
         NEW n, NEW rest, Listed(n, rest), NEW x, BytesBegun(wide, x),
         NEW f, f = [k \in 1..n |-> Piecewise(wide, From(rest[k]), Slot(rest[k], To(rest[k]).width))],
         NEW g, g = [k \in 1..n |-> Piecewise(wide, Slot(rest[k], To(rest[k]).width), To(rest[k]))]
  PROVE  /\ IsCode(FlattenSeq(f)) /\ IsCode(FlattenSeq(g))
         /\ \E y, z : Runs(FlattenSeq(f), x, y) /\ Runs(FlattenSeq(g), y, z) /\ BytesDone(wide, z)
<1> SUFFICES ASSUME n \in Nat, rest \in [1..n -> Rest], Increasing(rest, n),
                    \A i \in Rest : \E k \in 1..n : rest[k] = i,
                    \A j, k \in 1..n : rest[j] = rest[k] => j = k
             PROVE  /\ IsCode(FlattenSeq(f)) /\ IsCode(FlattenSeq(g))
                    /\ \E y, z : Runs(FlattenSeq(f), x, y) /\ Runs(FlattenSeq(g), y, z) /\ BytesDone(wide, z)
  BY DEF Listed
<1>0. /\ IsMachine(x) /\ x.acc = <<AccLow, AccHigh>> /\ KeptAside(wide, x)
      /\ \A c \in Cell : c[1] # "result" => x.memory[c] = c
  BY DEF BytesBegun
<1>1. Moves = 1..Final /\ Final \in Nat /\ Final \in Moves
  BY MoveFacts
<1>2. \A k \in 1..n : rest[k] \in Moves
  BY DEF Rest
<1>3. PICK base : base = x.memory
  OBVIOUS
<1>4. /\ \E P1 : \A k \in 1..n : P1[k] = From(rest[k])
      /\ \E Q1 : \A k \in 1..n : Q1[k] = Slot(rest[k], To(rest[k]).width)
      /\ \E Q2 : \A k \in 1..n : Q2[k] = To(rest[k])
  <2>1. \A k \in 1..n : [h \in 1..n |-> From(rest[h])][k] = From(rest[k])
    OBVIOUS
  <2>2. \A k \in 1..n : [h \in 1..n |-> Slot(rest[h], To(rest[h]).width)][k] = Slot(rest[k], To(rest[k]).width)
    OBVIOUS
  <2>3. \A k \in 1..n : [h \in 1..n |-> To(rest[h])][k] = To(rest[k])
    OBVIOUS
  <2> QED BY ONLY <2>1, <2>2, <2>3, Zenon
<1>31. PICK P1 : \A k \in 1..n : P1[k] = From(rest[k])
  BY <1>4
<1>32. PICK Q1 : \A k \in 1..n : Q1[k] = Slot(rest[k], To(rest[k]).width)
  BY <1>4
<1>33. PICK Q2 : \A k \in 1..n : Q2[k] = To(rest[k])
  BY <1>4
<1>5. \A k \in 1..n :
        /\ IsPlace(P1[k]) /\ IsPlace(Q1[k]) /\ IsPlace(Q2[k])
        /\ P1[k].width = Q2[k].width /\ Q1[k].width = Q2[k].width
        /\ Cells(Q1[k]) \subseteq Cell /\ Cells(Q2[k]) \subseteq Cell
        /\ P1[k].space # "result" /\ Q2[k].space # "result"
        /\ \A c \in Cells(Q1[k]) : c[1] = "stack" /\ c[2] >= pool
  <2> TAKE k \in 1..n
  <2>1. rest[k] \in Moves
    BY <1>2
  <2>2. PICK i \in Moves : i = rest[k]
    BY <2>1
  <2>3. /\ IsPlace(From(i)) /\ IsPlace(To(i)) /\ From(i).width = To(i).width /\ Cells(To(i)) \subseteq Cell
        /\ From(i).space # "result" /\ To(i).space # "result"
    BY MoveFacts
  <2>4. /\ IsPlace(Slot(i, To(i).width)) /\ Cells(Slot(i, To(i).width)) \subseteq Cell
        /\ Slot(i, To(i).width).width = To(i).width
        /\ \A c \in Cells(Slot(i, To(i).width)) : c[1] = "stack" /\ c[2] >= pool
    BY BytesSlots
  <2> QED BY <1>31, <1>32, <1>33, <2>2, <2>3, <2>4
<1>6. \A k, j \in 1..n : Apart(P1[k], Q1[j]) /\ Apart(Q1[k], Q2[j]) /\ (j # k => Apart(Q1[k], Q1[j]))
  <2> TAKE k, j \in 1..n
  <2>1. PICK a \in Moves, b \in Moves : a = rest[k] /\ b = rest[j]
    BY <1>2
  <2>2. /\ Apart(From(a), Slot(b, To(b).width)) /\ Apart(Slot(a, To(a).width), To(b))
        /\ b # a => Apart(Slot(a, To(a).width), Slot(b, To(b).width))
    BY BytesSlots
  <2>3. j # k => b # a
    BY <2>1
  <2> QED BY <1>31, <1>32, <1>33, <2>1, <2>2, <2>3
<1>7. \A i \in Moves, k \in 1..n : Apart(To(i), Q1[k])
  <2> TAKE i \in Moves, k \in 1..n
  <2>1. PICK b \in Moves : b = rest[k]
    BY <1>2
  <2>2. Apart(To(i), Slot(b, To(b).width))
    BY BytesSlots
  <2> QED BY <1>32, <2>1, <2>2
<1>8. \A k \in 1..n : wide => Q2[k].width # 3
  <2> TAKE k \in 1..n
  <2>1. wide => To(rest[k]).width \in {1, 2, 4}
    BY <1>2 DEF MayUseWords
  <2> QED BY <1>33, <2>1
<1>9. base = [c \in Cell |-> base[c]]
  BY <1>0, <1>3 DEF IsMachine
<1>10. Feeds(base, P1, Q1, P1, n)
  <2> SUFFICES ASSUME NEW k \in 1..n
               PROVE  /\ Copyable(P1[k], Q1[k])
                      /\ \A j \in 1..Q1[k].width : ReadMem(Mem(base, Q1, P1, k - 1), At(P1[k], j)) = At(P1[k], j)
    BY DEF Feeds
  <2>1. Copyable(P1[k], Q1[k]) /\ IsPlace(P1[k]) /\ P1[k].width = Q1[k].width
    BY <1>5 DEF Copyable
  <2>2. k - 1 \in Nat /\ \A j \in 1..(k - 1) : j \in 1..n
    OBVIOUS
  <2>3. \A j \in 1..(k - 1) : Apart(P1[k], Q1[j])
    BY <1>6, <2>2
  <2>4. \A a \in 1..P1[k].width : ReadMem(Mem(base, Q1, P1, k - 1), At(P1[k], a)) = ReadMem(base, At(P1[k], a))
    BY <2>1, <2>2, <2>3, MemReads
  <2>5. ASSUME NEW a PROVE ReadMem(base, At(P1[k], a)) = At(P1[k], a)
    <3>1. At(P1[k], a)[1] = P1[k].space /\ P1[k].space # "result"
      BY <1>5 DEF At
    <3>2. At(P1[k], a) \in Cell => base[At(P1[k], a)] = At(P1[k], a)
      BY <1>0, <1>3, <3>1
    <3> QED BY <3>2 DEF ReadMem
  <2> QED BY <2>1, <2>4, <2>5
<1>11. PiecesRun(wide, base, Q1, P1, n, x, f)
  <2>1. \A k \in 1..n : Apart(P1[k], Q1[k]) /\ (wide => Q1[k].width # 3)
    BY <1>5, <1>6, <1>8
  <2>2. ~wide => x.acc = <<x.acc[1], x.acc[2]>>
    BY <1>0
  <2>3. f = [k \in 1..n |-> Piecewise(wide, P1[k], Q1[k])]
    BY <1>31, <1>32
  <2>4. PiecesReady(wide, base, P1, Q1, P1, n, x, f)
    BY <1>0, <1>3, <1>9, <1>10, <2>1, <2>2, <2>3 DEF PiecesReady
  <2> QED BY <2>4, PiecesCopied
<1>12. PICK y : Runs(FlattenSeq(f), x, y) /\ PiecesTo(wide, base, Q1, P1, x, n, y)
  BY <1>11 DEF PiecesRun
<1>13. /\ IsMachine(y) /\ y.memory = Mem(base, Q1, P1, n)
       /\ ~wide => y.acc = <<IF n = 0 THEN x.acc[1] ELSE At(P1[n], Q1[n].width), x.acc[2]>>
  BY <1>12 DEF PiecesTo
<1>14. ~wide => y.acc = <<y.acc[1], y.acc[2]>> /\ y.acc[2] = AccHigh
  <2>1. x.acc[2] = AccHigh
    BY <1>0
  <2> QED BY <1>13, <2>1
<1>15. PICK base2 : base2 = y.memory
  OBVIOUS
<1>16. base2 = [c \in Cell |-> base2[c]] /\ base2 = Mem(base, Q1, P1, n)
  BY <1>13, <1>15 DEF IsMachine
<1>17. \A k \in 1..n : \A a \in 1..Q1[k].width : ReadMem(base2, At(Q1[k], a)) = At(P1[k], a)
  <2> TAKE k \in 1..n
  <2>1. IsPlace(Q1[k]) /\ Cells(Q1[k]) \subseteq Cell /\ \A j \in 1..n : j # k => Apart(Q1[k], Q1[j])
    BY <1>5, <1>6
  <2>2. \A a \in 1..Q1[k].width : ReadMem(Mem(base, Q1, P1, n), At(Q1[k], a)) = At(P1[k], a)
    BY <2>1, MemHolds, SMTT(60)
  <2> QED BY <1>16, <2>2
<1>18. Feeds(base2, Q1, Q2, P1, n)
  <2> SUFFICES ASSUME NEW k \in 1..n
               PROVE  /\ Copyable(Q1[k], Q2[k])
                      /\ \A j \in 1..Q2[k].width : ReadMem(Mem(base2, Q2, P1, k - 1), At(Q1[k], j)) = At(P1[k], j)
    BY DEF Feeds
  <2>1. Copyable(Q1[k], Q2[k]) /\ IsPlace(Q1[k]) /\ Q1[k].width = Q2[k].width
    BY <1>5 DEF Copyable
  <2>2. k - 1 \in Nat /\ \A j \in 1..(k - 1) : j \in 1..n
    OBVIOUS
  <2>3. \A j \in 1..(k - 1) : Apart(Q1[k], Q2[j])
    BY <1>6, <2>2
  <2>4. PICK m, p : m = k - 1 /\ p = Q1[k]
    OBVIOUS
  <2>5. m \in Nat /\ IsPlace(p) /\ \A j \in 1..m : Apart(p, Q2[j])
    BY <2>1, <2>2, <2>3, <2>4
  <2>6. \A a \in 1..p.width : ReadMem(Mem(base2, Q2, P1, m), At(p, a)) = ReadMem(base2, At(p, a))
    BY <2>5, MemReads
  <2> QED BY <1>17, <2>1, <2>4, <2>6
<1>19. PiecesRun(wide, base2, Q2, P1, n, y, g)
  <2>1. \A k \in 1..n : Apart(Q1[k], Q2[k]) /\ (wide => Q2[k].width # 3)
    BY <1>6, <1>8
  <2>2. ~wide => y.acc = <<y.acc[1], y.acc[2]>>
    BY <1>14
  <2>3. g = [k \in 1..n |-> Piecewise(wide, Q1[k], Q2[k])]
    BY <1>32, <1>33
  <2>4. PiecesReady(wide, base2, Q1, Q2, P1, n, y, g)
    BY <1>13, <1>15, <1>16, <1>18, <2>1, <2>2, <2>3 DEF PiecesReady
  <2> QED BY <2>4, PiecesCopied
<1>20. PICK z : Runs(FlattenSeq(g), y, z) /\ PiecesTo(wide, base2, Q2, P1, y, n, z)
  BY <1>19 DEF PiecesRun
<1>21. /\ IsMachine(z) /\ z.memory = Mem(base2, Q2, P1, n)
       /\ ~wide => z.acc = <<IF n = 0 THEN y.acc[1] ELSE At(P1[n], Q2[n].width), y.acc[2]>>
  BY <1>20 DEF PiecesTo
<1>22. ~wide => z.acc[2] = AccHigh
  BY <1>14, <1>21
<1>23. \A c \in Cell : (\A k \in 1..n : c \notin Cells(Q1[k])) => base2[c] = x.memory[c]
  <2> TAKE c \in Cell
  <2> SUFFICES ASSUME \A k \in 1..n : c \notin Cells(Q1[k]) PROVE base2[c] = x.memory[c]
    OBVIOUS
  <2>1. Mem(base, Q1, P1, n)[c] = base[c]
    BY MemUntouched
  <2> QED BY <1>3, <1>16, <2>1
<1>24. Placed(z)
  <2>1. ASSUME NEW c \in Cell \ Scratch PROVE base2[c] = c
    <3>1. c[1] # "result" /\ \A k \in 1..n : c \notin Cells(Q1[k])
      <4>1. CASE \E i \in Moves : c \in Cells(To(i))
        <5>1. PICK i \in Moves : c \in Cells(To(i))
          BY <4>1
        <5>2. \A k \in 1..n : c \notin Cells(Q1[k])
          BY <1>7, <5>1 DEF Apart
        <5>3. IsPlace(To(i)) /\ To(i).space # "result"
          BY MoveFacts
        <5>4. c[1] = To(i).space
          BY <5>1, <5>3, HomeCells
        <5> QED BY <5>2, <5>3, <5>4
      <4>2. CASE ~\E i \in Moves : c \in Cells(To(i))
        <5>1. c \notin PoolCells /\ c[1] # "result"
          BY <4>2 DEF Scratch
        <5>2. \A k \in 1..n : c \notin Cells(Q1[k])
          BY <1>5, <5>1 DEF PoolCells
        <5> QED BY <5>1, <5>2
      <4> QED BY <4>1, <4>2
    <3> QED BY <1>0, <1>23, <3>1
  <2>2. \A k \in 1..n : Q2[k] = To(rest[k]) /\ P1[k] = From(rest[k])
    BY <1>31, <1>33
  <2>3. z.memory = Mem(base2, Q2, P1, n)
    BY <1>21
  <2>4. \A c \in Cell \ Scratch : base2[c] = c
    BY <2>1
  <2> HIDE <2>1
  <2> QED BY <2>2, <2>3, <2>4, BytesPlaced, SMTT(60)
<1>25. ASSUME wide PROVE z.memory[At(Result, 1)] = AccLow /\ z.memory[At(Result, 2)] = AccHigh
  <2>1. ASSUME NEW c \in Cells(Result) PROVE z.memory[c] = x.memory[c]
    <3>1. c \in Cell /\ c[1] = "result"
      BY ResultFacts
    <3>2. \A k \in 1..n : c \notin Cells(Q1[k])
      BY <1>5, <3>1
    <3>3. \A k \in 1..n : c \notin Cells(Q2[k])
      <4> TAKE k \in 1..n
      <4>1. IsPlace(Q2[k]) /\ Q2[k].space # "result"
        BY <1>5
      <4>2. \A e \in Cells(Q2[k]) : e[1] = Q2[k].space
        BY <4>1, HomeCells
      <4> QED BY <3>1, <4>1, <4>2
    <3>4. Mem(base2, Q2, P1, n)[c] = base2[c]
      BY <3>1, <3>3, MemUntouched
    <3> QED BY <1>21, <1>23, <3>1, <3>2, <3>4
  <2> QED BY <1>0, <1>25, <2>1, ResultFacts DEF KeptAside
<1>26. ASSUME ~wide, ~Identity(Final) PROVE z.acc = <<At(From(Final), To(Final).width), AccHigh>>
  <2>1. PICK k \in 1..n : rest[k] = Final
    BY <1>1, <1>26 DEF Rest
  <2>2. n \in 1..n /\ n # 0 /\ rest[n] \in 1..Final
    BY <1>1, <1>2, <2>1
  <2>3. ~(k < n)
    <3>1. k < n => rest[k] < rest[n]
      BY <2>2 DEF Increasing
    <3> QED BY <1>1, <2>1, <2>2, <3>1
  <2>4. rest[n] = Final
    BY <2>1, <2>3
  <2>5. P1[n] = From(Final) /\ Q2[n] = To(Final)
    BY <1>31, <1>33, <2>2, <2>4
  <2> QED BY <1>14, <1>21, <1>26, <2>2, <2>5
<1>27. IsCode(FlattenSeq(f)) /\ IsCode(FlattenSeq(g))
  BY <1>11, <1>19 DEF PiecesRun
<1>28. BytesDone(wide, z)
  BY <1>21, <1>22, <1>24, <1>25, <1>26 DEF BytesDone, KeptAside
<1> QED BY <1>12, <1>20, <1>27, <1>28

LEMMA BytesRuns ==
  ASSUME EdgeInv, phase = "plan", strategy = "bytes", StagingClear, NEW wide \in {FALSE, MayUseWords}
  PROVE  IsCode(BytesCode(wide)) /\ \E y : Runs(BytesCode(wide), Origin, y) /\ Good(y)
<1>1. Legal /\ ~WordEdge
  BY DEF EdgeInv, EdgeAt, Planned, BytesPlan
<1>2. wide \in BOOLEAN /\ (wide => MayUseWords)
  BY DEF MayUseWords
<1>3. Rest \in SUBSET Moves
  BY DEF Rest
<1>4. PICK n, rest : n = Cardinality(Rest) /\ rest = InOrder(Rest)
  OBVIOUS
<1>5. Listed(n, rest)
  <2>1. /\ Cardinality(Rest) \in Nat /\ Cardinality(Rest) <= Final
        /\ InOrder(Rest) \in [1..Cardinality(Rest) -> Rest] /\ Increasing(InOrder(Rest), Cardinality(Rest))
        /\ \A i \in Rest : \E k \in 1..Cardinality(Rest) : InOrder(Rest)[k] = i
        /\ \A j, k \in 1..Cardinality(Rest) : InOrder(Rest)[j] = InOrder(Rest)[k] => j = k
    BY <1>1, <1>3, OrderOf
  <2> QED BY <1>4, <2>1 DEF Listed
<1>6. PICK a, f, g, b, d :
        /\ a = IF wide THEN <<Store(Result)>> ELSE <<>>
        /\ f = [k \in 1..n |-> Piecewise(wide, From(rest[k]), Slot(rest[k], To(rest[k]).width))]
        /\ g = [k \in 1..n |-> Piecewise(wide, Slot(rest[k], To(rest[k]).width), To(rest[k]))]
        /\ b = IF wide THEN <<Load(Bytes(Result))>> ELSE <<>>
        /\ d = IF wide \/ Identity(Final) THEN <<LastByte>> ELSE <<>>
  OBVIOUS
<1>7. BytesCode(wide) = a \o FlattenSeq(f) \o FlattenSeq(g) \o b \o d
  <2>1. DOMAIN rest = 1..n
    BY <1>5 DEF Listed
  <2>2. rest = InOrder({i \in Moves : ~Identity(i)})
    BY <1>4 DEF Rest
  <2> QED BY <1>6, <2>1, <2>2 DEF BytesCode
<1>8. IsCode(a) /\ \E x : Runs(a, Origin, x) /\ BytesBegun(wide, x)
  BY <1>1, <1>2, <1>6, BytesBegin
<1>9. PICK x : Runs(a, Origin, x) /\ BytesBegun(wide, x)
  BY <1>8
<1>10. /\ IsCode(FlattenSeq(f)) /\ IsCode(FlattenSeq(g))
       /\ \E y, z : Runs(FlattenSeq(f), x, y) /\ Runs(FlattenSeq(g), y, z) /\ BytesDone(wide, z)
  BY <1>1, <1>2, <1>5, <1>6, <1>9, BytesMoved, ZenonT(60)
<1>11. PICK y, z : Runs(FlattenSeq(f), x, y) /\ Runs(FlattenSeq(g), y, z) /\ BytesDone(wide, z)
  BY <1>10
<1>12. ASSUME ~wide, ~Identity(Final) PROVE Answer(z)
  <2> DEFINE q == To(Final)
             c == At(q, q.width)
  <2>1. Final \in Moves /\ IsPlace(q) /\ q.width \in 1..4 /\ Cells(q) \subseteq Cell /\ \A j \in Moves : j <= Final
    BY <1>1, MoveFacts
  <2>2. c \in Cells(q) /\ Offset(q, c) = q.width /\ c \in Cell
    BY <2>1, CellsOf
  <2>3. c \notin Scratch
    BY <2>1, <2>2 DEF Scratch
  <2>4. Assigned(c) = At(From(Final), Offset(q, c))
    BY <1>1, <2>1, <2>2, AssignedBy
  <2>5. z.memory[c] = At(From(Final), q.width)
    BY <1>11, <2>2, <2>3, <2>4 DEF BytesDone, Placed
  <2>6. z.acc = <<z.memory[c], AccHigh>>
    BY <1>11, <1>12, <2>5 DEF BytesDone
  <2> QED BY <1>1, <2>6, AnswerIs
<1>13. IsCode(b) /\ IsCode(d) /\ \E v, w : Runs(b, z, v) /\ Runs(d, v, w) /\ Good(w)
  <2>1. /\ IsMachine(z) /\ Placed(z) /\ (~wide => z.acc[2] = AccHigh)
        /\ wide => z.memory[At(Result, 1)] = AccLow /\ z.memory[At(Result, 2)] = AccHigh
    BY <1>11 DEF BytesDone, KeptAside
  <2> QED BY <1>1, <1>2, <1>6, <1>12, <2>1, BytesEnd
<1>14. PICK v, w : Runs(b, z, v) /\ Runs(d, v, w) /\ Good(w)
  BY <1>13
<1>15. PICK ff, gg : ff = FlattenSeq(f) /\ gg = FlattenSeq(g)
  OBVIOUS
<1>16. IsCode(a \o ff) /\ Runs(a \o ff, Origin, y)
  BY <1>8, <1>9, <1>10, <1>11, <1>15, Joined, RunsJoined
<1>17. IsCode(a \o ff \o gg) /\ Runs(a \o ff \o gg, Origin, z)
  BY <1>10, <1>11, <1>15, <1>16, Joined, RunsJoined
<1>18. IsCode(a \o ff \o gg \o b) /\ Runs(a \o ff \o gg \o b, Origin, v)
  BY <1>13, <1>14, <1>17, Joined, RunsJoined
<1>19. IsCode(a \o ff \o gg \o b \o d) /\ Runs(a \o ff \o gg \o b \o d, Origin, w)
  BY <1>13, <1>14, <1>18, Joined, RunsJoined
<1> QED BY <1>7, <1>14, <1>15, <1>19
-----------------------------------------------------------------------------
(* Every step keeps the invariant.                                         *)
LEMMA ScheduleKeeps ==
  ASSUME EdgeInv, Schedule
  PROVE  EdgeInv'
<1>1. phase = "plan" /\ Ready # {}
  BY DEF Schedule
<1>2. Planned(strategy, pending, source, staged, code)
  BY <1>1 DEF EdgeInv, EdgeAt
<1>3. pending # {}
  BY <1>1 DEF Ready
<1>4. strategy \in {"pointer", "mixed", "direct"}
  BY <1>2, <1>3 DEF Planned, CapturedPlan, BytesPlan
<1> QED BY <1>4, SchedulePointer, ScheduleMixed, ScheduleDirect

LEMMA EmitKeeps ==
  ASSUME EdgeInv, Emit
  PROVE  EdgeInv'
<1>1. phase = "plan" /\ pending = {} /\ UNCHANGED <<edge, planning, memory, acc>>
  BY DEF Emit
<1>2. CASE ~StagingClear
  <2>1. ~WellAllocated
    BY <1>1, <1>2, NotClear
  <2>2. phase' = "rejected" /\ UNCHANGED <<edge, strategy, staged, memory, acc>>
    BY <1>1, <1>2 DEF Emit, planning
  <2> QED BY <2>1, <2>2, Refused
<1>3. CASE StagingClear
  <2>1. phase' = "run"
    BY <1>3 DEF Emit
  <2>2. IsCode(code') /\ \E y : Runs(code', Origin, y) /\ Good(y)
    <3>1. CASE strategy = "pointer" /\ code' = PointerCode
      BY <1>1, <1>3, <3>1, PointerRuns
    <3>2. CASE strategy = "direct" /\ code' = DirectCode
      BY <1>1, <3>2, DirectRuns
    <3>3. CASE strategy \in {"selective", "complete"} /\ code' = CapturedCode
      BY <1>1, <1>3, <3>3, CapturedRuns
    <3>4. CASE strategy = "mixed" /\ code' = Append(code, LastByte)
      BY <1>1, <1>3, <3>4, MixedRuns
    <3>5. CASE strategy = "bytes" /\ \E wide \in {FALSE, MayUseWords} : code' = BytesCode(wide)
      BY <1>1, <1>3, <3>5, BytesRuns
    <3> QED BY <1>3, <3>1, <3>2, <3>3, <3>4, <3>5 DEF Emit
  <2>3. PICK y : Runs(code', Origin, y) /\ Good(y)
    BY <2>2
  <2> QED BY <1>1, <2>1, <2>2, <2>3, ReadyToRun
<1> QED BY <1>2, <1>3

LEMMA EdgeStep ==
  ASSUME EdgeInv, [Next]_vars
  PROVE  EdgeInv'
<1>1. CASE Choose
  BY <1>1, ChoosePointerKeeps, ChooseWordKeeps, ChooseMixedKeeps, ChooseBytesKeeps DEF Choose
<1>2. CASE Plan
  BY <1>2, ScheduleKeeps, CapturePointerKeeps, CaptureMixedKeeps, GiveUpKeeps, EmitKeeps DEF Plan
<1>3. CASE Execute
  BY <1>3, ExecuteKeeps
<1>4. CASE Arrive
  BY <1>4, ArriveKeeps
<1>5. CASE UNCHANGED vars
  <2>1. UNCHANGED <<edge, phase, strategy, pending, source, staged, code, memory, acc>>
    BY <1>5 DEF vars, planning
  <2>2. Now' = Now
    BY <2>1 DEF Now
  <2>3. EdgeAt(phase', strategy', pending', source', staged', code', Now')
    BY <2>1, <2>2 DEF EdgeInv
  <2> QED BY <2>1, <2>3, EdgeNext
<1> QED BY <1>1, <1>2, <1>3, <1>4, <1>5 DEF Next

LEMMA EdgeInvariant == Spec => []EdgeInv
<1>1. Init => EdgeInv
  BY EdgeStart DEF Init
<1>2. EdgeInv /\ [Next]_vars => EdgeInv'
  BY EdgeStep
<1> QED BY <1>1, <1>2, PTL DEF Spec

(* The target block finds in A what copies in argument order would leave   *)
(* there, whichever planner emit_edge_copies_with_literals chose.          *)
THEOREM AccumulatorContractCorrect == Spec => []AccumulatorContract
<1>1. EdgeInv => AccumulatorContract
  <2> SUFFICES ASSUME EdgeInv, phase = "done" PROVE Answer(Now)
    BY DEF AccumulatorContract, Answer, Now
  <2> QED BY DEF EdgeInv, EdgeAt, Good
<1> QED BY <1>1, EdgeInvariant, PTL

(* No planner gives up on an edge whose destinations lie apart and whose   *)
(* staging pool is clear of its homes.                                     *)
THEOREM WellAllocatedCompilesCorrect == Spec => []WellAllocatedCompiles
<1>1. EdgeInv => WellAllocatedCompiles
  BY DEF EdgeInv, EdgeAt, WellAllocatedCompiles
<1> QED BY <1>1, EdgeInvariant, PTL

(* Whatever order the moves are put in, the first of those that block one  *)
(* another overwrites what a later one, or itself, still has to read.      *)
LEMMA NoSerialOrder ==
  ASSUME Legal, Deadlock(strategy), NEW o \in [1..Cardinality(NotIdentity) -> NotIdentity],
         NotIdentity \subseteq {o[k] : k \in DOMAIN o}, Serial(o)
  PROVE  FALSE
<1>1. PICK P \in SUBSET NotIdentity :
        P # {} /\ \A i \in P : \E j \in P : Overlap(From(j), To(i)) /\ (j # i \/ strategy = "mixed")
  BY DEF Deadlock
<1>2. IsFiniteSet(NotIdentity) /\ Cardinality(NotIdentity) \in Nat
  <2>1. IsFiniteSet(Moves) /\ NotIdentity \in SUBSET Moves
    BY MoveFacts DEF NotIdentity
  <2> QED BY <2>1, FS_Subset, FS_CardinalityType
<1> DEFINE N == Cardinality(NotIdentity)
           Taken == {k \in 1..N : o[k] \in P}
<1>3. DOMAIN o = 1..N /\ \A i \in P : \E k \in 1..N : o[k] = i
  OBVIOUS
<1> HIDE DEF N
<1>4. N \in Nat
  BY <1>2 DEF N
<1>5. Taken \in SUBSET Nat /\ Taken # {}
  <2>1. PICK i \in P : TRUE
    BY <1>1
  <2>2. PICK k \in 1..N : o[k] = i
    BY <1>3
  <2>3. k \in Taken
    BY <2>2
  <2>4. \A h \in Taken : h \in Nat
    BY <1>4
  <2> QED BY <2>3, <2>4
<1>6. PICK m \in Taken : \A k \in Taken : m <= k
  BY <1>5, LeastNumber
<1>7. m \in 1..N /\ o[m] \in P
  BY <1>6
<1>8. PICK j \in P : Overlap(From(j), To(o[m])) /\ (j # o[m] \/ strategy = "mixed")
  BY <1>1, <1>7
<1>9. PICK n \in 1..N : o[n] = j
  BY <1>3
<1>10. n \in Taken /\ m <= n
  BY <1>6, <1>9
<1>11. m < n \/ (m = n /\ strategy = "mixed")
  BY <1>4, <1>7, <1>8, <1>9, <1>10
<1> QED BY <1>3, <1>7, <1>8, <1>9, <1>11 DEF Serial

(* A planner that captured something had no order of plain moves to use.   *)
THEOREM CapturesUnavoidableCorrect == Spec => []CapturesUnavoidable
<1>1. EdgeInv => CapturesUnavoidable
  <2> SUFFICES ASSUME EdgeInv, strategy = "selective" \/ staged # <<>>,
                      NEW o \in [1..Cardinality(NotIdentity) -> NotIdentity],
                      NotIdentity \subseteq {o[k] : k \in DOMAIN o}, Serial(o)
               PROVE  FALSE
    BY DEF CapturesUnavoidable
  <2>1. Legal /\ Deadlock(strategy)
    BY DEF EdgeInv, EdgeAt
  <2> QED BY <2>1, NoSerialOrder
<1> QED BY <1>1, EdgeInvariant, PTL
-----------------------------------------------------------------------------
(* The refinement.                                                         *)
Shown == IF phase = "done" THEN [c \in Cell |-> IF c \in Scratch THEN c ELSE memory[c]] ELSE [c \in Cell |-> c]
Edge == [i \in Moves |-> [from |-> Bytes(From(i)), to |-> Bytes(To(i))]]

LEMMA EdgeFacts ==
  ASSUME Legal
  PROVE  /\ DOMAIN Edge = Moves
         /\ \A i \in Moves : /\ Edge[i].from = Bytes(From(i)) /\ Edge[i].to = Bytes(To(i))
                             /\ DOMAIN Edge[i].to = 1..To(i).width
                             /\ \A k \in 1..To(i).width : Edge[i].to[k] = At(To(i), k) /\ Edge[i].from[k] = At(From(i), k)
<1>1. DOMAIN Edge = Moves /\ \A i \in Moves : Edge[i] = [from |-> Bytes(From(i)), to |-> Bytes(To(i))]
  BY DEF Edge
<1>2. \A i \in Moves : Edge[i].from = Bytes(From(i)) /\ Edge[i].to = Bytes(To(i))
  BY <1>1
<1>3. \A i \in Moves : IsPlace(From(i)) /\ IsPlace(To(i)) /\ From(i).width = To(i).width
  BY MoveFacts
<1>4. \A i \in Moves : /\ DOMAIN Bytes(To(i)) = 1..To(i).width
                       /\ \A k \in 1..To(i).width : Bytes(To(i))[k] = At(To(i), k) /\ Bytes(From(i))[k] = At(From(i), k)
  <2> TAKE i \in Moves
  <2>1. PICK p, q : p = From(i) /\ q = To(i)
    OBVIOUS
  <2>2. IsPlace(p) /\ IsPlace(q) /\ p.width = q.width
    BY <1>3, <2>1
  <2>3. DOMAIN Bytes(q) = 1..q.width /\ \A k \in 1..q.width : Bytes(q)[k] = At(q, k)
    BY <2>2, BytesOf
  <2>4. \A k \in 1..p.width : Bytes(p)[k] = At(p, k)
    BY <2>2, BytesOf
  <2> QED BY <2>1, <2>2, <2>3, <2>4
<1> QED BY <1>1, <1>2, <1>4

(* A byte is written where some destination covers it, last by its owner.  *)
Writes(i, c) == \E k \in DOMAIN Edge[i].to : Edge[i].to[k] = c
Writer(c) == CHOOSE i \in DOMAIN Edge : Writes(i, c) /\ \A j \in DOMAIN Edge : Writes(j, c) => j <= i
Byte1(i, c) == Edge[i].from[CHOOSE k \in DOMAIN Edge[i].to : Edge[i].to[k] = c]

LEMMA WriterOwns ==
  ASSUME Legal, NEW c
  PROVE  /\ (\E i \in DOMAIN Edge : Writes(i, c)) <=> Owner(c) # {}
         /\ Owner(c) # {} => Byte1(Writer(c), c) = Assigned(c)
<1>1. \A i \in Moves : IsPlace(To(i))
  BY MoveFacts
<1>2. Moves = 1..Final /\ Final \in Nat /\ DOMAIN Edge = Moves
  BY MoveFacts, EdgeFacts
<1>3. \A i \in Moves : Writes(i, c) <=> c \in Cells(To(i))
  <2> TAKE i \in Moves
  <2>1. Writes(i, c) <=> \E k \in 1..To(i).width : c = At(To(i), k)
    BY EdgeFacts DEF Writes
  <2>2. PICK q : q = To(i)
    OBVIOUS
  <2>3. c \in Cells(q) <=> \E k \in 1..q.width : c = At(q, k)
    BY <1>1, <2>2, CellsOf
  <2> QED BY <2>1, <2>2, <2>3
<1>4. (\E i \in DOMAIN Edge : Writes(i, c)) <=> Owner(c) # {}
  BY <1>2, <1>3 DEF Owner
<1>5. ASSUME Owner(c) # {} PROVE Byte1(Writer(c), c) = Assigned(c)
  <2>1. PICK i \in Moves : i = Latest(Owner(c)) /\ c \in Cells(To(i)) /\ \A j \in Owner(c) : j <= i
    BY <1>5, OwnerLatest
  <2>2. \A j \in Moves : c \in Cells(To(j)) => j <= i
    BY <2>1 DEF Owner
  <2>3. Writer(c) = i
    <3>1. Writes(i, c) /\ \A j \in DOMAIN Edge : Writes(j, c) => j <= i
      BY <1>2, <1>3, <2>1, <2>2
    <3>2. \A h \in DOMAIN Edge : Writes(h, c) /\ (\A j \in DOMAIN Edge : Writes(j, c) => j <= h) => h = i
      <4> TAKE h \in DOMAIN Edge
      <4> SUFFICES ASSUME Writes(h, c), \A j \in DOMAIN Edge : Writes(j, c) => j <= h PROVE h = i
        OBVIOUS
      <4>1. h <= i /\ i <= h /\ h \in Nat /\ i \in Nat
        BY <1>2, <3>1
      <4> QED BY <4>1
    <3>3. i \in DOMAIN Edge
      BY <1>2
    <3> QED BY <3>1, <3>2, <3>3 DEF Writer
  <2>4. PICK q, p : q = To(i) /\ p = From(i)
    OBVIOUS
  <2>5. IsPlace(q) /\ c \in Cells(q)
    BY <1>1, <2>1, <2>4
  <2>6. /\ Offset(q, c) \in 1..q.width /\ At(q, Offset(q, c)) = c
        /\ \A a, b \in Int : At(q, a) = At(q, b) => a = b
    BY <2>5, CellsOf
  <2>7. DOMAIN Edge[i].to = 1..q.width /\ \A k \in 1..q.width : Edge[i].to[k] = At(q, k) /\ Edge[i].from[k] = At(p, k)
    BY <2>4, EdgeFacts
  <2>8. (CHOOSE k \in DOMAIN Edge[i].to : Edge[i].to[k] = c) = Offset(q, c)
    <3>1. \A k \in 1..q.width : At(q, k) = c <=> k = Offset(q, c)
      BY <2>6
    <3>2. \A k \in DOMAIN Edge[i].to : Edge[i].to[k] = c <=> k = Offset(q, c)
      BY <2>7, <3>1
    <3> QED BY <2>6, <2>7, <3>2
  <2>9. Byte1(i, c) = At(p, Offset(q, c))
    BY <2>6, <2>7, <2>8 DEF Byte1
  <2>10. Assigned(c) = At(From(i), Offset(To(i), c))
    BY <2>1, <2>2, AssignedBy, SMTT(60)
  <2> QED BY <2>3, <2>4, <2>9, <2>10
<1> QED BY <1>4, <1>5

LEMMA ArriveTransfers ==
  ASSUME EdgeInv, Arrive
  PROVE  Abstract!Transfer
<1>1. /\ phase = "run" /\ phase' = "done" /\ UNCHANGED <<edge, code, memory, acc>>
  BY DEF Arrive
<1>2. Legal /\ EdgeInv'
  BY ArriveKeeps DEF EdgeInv, EdgeAt
<1>3. Good(Now)'
  BY <1>1, <1>2 DEF EdgeInv, EdgeAt
<1>4. Scratch' = Scratch /\ \A c : Assigned(c)' = Assigned(c)
  BY <1>1 DEF edge, Scratch, PoolCells, Moves, Assigned, Owner, From, To
<1>5. \A c \in Cell \ Scratch : memory[c] = Assigned(c)
  BY <1>1, <1>3, <1>4 DEF Good, Placed, Now
<1>6. Edge' = Edge
  BY <1>1 DEF edge, Edge, Moves, From, To
<1>7. Shown = [c \in Cell |-> c] /\ Shown' = [c \in Cell |-> IF c \in Scratch THEN c ELSE memory[c]]
  BY <1>1, <1>4 DEF Shown
<1>8. Shown' = [c \in Cell |-> IF \E i \in DOMAIN Edge : Writes(i, c) THEN Byte1(Writer(c), c) ELSE Shown[c]]
  <2>1. ASSUME NEW c \in Cell
        PROVE  (IF c \in Scratch THEN c ELSE memory[c])
                 = IF \E i \in DOMAIN Edge : Writes(i, c) THEN Byte1(Writer(c), c) ELSE Shown[c]
    <3>1. c \in Scratch => Owner(c) = {}
      BY DEF Scratch, Owner
    <3>2. Shown[c] = c
      BY <1>7
    <3>3. Owner(c) = {} => Assigned(c) = c
      BY DEF Assigned
    <3> QED BY <1>2, <1>5, <3>1, <3>2, <3>3, WriterOwns
  <2> QED BY <1>7, <2>1
<1>9. \A b : (IF b \in Cell THEN Shown[b] ELSE b) = b
  BY <1>7
<1> QED BY <1>1, <1>6, <1>8, <1>9
        DEF Abstract!Transfer, Abstract!Written, Abstract!LastWriter, Abstract!ValueOf, Shown, Edge, Writes, Writer, Byte1

LEMMA OthersStutter ==
  ASSUME EdgeInv, [Next]_vars, ~Arrive
  PROVE  UNCHANGED Abstract!vars
<1>1. UNCHANGED edge /\ ((phase # "done" /\ phase' # "done") \/ UNCHANGED <<phase, memory>>)
  <2>1. CASE Choose
    BY <2>1 DEF Choose, ChoosePointer, ChooseWord, ChooseMixed, ChooseBytes, Begin, planning
  <2>2. CASE Plan
    BY <2>2 DEF Plan, Schedule, CapturePointer, CaptureMixed, GiveUpOrder, Emit, planning
  <2>3. CASE Execute
    BY <2>3 DEF Execute
  <2>4. CASE UNCHANGED vars
    BY <2>4 DEF vars, planning
  <2> QED BY <2>1, <2>2, <2>3, <2>4 DEF Next
<1>2. Edge' = Edge /\ Scratch' = Scratch
  BY <1>1 DEF edge, Edge, Moves, From, To, Scratch, PoolCells
<1>3. Shown' = Shown /\ (phase = "done")' = (phase = "done")
  BY <1>1, <1>2 DEF Shown
<1> QED BY <1>2, <1>3 DEF Abstract!vars, Shown, Edge

(* An edge is a simultaneous assignment: whichever planner takes it, and   *)
(* however its homes overlap, the moves it makes happen all at once for    *)
(* every byte that is not a staging slot or the scratch word.              *)
THEOREM CopiesAreParallel == Spec => RefinesParallelAssignment
<1>1. Init => Abstract!Init
  BY DEF Init, Start, Abstract!Init
<1>2. EdgeInv /\ [Next]_vars => [Abstract!Transfer]_(Abstract!vars)
  BY ArriveTransfers, OthersStutter
<1> QED BY <1>1, <1>2, EdgeInvariant, PTL DEF Spec, RefinesParallelAssignment, Abstract!Spec
-----------------------------------------------------------------------------
(* The edges of the 68000, with the homes, operands and slots they have.   *)
CONSTANTS Home, Operand, EdgeSlot
VARIABLES transfer, todo, homes

Edge68k == INSTANCE EdgeCopies68k

LEMMA UpTo ==
  ASSUME NEW c \in Nat, NEW T, 0 \in T, \A k \in 1..c : k - 1 \in T => k \in T
  PROVE  0..c \subseteq T
<1> SUFFICES ASSUME (0..c) \ T # {} PROVE FALSE
  OBVIOUS
<1>1. PICK x \in (0..c) \ T : \A y \in (0..c) \ T : x <= y
  BY LeastNumber, (0..c) \ T \in SUBSET Nat
<1>2. x \in 1..c /\ x - 1 \in 0..c /\ x - 1 < x
  BY <1>1
<1>3. x - 1 \in T
  BY <1>1, <1>2
<1> QED BY <1>1, <1>2, <1>3

LEMMA Concatenated ==
  ASSUME NEW S, NEW a \in Seq(S), NEW b \in Seq(S)
  PROVE  /\ a \o b \in Seq(S) /\ Len(a \o b) = Len(a) + Len(b)
         /\ \A k \in 1..Len(a) : (a \o b)[k] = a[k]
         /\ \A k \in 1..Len(b) : (a \o b)[Len(a) + k] = b[k]
  OBVIOUS

LEMMA Removed ==
  ASSUME NEW S, NEW s \in Seq(S), NEW i \in 1..Len(s)
  PROVE  /\ Edge68k!RemoveAt(s, i) \in Seq(S) /\ Len(Edge68k!RemoveAt(s, i)) = Len(s) - 1
         /\ \A k \in 1..Len(s) - 1 : Edge68k!RemoveAt(s, i)[k] = IF k < i THEN s[k] ELSE s[k + 1]
<1>1. Len(s) \in Nat /\ i - 1 \in 0..Len(s) /\ i + 1 \in 1..Len(s) + 1
  OBVIOUS
<1> DEFINE a == SubSeq(s, 1, i - 1)
           b == SubSeq(s, i + 1, Len(s))
<1>2. a \in Seq(S) /\ Len(a) = i - 1 /\ \A k \in 1..i - 1 : a[k] = s[k]
  BY <1>1
<1>3. b \in Seq(S) /\ Len(b) = Len(s) - i /\ \A k \in 1..Len(s) - i : b[k] = s[i + k]
  BY <1>1
<1>4. Edge68k!RemoveAt(s, i) = a \o b
  BY DEF Edge68k!RemoveAt
<1> HIDE DEF a, b
<1>5. /\ a \o b \in Seq(S) /\ Len(a \o b) = Len(s) - 1
      /\ \A k \in 1..i - 1 : (a \o b)[k] = a[k]
      /\ \A k \in 1..Len(s) - i : (a \o b)[(i - 1) + k] = b[k]
  <2>1. Len(a) + Len(b) = Len(s) - 1
    BY <1>1, <1>2, <1>3
  <2>2. a \in Seq(S) /\ b \in Seq(S) /\ Len(a) = i - 1 /\ Len(b) = Len(s) - i
    BY <1>2, <1>3
  <2>3. a \o b \in Seq(S) /\ Len(a \o b) = Len(a) + Len(b)
    BY <2>2, Concatenated
  <2>4. \A k \in 1..Len(a) : (a \o b)[k] = a[k]
    BY <2>2, Concatenated
  <2>5. \A k \in 1..Len(b) : (a \o b)[Len(a) + k] = b[k]
    BY <2>2, Concatenated
  <2> QED BY <2>1, <2>2, <2>3, <2>4, <2>5
<1>6. ASSUME NEW k \in 1..Len(s) - 1
      PROVE  (a \o b)[k] = IF k < i THEN s[k] ELSE s[k + 1]
  <2>1. CASE k < i
    <3>1. k \in 1..i - 1
      BY <1>1, <2>1
    <3>2. (a \o b)[k] = a[k] /\ a[k] = s[k]
      BY <1>2, <1>5, <3>1
    <3> QED BY <2>1, <3>2
  <2>2. CASE k >= i
    <3>2. k - (i - 1) \in 1..Len(s) - i /\ i + (k - (i - 1)) = k + 1 /\ (i - 1) + (k - (i - 1)) = k
      BY <1>1, <2>2
    <3>1. (a \o b)[k] = b[k - (i - 1)]
      BY <1>5, <3>2
    <3>3. b[k - (i - 1)] = s[k + 1]
      BY <1>3, <3>2
    <3>4. ~(k < i)
      BY <1>1, <2>2
    <3> QED BY <3>1, <3>3, <3>4
  <2>3. k < i \/ k >= i
    BY <1>1
  <2> QED BY <2>1, <2>2, <2>3
<1> QED BY <1>4, <1>5, <1>6

-----------------------------------------------------------------------------
(* The loop that collects the copies with somewhere to go.                 *)
CopyType == [source : Home \cup Operand, destination : Home]
Goes(c) == c.source # c.destination

Collect(K, n, copies) ==
  IF n = 0 THEN <<>>
  ELSE IF copies[n].source = copies[n].destination THEN K[n - 1]
  ELSE Append(K[n - 1], copies[n])
CollectAll(K, copies) == [n \in 0..Len(copies) |-> Collect(K, n, copies)]
CollectBelow(K, n, copies) ==
  /\ K = [k \in 0..Len(copies) |-> K[k]]
  /\ \A k \in 0..n : K[k] = Collect(K, k, copies)

LEMMA CollectMore ==
  ASSUME NEW copies, Len(copies) \in Nat, NEW n \in 1..Len(copies),
         NEW g, CollectBelow(g, n - 1, copies)
  PROVE  \E h : CollectBelow(h, n, copies)
<1> DEFINE h == [k \in 0..Len(copies) |-> IF k = n THEN Collect(g, n, copies) ELSE g[k]]
<1>1. \A k \in 0..Len(copies) : h[k] = IF k = n THEN Collect(g, n, copies) ELSE g[k]
  OBVIOUS
<1>2. h = [k \in 0..Len(copies) |-> h[k]]
  OBVIOUS
<1> HIDE DEF h
<1>3. ASSUME NEW k \in 0..n PROVE h[k] = Collect(h, k, copies)
  <2>1. k \in 0..Len(copies) /\ (k # 0 => k - 1 \in 0..Len(copies) /\ k - 1 # n)
    OBVIOUS
  <2>2. k # 0 => h[k - 1] = g[k - 1]
    BY <1>1, <2>1
  <2>3. Collect(h, k, copies) = Collect(g, k, copies)
    BY <2>2 DEF Collect
  <2>4. CASE k = n
    BY <1>1, <2>1, <2>3, <2>4
  <2>5. CASE k # n
    <3>1. k \in 0..n - 1
      BY <2>5
    <3>2. g[k] = Collect(g, k, copies)
      BY <3>1 DEF CollectBelow
    <3> QED BY <1>1, <2>1, <2>3, <2>5, <3>2
  <2> QED BY <2>4, <2>5
<1> QED BY <1>2, <1>3 DEF CollectBelow

LEMMA MovingIs ==
  ASSUME NEW copies, Len(copies) \in Nat
  PROVE  \E K : /\ \A n \in 0..Len(copies) : K[n] = Collect(K, n, copies)
                /\ Edge68k!Moving(copies) = K[Len(copies)]
<1> DEFINE C == Len(copies)
           T == {n \in 0..C : \E g : CollectBelow(g, n, copies)}
           K == CHOOSE K : K = CollectAll(K, copies)
<1>1. 0 \in T
  <2> DEFINE g == [k \in 0..C |-> <<>>]
  <2>1. g = [k \in 0..C |-> g[k]] /\ g[0] = <<>>
    OBVIOUS
  <2> HIDE DEF g
  <2>2. CollectBelow(g, 0, copies)
    BY <2>1 DEF CollectBelow, Collect
  <2> QED BY <2>2
<1>2. ASSUME NEW n \in 1..C, n - 1 \in T PROVE n \in T
  BY <1>2, CollectMore
<1>3. C \in T
  <2> HIDE DEF T
  <2>1. 0..C \subseteq T
    BY <1>1, <1>2, UpTo
  <2> QED BY <2>1
<1>4. PICK U : CollectBelow(U, C, copies)
  BY <1>3
<1>5. U = CollectAll(U, copies)
  <2>1. \A k \in 0..C : U[k] = Collect(U, k, copies)
    BY <1>4 DEF CollectBelow
  <2>2. U = [k \in 0..C |-> U[k]]
    BY <1>4 DEF CollectBelow
  <2>3. [k \in 0..C |-> U[k]] = [k \in 0..C |-> Collect(U, k, copies)]
    BY <2>1
  <2> QED BY <2>2, <2>3 DEF CollectAll
<1>6. K = CollectAll(K, copies)
  BY <1>5
<1>7. Edge68k!Moving(copies) = K[Len(copies)]
  BY DEF Edge68k!Moving, CollectAll, Collect
<1> HIDE DEF K
<1>8. \A n \in 0..Len(copies) : K[n] = Collect(K, n, copies)
  BY <1>6 DEF CollectAll
<1> QED BY <1>7, <1>8

(* It finds each copy that goes somewhere once, and no other.              *)
FindsAll(s, n, copies) ==
  /\ s \in Seq(CopyType)
  /\ \A k \in DOMAIN s : \E i \in 1..n : s[k] = copies[i]
  /\ \A i \in 1..n : Goes(copies[i]) => \E k \in DOMAIN s : s[k] = copies[i]
  /\ \A j, k \in DOMAIN s : s[j].destination = s[k].destination => j = k

LEMMA MovingFinds ==
  ASSUME NEW copies \in Seq(CopyType),
         \A j, k \in DOMAIN copies : copies[j].destination = copies[k].destination => j = k
  PROVE  FindsAll(Edge68k!Moving(copies), Len(copies), copies)
<1>1. Len(copies) \in Nat /\ DOMAIN copies = 1..Len(copies)
  OBVIOUS
<1>2. PICK K : /\ \A n \in 0..Len(copies) : K[n] = Collect(K, n, copies)
               /\ Edge68k!Moving(copies) = K[Len(copies)]
  BY <1>1, MovingIs
<1> DEFINE T == {n \in 0..Len(copies) : FindsAll(K[n], n, copies)}
<1>3. 0 \in T
  <2>1. K[0] = <<>>
    BY <1>1, <1>2 DEF Collect
  <2>2. <<>> \in Seq(CopyType) /\ DOMAIN <<>> = {}
    OBVIOUS
  <2>3. FindsAll(<<>>, 0, copies)
    BY <2>2 DEF FindsAll
  <2> QED BY <1>1, <2>1, <2>3
<1>4. ASSUME NEW n \in 1..Len(copies), n - 1 \in T PROVE n \in T
  <2>1. FindsAll(K[n - 1], n - 1, copies)
    BY <1>4
  <2>2. K[n] = Collect(K, n, copies) /\ copies[n] \in CopyType
    BY <1>1, <1>2
  <2>3. CASE copies[n].source = copies[n].destination
    <3>1. K[n] = K[n - 1]
      BY <2>2, <2>3 DEF Collect
    <3>2. ASSUME NEW i \in 1..n, Goes(copies[i]) PROVE i \in 1..n - 1
      BY <2>3, <3>2 DEF Goes
    <3> QED BY <2>1, <3>1, <3>2 DEF FindsAll
  <2>4. CASE copies[n].source # copies[n].destination
    <3> DEFINE s == K[n - 1]
    <3>1. K[n] = Append(s, copies[n])
      BY <2>2, <2>4 DEF Collect
    <3>2. s \in Seq(CopyType)
      BY <2>1 DEF FindsAll
    <3>3. /\ K[n] \in Seq(CopyType) /\ Len(K[n]) = Len(s) + 1 /\ Len(s) \in Nat
          /\ \A k \in 1..Len(s) : K[n][k] = s[k]
          /\ K[n][Len(s) + 1] = copies[n]
          /\ DOMAIN s = 1..Len(s) /\ DOMAIN K[n] = 1..Len(s) + 1
      BY <2>2, <3>1, <3>2
    <3>4. \A k \in DOMAIN K[n] : \E i \in 1..n : K[n][k] = copies[i]
      BY <2>1, <3>3, SMTT(60) DEF FindsAll
    <3>5. ASSUME NEW i \in 1..n, Goes(copies[i]) PROVE \E k \in DOMAIN K[n] : K[n][k] = copies[i]
      <4>1. CASE i = n
        BY <3>3, <4>1
      <4>2. CASE i # n
        <5>1. PICK k \in DOMAIN s : s[k] = copies[i]
          BY <2>1, <3>5, <4>2 DEF FindsAll
        <5> QED BY <3>3, <5>1, SMTT(60)
      <4> QED BY <4>1, <4>2
    <3>6. ASSUME NEW k \in 1..Len(s) PROVE K[n][k].destination # copies[n].destination
      <4>1. PICK i \in 1..n - 1 : s[k] = copies[i]
        BY <2>1, <3>3 DEF FindsAll
      <4> QED BY <1>1, <3>3, <4>1, SMTT(60)
    <3>7. ASSUME NEW j \in DOMAIN K[n], NEW k \in DOMAIN K[n],
                 K[n][j].destination = K[n][k].destination
          PROVE  j = k
      <4>1. \A m \in DOMAIN K[n] : m \in 1..Len(s) \/ m = Len(s) + 1
        BY <3>3
      <4>2. CASE j \in 1..Len(s) /\ k \in 1..Len(s)
        <5>1. s[j].destination = s[k].destination
          BY <3>3, <3>7, <4>2
        <5> QED BY <2>1, <3>3, <4>2, <5>1 DEF FindsAll
      <4>3. CASE j = Len(s) + 1 /\ k \in 1..Len(s)
        BY <3>3, <3>6, <3>7, <4>3
      <4>4. CASE j \in 1..Len(s) /\ k = Len(s) + 1
        BY <3>3, <3>6, <3>7, <4>4
      <4> QED BY <4>1, <4>2, <4>3, <4>4
    <3>8. FindsAll(K[n], n, copies)
      BY <3>3, <3>4, <3>5, <3>7 DEF FindsAll
    <3> QED BY <3>8
  <2> QED BY <2>3, <2>4
<1>5. 0..Len(copies) \subseteq T
  <2> HIDE DEF T
  <2> QED BY <1>1, <1>3, <1>4, UpTo
<1> QED BY <1>1, <1>2, <1>5
-----------------------------------------------------------------------------
(* What a parameter still waits for is where its copy's source says.       *)
Given == transfer.copies
Pending == {todo[k].destination : k \in DOMAIN todo}
TodoType ==
  todo \in Seq([source : Home \cup Operand \cup {EdgeSlot[1]}, destination : Home])

OrderInv ==
  /\ TodoType
  /\ \A j, k \in DOMAIN todo : todo[j].destination = todo[k].destination => j = k
  /\ \A k \in DOMAIN todo : \E i \in DOMAIN Given :
       Given[i].destination = todo[k].destination /\ Given[i].source = Edge68k!Contents(todo[k].source)
  /\ \A i \in DOMAIN Given :
       Given[i].destination \notin Pending => homes[Given[i].destination] = Given[i].source
  /\ \A h \in Home : (\A i \in DOMAIN Given : Given[i].destination # h) => homes[h] = h

(* Staging: after m copies the first m slots are filled, and of the last m *)
(* parameters those that m exceeds the number of slots by are written.     *)
StagedCopy(i) ==
  IF i <= Len(Given) THEN Edge68k!Copy(Given[i].source, EdgeSlot[i])
  ELSE Edge68k!Copy(EdgeSlot[i - Len(Given)], Given[i - Len(Given)].destination)
StagedInv ==
  \E m \in 0..Len(Given) + Len(Given) :
    /\ todo \in Seq([source : Edge68k!Spaces \cup Operand, destination : Edge68k!Spaces])
    /\ Len(todo) = Len(Given) + Len(Given) - m
    /\ \A k \in 1..Len(todo) : todo[k] = StagedCopy(m + k)
    /\ \A i \in 1..Len(Given) :
         /\ i <= m => homes[EdgeSlot[i]] = Given[i].source
         /\ i + Len(Given) <= m => homes[Given[i].destination] = Given[i].source
    /\ \A h \in Home :
         (\A i \in 1..Len(Given) : i + Len(Given) <= m => Given[i].destination # h) => homes[h] = h

Asked == [transfer EXCEPT !.taken = FALSE]
TransferInv ==
  /\ transfer \in [copies : Seq(CopyType), allocated : BOOLEAN, taken : BOOLEAN]
  /\ Edge68k!LegalEdge(Asked)
  /\ homes = [place \in Edge68k!Spaces |-> homes[place]]
  /\ IF transfer.allocated THEN OrderInv ELSE StagedInv
  /\ transfer.taken => todo = <<>>

LEMMA LegalFacts ==
  ASSUME NEW t, Edge68k!LegalEdge(t)
  PROVE  /\ t \in [copies : Seq(CopyType), allocated : BOOLEAN, taken : {FALSE}]
         /\ Len(t.copies) \in Nat /\ DOMAIN t.copies = 1..Len(t.copies)
         /\ \A k \in DOMAIN t.copies :
              /\ t.copies[k] \in CopyType
              /\ t.copies[k].source \in Home \cup Operand /\ t.copies[k].destination \in Home
              /\ t.copies[k].source \in Home <=> t.copies[k].source \in Edge68k!Spaces
         /\ \A h \in Home : h \in Edge68k!Spaces /\ h \notin Operand
         /\ \A j \in DOMAIN EdgeSlot : EdgeSlot[j] \in Edge68k!Spaces /\ EdgeSlot[j] \notin Home \cup Operand
         /\ \A o \in Operand : o \notin Edge68k!Spaces
<1>1. t \in [copies : Seq(CopyType), allocated : BOOLEAN, taken : {FALSE}]
  BY DEF Edge68k!LegalEdge, CopyType
<1>2. t.copies \in Seq(CopyType)
  BY <1>1
<1>3. Len(t.copies) \in Nat /\ DOMAIN t.copies = 1..Len(t.copies)
      /\ \A k \in DOMAIN t.copies : t.copies[k] \in CopyType
  BY <1>2
<1>4. \A h \in Home : h \in Edge68k!Spaces /\ h \notin Operand
  BY DEF Edge68k!LegalEdge, Edge68k!Spaces
<1>5. \A j \in DOMAIN EdgeSlot : EdgeSlot[j] \in Edge68k!Spaces /\ EdgeSlot[j] \notin Home \cup Operand
  BY DEF Edge68k!LegalEdge, Edge68k!Spaces
<1>6. \A o \in Operand : o \notin Edge68k!Spaces
  BY DEF Edge68k!LegalEdge, Edge68k!Spaces
<1>7. ASSUME NEW k \in DOMAIN t.copies
      PROVE  /\ t.copies[k].source \in Home \cup Operand /\ t.copies[k].destination \in Home
             /\ t.copies[k].source \in Home <=> t.copies[k].source \in Edge68k!Spaces
  <2>1. t.copies[k] \in CopyType
    BY <1>3
  <2> QED BY <2>1, <1>4, <1>6 DEF CopyType
<1> QED BY <1>1, <1>3, <1>4, <1>5, <1>6, <1>7

LEMMA AskedSame ==
  ASSUME transfer \in [copies : Seq(CopyType), allocated : BOOLEAN, taken : BOOLEAN]
  PROVE  /\ Asked.copies = Given /\ Asked.allocated = transfer.allocated
         /\ transfer.taken = FALSE => Asked = transfer
  BY DEF Asked, Given

LEMMA InitTransfer == Edge68k!Init => TransferInv
<1> SUFFICES ASSUME Edge68k!Init PROVE TransferInv
  OBVIOUS
<1>1. /\ Edge68k!LegalEdge(transfer) /\ todo = Edge68k!Planned(transfer)
      /\ homes = [place \in Edge68k!Spaces |-> place] /\ transfer.taken = FALSE
  BY DEF Edge68k!Init, Edge68k!Start
<1>2. /\ transfer \in [copies : Seq(CopyType), allocated : BOOLEAN, taken : BOOLEAN]
      /\ Edge68k!LegalEdge(Asked)
  <2>1. transfer \in [copies : Seq(CopyType), allocated : BOOLEAN, taken : {FALSE}]
    BY <1>1, LegalFacts
  <2>2. transfer \in [copies : Seq(CopyType), allocated : BOOLEAN, taken : BOOLEAN]
    BY <2>1
  <2>3. Asked = transfer
    BY <1>1, <2>2, AskedSame
  <2> QED BY <1>1, <2>2, <2>3
<1>3. homes = [place \in Edge68k!Spaces |-> homes[place]]
  BY <1>1
<1>4. CASE transfer.allocated
  <2>1. FindsAll(todo, Len(Given), Given)
    <3>1. todo = Edge68k!Moving(Given)
      BY <1>1, <1>4 DEF Edge68k!Planned, Given
    <3>2. Given \in Seq(CopyType)
      BY <1>2 DEF Given
    <3>3. \A j, k \in DOMAIN Given : Given[j].destination = Given[k].destination => j = k
      BY <1>1 DEF Edge68k!LegalEdge, Given
    <3> QED BY <3>1, <3>2, <3>3, MovingFinds
  <2>2. TodoType
    <3>1. todo \in Seq(CopyType)
      BY <2>1 DEF FindsAll
    <3>2. CopyType \subseteq [source : Home \cup Operand \cup {EdgeSlot[1]}, destination : Home]
      BY DEF CopyType
    <3>3. DOMAIN todo = 1..Len(todo) /\ Len(todo) \in Nat /\ \A k \in 1..Len(todo) : todo[k] \in CopyType
      BY <3>1
    <3> DEFINE S == [source : Home \cup Operand \cup {EdgeSlot[1]}, destination : Home]
    <3>4. \A k \in 1..Len(todo) : todo[k] \in S
      BY <3>2, <3>3
    <3> HIDE DEF S
    <3>5. todo = [k \in 1..Len(todo) |-> todo[k]]
      BY <3>1
    <3>6. todo \in Seq(S)
      BY <3>3, <3>4, <3>5
    <3> QED BY <3>6 DEF TodoType, S
  <2>3. \A j, k \in DOMAIN todo : todo[j].destination = todo[k].destination => j = k
    BY <2>1 DEF FindsAll
  <2>4. DOMAIN Given = 1..Len(Given)
    BY <1>1, LegalFacts DEF Given
  <2>5. \A i \in DOMAIN Given : Edge68k!Contents(Given[i].source) = Given[i].source
    BY <1>1, LegalFacts DEF Edge68k!Contents, Given
  <2>6. \A k \in DOMAIN todo : \E i \in DOMAIN Given :
          Given[i].destination = todo[k].destination /\ Given[i].source = Edge68k!Contents(todo[k].source)
    BY <2>1, <2>4, <2>5 DEF FindsAll
  <2>7. ASSUME NEW i \in DOMAIN Given, Given[i].destination \notin Pending
        PROVE  homes[Given[i].destination] = Given[i].source
    <3>1. ~Goes(Given[i])
      BY <2>1, <2>4, <2>7 DEF FindsAll, Pending
    <3>2. Given[i].destination \in Edge68k!Spaces
      BY <1>1, LegalFacts DEF Given
    <3> QED BY <1>1, <3>1, <3>2 DEF Goes
  <2>8. \A h \in Home : homes[h] = h
    BY <1>1, LegalFacts
  <2> QED BY <1>1, <1>2, <1>3, <1>4, <2>2, <2>3, <2>6, <2>7, <2>8 DEF TransferInv, OrderInv
<1>5. CASE ~transfer.allocated
  <2> DEFINE n == Len(Given)
             first == [k \in DOMAIN Given |-> Edge68k!Copy(Given[k].source, EdgeSlot[k])]
             second == [k \in DOMAIN Given |-> Edge68k!Copy(EdgeSlot[k], Given[k].destination)]
             S == [source : Edge68k!Spaces \cup Operand, destination : Edge68k!Spaces]
  <2>1. DOMAIN Given = 1..n /\ n \in Nat /\ DOMAIN Given \subseteq DOMAIN EdgeSlot
    BY <1>1, <1>5, LegalFacts DEF Given, Edge68k!LegalEdge
  <2>2. \A k \in 1..n : /\ Given[k].source \in Edge68k!Spaces \cup Operand
                        /\ Given[k].destination \in Edge68k!Spaces /\ EdgeSlot[k] \in Edge68k!Spaces
    BY <1>1, <2>1, LegalFacts DEF Given
  <2>3. /\ first \in Seq(S) /\ Len(first) = n /\ second \in Seq(S) /\ Len(second) = n
        /\ \A k \in 1..n : first[k] = Edge68k!Copy(Given[k].source, EdgeSlot[k])
        /\ \A k \in 1..n : second[k] = Edge68k!Copy(EdgeSlot[k], Given[k].destination)
    <3>1. \A k \in 1..n : Edge68k!Copy(Given[k].source, EdgeSlot[k]) \in S /\ Edge68k!Copy(EdgeSlot[k], Given[k].destination) \in S
      BY <2>2 DEF Edge68k!Copy
    <3> HIDE DEF S
    <3> QED BY <2>1, <3>1
  <2>4. todo = first \o second
    BY <1>1, <1>5 DEF Edge68k!Planned, Given
  <2> HIDE DEF first, second, S
  <2>5. /\ todo \in Seq(S) /\ Len(todo) = n + n
        /\ \A k \in 1..n : todo[k] = first[k]
        /\ \A k \in 1..n : todo[n + k] = second[k]
    <3>1. todo \in Seq(S) /\ Len(todo) = Len(first) + Len(second)
      BY <2>3, <2>4, Concatenated
    <3>2. \A k \in 1..Len(first) : todo[k] = first[k]
      BY <2>3, <2>4, Concatenated
    <3>3. \A k \in 1..Len(second) : todo[Len(first) + k] = second[k]
      BY <2>3, <2>4, Concatenated
    <3> QED BY <2>3, <3>1, <3>2, <3>3
  <2>6. ASSUME NEW k \in 1..n + n PROVE todo[k] = StagedCopy(0 + k)
    <3>1. CASE k <= n
      BY <2>1, <2>3, <2>5, <3>1 DEF StagedCopy
    <3>2. CASE ~(k <= n)
      <4>1. k - n \in 1..n /\ n + (k - n) = k
        BY <2>1, <3>2
      <4>2. todo[k] = second[k - n]
        BY <2>5, <4>1
      <4>3. second[k - n] = Edge68k!Copy(EdgeSlot[k - n], Given[k - n].destination)
        BY <2>3, <4>1
      <4>4. 0 + k = k
        OBVIOUS
      <4> QED BY <3>2, <4>2, <4>3, <4>4 DEF StagedCopy
    <3> QED BY <3>1, <3>2
  <2>7. \A h \in Home : homes[h] = h
    BY <1>1, LegalFacts
  <2>8. StagedInv
    <3>1. 0 \in 0..n + n /\ n + n - 0 = n + n
      BY <2>1
    <3>2. todo \in Seq([source : Edge68k!Spaces \cup Operand, destination : Edge68k!Spaces])
      BY <2>5 DEF S
    <3>3. \A i \in 1..n : ~(i <= 0) /\ ~(i + n <= 0)
      BY <2>1
    <3> QED BY <2>5, <2>6, <2>7, <3>1, <3>2, <3>3 DEF StagedInv
  <2> QED BY <1>1, <1>2, <1>3, <1>5, <2>8 DEF TransferInv
<1> QED BY <1>4, <1>5
-----------------------------------------------------------------------------
LEMMA TransferFacts ==
  ASSUME TransferInv
  PROVE  /\ Len(Given) \in Nat /\ DOMAIN Given = 1..Len(Given)
         /\ \A k \in DOMAIN Given :
              /\ Given[k].source \in Home \cup Operand /\ Given[k].destination \in Home
              /\ Given[k].source \in Home <=> Given[k].source \in Edge68k!Spaces
         /\ \A h \in Home : h \in Edge68k!Spaces /\ h \notin Operand
         /\ \A j \in DOMAIN EdgeSlot : EdgeSlot[j] \in Edge68k!Spaces /\ EdgeSlot[j] \notin Home \cup Operand
         /\ \A o \in Operand : o \notin Edge68k!Spaces
         /\ \A j, k \in DOMAIN Given : Given[j].destination = Given[k].destination => j = k
         /\ IF transfer.allocated THEN Given # <<>> => 1 \in DOMAIN EdgeSlot
                                  ELSE DOMAIN Given \subseteq DOMAIN EdgeSlot
         /\ \A j, k \in DOMAIN EdgeSlot : EdgeSlot[j] = EdgeSlot[k] => j = k
<1>1. Edge68k!LegalEdge(Asked) /\ Asked.copies = Given /\ Asked.allocated = transfer.allocated
  BY AskedSame DEF TransferInv
<1>2. /\ \A j, k \in DOMAIN Given : Given[j].destination = Given[k].destination => j = k
      /\ IF transfer.allocated THEN Given # <<>> => 1 \in DOMAIN EdgeSlot
                               ELSE DOMAIN Given \subseteq DOMAIN EdgeSlot
      /\ \A j, k \in DOMAIN EdgeSlot : EdgeSlot[j] = EdgeSlot[k] => j = k
  BY <1>1 DEF Edge68k!LegalEdge
<1> QED BY <1>1, <1>2, LegalFacts

LEMMA TodoFacts ==
  ASSUME TransferInv, transfer.allocated
  PROVE  /\ OrderInv
         /\ Len(todo) \in Nat /\ DOMAIN todo = 1..Len(todo)
         /\ \A k \in DOMAIN todo :
              /\ todo[k] = Edge68k!Copy(todo[k].source, todo[k].destination)
              /\ todo[k].source \in Home \cup Operand \cup {EdgeSlot[1]}
              /\ todo[k].destination \in Home
<1>1. OrderInv
  BY DEF TransferInv
<1> DEFINE S == [source : Home \cup Operand \cup {EdgeSlot[1]}, destination : Home]
<1>2. todo \in Seq(S)
  BY <1>1 DEF OrderInv, TodoType
<1>3. Len(todo) \in Nat /\ DOMAIN todo = 1..Len(todo) /\ \A k \in DOMAIN todo : todo[k] \in S
  <2> HIDE DEF S
  <2> QED BY <1>2
<1>4. \A c \in S : /\ c = Edge68k!Copy(c.source, c.destination)
                  /\ c.source \in Home \cup Operand \cup {EdgeSlot[1]} /\ c.destination \in Home
  BY DEF Edge68k!Copy
<1> HIDE DEF S
<1> QED BY <1>1, <1>3, <1>4

(* A move's destination is nobody's source any more.                       *)
LEMMA MoveOrdered ==
  ASSUME TransferInv, Edge68k!Move, transfer.allocated
  PROVE  OrderInv'
<1>1. PICK k \in Edge68k!NextCopy : /\ homes' = [homes EXCEPT ![todo[k].destination] = Edge68k!Contents(todo[k].source)]
                            /\ todo' = Edge68k!RemoveAt(todo, k)
                            /\ transfer' = transfer
  BY DEF Edge68k!Move
<1>2. /\ k \in DOMAIN todo
      /\ \A j \in DOMAIN todo : todo[j].source # todo[k].destination
  BY DEF Edge68k!NextCopy, Edge68k!Ready
<1> DEFINE d == todo[k].destination
           S == [source : Home \cup Operand \cup {EdgeSlot[1]}, destination : Home]
<1>3. todo \in Seq(S) /\ OrderInv
  BY TodoFacts DEF OrderInv, TodoType
<1>4. d \in Home /\ d \in Edge68k!Spaces /\ DOMAIN todo = 1..Len(todo) /\ Len(todo) \in Nat
  BY <1>2, TodoFacts, TransferFacts
<1>5. /\ todo' \in Seq(S) /\ Len(todo') = Len(todo) - 1
      /\ \A j \in 1..Len(todo) - 1 : todo'[j] = IF j < k THEN todo[j] ELSE todo[j + 1]
  <2> HIDE DEF S
  <2> QED BY <1>1, <1>2, <1>3, <1>4, Removed
<1>6. DOMAIN todo' = 1..Len(todo) - 1
  BY <1>4, <1>5
<1> DEFINE old(j) == IF j < k THEN j ELSE j + 1
<1>7. \A j \in DOMAIN todo' : old(j) \in DOMAIN todo /\ old(j) # k /\ todo'[j] = todo[old(j)]
  BY <1>2, <1>4, <1>5, <1>6
<1>8. \A i, j \in DOMAIN todo' : old(i) = old(j) => i = j
  BY <1>2, <1>4, <1>6
<1>9. \A i \in DOMAIN todo : i # k => \E j \in DOMAIN todo' : old(j) = i
  <2> TAKE i \in DOMAIN todo
  <2> HAVE i # k
  <2>1. CASE i < k
    <3>1. i \in DOMAIN todo' /\ old(i) = i
      BY <1>2, <1>4, <1>6, <2>1
    <3> QED BY <3>1
  <2>2. CASE ~(i < k)
    <3>1. i - 1 \in DOMAIN todo' /\ old(i - 1) = i
      BY <1>2, <1>4, <1>6, <2>2
    <3> QED BY <3>1
  <2> QED BY <2>1, <2>2
<1> HIDE DEF old
<1>10. \A p \in Edge68k!Spaces : homes'[p] = IF p = d THEN Edge68k!Contents(todo[k].source) ELSE homes[p]
  <2>1. homes = [place \in Edge68k!Spaces |-> homes[place]]
    BY DEF TransferInv
  <2> QED BY <1>1, <2>1
<1>12. Pending' = Pending \ {d}
  <2>1. \A j \in DOMAIN todo' : todo'[j].destination \in Pending \ {d}
    BY <1>2, <1>3, <1>7 DEF OrderInv, Pending
  <2>2. ASSUME NEW x \in Pending \ {d} PROVE x \in Pending'
    <3>1. PICK i \in DOMAIN todo : x = todo[i].destination /\ i # k
      BY DEF Pending
    <3> QED BY <1>7, <1>9, <3>1 DEF Pending
  <2> QED BY <2>1, <2>2 DEF Pending
<1>13. Given' = Given
  BY <1>1 DEF Given
<1>14. TodoType'
  BY <1>5 DEF TodoType
<1>15. \A i, j \in DOMAIN todo' : todo'[i].destination = todo'[j].destination => i = j
  BY <1>3, <1>7, <1>8 DEF OrderInv
<1>16. ASSUME NEW j \in DOMAIN todo'
       PROVE  \E i \in DOMAIN Given' : /\ Given'[i].destination = todo'[j].destination
                                       /\ Given'[i].source = Edge68k!Contents(todo[j].source)'
  <2>1. PICK i \in DOMAIN Given : /\ Given[i].destination = todo[old(j)].destination
                                  /\ Given[i].source = Edge68k!Contents(todo[old(j)].source)
    BY <1>3, <1>7 DEF OrderInv
  <2>2. Edge68k!Contents(todo[j].source)' = Edge68k!Contents(todo[old(j)].source)
    <3>1. todo'[j].source = todo[old(j)].source /\ todo[old(j)].source # d
      BY <1>2, <1>7
    <3> QED BY <1>10, <3>1 DEF Edge68k!Contents
  <2> QED BY <1>7, <1>13, <2>1, <2>2
<1>17. ASSUME NEW i \in DOMAIN Given, Given[i].destination \notin Pending'
       PROVE  homes'[Given[i].destination] = Given[i].source
  <2>1. Given[i].destination \in Edge68k!Spaces
    BY TransferFacts
  <2>2. CASE Given[i].destination = d
    <3>1. PICK j \in DOMAIN Given : Given[j].destination = d /\ Given[j].source = Edge68k!Contents(todo[k].source)
      BY <1>2, <1>3 DEF OrderInv
    <3>2. i = j
      BY <2>2, <3>1, TransferFacts
    <3> QED BY <1>10, <2>1, <2>2, <3>1, <3>2
  <2>3. CASE Given[i].destination # d
    BY <1>3, <1>10, <1>12, <1>17, <2>1, <2>3 DEF OrderInv
  <2> QED BY <2>2, <2>3
<1>18. ASSUME NEW h \in Home, \A i \in DOMAIN Given : Given[i].destination # h
       PROVE  homes'[h] = h
  <2>1. h # d
    BY <1>2, <1>3, <1>18 DEF OrderInv
  <2>2. homes[h] = h /\ h \in Edge68k!Spaces
    BY <1>3, <1>18, TransferFacts DEF OrderInv
  <2> QED BY <1>10, <2>1, <2>2
<1> QED BY <1>13, <1>14, <1>15, <1>16, <1>17, <1>18 DEF OrderInv

(* When every destination is still a source, there are as many sources as  *)
(* destinations, so each is some copy's home: none waits in the slot.      *)
LEMMA SlotFree ==
  ASSUME TransferInv, transfer.allocated, Edge68k!NextCopy = {}
  PROVE  \A k \in DOMAIN todo : todo[k].source \in Home
<1>0. OrderInv /\ Len(todo) \in Nat /\ DOMAIN todo = 1..Len(todo)
      /\ \A k \in DOMAIN todo : todo[k].destination \in Home
  BY TodoFacts
<1>1. ASSUME NEW k \in DOMAIN todo PROVE \E j \in DOMAIN todo : todo[j].source = todo[k].destination
  <2>1. \A m \in DOMAIN todo : ~Edge68k!Ready(m)
    <3> SUFFICES ASSUME {m \in DOMAIN todo : Edge68k!Ready(m)} # {} PROVE FALSE
      OBVIOUS
    <3>1. {m \in DOMAIN todo : Edge68k!Ready(m)} \in SUBSET Nat
      BY <1>0
    <3>2. PICK m \in {m \in DOMAIN todo : Edge68k!Ready(m)} : \A j \in {i \in DOMAIN todo : Edge68k!Ready(i)} : m <= j
      BY <3>1, LeastNumber
    <3>3. \A j \in 1..(m - 1) : j \in DOMAIN todo /\ ~(m <= j)
      BY <1>0
    <3>4. \A j \in 1..(m - 1) : ~Edge68k!Ready(j)
      BY <3>2, <3>3
    <3> QED BY <3>2, <3>4 DEF Edge68k!NextCopy
  <2> QED BY <2>1 DEF Edge68k!Ready
<1> DEFINE D == DOMAIN todo
           f == [k \in D |-> CHOOSE j \in D : todo[j].source = todo[k].destination]
<1>2. \A k \in D : f[k] \in D /\ todo[f[k]].source = todo[k].destination
  BY <1>1
<1>3. f \in Injection(D, D)
  <2>1. f \in [D -> D]
    BY <1>2
  <2>2. \A j, k \in D : f[j] = f[k] => j = k
    <3> HIDE DEF f
    <3> QED BY <1>0, <1>2 DEF OrderInv
  <2> HIDE DEF f, D
  <2> QED BY <2>1, <2>2 DEF Injection, IsInjective
<1>4. IsFiniteSet(D)
  BY <1>0, FS_Interval
<1>5. f \in Surjection(D, D)
  <2> HIDE DEF f, D
  <2> QED BY <1>3, <1>4, FS_Injection
<1>6. \A j \in D : \E k \in D : f[k] = j
  <2> HIDE DEF f, D
  <2> QED BY <1>5 DEF Surjection
<1> HIDE DEF f
<1> QED BY <1>0, <1>2, <1>6

LEMMA CaptureOrdered ==
  ASSUME TransferInv, Edge68k!Capture
  PROVE  transfer.allocated /\ OrderInv'
<1>1. /\ todo # <<>> /\ Edge68k!NextCopy = {}
      /\ homes' = [homes EXCEPT ![EdgeSlot[1]] = homes[todo[1].destination]]
      /\ todo' = Edge68k!Redirected(todo[1].destination)
      /\ transfer' = transfer
  BY DEF Edge68k!Capture
<1>2. transfer.allocated
  <2> SUFFICES ASSUME ~transfer.allocated PROVE FALSE
    OBVIOUS
  <2>1. 1 \in DOMAIN todo
    BY <1>1 DEF TransferInv, StagedInv
  <2>2. 1 \in Edge68k!NextCopy
    BY <2>1 DEF Edge68k!NextCopy, Edge68k!Ready
  <2> QED BY <1>1, <2>2
<1>3. OrderInv /\ Len(todo) \in Nat /\ DOMAIN todo = 1..Len(todo)
      /\ \A k \in DOMAIN todo :
              /\ todo[k] = Edge68k!Copy(todo[k].source, todo[k].destination)
              /\ todo[k].destination \in Home
  BY <1>2, TodoFacts
<1> DEFINE d == todo[1].destination
           s == EdgeSlot[1]
<1>4. 1 \in DOMAIN todo /\ d \in Home /\ d \in Edge68k!Spaces
  <2>1. Len(todo) # 0
    BY <1>1 DEF TransferInv, OrderInv, TodoType
  <2> QED BY <1>3, <2>1, TransferFacts
<1>5. s \in Edge68k!Spaces /\ s \notin Home \cup Operand
  <2>1. \E i \in DOMAIN Given : TRUE
    BY <1>3, <1>4 DEF OrderInv
  <2>2. 1 \in DOMAIN EdgeSlot
    BY <1>2, <2>1, TransferFacts
  <2> QED BY <2>2, TransferFacts
<1>6. \A k \in DOMAIN todo : todo[k].source \in Home
  BY <1>1, <1>2, SlotFree
<1>7. /\ DOMAIN todo' = DOMAIN todo
      /\ \A k \in DOMAIN todo : /\ todo'[k].destination = todo[k].destination
                                /\ todo'[k].source = IF todo[k].source = d THEN s ELSE todo[k].source
  BY <1>1, <1>3 DEF Edge68k!Redirected, Edge68k!Copy
<1>8. TodoType'
  <2> DEFINE S == [source : Home \cup Operand \cup {EdgeSlot[1]}, destination : Home]
  <2>1. \A k \in 1..Len(todo) : Edge68k!Redirected(d)[k] \in S
    BY <1>3, <1>6 DEF Edge68k!Redirected, Edge68k!Copy
  <2>2. Edge68k!Redirected(d) = [k \in 1..Len(todo) |-> Edge68k!Redirected(d)[k]]
    BY <1>3 DEF Edge68k!Redirected
  <2> HIDE DEF S
  <2>3. Edge68k!Redirected(d) \in Seq(S)
    BY <1>3, <2>1, <2>2
  <2> QED BY <1>1, <2>3 DEF TodoType, S
<1>9. \A p \in Edge68k!Spaces : homes'[p] = IF p = s THEN homes[d] ELSE homes[p]
  <2>1. homes = [place \in Edge68k!Spaces |-> homes[place]]
    BY DEF TransferInv
  <2> QED BY <1>1, <2>1
<1>10. Given' = Given /\ Pending' = Pending
  BY <1>1, <1>7 DEF Given, Pending
<1>11. ASSUME NEW k \in DOMAIN todo PROVE Edge68k!Contents(todo[k].source)' = Edge68k!Contents(todo[k].source)
  <2>1. todo[k].source \in Home /\ todo[k].source \in Edge68k!Spaces /\ todo[k].source # s
    BY <1>5, <1>6, TransferFacts
  <2>2. Edge68k!Contents(todo[k].source) = homes[todo[k].source]
    BY <2>1 DEF Edge68k!Contents
  <2>3. CASE todo[k].source = d
    <3>1. todo'[k].source = s
      BY <1>7, <2>3
    <3>2. Edge68k!Contents(todo[k].source)' = homes'[s]
      BY <1>5, <3>1 DEF Edge68k!Contents
    <3> QED BY <1>5, <1>9, <2>2, <2>3, <3>2
  <2>4. CASE todo[k].source # d
    <3>1. todo'[k].source = todo[k].source
      BY <1>7, <2>4
    <3>2. Edge68k!Contents(todo[k].source)' = homes'[todo[k].source]
      BY <2>1, <3>1 DEF Edge68k!Contents
    <3> QED BY <1>9, <2>1, <2>2, <3>2
  <2> QED BY <2>3, <2>4
<1>12. \A k \in DOMAIN todo' : \E i \in DOMAIN Given' :
         Given'[i].destination = todo'[k].destination /\ Given'[i].source = Edge68k!Contents(todo[k].source)'
  BY <1>3, <1>7, <1>10, <1>11 DEF OrderInv
<1>13. \A h \in Home : homes'[h] = homes[h]
  BY <1>5, <1>9, TransferFacts
<1>14. \A j, k \in DOMAIN todo' : todo'[j].destination = todo'[k].destination => j = k
  BY <1>3, <1>7 DEF OrderInv
<1>15. \A i \in DOMAIN Given' :
         Given'[i].destination \notin Pending' => homes'[Given'[i].destination] = Given'[i].source
  BY <1>3, <1>10, <1>13, TransferFacts DEF OrderInv
<1>16. \A h \in Home : (\A i \in DOMAIN Given' : Given'[i].destination # h) => homes'[h] = h
  BY <1>3, <1>10, <1>13 DEF OrderInv
<1> QED BY <1>2, <1>8, <1>12, <1>14, <1>15, <1>16 DEF OrderInv
(* Staged, copies are made in the order in which they were planned.        *)
LEMMA MoveStaged ==
  ASSUME TransferInv, Edge68k!Move, ~transfer.allocated
  PROVE  StagedInv'
<1> DEFINE n == Len(Given)
           S == [source : Edge68k!Spaces \cup Operand, destination : Edge68k!Spaces]
<1>1. PICK m \in 0..n + n :
        /\ todo \in Seq(S)
        /\ Len(todo) = n + n - m
        /\ \A k \in 1..Len(todo) : todo[k] = StagedCopy(m + k)
        /\ \A i \in 1..n :
             /\ i <= m => homes[EdgeSlot[i]] = Given[i].source
             /\ i + n <= m => homes[Given[i].destination] = Given[i].source
        /\ \A h \in Home :
             (\A i \in 1..n : i + n <= m => Given[i].destination # h) => homes[h] = h
  BY DEF TransferInv, StagedInv
<1>2. n \in Nat /\ Len(todo) \in Nat /\ DOMAIN todo = 1..Len(todo) /\ DOMAIN Given = 1..n
      /\ 1..n \subseteq DOMAIN EdgeSlot
  BY <1>1, TransferFacts
<1>3. PICK k \in Edge68k!NextCopy : /\ homes' = [homes EXCEPT ![todo[k].destination] = Edge68k!Contents(todo[k].source)]
                            /\ todo' = Edge68k!RemoveAt(todo, k)
                            /\ transfer' = transfer
  BY DEF Edge68k!Move
<1>4. k = 1 /\ 1 \in 1..Len(todo)
  <2>1. k \in 1..Len(todo) /\ \A j \in 1..(k - 1) : ~Edge68k!Ready(j)
    BY <1>2 DEF Edge68k!NextCopy
  <2>2. \A j : Edge68k!Ready(j)
    BY DEF Edge68k!Ready
  <2>3. ~(1 \in 1..(k - 1))
    BY <2>1, <2>2
  <2> QED BY <1>2, <2>1, <2>3
<1>5. /\ todo' \in Seq(S) /\ Len(todo') = Len(todo) - 1
      /\ \A j \in 1..Len(todo) - 1 : todo'[j] = todo[j + 1]
  <2> HIDE DEF S
  <2>1. /\ todo' \in Seq(S) /\ Len(todo') = Len(todo) - 1
        /\ \A j \in 1..Len(todo) - 1 : todo'[j] = IF j < k THEN todo[j] ELSE todo[j + 1]
    BY <1>1, <1>3, <1>4, Removed, ZenonT(60)
  <2> QED BY <1>2, <1>4, <2>1
<1>6. Given' = Given /\ \A i : StagedCopy(i)' = StagedCopy(i)
  BY <1>3 DEF Given, StagedCopy
<1>7. m + 1 \in 0..n + n /\ Len(todo') = n + n - (m + 1)
  BY <1>1, <1>2, <1>4, <1>5
<1>8. ASSUME NEW j \in 1..Len(todo') PROVE todo'[j] = StagedCopy((m + 1) + j)
  <2>1. j + 1 \in 1..Len(todo) /\ m + (j + 1) = (m + 1) + j
    BY <1>1, <1>2, <1>5
  <2>2. todo'[j] = todo[j + 1] /\ todo[j + 1] = StagedCopy(m + (j + 1))
    BY <1>1, <1>2, <1>5, <2>1
  <2> QED BY <2>1, <2>2
<1>9. todo[1] = StagedCopy(m + 1)
  BY <1>1, <1>4
<1> DEFINE Done1(h) ==
      /\ \A i \in 1..n :
           /\ i <= m + 1 => h[EdgeSlot[i]] = Given[i].source
           /\ i + n <= m + 1 => h[Given[i].destination] = Given[i].source
      /\ \A p \in Home : (\A i \in 1..n : i + n <= m + 1 => Given[i].destination # p) => h[p] = p
<1>10. homes = [place \in Edge68k!Spaces |-> homes[place]]
  BY DEF TransferInv
<1>11. ASSUME m + 1 <= n PROVE Done1(homes')
  <2> DEFINE s == EdgeSlot[m + 1]
             v == Given[m + 1].source
  <2>1. m + 1 \in 1..n /\ s \in Edge68k!Spaces /\ s \notin Home \cup Operand
    BY <1>1, <1>2, <1>11, TransferFacts, SMTT(60)
  <2>2. todo[1].destination = s /\ todo[1].source = v
    BY <1>9, <1>11 DEF StagedCopy, Edge68k!Copy
  <2>3. Edge68k!Contents(v) = v
    <3>1. \A i \in 1..n : ~(i + n <= m)
      BY <1>1, <1>2, <1>11
    <3>2. v \in Home => homes[v] = v
      BY <1>1, <3>1
    <3> QED BY <1>2, <2>1, <3>2, TransferFacts DEF Edge68k!Contents
  <2>4. \A p \in Edge68k!Spaces : homes'[p] = IF p = s THEN v ELSE homes[p]
    BY <1>3, <1>4, <1>10, <2>2, <2>3
  <2>5. \A p \in Home : homes'[p] = homes[p]
    BY <2>1, <2>4, TransferFacts
  <2>6. ASSUME NEW i \in 1..n, i <= m + 1 PROVE homes'[EdgeSlot[i]] = Given[i].source
    <3>1. EdgeSlot[i] \in Edge68k!Spaces
      BY <1>2, TransferFacts
    <3>2. CASE i = m + 1
      BY <2>4, <3>1, <3>2
    <3>3. CASE i # m + 1
      <4>1. i <= m
        BY <1>1, <1>2, <2>6, <3>3
      <4>2. EdgeSlot[i] # s
        BY <1>2, <2>1, <3>3, TransferFacts
      <4> QED BY <1>1, <2>4, <3>1, <4>1, <4>2
    <3> QED BY <3>2, <3>3
  <2>7. \A i \in 1..n : ~(i + n <= m + 1) \/ i + n <= m
    BY <1>1, <1>2, <1>11
  <2>8. \A i \in 1..n : i + n <= m => i + n <= m + 1
    BY <1>1, <1>2
  <2>9. \A i \in 1..n : Given[i].destination \in Home
    BY <1>2, TransferFacts
  <2> QED BY <1>1, <2>5, <2>6, <2>7, <2>8, <2>9
<1>12. ASSUME ~(m + 1 <= n) PROVE Done1(homes')
  <2> DEFINE t == m + 1 - n
             d == Given[t].destination
             v == Given[t].source
  <2>1. t \in 1..n /\ t <= m /\ t + n = m + 1 /\ m + 1 - n = t
    BY <1>1, <1>2, <1>4, <1>12
  <2>2. d \in Home /\ d \in Edge68k!Spaces /\ EdgeSlot[t] \in Edge68k!Spaces
    BY <1>2, <2>1, TransferFacts
  <2>3. todo[1].destination = d /\ todo[1].source = EdgeSlot[t]
    BY <1>9, <1>12 DEF StagedCopy, Edge68k!Copy
  <2>4. Edge68k!Contents(EdgeSlot[t]) = v
    BY <1>1, <2>1, <2>2 DEF Edge68k!Contents
  <2> HIDE DEF t
  <2>5. \A p \in Edge68k!Spaces : homes'[p] = IF p = d THEN v ELSE homes[p]
    BY <1>3, <1>4, <1>10, <2>3, <2>4
  <2>6. ASSUME NEW i \in 1..n, i <= m + 1 PROVE homes'[EdgeSlot[i]] = Given[i].source
    <3>1. EdgeSlot[i] \in Edge68k!Spaces /\ EdgeSlot[i] # d
      BY <1>2, <2>2, TransferFacts
    <3>2. i <= m
      BY <1>1, <1>2, <1>12
    <3> QED BY <1>1, <2>5, <3>1, <3>2
  <2>7. ASSUME NEW i \in 1..n, i + n <= m + 1 PROVE homes'[Given[i].destination] = Given[i].source
    <3>1. Given[i].destination \in Home /\ Given[i].destination \in Edge68k!Spaces
      BY <1>2, TransferFacts
    <3>2. CASE i = t
      BY <2>5, <3>1, <3>2
    <3>3. CASE i # t
      <4>1. i + n <= m
        BY <1>1, <1>2, <2>1, <2>7, <3>3
      <4>2. Given[i].destination # d
        BY <1>2, <2>1, <3>3, TransferFacts
      <4> QED BY <1>1, <2>5, <3>1, <4>1, <4>2
    <3> QED BY <3>2, <3>3
  <2>8. ASSUME NEW p \in Home, \A i \in 1..n : i + n <= m + 1 => Given[i].destination # p
        PROVE  homes'[p] = p
    <3>1. \A i \in 1..n : i + n <= m => i + n <= m + 1
      BY <1>1, <1>2
    <3>2. homes[p] = p
      BY <1>1, <2>8, <3>1
    <3>3. p # d /\ p \in Edge68k!Spaces
      BY <2>1, <2>8, TransferFacts, <1>1, <1>2
    <3> QED BY <2>5, <3>2, <3>3
  <2> QED BY <2>6, <2>7, <2>8
<1>13. Done1(homes')
  BY <1>11, <1>12
<1>14. n' = n /\ DOMAIN Given' = DOMAIN Given
  BY <1>6
<1> HIDE DEF n
<1> QED BY <1>5, <1>6, <1>7, <1>8, <1>13, <1>14, ZenonT(60) DEF StagedInv, n

LEMMA NextTransfer == TransferInv /\ [Edge68k!Next]_(Edge68k!vars) => TransferInv'
<1> SUFFICES ASSUME TransferInv, [Edge68k!Next]_(Edge68k!vars) PROVE TransferInv'
  OBVIOUS
<1>1. CASE Edge68k!Move \/ Edge68k!Capture
  <2>1. transfer' = transfer /\ transfer.taken = FALSE
    <3>1. todo # <<>>
      <4>1. CASE Edge68k!Capture
        BY <4>1 DEF Edge68k!Capture
      <4>2. CASE Edge68k!Move
        BY <4>2 DEF Edge68k!Move, Edge68k!NextCopy
      <4> QED BY <1>1, <4>1, <4>2
    <3> QED BY <1>1, <3>1 DEF Edge68k!Move, Edge68k!Capture, TransferInv
  <2>2. homes' = [place \in Edge68k!Spaces |-> homes'[place]]
    <3>1. \E p, v : homes' = [homes EXCEPT ![p] = v]
      BY <1>1 DEF Edge68k!Move, Edge68k!Capture
    <3> QED BY <3>1 DEF TransferInv
  <2>3. IF transfer.allocated THEN OrderInv' ELSE StagedInv'
    BY <1>1, MoveOrdered, MoveStaged, CaptureOrdered
  <2>4. Edge68k!LegalEdge(Asked)'
    BY <2>1 DEF Edge68k!LegalEdge, Asked, TransferInv
  <2> QED BY <2>1, <2>2, <2>3, <2>4 DEF TransferInv, Edge68k!Spaces
<1>2. CASE Edge68k!Jump
  <2>1. todo' = todo /\ homes' = homes /\ todo = <<>>
        /\ transfer' = [transfer EXCEPT !.taken = TRUE]
    BY <1>2 DEF Edge68k!Jump
  <2>2. /\ transfer' \in [copies : Seq(CopyType), allocated : BOOLEAN, taken : BOOLEAN]
        /\ Given' = Given /\ transfer'.allocated = transfer.allocated /\ Asked' = Asked
    BY <2>1 DEF TransferInv, Given, Asked
  <2>3. Edge68k!LegalEdge(Asked)'
    BY <2>2 DEF Edge68k!LegalEdge, TransferInv
  <2>4. OrderInv => OrderInv'
    BY <2>1, <2>2 DEF OrderInv, TodoType, Pending, Edge68k!Contents
  <2>5. StagedInv => StagedInv'
    BY <2>1, <2>2 DEF StagedInv, StagedCopy
  <2> QED BY <2>1, <2>2, <2>3, <2>4, <2>5 DEF TransferInv
<1>3. CASE UNCHANGED Edge68k!vars
  <2>1. transfer' = transfer /\ todo' = todo /\ homes' = homes
    BY <1>3 DEF Edge68k!vars
  <2>2. OrderInv => OrderInv'
    BY <2>1 DEF OrderInv, TodoType, Pending, Edge68k!Contents, Given
  <2>3. StagedInv => StagedInv'
    BY <2>1, ZenonT(60) DEF StagedInv, StagedCopy, Given
  <2>4. Edge68k!LegalEdge(Asked)'
    BY <2>1 DEF Edge68k!LegalEdge, Asked, TransferInv
  <2> QED BY <2>1, <2>2, <2>3, <2>4 DEF TransferInv
<1> QED BY <1>1, <1>2, <1>3 DEF Edge68k!Next
-----------------------------------------------------------------------------
LEMMA NothingLeft ==
  ASSUME TransferInv, todo = <<>>
  PROVE  /\ \A i \in DOMAIN Given : homes[Given[i].destination] = Given[i].source
         /\ \A h \in Home : (\A i \in DOMAIN Given : Given[i].destination # h) => homes[h] = h
<1>1. CASE transfer.allocated
  <2>1. OrderInv /\ Pending = {}
    BY <1>1 DEF TransferInv, Pending
  <2> QED BY <2>1 DEF OrderInv
<1>2. CASE ~transfer.allocated
  <2>1. StagedInv
    BY <1>2 DEF TransferInv
  <2>2. Len(Given) \in Nat /\ DOMAIN Given = 1..Len(Given)
    BY TransferFacts
  <2>3. PICK m \in 0..Len(Given) + Len(Given) :
          /\ Len(todo) = Len(Given) + Len(Given) - m
          /\ \A i \in 1..Len(Given) :
               i + Len(Given) <= m => homes[Given[i].destination] = Given[i].source
          /\ \A h \in Home :
               (\A i \in 1..Len(Given) : i + Len(Given) <= m => Given[i].destination # h) => homes[h] = h
    BY <2>1 DEF StagedInv
  <2>4. Len(todo) = 0
    OBVIOUS
  <2>5. m = Len(Given) + Len(Given)
    BY <2>2, <2>3, <2>4
  <2>6. \A i \in 1..Len(Given) : i + Len(Given) <= m
    BY <2>2, <2>5
  <2> QED BY <2>2, <2>3, <2>6
<1> QED BY <1>1, <1>2

Copies68k == [k \in DOMAIN transfer.copies |->
            [from |-> <<transfer.copies[k].source>>, to |-> <<transfer.copies[k].destination>>]]
Shown68k == IF transfer.taken THEN [h \in Home |-> homes[h]] ELSE [h \in Home |-> h]
Writes68k(i, h) == \E k \in DOMAIN Copies68k[i].to : Copies68k[i].to[k] = h
Writer68k(h) == CHOOSE i \in DOMAIN Copies68k : Writes68k(i, h) /\ \A j \in DOMAIN Copies68k : Writes68k(j, h) => j <= i
Sent68k(i, h) == Copies68k[i].from[CHOOSE k \in DOMAIN Copies68k[i].to : Copies68k[i].to[k] = h]

LEMMA OneWriter ==
  ASSUME TransferInv, NEW h \in Home
  PROVE  /\ (\E i \in DOMAIN Copies68k : Writes68k(i, h)) <=> \E i \in DOMAIN Given : Given[i].destination = h
         /\ \A i \in DOMAIN Given : Given[i].destination = h => Sent68k(Writer68k(h), h) = Given[i].source
<1>1. DOMAIN Copies68k = DOMAIN Given
  BY DEF Copies68k, Given
<1>2. \A i \in DOMAIN Given :
        Copies68k[i].from = <<Given[i].source>> /\ Copies68k[i].to = <<Given[i].destination>>
  BY DEF Copies68k, Given
<1>3. \A i \in DOMAIN Given : Writes68k(i, h) <=> Given[i].destination = h
  <2> TAKE i \in DOMAIN Given
  <2>1. DOMAIN Copies68k[i].to = {1} /\ Copies68k[i].to[1] = Given[i].destination
    BY <1>2
  <2> QED BY <2>1 DEF Writes68k
<1>4. ASSUME NEW i \in DOMAIN Given, Given[i].destination = h
      PROVE  Sent68k(Writer68k(h), h) = Given[i].source
  <2>1. \A j \in DOMAIN Copies68k : Writes68k(j, h) => j = i
    BY <1>1, <1>3, <1>4, TransferFacts
  <2>2. i <= i
    BY TransferFacts
  <2>3. Writer68k(h) = i
    BY <1>1, <1>3, <1>4, <2>1, <2>2 DEF Writer68k
  <2>4. DOMAIN Copies68k[i].to = {1} /\ Copies68k[i].to[1] = h /\ Copies68k[i].from[1] = Given[i].source
    BY <1>2, <1>4
  <2>5. (CHOOSE k \in DOMAIN Copies68k[i].to : Copies68k[i].to[k] = h) = 1
    BY <2>4, SMTT(60)
  <2> QED BY <2>3, <2>4, <2>5 DEF Sent68k
<1> QED BY <1>1, <1>3, <1>4

LEMMA JumpTransfers ==
  ASSUME TransferInv, Edge68k!Jump
  PROVE  Edge68k!Assignment!Transfer
<1>1. todo = <<>> /\ transfer.taken = FALSE /\ transfer' = [transfer EXCEPT !.taken = TRUE] /\ homes' = homes
  BY DEF Edge68k!Jump, TransferInv
<1>2. transfer'.taken = TRUE /\ transfer'.copies = transfer.copies
  BY <1>1 DEF TransferInv
<1>3. Copies68k' = Copies68k
  BY <1>2 DEF Copies68k
<1>4. Shown68k = [h \in Home |-> h] /\ Shown68k' = [h \in Home |-> homes[h]]
  BY <1>1, <1>2 DEF Shown68k
<1>5. Shown68k' = [h \in Home |-> IF \E i \in DOMAIN Copies68k : Writes68k(i, h) THEN Sent68k(Writer68k(h), h) ELSE Shown68k[h]]
  <2>1. ASSUME NEW h \in Home
        PROVE  homes[h] = IF \E i \in DOMAIN Copies68k : Writes68k(i, h) THEN Sent68k(Writer68k(h), h) ELSE Shown68k[h]
    <3>1. Shown68k[h] = h
      BY <1>4
    <3> QED BY <1>1, <3>1, OneWriter, NothingLeft
  <2> QED BY <1>4, <2>1
<1>6. \A b : (IF b \in Home THEN Shown68k[b] ELSE b) = b
  BY <1>4
<1> QED BY <1>1, <1>2, <1>3, <1>5, <1>6
        DEF Edge68k!Assignment!Transfer, Edge68k!Assignment!Written, Edge68k!Assignment!LastWriter, Edge68k!Assignment!ValueOf, Shown68k, Copies68k,
            Writes68k, Writer68k, Sent68k

LEMMA CopyStutters ==
  ASSUME TransferInv, [Edge68k!Next]_(Edge68k!vars), ~Edge68k!Jump
  PROVE  UNCHANGED Edge68k!Assignment!vars
<1>1. transfer' = transfer /\ (transfer.taken => homes' = homes)
  <2>1. CASE Edge68k!Move
    <3>1. todo # <<>>
      BY <2>1 DEF Edge68k!Move, Edge68k!NextCopy
    <3> QED BY <2>1, <3>1 DEF Edge68k!Move, TransferInv
  <2>2. CASE Edge68k!Capture
    BY <2>2 DEF Edge68k!Capture, TransferInv
  <2>3. CASE UNCHANGED Edge68k!vars
    BY <2>3 DEF Edge68k!vars
  <2> QED BY <2>1, <2>2, <2>3 DEF Edge68k!Next
<1>2. Copies68k' = Copies68k /\ Shown68k' = Shown68k
  BY <1>1 DEF Copies68k, Shown68k
<1> QED BY <1>1, <1>2 DEF Edge68k!Assignment!vars, Copies68k, Shown68k

(* An edge of the 68000 is a simultaneous assignment, for any number of    *)
(* parameters and whatever homes and cycles their copies form: with a slot *)
(* for each, or with registers allocated and one slot for all the cycles.  *)
THEOREM EdgesAreParallel68k == Edge68k!Spec => Edge68k!RefinesParallelAssignment
<1>1. Edge68k!Init => Edge68k!Assignment!Init
  BY DEF Edge68k!Init, Edge68k!Start, Edge68k!Assignment!Init
<1>2. TransferInv /\ [Edge68k!Next]_(Edge68k!vars) => [Edge68k!Assignment!Transfer]_(Edge68k!Assignment!vars)
  BY JumpTransfers, CopyStutters
<1> QED BY <1>1, <1>2, InitTransfer, NextTransfer, PTL
        DEF Edge68k!Spec, Edge68k!RefinesParallelAssignment, Edge68k!Assignment!Spec
-----------------------------------------------------------------------------
(* The memory helpers.  When a call has transferred the bytes from lo to   *)
(* hi - 1 of its extent, memory is as it was apart from these, which hold  *)
(* what they should in the end.                                            *)
CONSTANTS Bank, Banks, Zero, Byte, Disturbed
VARIABLES call, work, bytes

Helper == INSTANCE MemoryHelpers

Stored(k) ==
  CASE call.op = "move" -> call.source + k
    [] call.op = "clear" -> Zero
    [] call.op = "fill" -> Byte
Filled(lo, hi) ==
  [a \in Helper!Address |-> IF a - call.destination \in lo..(hi - 1) THEN Stored(a - call.destination) ELSE a]

(* A move goes away from what it has still to read.                        *)
Away ==
  IF work.back THEN call.op = "move" /\ call.source < call.destination
               ELSE call.op = "move" => call.destination < call.source

AtEntry ==
  /\ work.at = "entry" /\ ~work.back
  /\ work.dest = call.destination /\ work.source = call.source /\ work.left = call.length
  /\ bytes = Filled(0, 0)
AtChunk ==
  /\ work.at = "chunk" /\ Away /\ work.left <= call.length
  /\ LET o == IF work.back THEN work.left ELSE call.length - work.left
     IN /\ work.dest = (call.destination + o) % Helper!Size
        /\ work.source = (call.source + o) % Helper!Size
  /\ bytes = IF work.back THEN Filled(work.left, call.length) ELSE Filled(0, call.length - work.left)
AtCopy ==
  /\ work.at = "copy" /\ Away /\ work.left <= call.length
  /\ work.chunk \in 1..work.left /\ work.chunk < Bank /\ work.x <= work.chunk
  /\ work.y = IF work.back THEN work.x ELSE work.chunk - work.x
  /\ LET o == IF work.back THEN work.left - work.chunk ELSE call.length - work.left
     IN /\ work.dest = call.destination + o /\ work.source = call.source + o
        /\ bytes = IF work.back THEN Filled(o + work.y, call.length) ELSE Filled(0, o + work.y)
AtReturn == work.at = "return" /\ bytes = Filled(0, call.length)

WorkType ==
  [at : {"entry", "chunk", "copy", "return"}, dest : Int, source : Int, left : Nat,
   back : BOOLEAN, chunk : Nat, x : Nat, y : Nat]
HelperInv ==
  /\ call \in Helper!Calls
  /\ work \in WorkType
  /\ AtEntry \/ AtChunk \/ AtCopy \/ AtReturn

LEMMA SizeNat == ASSUME Helper!SizesFit PROVE Helper!Size \in Nat \ {0}
  BY DEF Helper!SizesFit, Helper!Size

LEMMA CallFacts ==
  ASSUME call \in Helper!Calls, Helper!SizesFit
  PROVE  /\ call.destination \in Nat /\ call.source \in Nat /\ call.length \in Nat
         /\ call.destination + call.length <= Helper!Size
         /\ call.source + call.length <= Helper!Size
         /\ call.op \in {"move", "clear", "fill"}
         /\ call.destination < Helper!Size /\ call.source < Helper!Size
  BY SizeNat DEF Helper!Calls, Helper!Address

LEMMA Sliding == ASSUME NEW a \in Int, NEW d \in Int, NEW k \in Int PROVE a = d + k <=> a - d = k
  OBVIOUS

LEMMA Within ==
  ASSUME NEW s \in Nat, NEW k \in Nat, NEW l \in Nat, NEW z \in Nat, k < l, s + l <= z
  PROVE  s + k \in 0..(z - 1)
  OBVIOUS

LEMMA Wrap == ASSUME NEW m \in Nat \ {0}, NEW p \in 0..m - 1 PROVE p % m = p
  OBVIOUS

LEMMA Stays == ASSUME NEW m \in Nat \ {0}, NEW p \in Nat, p < m PROVE (p + 0) % m = p
<1>1. p + 0 = p /\ p \in 0..m - 1
  OBVIOUS
<1> QED BY <1>1, Wrap

(* A pointer at the end of memory wraps to its start, and comes back.      *)
LEMMA Wraps ==
  ASSUME NEW m \in Nat \ {0}, NEW p \in Nat, NEW c \in Nat, p <= m
  PROVE  /\ (p % m) \in Nat
         /\ 1 <= c /\ c <= p => ((p % m) - c) % m = p - c
         /\ p < m => p % m = p
<1>1. CASE p = m
  <2>1. p % m = 0
    BY <1>1
  <2>2. 1 <= c /\ c <= p => (0 - c) % m = m - c
    BY <1>1
  <2> QED BY <1>1, <2>1, <2>2
<1>2. CASE p < m
  <2>1. p % m = p
    BY <1>2, Wrap
  <2>2. c <= p => p - c \in 0..m - 1
    BY <1>2
  <2>3. c <= p => (p - c) % m = p - c
    BY <2>2, Wrap
  <2> QED BY <1>2, <2>1, <2>3
<1> QED BY <1>1, <1>2

(* A transfer at offset t within the extent, from bytes not yet written.   *)
LEMMA TransferWrites ==
  ASSUME call \in Helper!Calls, Helper!SizesFit,
         NEW lo \in Nat, NEW hi \in Nat, bytes = Filled(lo, hi),
         NEW o \in Nat, work.dest = call.destination + o, work.source = call.source + o,
         NEW y \in Nat, NEW n \in Nat, o + y + n <= call.length,
         call.op = "move" =>
           \A k \in (o + y)..((o + y + n) - 1) : (call.source + k) - call.destination \notin lo..(hi - 1),
         Helper!Transfer(y, n)
  PROVE  bytes' = [a \in Helper!Address |->
                     IF a - call.destination \in (o + y)..((o + y + n) - 1)
                       THEN Stored(a - call.destination) ELSE bytes[a]]
<1> DEFINE Reached(pointer) == {(pointer + y + k) % Helper!Size : k \in 0..(n - 1)}
           Beside == (IF call.op = "move" THEN Reached(work.source) ELSE {}) \ Helper!Objects
<1>1. /\ Helper!Size \in Nat \ {0} /\ Helper!Address = 0..(Helper!Size - 1)
      /\ call.destination \in Nat /\ call.source \in Nat /\ call.length \in Nat
      /\ call.destination + call.length <= Helper!Size
      /\ call.source + call.length <= Helper!Size
      /\ call.op \in {"move", "clear", "fill"}
  BY SizeNat, CallFacts DEF Helper!Address
<1>2. ASSUME NEW base \in Nat, base + call.length <= Helper!Size
      PROVE  Reached(base + o) = {base + k : k \in (o + y)..((o + y + n) - 1)}
  <2>1. ASSUME NEW k \in 0..(n - 1)
        PROVE  (base + o + y + k) % Helper!Size = base + (o + y + k) /\ o + y + k \in (o + y)..((o + y + n) - 1)
    <3>1. base + o + y + k \in 0..Helper!Size - 1 /\ base + o + y + k = base + (o + y + k)
      BY <1>1, <1>2
    <3>2. (base + o + y + k) % Helper!Size = base + o + y + k
      BY <1>1, <3>1, Wrap
    <3>3. o + y + k \in (o + y)..((o + y + n) - 1)
      OBVIOUS
    <3> QED BY <3>1, <3>2, <3>3
  <2>2. ASSUME NEW j \in (o + y)..((o + y + n) - 1)
        PROVE  j - (o + y) \in 0..(n - 1) /\ o + y + (j - (o + y)) = j
    OBVIOUS
  <2>3. Reached(base + o) \subseteq {base + k : k \in (o + y)..((o + y + n) - 1)}
    BY <2>1
  <2>4. ASSUME NEW j \in (o + y)..((o + y + n) - 1) PROVE base + j \in Reached(base + o)
    <3>1. PICK k \in 0..(n - 1) : o + y + k = j
      BY <2>2
    <3>2. (base + o + y + k) % Helper!Size = base + j
      BY <2>1, <3>1
    <3> QED BY <3>2
  <2> QED BY <2>3, <2>4
<1>3. Reached(work.dest) = {call.destination + k : k \in (o + y)..((o + y + n) - 1)}
  <2> HIDE DEF Reached
  <2> QED BY <1>1, <1>2
<1>4. Reached(work.source) = {call.source + k : k \in (o + y)..((o + y + n) - 1)}
  <2> HIDE DEF Reached
  <2> QED BY <1>1, <1>2
<1>5. Beside = {}
  <2>1. CASE call.op = "move"
    <3>1. Helper!Extent(call.source) \subseteq Helper!Objects
      BY <2>1 DEF Helper!Objects
    <3>2. ASSUME NEW k \in (o + y)..((o + y + n) - 1) PROVE call.source + k \in Helper!Extent(call.source)
      <4>1. k \in 0..(call.length - 1)
        BY <1>1, SMTT(60)
      <4> QED BY <4>1 DEF Helper!Extent
    <3> QED BY <1>4, <3>1, <3>2
  <2>2. CASE call.op # "move"
    BY <2>2
  <2> QED BY <2>1, <2>2
<1>6. bytes' = [a \in Helper!Address |->
        IF a \in Reached(work.dest)
          THEN Helper!Value((work.source + (a - work.dest)) % Helper!Size)
          ELSE IF a \in Beside THEN Disturbed ELSE bytes[a]]
  BY DEF Helper!Transfer
<1> HIDE DEF Reached, Beside
<1>7. ASSUME NEW a \in Helper!Address
      PROVE  a \in Reached(work.dest) <=> a - call.destination \in (o + y)..((o + y + n) - 1)
  <2>1. \A k \in (o + y)..((o + y + n) - 1) : a = call.destination + k <=> a - call.destination = k
    <3>1. a \in Int /\ call.destination \in Int
      BY <1>1
    <3> QED BY <3>1, Sliding
  <2> QED BY <1>1, <1>3, <2>1
<1>8. ASSUME NEW a \in Helper!Address, a - call.destination \in (o + y)..((o + y + n) - 1)
      PROVE  Helper!Value((work.source + (a - work.dest)) % Helper!Size) = Stored(a - call.destination)
  <2>1. PICK k \in (o + y)..((o + y + n) - 1) : k = a - call.destination
    BY <1>8
  <2>2. k \in Nat /\ k < call.length
    BY <1>1
  <2>3. PICK c \in Helper!Address : c = call.source + k
    <3>1. call.source + k \in 0..(Helper!Size - 1)
      <4>1. Helper!Size \in Nat
        BY <1>1
      <4>2. /\ call.source \in Nat /\ call.length \in Nat
            /\ call.source + call.length <= Helper!Size
        BY <1>1
      <4> QED BY <4>1, <4>2, <2>2, Within
    <3> QED BY <1>1, <3>1
  <2>4. work.source + (a - work.dest) = c
    <3>1. a \in Int /\ a = call.destination + k
      BY <1>1, <2>1, SMTT(60)
    <3>2. a - work.dest = k - o
      BY <1>1, <3>1, SMTT(60)
    <3> QED BY <1>1, <2>3, <3>2, SMTT(60)
  <2>5. (work.source + (a - work.dest)) % Helper!Size = c
    BY <1>1, <2>4, Wrap
  <2>6. CASE call.op = "move"
    <3>3. \A j \in (o + y)..((o + y + n) - 1) : (call.source + j) - call.destination \notin lo..(hi - 1)
      BY <2>6, Zenon
    <3>1. c - call.destination \notin lo..(hi - 1)
      BY <2>3, <3>3, Zenon
    <3>2. bytes[c] = c
      BY <3>1 DEF Filled
    <3> QED BY <2>1, <2>3, <2>5, <2>6, <3>2 DEF Helper!Value, Stored
  <2>7. CASE call.op = "clear"
    BY <2>7 DEF Helper!Value, Stored
  <2>8. CASE call.op = "fill"
    BY <2>8 DEF Helper!Value, Stored
  <2> QED BY <1>1, <2>6, <2>7, <2>8
<1>9. ASSUME NEW a \in Helper!Address
      PROVE  (IF a \in Reached(work.dest)
                THEN Helper!Value((work.source + (a - work.dest)) % Helper!Size)
                ELSE IF a \in Beside THEN Disturbed ELSE bytes[a])
             = IF a - call.destination \in (o + y)..((o + y + n) - 1)
                 THEN Stored(a - call.destination) ELSE bytes[a]
  BY <1>5, <1>7, <1>8
<1> QED BY <1>6, <1>9

LEMMA FillMore ==
  ASSUME call \in Helper!Calls, Helper!SizesFit,
         NEW lo \in Nat, NEW hi \in Nat, NEW mid \in Nat, lo <= mid, mid <= hi
  PROVE  /\ [a \in Helper!Address |->
               IF a - call.destination \in mid..(hi - 1) THEN Stored(a - call.destination)
               ELSE Filled(lo, mid)[a]] = Filled(lo, hi)
         /\ [a \in Helper!Address |->
               IF a - call.destination \in lo..(mid - 1) THEN Stored(a - call.destination)
               ELSE Filled(mid, hi)[a]] = Filled(lo, hi)
<1>1. call.destination \in Nat /\ Helper!Address \subseteq Int
  BY CallFacts, SizeNat DEF Helper!Address
<1>2. ASSUME NEW a \in Helper!Address
      PROVE  /\ a - call.destination \in lo..(hi - 1) <=>
                  a - call.destination \in lo..(mid - 1) \/ a - call.destination \in mid..(hi - 1)
  BY <1>1
<1> QED BY <1>2 DEF Filled

LEMMA FilledNothing ==
  ASSUME call \in Helper!Calls, Helper!SizesFit, NEW k \in Nat
  PROVE  Filled(k, k) = [a \in Helper!Address |-> a]
<1>1. call.destination \in Nat /\ Helper!Address \subseteq Int
  BY CallFacts, SizeNat DEF Helper!Address
<1>2. \A a \in Helper!Address : a - call.destination \notin k..(k - 1)
  BY <1>1
<1> QED BY <1>2 DEF Filled

LEMMA InitHelper == Helper!SizesFit /\ Helper!Init => HelperInv
<1> SUFFICES ASSUME Helper!SizesFit, Helper!Init PROVE HelperInv
  OBVIOUS
<1>1. /\ call \in Helper!Calls
      /\ work = [at |-> "entry", dest |-> call.destination, source |-> call.source, left |-> call.length,
                 back |-> FALSE, chunk |-> 0, x |-> 0, y |-> 0]
      /\ bytes = [a \in Helper!Address |-> a]
  BY DEF Helper!Init, Helper!Start
<1>2. AtEntry
  BY <1>1, FilledNothing DEF AtEntry
<1> QED BY <1>1, <1>2, CallFacts DEF HelperInv, WorkType

LEMMA EnterMoveKeeps ==
  ASSUME HelperInv, Helper!SizesFit, Helper!EnterMove
  PROVE  HelperInv'
<1>1. /\ call \in Helper!Calls /\ call' = call /\ bytes' = bytes
      /\ AtEntry /\ call.op = "move"
  BY DEF Helper!EnterMove, Helper!Become, HelperInv, AtChunk, AtCopy, AtReturn
<1>2. /\ call.destination \in Nat /\ call.source \in Nat /\ call.length \in Nat
      /\ call.destination < Helper!Size /\ call.source < Helper!Size
      /\ call.destination + call.length <= Helper!Size /\ call.source + call.length <= Helper!Size
      /\ Helper!Size \in Nat \ {0}
  BY <1>1, CallFacts, SizeNat
<1>3. CASE call.source = call.destination
  <2>1. work' = [work EXCEPT !.at = "return"]
    <3>1. ~(call.source < call.destination)
      BY <1>2, <1>3
    <3> QED BY <1>1, <1>3, <3>1 DEF Helper!EnterMove, Helper!Become, Helper!Lower
  <2>2. Filled(0, 0) = Filled(0, call.length)
    <3>1. ASSUME NEW a \in Helper!Address PROVE call.source + (a - call.destination) = a
      BY <1>2, <1>3 DEF Helper!Address
    <3>2. Filled(0, call.length) = [a \in Helper!Address |-> a]
      BY <1>1, <3>1 DEF Filled, Stored
    <3> QED BY <1>1, <3>2, FilledNothing
  <2>3. Filled(0, call.length)' = Filled(0, call.length)
    BY <1>1 DEF Filled, Stored
  <2>4. AtReturn'
    BY <1>1, <2>1, <2>2, <2>3 DEF AtReturn, AtEntry, HelperInv, WorkType
  <2> QED BY <1>1, <2>1, <2>4 DEF HelperInv, WorkType
<1>4. CASE call.destination < call.source
  <2>1. work' = [work EXCEPT !.at = "chunk"]
    BY <1>1, <1>2, <1>4 DEF Helper!EnterMove, Helper!Become, Helper!Lower
  <2>2. /\ (call.destination + 0) % Helper!Size = call.destination
        /\ (call.source + 0) % Helper!Size = call.source
    BY <1>2, Stays
  <2>3. Filled(0, 0)' = Filled(0, 0)
    BY <1>1 DEF Filled, Stored
  <2>5. call.length - call.length = 0
    BY <1>2
  <2>4. AtChunk'
    BY <1>1, <1>2, <1>4, <2>1, <2>2, <2>3, <2>5 DEF AtChunk, AtEntry, HelperInv, WorkType, Away
  <2> QED BY <1>1, <2>1, <2>4 DEF HelperInv, WorkType
<1>5. CASE call.source < call.destination
  <2>1. work' = [work EXCEPT !.at = "chunk", !.back = TRUE,
                   !.dest = (call.destination + call.length) % Helper!Size,
                   !.source = (call.source + call.length) % Helper!Size]
    BY <1>1, <1>2, <1>5 DEF Helper!EnterMove, Helper!Become, Helper!Lower, Helper!Skipped, AtEntry
  <2>2. /\ (call.destination + call.length) % Helper!Size \in Nat
        /\ (call.source + call.length) % Helper!Size \in Nat
    BY <1>2, Wraps
  <2>3. Filled(0, 0) = Filled(call.length, call.length) /\ Filled(call.length, call.length)' = Filled(call.length, call.length)
    <3>1. Filled(call.length, call.length)' = Filled(call.length, call.length)
      BY <1>1 DEF Filled, Stored
    <3> QED BY <1>1, <1>2, <3>1, FilledNothing
  <2>5. work'.at = "chunk" /\ work'.back = TRUE /\ work'.left = call.length
        /\ work'.dest = (call.destination + call.length) % Helper!Size
        /\ work'.source = (call.source + call.length) % Helper!Size
        /\ work' \in WorkType
    <3>1. PICK d \in Int, s \in Int :
            d = (call.destination + call.length) % Helper!Size /\ s = (call.source + call.length) % Helper!Size
      BY <2>2
    <3>2. work' = [work EXCEPT !.at = "chunk", !.back = TRUE, !.dest = d, !.source = s]
      BY <2>1, <3>1
    <3>3. work \in WorkType /\ work.left = call.length
      BY <1>1 DEF HelperInv, AtEntry
    <3>4. work' \in WorkType
      <4>1. \A b \in BOOLEAN : [work EXCEPT !.at = "chunk", !.back = b, !.dest = d, !.source = s] \in WorkType
        BY <3>3 DEF WorkType
      <4> QED BY <3>2, <4>1, Zenon
    <3>5. work'.back = TRUE
      BY <3>2, <3>3, Zenon DEF WorkType
    <3>6. /\ work'.at = "chunk" /\ work'.left = call.length
          /\ work'.dest = d /\ work'.source = s
      BY <3>2, <3>3 DEF WorkType
    <3> QED BY <3>1, <3>4, <3>5, <3>6
  <2>4. AtChunk'
    BY <1>1, <1>2, <1>5, <2>3, <2>5 DEF AtChunk, AtEntry, Away
  <2> QED BY <1>1, <2>4, <2>5 DEF HelperInv, WorkType
<1> QED BY <1>2, <1>3, <1>4, <1>5

LEMMA EnterFillKeeps ==
  ASSUME HelperInv, Helper!SizesFit, Helper!EnterFill
  PROVE  HelperInv'
<1>1. /\ call \in Helper!Calls /\ call' = call /\ bytes' = bytes
      /\ AtEntry /\ call.op # "move" /\ work' = [work EXCEPT !.at = "chunk"]
  BY DEF Helper!EnterFill, Helper!Become, HelperInv, AtChunk, AtCopy, AtReturn
<1>2. /\ call.destination \in Nat /\ call.source \in Nat /\ call.length \in Nat
      /\ call.destination < Helper!Size /\ call.source < Helper!Size
      /\ Helper!Size \in Nat \ {0}
  BY <1>1, CallFacts, SizeNat
<1>3. /\ (call.destination + 0) % Helper!Size = call.destination
      /\ (call.source + 0) % Helper!Size = call.source
  BY <1>2, Stays
<1>4. Filled(0, 0)' = Filled(0, 0)
  BY <1>1 DEF Filled, Stored
<1>5. call.length - call.length = 0
  BY <1>2
<1>6. AtChunk'
  BY <1>1, <1>2, <1>3, <1>4, <1>5 DEF AtChunk, AtEntry, HelperInv, WorkType, Away
<1> QED BY <1>1, <1>6 DEF HelperInv, WorkType

LEMMA ChunkKeeps ==
  ASSUME HelperInv, Helper!SizesFit, Helper!Chunk
  PROVE  HelperInv'
<1> DEFINE o == IF work.back THEN work.left ELSE call.length - work.left
           c == Helper!ChunkSize
<1>1. call \in Helper!Calls /\ call' = call /\ bytes' = bytes /\ AtChunk
  BY DEF Helper!Chunk, Helper!Become, HelperInv, AtEntry, AtCopy, AtReturn
<1>2. /\ call.destination \in Nat /\ call.source \in Nat /\ call.length \in Nat
      /\ call.destination + call.length <= Helper!Size /\ call.source + call.length <= Helper!Size
      /\ Helper!Size \in Nat \ {0}
      /\ work.left \in 0..call.length
  BY <1>1, CallFacts, SizeNat DEF AtChunk, HelperInv, WorkType
<1>3. \A lo, hi : Filled(lo, hi)' = Filled(lo, hi)
  BY <1>1 DEF Filled, Stored
<1>4. o \in 0..call.length
  BY <1>2
<1>5. work.left # 0 => c \in 1..work.left /\ c < Bank
  BY <1>2 DEF Helper!ChunkSize, Helper!SizesFit
<1>6. CASE work.left = 0
  <2>1. work' = [work EXCEPT !.at = "return"]
    BY <1>6 DEF Helper!Chunk, Helper!Become
  <2>2. bytes = Filled(0, call.length)
    BY <1>1, <1>2, <1>6 DEF AtChunk
  <2>3. AtReturn'
    BY <1>1, <1>3, <2>1, <2>2 DEF AtReturn, HelperInv, WorkType
  <2> QED BY <1>1, <2>1, <2>3 DEF HelperInv, WorkType
<1>7. CASE work.left # 0 /\ ~work.back
  <2>1. work' = [work EXCEPT !.at = "copy", !.chunk = c, !.x = c, !.y = 0]
    BY <1>7 DEF Helper!Chunk, Helper!Become
  <2>2. o = call.length - work.left /\ o \in Nat /\ o < call.length
    BY <1>2, <1>7
  <2>3. work.dest = call.destination + o /\ work.source = call.source + o
    <3> HIDE DEF o
    <3>1. call.destination + o \in 0..Helper!Size - 1 /\ call.source + o \in 0..Helper!Size - 1
      BY <1>2, <2>2
    <3>2. (call.destination + o) % Helper!Size = call.destination + o
      BY <1>2, <2>2, <3>1, Wrap
    <3>3. (call.source + o) % Helper!Size = call.source + o
      BY <1>2, <2>2, <3>1, Wrap
    <3> QED BY <1>1, <1>7, <3>2, <3>3 DEF AtChunk, o
  <2>4. bytes = Filled(0, o)
    BY <1>1, <1>7 DEF AtChunk
  <2> HIDE DEF c
  <2>5. /\ work'.at = "copy" /\ ~work'.back /\ work'.left = work.left /\ work'.chunk = c /\ work'.x = c
        /\ work'.y = 0 /\ work'.dest = work.dest /\ work'.source = work.source
        /\ work' \in WorkType
    <3>1. c \in Nat /\ work \in WorkType
      BY <1>2, <1>5, <1>7 DEF HelperInv
    <3> QED BY <1>7, <2>1, <3>1 DEF WorkType
  <2>6. c - c = 0 /\ c <= c
    BY <1>2, <1>5, <1>7
  <2>7. o + 0 = o
    BY <2>2
  <2>8. Away'
    BY <1>1, <1>7, <2>5 DEF AtChunk, Away
  <2>9. AtCopy'
    BY <1>1, <1>2, <1>3, <1>5, <1>7, <2>2, <2>3, <2>4, <2>5, <2>6, <2>7, <2>8 DEF AtCopy
  <2> QED BY <1>1, <2>5, <2>9 DEF HelperInv, WorkType
<1>8. CASE work.left # 0 /\ work.back
  <2>1. work' = [work EXCEPT !.at = "copy", !.chunk = c, !.x = c, !.y = c,
                   !.dest = (@ - c) % Helper!Size, !.source = (@ - c) % Helper!Size]
    BY <1>8 DEF Helper!Chunk, Helper!Become, Helper!Down
  <2>2. work.dest = (call.destination + work.left) % Helper!Size
        /\ work.source = (call.source + work.left) % Helper!Size
        /\ bytes = Filled(work.left, call.length)
    BY <1>1, <1>8 DEF AtChunk
  <2> HIDE DEF c
  <2>3. /\ (work.dest - c) % Helper!Size = (call.destination + work.left) - c
        /\ (work.source - c) % Helper!Size = (call.source + work.left) - c
    <3>1. /\ call.destination + work.left \in Nat /\ call.source + work.left \in Nat /\ c \in Nat
          /\ call.destination + work.left <= Helper!Size /\ call.source + work.left <= Helper!Size
          /\ 1 <= c /\ c <= call.destination + work.left /\ c <= call.source + work.left
      BY <1>2, <1>5, <1>8
    <3> QED BY <1>2, <2>2, <3>1, Wraps
  <2>4. /\ (call.destination + work.left) - c = call.destination + (work.left - c)
        /\ (call.source + work.left) - c = call.source + (work.left - c)
        /\ work.left - c \in Nat /\ (work.left - c) + c = work.left
        /\ call.destination + (work.left - c) \in Int /\ call.source + (work.left - c) \in Int
    BY <1>2, <1>5, <1>8
  <2>5. /\ work'.at = "copy" /\ work'.back /\ work'.left = work.left /\ work'.chunk = c /\ work'.x = c
        /\ work'.y = c /\ work'.dest = call.destination + (work.left - c)
        /\ work'.source = call.source + (work.left - c)
        /\ work' \in WorkType
    <3>1. c \in Nat /\ work \in WorkType
      BY <1>2, <1>5, <1>8 DEF HelperInv
    <3>2. PICK d \in Int, s \in Int :
            d = call.destination + (work.left - c) /\ s = call.source + (work.left - c)
      BY <2>4
    <3>3. work' = [work EXCEPT !.at = "copy", !.chunk = c, !.x = c, !.y = c, !.dest = d, !.source = s]
      BY <2>1, <2>3, <2>4, <3>2
    <3>4. /\ work'.at = "copy" /\ work'.back = work.back /\ work'.left = work.left /\ work'.chunk = c
          /\ work'.x = c /\ work'.y = c /\ work'.dest = d /\ work'.source = s /\ work' \in WorkType
      BY <3>1, <3>3 DEF WorkType
    <3> QED BY <1>8, <3>2, <3>4
  <2>8. Away'
    BY <1>1, <1>8, <2>5 DEF AtChunk, Away
  <2>6. c <= c
    BY <1>2, <1>5, <1>8
  <2>9. AtCopy'
    BY <1>1, <1>2, <1>3, <1>5, <1>8, <2>2, <2>4, <2>5, <2>6, <2>8 DEF AtCopy
  <2> QED BY <1>1, <2>5, <2>9 DEF HelperInv, WorkType
<1> QED BY <1>6, <1>7, <1>8

LEMMA CopyKeeps ==
  ASSUME HelperInv, Helper!SizesFit, Helper!Word \/ Helper!OddTail
  PROVE  HelperInv'
<1>1. PICK n \in 1..2 : work.at = "copy" /\ n <= work.x /\ Helper!Copy(n)
  <2>1. work \in WorkType
    BY DEF HelperInv
  <2>2. CASE Helper!Word
    BY <2>1, <2>2 DEF Helper!Word, WorkType
  <2>3. CASE Helper!OddTail
    BY <2>1, <2>3 DEF Helper!OddTail, WorkType
  <2> QED BY <2>2, <2>3
<1> DEFINE o == IF work.back THEN work.left - work.chunk ELSE call.length - work.left
           below == IF work.back THEN work.y - n ELSE work.y
<1>2. /\ call \in Helper!Calls /\ call' = call /\ AtCopy /\ work \in WorkType
      /\ Helper!Transfer(below, n)
      /\ work' = [work EXCEPT !.x = @ - n, !.y = IF work.back THEN below ELSE (@ + n) % Bank]
  BY <1>1 DEF Helper!Copy, HelperInv, AtEntry, AtChunk, AtReturn
<1>3. /\ call.destination \in Nat /\ call.source \in Nat /\ call.length \in Nat
      /\ work.left \in 1..call.length /\ work.chunk \in 1..work.left /\ work.chunk < Bank
      /\ work.x \in n..work.chunk /\ n \in 1..2
      /\ work.y = IF work.back THEN work.x ELSE work.chunk - work.x
      /\ Bank \in Nat \ {0}
  <2>1. work.left \in Nat /\ work.x \in Nat /\ work.chunk \in Nat
    BY <1>2 DEF WorkType
  <2>2. call.destination \in Nat /\ call.source \in Nat /\ call.length \in Nat
    BY <1>2, CallFacts
  <2>3. /\ work.left <= call.length /\ work.chunk \in 1..work.left /\ work.chunk < Bank
        /\ work.x <= work.chunk /\ work.y = IF work.back THEN work.x ELSE work.chunk - work.x
    BY <1>2 DEF AtCopy
  <2>4. Bank \in Nat \ {0}
    BY DEF Helper!SizesFit
  <2> QED BY <1>1, <2>1, <2>2, <2>3, <2>4
<1>4. /\ work.dest = call.destination + o /\ work.source = call.source + o
      /\ bytes = IF work.back THEN Filled(o + work.y, call.length) ELSE Filled(0, o + work.y)
  BY <1>2 DEF AtCopy
<1>5. o \in Nat /\ o + work.chunk <= call.length /\ below \in Nat /\ below + n <= work.chunk
  BY <1>3
<1> HIDE DEF o, below
<1>6. PICK y \in Nat : /\ y = IF work.back THEN below ELSE below + n
                       /\ work' = [work EXCEPT !.x = work.x - n, !.y = y]
  <2>1. CASE work.back
    <3>1. work' = [work EXCEPT !.x = work.x - n, !.y = below]
      BY <1>2, <2>1
    <3> QED BY <1>5, <2>1, <3>1
  <2>2. CASE ~work.back
    <3>1. work.y = below /\ below + n \in 0..Bank - 1
      BY <1>3, <1>5, <2>2 DEF below
    <3>2. (work.y + n) % Bank = below + n
      BY <1>3, <3>1, Wrap
    <3>3. work' = [work EXCEPT !.x = work.x - n, !.y = below + n]
      BY <1>2, <2>2, <3>2
    <3>4. PICK z \in Nat : z = below + n
      BY <3>1
    <3>5. work' = [work EXCEPT !.x = work.x - n, !.y = z] /\ z = IF work.back THEN below ELSE below + n
      BY <2>2, <3>3, <3>4
    <3> QED BY <3>5
  <2> QED BY <2>1, <2>2
<1>7. /\ work' \in WorkType /\ work'.at = "copy" /\ work'.back = work.back /\ work'.left = work.left
      /\ work'.chunk = work.chunk /\ work'.dest = work.dest /\ work'.source = work.source
      /\ work'.x = work.x - n /\ work'.y = y
  <2>1. work.x - n \in Nat
    BY <1>3
  <2> QED BY <1>1, <1>2, <1>6, <2>1 DEF WorkType
<1>8. Away' /\ Away
  BY <1>2, <1>7 DEF AtCopy, Away
<1>9. \A lo, hi : Filled(lo, hi)' = Filled(lo, hi)
  BY <1>2 DEF Filled, Stored
<1>10. CASE work.back
  <2>1. /\ bytes = Filled(o + below + n, call.length) /\ y = below
        /\ work.y = below + n /\ work.x - n = below
    <3>1. work.y = below + n /\ work.x - n = below /\ o + work.y = o + below + n
      BY <1>3, <1>5, <1>10 DEF below
    <3> QED BY <1>4, <1>6, <1>10, <3>1
  <2>2. call.op = "move" =>
          \A k \in (o + below)..((o + below + n) - 1) :
            (call.source + k) - call.destination \notin (o + below + n)..(call.length - 1)
    <3>1. call.source < call.destination
      BY <1>8, <1>10 DEF Away
    <3> QED BY <1>3, <1>5, <3>1
  <2>3. o + below + n \in Nat /\ o + below + n <= call.length /\ o + below \in Nat /\ o + below <= o + below + n
    BY <1>3, <1>5
  <2>4. bytes' = [a \in Helper!Address |->
                    IF a - call.destination \in (o + below)..((o + below + n) - 1)
                      THEN Stored(a - call.destination) ELSE bytes[a]]
    BY <1>2, <1>3, <1>4, <1>5, <2>1, <2>2, <2>3, TransferWrites
  <2>5. bytes' = Filled(o + below, call.length)
    BY <1>2, <1>3, <2>1, <2>3, <2>4, FillMore
  <2>6. AtCopy'
    <3>1. work.x - n <= work.chunk
      BY <1>3
    <3>2. work.left - work.chunk = o
      BY <1>10 DEF o
    <3> QED BY <1>2, <1>3, <1>4, <1>7, <1>8, <1>9, <1>10, <2>1, <2>5, <3>1, <3>2 DEF AtCopy
  <2> QED BY <1>2, <1>7, <2>6 DEF HelperInv
<1>11. CASE ~work.back
  <2>1. /\ bytes = Filled(0, o + below) /\ y = below + n /\ work.y = below
        /\ work.chunk - (work.x - n) = below + n
    <3>1. work.y = below /\ work.chunk - (work.x - n) = below + n
      BY <1>3, <1>11 DEF below
    <3> QED BY <1>4, <1>6, <1>11, <3>1
  <2>0. PICK hi \in Nat : hi = o + below
    BY <1>5
  <2>2. call.op = "move" =>
          \A k \in (o + below)..((o + below + n) - 1) :
            (call.source + k) - call.destination \notin 0..(hi - 1)
    <3>1. call.op = "move" => call.destination < call.source
      BY <1>8, <1>11 DEF Away
    <3> QED BY <1>3, <1>5, <2>0, <3>1
  <2>3. o + below + n \in Nat /\ o + below + n <= call.length /\ o + below \in Nat /\ o + below <= o + below + n
        /\ 0 <= o + below /\ o + (below + n) = o + below + n
    BY <1>3, <1>5
  <2>4. bytes' = [a \in Helper!Address |->
                    IF a - call.destination \in (o + below)..((o + below + n) - 1)
                      THEN Stored(a - call.destination) ELSE bytes[a]]
    BY <1>2, <1>3, <1>4, <1>5, <2>0, <2>1, <2>2, <2>3, TransferWrites, SMTT(60)
  <2>5. bytes' = Filled(0, o + below + n)
    BY <1>2, <1>3, <2>1, <2>3, <2>4, FillMore, SMTT(60)
  <2>6. AtCopy'
    <3>1. work.x - n <= work.chunk
      BY <1>3
    <3>2. call.length - work.left = o
      BY <1>11 DEF o
    <3> QED BY <1>2, <1>3, <1>4, <1>7, <1>8, <1>9, <1>11, <2>1, <2>3, <2>5, <3>1, <3>2 DEF AtCopy
  <2> QED BY <1>2, <1>7, <2>6 DEF HelperInv
<1> QED BY <1>10, <1>11

LEMMA ProgressKeeps ==
  ASSUME HelperInv, Helper!SizesFit, Helper!Progress
  PROVE  HelperInv'
<1>1. /\ call \in Helper!Calls /\ call' = call /\ bytes' = bytes /\ AtCopy /\ work \in WorkType
      /\ work.x = 0
  BY DEF Helper!Progress, Helper!Become, HelperInv, AtEntry, AtChunk, AtReturn
<1> DEFINE left == work.left - work.chunk
<1>2. /\ call.destination \in Nat /\ call.source \in Nat /\ call.length \in Nat
      /\ call.destination + call.length <= Helper!Size /\ call.source + call.length <= Helper!Size
      /\ Helper!Size \in Nat \ {0}
      /\ work.left \in 1..call.length /\ work.chunk \in 1..work.left /\ left \in 0..call.length
  <2>1. work.left \in Nat /\ work.chunk \in 1..work.left /\ work.left <= call.length
    BY <1>1 DEF WorkType, AtCopy
  <2>2. call.length \in Nat
    BY <1>1, CallFacts
  <2>3. work.left \in 1..call.length /\ left \in 0..call.length
    BY <2>1, <2>2
  <2> QED BY <1>1, <2>1, <2>3, CallFacts, SizeNat
<1>3. \A lo, hi : Filled(lo, hi)' = Filled(lo, hi)
  BY <1>1 DEF Filled, Stored
<1>4. CASE work.back
  <2>1. work' = [work EXCEPT !.at = "chunk", !.left = left]
    <3>1. work' = [work EXCEPT !.at = "chunk", !.dest = work.dest, !.source = work.source, !.left = left]
      BY <1>4 DEF Helper!Progress, Helper!Become
    <3> QED BY <1>1, <3>1 DEF WorkType
  <2>2. work.dest = call.destination + left /\ work.source = call.source + left
        /\ bytes = Filled(left + 0, call.length)
    BY <1>1, <1>4 DEF AtCopy
  <2> HIDE DEF left
  <2>3. /\ work' \in WorkType /\ work'.at = "chunk" /\ work'.back = work.back /\ work'.left = left
        /\ work'.dest = work.dest /\ work'.source = work.source
    <3>1. left \in Nat
      BY <1>2
    <3> QED BY <1>1, <2>1, <3>1 DEF WorkType
  <2>4. left + 0 = left /\ left <= call.length
    BY <1>2
  <2>5. /\ (call.destination + left) % Helper!Size = call.destination + left
        /\ (call.source + left) % Helper!Size = call.source + left
    <3>1. left < call.length
      BY <1>2 DEF left
    <3>2. call.destination + left \in 0..Helper!Size - 1 /\ call.source + left \in 0..Helper!Size - 1
      BY <1>2, <3>1
    <3> QED BY <1>2, <3>2, Wrap
  <2>6. AtChunk'
    BY <1>1, <1>3, <1>4, <2>2, <2>3, <2>4, <2>5 DEF AtChunk, AtCopy, Away
  <2> QED BY <1>1, <2>3, <2>6 DEF HelperInv
<1>5. CASE ~work.back
  <2> DEFINE o == call.length - work.left
  <2>1. work' = [work EXCEPT !.at = "chunk", !.dest = (work.dest + work.chunk) % Helper!Size,
                   !.source = (work.source + work.chunk) % Helper!Size, !.left = left]
    BY <1>5 DEF Helper!Progress, Helper!Become
  <2>2. /\ work.dest = call.destination + o /\ work.source = call.source + o
        /\ bytes = Filled(0, o + work.y) /\ work.y = work.chunk - 0
    BY <1>1, <1>5 DEF AtCopy
  <2>3. /\ work.dest + work.chunk = call.destination + (call.length - left)
        /\ work.source + work.chunk = call.source + (call.length - left)
        /\ o + work.y = call.length - left
        /\ call.length - left \in 0..call.length
    BY <1>2, <2>2
  <2> HIDE DEF left, o
  <2>4. PICK d \in Int, s \in Int : d = (work.dest + work.chunk) % Helper!Size /\ s = (work.source + work.chunk) % Helper!Size
    <3>1. /\ work.dest + work.chunk \in Nat /\ work.dest + work.chunk <= Helper!Size
          /\ work.source + work.chunk \in Nat /\ work.source + work.chunk <= Helper!Size
      BY <1>2, <2>3
    <3>2. (work.dest + work.chunk) % Helper!Size \in Nat /\ (work.source + work.chunk) % Helper!Size \in Nat
      BY <1>2, <3>1, Wraps
    <3> QED BY <3>2
  <2>5. /\ work' \in WorkType /\ work'.at = "chunk" /\ work'.back = work.back /\ work'.left = left
        /\ work'.dest = d /\ work'.source = s
    <3>1. left \in Nat
      BY <1>2
    <3>2. work' = [work EXCEPT !.at = "chunk", !.dest = d, !.source = s, !.left = left]
      BY <2>1, <2>4
    <3> QED BY <1>1, <3>1, <3>2 DEF WorkType
  <2>6. AtChunk'
    BY <1>1, <1>2, <1>3, <1>5, <2>2, <2>3, <2>4, <2>5 DEF AtChunk, AtCopy, Away
  <2> QED BY <1>1, <2>5, <2>6 DEF HelperInv
<1> QED BY <1>4, <1>5

LEMMA NextHelper == Helper!SizesFit /\ HelperInv /\ [Helper!Next]_(Helper!vars) => HelperInv'
<1> SUFFICES ASSUME Helper!SizesFit, HelperInv, [Helper!Next]_(Helper!vars) PROVE HelperInv'
  OBVIOUS
<1>1. CASE Helper!Next
  BY <1>1, EnterMoveKeeps, EnterFillKeeps, ChunkKeeps, CopyKeeps, ProgressKeeps DEF Helper!Next
<1>2. CASE UNCHANGED Helper!vars
  <2>1. call' = call /\ work' = work /\ bytes' = bytes
    BY <1>2 DEF Helper!vars
  <2>2. \A lo, hi : Filled(lo, hi)' = Filled(lo, hi)
    BY <2>1 DEF Filled, Stored
  <2> QED BY <2>1, <2>2 DEF HelperInv, AtEntry, AtChunk, AtCopy, AtReturn, Away
<1> QED BY <1>1, <1>2

-----------------------------------------------------------------------------
Extent == <<[from |-> [k \in 1..call.length |->
                         CASE call.op = "move" -> call.source + k - 1
                           [] call.op = "clear" -> Zero
                           [] call.op = "fill" -> Byte],
             to |-> [k \in 1..call.length |-> call.destination + k - 1]]>>
Memory == IF Helper!Returned THEN bytes ELSE [a \in Helper!Address |-> a]
Reaches(i, a) == \E k \in DOMAIN Extent[i].to : Extent[i].to[k] = a
FinalCopy(a) ==
  CHOOSE i \in DOMAIN Extent :
    Reaches(i, a) /\ \A j \in DOMAIN Extent : Reaches(j, a) => j <= i
Brought(i, a) == Extent[i].from[CHOOSE k \in DOMAIN Extent[i].to : Extent[i].to[k] = a]

LEMMA OneExtent ==
  ASSUME call \in Helper!Calls, Helper!SizesFit, NEW a \in Helper!Address
  PROVE  /\ (\E i \in DOMAIN Extent : Reaches(i, a)) <=> a - call.destination \in 0..(call.length - 1)
         /\ a - call.destination \in 0..(call.length - 1) =>
              Brought(FinalCopy(a), a) = Stored(a - call.destination)
         /\ a - call.destination \in 0..(call.length - 1) =>
              (Stored(a - call.destination) \in Helper!Address \/ Stored(a - call.destination) \in {Zero, Byte})
<1>1. /\ call.destination \in Nat /\ call.source \in Nat /\ call.length \in Nat /\ a \in Int
      /\ call.source + call.length <= Helper!Size /\ Helper!Size \in Nat \ {0}
      /\ Helper!Address = 0..(Helper!Size - 1) /\ call.op \in {"move", "clear", "fill"}
  BY CallFacts, SizeNat DEF Helper!Address
<1>2. /\ DOMAIN Extent = {1}
      /\ Extent[1].to = [k \in 1..call.length |-> call.destination + k - 1]
      /\ Extent[1].from = [k \in 1..call.length |->
                             CASE call.op = "move" -> call.source + k - 1
                               [] call.op = "clear" -> Zero
                               [] call.op = "fill" -> Byte]
  <2>1. ASSUME NEW f, NEW g, Extent = <<[from |-> f, to |-> g]>>
        PROVE  DOMAIN Extent = {1} /\ Extent[1].to = g /\ Extent[1].from = f
    BY <2>1
  <2> QED BY <2>1 DEF Extent
<1>3. /\ DOMAIN Extent[1].to = 1..call.length
      /\ \A k \in 1..call.length : Extent[1].to[k] = a <=> k = a - call.destination + 1
  BY <1>1, <1>2, SMTT(60)
<1>4. Reaches(1, a) <=> a - call.destination \in 0..(call.length - 1)
  <2>1. Reaches(1, a) <=> a - call.destination + 1 \in 1..call.length
    BY <1>3 DEF Reaches
  <2>2. a - call.destination + 1 \in 1..call.length <=> a - call.destination \in 0..(call.length - 1)
    BY <1>1, SMTT(60)
  <2> QED BY <2>1, <2>2
<1>5. ASSUME a - call.destination \in 0..(call.length - 1)
      PROVE  Brought(FinalCopy(a), a) = Stored(a - call.destination)
  <2>1. Reaches(1, a) /\ \A j \in DOMAIN Extent : Reaches(j, a) => j <= 1
    BY <1>2, <1>4, <1>5
  <2>2. FinalCopy(a) = 1
    BY <1>2, <2>1 DEF FinalCopy
  <2>3. PICK m \in 1..call.length : m = a - call.destination + 1
    BY <1>1, <1>5, SMTT(60)
  <2>4. (CHOOSE k \in DOMAIN Extent[1].to : Extent[1].to[k] = a) = m
    BY <1>3, <2>3
  <2>5. Extent[1].from[m] = Stored(a - call.destination)
    <3>1. call.source + m - 1 = call.source + (a - call.destination)
      BY <1>1, <2>3
    <3> QED BY <1>2, <2>3, <3>1 DEF Stored
  <2> QED BY <2>2, <2>4, <2>5 DEF Brought
<1>6. ASSUME a - call.destination \in 0..(call.length - 1)
      PROVE  Stored(a - call.destination) \in Helper!Address \/ Stored(a - call.destination) \in {Zero, Byte}
  <2>1. call.source + (a - call.destination) \in Helper!Address
    BY <1>1, <1>6, SMTT(60)
  <2> QED BY <1>1, <2>1 DEF Stored
<1> QED BY <1>2, <1>4, <1>5, <1>6

LEMMA ReturnTransfers ==
  ASSUME HelperInv, HelperInv', Helper!SizesFit, call' = call, ~Helper!Returned, Helper!Returned'
  PROVE  Helper!Assignment!Transfer
<1>1. call \in Helper!Calls /\ bytes' = Filled(0, call.length)
  <2>1. AtReturn'
    BY DEF Helper!Returned, HelperInv, AtEntry, AtChunk, AtCopy
  <2>2. Filled(0, call.length)' = Filled(0, call.length)
    BY DEF Filled, Stored
  <2> QED BY <2>1, <2>2 DEF AtReturn, HelperInv
<1>2. Memory = [a \in Helper!Address |-> a] /\ Memory' = Filled(0, call.length)
  BY <1>1 DEF Memory
<1>3. Extent' = Extent
  BY DEF Extent
<1>4. \A b : (IF b \in Helper!Address THEN Memory[b] ELSE b) = b
  BY <1>2
<1>5. Memory' = [a \in Helper!Address |->
                   IF \E i \in DOMAIN Extent : Reaches(i, a) THEN Brought(FinalCopy(a), a) ELSE Memory[a]]
  <2>1. ASSUME NEW a \in Helper!Address
        PROVE  (IF a - call.destination \in 0..(call.length - 1) THEN Stored(a - call.destination) ELSE a)
               = IF \E i \in DOMAIN Extent : Reaches(i, a) THEN Brought(FinalCopy(a), a) ELSE Memory[a]
    <3>1. Memory[a] = a
      BY <1>2
    <3> QED BY <1>1, <3>1, OneExtent
  <2> QED BY <1>2, <2>1 DEF Filled
<1> QED BY <1>3, <1>4, <1>5, ZenonT(60)
        DEF Helper!Assignment!Transfer, Helper!Assignment!Written, Helper!Assignment!LastWriter,
            Helper!Assignment!ValueOf, Extent, Memory, Reaches, FinalCopy, Brought, Helper!Returned

LEMMA HelperStutters ==
  ASSUME HelperInv, [Helper!Next]_(Helper!vars), Helper!Returned <=> Helper!Returned'
  PROVE  UNCHANGED Helper!Assignment!vars
<1>1. call' = call /\ (Helper!Returned => bytes' = bytes)
  BY DEF Helper!Next, Helper!EnterMove, Helper!EnterFill, Helper!Chunk, Helper!Word, Helper!OddTail,
         Helper!Copy, Helper!Progress, Helper!Become, Helper!vars, Helper!Returned
<1>2. Extent' = Extent /\ Memory' = Memory
  BY <1>1 DEF Extent, Memory
<1> QED BY <1>1, <1>2 DEF Helper!Assignment!vars, Extent, Memory, Helper!Returned

(* Move, Clear and Fill are each one assignment to their extent and leave  *)
(* every other byte alone, for banks of any even size and any number of    *)
(* them: whatever the length, in any number of chunks, however the objects *)
(* of a move overlap and wherever in memory they end.                      *)
THEOREM HelpersAreParallel ==
  ASSUME Helper!SizesFit
  PROVE  Helper!Spec => Helper!RefinesParallelAssignment
<1>0. Helper!Init => HelperInv
  BY InitHelper
<1>1. Helper!Init => Helper!Assignment!Init
  BY DEF Helper!Init, Helper!Start, Helper!Assignment!Init, Helper!Returned
<1>2. HelperInv /\ [Helper!Next]_(Helper!vars) => HelperInv'
  BY NextHelper
<1>3. HelperInv /\ HelperInv' /\ [Helper!Next]_(Helper!vars) =>
        [Helper!Assignment!Transfer]_(Helper!Assignment!vars)
  <2> SUFFICES ASSUME HelperInv, HelperInv', [Helper!Next]_(Helper!vars)
               PROVE  [Helper!Assignment!Transfer]_(Helper!Assignment!vars)
    OBVIOUS
  <2>1. call' = call /\ (Helper!Returned => Helper!Returned')
    BY DEF Helper!Next, Helper!EnterMove, Helper!EnterFill, Helper!Chunk, Helper!Word, Helper!OddTail,
           Helper!Copy, Helper!Progress, Helper!Become, Helper!vars, Helper!Returned
  <2>2. CASE ~Helper!Returned /\ Helper!Returned'
    BY <2>1, <2>2, ReturnTransfers
  <2>3. CASE Helper!Returned <=> Helper!Returned'
    BY <2>3, HelperStutters
  <2> QED BY <2>1, <2>2, <2>3
<1> QED BY <1>0, <1>1, <1>2, <1>3, PTL
        DEF Helper!Spec, Helper!RefinesParallelAssignment, Helper!Assignment!Spec

=============================================================================

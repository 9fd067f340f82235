---------------------------- MODULE ContextProofs ----------------------------
(***************************************************************************)
(* For any number of tasks, any sizes of stacks, any nesting and any       *)
(* widths: what the context bridge promises.  The invariant says where the *)
(* context of every task is at every instruction of the bridge.            *)
(***************************************************************************)
EXTENDS ContextBridge, SequenceTheorems, TLAPS

-----------------------------------------------------------------------------
(* Stacks: what a push leaves to be read, and what a pull gives back.      *)
IsStack(s) == s \in Seq({s[k] : k \in DOMAIN s})

LEMMA StackOf ==
  ASSUME NEW W, NEW s \in Seq(W)
  PROVE  IsStack(s)
<1> DEFINE V == {s[k] : k \in DOMAIN s}
<1>1. Len(s) \in Nat /\ DOMAIN s = 1..Len(s) /\ s = [k \in 1..Len(s) |-> s[k]]
  OBVIOUS
<1>2. \A k \in 1..Len(s) : s[k] \in V
  BY <1>1
<1>3. s \in [1..Len(s) -> V]
  BY <1>1, <1>2
<1> QED
  BY <1>1, <1>3 DEF IsStack

LEMMA StackFacts ==
  ASSUME NEW s, IsStack(s)
  PROVE  Len(s) \in Nat /\ DOMAIN s = 1..Len(s)
BY DEF IsStack

LEMMA Joint ==
  ASSUME NEW s, IsStack(s), NEW w, IsStack(w)
  PROVE  \E W : s \in Seq(W) /\ w \in Seq(W)
<1>1. PICK U, V : s \in Seq(U) /\ w \in Seq(V)
  BY DEF IsStack
<1>2. s \in Seq(U \cup V) /\ w \in Seq(U \cup V)
  BY <1>1
<1> QED
  BY <1>2

(* r is s with the n bytes w on it. *)
Pushed(r, s, w, n) ==
  /\ IsStack(r) /\ Len(r) = Len(s) + n /\ Drop(r, n) = s
  /\ \A k \in 1..n : At(r, k) = w[n - k + 1]
  /\ \A k \in Nat \ {0} : At(r, n + k) = At(s, k)

LEMMA PushFacts ==
  ASSUME NEW s, IsStack(s), NEW w, IsStack(w)
  PROVE  Pushed(s \o w, s, w, Len(w))
<1>1. PICK W : s \in Seq(W) /\ w \in Seq(W)
  BY Joint
<1>2. Len(s) \in Nat /\ Len(w) \in Nat
  BY StackFacts
<1>3. s \o w \in Seq(W) /\ Len(s \o w) = Len(s) + Len(w)
      /\ \A k \in 1..(Len(s) + Len(w)) :
           (s \o w)[k] = IF k <= Len(s) THEN s[k] ELSE w[k - Len(s)]
  BY <1>1, ConcatProperties
<1>4. IsStack(s \o w)
  BY <1>3, StackOf
<1>5. Drop(s \o w, Len(w)) = s
  <2>1. SubSeq(s \o w, 1, Len(s)) = s
    BY <1>1, <1>2, <1>3
  <2> QED
    BY <1>2, <1>3, <2>1 DEF Drop
<1>6. ASSUME NEW k \in 1..Len(w) PROVE At(s \o w, k) = w[Len(w) - k + 1]
  <2>1. PICK j : j = Len(s) + Len(w) - k + 1
    OBVIOUS
  <2>2. j \in 1..(Len(s) + Len(w)) /\ ~(j <= Len(s)) /\ j - Len(s) = Len(w) - k + 1
        /\ k <= Len(s \o w)
    BY <1>2, <1>3, <2>1
  <2> QED
    BY <1>3, <2>1, <2>2 DEF At
<1>7. ASSUME NEW k \in Nat \ {0} PROVE At(s \o w, Len(w) + k) = At(s, k)
  <2>1. PICK j : j = Len(s) - k + 1
    OBVIOUS
  <2>2. CASE k <= Len(s)
    <3>1. j \in 1..(Len(s) + Len(w)) /\ j <= Len(s) /\ Len(w) + k <= Len(s \o w)
          /\ Len(s \o w) - (Len(w) + k) + 1 = j
      BY <1>2, <1>3, <2>1, <2>2
    <3> QED
      BY <1>3, <2>1, <2>2, <3>1 DEF At
  <2>3. CASE ~(k <= Len(s))
    <3>1. ~(Len(w) + k <= Len(s \o w))
      BY <1>2, <1>3, <2>3
    <3> QED
      BY <2>3, <3>1 DEF At
  <2> QED
    BY <2>2, <2>3
<1> QED
  BY <1>3, <1>4, <1>5, <1>6, <1>7 DEF Pushed

LEMMA PushByte ==
  ASSUME NEW s, IsStack(s), NEW v
  PROVE  /\ IsStack(s \o Byte(v)) /\ Len(s \o Byte(v)) = Len(s) + 1
         /\ Drop(s \o Byte(v), 1) = s /\ ByteAt(s \o Byte(v), 1) = v
         /\ \A k \in Nat \ {0} : At(s \o Byte(v), 1 + k) = At(s, k)
<1>1. IsStack(Byte(v)) /\ Len(Byte(v)) = 1 /\ Byte(v)[1] = <<"byte", v>>
  <2>1. Byte(v) \in Seq({<<"byte", v>>})
    BY DEF Byte
  <2> QED
    BY <2>1, StackOf DEF Byte
<1>2. Pushed(s \o Byte(v), s, Byte(v), 1)
  BY <1>1, PushFacts
<1>3. At(s \o Byte(v), 1) = <<"byte", v>>
  <2>1. 1 \in 1..1 /\ 1 - 1 + 1 = 1
    OBVIOUS
  <2> QED
    BY <1>1, <1>2, <2>1 DEF Pushed
<1> QED
  BY <1>2, <1>3, SMTT(60) DEF ByteAt, Pushed

LEMMA PushWord ==
  ASSUME NEW s, IsStack(s), NEW v
  PROVE  /\ IsStack(s \o Word(v)) /\ Len(s \o Word(v)) = Len(s) + 2
         /\ Drop(s \o Word(v), 2) = s /\ WordAt(s \o Word(v), 1) = v
         /\ \A k \in Nat \ {0} : At(s \o Word(v), 2 + k) = At(s, k)
<1>1. IsStack(Word(v)) /\ Len(Word(v)) = 2 /\ Word(v)[1] = <<"hi", v>> /\ Word(v)[2] = <<"lo", v>>
  <2>1. Word(v) \in Seq({<<"hi", v>>, <<"lo", v>>})
    BY DEF Word
  <2> QED
    BY <2>1, StackOf DEF Word
<1>2. Pushed(s \o Word(v), s, Word(v), 2)
  BY <1>1, PushFacts
<1>3. At(s \o Word(v), 1) = <<"lo", v>> /\ At(s \o Word(v), 2) = <<"hi", v>>
  <2>1. 1 \in 1..2 /\ 2 - 1 + 1 = 2 /\ 2 \in 1..2 /\ 2 - 2 + 1 = 1
    OBVIOUS
  <2> QED
    BY <1>1, <1>2, <2>1 DEF Pushed
<1>4. WordAt(s \o Word(v), 1) = v
  BY <1>3 DEF WordAt
<1> QED
  BY <1>2, <1>4 DEF Pushed

LEMMA BelowByte ==
  ASSUME NEW s, IsStack(s), NEW v, NEW k \in Nat \ {0}
  PROVE  /\ ByteAt(s \o Byte(v), k + 1) = ByteAt(s, k)
         /\ WordAt(s \o Byte(v), k + 1) = WordAt(s, k)
         /\ PAt(s \o Byte(v), k + 1) = PAt(s, k)
<1>1. \A j \in Nat \ {0} : At(s \o Byte(v), 1 + j) = At(s, j)
  BY PushByte
<1>2. At(s \o Byte(v), k + 1) = At(s, k) /\ At(s \o Byte(v), k + 1 + 1) = At(s, k + 1)
  <2>1. k + 1 \in Nat \ {0} /\ k + 1 = 1 + k /\ k + 1 + 1 = 1 + (k + 1)
    OBVIOUS
  <2> QED
    BY <1>1, <2>1
<1> QED
  BY <1>2 DEF ByteAt, WordAt, PAt

LEMMA BelowWord ==
  ASSUME NEW s, IsStack(s), NEW v, NEW k \in Nat \ {0}
  PROVE  /\ ByteAt(s \o Word(v), k + 2) = ByteAt(s, k)
         /\ WordAt(s \o Word(v), k + 2) = WordAt(s, k)
         /\ PAt(s \o Word(v), k + 2) = PAt(s, k)
<1>1. \A j \in Nat \ {0} : At(s \o Word(v), 2 + j) = At(s, j)
  BY PushWord
<1>2. At(s \o Word(v), k + 2) = At(s, k) /\ At(s \o Word(v), k + 2 + 1) = At(s, k + 1)
  <2>1. k + 1 \in Nat \ {0} /\ k + 2 = 2 + k /\ k + 2 + 1 = 2 + (k + 1)
    OBVIOUS
  <2> QED
    BY <1>1, <2>1
<1> QED
  BY <1>2 DEF ByteAt, WordAt, PAt

(* Pulling in two goes. *)
LEMMA DropTwice ==
  ASSUME NEW s, IsStack(s), NEW m \in Nat, NEW n \in Nat, m + n <= Len(s)
  PROVE  /\ Drop(Drop(s, m), n) = Drop(s, m + n) /\ IsStack(Drop(s, m))
         /\ Len(Drop(s, m)) = Len(s) - m
<1>1. PICK W : s \in Seq(W)
  BY DEF IsStack
<1>2. Len(s) \in Nat /\ Len(s) - m \in 0..Len(s) /\ Len(s) - m - n \in 0..Len(s)
  BY StackFacts
<1>3. PICK t : t = SubSeq(s, 1, Len(s) - m)
  OBVIOUS
<1>4. t \in Seq(W) /\ Len(t) = Len(s) - m /\ \A k \in 1..(Len(s) - m) : t[k] = s[k]
  BY <1>1, <1>2, <1>3
<1>5. SubSeq(t, 1, Len(s) - m - n) = SubSeq(s, 1, Len(s) - m - n)
  BY <1>1, <1>2, <1>4
<1>6. Drop(s, m) = t /\ Drop(t, n) = SubSeq(t, 1, Len(s) - m - n)
      /\ Drop(s, m + n) = SubSeq(s, 1, Len(s) - m - n)
  BY <1>2, <1>3, <1>4 DEF Drop
<1> QED
  BY <1>4, <1>5, <1>6, StackOf

LEMMA Regroup ==
  ASSUME NEW s, IsStack(s), NEW u, IsStack(u), NEW v, IsStack(v)
  PROVE  s \o (u \o v) = (s \o u) \o v
<1>1. PICK W : s \in Seq(W) /\ u \in Seq(W)
  BY Joint
<1>2. PICK V : v \in Seq(V)
  BY DEF IsStack
<1>3. s \in Seq(W \cup V) /\ u \in Seq(W \cup V) /\ v \in Seq(W \cup V)
  BY <1>1, <1>2
<1> QED
  BY <1>3, ConcatAssociative, SMTT(60)

LEMMA Pieces ==
  ASSUME NEW v
  PROVE  /\ IsStack(<<>>) /\ Len(<<>>) = 0 /\ <<>> \o Byte(v) = Byte(v)
         /\ IsStack(Byte(v)) /\ Len(Byte(v)) = 1
         /\ IsStack(Word(v)) /\ Len(Word(v)) = 2
<1>1. IsStack(<<>>)
  <2>1. <<>> \in Seq({})
    OBVIOUS
  <2> QED
    BY <2>1, StackOf
<1>2. IsStack(Byte(v)) /\ Len(Byte(v)) = 1 /\ <<>> \o Byte(v) = Byte(v)
  <2>1. Byte(v) \in Seq({<<"byte", v>>})
    BY DEF Byte
  <2>2. <<>> \o Byte(v) = Byte(v)
    BY <2>1, ConcatEmptySeq
  <2> QED
    BY <2>1, <2>2, StackOf DEF Byte
<1>3. IsStack(Word(v)) /\ Len(Word(v)) = 2
  <2>1. Word(v) \in Seq({<<"hi", v>>, <<"lo", v>>})
    BY DEF Word
  <2> QED
    BY <2>1, StackOf DEF Word
<1> QED
  BY <1>1, <1>2, <1>3

(* An address of three bytes, and P on top of one. *)
LEMMA PushAddress ==
  ASSUME NEW s, IsStack(s), NEW a
  PROVE  /\ IsStack(CodeAddress(a)) /\ Len(CodeAddress(a)) = 3
         /\ IsStack(s \o CodeAddress(a)) /\ Len(s \o CodeAddress(a)) = Len(s) + 3
         /\ Drop(s \o CodeAddress(a), 3) = s /\ WordAt(s \o CodeAddress(a), 1) = a
         /\ \A k \in Nat \ {0} : ByteAt(s \o CodeAddress(a), k + 3) = ByteAt(s, k)
                              /\ WordAt(s \o CodeAddress(a), k + 3) = WordAt(s, k)
<1>1. PICK b : b = s \o Byte(<<"bank", a>>)
  OBVIOUS
<1>2. IsStack(b) /\ Len(b) = Len(s) + 1 /\ Drop(b, 1) = s
  BY <1>1, PushByte
<1>3. PICK r : r = b \o Word(a)
  OBVIOUS
<1>4. IsStack(r) /\ Len(r) = Len(b) + 2 /\ Drop(r, 2) = b /\ WordAt(r, 1) = a
  BY <1>2, <1>3, PushWord
<1>5. r = s \o CodeAddress(a)
  <2>1. PICK c : c = Byte(<<"bank", a>>)
    OBVIOUS
  <2>2. PICK w : w = Word(a)
    OBVIOUS
  <2>3. IsStack(c) /\ IsStack(w)
    BY <2>1, <2>2, Pieces
  <2>4. s \o (c \o w) = (s \o c) \o w
    BY <2>3, Regroup
  <2> QED
    BY <1>1, <1>3, <2>1, <2>2, <2>4 DEF CodeAddress
<1>6. Drop(r, 3) = s
  <2>1. 2 + 1 <= Len(r) /\ 2 + 1 = 3
    BY <1>2, <1>4, StackFacts
  <2> QED
    BY <1>2, <1>4, <2>1, DropTwice
<1>7. ASSUME NEW k \in Nat \ {0}
      PROVE  ByteAt(r, k + 3) = ByteAt(s, k) /\ WordAt(r, k + 3) = WordAt(s, k)
  <2>1. PICK j \in Nat \ {0} : j = k + 1 /\ j + 2 = k + 3
    OBVIOUS
  <2>2. ByteAt(r, j + 2) = ByteAt(b, j) /\ WordAt(r, j + 2) = WordAt(b, j)
    BY <1>2, <1>3, BelowWord
  <2>3. ByteAt(b, k + 1) = ByteAt(s, k) /\ WordAt(b, k + 1) = WordAt(s, k)
    BY <1>1, BelowByte
  <2> QED
    BY <2>1, <2>2, <2>3
<1>8. IsStack(CodeAddress(a)) /\ Len(CodeAddress(a)) = 3
  <2>1. PICK c : c = Byte(<<"bank", a>>)
    OBVIOUS
  <2>2. IsStack(c) /\ Len(c) = 1
    BY <2>1, Pieces
  <2>3. IsStack(c \o Word(a)) /\ Len(c \o Word(a)) = Len(c) + 2
    BY <2>2, PushWord
  <2> QED
    BY <2>1, <2>2, <2>3 DEF CodeAddress
<1> QED
  BY <1>2, <1>4, <1>5, <1>6, <1>7, <1>8, StackFacts

LEMMA PushP ==
  ASSUME NEW s, IsStack(s), NEW p
  PROVE  /\ IsStack(s \o PByte(p)) /\ Len(s \o PByte(p)) = Len(s) + 1
         /\ Drop(s \o PByte(p), 1) = s /\ PAt(s \o PByte(p), 1) = p
BY PushByte DEF PByte, PAt

LEMMA PushReturn ==
  ASSUME NEW s, IsStack(s), NEW pc
  PROVE  /\ IsStack(ReturnAddress(pc)) /\ Len(ReturnAddress(pc)) = 3
         /\ IsStack(s \o ReturnAddress(pc)) /\ Len(s \o ReturnAddress(pc)) = Len(s) + 3
         /\ Drop(s \o ReturnAddress(pc), 3) = s /\ WordAt(s \o ReturnAddress(pc), 1) = Before(pc)
         /\ \A k \in Nat \ {0} : ByteAt(s \o ReturnAddress(pc), k + 3) = ByteAt(s, k)
                              /\ WordAt(s \o ReturnAddress(pc), k + 3) = WordAt(s, k)
BY PushAddress DEF ReturnAddress

-----------------------------------------------------------------------------
(* The saved frame of context c on top of stack b, register by register.   *)
Frame0(b, c) == b \o HardwareFrame(c.P, c.pc)
Frame1(b, c) == Frame0(b, c) \o Word(c.A)
Frame2(b, c) == Frame1(b, c) \o Word(c.X)
Frame3(b, c) == Frame2(b, c) \o Word(c.Y)
Frame4(b, c) == Frame3(b, c) \o Word(c.D)
Frame5(b, c) == Frame4(b, c) \o Byte(c.B)

LEMMA PushHardware ==
  ASSUME NEW b, IsStack(b), NEW p, NEW pc
  PROVE  LET r == b \o HardwareFrame(p, pc) IN
         /\ IsStack(HardwareFrame(p, pc)) /\ IsStack(r) /\ Len(r) = Len(b) + 4
         /\ PAt(r, 1) = p /\ WordAt(r, 2) = pc /\ Drop(r, 4) = b
<1>1. PICK h : h = CodeAddress(pc)
  OBVIOUS
<1>2. IsStack(h) /\ IsStack(b \o h) /\ Len(b \o h) = Len(b) + 3 /\ Drop(b \o h, 3) = b
      /\ WordAt(b \o h, 1) = pc
  BY <1>1, PushAddress
<1>3. PICK g : g = b \o h
  OBVIOUS
<1>4. PICK r : r = g \o PByte(p)
  OBVIOUS
<1>5. IsStack(r) /\ Len(r) = Len(g) + 1 /\ PAt(r, 1) = p /\ Drop(r, 1) = g
  BY <1>2, <1>3, <1>4, PushP
<1>6. WordAt(r, 2) = pc
  <2>1. WordAt(r, 1 + 1) = WordAt(g, 1)
    BY <1>2, <1>3, <1>4, BelowByte DEF PByte
  <2> QED
    BY <1>2, <1>3, <2>1
<1>7. Drop(r, 4) = b
  <2>1. 1 + 3 <= Len(r)
    BY <1>2, <1>3, <1>5, StackFacts
  <2>2. Drop(Drop(r, 1), 3) = Drop(r, 1 + 3)
    BY <1>5, <2>1, DropTwice
  <2>3. Drop(g, 3) = b
    BY <1>2, <1>3
  <2> QED
    BY <1>5, <2>2, <2>3
<1>8. r = b \o HardwareFrame(p, pc) /\ IsStack(HardwareFrame(p, pc))
  <2>1. PICK q : q = PByte(p)
    OBVIOUS
  <2>2. IsStack(q)
    BY <2>1, Pieces DEF PByte
  <2>3. b \o (h \o q) = (b \o h) \o q
    BY <1>2, <2>2, Regroup
  <2>4. IsStack(h \o q)
    BY <1>2, <2>1, PushP
  <2> QED
    BY <1>1, <1>3, <1>4, <2>1, <2>3, <2>4 DEF HardwareFrame
<1> QED
  BY <1>2, <1>3, <1>5, <1>6, <1>7, <1>8, StackFacts

LEMMA FrameFacts ==
  ASSUME NEW b, IsStack(b), NEW c
  PROVE  /\ IsStack(Frame0(b, c)) /\ Len(Frame0(b, c)) = Len(b) + 4
         /\ PAt(Frame0(b, c), 1) = c.P /\ WordAt(Frame0(b, c), 2) = c.pc /\ Drop(Frame0(b, c), 4) = b
         /\ IsStack(Frame1(b, c)) /\ Len(Frame1(b, c)) = Len(b) + 6
         /\ WordAt(Frame1(b, c), 1) = c.A /\ Drop(Frame1(b, c), 2) = Frame0(b, c)
         /\ IsStack(Frame2(b, c)) /\ Len(Frame2(b, c)) = Len(b) + 8
         /\ WordAt(Frame2(b, c), 1) = c.X /\ Drop(Frame2(b, c), 2) = Frame1(b, c)
         /\ IsStack(Frame3(b, c)) /\ Len(Frame3(b, c)) = Len(b) + 10
         /\ WordAt(Frame3(b, c), 1) = c.Y /\ Drop(Frame3(b, c), 2) = Frame2(b, c)
         /\ IsStack(Frame4(b, c)) /\ Len(Frame4(b, c)) = Len(b) + 12
         /\ WordAt(Frame4(b, c), 1) = c.D /\ Drop(Frame4(b, c), 2) = Frame3(b, c)
         /\ IsStack(Frame5(b, c)) /\ Len(Frame5(b, c)) = Len(b) + 13
         /\ ByteAt(Frame5(b, c), 1) = c.B /\ Drop(Frame5(b, c), 1) = Frame4(b, c)
<1>0. Len(b) \in Nat
  BY StackFacts
<1>1. /\ IsStack(Frame0(b, c)) /\ Len(Frame0(b, c)) = Len(b) + 4
      /\ PAt(Frame0(b, c), 1) = c.P /\ WordAt(Frame0(b, c), 2) = c.pc /\ Drop(Frame0(b, c), 4) = b
  BY PushHardware DEF Frame0
<1>2. /\ IsStack(Frame1(b, c)) /\ Len(Frame1(b, c)) = Len(Frame0(b, c)) + 2
      /\ WordAt(Frame1(b, c), 1) = c.A /\ Drop(Frame1(b, c), 2) = Frame0(b, c)
  BY <1>1, PushWord DEF Frame1
<1>3. /\ IsStack(Frame2(b, c)) /\ Len(Frame2(b, c)) = Len(Frame1(b, c)) + 2
      /\ WordAt(Frame2(b, c), 1) = c.X /\ Drop(Frame2(b, c), 2) = Frame1(b, c)
  BY <1>2, PushWord DEF Frame2
<1>4. /\ IsStack(Frame3(b, c)) /\ Len(Frame3(b, c)) = Len(Frame2(b, c)) + 2
      /\ WordAt(Frame3(b, c), 1) = c.Y /\ Drop(Frame3(b, c), 2) = Frame2(b, c)
  BY <1>3, PushWord DEF Frame3
<1>5. /\ IsStack(Frame4(b, c)) /\ Len(Frame4(b, c)) = Len(Frame3(b, c)) + 2
      /\ WordAt(Frame4(b, c), 1) = c.D /\ Drop(Frame4(b, c), 2) = Frame3(b, c)
  BY <1>4, PushWord DEF Frame4
<1>6. /\ IsStack(Frame5(b, c)) /\ Len(Frame5(b, c)) = Len(Frame4(b, c)) + 1
      /\ ByteAt(Frame5(b, c), 1) = c.B /\ Drop(Frame5(b, c), 1) = Frame4(b, c)
  BY <1>5, PushByte DEF Frame5
<1> QED
  BY <1>0, <1>1, <1>2, <1>3, <1>4, <1>5, <1>6

LEMMA FrameReads ==
  ASSUME NEW b, IsStack(b), NEW c
  PROVE  /\ WordAt(Frame5(b, c), 2) = c.D /\ WordAt(Frame5(b, c), 4) = c.Y
         /\ WordAt(Frame5(b, c), 6) = c.X /\ WordAt(Frame5(b, c), 8) = c.A
         /\ PAt(Frame5(b, c), 10) = c.P /\ WordAt(Frame5(b, c), 11) = c.pc
         /\ Drop(Frame5(b, c), 13) = b
<1>1. /\ IsStack(Frame0(b, c)) /\ IsStack(Frame1(b, c)) /\ IsStack(Frame2(b, c))
      /\ IsStack(Frame3(b, c)) /\ IsStack(Frame4(b, c)) /\ IsStack(Frame5(b, c))
  BY FrameFacts
<1>2. ASSUME NEW k \in Nat \ {0}
      PROVE  /\ WordAt(Frame5(b, c), k + 1) = WordAt(Frame4(b, c), k)
             /\ PAt(Frame5(b, c), k + 1) = PAt(Frame4(b, c), k)
             /\ WordAt(Frame4(b, c), k + 2) = WordAt(Frame3(b, c), k)
             /\ PAt(Frame4(b, c), k + 2) = PAt(Frame3(b, c), k)
             /\ WordAt(Frame3(b, c), k + 2) = WordAt(Frame2(b, c), k)
             /\ PAt(Frame3(b, c), k + 2) = PAt(Frame2(b, c), k)
             /\ WordAt(Frame2(b, c), k + 2) = WordAt(Frame1(b, c), k)
             /\ PAt(Frame2(b, c), k + 2) = PAt(Frame1(b, c), k)
             /\ WordAt(Frame1(b, c), k + 2) = WordAt(Frame0(b, c), k)
             /\ PAt(Frame1(b, c), k + 2) = PAt(Frame0(b, c), k)
  BY <1>1, BelowByte, BelowWord DEF Frame1, Frame2, Frame3, Frame4, Frame5
<1>2a. \A k \in 1..9 : k \in Nat \ {0}
  OBVIOUS
<1>2b. /\ 1 \in 1..9 /\ 2 \in 1..9 /\ 3 \in 1..9 /\ 4 \in 1..9 /\ 5 \in 1..9
      /\ 6 \in 1..9 /\ 7 \in 1..9 /\ 8 \in 1..9 /\ 9 \in 1..9
  OBVIOUS
<1>3. WordAt(Frame5(b, c), 2) = c.D
  <2>1. WordAt(Frame5(b, c), 2) = WordAt(Frame4(b, c), 1)
    BY <1>2, <1>2a, <1>2b
  <2> QED
    BY <2>1, FrameFacts
<1>4. WordAt(Frame5(b, c), 4) = c.Y
  <2>1. WordAt(Frame5(b, c), 4) = WordAt(Frame4(b, c), 3)
    BY <1>2, <1>2a, <1>2b
  <2>2. WordAt(Frame4(b, c), 3) = WordAt(Frame3(b, c), 1)
    BY <1>2, <1>2a, <1>2b
  <2> QED
    BY <2>1, <2>2, FrameFacts
<1>5. WordAt(Frame5(b, c), 6) = c.X
  <2>1. WordAt(Frame5(b, c), 6) = WordAt(Frame4(b, c), 5)
    BY <1>2, <1>2a, <1>2b
  <2>2. WordAt(Frame4(b, c), 5) = WordAt(Frame3(b, c), 3)
    BY <1>2, <1>2a, <1>2b
  <2>3. WordAt(Frame3(b, c), 3) = WordAt(Frame2(b, c), 1)
    BY <1>2, <1>2a, <1>2b
  <2> QED
    BY <2>1, <2>2, <2>3, FrameFacts
<1>6. WordAt(Frame5(b, c), 8) = c.A
  <2>1. WordAt(Frame5(b, c), 8) = WordAt(Frame4(b, c), 7)
    BY <1>2, <1>2a, <1>2b
  <2>2. WordAt(Frame4(b, c), 7) = WordAt(Frame3(b, c), 5)
    BY <1>2, <1>2a, <1>2b
  <2>3. WordAt(Frame3(b, c), 5) = WordAt(Frame2(b, c), 3)
    BY <1>2, <1>2a, <1>2b
  <2>4. WordAt(Frame2(b, c), 3) = WordAt(Frame1(b, c), 1)
    BY <1>2, <1>2a, <1>2b
  <2> QED
    BY <2>1, <2>2, <2>3, <2>4, FrameFacts
<1>7. PAt(Frame5(b, c), 10) = c.P
  <2>1. PAt(Frame5(b, c), 10) = PAt(Frame4(b, c), 9)
    BY <1>2, <1>2a, <1>2b
  <2>2. PAt(Frame4(b, c), 9) = PAt(Frame3(b, c), 7)
    BY <1>2, <1>2a, <1>2b
  <2>3. PAt(Frame3(b, c), 7) = PAt(Frame2(b, c), 5)
    BY <1>2, <1>2a, <1>2b
  <2>4. PAt(Frame2(b, c), 5) = PAt(Frame1(b, c), 3)
    BY <1>2, <1>2a, <1>2b
  <2>5. PAt(Frame1(b, c), 3) = PAt(Frame0(b, c), 1)
    BY <1>2, <1>2a, <1>2b
  <2> QED
    BY <2>1, <2>2, <2>3, <2>4, <2>5, FrameFacts
<1>8. WordAt(Frame5(b, c), 11) = c.pc
  <2>1. WordAt(Frame5(b, c), 11) = WordAt(Frame4(b, c), 10)
    BY <1>2, <1>2a, <1>2b
  <2>2. WordAt(Frame4(b, c), 10) = WordAt(Frame3(b, c), 8)
    BY <1>2, <1>2a, <1>2b
  <2>3. WordAt(Frame3(b, c), 8) = WordAt(Frame2(b, c), 6)
    BY <1>2, <1>2a, <1>2b
  <2>4. WordAt(Frame2(b, c), 6) = WordAt(Frame1(b, c), 4)
    BY <1>2, <1>2a, <1>2b
  <2>5. WordAt(Frame1(b, c), 4) = WordAt(Frame0(b, c), 2)
    BY <1>2, <1>2a, <1>2b
  <2> QED
    BY <2>1, <2>2, <2>3, <2>4, <2>5, FrameFacts
<1>9. Drop(Frame5(b, c), 13) = b
  <2>0. Len(b) \in Nat
    BY StackFacts
  <2>1. Drop(Frame5(b, c), 3) = Frame3(b, c)
    <3>1. 1 + 2 <= Len(Frame5(b, c)) /\ IsStack(Frame5(b, c))
      BY <2>0, FrameFacts
    <3>2. Drop(Drop(Frame5(b, c), 1), 2) = Drop(Frame5(b, c), 1 + 2)
      BY <3>1, DropTwice
    <3> QED
      BY <3>2, FrameFacts
  <2>2. Drop(Frame5(b, c), 5) = Frame2(b, c)
    <3>1. 3 + 2 <= Len(Frame5(b, c)) /\ IsStack(Frame5(b, c))
      BY <2>0, FrameFacts
    <3>2. Drop(Drop(Frame5(b, c), 3), 2) = Drop(Frame5(b, c), 3 + 2)
      BY <3>1, DropTwice
    <3> QED
      BY <3>2, <2>1, FrameFacts
  <2>3. Drop(Frame5(b, c), 7) = Frame1(b, c)
    <3>1. 5 + 2 <= Len(Frame5(b, c)) /\ IsStack(Frame5(b, c))
      BY <2>0, FrameFacts
    <3>2. Drop(Drop(Frame5(b, c), 5), 2) = Drop(Frame5(b, c), 5 + 2)
      BY <3>1, DropTwice
    <3> QED
      BY <3>2, <2>2, FrameFacts
  <2>4. Drop(Frame5(b, c), 9) = Frame0(b, c)
    <3>1. 7 + 2 <= Len(Frame5(b, c)) /\ IsStack(Frame5(b, c))
      BY <2>0, FrameFacts
    <3>2. Drop(Drop(Frame5(b, c), 7), 2) = Drop(Frame5(b, c), 7 + 2)
      BY <3>1, DropTwice
    <3> QED
      BY <3>2, <2>3, FrameFacts
  <2>5. Drop(Frame5(b, c), 13) = b
    <3>1. 9 + 4 <= Len(Frame5(b, c)) /\ IsStack(Frame5(b, c))
      BY <2>0, FrameFacts
    <3>2. Drop(Drop(Frame5(b, c), 9), 4) = Drop(Frame5(b, c), 9 + 4)
      BY <3>1, DropTwice
    <3> QED
      BY <3>2, <2>4, FrameFacts
  <2> QED
    BY <2>5
<1> QED
  BY <1>3, <1>4, <1>5, <1>6, <1>7, <1>8, <1>9

(* The NMI pushes its frame in one go. *)
LEMMA NmiFrame ==
  ASSUME NEW b, IsStack(b), NEW c
  PROVE  b \o (HardwareFrame(c.P, c.pc) \o Word(c.A) \o Word(c.X) \o Word(c.Y)
                 \o Word(c.D) \o Byte(c.B)) = Frame5(b, c)
<1>1. PICK h, wa, wx, wy, wd, bb :
        /\ h = HardwareFrame(c.P, c.pc) /\ wa = Word(c.A) /\ wx = Word(c.X) /\ wy = Word(c.Y)
        /\ wd = Word(c.D) /\ bb = Byte(c.B)
  OBVIOUS
<1>2. IsStack(wa) /\ IsStack(wx) /\ IsStack(wy) /\ IsStack(wd) /\ IsStack(bb)
  BY <1>1, Pieces
<1>3. IsStack(h)
  BY <1>1, PushHardware
<1>4. PICK h1 : h1 = h \o wa
  OBVIOUS
<1>5. PICK h2 : h2 = h1 \o wx
  OBVIOUS
<1>6. PICK h3 : h3 = h2 \o wy
  OBVIOUS
<1>7. PICK h4 : h4 = h3 \o wd
  OBVIOUS
<1>8. IsStack(h1)
  BY <1>1, <1>3, <1>4, PushWord
<1>9. IsStack(h2)
  BY <1>1, <1>5, <1>8, PushWord
<1>10. IsStack(h3)
  BY <1>1, <1>6, <1>9, PushWord
<1>11. IsStack(h4)
  BY <1>1, <1>7, <1>10, PushWord
<1>12. b \o (h \o wa) = (b \o h) \o wa
  BY <1>2, <1>3, Regroup, SMTT(60)
<1>13. b \o (h1 \o wx) = (b \o h1) \o wx
  BY <1>2, <1>8, Regroup, SMTT(60)
<1>14. b \o (h2 \o wy) = (b \o h2) \o wy
  BY <1>2, <1>9, Regroup, SMTT(60)
<1>15. b \o (h3 \o wd) = (b \o h3) \o wd
  BY <1>2, <1>10, Regroup, SMTT(60)
<1>16. b \o (h4 \o bb) = (b \o h4) \o bb
  BY <1>2, <1>11, Regroup, SMTT(60)
<1>17. b \o (h4 \o bb) = ((((((b \o h) \o wa) \o wx) \o wy) \o wd) \o bb)
  BY <1>4, <1>5, <1>6, <1>7, <1>12, <1>13, <1>14, <1>15, <1>16, Zenon
<1> QED
  BY <1>1, <1>4, <1>5, <1>6, <1>7, <1>17, Zenon DEF Frame0, Frame1, Frame2, Frame3, Frame4, Frame5

(* An outgoing byte and the return address of a call. *)
LEMMA PushCall ==
  ASSUME NEW s, IsStack(s), NEW a, NEW pc
  PROVE  LET r == s \o (Byte(a) \o ReturnAddress(pc)) IN
         /\ IsStack(r) /\ Len(r) = Len(s) + 4
         /\ WordAt(r, 1) = Before(pc) /\ ByteAt(r, 4) = a /\ Drop(r, 4) = s
<1>1. PICK u : u = Byte(a)
  OBVIOUS
<1>2. PICK v : v = ReturnAddress(pc)
  OBVIOUS
<1>3. IsStack(u) /\ IsStack(v)
  <2>1. IsStack(u)
    BY <1>1, Pieces
  <2> QED
    BY <1>2, <2>1, PushReturn
<1>4. s \o (u \o v) = (s \o u) \o v
  BY <1>3, Regroup
<1>5. PICK g : g = s \o u
  OBVIOUS
<1>6. IsStack(g) /\ Len(g) = Len(s) + 1 /\ Drop(g, 1) = s /\ ByteAt(g, 1) = a
  BY <1>1, <1>5, PushByte
<1>7. PICK r : r = g \o v
  OBVIOUS
<1>8. /\ IsStack(r) /\ Len(r) = Len(g) + 3 /\ Drop(r, 3) = g /\ WordAt(r, 1) = Before(pc)
      /\ \A k \in Nat \ {0} : ByteAt(r, k + 3) = ByteAt(g, k)
  BY <1>2, <1>6, <1>7, PushReturn
<1>9. ByteAt(r, 4) = a
  <2>1. 1 \in Nat \ {0} /\ 1 + 3 = 4
    OBVIOUS
  <2> QED
    BY <1>6, <1>8, <2>1
<1>10. Drop(r, 4) = s
  <2>1. 3 + 1 <= Len(r)
    BY <1>6, <1>8, StackFacts
  <2>2. Drop(Drop(r, 3), 1) = Drop(r, 3 + 1)
    BY <1>8, <2>1, DropTwice
  <2> QED
    BY <1>6, <1>8, <2>2
<1>11. r = s \o (Byte(a) \o ReturnAddress(pc)) /\ Len(r) = Len(s) + 4
  <2>1. Len(s) \in Nat
    BY StackFacts
  <2> QED
    BY <1>1, <1>2, <1>4, <1>5, <1>6, <1>7, <1>8, <2>1
<1> QED
  BY <1>8, <1>9, <1>10, <1>11

(* The call area of the dispatcher. *)
LEMMA CallAreaFacts ==
  ASSUME NEW x, NEW v, NEW pc
  PROVE  /\ IsStack(Byte(x) \o Word(v)) /\ Len(Byte(x) \o Word(v)) = 3
         /\ <<>> \o (Byte(x) \o Word(v)) = Byte(x) \o Word(v)
         /\ LET r == (Byte(x) \o Word(v)) \o ReturnAddress(pc) IN
            /\ IsStack(r) /\ Len(r) = 6
            /\ WordAt(r, 1) = Before(pc) /\ WordAt(r, 4) = v /\ ByteAt(r, 6) = x
            /\ Drop(r, 3) = Byte(x) \o Word(v)
<1>1. PICK u : u = Byte(x)
  OBVIOUS
<1>2. IsStack(u) /\ Len(u) = 1 /\ u = <<>> \o Byte(x) /\ IsStack(<<>>)
  BY <1>1, Pieces
<1>3. ByteAt(u, 1) = x
  BY <1>2, PushByte
<1>4. PICK g : g = u \o Word(v)
  OBVIOUS
<1>5. IsStack(g) /\ Len(g) = Len(u) + 2 /\ WordAt(g, 1) = v
  BY <1>2, <1>4, PushWord
<1>6. ByteAt(g, 3) = x
  <2>1. ByteAt(g, 1 + 2) = ByteAt(u, 1)
    BY <1>2, <1>4, BelowWord
  <2> QED
    BY <1>3, <2>1
<1>7. PICK r : r = g \o ReturnAddress(pc)
  OBVIOUS
<1>8. /\ IsStack(r) /\ Len(r) = Len(g) + 3 /\ Drop(r, 3) = g /\ WordAt(r, 1) = Before(pc)
      /\ \A k \in Nat \ {0} : ByteAt(r, k + 3) = ByteAt(g, k) /\ WordAt(r, k + 3) = WordAt(g, k)
  BY <1>5, <1>7, PushReturn
<1>9. WordAt(r, 4) = v /\ ByteAt(r, 6) = x
  <2>1. 1 \in Nat \ {0} /\ 1 + 3 = 4 /\ 3 \in Nat \ {0} /\ 3 + 3 = 6
    OBVIOUS
  <2> QED
    BY <1>5, <1>6, <1>8, <2>1
<1>10. <<>> \o g = g
  <2>1. PICK W : g \in Seq(W)
    BY <1>5 DEF IsStack
  <2> QED
    BY <2>1, ConcatEmptySeq
<1>11. g = Byte(x) \o Word(v)
  BY <1>1, <1>4
<1>12. Len(g) = 3 /\ Len(r) = 6
  <2>1. Len(u) = 1
    BY <1>2
  <2>2. Len(g) = Len(u) + 2 /\ Len(r) = Len(g) + 3
    BY <1>5, <1>8
  <2> QED
    BY <2>1, <2>2
<1> QED
  BY <1>5, <1>7, <1>8, <1>9, <1>10, <1>11, <1>12

-----------------------------------------------------------------------------
(* Tasks between two calls, and in the routines of the bridge.  c is the   *)
(* processor as the task has it and s the task's stack.                    *)
EntryStack == Argument \o ReturnAddress(<<"task_return", 0>>)
BodyStack(s) == Len(s) >= 6 /\ SubSeq(s, 1, 6) = EntryStack
Called(s, pc) == WordAt(s, 1) = Before(pc) /\ BodyStack(Drop(s, 4))

(* A task's tokens and how it was started; whether it is to run masked,    *)
(* and a flag that says so.                                                *)
Mode(t) == [tokens |-> tokens[t], masked |-> t \in masked]
Holds(m) == m.tokens # <<>> \/ m.masked
Tells(v, m) == v \in {Flag(TRUE), Flag(FALSE)} /\ (v = Flag(TRUE) <=> Holds(m))

InYield(t, c, s, m) ==
  /\ c.P.i <=> Holds(m)
  /\ \/ \E k \in {0, 1, 3, 4, 5} :
          /\ c.pc = <<"yield", k>> /\ Called(s, <<"after_call", t>>)
          /\ k = 1 => Len(s) < TaskUsable
          /\ k = 3 => Tells(c.A, m)
          /\ k \in {4, 5} => ~c.P.i
     \/ /\ c.pc = <<"yield", 2>>
        /\ Called(Drop(s, 1), <<"after_call", t>>)
        /\ Tells(StatusBit(PAt(s, 1)), m)
     \/ c.pc = <<"after_call", t>> /\ BodyStack(Drop(s, 1))

InSave(t, c, s, m) ==
  \/ /\ \E k \in {0, 1} : c.pc = <<"save", k>> /\ (k = 1 => Len(s) < TaskUsable)
     /\ Called(s, <<"after_save", t>>) /\ (c.P.i <=> Holds(m))
  \/ /\ \/ c.pc = <<"save", 2>> /\ (c.P.i <=> Holds(m))
        \/ c.pc = <<"save", 3>> /\ c.P.i
     /\ Called(Drop(s, 1), <<"after_save", t>>)
     /\ Tells(StatusBit(PAt(s, 1)), m)
  \/ /\ \/ c.pc = <<"save", 4>> /\ Called(s, <<"after_save", t>>)
        \/ c.pc = <<"after_save", t>> /\ BodyStack(Drop(s, 1))
     /\ c.P.i /\ Tells(c.A, m)

InRestoreIrq(t, c, s, m) ==
  /\ Called(s, <<"after_call", t>>)
  /\ \/ c.pc = <<"restore_irq", 0>> /\ c.P.i /\ Tells(ByteAt(s, 4), m)
     \/ c.pc = <<"restore_irq", 1>> /\ (c.P.i <=> Holds(m))

InReturn(c, s, m) ==
  /\ m.tokens = <<>> /\ (c.P.i <=> Holds(m))
  /\ \/ c.pc = <<"task_return", 0>> /\ s = Argument
     \/ \E k \in {1, 2} : c.pc = <<"task_return", k>> /\ s = <<>>
     \/ \E k \in {3, 4} : c.pc = <<"task_return", k>> /\ s = Byte(Zero)
     \/ c.pc = <<"A816_TASK_EXIT", 0>> /\ s = Byte(Zero) \o ReturnAddress(<<"task_return", 4>>)

InTaskCode(t, c, s, m) ==
  /\ c.dom = t /\ c.D = Page(t) /\ Len(s) <= TaskUsable
  /\ \/ c.pc = <<"body", t>> /\ BodyStack(s) /\ (c.P.i <=> Holds(m))
     \/ InYield(t, c, s, m)
     \/ InSave(t, c, s, m)
     \/ InRestoreIrq(t, c, s, m)
     \/ InReturn(c, s, m)
     \/ c.pc = <<"terminal", 0>> /\ (c.P.i <=> Holds(m))

InBootCode(c, s) ==
  /\ c.dom = Boot /\ c.D = Page(Boot)
  /\ \/ c.pc = <<"boot", 0>> /\ s = <<>> /\ c.P.i
     \/ \E k \in {0, 1, 3} : c.pc = <<"yield", k>> /\ Len(s) = 4
     \/ c.pc = <<"yield", 2>> /\ Len(s) = 5
     \/ c.pc = <<"terminal", 0>> /\ Len(s) = 4

InCode(d, c, s, m) == IF d = Boot THEN InBootCode(c, s) ELSE InTaskCode(d, c, s, m)

(* A COP a task executes itself with a signature the bridge refuses.       *)
IllegalCop(d, c, s) ==
  /\ d \in Task /\ c.dom = d /\ c.D = Page(d) /\ c.pc = <<"cop1", d>>
  /\ Len(s) <= TaskUsable

-----------------------------------------------------------------------------
(* The domain that runs, or ran when the bridge was entered.               *)
Live == IF current = None THEN Boot ELSE current

(* A task without the processor either left or can be restored.            *)
Resumable(u, st) ==
  /\ saved[u] = SavedS(u, Len(st[u]))
  /\ st[u] = Frame5(shadow[u].stack, shadow[u].cpu)
  /\ InTaskCode(u, shadow[u].cpu, shadow[u].stack, Mode(u))
Suspended(u, st) == tokens[u] = <<>> /\ (saved[u] # Junk => Resumable(u, st))

-----------------------------------------------------------------------------
(* Where the bridge is. *)
Entered(r, d, x, m) ==
  /\ r = "irq" => ~x.cpu.P.i /\ InCode(d, x.cpu, x.stack, m)
  /\ r = "cop" => d \in Task /\ (InCode(d, x.cpu, x.stack, m) \/ IllegalCop(d, x.cpu, x.stack))

SavingAt(r, k, c, st) ==
  LET x == shadow[Live] IN
  /\ c.pc = <<r, k>> /\ Entered(r, Live, x, Mode(Live))
  /\ c.dom = Live /\ c.A = x.cpu.A /\ c.X = x.cpu.X /\ c.Y = x.cpu.Y /\ c.D = x.cpu.D /\ c.B = x.cpu.B
  /\ c.P = IF k = 0 THEN [x.cpu.P EXCEPT !.i = TRUE] ELSE Flags(TRUE)
  /\ k \in {0, 1} => st[Live] = Frame0(x.stack, x.cpu)
  /\ k = 2 => st[Live] = Frame1(x.stack, x.cpu)
  /\ k = 3 => st[Live] = Frame2(x.stack, x.cpu)
  /\ k = 4 => st[Live] = Frame3(x.stack, x.cpu)
  /\ k = 5 => st[Live] = Frame4(x.stack, x.cpu)
  /\ k = 6 => st[Live] = Frame5(x.stack, x.cpu)
Saving(c, st) == \E r \in {"irq", "cop"}, k \in 0..6 : SavingAt(r, k, c, st)

SwitchingAt(r, k, c, st) ==
  LET x == shadow[Live] IN
  /\ c.pc = <<"dispatch", k>> /\ Entered(r, Live, x, Mode(Live))
  /\ st[Live] = Frame5(x.stack, x.cpu) /\ c.X = SavedS(Live, Len(st[Live])) /\ c.Y = <<"reason", r>>
  /\ c.P = IF k = 3 THEN [i |-> TRUE, m8 |-> TRUE, x8 |-> FALSE] ELSE Flags(TRUE)
  /\ c.dom = IF k = 0 THEN Live ELSE Irq
  /\ k \in {1, 2, 4} => st[Irq] = <<>>
  /\ k = 3 => st[Irq] = Byte(Zero)
  /\ k >= 2 => c.D = Page(Irq)
  /\ k = 4 => c.B = Zero
Switching(c, st) == \E r \in {"irq", "cop"}, k \in 0..4 : SwitchingAt(r, k, c, st)

CallingAt(r, pc, c, st) ==
  LET x == shadow[Live] IN
  /\ c.pc = pc /\ InCode(Live, x.cpu, x.stack, Mode(Live))
  /\ Live \in Task => tokens[Live] = <<>>
  /\ r = "cop" => YieldIsLegal
  /\ st[Live] = Frame5(x.stack, x.cpu) /\ c.X = SavedS(Live, Len(st[Live]))
  /\ scratch[Irq] = <<"reason", r>>
  /\ c.dom = Irq /\ c.D = Page(Irq) /\ c.B = Zero /\ c.P = Flags(TRUE)
  /\ pc = <<"dispatch", 5>> => st[Irq] = <<>>
  /\ pc = <<"dispatch", 6>> => Len(st[Irq]) = 3
  /\ pc = <<"dispatch", 7>> => st[Irq] = Byte(<<"reason", r>>) \o Word(c.X)
  /\ pc = <<"A816_DISPATCH", 0>> =>
       st[Irq] = Byte(<<"reason", r>>) \o Word(c.X) \o ReturnAddress(<<"dispatch", 8>>)
Calling(c, st) ==
  \E r \in {"irq", "cop"} :
  \E pc \in {<<"dispatch", 5>>, <<"dispatch", 6>>, <<"dispatch", 7>>, <<"A816_DISPATCH", 0>>} :
    CallingAt(r, pc, c, st)

(* The next task is chosen and the processor on its way to it.             *)
Chosen(c, st) ==
  /\ current \in Task /\ saved[current] # Junk /\ Suspended(current, st)
  /\ c.A = saved[current] /\ c.P.i
  /\ \/ c.pc = <<"dispatch", 8>> /\ c.dom = Irq /\ Len(st[Irq]) = 3
     \/ c.pc = <<"restore", 0>>
     \/ c.pc = <<"restore", 1>> /\ c.P = Flags(TRUE)

RestoringAt(k, c, st) ==
  LET x == shadow[current] IN
  /\ c.pc = <<"restore", k>>
  /\ current \in Task /\ tokens[current] = <<>>
  /\ InTaskCode(current, x.cpu, x.stack, Mode(current))
  /\ c.dom = current /\ c.P = Flags(TRUE)
  /\ k = 2 => st[current] = Frame5(x.stack, x.cpu)
  /\ k = 3 => st[current] = Frame4(x.stack, x.cpu)
  /\ k = 4 => st[current] = Frame3(x.stack, x.cpu)
  /\ k = 5 => st[current] = Frame2(x.stack, x.cpu)
  /\ k = 6 => st[current] = Frame1(x.stack, x.cpu)
  /\ k = 7 => st[current] = Frame0(x.stack, x.cpu)
  /\ k >= 3 => c.B = x.cpu.B
  /\ k >= 4 => c.D = x.cpu.D
  /\ k >= 5 => c.Y = x.cpu.Y
  /\ k >= 6 => c.X = x.cpu.X
  /\ k >= 7 => c.A = x.cpu.A
Restoring(c, st) == \E k \in 2..7 : RestoringAt(k, c, st)

Working(c, st) ==
  \/ /\ current = None /\ InBootCode(c, st[Boot]) /\ \A u \in Task : saved[u] # Junk
  \/ /\ current \in Task /\ InTaskCode(current, c, st[current], Mode(current))
     /\ shadow[current] = NoContext

Over(c, st) ==
  /\ \/ c.pc[1] \in {"A816_TERMINAL", "A816_STACK_OVERFLOW"}
     \/ c.pc = <<"terminal", 0>> /\ c.dom = Irq /\ c.P.i
  /\ c.dom \in Task => Len(st[c.dom]) <= TaskUsable

-----------------------------------------------------------------------------
IsCpu(c) ==
  /\ c = [A |-> c.A, X |-> c.X, Y |-> c.Y, D |-> c.D, B |-> c.B, P |-> c.P, dom |-> c.dom, pc |-> c.pc]
  /\ c.P \in [i : BOOLEAN, m8 : BOOLEAN, x8 : BOOLEAN]
  /\ c.dom \in Domain
IsContext(x) == x = [cpu |-> x.cpu, stack |-> x.stack] /\ IsCpu(x.cpu) /\ IsStack(x.stack)

(* The outermost token tells how the task was started, all others that it  *)
(* was masked.                                                             *)
TokensOK ==
  /\ tokens \in [Task -> Seq({Flag(TRUE), Flag(FALSE)})]
  /\ \A t \in Task : \A k \in 1..Len(tokens[t]) :
       tokens[t][k] = Flag(TRUE) <=> k > 1 \/ t \in masked

Room(d) == IF d = Irq THEN 6 ELSE TaskUsable + 13
Typed(c, st) ==
  /\ IsCpu(c)
  /\ st = [d \in Domain |-> st[d]]
  /\ \A d \in Domain : IsStack(st[d]) /\ Len(st[d]) <= Room(d)
  /\ current \in Task \cup {None}
  /\ saved = [t \in Task |-> saved[t]]
  /\ shadow = [d \in Domain |-> shadow[d]] /\ \A d \in Domain : IsContext(shadow[d])
  /\ scratch = [d \in Domain |-> scratch[d]]
  /\ TokensOK

(* What every step keeps, and where execution is. *)
Grounds(c, st) ==
  /\ Typed(c, st) /\ ScratchIsolated
  /\ \A u \in Task : u # current => Suspended(u, st)
Phase(c, st) ==
  \/ Working(c, st) \/ Saving(c, st) \/ Switching(c, st) \/ Calling(c, st) \/ Chosen(c, st)
  \/ Restoring(c, st) \/ Over(c, st)
BridgeInv(c, st) == Grounds(c, st) /\ Phase(c, st)

(* The invariant while no NMI is being served. *)
Inv == BridgeInv(cpu, stack)

-----------------------------------------------------------------------------
LEMMA DomainFacts ==
  /\ Irq \in Domain /\ Boot \in Domain /\ Task \subseteq Domain
  /\ Irq \notin Task /\ Boot \notin Task /\ Irq # Boot /\ None \notin Task
  /\ \A t \in Task : t # Irq /\ t # Boot
  /\ TaskUsable \in Nat /\ TaskUsable >= 6
BY DomainAssumption, LayoutAssumption DEF Domain

LEMMA LiveFacts ==
  ASSUME NEW c, NEW st, Typed(c, st)
  PROVE  /\ Live \in Domain /\ Live # Irq /\ (current \in Task => Live = current)
         /\ IsContext(shadow[Live]) /\ IsStack(shadow[Live].stack)
         /\ shadow[Live].cpu.P \in [i : BOOLEAN, m8 : BOOLEAN, x8 : BOOLEAN]
<1>1. Live \in Domain /\ Live # Irq /\ (current \in Task => Live = current)
  BY DomainFacts DEF Typed, Live
<1>2. IsContext(shadow[Live])
  BY <1>1 DEF Typed
<1> QED
  BY <1>1, <1>2 DEF IsContext, IsCpu

(* The program counter tells the phase. *)
LEMMA Phases ==
  ASSUME NEW c, NEW st, BridgeInv(c, st)
  PROVE  /\ c.pc[1] \in {"body", "after_call", "after_save", "yield", "save", "restore_irq",
                         "task_return", "A816_TASK_EXIT", "boot"} => Working(c, st)
         /\ c.pc[1] = "terminal" => Working(c, st) \/ (c.dom = Irq /\ c.P.i)
         /\ \A r \in {"irq", "cop"}, k \in 0..6 : c.pc = <<r, k>> => SavingAt(r, k, c, st)
         /\ \A k \in 0..4 : c.pc = <<"dispatch", k>> =>
              \E r \in {"irq", "cop"} : SwitchingAt(r, k, c, st)
         /\ c.pc = <<"dispatch", 5>> \/ c.pc = <<"dispatch", 6>> \/ c.pc = <<"dispatch", 7>>
              \/ c.pc[1] = "A816_DISPATCH" => \E r \in {"irq", "cop"} : CallingAt(r, c.pc, c, st)
         /\ c.pc = <<"dispatch", 8>> => Chosen(c, st)
         /\ \A k \in 0..1 : c.pc = <<"restore", k>> => Chosen(c, st)
         /\ \A k \in 2..7 : c.pc = <<"restore", k>> => RestoringAt(k, c, st)
         /\ ~c.P.i /\ c.pc[1] \notin {"A816_TERMINAL", "A816_STACK_OVERFLOW"} => Working(c, st)
<1>1. Working(c, st) => c.pc[1] \in {"body", "after_call", "after_save", "yield", "save", "restore_irq",
                         "task_return", "A816_TASK_EXIT", "boot", "terminal"}
  BY DEF Working, InBootCode, InTaskCode, InYield, InSave, InRestoreIrq, InReturn
<1>2. ASSUME NEW r \in {"irq", "cop"}, NEW k \in 0..6, SavingAt(r, k, c, st)
      PROVE  c.pc = <<r, k>> /\ c.P.i
  <2>1. shadow[Live].cpu.P \in [i : BOOLEAN, m8 : BOOLEAN, x8 : BOOLEAN]
    BY LiveFacts DEF BridgeInv, Grounds
  <2> QED
    BY <1>2, <2>1 DEF SavingAt, Flags
<1>3. ASSUME NEW r \in {"irq", "cop"}, NEW k \in 0..4, SwitchingAt(r, k, c, st)
      PROVE  c.pc = <<"dispatch", k>> /\ c.P.i
  BY <1>3 DEF SwitchingAt, Flags
<1>4. ASSUME NEW r \in {"irq", "cop"}, NEW pc, CallingAt(r, pc, c, st)
      PROVE  c.pc = pc /\ c.P.i
  BY <1>4 DEF CallingAt, Flags
<1>5. Chosen(c, st) =>
        c.pc \in {<<"dispatch", 8>>, <<"restore", 0>>, <<"restore", 1>>} /\ c.P.i
  BY DEF Chosen, Flags
<1>6. ASSUME NEW k \in 2..7, RestoringAt(k, c, st)
      PROVE  c.pc = <<"restore", k>> /\ c.P.i
  BY <1>6 DEF RestoringAt, Flags
<1>7. Over(c, st) => \/ c.pc[1] \in {"A816_TERMINAL", "A816_STACK_OVERFLOW"}
                     \/ c.pc[1] = "terminal" /\ c.dom = Irq /\ c.P.i
  BY DEF Over
<1>8. CASE Working(c, st)
  BY <1>1, <1>8
<1>9. CASE Saving(c, st)
  BY <1>2, <1>9 DEF Saving
<1>10. CASE Switching(c, st)
  BY <1>3, <1>10 DEF Switching
<1>11. CASE Calling(c, st)
  <2>1. PICK r \in {"irq", "cop"},
             pc \in {<<"dispatch", 5>>, <<"dispatch", 6>>, <<"dispatch", 7>>, <<"A816_DISPATCH", 0>>} :
               CallingAt(r, pc, c, st)
    BY <1>11 DEF Calling
  <2>2. c.pc = pc /\ c.P.i
    BY <1>4, <2>1
  <2>3. \/ c.pc[1] = "dispatch" /\ c.pc[2] \in 5..7
        \/ c.pc[1] = "A816_DISPATCH"
    BY <2>2
  <2> QED
    BY <2>1, <2>2, <2>3
<1>12. CASE Chosen(c, st)
  BY <1>5, <1>12
<1>13. CASE Restoring(c, st)
  BY <1>6, <1>13 DEF Restoring
<1>14. CASE Over(c, st)
  BY <1>7, <1>14
<1> QED
  BY <1>8, <1>9, <1>10, <1>11, <1>12, <1>13, <1>14 DEF BridgeInv, Phase

(* What a step that moves only the processor and one live stack keeps.     *)
LEMMA OthersKeep ==
  ASSUME Inv, IsCpu(cpu'), UNCHANGED <<scratch, dispatcher, programs, shadow>>,
         NEW d \in Domain, d \notin Task \/ d = current, NEW s, IsStack(s), Len(s) <= Room(d),
         stack' = [stack EXCEPT ![d] = s]
  PROVE  /\ Grounds(cpu, stack)' /\ stack'[d] = s /\ \A e \in Domain \ {d} : stack'[e] = stack[e]
<1>1. Typed(cpu, stack) /\ ScratchIsolated /\ \A u \in Task : u # current => Suspended(u, stack)
  BY DEF Inv, BridgeInv, Grounds
<1>2. /\ stack = [e \in Domain |-> stack[e]]
      /\ \A e \in Domain : IsStack(stack[e]) /\ Len(stack[e]) <= Room(e)
  BY <1>1 DEF Typed
<1>3. stack'[d] = s /\ (\A e \in Domain \ {d} : stack'[e] = stack[e])
      /\ stack' = [e \in Domain |-> stack'[e]]
  BY <1>2
<1>4. Typed(cpu, stack)'
  BY <1>1, <1>2, <1>3, ZenonT(60) DEF Typed, TokensOK, dispatcher, programs
<1>5. ASSUME NEW u \in Task, u # current' PROVE Suspended(u, stack)'
  <2>1. Suspended(u, stack) /\ stack'[u] = stack[u]
    BY <1>1, <1>3, <1>5, DomainFacts DEF dispatcher
  <2> QED
    BY <2>1 DEF Suspended, Resumable, Mode, dispatcher, programs
<1>6. ScratchIsolated'
  BY <1>1 DEF ScratchIsolated
<1> QED
  BY <1>3, <1>4, <1>5, <1>6 DEF Grounds

LEMMA StackStays ==
  ASSUME Inv, IsCpu(cpu'), UNCHANGED <<scratch, dispatcher, programs, shadow, stack>>
  PROVE  Grounds(cpu, stack)'
<1>1. Boot \in Domain /\ Boot \notin Task /\ stack' = [stack EXCEPT ![Boot] = stack[Boot]]
      /\ IsStack(stack[Boot]) /\ Len(stack[Boot]) <= Room(Boot)
  BY DomainFacts DEF Inv, BridgeInv, Grounds, Typed
<1> QED
  BY <1>1, OthersKeep

LEMMA Same ==
  ASSUME UNCHANGED <<dispatcher, programs>>
  PROVE  /\ current' = current /\ saved' = saved /\ tokens' = tokens /\ Live' = Live
         /\ \A t : Mode(t)' = Mode(t)
BY DEF dispatcher, programs, Live, Mode

LEMMA CodeFits ==
  ASSUME NEW d, NEW c, NEW s, NEW m, IsStack(s), InCode(d, c, s, m)
  PROVE  Len(s) <= TaskUsable /\ c.dom = d /\ c.D = Page(d)
<1>1. CASE d = Boot
  <2>1. c.dom = d /\ c.D = Page(d) /\ (s = <<>> \/ Len(s) = 4 \/ Len(s) = 5)
    BY <1>1 DEF InCode, InBootCode
  <2>2. Len(<<>>) = 0
    OBVIOUS
  <2>3. Len(s) \in {0, 4, 5}
    BY <2>1, <2>2
  <2>4. Len(s) <= TaskUsable
    <3>1. TaskUsable \in Nat /\ TaskUsable >= 6
      BY DomainFacts
    <3>2. PICK n : n = Len(s)
      OBVIOUS
    <3>3. n \in {0, 4, 5}
      BY <2>3, <3>2
    <3>4. n <= TaskUsable
      BY <3>1, <3>3
    <3> QED
      BY <3>2, <3>4
  <2> QED
    BY <2>1, <2>4
<1> QED
  BY <1>1 DEF InCode, InTaskCode

LEMMA EnteredFits ==
  ASSUME NEW r \in {"irq", "cop"}, NEW d, NEW x, NEW m, IsStack(x.stack), Entered(r, d, x, m)
  PROVE  Len(x.stack) <= TaskUsable /\ x.cpu.dom = d /\ x.cpu.D = Page(d)
BY CodeFits DEF Entered, IllegalCop

LEMMA Widening ==
  ASSUME NEW p \in [i : BOOLEAN, m8 : BOOLEAN, x8 : BOOLEAN], p.i
  PROVE  Widened(p) = Flags(TRUE)
<1>1. PICK q : q = [p EXCEPT !.m8 = FALSE, !.x8 = FALSE]
  OBVIOUS
<1>2. q = [i |-> TRUE, m8 |-> FALSE, x8 |-> FALSE]
  BY <1>1
<1> QED
  BY <1>1, <1>2 DEF Widened, Flags

-----------------------------------------------------------------------------
(* save_full. *)
LEMMA SaveSteps ==
  ASSUME Inv, NEW r \in {"irq", "cop"}, SaveFull(r), Quiet
  PROVE  Inv'
<1>0. Typed(cpu, stack) /\ IsCpu(cpu) /\ Grounds(cpu, stack) /\ BridgeInv(cpu, stack)
  BY DEF Inv, BridgeInv, Grounds, Typed
<1> PICK d : d = Live
  OBVIOUS
<1> PICK x : x = shadow[d]
  OBVIOUS
<1> PICK m : m = Mode(d)
  OBVIOUS
<1>1. /\ d \in Domain /\ d # Irq /\ (d \notin Task \/ d = current)
      /\ IsCpu(x.cpu) /\ IsStack(x.stack) /\ Len(x.stack) \in Nat
  <2>1. d \in Domain /\ d # Irq /\ (d \notin Task \/ d = current) /\ IsContext(x)
    BY <1>0, LiveFacts, DomainFacts DEF Live
  <2> QED
    BY <2>1, StackFacts DEF IsContext
<1>2. /\ UNCHANGED <<scratch, dispatcher, programs, shadow>> 
      /\ Live' = d /\ shadow'[d] = x /\ Mode(d)' = m /\ Mode(Live)' = m
  BY Same DEF Quiet
<1>3. ASSUME NEW k \in 0..6, cpu.pc = <<r, k>>
      PROVE  /\ SavingAt(r, k, cpu, stack) /\ Entered(r, d, x, m) /\ Len(x.stack) <= TaskUsable
             /\ x.cpu.D = Page(d)
             /\ cpu.dom = d /\ cpu.A = x.cpu.A /\ cpu.X = x.cpu.X /\ cpu.Y = x.cpu.Y
             /\ cpu.D = x.cpu.D /\ cpu.B = x.cpu.B
             /\ cpu.P = IF k = 0 THEN [x.cpu.P EXCEPT !.i = TRUE] ELSE Flags(TRUE)
  <2>1. SavingAt(r, k, cpu, stack)
    BY <1>0, <1>3, Phases
  <2>2. Entered(r, d, x, m)
    BY <2>1 DEF SavingAt
  <2> QED
    BY <1>1, <2>1, <2>2, EnteredFits DEF SavingAt
<1>4. CASE At_pc(r, 0)
  <2>1. /\ SavingAt(r, 0, cpu, stack) /\ Entered(r, d, x, m)
        /\ cpu.dom = d /\ cpu.A = x.cpu.A /\ cpu.X = x.cpu.X /\ cpu.Y = x.cpu.Y
        /\ cpu.D = x.cpu.D /\ cpu.B = x.cpu.B /\ cpu.P = [x.cpu.P EXCEPT !.i = TRUE]
    BY <1>3, <1>4 DEF At_pc
  <2>2. cpu' = [cpu EXCEPT !.P = Widened(@), !.pc = <<r, 1>>] /\ UNCHANGED stack
    BY <1>4 DEF SaveFull, At_pc
  <2>3. Widened(cpu.P) = Flags(TRUE)
    <3>1. PICK p : p = x.cpu.P
      OBVIOUS
    <3>2. p \in [i : BOOLEAN, m8 : BOOLEAN, x8 : BOOLEAN]
      BY <1>1, <3>1 DEF IsCpu
    <3>3. cpu.P = [p EXCEPT !.i = TRUE]
      BY <2>1, <3>1
    <3>4. cpu.P \in [i : BOOLEAN, m8 : BOOLEAN, x8 : BOOLEAN] /\ cpu.P.i
      BY <3>2, <3>3
    <3> QED
      BY <3>4, Widening
  <2>4. IsCpu(cpu') /\ cpu'.P = Flags(TRUE)
    <3>1. IsCpu(cpu) /\ cpu' = [cpu EXCEPT !.P = Flags(TRUE), !.pc = <<r, 1>>]
      BY <1>0, <2>2, <2>3
    <3>2. Flags(TRUE) \in [i : BOOLEAN, m8 : BOOLEAN, x8 : BOOLEAN]
      BY DEF Flags
    <3> QED
      BY <3>1, <3>2 DEF IsCpu
  <2>5. Grounds(cpu, stack)'
    BY <1>2, <2>2, <2>4, StackStays
  <2>6. SavingAt(r, 1, cpu, stack)'
    BY <1>0, <1>2, <2>1, <2>2, <2>4 DEF SavingAt, IsCpu
  <2> QED
    BY <2>5, <2>6 DEF Inv, BridgeInv, Phase, Saving
<1>5. ASSUME NEW k \in 1..5, At_pc(r, k), Push(Image(SaveOrder[k])), Goto(r, k + 1)
      PROVE  Inv'
  <2>1. /\ SavingAt(r, k, cpu, stack) /\ Entered(r, d, x, m)
        /\ cpu.dom = d /\ cpu.A = x.cpu.A /\ cpu.X = x.cpu.X /\ cpu.Y = x.cpu.Y
        /\ cpu.D = x.cpu.D /\ cpu.B = x.cpu.B /\ cpu.P = Flags(TRUE) /\ Len(x.stack) <= TaskUsable
    <3>1. k \in 0..6 /\ k # 0
      OBVIOUS
    <3> QED
      BY <1>3, <1>5, <3>1 DEF At_pc
  <2>2. IsCpu(cpu')
    BY <1>0, <1>5 DEF IsCpu, Goto
  <2> PICK s : s = stack[d] \o Image(SaveOrder[k])
    OBVIOUS
  <2>3. stack' = [stack EXCEPT ![d] = s]
    BY <2>1, <1>5 DEF Push
  <2>4. /\ k = 1 => s = Frame1(x.stack, x.cpu)
        /\ k = 2 => s = Frame2(x.stack, x.cpu)
        /\ k = 3 => s = Frame3(x.stack, x.cpu)
        /\ k = 4 => s = Frame4(x.stack, x.cpu)
        /\ k = 5 => s = Frame5(x.stack, x.cpu)
    <3>1. /\ Image("A") = Word(x.cpu.A) /\ Image("X") = Word(x.cpu.X) /\ Image("Y") = Word(x.cpu.Y)
          /\ Image("D") = Word(x.cpu.D) /\ Image("B") = Byte(x.cpu.B)
      BY <2>1 DEF Image, Narrow, Flags
    <3>2. /\ SaveOrder[1] = "A" /\ SaveOrder[2] = "X" /\ SaveOrder[3] = "Y"
          /\ SaveOrder[4] = "D" /\ SaveOrder[5] = "B"
      BY DEF SaveOrder
    <3>3. /\ k = 1 => stack[d] = Frame0(x.stack, x.cpu)
          /\ k = 2 => stack[d] = Frame1(x.stack, x.cpu)
          /\ k = 3 => stack[d] = Frame2(x.stack, x.cpu)
          /\ k = 4 => stack[d] = Frame3(x.stack, x.cpu)
          /\ k = 5 => stack[d] = Frame4(x.stack, x.cpu)
      BY <2>1 DEF SavingAt
    <3> QED
      BY <3>1, <3>2, <3>3, ZenonT(60) DEF Frame1, Frame2, Frame3, Frame4, Frame5
  <2>5. IsStack(s) /\ Len(s) <= Len(x.stack) + 13
    <3>1. k = 1 \/ k = 2 \/ k = 3 \/ k = 4 \/ k = 5
      OBVIOUS
    <3>2. PICK b, c : b = x.stack /\ c = x.cpu
      OBVIOUS
    <3>3. /\ IsStack(Frame1(b, c)) /\ IsStack(Frame2(b, c)) /\ IsStack(Frame3(b, c))
          /\ IsStack(Frame4(b, c)) /\ IsStack(Frame5(b, c))
          /\ Len(Frame1(b, c)) = Len(b) + 6 /\ Len(Frame2(b, c)) = Len(b) + 8
          /\ Len(Frame3(b, c)) = Len(b) + 10 /\ Len(Frame4(b, c)) = Len(b) + 12
          /\ Len(Frame5(b, c)) = Len(b) + 13
      BY <1>1, <3>2, FrameFacts, ZenonT(60)
    <3>4. s \in {Frame1(b, c), Frame2(b, c), Frame3(b, c), Frame4(b, c), Frame5(b, c)}
      BY <2>4, <3>1, <3>2
    <3>5. IsStack(s) /\ Len(s) \in {Len(b) + 6, Len(b) + 8, Len(b) + 10, Len(b) + 12, Len(b) + 13}
      BY <3>3, <3>4
    <3>6. Len(b) \in Nat
      BY <1>1, <3>2
    <3>7. PICK n, h : n = Len(s) /\ h = Len(b)
      OBVIOUS
    <3>8. h \in Nat /\ n \in {h + 6, h + 8, h + 10, h + 12, h + 13}
      BY <3>5, <3>6, <3>7
    <3>9. n <= h + 13
      BY <3>8
    <3> QED
      BY <3>2, <3>5, <3>7, <3>9
  <2>6. Len(s) <= Room(d)
    <3>1. Room(d) = TaskUsable + 13 /\ TaskUsable \in Nat
      BY <1>1, DomainFacts DEF Room
    <3>2. Len(s) \in Nat
      BY <2>5, StackFacts
    <3>3. PICK n, h : n = Len(s) /\ h = Len(x.stack)
      OBVIOUS
    <3>4. n \in Nat /\ h \in Nat /\ n <= h + 13 /\ h <= TaskUsable /\ TaskUsable \in Nat
      BY <1>1, <2>1, <2>5, <3>1, <3>2, <3>3
    <3>5. n <= TaskUsable + 13
      BY <3>4
    <3> QED
      BY <3>1, <3>3, <3>5
  <2>7. Grounds(cpu, stack)' /\ stack'[d] = s
    BY <1>1, <1>2, <2>2, <2>3, <2>5, <2>6, OthersKeep
  <2>8. SavingAt(r, k + 1, cpu, stack)'
    <3>1. /\ cpu'.pc = <<r, k + 1>> /\ cpu'.P = cpu.P /\ cpu'.dom = cpu.dom /\ cpu'.A = cpu.A
          /\ cpu'.X = cpu.X /\ cpu'.Y = cpu.Y /\ cpu'.D = cpu.D /\ cpu'.B = cpu.B
      BY <1>0, <1>5 DEF Goto, IsCpu
    <3>2. /\ k + 1 = 2 => s = Frame1(x.stack, x.cpu)
          /\ k + 1 = 3 => s = Frame2(x.stack, x.cpu)
          /\ k + 1 = 4 => s = Frame3(x.stack, x.cpu)
          /\ k + 1 = 5 => s = Frame4(x.stack, x.cpu)
          /\ k + 1 = 6 => s = Frame5(x.stack, x.cpu)
          /\ k + 1 \notin {0, 1}
      <4>1. /\ (k + 1 = 2 => k = 1) /\ (k + 1 = 3 => k = 2) /\ (k + 1 = 4 => k = 3)
            /\ (k + 1 = 5 => k = 4) /\ (k + 1 = 6 => k = 5) /\ k + 1 \notin {0, 1}
        OBVIOUS
      <4> QED
        BY <2>4, <4>1, Zenon
    <3> QED
      BY <1>2, <2>1, <2>7, <3>1, <3>2 DEF SavingAt
  <2> QED
    BY <2>7, <2>8 DEF Inv, BridgeInv, Phase, Saving
<1>6. CASE At_pc(r, 6)
  <2>1. /\ SavingAt(r, 6, cpu, stack) /\ Entered(r, d, x, m)
        /\ cpu.dom = d /\ cpu.P = Flags(TRUE)
    <3>1. 6 \in 0..6 /\ 6 # 0
      OBVIOUS
    <3> QED
      BY <1>3, <1>6, <3>1 DEF At_pc
  <2>2. cpu' = [cpu EXCEPT !.A = S, !.X = S, !.Y = <<"reason", r>>, !.pc = <<"dispatch", 0>>]
        /\ UNCHANGED stack
    BY <1>6 DEF SaveFull, At_pc
  <2>3. IsCpu(cpu') /\ cpu'.P = cpu.P /\ cpu'.dom = d /\ cpu'.X = S /\ cpu'.Y = <<"reason", r>>
        /\ cpu'.pc = <<"dispatch", 0>>
    BY <1>0, <2>1, <2>2 DEF IsCpu
  <2>4. Grounds(cpu, stack)'
    BY <1>2, <2>2, <2>3, StackStays
  <2>5. S = SavedS(d, Len(stack[d])) /\ stack[d] = Frame5(x.stack, x.cpu)
    BY <2>1 DEF S, Top, SavingAt
  <2>6. SwitchingAt(r, 0, cpu, stack)'
    <3>2. ~(0 = 3) /\ ~(0 \in {1, 2, 4}) /\ ~(0 >= 2) /\ ~(0 = 4)
      OBVIOUS
    <3> QED
      BY <1>2, <2>1, <2>2, <2>3, <2>5, <3>2 DEF SwitchingAt
  <2> QED
    BY <2>4, <2>6 DEF Inv, BridgeInv, Phase, Switching
<1> QED
  BY <1>4, <1>5, <1>6 DEF SaveFull

-----------------------------------------------------------------------------
(* dispatch, up to the switch to the IRQ domain. *)
LEMMA ResizeFacts ==
  ASSUME NEW s, IsStack(s), NEW n \in Nat
  PROVE  /\ IsStack(Resize(s, n)) /\ Len(Resize(s, n)) = n
         /\ Resize(s, 0) = <<>> /\ Resize(s, Len(s)) = s
<1>1. PICK W : s \in Seq(W)
  BY DEF IsStack
<1> DEFINE v(i) == IF i <= Len(s) THEN s[i] ELSE Junk
<1> DEFINE V == {v(i) : i \in 1..n}
<1>2. Resize(s, n) = [i \in 1..n |-> v(i)]
  BY DEF Resize
<1>3. \A i \in 1..n : v(i) \in V
  OBVIOUS
<1> HIDE DEF v
<1>4. [i \in 1..n |-> v(i)] \in [1..n -> V]
  BY <1>3
<1>5. Resize(s, n) \in Seq(V) /\ Len(Resize(s, n)) = n
  BY <1>2, <1>4, SMTT(60)
<1>6. Resize(s, 0) = <<>>
  <2>1. PICK q : q = Resize(s, 0)
    OBVIOUS
  <2>2. q \in [1..0 -> {}] /\ Len(q) = 0
    BY <2>1 DEF Resize
  <2>3. q \in Seq({})
    BY <2>2
  <2> QED
    BY <2>1, <2>2, <2>3
<1>7. Resize(s, Len(s)) = s
  <2>1. Len(s) \in Nat /\ s = [i \in 1..Len(s) |-> s[i]]
    BY <1>1
  <2>2. \A i \in 1..Len(s) : i <= Len(s)
    BY <2>1
  <2> QED
    BY <2>1, <2>2 DEF Resize
<1> QED
  BY <1>5, <1>6, <1>7, StackOf

LEMMA DropAll ==
  ASSUME NEW s, IsStack(s)
  PROVE  Drop(s, Len(s)) = <<>>
<1>1. PICK W : s \in Seq(W)
  BY DEF IsStack
<1>2. Len(s) - Len(s) = 0
  BY <1>1
<1>3. SubSeq(s, 1, 0) = <<>>
  BY <1>1
<1> QED
  BY <1>2, <1>3 DEF Drop

(* The live context, and that a step of the machine alone leaves it be. *)
LEMMA LiveKeeps ==
  ASSUME Inv
  PROVE  /\ Grounds(cpu, stack) /\ Typed(cpu, stack) /\ IsCpu(cpu)
         /\ Live \in Domain /\ Live # Irq /\ Irq \notin Task /\ (Live \notin Task \/ Live = current)
         /\ IsContext(shadow[Live]) /\ IsCpu(shadow[Live].cpu) /\ IsStack(shadow[Live].stack)
         /\ \A d \in Domain : IsStack(stack[d])
         /\ UNCHANGED <<dispatcher, programs, shadow>> =>
              /\ current' = current /\ saved' = saved /\ tokens' = tokens /\ Live' = Live
              /\ shadow' = shadow /\ shadow'[Live'] = shadow[Live] /\ Mode(Live)' = Mode(Live)
<1>1. Grounds(cpu, stack) /\ Typed(cpu, stack) /\ IsCpu(cpu)
  BY DEF Inv, BridgeInv, Grounds, Typed
<1>2. /\ Live \in Domain /\ Live # Irq /\ (Live \notin Task \/ Live = current)
      /\ IsContext(shadow[Live])
  BY <1>1, LiveFacts, DomainFacts DEF Live
<1>3. IsCpu(shadow[Live].cpu) /\ IsStack(shadow[Live].stack)
  BY <1>2 DEF IsContext
<1>4. \A d \in Domain : IsStack(stack[d])
  BY <1>1 DEF Typed
<1>5. UNCHANGED <<dispatcher, programs, shadow>> =>
              /\ current' = current /\ saved' = saved /\ tokens' = tokens /\ Live' = Live
              /\ shadow' = shadow /\ shadow'[Live'] = shadow[Live] /\ Mode(Live)' = Mode(Live)
  BY Same
<1> QED
  BY <1>1, <1>2, <1>3, <1>4, <1>5, DomainFacts

LEMMA SwitchSteps ==
  ASSUME Inv, SwitchStack \/ SwitchPage \/ SwitchBank, Quiet
  PROVE  Inv'
<1> PICK d : d = Live
  OBVIOUS
<1> PICK x : x = shadow[d]
  OBVIOUS
<1> PICK m : m = Mode(d)
  OBVIOUS
<1>1. /\ IsCpu(cpu) /\ d \in Domain /\ d # Irq /\ Irq \in Domain /\ Irq \notin Task
      /\ IsStack(stack[Irq]) /\ stack = [e \in Domain |-> stack[e]] 
  BY LiveKeeps, DomainFacts DEF Typed
<1>2. /\ UNCHANGED <<scratch, dispatcher, programs, shadow>>
      /\ Live' = d /\ shadow'[d] = x /\ Mode(d)' = m /\ Mode(Live)' = m
  BY LiveKeeps DEF Quiet
<1>3. ASSUME NEW k \in 0..4, cpu.pc = <<"dispatch", k>>
      PROVE  \E r \in {"irq", "cop"} : SwitchingAt(r, k, cpu, stack) /\ Entered(r, d, x, m)
  <2>1. PICK r \in {"irq", "cop"} : SwitchingAt(r, k, cpu, stack)
    BY <1>3, Phases DEF Inv
  <2> QED
    BY <2>1 DEF SwitchingAt
<1>4. CASE SwitchStack
  <2>1. PICK r \in {"irq", "cop"} : SwitchingAt(r, 0, cpu, stack) /\ Entered(r, d, x, m)
    BY <1>3, <1>4 DEF SwitchStack, At_pc
  <2>2. cpu' = [cpu EXCEPT !.A = Junk, !.dom = Irq, !.pc = <<"dispatch", 1>>]
        /\ stack' = [stack EXCEPT ![Irq] = <<>>]
    <3>1. SavedS(Irq, 0)[2] = Irq /\ SavedS(Irq, 0)[3] = 0
      BY DEF SavedS
    <3>2. stack' = [stack EXCEPT ![Irq] = Resize(stack[Irq], 0)]
      BY <1>4, <3>1 DEF SwitchStack, SetS
    <3> QED
      BY <1>1, <1>4, <3>2, ResizeFacts DEF SwitchStack
  <2>3. IsCpu(cpu') /\ cpu'.P = cpu.P /\ cpu'.dom = Irq /\ cpu'.X = cpu.X /\ cpu'.Y = cpu.Y
        /\ cpu'.pc = <<"dispatch", 1>>
    BY <1>1, <2>2 DEF IsCpu
  <2>4. Grounds(cpu, stack)' /\ stack'[Irq] = <<>> /\ stack'[d] = stack[d]
    <3>1. IsStack(<<>>) /\ Len(<<>>) <= Room(Irq)
      BY Pieces DEF Room
    <3> QED
      BY <1>1, <1>2, <2>2, <2>3, <3>1, OthersKeep
  <2>5. SwitchingAt(r, 1, cpu, stack)'
    <3>1. 1 # 0 /\ 1 # 3 /\ ~(1 >= 2) /\ 1 # 4 /\ 0 # 3
      OBVIOUS
    <3> QED
      BY <1>2, <2>1, <2>3, <2>4, <3>1 DEF SwitchingAt
  <2> QED
    BY <2>4, <2>5 DEF Inv, BridgeInv, Phase, Switching
<1>5. CASE SwitchPage
  <2>1. PICK r \in {"irq", "cop"} : SwitchingAt(r, 1, cpu, stack) /\ Entered(r, d, x, m)
    BY <1>3, <1>5 DEF SwitchPage, At_pc
  <2>2. IsCpu(cpu') /\ cpu'.P = cpu.P /\ cpu'.dom = cpu.dom /\ cpu'.X = cpu.X /\ cpu'.Y = cpu.Y
        /\ cpu'.pc = <<"dispatch", 2>> /\ cpu'.D = Page(Irq) /\ stack' = stack
    BY <1>1, <1>5 DEF IsCpu, SwitchPage
  <2>3. Grounds(cpu, stack)'
    BY <1>2, <2>2, StackStays
  <2>4. SwitchingAt(r, 2, cpu, stack)'
    <3>1. 1 # 0 /\ 2 # 0 /\ 2 # 3 /\ 1 # 3 /\ 2 # 4
      OBVIOUS
    <3> QED
      BY <1>2, <2>1, <2>2, <3>1 DEF SwitchingAt
  <2> QED
    BY <2>3, <2>4 DEF Inv, BridgeInv, Phase, Switching
<1>6. CASE At_pc("dispatch", 2) /\ SwitchBank
  <2>1. PICK r \in {"irq", "cop"} : SwitchingAt(r, 2, cpu, stack) /\ Entered(r, d, x, m)
    BY <1>3, <1>6 DEF At_pc
  <2>2. Push(Byte(Zero)) /\ cpu' = [cpu EXCEPT !.P.m8 = TRUE, !.pc = <<"dispatch", 3>>]
    BY <1>6 DEF SwitchBank, At_pc
  <2>3. cpu.dom = Irq /\ cpu.P = Flags(TRUE) /\ stack[Irq] = <<>> /\ cpu.D = Page(Irq)
    <3>1. 2 # 0 /\ 2 # 3 /\ 2 >= 2
      OBVIOUS
    <3> QED
      BY <2>1, <3>1 DEF SwitchingAt
  <2>4. cpu'.P = [i |-> TRUE, m8 |-> TRUE, x8 |-> FALSE]
    <3>1. PICK q : q = [cpu.P EXCEPT !.m8 = TRUE]
      OBVIOUS
    <3>2. q = [i |-> TRUE, m8 |-> TRUE, x8 |-> FALSE]
      <4>1. cpu.P \in [i : BOOLEAN, m8 : BOOLEAN, x8 : BOOLEAN] /\ cpu.P.i /\ ~cpu.P.x8
        BY <2>3 DEF Flags
      <4> QED
        BY <3>1, <4>1
    <3>3. cpu'.P = q
      BY <1>1, <2>2, <3>1 DEF IsCpu
    <3> QED
      BY <3>2, <3>3
  <2>5. IsCpu(cpu') /\ cpu'.dom = cpu.dom /\ cpu'.X = cpu.X /\ cpu'.Y = cpu.Y
        /\ cpu'.pc = <<"dispatch", 3>> /\ cpu'.D = cpu.D
    BY <1>1, <2>2 DEF IsCpu
  <2>6. Grounds(cpu, stack)' /\ stack'[Irq] = Byte(Zero) /\ stack'[d] = stack[d]
    <3>1. IsStack(Byte(Zero)) /\ Len(Byte(Zero)) = 1 /\ <<>> \o Byte(Zero) = Byte(Zero)
      BY Pieces
    <3>2. Len(Byte(Zero)) <= Room(Irq)
      BY <3>1 DEF Room
    <3>3. stack' = [stack EXCEPT ![Irq] = Byte(Zero)]
      BY <2>2, <2>3, <3>1 DEF Push
    <3> QED
      BY <1>1, <1>2, <2>5, <3>1, <3>2, <3>3, OthersKeep
  <2>7. SwitchingAt(r, 3, cpu, stack)'
    <3>1. 3 # 0 /\ 2 # 0 /\ ~(3 \in {1, 2, 4}) /\ 3 # 4
      OBVIOUS
    <3> QED
      BY <1>2, <2>1, <2>3, <2>4, <2>5, <2>6, <3>1 DEF SwitchingAt
  <2> QED
    BY <2>6, <2>7 DEF Inv, BridgeInv, Phase, Switching
<1>7. CASE At_pc("dispatch", 3) /\ SwitchBank
  <2>1. PICK r \in {"irq", "cop"} : SwitchingAt(r, 3, cpu, stack) /\ Entered(r, d, x, m)
    BY <1>3, <1>7 DEF At_pc
  <2>2. Pop(1) /\ cpu' = [cpu EXCEPT !.B = ByteAt(Top, 1), !.P.m8 = FALSE, !.pc = <<"dispatch", 4>>]
    BY <1>7 DEF SwitchBank, At_pc
  <2>3. cpu.dom = Irq /\ cpu.P = [i |-> TRUE, m8 |-> TRUE, x8 |-> FALSE]
        /\ stack[Irq] = Byte(Zero) /\ cpu.D = Page(Irq)
    <3>1. 3 # 0 /\ 3 >= 2
      OBVIOUS
    <3> QED
      BY <2>1, <3>1 DEF SwitchingAt
  <2>4. cpu'.P = Flags(TRUE)
    <3>1. PICK q : q = [cpu.P EXCEPT !.m8 = FALSE]
      OBVIOUS
    <3>2. q = [i |-> TRUE, m8 |-> FALSE, x8 |-> FALSE]
      <4>1. cpu.P \in [i : BOOLEAN, m8 : BOOLEAN, x8 : BOOLEAN] /\ cpu.P.i /\ ~cpu.P.x8
        BY <2>3
      <4> QED
        BY <3>1, <4>1
    <3>3. cpu'.P = q
      BY <1>1, <2>2, <3>1 DEF IsCpu
    <3> QED
      BY <3>2, <3>3 DEF Flags
  <2>5. /\ Top = <<>> \o Byte(Zero) /\ ByteAt(Top, 1) = Zero /\ Drop(Top, 1) = <<>>
    <3>1. IsStack(<<>>) /\ <<>> \o Byte(Zero) = Byte(Zero)
      BY Pieces
    <3> QED
      BY <2>3, <3>1, PushByte DEF Top
  <2>6. IsCpu(cpu') /\ cpu'.dom = cpu.dom /\ cpu'.X = cpu.X /\ cpu'.Y = cpu.Y
        /\ cpu'.pc = <<"dispatch", 4>> /\ cpu'.D = cpu.D /\ cpu'.B = Zero
    BY <1>1, <2>2, <2>5 DEF IsCpu
  <2>7. Grounds(cpu, stack)' /\ stack'[Irq] = <<>> /\ stack'[d] = stack[d]
    <3>1. IsStack(<<>>) /\ Len(<<>>) <= Room(Irq)
      BY Pieces DEF Room
    <3>2. stack' = [stack EXCEPT ![Irq] = <<>>]
      BY <2>2, <2>3, <2>5 DEF Pop, Top
    <3> QED
      BY <1>1, <1>2, <2>6, <3>1, <3>2, OthersKeep
  <2>8. SwitchingAt(r, 4, cpu, stack)'
    <3>1. 3 # 0 /\ 4 # 0 /\ 4 # 3
      OBVIOUS
    <3> QED
      BY <1>2, <2>1, <2>3, <2>4, <2>6, <2>7, <3>1 DEF SwitchingAt
  <2> QED
    BY <2>7, <2>8 DEF Inv, BridgeInv, Phase, Switching
<1> QED
  BY <1>4, <1>5, <1>6, <1>7 DEF SwitchBank

-----------------------------------------------------------------------------
(* The checks, and the call of the dispatcher. *)
LEMMA UnmaskedHoldsNothing ==
  ASSUME NEW t, NEW c, NEW s, NEW m, InTaskCode(t, c, s, m), ~c.P.i
  PROVE  m.tokens = <<>>
BY DEF InTaskCode, InYield, InSave, InRestoreIrq, InReturn, Holds

LEMMA ValidateStep ==
  ASSUME Inv, Validate
  PROVE  Inv'
<1> PICK d : d = Live
  OBVIOUS
<1> PICK x : x = shadow[d]
  OBVIOUS
<1> PICK m : m = Mode(d)
  OBVIOUS
<1>1. /\ IsCpu(cpu) /\ d \in Domain /\ d # Irq /\ Irq \in Domain /\ Irq \notin Task
      /\ (d \notin Task \/ d = current) /\ IsStack(x.stack) /\ Grounds(cpu, stack)
      /\ stack = [e \in Domain |-> stack[e]] /\ scratch = [e \in Domain |-> scratch[e]]
  BY LiveKeeps, DomainFacts DEF Typed
<1>2. /\ UNCHANGED <<stack, dispatcher, programs, shadow>> /\ current' = current /\ tokens' = tokens
      /\ saved' = saved /\ masked' = masked
      /\ Live' = d /\ shadow'[d] = x /\ Mode(d)' = m /\ Mode(Live)' = m
  BY LiveKeeps DEF Validate, programs
<1>3. cpu.pc = <<"dispatch", 4>>
  BY DEF Validate, At_pc
<1>4. PICK r \in {"irq", "cop"} : SwitchingAt(r, 4, cpu, stack) /\ Entered(r, d, x, m)
  <2>1. PICK r \in {"irq", "cop"} : SwitchingAt(r, 4, cpu, stack)
    BY <1>3, Phases DEF Inv
  <2> QED
    BY <2>1 DEF SwitchingAt
<1>5. /\ cpu.dom = Irq /\ cpu.D = Page(Irq) /\ cpu.D[2] = Irq /\ cpu.B = Zero /\ cpu.P = Flags(TRUE)
      /\ cpu.Y = <<"reason", r>> /\ cpu.X = SavedS(d, Len(stack[d])) /\ cpu.X[2] = d
      /\ stack[Irq] = <<>> /\ stack[d] = Frame5(x.stack, x.cpu)
  <2>1. 4 # 0 /\ 4 # 3 /\ 4 >= 2
    OBVIOUS
  <2> QED
    BY <1>4, <2>1 DEF SwitchingAt, Page, SavedS
<1>6. scratch' = [scratch EXCEPT ![Irq] = <<"reason", r>>] /\ scratch'[Irq] = <<"reason", r>>
  BY <1>1, <1>5 DEF Validate
<1>7. ASSUME IsCpu(cpu') PROVE Grounds(cpu, stack)'
  <2>1. ScratchIsolated'
    BY <1>1, <1>6 DEF Grounds, ScratchIsolated
  <2>2. Typed(cpu, stack)'
    BY <1>1, <1>2, <1>6, <1>7 DEF Grounds, Typed, TokensOK
  <2>3. \A u \in Task : u # current' => Suspended(u, stack)'
    BY <1>1, <1>2 DEF Grounds, Suspended, Resumable, Mode
  <2> QED
    BY <2>1, <2>2, <2>3 DEF Grounds
<1>8. ASSUME cpu'.pc = <<"dispatch", 5>>, cpu'.X = cpu.X, cpu'.dom = cpu.dom, cpu'.D = cpu.D,
             cpu'.B = cpu.B, cpu'.P = cpu.P, IsCpu(cpu'),
             InCode(d, x.cpu, x.stack, m), d \in Task => tokens[d] = <<>>, r = "cop" => YieldIsLegal
      PROVE  Inv'
  <2>1. r = "cop" => YieldIsLegal'
    BY <1>2, <1>8 DEF YieldIsLegal
  <2>2. <<"dispatch", 5>> # <<"dispatch", 6>> /\ <<"dispatch", 5>> # <<"dispatch", 7>>
        /\ <<"dispatch", 5>> # <<"A816_DISPATCH", 0>>
    OBVIOUS
  <2>3. CallingAt(r, <<"dispatch", 5>>, cpu, stack)'
    BY <1>2, <1>5, <1>6, <1>8, <2>1, <2>2 DEF CallingAt
  <2>4. Calling(cpu, stack)'
    BY <2>3 DEF Calling
  <2> QED
    BY <1>7, <1>8, <2>4 DEF Inv, BridgeInv, Phase
<1>9. CASE r = "irq"
  <2>1. cpu' = [cpu EXCEPT !.pc = <<"dispatch", 5>>]
    BY <1>5, <1>9 DEF Validate, Goto
  <2>2. /\ cpu'.pc = <<"dispatch", 5>> /\ cpu'.X = cpu.X /\ cpu'.dom = cpu.dom /\ cpu'.D = cpu.D
        /\ cpu'.B = cpu.B /\ cpu'.P = cpu.P /\ IsCpu(cpu')
    BY <1>1, <2>1 DEF IsCpu
  <2>3. ~x.cpu.P.i /\ InCode(d, x.cpu, x.stack, m)
    BY <1>4, <1>9 DEF Entered
  <2>4. d \in Task => tokens[d] = <<>>
    BY <2>3, UnmaskedHoldsNothing, DomainFacts DEF InCode, Mode
  <2> QED
    BY <1>8, <1>9, <2>2, <2>3, <2>4
<1>10. CASE r = "cop" /\ CopAccepted
  <2>1. cpu' = [cpu EXCEPT !.A = Junk, !.Y = Junk, !.pc = <<"dispatch", 5>>]
    BY <1>5, <1>10 DEF Validate
  <2>2. /\ cpu'.pc = <<"dispatch", 5>> /\ cpu'.X = cpu.X /\ cpu'.dom = cpu.dom /\ cpu'.D = cpu.D
        /\ cpu'.B = cpu.B /\ cpu'.P = cpu.P /\ IsCpu(cpu')
    BY <1>1, <2>1 DEF IsCpu
  <2>3. ~x.cpu.P.i /\ Signature(x.cpu.pc) = 0
    <3>1. PAt(stack[d], 10) = x.cpu.P /\ WordAt(stack[d], 11) = x.cpu.pc
      BY <1>1, <1>5, FrameReads
    <3> QED
      BY <1>5, <1>10, <3>1 DEF CopAccepted, Interrupted
  <2>4. d \in Task /\ d = current /\ InCode(d, x.cpu, x.stack, m)
    <3>1. ~IllegalCop(d, x.cpu, x.stack)
      BY <2>3 DEF IllegalCop, Signature
    <3> QED
      BY <1>1, <1>4, <1>10, <3>1 DEF Entered
  <2>5. tokens[d] = <<>>
    BY <2>3, <2>4, UnmaskedHoldsNothing, DomainFacts DEF InCode, Mode
  <2>6. YieldIsLegal
    BY <2>3, <2>4 DEF YieldIsLegal
  <2> QED
    BY <1>8, <2>2, <2>4, <2>5, <2>6
<1>11. CASE r = "cop" /\ ~CopAccepted
  <2>1. cpu' = [cpu EXCEPT !.pc = <<"terminal", 0>>]
    BY <1>5, <1>11 DEF Validate, Goto
  <2>2. IsCpu(cpu') /\ cpu'.dom = Irq /\ cpu'.P.i /\ cpu'.pc = <<"terminal", 0>>
    <3>1. IsCpu(cpu') /\ cpu'.dom = cpu.dom /\ cpu'.P = cpu.P /\ cpu'.pc = <<"terminal", 0>>
      BY <1>1, <2>1 DEF IsCpu
    <3>2. Flags(TRUE).i
      BY DEF Flags
    <3> QED
      BY <1>5, <3>1, <3>2
  <2>3. Over(cpu, stack)'
    BY <1>1, <2>2 DEF Over
  <2> QED
    BY <1>7, <2>2, <2>3 DEF Inv, BridgeInv, Phase
<1> QED
  BY <1>9, <1>10, <1>11

LEMMA InvokeSteps ==
  ASSUME Inv, Invoke, Quiet
  PROVE  Inv'
<1> PICK d : d = Live
  OBVIOUS
<1> PICK x : x = shadow[d]
  OBVIOUS
<1> PICK m : m = Mode(d)
  OBVIOUS
<1>1. /\ IsCpu(cpu) /\ d \in Domain /\ d # Irq /\ Irq \in Domain /\ Irq \notin Task
      /\ IsStack(stack[Irq]) /\ stack = [e \in Domain |-> stack[e]]
  BY LiveKeeps, DomainFacts DEF Typed
<1>2. /\ UNCHANGED <<scratch, dispatcher, programs, shadow>> /\ current' = current /\ tokens' = tokens
      /\ saved' = saved /\ Live' = d /\ shadow'[d] = x /\ Mode(d)' = m /\ Mode(Live)' = m
  BY LiveKeeps DEF Quiet
<1>3. YieldIsLegal' <=> YieldIsLegal
  BY <1>2 DEF YieldIsLegal
<1>4. ASSUME NEW pc, NEW r \in {"irq", "cop"}, NEW s, NEW q, CallingAt(r, pc, cpu, stack),
             q \in {<<"dispatch", 6>>, <<"dispatch", 7>>, <<"A816_DISPATCH", 0>>},
             cpu' = [cpu EXCEPT !.pc = q], stack' = [stack EXCEPT ![Irq] = s],
             IsStack(s), Len(s) <= 6,
             q = <<"dispatch", 6>> => Len(s) = 3,
             q = <<"dispatch", 7>> => s = Byte(<<"reason", r>>) \o Word(cpu.X),
             q = <<"A816_DISPATCH", 0>> =>
               s = Byte(<<"reason", r>>) \o Word(cpu.X) \o ReturnAddress(<<"dispatch", 8>>)
      PROVE  Inv'
  <2>1. /\ IsCpu(cpu') /\ cpu'.pc = q /\ cpu'.X = cpu.X /\ cpu'.dom = cpu.dom /\ cpu'.D = cpu.D
        /\ cpu'.B = cpu.B /\ cpu'.P = cpu.P
    BY <1>1, <1>4 DEF IsCpu
  <2>2. Grounds(cpu, stack)' /\ stack'[Irq] = s /\ stack'[d] = stack[d]
    <3>1. Len(s) <= Room(Irq)
      BY <1>4 DEF Room
    <3> QED
      BY <1>1, <1>2, <1>4, <2>1, <3>1, OthersKeep
  <2>3. CallingAt(r, q, cpu, stack)'
    <3>1. q # <<"dispatch", 5>>
      BY <1>4
    <3> QED
      BY <1>2, <1>3, <1>4, <2>1, <2>2, <3>1 DEF CallingAt
  <2>4. Calling(cpu, stack)'
    BY <1>4, <2>3 DEF Calling
  <2> QED
    BY <2>2, <2>4 DEF Inv, BridgeInv, Phase
<1>5. CASE ReserveArguments
  <2>1. PICK r \in {"irq", "cop"} : CallingAt(r, <<"dispatch", 5>>, cpu, stack)
    BY <1>5, Phases DEF Inv, ReserveArguments, At_pc
  <2>2. cpu.dom = Irq /\ stack[Irq] = <<>>
    BY <2>1 DEF CallingAt
  <2>3. stack' = [stack EXCEPT ![Irq] = Resize(<<>>, 3)] /\ cpu' = [cpu EXCEPT !.pc = <<"dispatch", 6>>]
    <3>1. Len(<<>>) + 3 = 3
      OBVIOUS
    <3> QED
      BY <1>5, <2>2, <3>1 DEF ReserveArguments, Goto
  <2>4. IsStack(Resize(<<>>, 3)) /\ Len(Resize(<<>>, 3)) = 3
    BY Pieces, ResizeFacts
  <2>5. <<"dispatch", 6>> # <<"dispatch", 7>> /\ <<"dispatch", 6>> # <<"A816_DISPATCH", 0>> /\ 3 <= 6
    OBVIOUS
  <2> QED
    BY <1>4, <2>1, <2>3, <2>4, <2>5
<1>6. CASE StoreArguments
  <2>1. PICK r \in {"irq", "cop"} : CallingAt(r, <<"dispatch", 6>>, cpu, stack)
    BY <1>6, Phases DEF Inv, StoreArguments, At_pc
  <2>2. /\ cpu.dom = Irq /\ Len(stack[Irq]) = 3 /\ cpu.D[2] = Irq
        /\ scratch[Irq] = <<"reason", r>>
    BY <2>1 DEF CallingAt, Page
  <2> PICK s : s = Byte(<<"reason", r>>) \o Word(cpu.X)
    OBVIOUS
  <2>3. /\ IsStack(s) /\ Len(s) = 3 /\ <<>> \o s = s
    BY CallAreaFacts
  <2>4. Drop(stack[Irq], 3) = <<>>
    BY <1>1, <2>2, DropAll
  <2>5. stack' = [stack EXCEPT ![Irq] = s] /\ cpu' = [cpu EXCEPT !.pc = <<"dispatch", 7>>]
    BY <1>6, <2>2, <2>3, <2>4 DEF StoreArguments, CallArea, Goto
  <2>6. <<"dispatch", 7>> # <<"dispatch", 6>> /\ <<"dispatch", 7>> # <<"A816_DISPATCH", 0>> /\ 3 <= 6
    OBVIOUS
  <2> QED
    BY <1>4, <2>1, <2>3, <2>5, <2>6
<1>7. CASE At_pc("dispatch", 7) /\ Invoke
  <2>1. PICK r \in {"irq", "cop"} : CallingAt(r, <<"dispatch", 7>>, cpu, stack)
    BY <1>7, Phases DEF Inv, At_pc
  <2> PICK s : s = Byte(<<"reason", r>>) \o Word(cpu.X) \o ReturnAddress(<<"dispatch", 8>>)
    OBVIOUS
  <2>2. cpu.dom = Irq /\ stack[Irq] = Byte(<<"reason", r>>) \o Word(cpu.X)
    BY <2>1 DEF CallingAt
  <2>3. stack' = [stack EXCEPT ![Irq] = s] /\ cpu' = [cpu EXCEPT !.pc = <<"A816_DISPATCH", 0>>]
    <3>1. cpu.pc = <<"dispatch", 7>>
      BY <1>7 DEF At_pc
    <3>2. Push(ReturnAddress(<<"dispatch", 8>>)) /\ Goto("A816_DISPATCH", 0)
      BY <1>7, <3>1 DEF Invoke, ReserveArguments, StoreArguments, At_pc
    <3> QED
      BY <2>2, <3>2 DEF Push, Goto
  <2>4. IsStack(s) /\ Len(s) = 6
    BY CallAreaFacts
  <2>5. /\ <<"A816_DISPATCH", 0>> # <<"dispatch", 6>> /\ <<"A816_DISPATCH", 0>> # <<"dispatch", 7>>
        /\ 6 <= 6
    OBVIOUS
  <2> QED
    BY <1>4, <2>1, <2>3, <2>4, <2>5
<1>8. CASE At_pc("dispatch", 8) /\ Invoke
  <2>1. Chosen(cpu, stack) /\ cpu.dom = Irq /\ Len(stack[Irq]) = 3
    <3>1. Chosen(cpu, stack) /\ cpu.pc = <<"dispatch", 8>>
      BY <1>8, Phases DEF Inv, At_pc
    <3> QED
      BY <3>1 DEF Chosen
  <2>2. stack' = [stack EXCEPT ![Irq] = <<>>] /\ cpu' = [cpu EXCEPT !.pc = <<"restore", 0>>]
    <3>1. Drop(stack[Irq], 3) = <<>>
      BY <1>1, <2>1, DropAll
    <3> QED
      BY <1>8, <2>1, <3>1 DEF Invoke, ReserveArguments, StoreArguments, At_pc, Pop, Goto
  <2>3. IsCpu(cpu') /\ cpu'.pc = <<"restore", 0>> /\ cpu'.A = cpu.A /\ cpu'.P = cpu.P
    BY <1>1, <2>2 DEF IsCpu
  <2>4. Grounds(cpu, stack)' /\ stack'[Irq] = <<>> /\ \A e \in Domain \ {Irq} : stack'[e] = stack[e]
    <3>1. IsStack(<<>>) /\ Len(<<>>) <= Room(Irq)
      BY Pieces DEF Room
    <3> QED
      BY <1>1, <1>2, <2>2, <2>3, <3>1, OthersKeep
  <2>5. Chosen(cpu, stack)'
    <3>1. current \in Domain \ {Irq}
      BY <1>1, <2>1, DomainFacts DEF Chosen
    <3>2. stack'[current] = stack[current] /\ shadow' = shadow /\ Mode(current)' = Mode(current)
      BY <1>2, <2>4, <3>1 DEF Mode, programs
    <3>3. Suspended(current, stack)'
      BY <1>2, <2>1, <3>2 DEF Chosen, Suspended, Resumable
    <3> QED
      BY <1>2, <2>1, <2>3, <3>3 DEF Chosen
  <2> QED
    BY <2>4, <2>5 DEF Inv, BridgeInv, Phase
<1> QED
  BY <1>5, <1>6, <1>7, <1>8 DEF Invoke

(* The dispatcher saves the interrupted task and picks one.                *)
LEMMA DispatchStep ==
  ASSUME Inv, NEW t \in Task, Dispatch(t)
  PROVE  Inv'
<1> PICK d : d = Live
  OBVIOUS
<1> PICK x : x = shadow[d]
  OBVIOUS
<1>1. /\ IsCpu(cpu) /\ d \in Domain /\ d # Irq /\ Irq \in Domain /\ Irq \notin Task
      /\ stack = [e \in Domain |-> stack[e]] /\ Task \subseteq Domain /\ None \notin Task
      /\ Grounds(cpu, stack) /\ Typed(cpu, stack) /\ (current \in Task => d = current)
  BY LiveKeeps, DomainFacts DEF Typed, Live
<1>2. /\ UNCHANGED <<scratch, programs, shadow>> /\ cpu.pc = <<"A816_DISPATCH", 0>>
      /\ tokens' = tokens /\ masked' = masked /\ current' = t
      /\ saved' = [u \in Task |-> IF u = current THEN WordAt(Top, 4) ELSE saved[u]]
      /\ saved'[t] # Junk
  BY DEF Dispatch, At_pc, programs
<1>3. PICK r \in {"irq", "cop"} : CallingAt(r, <<"A816_DISPATCH", 0>>, cpu, stack)
  BY <1>2, Phases DEF Inv
<1>4. /\ InCode(d, x.cpu, x.stack, Mode(d)) /\ (d \in Task => tokens[d] = <<>>)
      /\ stack[d] = Frame5(x.stack, x.cpu) /\ cpu.X = SavedS(d, Len(stack[d]))
      /\ cpu.dom = Irq /\ cpu.P = Flags(TRUE)
      /\ stack[Irq] = Byte(<<"reason", r>>) \o Word(cpu.X) \o ReturnAddress(<<"dispatch", 8>>)
  BY <1>3 DEF CallingAt
<1> PICK s : s = Byte(<<"reason", r>>) \o Word(cpu.X)
  OBVIOUS
<1>5. /\ WordAt(Top, 1) = Before(<<"dispatch", 8>>) /\ WordAt(Top, 4) = cpu.X
      /\ Drop(Top, 3) = s /\ IsStack(s) /\ Len(s) = 3
  <2>1. PICK v, pc, q : v = cpu.X /\ pc = <<"dispatch", 8>> /\ q = (Byte(<<"reason", r>>) \o Word(v)) \o ReturnAddress(pc)
    OBVIOUS
  <2>2. Top = q
    BY <1>4, <2>1 DEF Top
  <2>3. WordAt(q, 1) = Before(pc) /\ WordAt(q, 4) = v
        /\ Drop(q, 3) = Byte(<<"reason", r>>) \o Word(v)
        /\ IsStack(Byte(<<"reason", r>>) \o Word(v)) /\ Len(Byte(<<"reason", r>>) \o Word(v)) = 3
    BY <2>1, CallAreaFacts, SMTT(60)
  <2> QED
    BY <2>1, <2>2, <2>3
<1>6. /\ stack' = [stack EXCEPT ![Irq] = s]
      /\ cpu' = [cpu EXCEPT !.A = saved'[t], !.X = Junk, !.Y = Junk, !.pc = <<"dispatch", 8>>]
  <2>1. After(Before(<<"dispatch", 8>>)) = <<"dispatch", 8>>
    BY DEF After, Before
  <2> QED
    BY <1>4, <1>5, <2>1 DEF Dispatch, Pop, Top
<1>7. IsCpu(cpu') /\ cpu'.dom = Irq /\ cpu'.pc = <<"dispatch", 8>> /\ cpu'.A = saved'[t] /\ cpu'.P.i
  <2>1. IsCpu(cpu') /\ cpu'.dom = cpu.dom /\ cpu'.pc = <<"dispatch", 8>> /\ cpu'.A = saved'[t]
        /\ cpu'.P = cpu.P
    BY <1>1, <1>6 DEF IsCpu
  <2>2. Flags(TRUE).i
    BY DEF Flags
  <2> QED
    BY <1>4, <2>1, <2>2
<1>8. stack'[Irq] = s /\ (\A e \in Domain \ {Irq} : stack'[e] = stack[e])
      /\ stack' = [e \in Domain |-> stack'[e]]
  BY <1>1, <1>6
<1>9. \A u \in Task : Suspended(u, stack)'
  <2> SUFFICES ASSUME NEW u \in Task PROVE Suspended(u, stack)'
    OBVIOUS
  <2>1. stack'[u] = stack[u] /\ Mode(u)' = Mode(u) /\ shadow' = shadow
    BY <1>1, <1>2, <1>8 DEF Mode
  <2>2. CASE u = current
    <3>1. u = d /\ saved'[u] = SavedS(u, Len(stack[u]))
      BY <1>1, <1>2, <1>4, <1>5, <2>2
    <3>2. InTaskCode(u, x.cpu, x.stack, Mode(u)) /\ tokens[u] = <<>>
      BY <1>4, <3>1, DomainFacts DEF InCode
    <3> QED
      BY <1>2, <1>4, <2>1, <3>1, <3>2 DEF Suspended, Resumable
  <2>3. CASE u # current
    <3>1. Suspended(u, stack) /\ saved'[u] = saved[u]
      BY <1>1, <1>2, <2>3 DEF Grounds
    <3> QED
      BY <1>2, <2>1, <3>1 DEF Suspended, Resumable
  <2> QED
    BY <2>2, <2>3
<1>10. Typed(cpu, stack)'
  <2>1. \A e \in Domain : IsStack(stack'[e]) /\ Len(stack'[e]) <= Room(e)
    <3>1. Room(Irq) = 6
      BY DEF Room
    <3>2. Len(s) <= Room(Irq)
      <4>1. PICK n : n = Len(s)
        OBVIOUS
      <4>2. n = 3
        BY <1>5, <4>1
      <4>3. n <= 6
        BY <4>2
      <4> QED
        BY <3>1, <4>1, <4>3
    <3> QED
      BY <1>1, <1>5, <1>8, <3>2 DEF Typed
  <2>2. saved' = [u \in Task |-> saved'[u]]
    BY <1>2
  <2> QED
    BY <1>1, <1>2, <1>7, <1>8, <2>1, <2>2 DEF Typed, TokensOK
<1>11. ScratchIsolated'
  BY <1>1, <1>2 DEF Grounds, ScratchIsolated
<1>12. Chosen(cpu, stack)'
  BY <1>2, <1>5, <1>7, <1>8, <1>9 DEF Chosen
<1> QED
  BY <1>9, <1>10, <1>11, <1>12 DEF Inv, BridgeInv, Grounds, Phase

-----------------------------------------------------------------------------
(* restore and rti. *)
LEMMA RestoreSteps ==
  ASSUME Inv, Restore, Quiet
  PROVE  Inv'
<1>1. /\ IsCpu(cpu) /\ stack = [e \in Domain |-> stack[e]] /\ Task \subseteq Domain
      /\ Typed(cpu, stack) /\ \A u \in Task : u # Irq
  BY LiveKeeps, DomainFacts DEF Typed
<1>2. /\ UNCHANGED <<scratch, dispatcher, programs, shadow>> /\ current' = current /\ tokens' = tokens
      /\ saved' = saved /\ masked' = masked /\ Mode(current)' = Mode(current)
  BY LiveKeeps DEF Quiet, programs, Mode
<1>3. CASE At_pc("restore", 0)
  <2>1. Chosen(cpu, stack)
    BY <1>3, Phases DEF Inv, At_pc
  <2>2. cpu' = [cpu EXCEPT !.P = Flags(TRUE), !.pc = <<"restore", 1>>] /\ UNCHANGED stack
    BY <1>3 DEF Restore, At_pc
  <2>3. IsCpu(cpu') /\ cpu'.P = Flags(TRUE) /\ cpu'.A = cpu.A /\ cpu'.pc = <<"restore", 1>> /\ cpu'.P.i
    <3>1. Flags(TRUE) \in [i : BOOLEAN, m8 : BOOLEAN, x8 : BOOLEAN] /\ Flags(TRUE).i
      BY DEF Flags
    <3> QED
      BY <1>1, <2>2, <3>1 DEF IsCpu
  <2>4. Grounds(cpu, stack)'
    BY <1>2, <2>2, <2>3, StackStays
  <2>5. Chosen(cpu, stack)'
    <3>1. Suspended(current, stack)'
      BY <1>2, <2>1, <2>2 DEF Chosen, Suspended, Resumable
    <3> QED
      BY <1>2, <2>1, <2>3, <3>1 DEF Chosen
  <2> QED
    BY <2>4, <2>5 DEF Inv, BridgeInv, Phase
<1>4. CASE At_pc("restore", 1)
  <2>1. Chosen(cpu, stack) /\ cpu.pc = <<"restore", 1>>
    BY <1>4, Phases DEF Inv, At_pc
  <2> PICK x : x = shadow[current]
    OBVIOUS
  <2>2. /\ current \in Task /\ cpu.A = SavedS(current, Len(stack[current])) /\ cpu.P = Flags(TRUE)
        /\ stack[current] = Frame5(x.stack, x.cpu) /\ tokens[current] = <<>>
        /\ InTaskCode(current, x.cpu, x.stack, Mode(current))
    <3>1. current \in Task /\ Resumable(current, stack) /\ tokens[current] = <<>>
      BY <2>1 DEF Chosen, Suspended
    <3>2. cpu.A = saved[current] /\ cpu.P = Flags(TRUE)
      <4>1. <<"restore", 1>> # <<"restore", 0>> /\ <<"restore", 1>> # <<"dispatch", 8>>
        OBVIOUS
      <4> QED
        BY <2>1, <4>1 DEF Chosen
    <3> QED
      BY <3>1, <3>2 DEF Resumable
  <2>3. stack' = stack /\ cpu' = [cpu EXCEPT !.dom = current, !.pc = <<"restore", 2>>]
    <3>1. SetS(cpu.A) /\ cpu' = [cpu EXCEPT !.dom = cpu.A[2], !.pc = <<"restore", 2>>]
      BY <1>4 DEF Restore, At_pc
    <3>2. cpu.A[2] = current /\ cpu.A[3] = Len(stack[current])
      BY <2>2 DEF SavedS
    <3>3. Resize(stack[current], Len(stack[current])) = stack[current]
      <4>1. IsStack(stack[current]) /\ Len(stack[current]) \in Nat
        BY <1>1, <2>2, StackFacts DEF Typed
      <4> QED
        BY <4>1, ResizeFacts
    <3> QED
      BY <1>1, <2>2, <3>1, <3>2, <3>3 DEF SetS
  <2>4. IsCpu(cpu') /\ cpu'.P = cpu.P /\ cpu'.dom = current /\ cpu'.pc = <<"restore", 2>>
    BY <1>1, <2>2, <2>3 DEF IsCpu
  <2>5. Grounds(cpu, stack)'
    BY <1>2, <2>3, <2>4, StackStays
  <2>7. shadow'[current'] = x
    BY <1>2
  <2>6. RestoringAt(2, cpu, stack)'
    <3>1. PICK k : k = 2
      OBVIOUS
    <3>2. /\ ~(k >= 3) /\ ~(k >= 4) /\ ~(k >= 5) /\ ~(k >= 6) /\ ~(k >= 7)
          /\ k # 3 /\ k # 4 /\ k # 5 /\ k # 6 /\ k # 7
      BY <3>1
    <3>3. cpu'.pc = <<"restore", k>>
      BY <2>4, <3>1
    <3>4. RestoringAt(k, cpu, stack)'
      BY <1>2, <2>2, <2>3, <2>4, <2>7, <3>2, <3>3 DEF RestoringAt
    <3> QED
      BY <3>1, <3>4
  <2> QED
    BY <2>5, <2>6 DEF Inv, BridgeInv, Phase, Restoring
<1>5. ASSUME NEW k \in 1..5, At_pc("restore", k + 1),
             cpu' = [cpu EXCEPT ![RestoreOrder[k]] = Pulled(RestoreOrder[k]), !.pc = <<"restore", k + 2>>],
             Pop(Extent(RestoreOrder[k]))
      PROVE  Inv'
  <2>1. RestoringAt(k + 1, cpu, stack)
    <3>1. k + 1 \in 2..7
      OBVIOUS
    <3> QED
      BY <1>5, <3>1, Phases DEF Inv, At_pc
  <2> PICK x : x = shadow[current]
    OBVIOUS
  <2> PICK b, c : b = x.stack /\ c = x.cpu
    OBVIOUS
  <2>2. /\ current \in Task /\ cpu.dom = current /\ cpu.P = Flags(TRUE) /\ tokens[current] = <<>>
        /\ InTaskCode(current, x.cpu, x.stack, Mode(current)) /\ IsStack(b)
        /\ Len(b) <= TaskUsable /\ Len(b) \in Nat
    <3>1. /\ current \in Task /\ cpu.dom = current /\ cpu.P = Flags(TRUE) /\ tokens[current] = <<>>
          /\ InTaskCode(current, x.cpu, x.stack, Mode(current))
      BY <2>1 DEF RestoringAt
    <3>2. IsStack(b)
      BY <1>1, <3>1 DEF Typed, IsContext
    <3> QED
      BY <3>1, <3>2, StackFacts DEF InTaskCode
  <2>3. /\ k = 1 => Top = Frame5(b, c)
        /\ k = 2 => Top = Frame4(b, c)
        /\ k = 3 => Top = Frame3(b, c)
        /\ k = 4 => Top = Frame2(b, c)
        /\ k = 5 => Top = Frame1(b, c)
    <3>1. /\ k + 1 = 2 => Top = Frame5(b, c)
          /\ k + 1 = 3 => Top = Frame4(b, c)
          /\ k + 1 = 4 => Top = Frame3(b, c)
          /\ k + 1 = 5 => Top = Frame2(b, c)
          /\ k + 1 = 6 => Top = Frame1(b, c)
      BY <2>1, <2>2 DEF RestoringAt, Top
    <3> QED
      BY <3>1
  <2>4. /\ k = 1 => RestoreOrder[k] = "B" /\ Pulled("B") = c.B /\ Drop(Top, Extent("B")) = Frame4(b, c)
        /\ k = 2 => RestoreOrder[k] = "D" /\ Pulled("D") = c.D /\ Drop(Top, Extent("D")) = Frame3(b, c)
        /\ k = 3 => RestoreOrder[k] = "Y" /\ Pulled("Y") = c.Y /\ Drop(Top, Extent("Y")) = Frame2(b, c)
        /\ k = 4 => RestoreOrder[k] = "X" /\ Pulled("X") = c.X /\ Drop(Top, Extent("X")) = Frame1(b, c)
        /\ k = 5 => RestoreOrder[k] = "A" /\ Pulled("A") = c.A /\ Drop(Top, Extent("A")) = Frame0(b, c)
    <3>1. /\ RestoreOrder[1] = "B" /\ RestoreOrder[2] = "D" /\ RestoreOrder[3] = "Y"
          /\ RestoreOrder[4] = "X" /\ RestoreOrder[5] = "A"
      BY DEF RestoreOrder
    <3>2. /\ Extent("B") = 1 /\ Extent("D") = 2 /\ Extent("Y") = 2 /\ Extent("X") = 2 /\ Extent("A") = 2
          /\ Pulled("B") = ByteAt(Top, 1) /\ Pulled("D") = WordAt(Top, 1) /\ Pulled("Y") = WordAt(Top, 1)
          /\ Pulled("X") = WordAt(Top, 1) /\ Pulled("A") = WordAt(Top, 1)
      BY <2>2 DEF Extent, Pulled, Narrow, Flags
    <3>3. /\ ByteAt(Frame5(b, c), 1) = c.B /\ Drop(Frame5(b, c), 1) = Frame4(b, c)
          /\ WordAt(Frame4(b, c), 1) = c.D /\ Drop(Frame4(b, c), 2) = Frame3(b, c)
          /\ WordAt(Frame3(b, c), 1) = c.Y /\ Drop(Frame3(b, c), 2) = Frame2(b, c)
          /\ WordAt(Frame2(b, c), 1) = c.X /\ Drop(Frame2(b, c), 2) = Frame1(b, c)
          /\ WordAt(Frame1(b, c), 1) = c.A /\ Drop(Frame1(b, c), 2) = Frame0(b, c)
      <4>1. IsStack(b)
        BY <2>2
      <4> QED
        BY ONLY <4>1, FrameFacts
    <3>4. ASSUME k = 1
          PROVE  RestoreOrder[k] = "B" /\ Pulled("B") = c.B /\ Drop(Top, Extent("B")) = Frame4(b, c)
      <4>1. Top = Frame5(b, c) /\ RestoreOrder[k] = "B"
        BY <2>3, <3>1, <3>4
      <4> QED
        BY <3>2, <3>3, <4>1
    <3>5. ASSUME k = 2
          PROVE  RestoreOrder[k] = "D" /\ Pulled("D") = c.D /\ Drop(Top, Extent("D")) = Frame3(b, c)
      <4>1. Top = Frame4(b, c) /\ RestoreOrder[k] = "D"
        BY <2>3, <3>1, <3>5
      <4> QED
        BY <3>2, <3>3, <4>1
    <3>6. ASSUME k = 3
          PROVE  RestoreOrder[k] = "Y" /\ Pulled("Y") = c.Y /\ Drop(Top, Extent("Y")) = Frame2(b, c)
      <4>1. Top = Frame3(b, c) /\ RestoreOrder[k] = "Y"
        BY <2>3, <3>1, <3>6
      <4> QED
        BY <3>2, <3>3, <4>1
    <3>7. ASSUME k = 4
          PROVE  RestoreOrder[k] = "X" /\ Pulled("X") = c.X /\ Drop(Top, Extent("X")) = Frame1(b, c)
      <4>1. Top = Frame2(b, c) /\ RestoreOrder[k] = "X"
        BY <2>3, <3>1, <3>7
      <4> QED
        BY <3>2, <3>3, <4>1
    <3>8. ASSUME k = 5
          PROVE  RestoreOrder[k] = "A" /\ Pulled("A") = c.A /\ Drop(Top, Extent("A")) = Frame0(b, c)
      <4>1. Top = Frame1(b, c) /\ RestoreOrder[k] = "A"
        BY <2>3, <3>1, <3>8
      <4> QED
        BY <3>2, <3>3, <4>1
    <3> QED
      BY <3>4, <3>5, <3>6, <3>7, <3>8
  <2> PICK s : s = Drop(Top, Extent(RestoreOrder[k]))
    OBVIOUS
  <2>5. /\ IsStack(s) /\ Len(s) <= Room(current)
    <3>1. /\ IsStack(Frame0(b, c)) /\ IsStack(Frame1(b, c)) /\ IsStack(Frame2(b, c))
          /\ IsStack(Frame3(b, c)) /\ IsStack(Frame4(b, c))
          /\ Len(Frame0(b, c)) = Len(b) + 4 /\ Len(Frame1(b, c)) = Len(b) + 6
          /\ Len(Frame2(b, c)) = Len(b) + 8 /\ Len(Frame3(b, c)) = Len(b) + 10
          /\ Len(Frame4(b, c)) = Len(b) + 12
      BY <2>2, FrameFacts, ZenonT(60)
    <3>2. k = 1 \/ k = 2 \/ k = 3 \/ k = 4 \/ k = 5
      OBVIOUS
    <3>3. s \in {Frame0(b, c), Frame1(b, c), Frame2(b, c), Frame3(b, c), Frame4(b, c)}
      BY <2>4, <3>2
    <3>4. PICK n, h : n = Len(s) /\ h = Len(b)
      OBVIOUS
    <3>5. IsStack(s) /\ n \in {h + 4, h + 6, h + 8, h + 10, h + 12}
      BY <3>1, <3>3, <3>4
    <3>6. h \in Nat /\ h <= TaskUsable /\ TaskUsable \in Nat
      BY <2>2, <3>4, DomainFacts
    <3>7. n <= TaskUsable + 13
      BY <3>5, <3>6
    <3>8. Room(current) = TaskUsable + 13
      BY <1>1, <2>2 DEF Room
    <3> QED
      BY <3>4, <3>5, <3>7, <3>8
  <2>6. stack' = [stack EXCEPT ![current] = s]
    BY <1>5, <2>2 DEF Pop, Top
  <2>7. /\ IsCpu(cpu') /\ cpu'.pc = <<"restore", k + 2>> /\ cpu'.P = cpu.P /\ cpu'.dom = cpu.dom
        /\ cpu'.B = IF k = 1 THEN c.B ELSE cpu.B
        /\ cpu'.D = IF k = 2 THEN c.D ELSE cpu.D
        /\ cpu'.Y = IF k = 3 THEN c.Y ELSE cpu.Y
        /\ cpu'.X = IF k = 4 THEN c.X ELSE cpu.X
        /\ cpu'.A = IF k = 5 THEN c.A ELSE cpu.A
    <3>1. k = 1 \/ k = 2 \/ k = 3 \/ k = 4 \/ k = 5
      OBVIOUS
    <3>2. /\ k = 1 => cpu' = [cpu EXCEPT !.B = c.B, !.pc = <<"restore", k + 2>>]
          /\ k = 2 => cpu' = [cpu EXCEPT !.D = c.D, !.pc = <<"restore", k + 2>>]
          /\ k = 3 => cpu' = [cpu EXCEPT !.Y = c.Y, !.pc = <<"restore", k + 2>>]
          /\ k = 4 => cpu' = [cpu EXCEPT !.X = c.X, !.pc = <<"restore", k + 2>>]
          /\ k = 5 => cpu' = [cpu EXCEPT !.A = c.A, !.pc = <<"restore", k + 2>>]
      BY <1>5, <2>4
    <3>3. CASE k = 1
      BY <1>1, <3>2, <3>3, ZenonT(60) DEF IsCpu
    <3>4. CASE k = 2
      BY <1>1, <3>2, <3>4, ZenonT(60) DEF IsCpu
    <3>5. CASE k = 3
      BY <1>1, <3>2, <3>5, ZenonT(60) DEF IsCpu
    <3>6. CASE k = 4
      BY <1>1, <3>2, <3>6, ZenonT(60) DEF IsCpu
    <3>7. CASE k = 5
      BY <1>1, <3>2, <3>7, ZenonT(60) DEF IsCpu
    <3> QED
      BY <3>1, <3>3, <3>4, <3>5, <3>6, <3>7
  <2>8. Grounds(cpu, stack)' /\ stack'[current] = s
    BY <1>1, <1>2, <2>2, <2>5, <2>6, <2>7, OthersKeep
  <2>9. RestoringAt(k + 2, cpu, stack)'
    <3>1. /\ k + 2 = 2 => FALSE
          /\ k + 2 = 3 => s = Frame4(b, c)
          /\ k + 2 = 4 => s = Frame3(b, c)
          /\ k + 2 = 5 => s = Frame2(b, c)
          /\ k + 2 = 6 => s = Frame1(b, c)
          /\ k + 2 = 7 => s = Frame0(b, c)
      <4>1. /\ (k + 2 = 2 => FALSE) /\ (k + 2 = 3 => k = 1) /\ (k + 2 = 4 => k = 2)
            /\ (k + 2 = 5 => k = 3) /\ (k + 2 = 6 => k = 4) /\ (k + 2 = 7 => k = 5)
        OBVIOUS
      <4> QED
        BY <2>4, <4>1, Zenon
    <3>2. /\ k + 1 >= 3 => cpu.B = c.B
          /\ k + 1 >= 4 => cpu.D = c.D
          /\ k + 1 >= 5 => cpu.Y = c.Y
          /\ k + 1 >= 6 => cpu.X = c.X
      BY <2>1, <2>2 DEF RestoringAt
    <3>3. /\ k + 2 >= 3 => cpu'.B = c.B
          /\ k + 2 >= 4 => cpu'.D = c.D
          /\ k + 2 >= 5 => cpu'.Y = c.Y
          /\ k + 2 >= 6 => cpu'.X = c.X
          /\ k + 2 >= 7 => cpu'.A = c.A
      BY <2>7, <3>2
    <3>4. shadow'[current'] = x
      BY <1>2
    <3> QED
      BY <1>2, <2>2, <2>7, <2>8, <3>1, <3>3, <3>4 DEF RestoringAt
  <2>10. k + 2 \in 2..7
    OBVIOUS
  <2> QED
    BY <2>8, <2>9, <2>10 DEF Inv, BridgeInv, Phase, Restoring
<1> QED
  BY <1>3, <1>4, <1>5 DEF Restore

(* RTI completes the context the task was suspended with. *)
LEMMA RtiFacts ==
  ASSUME Inv, ReturnFromInterrupt
  PROVE  /\ current \in Task /\ tokens[current] = <<>> /\ UNCHANGED <<scratch, dispatcher, programs, nmi>>
         /\ InTaskCode(current, shadow[current].cpu, shadow[current].stack, Mode(current))
         /\ IsContext(shadow[current]) /\ shadow[current].cpu.dom = current
         /\ cpu' = shadow[current].cpu /\ stack' = [stack EXCEPT ![current] = shadow[current].stack]
         /\ shadow' = [shadow EXCEPT ![current] = NoContext]
<1> PICK x : x = shadow[current]
  OBVIOUS
<1> PICK b, c : b = x.stack /\ c = x.cpu
  OBVIOUS
<1>1. /\ IsCpu(cpu) /\ stack = [e \in Domain |-> stack[e]] /\ Task \subseteq Domain
      /\ Typed(cpu, stack) /\ Grounds(cpu, stack) /\ \A u \in Task : u # Irq
  BY LiveKeeps, DomainFacts DEF Typed
<1>3. RestoringAt(7, cpu, stack)
  BY Phases DEF Inv, ReturnFromInterrupt, At_pc
<1>4. /\ current \in Task /\ cpu.dom = current /\ tokens[current] = <<>> /\ cpu.P = Flags(TRUE)
      /\ InTaskCode(current, c, b, Mode(current)) /\ stack[current] = Frame0(b, c)
      /\ cpu.B = c.B /\ cpu.D = c.D /\ cpu.Y = c.Y /\ cpu.X = c.X /\ cpu.A = c.A
  BY <1>3 DEF RestoringAt
<1>2. UNCHANGED <<scratch, dispatcher, programs, nmi>> /\ IsContext(shadow[current])
  BY <1>1, <1>4 DEF Typed, ReturnFromInterrupt
<1>5. IsCpu(c) /\ IsStack(b) /\ Len(b) <= TaskUsable /\ Len(b) \in Nat /\ c.dom = current
  <2>1. IsCpu(c) /\ IsStack(b)
    BY <1>1, <1>4 DEF Typed, IsContext
  <2> QED
    BY <1>4, <2>1, StackFacts DEF InTaskCode
<1>6. PAt(Top, 1) = c.P /\ WordAt(Top, 2) = c.pc /\ Drop(Top, 4) = b
  <2>1. PAt(Frame0(b, c), 1) = c.P /\ WordAt(Frame0(b, c), 2) = c.pc /\ Drop(Frame0(b, c), 4) = b
    BY <1>5, FrameFacts, ZenonT(60)
  <2>2. Top = Frame0(b, c)
    BY <1>4 DEF Top
  <2> QED
    BY <2>1, <2>2
<1>7. cpu' = c /\ stack' = [stack EXCEPT ![current] = b]
      /\ shadow' = [shadow EXCEPT ![current] = NoContext]
  <2>1. cpu' = [cpu EXCEPT !.P = c.P, !.pc = c.pc]
    BY <1>6 DEF ReturnFromInterrupt
  <2>2. cpu' = c
    <3>1. cpu' = [A |-> cpu.A, X |-> cpu.X, Y |-> cpu.Y, D |-> cpu.D, B |-> cpu.B, P |-> c.P,
                  dom |-> cpu.dom, pc |-> c.pc]
      BY <1>1, <2>1 DEF IsCpu
    <3>2. c = [A |-> c.A, X |-> c.X, Y |-> c.Y, D |-> c.D, B |-> c.B, P |-> c.P,
                  dom |-> c.dom, pc |-> c.pc]
      BY <1>5 DEF IsCpu
    <3> QED
      BY <1>4, <1>5, <3>1, <3>2
  <2> QED
    BY <1>4, <1>6, <2>2 DEF ReturnFromInterrupt, Pop, Top
<1> QED
  BY <1>2, <1>4, <1>5, <1>7

LEMMA RtiStep ==
  ASSUME Inv, ReturnFromInterrupt
  PROVE  Inv'
<1> PICK x : x = shadow[current]
  OBVIOUS
<1> PICK b, c : b = x.stack /\ c = x.cpu
  OBVIOUS
<1>1. /\ IsCpu(cpu) /\ stack = [e \in Domain |-> stack[e]] /\ Task \subseteq Domain
      /\ Typed(cpu, stack) /\ Grounds(cpu, stack) /\ \A u \in Task : u # Irq
  BY LiveKeeps, DomainFacts DEF Typed
<1>2. /\ current' = current /\ tokens' = tokens /\ saved' = saved /\ masked' = masked
      /\ scratch' = scratch /\ \A u : Mode(u)' = Mode(u)
  BY DEF ReturnFromInterrupt, dispatcher, programs, Mode
<1>4. /\ current \in Task /\ tokens[current] = <<>> /\ c.dom = current
      /\ InTaskCode(current, c, b, Mode(current)) /\ IsContext(x)
  BY RtiFacts
<1>5. IsCpu(c) /\ IsStack(b) /\ Len(b) <= TaskUsable /\ Len(b) \in Nat
  BY <1>4, StackFacts DEF InTaskCode, IsContext
<1>7. cpu' = c /\ stack' = [stack EXCEPT ![current] = b]
      /\ shadow' = [shadow EXCEPT ![current] = NoContext]
  BY RtiFacts
<1>8. stack'[current] = b /\ (\A e \in Domain \ {current} : stack'[e] = stack[e])
      /\ stack' = [e \in Domain |-> stack'[e]]
  BY <1>1, <1>4, <1>7
<1>9. shadow'[current] = NoContext /\ (\A e \in Domain \ {current} : shadow'[e] = shadow[e])
      /\ shadow' = [e \in Domain |-> shadow'[e]]
  BY <1>1, <1>4, <1>7 DEF Typed
<1>10. IsContext(NoContext)
  BY DomainFacts, Pieces DEF NoContext, BootCpu, IsContext, IsCpu, Flags
<1>11. Typed(cpu, stack)'
  <2>1. Len(b) <= Room(current)
    <3>1. Room(current) = TaskUsable + 13 /\ TaskUsable \in Nat
      BY <1>1, <1>4, DomainFacts DEF Room
    <3> QED
      BY <1>5, <3>1
  <2>2. \A e \in Domain : IsStack(stack'[e]) /\ Len(stack'[e]) <= Room(e)
    BY <1>1, <1>5, <1>8, <2>1 DEF Typed
  <2>3. \A e \in Domain : IsContext(shadow'[e])
    BY <1>1, <1>9, <1>10 DEF Typed
  <2> QED
    <3>1. TokensOK'
      BY <1>1, <1>2 DEF Typed, TokensOK
    <3>2. IsCpu(cpu)'
      BY <1>5, <1>7
    <3> QED
      BY <1>1, <1>2, <1>8, <1>9, <2>2, <2>3, <3>1, <3>2 DEF Typed
<1>12. ASSUME NEW u \in Task, u # current' PROVE Suspended(u, stack)'
  <2>1. Suspended(u, stack) /\ stack'[u] = stack[u] /\ shadow'[u] = shadow[u]
    BY <1>1, <1>2, <1>8, <1>9, <1>12 DEF Grounds
  <2> QED
    BY <1>2, <2>1 DEF Suspended, Resumable
<1>13. ScratchIsolated'
  BY <1>1, <1>2 DEF Grounds, ScratchIsolated
<1>14. Working(cpu, stack)'
  <2>1. InTaskCode(current', cpu', stack'[current'], Mode(current)')
    BY <1>2, <1>4, <1>7, <1>8
  <2> QED
    BY <1>2, <1>4, <1>9, <2>1 DEF Working
<1> QED
  BY <1>11, <1>12, <1>13, <1>14 DEF Inv, BridgeInv, Grounds, Phase

LEMMA TerminalStep ==
  ASSUME Inv, Terminal, Quiet
  PROVE  Inv'
<1>1. IsCpu(cpu) /\ cpu.pc[1] = "terminal" /\ Flags(TRUE) \in [i : BOOLEAN, m8 : BOOLEAN, x8 : BOOLEAN]
  BY LiveKeeps DEF Terminal, At_pc, Flags
<1>2. IsCpu(cpu') /\ cpu'.pc = <<"A816_TERMINAL", 0>> /\ cpu'.dom = cpu.dom /\ stack' = stack
  BY <1>1 DEF Terminal, IsCpu
<1>3. Grounds(cpu, stack)'
  BY <1>2, StackStays DEF Quiet
<1>4. cpu.dom \in Task => Len(stack[cpu.dom]) <= TaskUsable
  <2>1. Working(cpu, stack) \/ cpu.dom = Irq
    BY <1>1, Phases DEF Inv
  <2> QED
    BY <2>1, DomainFacts DEF Working, InBootCode, InTaskCode
<1>5. Over(cpu, stack)'
  BY <1>2, <1>4 DEF Over
<1> QED
  BY <1>3, <1>5 DEF Inv, BridgeInv, Phase


-----------------------------------------------------------------------------
(* The processor enters the bridge, from an IRQ or a COP. *)
LEMMA WorkingFacts ==
  ASSUME Inv, Working(cpu, stack)
  PROVE  /\ cpu.dom = Live /\ cpu.D = Page(Live) /\ IsStack(Top) /\ Top = stack[Live]
         /\ Len(Top) \in Nat /\ Len(Top) <= TaskUsable /\ InCode(Live, cpu, Top, Mode(Live))
<1>1. Live \in Domain /\ \A d \in Domain : IsStack(stack[d])
  BY LiveKeeps
<1>2. InCode(Live, cpu, stack[Live], Mode(Live))
  BY DomainFacts DEF Working, InCode, Live
<1>3. cpu.dom = Live /\ cpu.D = Page(Live) /\ Len(stack[Live]) <= TaskUsable
  BY <1>1, <1>2, CodeFits
<1> QED
  BY <1>1, <1>2, <1>3, StackFacts DEF Top

LEMMA Enters ==
  ASSUME Inv, Working(cpu, stack), NEW r \in {"irq", "cop"}, NEW pc, NEW x,
         x = [cpu |-> [cpu EXCEPT !.pc = pc], stack |-> Top], Entered(r, Live, x, Mode(Live)),
         Interrupt(r, pc), shadow' = [shadow EXCEPT ![cpu.dom] = x],
         UNCHANGED <<scratch, dispatcher, programs>>
  PROVE  Inv'
<1> PICK d : d = Live
  OBVIOUS
<1> PICK m : m = Mode(d)
  OBVIOUS
<1>1. /\ IsCpu(cpu) /\ d \in Domain /\ (d \notin Task \/ d = current) /\ d # Irq
      /\ stack = [e \in Domain |-> stack[e]] /\ shadow = [e \in Domain |-> shadow[e]]
      /\ Grounds(cpu, stack) /\ Typed(cpu, stack) /\ Task \subseteq Domain
  BY LiveKeeps, DomainFacts DEF Typed
<1>2. /\ current' = current /\ tokens' = tokens /\ saved' = saved /\ masked' = masked
      /\ scratch' = scratch /\ Live' = d /\ Mode(d)' = m /\ Mode(Live)' = m /\ \A u : Mode(u)' = Mode(u)
  BY Same DEF programs
<1>3. cpu.dom = d /\ cpu.D = Page(d) /\ IsStack(Top) /\ Len(Top) \in Nat /\ Len(Top) <= TaskUsable
      /\ Top = stack[d]
  BY WorkingFacts
<1> PICK s : s = Frame0(x.stack, x.cpu)
  OBVIOUS
<1>4. /\ x.stack = Top /\ IsCpu(x.cpu) /\ x.cpu.P = cpu.P /\ x.cpu.pc = pc /\ IsContext(x)
      /\ x.cpu.A = cpu.A /\ x.cpu.X = cpu.X /\ x.cpu.Y = cpu.Y /\ x.cpu.D = cpu.D /\ x.cpu.B = cpu.B
  <2>1. /\ x.stack = Top /\ IsCpu(x.cpu) /\ x.cpu.P = cpu.P /\ x.cpu.pc = pc
        /\ x.cpu.A = cpu.A /\ x.cpu.X = cpu.X /\ x.cpu.Y = cpu.Y /\ x.cpu.D = cpu.D /\ x.cpu.B = cpu.B
    BY <1>1 DEF IsCpu
  <2>2. x = [cpu |-> x.cpu, stack |-> x.stack]
    OBVIOUS
  <2> QED
    BY <1>3, <2>1, <2>2 DEF IsContext
<1>5. s = Top \o HardwareFrame(cpu.P, pc) /\ IsStack(s) /\ Len(s) = Len(Top) + 4
  <2>1. s = Top \o HardwareFrame(cpu.P, pc)
    BY <1>4 DEF Frame0
  <2>2. PICK b, p : b = Top /\ p = cpu.P
    OBVIOUS
  <2>3. IsStack(b)
    BY <1>3, <2>2
  <2>4. IsStack(b \o HardwareFrame(p, pc)) /\ Len(b \o HardwareFrame(p, pc)) = Len(b) + 4
    BY ONLY <2>3, PushHardware
  <2> QED
    BY <2>1, <2>2, <2>4
<1>6. stack' = [stack EXCEPT ![d] = s]
  BY <1>3, <1>5 DEF Interrupt, Push
<1>7. /\ stack'[d] = s /\ stack' = [e \in Domain |-> stack'[e]]
      /\ \A e \in Domain \ {d} : stack'[e] = stack[e]
  BY <1>1, <1>6
<1>8. /\ shadow'[d] = x /\ shadow' = [e \in Domain |-> shadow'[e]]
      /\ \A e \in Domain \ {d} : shadow'[e] = shadow[e]
  BY <1>1, <1>3
<1>9. /\ IsCpu(cpu') /\ cpu'.pc = <<r, 0>> /\ cpu'.dom = d /\ cpu'.P = [x.cpu.P EXCEPT !.i = TRUE]
      /\ cpu'.A = x.cpu.A /\ cpu'.X = x.cpu.X /\ cpu'.Y = x.cpu.Y /\ cpu'.D = x.cpu.D /\ cpu'.B = x.cpu.B
  <2>1. cpu' = [cpu EXCEPT !.P.i = TRUE, !.pc = <<r, 0>>]
    BY DEF Interrupt
  <2>2. PICK p : p = [cpu.P EXCEPT !.i = TRUE]
    OBVIOUS
  <2>3. p \in [i : BOOLEAN, m8 : BOOLEAN, x8 : BOOLEAN]
    BY <1>1, <2>2 DEF IsCpu
  <2>4. cpu' = [cpu EXCEPT !.P = p, !.pc = <<r, 0>>]
    BY <2>1, <2>2
  <2> QED
    BY <1>1, <1>3, <1>4, <2>2, <2>3, <2>4 DEF IsCpu
<1>10. Typed(cpu, stack)'
  <2>1. Len(s) <= Room(d)
    <3>1. PICK n, h : n = Len(s) /\ h = Len(Top)
      OBVIOUS
    <3>2. n = h + 4 /\ h \in Nat /\ h <= TaskUsable /\ TaskUsable \in Nat
      BY <1>3, <1>5, <3>1, DomainFacts
    <3>3. n <= TaskUsable + 13
      BY <3>2
    <3> QED
      BY <1>1, <3>1, <3>3 DEF Room
  <2>2. \A e \in Domain : IsStack(stack'[e]) /\ Len(stack'[e]) <= Room(e)
    BY <1>1, <1>5, <1>7, <2>1 DEF Typed
  <2>3. \A e \in Domain : IsContext(shadow'[e])
    BY <1>1, <1>4, <1>8 DEF Typed
  <2>4. TokensOK'
    BY <1>1, <1>2 DEF Typed, TokensOK
  <2>5. IsCpu(cpu)'
    BY <1>9
  <2> QED
    BY <1>1, <1>2, <1>7, <1>8, <2>2, <2>3, <2>4, <2>5, ZenonT(60) DEF Typed
<1>11. ASSUME NEW u \in Task, u # current' PROVE Suspended(u, stack)'
  <2>1. Suspended(u, stack) /\ stack'[u] = stack[u] /\ shadow'[u] = shadow[u]
    BY <1>1, <1>2, <1>7, <1>8, <1>11 DEF Grounds
  <2> QED
    BY <1>2, <2>1 DEF Suspended, Resumable
<1>12. ScratchIsolated'
  BY <1>1, <1>2 DEF Grounds, ScratchIsolated
<1>13. SavingAt(r, 0, cpu, stack)'
  <2>1. PICK k : k = 0
    OBVIOUS
  <2>2. k \in {0, 1} /\ k # 2 /\ k # 3 /\ k # 4 /\ k # 5 /\ k # 6
    BY <2>1
  <2>3. cpu'.pc = <<r, k>>
    BY <1>9, <2>1
  <2>4. Entered(r, d, x, m) /\ s = Frame0(x.stack, x.cpu) /\ shadow'[Live'] = x /\ stack'[Live'] = s
    BY <1>2, <1>7, <1>8
  <2>5. SavingAt(r, k, cpu, stack)'
    BY ONLY <1>2, <1>9, <2>1, <2>2, <2>3, <2>4 DEF SavingAt
  <2> QED
    BY <2>1, <2>5
<1> QED
  BY <1>10, <1>11, <1>12, <1>13 DEF Inv, BridgeInv, Grounds, Phase, Saving

LEMMA IrqStep ==
  ASSUME Inv, IrqArrives
  PROVE  Inv'
<1>1. Working(cpu, stack) /\ ~cpu.P.i
  BY Phases DEF Inv, IrqArrives, Running
<1>2. PICK x : x = Context
  OBVIOUS
<1>3. /\ InCode(Live, cpu, Top, Mode(Live)) /\ IsCpu(cpu) 
  BY <1>1, WorkingFacts, LiveKeeps
<1>4. x = [cpu |-> [cpu EXCEPT !.pc = cpu.pc], stack |-> Top]
  BY <1>2, <1>3 DEF Context, IsCpu
<1>5. Entered("irq", Live, x, Mode(Live))
  BY <1>1, <1>2, <1>3 DEF Context, Entered
<1>6. /\ Interrupt("irq", cpu.pc) /\ shadow' = [shadow EXCEPT ![cpu.dom] = x]
      /\ UNCHANGED <<scratch, dispatcher, programs>>
  BY <1>2 DEF IrqArrives
<1> QED
  BY <1>1, <1>4, <1>5, <1>6, Enters

LEMMA CopStep ==
  ASSUME Inv, NEW pc, Cop(pc), Working(cpu, stack), Live \in Task,
         LET c == [cpu EXCEPT !.pc = pc] IN
           InTaskCode(Live, c, Top, Mode(Live)) \/ IllegalCop(Live, c, Top)
  PROVE  Inv'
<1>1. PICK x : x = [cpu |-> [cpu EXCEPT !.pc = pc], stack |-> Top]
  OBVIOUS
<1>2. x = [Context EXCEPT !.cpu.pc = pc]
  BY <1>1 DEF Context
<1>3. Entered("cop", Live, x, Mode(Live))
  BY <1>1, DomainFacts DEF Entered, InCode
<1>4. /\ Interrupt("cop", pc) /\ shadow' = [shadow EXCEPT ![cpu.dom] = x]
      /\ UNCHANGED <<scratch, dispatcher, programs>>
  BY <1>2 DEF Cop
<1> QED
  BY <1>1, <1>3, <1>4, Enters


-----------------------------------------------------------------------------
(* The stack of a task: its entry frame stays under all it pushes. *)
LEMMA BodyPush ==
  ASSUME NEW s, IsStack(s), NEW w, IsStack(w), BodyStack(s)
  PROVE  BodyStack(s \o w)
<1>1. PICK W : s \in Seq(W) /\ w \in Seq(W)
  BY Joint
<1>2. Len(s) \in Nat /\ Len(w) \in Nat /\ Len(s) >= 6
  BY StackFacts DEF BodyStack
<1>3. PICK r : r = s \o w
  OBVIOUS
<1>4. r \in Seq(W) /\ Len(r) = Len(s) + Len(w) /\ \A k \in 1..Len(s) : r[k] = s[k]
  BY <1>1, <1>2, <1>3
<1>5. Len(r) >= 6
  <2>1. PICK n, h, l : n = Len(r) /\ h = Len(s) /\ l = Len(w)
    OBVIOUS
  <2>2. n = h + l /\ h \in Nat /\ l \in Nat /\ h >= 6
    BY <1>2, <1>4, <2>1
  <2>3. n >= 6
    BY <2>2
  <2> QED
    BY <2>1, <2>3
<1>6. SubSeq(r, 1, 6) = SubSeq(s, 1, 6)
  <2>1. \A k \in 1..6 : k \in 1..Len(s)
    BY <1>2
  <2>2. \A k \in 1..6 : r[k] = s[k]
    BY <1>4, <2>1
  <2> QED
    BY <1>1, <1>2, <1>4, <1>5, <2>2
<1> QED
  BY <1>3, <1>5, <1>6 DEF BodyStack

LEMMA BodyPop ==
  ASSUME NEW s, IsStack(s), BodyStack(s), Len(s) > 6
  PROVE  BodyStack(Drop(s, 1)) /\ IsStack(Drop(s, 1)) /\ Len(Drop(s, 1)) = Len(s) - 1
<1>1. PICK W : s \in Seq(W)
  BY DEF IsStack
<1>2. Len(s) \in Nat /\ 1 + 0 <= Len(s)
  BY StackFacts
<1>3. PICK r : r = SubSeq(s, 1, Len(s) - 1)
  OBVIOUS
<1>4. r \in Seq(W) /\ Len(r) = Len(s) - 1 /\ \A k \in 1..(Len(s) - 1) : r[k] = s[k]
  BY <1>1, <1>2, <1>3
<1>5. Len(r) >= 6
  BY <1>2, <1>4
<1>6. SubSeq(r, 1, 6) = SubSeq(s, 1, 6)
  <2>1. \A k \in 1..6 : k \in 1..(Len(s) - 1)
    BY <1>2
  <2>2. \A k \in 1..6 : r[k] = s[k]
    BY <1>4, <2>1
  <2> QED
    BY <1>1, <1>2, <1>4, <1>5, <2>2
<1> QED
  BY <1>3, <1>4, <1>5, <1>6, StackOf DEF BodyStack, Drop

LEMMA ArgumentFacts ==
  /\ IsStack(Argument) /\ Len(Argument) = 3 /\ IsStack(EntryStack) /\ Len(EntryStack) = 6
  /\ WordAt(EntryStack, 1) = Before(<<"task_return", 0>>) /\ Drop(EntryStack, 3) = Argument
  /\ SubSeq(EntryStack, 1, 6) = EntryStack
<1>1. PICK a, b, c : a = <<"argument", 2>> /\ b = <<"argument", 1>> /\ c = <<"argument", 0>>
  OBVIOUS
<1>2. IsStack(Byte(a)) /\ Len(Byte(a)) = 1
  BY Pieces
<1>3. PICK u : u = Byte(a) \o Byte(b)
  OBVIOUS
<1>4. IsStack(u) /\ Len(u) = 2
  BY <1>2, <1>3, PushByte
<1>5. IsStack(u \o Byte(c)) /\ Len(u \o Byte(c)) = 3
  <2>1. IsStack(u \o Byte(c)) /\ Len(u \o Byte(c)) = Len(u) + 1
    BY ONLY <1>4, PushByte
  <2>2. PICK n : n = Len(u \o Byte(c))
    OBVIOUS
  <2>3. n = 3
    BY <1>4, <2>1, <2>2
  <2> QED
    BY <2>1, <2>2, <2>3
<1>6. Argument = u \o Byte(c)
  BY <1>1, <1>3 DEF Argument
<1>7. PICK g : g = Argument
  OBVIOUS
<1>8. IsStack(g) /\ Len(g) = 3
  BY <1>5, <1>6, <1>7
<1>9. PICK pc : pc = <<"task_return", 0>>
  OBVIOUS
<1>10. /\ IsStack(g \o ReturnAddress(pc)) /\ Len(g \o ReturnAddress(pc)) = Len(g) + 3
       /\ WordAt(g \o ReturnAddress(pc), 1) = Before(pc) /\ Drop(g \o ReturnAddress(pc), 3) = g
  BY <1>8, PushReturn
<1>11. EntryStack = g \o ReturnAddress(pc) /\ Len(EntryStack) = 6
  BY <1>7, <1>8, <1>9, <1>10 DEF EntryStack
<1>12. SubSeq(EntryStack, 1, 6) = EntryStack
  <2>1. PICK q : q = EntryStack
    OBVIOUS
  <2>2. IsStack(q) /\ Len(q) = 6
    BY <1>10, <1>11, <2>1
  <2>3. PICK W : q \in Seq(W)
    BY <2>2 DEF IsStack
  <2>4. SubSeq(q, 1, 6) = q
    BY <2>2, <2>3
  <2> QED
    BY <2>1, <2>4
<1> QED
  BY <1>7, <1>8, <1>9, <1>10, <1>11, <1>12

LEMMA BodyBottom ==
  ASSUME NEW s, IsStack(s), BodyStack(s), Len(s) = 6
  PROVE  WordAt(s, 1) = Before(<<"task_return", 0>>) /\ Drop(s, 3) = Argument
<1>1. PICK W : s \in Seq(W)
  BY DEF IsStack
<1>2. SubSeq(s, 1, 6) = s
  BY <1>1
<1>3. s = EntryStack
  BY <1>2 DEF BodyStack
<1> QED
  BY <1>3, ArgumentFacts

LEMMA CalledFacts ==
  ASSUME NEW s, IsStack(s), NEW pc, Called(s, pc)
  PROVE  /\ Len(s) >= 10 /\ After(WordAt(s, 1)) = pc
         /\ IsStack(Drop(s, 3)) /\ Len(Drop(s, 3)) = Len(s) - 3
         /\ BodyStack(Drop(Drop(s, 3), 1))
<1>1. PICK W : s \in Seq(W)
  BY DEF IsStack
<1>2. Len(s) \in Nat
  BY StackFacts
<1>3. PICK r : r = SubSeq(s, 1, Len(s) - 4)
  OBVIOUS
<1>4. Len(r) >= 6
  BY <1>3 DEF Called, BodyStack, Drop
<1>5. CASE Len(s) - 4 < 1
  <2>1. Len(r) = 0
    BY <1>1, <1>2, <1>3, <1>5
  <2> QED
    BY <1>4, <2>1
<1>6. CASE ~(Len(s) - 4 < 1)
  <2>1. Len(r) = Len(s) - 4
    BY <1>1, <1>2, <1>3, <1>6
  <2>2. Len(s) >= 10 /\ 3 + 1 <= Len(s) /\ 3 <= Len(s) /\ 3 + 1 = 4
    BY <1>2, <1>4, <2>1
  <2>3. Drop(Drop(s, 3), 1) = Drop(s, 4) /\ IsStack(Drop(s, 3)) /\ Len(Drop(s, 3)) = Len(s) - 3
    BY <2>2, DropTwice
  <2>4. After(Before(pc)) = pc
    BY DEF After, Before
  <2> QED
    BY <2>2, <2>3, <2>4 DEF Called
<1> QED
  BY <1>2, <1>5, <1>6

LEMMA DropStack ==
  ASSUME NEW s, IsStack(s), NEW n \in Nat, n <= Len(s)
  PROVE  IsStack(Drop(s, n)) /\ Len(Drop(s, n)) = Len(s) - n
<1>1. n + 0 <= Len(s)
  BY StackFacts
<1> QED
  BY <1>1, DropTwice

-----------------------------------------------------------------------------
(* A step of code keeps the invariant when it ends in code again. *)
LEMMA TaskPc ==
  ASSUME NEW t, NEW c, NEW s, NEW m, InTaskCode(t, c, s, m)
  PROVE  /\ c.pc[1] = "body" => c.pc = <<"body", t>> /\ BodyStack(s) /\ (c.P.i <=> Holds(m))
         /\ c.pc[1] \in {"yield", "after_call"} => InYield(t, c, s, m)
         /\ c.pc[1] \in {"save", "after_save"} => InSave(t, c, s, m)
         /\ c.pc[1] = "restore_irq" => InRestoreIrq(t, c, s, m)
         /\ c.pc[1] \in {"task_return", "A816_TASK_EXIT"} => InReturn(c, s, m)
         /\ c.pc[1] # "boot"
<1>1. InYield(t, c, s, m) => c.pc[1] \in {"yield", "after_call"}
  BY DEF InYield
<1>2. InSave(t, c, s, m) => c.pc[1] \in {"save", "after_save"}
  BY DEF InSave
<1>3. InRestoreIrq(t, c, s, m) => c.pc[1] = "restore_irq"
  BY DEF InRestoreIrq
<1>4. InReturn(c, s, m) => c.pc[1] \in {"task_return", "A816_TASK_EXIT"}
  BY DEF InReturn
<1> QED
  BY <1>1, <1>2, <1>3, <1>4 DEF InTaskCode

(* Only the task that runs changes its tokens.                             *)
LEMMA TokenStep ==
  ASSUME Inv, Working(cpu, stack), current \in Task, IsCpu(cpu'),
         UNCHANGED <<scratch, dispatcher, masked, shadow>>,
         TokensOK', \A u \in Task : u # current => tokens'[u] = tokens[u],
         NEW s, IsStack(s), stack' = [stack EXCEPT ![current] = s],
         NEW m, m = Mode(current)', InTaskCode(current, cpu', s, m)
  PROVE  Inv'
<1>1. /\ Grounds(cpu, stack) /\ Typed(cpu, stack) /\ stack = [e \in Domain |-> stack[e]]
      /\ Task \subseteq Domain /\ current # Irq /\ TaskUsable \in Nat
  BY LiveKeeps, DomainFacts DEF Typed
<1>2. current' = current /\ saved' = saved /\ masked' = masked /\ shadow' = shadow /\ scratch' = scratch
  BY DEF dispatcher
<1>3. /\ stack'[current] = s /\ stack' = [e \in Domain |-> stack'[e]]
      /\ \A e \in Domain \ {current} : stack'[e] = stack[e]
  BY <1>1
<1>4. Len(s) <= Room(current)
  <2>1. PICK n : n = Len(s)
    OBVIOUS
  <2>2. n \in Nat /\ n <= TaskUsable
    BY <2>1, StackFacts DEF InTaskCode
  <2>3. n <= TaskUsable + 13
    BY <1>1, <2>2
  <2> QED
    BY <1>1, <2>1, <2>3 DEF Room
<1>5. Typed(cpu, stack)'
  <2>1. \A e \in Domain : IsStack(stack'[e]) /\ Len(stack'[e]) <= Room(e)
    BY <1>1, <1>3, <1>4 DEF Typed
  <2> QED
    BY <1>1, <1>2, <1>3, <2>1 DEF Typed
<1>6. ASSUME NEW u \in Task, u # current' PROVE Suspended(u, stack)'
  <2>1. Suspended(u, stack) /\ stack'[u] = stack[u] /\ tokens'[u] = tokens[u] /\ Mode(u)' = Mode(u)
    BY <1>1, <1>2, <1>3, <1>6 DEF Grounds, Mode
  <2> QED
    BY <1>2, <2>1 DEF Suspended, Resumable
<1>7. ScratchIsolated'
  BY <1>1, <1>2 DEF Grounds, ScratchIsolated
<1>8. Working(cpu, stack)'
  <2>1. InTaskCode(current', cpu', stack'[current'], Mode(current)')
    BY <1>2, <1>3
  <2>2. shadow[current] = NoContext
    BY DomainFacts DEF Working
  <2> QED
    BY <1>2, <2>1, <2>2 DEF Working
<1> QED
  BY <1>5, <1>6, <1>7, <1>8 DEF Inv, BridgeInv, Grounds, Phase

LEMMA TaskStep ==
  ASSUME Inv, Working(cpu, stack), current \in Task, IsCpu(cpu'), Quiet,
         NEW s, IsStack(s), stack' = [stack EXCEPT ![current] = s],
         InTaskCode(current, cpu', s, Mode(current))
  PROVE  Inv'
<1>1. tokens' = tokens /\ masked' = masked /\ Mode(current)' = Mode(current) /\ TokensOK
  BY LiveKeeps DEF Quiet, dispatcher, programs, Mode, Typed
<1>2. TokensOK'
  BY <1>1 DEF TokensOK
<1>3. UNCHANGED <<scratch, dispatcher, masked, shadow>>
  BY <1>1 DEF Quiet
<1> QED
  BY <1>1, <1>2, <1>3, TokenStep

LEMMA BootStep ==
  ASSUME Inv, Working(cpu, stack), current = None, IsCpu(cpu'), Quiet,
         NEW s, IsStack(s), stack' = [stack EXCEPT ![Boot] = s], InBootCode(cpu', s)
  PROVE  Inv'
<1>1. Len(s) <= Room(Boot)
  <2>1. Len(<<>>) = 0
    OBVIOUS
  <2>2. PICK n : n = Len(s)
    OBVIOUS
  <2>3. n \in {0, 4, 5}
    BY <2>1, <2>2 DEF InBootCode
  <2>4. n <= TaskUsable + 13
    BY <2>3, DomainFacts
  <2> QED
    BY <2>2, <2>4, DomainFacts DEF Room
<1>2. Grounds(cpu, stack)' /\ stack'[Boot] = s
  BY <1>1, DomainFacts, OthersKeep DEF Quiet
<1>3. Working(cpu, stack)'
  <2>1. current' = None /\ saved' = saved /\ \A u \in Task : saved[u] # Junk
    BY DomainFacts DEF Quiet, dispatcher, Working
  <2> QED
    BY <1>2, <2>1 DEF Working
<1> QED
  BY <1>2, <1>3 DEF Inv, BridgeInv, Phase

(* A refused request stops where it is. *)
LEMMA Stops ==
  ASSUME Inv, Working(cpu, stack), IsCpu(cpu'), UNCHANGED <<scratch, dispatcher, shadow, stack, programs>>,
         cpu'.pc[1] = "A816_STACK_OVERFLOW", cpu'.dom = cpu.dom
  PROVE  Inv'
<1>1. Grounds(cpu, stack)'
  BY StackStays
<1>2. Len(stack[cpu.dom]) <= TaskUsable
  BY WorkingFacts DEF Top
<1>3. Over(cpu, stack)'
  BY <1>2 DEF Over
<1> QED
  BY <1>1, <1>3 DEF Inv, BridgeInv, Phase

(* check_stack lets through what fits under the task's ceiling.            *)
LEMMA Checks ==
  ASSUME Inv, Working(cpu, stack), NEW n \in Nat
  PROVE  Fits(n) <=> Len(Top) + n <= TaskUsable
<1>1. cpu.D = Page(Live) /\ Live # Irq
  BY WorkingFacts, LiveKeeps
<1>2. Usable(cpu.D[2]) = TaskUsable
  BY <1>1 DEF Usable, Page
<1> QED
  BY <1>2 DEF Fits

LEMMA CheckedStep ==
  ASSUME Inv, Working(cpu, stack), NEW n \in Nat, NEW r, NEW k, CheckStack(n, r, k), Quiet
  PROVE  \/ Inv'
         \/ /\ IsCpu(cpu') /\ cpu'.pc = <<r, k>> /\ cpu'.P = cpu.P /\ cpu'.dom = cpu.dom /\ cpu'.D = cpu.D
            /\ stack' = [stack EXCEPT ![cpu.dom] = Top] /\ Len(Top) + n <= TaskUsable
<1>1. IsCpu(cpu) /\ stack = [e \in Domain |-> stack[e]] /\ cpu.dom \in Domain
  BY LiveKeeps, WorkingFacts DEF Typed
<1>2. UNCHANGED stack /\ cpu' = [cpu EXCEPT !.A = IF Fits(n) THEN Junk ELSE <<"amount", n>>, !.X = S,
                        !.pc = IF Fits(n) THEN <<r, k>> ELSE <<"A816_STACK_OVERFLOW", 0>>]
  BY DEF CheckStack
<1>3. IsCpu(cpu') /\ cpu'.P = cpu.P /\ cpu'.dom = cpu.dom /\ cpu'.D = cpu.D
      /\ cpu'.pc = IF Fits(n) THEN <<r, k>> ELSE <<"A816_STACK_OVERFLOW", 0>>
  BY <1>1, <1>2 DEF IsCpu
<1>4. stack' = [stack EXCEPT ![cpu.dom] = Top]
  BY <1>1, <1>2 DEF Top
<1>5. CASE Fits(n)
  BY <1>3, <1>4, <1>5, Checks
<1>6. CASE ~Fits(n)
  BY <1>2, <1>3, <1>6, Stops DEF Quiet
<1> QED
  BY <1>5, <1>6

LEMMA TaskFacts ==
  ASSUME Inv, Working(cpu, stack), current \in Task
  PROVE  /\ IsCpu(cpu) /\ cpu.dom = current /\ cpu.D = Page(current) /\ Kind(cpu.D) = "task"
         /\ IsStack(Top) /\ Len(Top) \in Nat /\ Len(Top) <= TaskUsable
         /\ stack' = stack => stack' = [stack EXCEPT ![current] = Top]
         /\ InTaskCode(current, cpu, Top, Mode(current)) /\ Top = stack[current]
<1>1. Live = current /\ IsCpu(cpu) /\ stack = [d \in Domain |-> stack[d]] /\ current \in Domain
  BY LiveKeeps, DomainFacts DEF Live, Typed
<1>2. Top = stack[current] /\ cpu.dom = current /\ cpu.D = Page(current) /\ IsStack(Top)
      /\ Len(Top) \in Nat /\ Len(Top) <= TaskUsable /\ InCode(current, cpu, Top, Mode(current))
  BY <1>1, WorkingFacts
<1>3. Kind(cpu.D) = "task"
  BY <1>2, DomainFacts DEF Kind, Page
<1>4. stack' = stack => stack' = [stack EXCEPT ![current] = Top]
  BY <1>1, <1>2
<1> QED
  BY <1>1, <1>2, <1>3, <1>4, DomainFacts DEF InCode

LEMMA BootFacts ==
  ASSUME Inv, Working(cpu, stack), current \notin Task
  PROVE  /\ IsCpu(cpu) /\ cpu.dom = Boot /\ cpu.D = Page(Boot) /\ Kind(cpu.D) = "boot"
         /\ IsStack(Top) /\ InBootCode(cpu, Top) /\ current = None /\ Top = stack[Boot]
         /\ stack' = stack => stack' = [stack EXCEPT ![Boot] = Top]
<1>1. current = None /\ Live = Boot /\ IsCpu(cpu) /\ stack = [d \in Domain |-> stack[d]]
  BY LiveKeeps DEF Working, Live, Typed
<1>2. Top = stack[Boot] /\ cpu.dom = Boot /\ cpu.D = Page(Boot) /\ IsStack(Top)
      /\ InCode(Boot, cpu, Top, Mode(Boot))
  BY <1>1, WorkingFacts
<1>3. Kind(cpu.D) = "boot"
  BY <1>2, DomainFacts DEF Kind, Page
<1>4. stack' = stack => stack' = [stack EXCEPT ![Boot] = Top]
  BY <1>1, <1>2
<1> QED
  BY <1>1, <1>2, <1>3, <1>4 DEF InCode

(* P's I bit as the routines keep it: stacked, then in A.                  *)
LEMMA TellsI ==
  ASSUME NEW p \in [i : BOOLEAN, m8 : BOOLEAN, x8 : BOOLEAN], NEW m, p.i <=> Holds(m)
  PROVE  Tells(StatusBit(p), m)
<1>1. Flag(TRUE) # Flag(FALSE)
  BY DEF Flag
<1>2. CASE p.i = TRUE
  BY <1>1, <1>2 DEF Tells, StatusBit
<1>3. CASE p.i = FALSE
  BY <1>1, <1>3 DEF Tells, StatusBit
<1> QED
  BY <1>2, <1>3

-----------------------------------------------------------------------------
(* __a816_yield_v2. *)
LEMMA YieldSteps ==
  ASSUME Inv, Working(cpu, stack), current \in Task, Yield, Quiet
  PROVE  Inv'
<1> PICK t, m, s : t = current /\ m = Mode(current) /\ s = Top
  OBVIOUS
<1>1. /\ t \in Task /\ IsCpu(cpu) /\ cpu.dom = t /\ cpu.D = Page(t) /\ Kind(cpu.D) = "task"
      /\ IsStack(s) /\ Len(s) \in Nat /\ Len(s) <= TaskUsable /\ TaskUsable \in Nat
      /\ stack' = stack => stack' = [stack EXCEPT ![t] = s]
      /\ InTaskCode(t, cpu, s, m)
  BY TaskFacts, DomainFacts
<1>2. cpu.pc[1] = "yield"
  <2>1. At_pc("yield", 0) \/ At_pc("yield", 1) \/ At_pc("yield", 2) \/ At_pc("yield", 3)
        \/ At_pc("yield", 5)
    BY DEF Yield
  <2> QED
    BY <2>1 DEF At_pc
<1>3. InYield(t, cpu, s, m)
  BY <1>1, <1>2, TaskPc
<1>4. (cpu.P.i <=> Holds(m)) /\ cpu.P \in [i : BOOLEAN, m8 : BOOLEAN, x8 : BOOLEAN]
  BY <1>1, <1>3 DEF InYield, IsCpu
<1>5. ASSUME NEW k \in {0, 1, 3, 4, 5}, cpu.pc = <<"yield", k>>
      PROVE  /\ Called(s, <<"after_call", t>>) /\ (k = 1 => Len(s) < TaskUsable)
             /\ (k = 3 => Tells(cpu.A, m)) /\ (k \in {4, 5} => ~cpu.P.i)
  <2>1. k # 2
    OBVIOUS
  <2> QED
    BY <1>3, <1>5, <2>1 DEF InYield
<1>6. ASSUME NEW k \in {0, 1, 3, 4, 5}, NEW r, IsStack(r), Len(r) <= TaskUsable,
             IsCpu(cpu'), cpu'.pc = <<"yield", k>>, cpu'.P.i <=> cpu.P.i, cpu'.dom = cpu.dom, cpu'.D = cpu.D,
             stack' = [stack EXCEPT ![t] = r], Called(r, <<"after_call", t>>),
             k = 1 => Len(r) < TaskUsable, k = 3 => Tells(cpu'.A, m), k \in {4, 5} => ~cpu.P.i
      PROVE  Inv'
  <2>1. InYield(t, cpu', r, m)
    BY <1>4, <1>6 DEF InYield
  <2>2. InTaskCode(t, cpu', r, m)
    BY <1>1, <1>6, <2>1 DEF InTaskCode
  <2> QED
    BY <1>6, <2>2, TaskStep
<1>7. CASE At_pc("yield", 0)
  <2>1. CheckStack(1, "yield", 1)
    BY <1>7 DEF Yield, At_pc
  <2>2. Called(s, <<"after_call", t>>)
    BY <1>5, <1>7 DEF At_pc
  <2>3. Inv' \/ /\ IsCpu(cpu') /\ cpu'.pc = <<"yield", 1>> /\ cpu'.P = cpu.P /\ cpu'.dom = cpu.dom /\ cpu'.D = cpu.D
                /\ stack' = [stack EXCEPT ![t] = s] /\ Len(s) + 1 <= TaskUsable
    BY <1>1, <2>1, CheckedStep
  <2>4. Len(s) + 1 <= TaskUsable => Len(s) < TaskUsable
    BY <1>1
  <2> QED
    BY <1>1, <1>6, <2>2, <2>3, <2>4, SMTT(60)
<1>8. CASE At_pc("yield", 1)
  <2>1. Push(PByte(cpu.P)) /\ Goto("yield", 2)
    BY <1>8 DEF Yield, At_pc
  <2>2. Called(s, <<"after_call", t>>) /\ Len(s) < TaskUsable
    BY <1>5, <1>8 DEF At_pc
  <2> PICK p : p = cpu.P
    OBVIOUS
  <2> PICK r : r = s \o PByte(p)
    OBVIOUS
  <2>3. IsStack(r) /\ Len(r) = Len(s) + 1 /\ Drop(r, 1) = s /\ PAt(r, 1) = p
    BY <1>1, PushP
  <2>4. IsCpu(cpu') /\ cpu'.pc = <<"yield", 2>> /\ cpu'.P = cpu.P /\ cpu'.dom = cpu.dom /\ cpu'.D = cpu.D
    BY <1>1, <2>1 DEF Goto, IsCpu
  <2>5. stack' = [stack EXCEPT ![t] = r]
    BY <1>1, <2>1 DEF Push, Top
  <2>6. InYield(t, cpu', r, m)
    <3>1. Tells(StatusBit(p), m)
      BY <1>4, TellsI
    <3> QED
      BY <1>4, <2>2, <2>3, <2>4, <3>1 DEF InYield
  <2>7. Len(r) <= TaskUsable
    BY <1>1, <2>2, <2>3
  <2>8. InTaskCode(t, cpu', r, m)
    BY <1>1, <2>4, <2>6, <2>7 DEF InTaskCode
  <2> QED
    BY <2>3, <2>4, <2>5, <2>8, TaskStep
<1>9. CASE At_pc("yield", 2)
  <2>1. cpu' = [cpu EXCEPT !.A = StatusBit(PAt(s, 1)), !.P.m8 = TRUE, !.pc = <<"yield", 3>>] /\ Pop(1)
    BY <1>9 DEF Yield, At_pc
  <2>2. Called(Drop(s, 1), <<"after_call", t>>) /\ Tells(StatusBit(PAt(s, 1)), m)
    <3>1. cpu.pc = <<"yield", 2>> /\ \A k \in {0, 1, 3, 4, 5} : k # 2
      BY <1>9 DEF At_pc
    <3> QED
      BY <1>3, <3>1 DEF InYield
  <2> PICK r : r = Drop(s, 1)
    OBVIOUS
  <2>3. IsStack(r) /\ Len(r) <= TaskUsable
    <3>1. Len(s) >= 1
      BY <1>1, <2>2 DEF Called, BodyStack, Drop
    <3> QED
      BY <1>1, <3>1, DropStack
  <2>4. stack' = [stack EXCEPT ![t] = r]
    BY <1>1, <2>1 DEF Pop, Top
  <2>5. /\ IsCpu(cpu') /\ cpu'.pc = <<"yield", 3>> /\ (cpu'.P.i <=> cpu.P.i) /\ cpu'.dom = cpu.dom
        /\ cpu'.D = cpu.D /\ cpu'.A = StatusBit(PAt(s, 1))
    <3>1. PICK p : p = [cpu.P EXCEPT !.m8 = TRUE]
      OBVIOUS
    <3>2. p \in [i : BOOLEAN, m8 : BOOLEAN, x8 : BOOLEAN] /\ (p.i <=> cpu.P.i)
      BY <1>4, <3>1
    <3>3. cpu' = [cpu EXCEPT !.A = StatusBit(PAt(s, 1)), !.P = p, !.pc = <<"yield", 3>>]
      BY <2>1, <3>1
    <3> QED
      BY <1>1, <3>2, <3>3 DEF IsCpu
  <2>6. 3 \in {0, 1, 3, 4, 5} /\ 3 # 1 /\ ~(3 \in {4, 5})
    OBVIOUS
  <2>7. Called(r, <<"after_call", t>>) /\ Tells(cpu'.A, m)
    BY <2>2, <2>5
  <2> QED
    BY <1>6, <2>3, <2>4, <2>5, <2>6, <2>7
<1>10. CASE At_pc("yield", 3)
  <2>1. /\ IF cpu.A = Flag(TRUE) THEN Goto("terminal", 0)
           ELSE cpu' = [cpu EXCEPT !.A = Junk, !.P.m8 = FALSE, !.pc = <<"yield", 4>>]
        /\ UNCHANGED stack
    <3>1. IF cpu.A = Flag(TRUE) \/ Kind(cpu.D) # "task" THEN Goto("terminal", 0)
          ELSE cpu' = [cpu EXCEPT !.A = Junk, !.P.m8 = FALSE, !.pc = <<"yield", 4>>]
      <4>1. /\ cpu.pc = <<"yield", 3>> /\ 3 # 0 /\ 3 # 1 /\ 3 # 2 /\ 3 # 5
        BY <1>10 DEF At_pc
      <4>2. /\ ~At_pc("yield", 0) /\ ~At_pc("yield", 1) /\ ~At_pc("yield", 2) /\ ~At_pc("yield", 5)
        BY <4>1 DEF At_pc
      <4> QED
        BY <4>2, Zenon DEF Yield
    <3>2. UNCHANGED stack
      BY <1>10 DEF Yield, At_pc
    <3> QED
      BY <1>1, <3>1, <3>2
  <2>2. Called(s, <<"after_call", t>>) /\ Tells(cpu.A, m)
    BY <1>5, <1>10 DEF At_pc
  <2>3. CASE cpu.A = Flag(TRUE)
    <3>1. IsCpu(cpu') /\ cpu'.pc = <<"terminal", 0>> /\ cpu'.P = cpu.P /\ cpu'.dom = cpu.dom /\ cpu'.D = cpu.D
      BY <1>1, <2>1, <2>3 DEF IsCpu, Goto
    <3>2. InTaskCode(t, cpu', s, m)
      BY <1>1, <1>4, <3>1 DEF InTaskCode
    <3> QED
      BY <1>1, <2>1, <3>1, <3>2, TaskStep
  <2>4. CASE cpu.A # Flag(TRUE)
    <3>1. ~cpu.P.i
      BY <1>4, <2>2, <2>4 DEF Tells
    <3>2. /\ IsCpu(cpu') /\ cpu'.pc = <<"yield", 4>> /\ (cpu'.P.i <=> cpu.P.i) /\ cpu'.dom = cpu.dom
          /\ cpu'.D = cpu.D
      <4>1. PICK p : p = [cpu.P EXCEPT !.m8 = FALSE]
        OBVIOUS
      <4>2. p \in [i : BOOLEAN, m8 : BOOLEAN, x8 : BOOLEAN] /\ (p.i <=> cpu.P.i)
        BY <1>4, <4>1
      <4>3. cpu' = [cpu EXCEPT !.A = Junk, !.P = p, !.pc = <<"yield", 4>>]
        BY <2>1, <2>4, <4>1
      <4> QED
        BY <1>1, <4>2, <4>3 DEF IsCpu
    <3> QED
      BY <1>1, <1>6, <2>1, <2>2, <3>1, <3>2
  <2> QED
    BY <2>3, <2>4
<1>11. CASE At_pc("yield", 5)
  <2>1. Rtl
    BY <1>11 DEF Yield, At_pc
  <2>2. Called(s, <<"after_call", t>>) /\ ~cpu.P.i
    BY <1>5, <1>11 DEF At_pc
  <2>3. After(WordAt(s, 1)) = <<"after_call", t>> /\ IsStack(Drop(s, 3)) /\ Len(Drop(s, 3)) = Len(s) - 3
        /\ BodyStack(Drop(Drop(s, 3), 1))
    BY <1>1, <2>2, CalledFacts
  <2> PICK r : r = Drop(s, 3)
    OBVIOUS
  <2>4. IsCpu(cpu') /\ cpu'.pc = <<"after_call", t>> /\ cpu'.P = cpu.P /\ cpu'.dom = cpu.dom /\ cpu'.D = cpu.D
    BY <1>1, <2>1, <2>3 DEF Rtl, IsCpu
  <2>5. stack' = [stack EXCEPT ![t] = r]
    BY <1>1, <2>1 DEF Rtl, Pop, Top
  <2>6. InYield(t, cpu', r, m)
    BY <1>4, <2>3, <2>4 DEF InYield
  <2>7. InTaskCode(t, cpu', r, m)
    BY <1>1, <2>3, <2>4, <2>6 DEF InTaskCode
  <2> QED
    BY <2>3, <2>4, <2>5, <2>7, TaskStep
<1> QED
  BY <1>7, <1>8, <1>9, <1>10, <1>11 DEF Yield

(* The bootstrap may not yield: it is stopped at the terminal entry. *)
LEMMA BootYieldSteps ==
  ASSUME Inv, Working(cpu, stack), current \notin Task, Yield, Quiet
  PROVE  Inv'
<1> PICK s : s = Top
  OBVIOUS
<1>1. /\ IsCpu(cpu) /\ cpu.dom = Boot /\ cpu.D = Page(Boot) /\ Kind(cpu.D) = "boot"
      /\ IsStack(s) /\ InBootCode(cpu, s) /\ current = None
      /\ stack' = stack => stack' = [stack EXCEPT ![Boot] = s]
  BY BootFacts
<1>2. ASSUME NEW k \in {0, 1, 3, 5}, cpu.pc = <<"yield", k>>
      PROVE  Len(s) = 4 /\ k # 5
  <2>1. k # 2
    OBVIOUS
  <2> QED
    BY <1>1, <1>2, <2>1 DEF InBootCode
<1>3. CASE At_pc("yield", 0)
  <2>1. CheckStack(1, "yield", 1)
    BY <1>3 DEF Yield, At_pc
  <2>2. Inv' \/ /\ IsCpu(cpu') /\ cpu'.pc = <<"yield", 1>> /\ cpu'.P = cpu.P /\ cpu'.dom = cpu.dom
                /\ cpu'.D = cpu.D /\ stack' = [stack EXCEPT ![Boot] = s]
    BY <1>1, <2>1, CheckedStep
  <2>3. Len(s) = 4
    BY <1>2, <1>3 DEF At_pc
  <2>4. CASE ~Inv'
    <3>1. InBootCode(cpu', s)
      BY <1>1, <2>2, <2>3, <2>4 DEF InBootCode
    <3> QED
      BY <1>1, <2>2, <2>4, <3>1, BootStep
  <2> QED
    BY <2>4
<1>4. CASE At_pc("yield", 1)
  <2>1. Push(PByte(cpu.P)) /\ Goto("yield", 2)
    BY <1>4 DEF Yield, At_pc
  <2>2. Len(s) = 4
    BY <1>2, <1>4 DEF At_pc
  <2> PICK p : p = cpu.P
    OBVIOUS
  <2> PICK r : r = s \o PByte(p)
    OBVIOUS
  <2>3. IsStack(r) /\ Len(r) = 5
    <3>1. IsStack(r) /\ Len(r) = Len(s) + 1
      BY <1>1, PushP
    <3>2. PICK n : n = Len(r)
      OBVIOUS
    <3>3. n = 5
      BY <2>2, <3>1, <3>2
    <3> QED
      BY <3>1, <3>2, <3>3
  <2>4. IsCpu(cpu') /\ cpu'.pc = <<"yield", 2>> /\ cpu'.dom = cpu.dom /\ cpu'.D = cpu.D
    BY <1>1, <2>1 DEF Goto, IsCpu
  <2>5. stack' = [stack EXCEPT ![Boot] = r]
    BY <1>1, <2>1 DEF Push, Top
  <2>6. InBootCode(cpu', r)
    BY <1>1, <2>3, <2>4 DEF InBootCode
  <2> QED
    BY <1>1, <2>3, <2>4, <2>5, <2>6, BootStep
<1>5. CASE At_pc("yield", 2)
  <2>1. cpu' = [cpu EXCEPT !.A = StatusBit(PAt(s, 1)), !.P.m8 = TRUE, !.pc = <<"yield", 3>>] /\ Pop(1)
    BY <1>5 DEF Yield, At_pc
  <2>2. Len(s) = 5
    <3>1. cpu.pc = <<"yield", 2>> /\ \A k \in {0, 1, 3} : k # 2
      BY <1>5 DEF At_pc
    <3> QED
      BY <1>1, <3>1 DEF InBootCode
  <2> PICK r : r = Drop(s, 1)
    OBVIOUS
  <2>3. IsStack(r) /\ Len(r) = 4
    <3>1. Len(s) \in Nat /\ 1 <= Len(s)
      BY <2>2
    <3>2. IsStack(r) /\ Len(r) = Len(s) - 1
      BY <1>1, <3>1, DropStack
    <3>3. PICK n : n = Len(r)
      OBVIOUS
    <3>4. n = 4
      BY <2>2, <3>2, <3>3
    <3> QED
      BY <3>2, <3>3, <3>4
  <2>4. stack' = [stack EXCEPT ![Boot] = r]
    BY <1>1, <2>1 DEF Pop, Top
  <2>5. IsCpu(cpu') /\ cpu'.pc = <<"yield", 3>> /\ cpu'.dom = cpu.dom /\ cpu'.D = cpu.D
    <3>1. PICK p : p = [cpu.P EXCEPT !.m8 = TRUE]
      OBVIOUS
    <3>2. p \in [i : BOOLEAN, m8 : BOOLEAN, x8 : BOOLEAN]
      BY <1>1, <3>1 DEF IsCpu
    <3>3. cpu' = [cpu EXCEPT !.A = StatusBit(PAt(s, 1)), !.P = p, !.pc = <<"yield", 3>>]
      BY <2>1, <3>1
    <3> QED
      BY <1>1, <3>2, <3>3 DEF IsCpu
  <2>6. InBootCode(cpu', r)
    BY <1>1, <2>3, <2>5 DEF InBootCode
  <2> QED
    BY <1>1, <2>3, <2>4, <2>5, <2>6, BootStep
<1>6. CASE At_pc("yield", 3)
  <2>1. Goto("terminal", 0) /\ UNCHANGED stack
    <3>1. /\ cpu.pc = <<"yield", 3>> /\ 3 # 0 /\ 3 # 1 /\ 3 # 2 /\ 3 # 5
      BY <1>6 DEF At_pc
    <3>2. /\ ~At_pc("yield", 0) /\ ~At_pc("yield", 1) /\ ~At_pc("yield", 2) /\ ~At_pc("yield", 5)
      BY <3>1 DEF At_pc
    <3>3. Kind(cpu.D) # "task"
      BY <1>1
    <3> QED
      BY <3>2, <3>3, Zenon DEF Yield
  <2>2. Len(s) = 4
    BY <1>2, <1>6 DEF At_pc
  <2>3. IsCpu(cpu') /\ cpu'.pc = <<"terminal", 0>> /\ cpu'.dom = cpu.dom /\ cpu'.D = cpu.D
    BY <1>1, <2>1 DEF IsCpu, Goto
  <2>4. InBootCode(cpu', s)
    BY <1>1, <2>2, <2>3 DEF InBootCode
  <2> QED
    BY <1>1, <2>1, <2>3, <2>4, BootStep
<1>7. ~At_pc("yield", 5)
  BY <1>2 DEF At_pc
<1> QED
  BY <1>3, <1>4, <1>5, <1>6, <1>7 DEF Yield

-----------------------------------------------------------------------------
(* __a816_irq_save_disable_v2 and __a816_irq_restore_v2. *)
LEMMA SaveDisableSteps ==
  ASSUME Inv, Working(cpu, stack), current \in Task, SaveDisable, Quiet
  PROVE  Inv'
<1> PICK t, m, s : t = current /\ m = Mode(current) /\ s = Top
  OBVIOUS
<1>1. /\ t \in Task /\ IsCpu(cpu) /\ cpu.dom = t /\ cpu.D = Page(t)
      /\ IsStack(s) /\ Len(s) \in Nat /\ Len(s) <= TaskUsable /\ TaskUsable \in Nat
      /\ stack' = stack => stack' = [stack EXCEPT ![t] = s]
      /\ InTaskCode(t, cpu, s, m) /\ cpu.P \in [i : BOOLEAN, m8 : BOOLEAN, x8 : BOOLEAN]
  BY TaskFacts, DomainFacts DEF IsCpu
<1>2. cpu.pc[1] = "save"
  <2>1. At_pc("save", 0) \/ At_pc("save", 1) \/ At_pc("save", 2) \/ At_pc("save", 3) \/ At_pc("save", 4)
    BY DEF SaveDisable
  <2> QED
    BY <2>1 DEF At_pc
<1>3. InSave(t, cpu, s, m)
  BY <1>1, <1>2, TaskPc
<1>4. ASSUME NEW r, IsStack(r), Len(r) <= TaskUsable, IsCpu(cpu'), cpu'.dom = cpu.dom, cpu'.D = cpu.D,
             stack' = [stack EXCEPT ![t] = r], InSave(t, cpu', r, m)
      PROVE  Inv'
  <2>1. InTaskCode(t, cpu', r, m)
    BY <1>1, <1>4 DEF InTaskCode
  <2> QED
    BY <1>4, <2>1, TaskStep
<1>5. CASE At_pc("save", 0)
  <2>1. CheckStack(1, "save", 1)
    BY <1>5 DEF SaveDisable, At_pc
  <2>2. Called(s, <<"after_save", t>>) /\ (cpu.P.i <=> Holds(m))
    BY <1>3, <1>5 DEF At_pc, InSave
  <2>3. Inv' \/ /\ IsCpu(cpu') /\ cpu'.pc = <<"save", 1>> /\ cpu'.P = cpu.P /\ cpu'.dom = cpu.dom /\ cpu'.D = cpu.D
                /\ stack' = [stack EXCEPT ![t] = s] /\ Len(s) + 1 <= TaskUsable
    BY <1>1, <2>1, CheckedStep
  <2>4. CASE ~Inv'
    <3>1. Len(s) < TaskUsable
      BY <1>1, <2>3, <2>4
    <3>2. InSave(t, cpu', s, m)
      BY <2>2, <2>3, <2>4, <3>1 DEF InSave
    <3> QED
      BY <1>1, <1>4, <2>3, <2>4, <3>2
  <2> QED
    BY <2>4
<1>6. CASE At_pc("save", 1)
  <2>1. Push(PByte(cpu.P)) /\ Goto("save", 2)
    BY <1>6 DEF SaveDisable, At_pc
  <2>2. Called(s, <<"after_save", t>>) /\ (cpu.P.i <=> Holds(m)) /\ Len(s) < TaskUsable
    BY <1>3, <1>6 DEF At_pc, InSave
  <2> PICK p : p = cpu.P
    OBVIOUS
  <2> PICK r : r = s \o PByte(p)
    OBVIOUS
  <2>3. IsStack(r) /\ Len(r) = Len(s) + 1 /\ Drop(r, 1) = s /\ PAt(r, 1) = p
    BY <1>1, PushP
  <2>4. IsCpu(cpu') /\ cpu'.pc = <<"save", 2>> /\ cpu'.P = cpu.P /\ cpu'.dom = cpu.dom /\ cpu'.D = cpu.D
    BY <1>1, <2>1 DEF Goto, IsCpu
  <2>5. stack' = [stack EXCEPT ![t] = r]
    BY <1>1, <2>1 DEF Push, Top
  <2>6. InSave(t, cpu', r, m)
    <3>1. Tells(StatusBit(p), m)
      BY <1>1, <2>2, TellsI
    <3> QED
      BY <2>2, <2>3, <2>4, <3>1 DEF InSave
  <2>7. Len(r) <= TaskUsable
    BY <1>1, <2>2, <2>3
  <2> QED
    BY <1>4, <2>3, <2>4, <2>5, <2>6, <2>7
<1>7. CASE At_pc("save", 2)
  <2>1. cpu' = [cpu EXCEPT !.P.i = TRUE, !.pc = <<"save", 3>>] /\ UNCHANGED stack
    BY <1>7 DEF SaveDisable, At_pc
  <2>2. Called(Drop(s, 1), <<"after_save", t>>) /\ Tells(StatusBit(PAt(s, 1)), m)
    BY <1>3, <1>7 DEF At_pc, InSave
  <2>3. IsCpu(cpu') /\ cpu'.pc = <<"save", 3>> /\ cpu'.P.i /\ cpu'.dom = cpu.dom /\ cpu'.D = cpu.D
    <3>1. PICK p : p = [cpu.P EXCEPT !.i = TRUE]
      OBVIOUS
    <3>2. p \in [i : BOOLEAN, m8 : BOOLEAN, x8 : BOOLEAN] /\ p.i
      BY <1>1, <3>1
    <3>3. cpu' = [cpu EXCEPT !.P = p, !.pc = <<"save", 3>>]
      BY <2>1, <3>1
    <3> QED
      BY <1>1, <3>2, <3>3 DEF IsCpu
  <2>4. InSave(t, cpu', s, m)
    BY <2>2, <2>3 DEF InSave
  <2> QED
    BY <1>1, <1>4, <2>1, <2>3, <2>4
<1>8. CASE At_pc("save", 3)
  <2>1. cpu' = [cpu EXCEPT !.A = StatusBit(PAt(s, 1)), !.pc = <<"save", 4>>] /\ Pop(1)
    BY <1>8 DEF SaveDisable, At_pc
  <2>2. Called(Drop(s, 1), <<"after_save", t>>) /\ Tells(StatusBit(PAt(s, 1)), m) /\ cpu.P.i
    BY <1>3, <1>8 DEF At_pc, InSave
  <2> PICK r : r = Drop(s, 1)
    OBVIOUS
  <2>3. IsStack(r) /\ Len(r) <= TaskUsable
    <3>1. Len(s) >= 1
      BY <1>1, <2>2 DEF Called, BodyStack, Drop
    <3> QED
      BY <1>1, <3>1, DropStack
  <2>4. stack' = [stack EXCEPT ![t] = r]
    BY <1>1, <2>1 DEF Pop, Top
  <2>5. IsCpu(cpu') /\ cpu'.pc = <<"save", 4>> /\ cpu'.P = cpu.P /\ cpu'.dom = cpu.dom
        /\ cpu'.D = cpu.D /\ cpu'.A = StatusBit(PAt(s, 1))
    BY <1>1, <2>1 DEF IsCpu
  <2>6. InSave(t, cpu', r, m)
    BY <2>2, <2>5 DEF InSave
  <2> QED
    BY <1>4, <2>3, <2>4, <2>5, <2>6
<1>9. CASE At_pc("save", 4)
  <2>1. Rtl
    BY <1>9 DEF SaveDisable, At_pc
  <2>2. Called(s, <<"after_save", t>>) /\ cpu.P.i /\ Tells(cpu.A, m)
    BY <1>3, <1>9 DEF At_pc, InSave
  <2>3. After(WordAt(s, 1)) = <<"after_save", t>> /\ IsStack(Drop(s, 3)) /\ Len(Drop(s, 3)) = Len(s) - 3
        /\ BodyStack(Drop(Drop(s, 3), 1))
    BY <1>1, <2>2, CalledFacts
  <2> PICK r : r = Drop(s, 3)
    OBVIOUS
  <2>4. IsCpu(cpu') /\ cpu'.pc = <<"after_save", t>> /\ cpu'.P = cpu.P /\ cpu'.dom = cpu.dom
        /\ cpu'.D = cpu.D /\ cpu'.A = cpu.A
    BY <1>1, <2>1, <2>3 DEF Rtl, IsCpu
  <2>5. stack' = [stack EXCEPT ![t] = r]
    BY <1>1, <2>1 DEF Rtl, Pop, Top
  <2>6. InSave(t, cpu', r, m)
    BY <2>2, <2>3, <2>4 DEF InSave
  <2>7. Len(r) <= TaskUsable
    BY <1>1, <2>3
  <2> QED
    BY <1>4, <2>3, <2>4, <2>5, <2>6, <2>7
<1> QED
  BY <1>5, <1>6, <1>7, <1>8, <1>9 DEF SaveDisable

LEMMA RestoreIrqSteps ==
  ASSUME Inv, Working(cpu, stack), current \in Task, RestoreIrq, Quiet
  PROVE  Inv'
<1> PICK t, m, s : t = current /\ m = Mode(current) /\ s = Top
  OBVIOUS
<1>1. /\ t \in Task /\ IsCpu(cpu) /\ cpu.dom = t /\ cpu.D = Page(t)
      /\ IsStack(s) /\ Len(s) \in Nat /\ Len(s) <= TaskUsable /\ TaskUsable \in Nat
      /\ stack' = stack => stack' = [stack EXCEPT ![t] = s]
      /\ InTaskCode(t, cpu, s, m) /\ cpu.P \in [i : BOOLEAN, m8 : BOOLEAN, x8 : BOOLEAN]
  BY TaskFacts, DomainFacts DEF IsCpu
<1>2. cpu.pc[1] = "restore_irq"
  BY DEF RestoreIrq, At_pc
<1>3. InRestoreIrq(t, cpu, s, m)
  BY <1>1, <1>2, TaskPc
<1>4. CASE At_pc("restore_irq", 0)
  <2>1. cpu' = [cpu EXCEPT !.A = Junk, !.P.i = TokenMasks(s), !.pc = <<"restore_irq", 1>>] /\ UNCHANGED stack
    BY <1>4 DEF RestoreIrq, At_pc
  <2>2. Called(s, <<"after_call", t>>) /\ Tells(ByteAt(s, 4), m)
    BY <1>3, <1>4 DEF At_pc, InRestoreIrq
  <2>3. TokenMasks(s) \in BOOLEAN /\ (TokenMasks(s) <=> Holds(m))
    BY <2>2 DEF TokenMasks, Tells
  <2>4. IsCpu(cpu') /\ cpu'.pc = <<"restore_irq", 1>> /\ (cpu'.P.i <=> Holds(m)) /\ cpu'.dom = cpu.dom
        /\ cpu'.D = cpu.D
    <3>1. PICK b \in BOOLEAN : b = TokenMasks(s)
      BY <2>3
    <3>2. PICK p : p = [cpu.P EXCEPT !.i = b]
      OBVIOUS
    <3>3. p \in [i : BOOLEAN, m8 : BOOLEAN, x8 : BOOLEAN] /\ p.i = b
      BY <1>1, <3>2
    <3>4. cpu' = [cpu EXCEPT !.A = Junk, !.P = p, !.pc = <<"restore_irq", 1>>]
      BY <2>1, <3>1, <3>2
    <3>5. IsCpu(cpu') /\ cpu'.pc = <<"restore_irq", 1>> /\ cpu'.P = p /\ cpu'.dom = cpu.dom
        /\ cpu'.D = cpu.D
      BY <1>1, <3>3, <3>4 DEF IsCpu
    <3> QED
      BY <2>3, <3>1, <3>3, <3>5
  <2>5. InTaskCode(t, cpu', s, m)
    BY <1>1, <2>2, <2>4 DEF InTaskCode, InRestoreIrq
  <2> QED
    BY <1>1, <2>1, <2>4, <2>5, TaskStep
<1>5. CASE At_pc("restore_irq", 1)
  <2>1. Rtl
    BY <1>5 DEF RestoreIrq, At_pc
  <2>2. Called(s, <<"after_call", t>>) /\ (cpu.P.i <=> Holds(m))
    BY <1>3, <1>5 DEF At_pc, InRestoreIrq
  <2>3. After(WordAt(s, 1)) = <<"after_call", t>> /\ IsStack(Drop(s, 3)) /\ Len(Drop(s, 3)) = Len(s) - 3
        /\ BodyStack(Drop(Drop(s, 3), 1))
    BY <1>1, <2>2, CalledFacts
  <2> PICK r : r = Drop(s, 3)
    OBVIOUS
  <2>4. IsCpu(cpu') /\ cpu'.pc = <<"after_call", t>> /\ cpu'.P = cpu.P /\ cpu'.dom = cpu.dom /\ cpu'.D = cpu.D
    BY <1>1, <2>1, <2>3 DEF Rtl, IsCpu
  <2>5. stack' = [stack EXCEPT ![t] = r]
    BY <1>1, <2>1 DEF Rtl, Pop, Top
  <2>6. InYield(t, cpu', r, m)
    BY <2>2, <2>3, <2>4 DEF InYield
  <2>7. InTaskCode(t, cpu', r, m)
    BY <1>1, <2>3, <2>4, <2>6 DEF InTaskCode
  <2> QED
    BY <2>3, <2>4, <2>5, <2>7, TaskStep
<1> QED
  BY <1>4, <1>5 DEF RestoreIrq

-----------------------------------------------------------------------------
(* __a816_task_return_v2 and the exit binding. *)
LEMMA ReturnSteps ==
  ASSUME Inv, Working(cpu, stack), current \in Task, TaskReturn \/ ExitReturns, Quiet
  PROVE  Inv'
<1> PICK t, m, s : t = current /\ m = Mode(current) /\ s = Top
  OBVIOUS
<1>1. /\ t \in Task /\ IsCpu(cpu) /\ cpu.dom = t /\ cpu.D = Page(t)
      /\ IsStack(s) /\ Len(s) \in Nat /\ Len(s) <= TaskUsable /\ TaskUsable \in Nat /\ TaskUsable >= 6
      /\ stack' = stack => stack' = [stack EXCEPT ![t] = s]
      /\ InTaskCode(t, cpu, s, m)
  BY TaskFacts, DomainFacts
<1>2. cpu.pc[1] \in {"task_return", "A816_TASK_EXIT"}
  <2>1. \/ At_pc("task_return", 0) \/ At_pc("task_return", 1) \/ At_pc("task_return", 2)
        \/ At_pc("task_return", 3) \/ At_pc("task_return", 4) \/ At_pc("A816_TASK_EXIT", 0)
    BY DEF TaskReturn, ExitReturns
  <2> QED
    BY <2>1 DEF At_pc
<1>3. InReturn(cpu, s, m) /\ m.tokens = <<>> /\ (cpu.P.i <=> Holds(m))
  <2>1. InReturn(cpu, s, m)
    BY <1>1, <1>2, TaskPc
  <2> QED
    BY <2>1 DEF InReturn
<1>4. ASSUME NEW r, IsStack(r), Len(r) <= 6, IsCpu(cpu'), cpu'.P = cpu.P, cpu'.dom = cpu.dom, cpu'.D = cpu.D,
             stack' = [stack EXCEPT ![t] = r], InReturn(cpu', r, m) \/ cpu'.pc = <<"terminal", 0>>
      PROVE  Inv'
  <2>1. Len(r) <= TaskUsable
    <3>1. PICK n : n = Len(r)
      OBVIOUS
    <3>2. n \in Nat /\ n <= 6
      BY <1>4, <3>1, StackFacts
    <3>3. n <= TaskUsable
      BY <1>1, <3>2
    <3> QED
      BY <3>1, <3>3
  <2>2. InTaskCode(t, cpu', r, m)
    BY <1>1, <1>3, <1>4, <2>1 DEF InTaskCode
  <2> QED
    BY <1>4, <2>2, TaskStep
<1>5. CASE At_pc("task_return", 0) /\ TaskReturn
  <2>1. Pop(3) /\ Goto("task_return", 1)
    BY <1>5 DEF TaskReturn, At_pc, FirstTaskOutgoing
  <2>2. s = Argument
    BY <1>3, <1>5 DEF At_pc, InReturn
  <2>3. IsStack(<<>>) /\ Len(<<>>) <= 6 /\ Drop(s, 3) = <<>>
    <3>1. IsStack(s) /\ Len(s) = 3
      BY <1>1, <2>2, ArgumentFacts
    <3>2. IsStack(<<>>) /\ Len(<<>>) <= 6
      BY Pieces
    <3> QED
      BY <3>1, <3>2, DropAll
  <2>4. stack' = [stack EXCEPT ![t] = <<>>]
    BY <1>1, <2>1, <2>3 DEF Pop, Top
  <2>5. IsCpu(cpu') /\ cpu'.pc = <<"task_return", 1>> /\ cpu'.P = cpu.P /\ cpu'.dom = cpu.dom /\ cpu'.D = cpu.D
    BY <1>1, <2>1 DEF Goto, IsCpu
  <2>6. InReturn(cpu', <<>>, m)
    BY <1>3, <2>5 DEF InReturn
  <2> QED
    BY <1>4, <2>3, <2>4, <2>5, <2>6
<1>6. CASE At_pc("task_return", 1) /\ TaskReturn
  <2>1. CheckStack(4, "task_return", 2)
    BY <1>6 DEF TaskReturn, At_pc
  <2>2. s = <<>> /\ Len(s) <= 6
    <3>1. s = <<>>
      BY <1>3, <1>6 DEF At_pc, InReturn
    <3> QED
      BY <3>1
  <2>3. Inv' \/ /\ IsCpu(cpu') /\ cpu'.pc = <<"task_return", 2>> /\ cpu'.P = cpu.P /\ cpu'.dom = cpu.dom
                /\ cpu'.D = cpu.D /\ stack' = [stack EXCEPT ![t] = s]
    BY <1>1, <2>1, CheckedStep
  <2>4. CASE ~Inv'
    <3>1. InReturn(cpu', s, m)
      BY <1>3, <2>2, <2>3, <2>4 DEF InReturn
    <3> QED
      BY <1>1, <1>4, <2>2, <2>3, <2>4, <3>1
  <2> QED
    BY <2>4
<1>7. CASE At_pc("task_return", 2) /\ TaskReturn
  <2>1. Push(Byte(Zero)) /\ Goto("task_return", 3)
    BY <1>7 DEF TaskReturn, At_pc
  <2>2. s = <<>>
    BY <1>3, <1>7 DEF At_pc, InReturn
  <2>3. IsStack(Byte(Zero)) /\ Len(Byte(Zero)) <= 6 /\ <<>> \o Byte(Zero) = Byte(Zero)
    <3>1. IsStack(Byte(Zero)) /\ Len(Byte(Zero)) = 1 /\ <<>> \o Byte(Zero) = Byte(Zero)
      BY Pieces
    <3> QED
      BY <3>1
  <2>4. stack' = [stack EXCEPT ![t] = Byte(Zero)]
    BY <1>1, <2>1, <2>2, <2>3 DEF Push, Top
  <2>5. IsCpu(cpu') /\ cpu'.pc = <<"task_return", 3>> /\ cpu'.P = cpu.P /\ cpu'.dom = cpu.dom /\ cpu'.D = cpu.D
    BY <1>1, <2>1 DEF Goto, IsCpu
  <2>6. InReturn(cpu', Byte(Zero), m)
    BY <1>3, <2>5 DEF InReturn
  <2> QED
    BY <1>4, <2>3, <2>4, <2>5, <2>6
<1>8. CASE At_pc("task_return", 3) /\ TaskReturn
  <2> PICK pc : pc = <<"task_return", 4>>
    OBVIOUS
  <2>1. Push(ReturnAddress(pc)) /\ Goto("A816_TASK_EXIT", 0)
    BY <1>8 DEF TaskReturn, At_pc
  <2>2. s = Byte(Zero)
    BY <1>3, <1>8 DEF At_pc, InReturn
  <2> PICK r : r = s \o ReturnAddress(pc)
    OBVIOUS
  <2>3. IsStack(r) /\ Len(r) <= 6
    <3>1. IsStack(r) /\ Len(r) = Len(s) + 3 /\ Len(s) = 1
      BY <1>1, <2>2, PushReturn, Pieces
    <3> QED
      BY <3>1
  <2>4. stack' = [stack EXCEPT ![t] = r]
    BY <1>1, <2>1 DEF Push, Top
  <2>5. IsCpu(cpu') /\ cpu'.pc = <<"A816_TASK_EXIT", 0>> /\ cpu'.P = cpu.P /\ cpu'.dom = cpu.dom /\ cpu'.D = cpu.D
    BY <1>1, <2>1 DEF Goto, IsCpu
  <2>6. InReturn(cpu', r, m)
    BY <1>3, <2>2, <2>5 DEF InReturn
  <2> QED
    BY <1>4, <2>3, <2>4, <2>5, <2>6
<1>9. CASE At_pc("task_return", 4) /\ TaskReturn
  <2>1. Goto("terminal", 0) /\ UNCHANGED stack
    BY <1>9 DEF TaskReturn, At_pc
  <2>2. IsCpu(cpu') /\ cpu'.pc = <<"terminal", 0>> /\ cpu'.P = cpu.P /\ cpu'.dom = cpu.dom /\ cpu'.D = cpu.D
    BY <1>1, <2>1 DEF Goto, IsCpu
  <2>3. Len(s) <= 6
    <3>1. s = Byte(Zero)
      BY <1>3, <1>9 DEF At_pc, InReturn
    <3>2. Len(Byte(Zero)) = 1
      BY Pieces
    <3> QED
      BY <3>1, <3>2
  <2> QED
    BY <1>1, <1>4, <2>1, <2>2, <2>3
<1>10. CASE At_pc("A816_TASK_EXIT", 0) /\ ExitReturns
  <2> PICK pc : pc = <<"task_return", 4>>
    OBVIOUS
  <2> PICK r : r = Byte(Zero)
    OBVIOUS
  <2>1. Rtl
    BY <1>10 DEF ExitReturns
  <2>2. s = r \o ReturnAddress(pc)
    BY <1>3, <1>10 DEF At_pc, InReturn
  <2>3. IsStack(r) /\ Len(r) = 1
    BY Pieces
  <2>4. WordAt(s, 1) = Before(pc) /\ Drop(s, 3) = r
    BY <2>2, <2>3, PushReturn
  <2>5. After(WordAt(s, 1)) = pc
    BY <2>4 DEF After, Before
  <2>6. IsCpu(cpu') /\ cpu'.pc = <<"task_return", 4>> /\ cpu'.P = cpu.P /\ cpu'.dom = cpu.dom /\ cpu'.D = cpu.D
    BY <1>1, <2>1, <2>5 DEF Rtl, IsCpu
  <2>7. stack' = [stack EXCEPT ![t] = r]
    BY <1>1, <2>1, <2>4 DEF Rtl, Pop, Top
  <2>8. InReturn(cpu', r, m)
    BY <1>3, <2>6 DEF InReturn
  <2>9. Len(r) <= 6
    BY <2>3
  <2> QED
    BY <1>4, <2>3, <2>6, <2>7, <2>8, <2>9
<1> QED
  BY <1>5, <1>6, <1>7, <1>8, <1>9, <1>10 DEF TaskReturn, ExitReturns

(* Another task is chosen, by the exit binding or by the bootstrap.        *)
LEMMA Chooses ==
  ASSUME Inv, Working(cpu, stack), NEW t \in Task, t # current, saved[t] # Junk,
         UNCHANGED <<stack, scratch, programs, shadow>>, current' = t, IsCpu(cpu'),
         cpu'.A = saved[t], cpu'.P.i, cpu'.pc = <<"restore", 0>>,
         \/ current = None /\ saved' = saved
         \/ current \in Task /\ tokens[current] = <<>> /\ saved' = [saved EXCEPT ![current] = Junk]
  PROVE  Inv'
<1>1. /\ Grounds(cpu, stack) /\ Typed(cpu, stack) /\ None \notin Task
      /\ saved = [u \in Task |-> saved[u]]
  BY LiveKeeps, DomainFacts DEF Typed
<1>2. /\ tokens' = tokens /\ masked' = masked /\ scratch' = scratch /\ shadow' = shadow /\ stack' = stack
      /\ \A u : Mode(u)' = Mode(u)
  BY DEF programs, Mode
<1>3. \A u \in Task : u # current => saved'[u] = saved[u] /\ Suspended(u, stack)
  BY <1>1 DEF Grounds
<1>4. \A u \in Task : Suspended(u, stack)'
  <2> SUFFICES ASSUME NEW u \in Task PROVE Suspended(u, stack)'
    OBVIOUS
  <2>1. CASE u = current
    <3>1. tokens[u] = <<>> /\ saved'[u] = Junk
      BY <1>1, <2>1
    <3> QED
      BY <1>2, <3>1 DEF Suspended
  <2>2. CASE u # current
    BY <1>2, <1>3, <2>2 DEF Suspended, Resumable
  <2> QED
    BY <2>1, <2>2
<1>5. Typed(cpu, stack)'
  <2>1. saved' = [u \in Task |-> saved'[u]]
    BY <1>1
  <2>2. TokensOK'
    BY <1>1, <1>2 DEF Typed, TokensOK
  <2> QED
    BY <1>1, <1>2, <2>1, <2>2 DEF Typed
<1>6. ScratchIsolated'
  BY <1>1, <1>2 DEF Grounds, ScratchIsolated
<1>7. Chosen(cpu, stack)'
  BY <1>3, <1>4 DEF Chosen
<1> QED
  BY <1>4, <1>5, <1>6, <1>7 DEF Inv, BridgeInv, Grounds, Phase

LEMMA ExitStep ==
  ASSUME Inv, Working(cpu, stack), NEW t \in Task, TaskExit(t)
  PROVE  Inv'
<1>1. cpu.pc = <<"A816_TASK_EXIT", 0>>
  BY DEF TaskExit, At_pc
<1>2. current \in Task
  BY <1>1, BootFacts DEF InBootCode
<1>3. InReturn(cpu, Top, Mode(current)) /\ IsCpu(cpu)
  BY <1>1, <1>2, TaskFacts, TaskPc
<1>4. tokens[current] = <<>>
  BY <1>3 DEF InReturn, Mode
<1>5. IsCpu(cpu') /\ cpu'.A = saved[t] /\ cpu'.P.i /\ cpu'.pc = <<"restore", 0>>
  <2>1. PICK p : p = [cpu.P EXCEPT !.i = TRUE]
    OBVIOUS
  <2>2. p \in [i : BOOLEAN, m8 : BOOLEAN, x8 : BOOLEAN] /\ p.i
    BY <1>3, <2>1 DEF IsCpu
  <2>3. cpu' = [cpu EXCEPT !.A = saved[t], !.P = p, !.pc = <<"restore", 0>>]
    BY <2>1 DEF TaskExit
  <2> QED
    BY <1>3, <2>2, <2>3 DEF IsCpu
<1>6. /\ t # current /\ saved[t] # Junk /\ UNCHANGED <<stack, scratch, programs, shadow>> /\ current' = t
      /\ saved' = [saved EXCEPT ![current] = Junk]
  BY DEF TaskExit
<1> QED
  BY <1>2, <1>4, <1>5, <1>6, Chooses

LEMMA BootStartStep ==
  ASSUME Inv, Working(cpu, stack), NEW t \in Task, BootStart(t)
  PROVE  Inv'
<1>1. cpu.pc = <<"boot", 0>>
  BY DEF BootStart, At_pc
<1>2. current \notin Task
  BY <1>1, TaskFacts, TaskPc
<1>3. current = None /\ IsCpu(cpu) /\ cpu.P.i /\ saved[t] # Junk
  <2>1. current = None /\ IsCpu(cpu) /\ InBootCode(cpu, Top)
    BY <1>2, BootFacts
  <2>2. cpu.P.i
    BY <1>1, <2>1 DEF InBootCode
  <2> QED
    BY <1>2, <2>1, <2>2 DEF Working
<1>4. IsCpu(cpu') /\ cpu'.A = saved[t] /\ cpu'.P = cpu.P /\ cpu'.pc = <<"restore", 0>>
  BY <1>3 DEF BootStart, IsCpu
<1>5. t # current /\ UNCHANGED <<stack, scratch, programs, shadow, saved>> /\ current' = t
  BY <1>2 DEF BootStart
<1> QED
  BY <1>3, <1>4, <1>5, Chooses

LEMMA BootYieldsStep ==
  ASSUME Inv, Working(cpu, stack), BootYields, Quiet
  PROVE  Inv'
<1>1. cpu.pc = <<"boot", 0>>
  BY DEF BootYields, At_pc
<1>2. current \notin Task
  BY <1>1, TaskFacts, TaskPc
<1>3. current = None /\ IsCpu(cpu) /\ cpu.dom = Boot /\ cpu.D = Page(Boot) /\ Top = <<>>
  <2>1. current = None /\ IsCpu(cpu) /\ InBootCode(cpu, Top)
    BY <1>2, BootFacts
  <2> QED
    BY <1>1, <2>1 DEF InBootCode
<1> PICK pc : pc = <<"boot", 0>>
  OBVIOUS
<1> PICK r : r = <<>> \o (Byte(Zero) \o ReturnAddress(pc))
  OBVIOUS
<1>4. IsStack(r) /\ Len(r) = 4
  <2>1. IsStack(<<>>) /\ Len(<<>>) = 0
    BY Pieces
  <2>2. IsStack(r) /\ Len(r) = Len(<<>>) + 4
    BY <2>1, PushCall
  <2> QED
    BY <2>1, <2>2
<1>5. stack' = [stack EXCEPT ![Boot] = r]
  BY <1>3 DEF BootYields, Push, Top
<1>6. PICK i \in BOOLEAN : cpu' = [cpu EXCEPT !.P.i = i, !.pc = <<"yield", 0>>]
  BY DEF BootYields
<1>7. IsCpu(cpu') /\ cpu'.pc = <<"yield", 0>> /\ cpu'.dom = Boot /\ cpu'.D = Page(Boot)
  <2>1. PICK p : p = [cpu.P EXCEPT !.i = i]
    OBVIOUS
  <2>2. p \in [i : BOOLEAN, m8 : BOOLEAN, x8 : BOOLEAN]
    BY <1>3, <2>1 DEF IsCpu
  <2>3. cpu' = [cpu EXCEPT !.P = p, !.pc = <<"yield", 0>>]
    BY <1>6, <2>1
  <2> QED
    BY <1>3, <2>2, <2>3 DEF IsCpu
<1>8. InBootCode(cpu', r)
  BY <1>4, <1>7 DEF InBootCode
<1> QED
  BY <1>3, <1>4, <1>5, <1>7, <1>8, BootStep

-----------------------------------------------------------------------------
(* The task's own code. *)
LEMMA BodyFacts ==
  ASSUME Inv, Working(cpu, stack), NEW t \in Task, cpu.pc = <<"body", t>>
  PROVE  current = t /\ BodyStack(Top) /\ (cpu.P.i <=> Holds(Mode(t)))
<1>1. cpu.pc[1] = "body" /\ cpu.pc[2] = t
  OBVIOUS
<1>2. current \in Task
  <2>1. CASE current \notin Task
    <3>1. InBootCode(cpu, Top)
      BY <2>1, BootFacts
    <3> QED
      BY <1>1, <3>1 DEF InBootCode
  <2> QED
    BY <2>1
<1>3. InTaskCode(current, cpu, Top, Mode(current))
  BY <1>2, TaskFacts
<1>4. cpu.pc = <<"body", current>> /\ BodyStack(Top) /\ (cpu.P.i <=> Holds(Mode(current)))
  BY <1>1, <1>3, TaskPc
<1> QED
  BY <1>1, <1>4

LEMMA ComputesFacts ==
  ASSUME IsCpu(cpu), NEW t, NEW w \in BOOLEAN \X BOOLEAN, NEW c, c = Computes(t, w)
  PROVE  IsCpu(c) /\ c.P.i = cpu.P.i /\ c.dom = cpu.dom /\ c.D = cpu.D /\ c.pc = <<"body", t>>
<1>1. PICK p : p = [cpu.P EXCEPT !.m8 = w[1], !.x8 = w[2]]
  OBVIOUS
<1>2. w[1] \in BOOLEAN /\ w[2] \in BOOLEAN
  OBVIOUS
<1>3. p \in [i : BOOLEAN, m8 : BOOLEAN, x8 : BOOLEAN] /\ p.i = cpu.P.i
  BY <1>1, <1>2 DEF IsCpu
<1>4. PICK b : b = IF w = <<FALSE, FALSE>> THEN Zero ELSE <<"B", t>>
  OBVIOUS
<1>5. c = [cpu EXCEPT !.A = <<"A", t>>, !.X = <<"X", t>>, !.Y = <<"Y", t>>, !.B = b,
                      !.P = p, !.pc = <<"body", t>>]
  BY <1>1, <1>4 DEF Computes
<1> QED
  BY <1>3, <1>5 DEF IsCpu

(* A call after its check: the outgoing byte is what the routine reads. *)
LEMMA CallFacts ==
  ASSUME Inv, Working(cpu, stack), NEW t \in Task, cpu.pc = <<"body", t>>,
         NEW a, NEW routine, NEW after, Call(t, a, routine, after)
  PROVE  \/ /\ ~Fits(4) /\ stack' = stack /\ IsCpu(cpu') /\ cpu'.dom = cpu.dom
            /\ cpu'.pc[1] = "A816_STACK_OVERFLOW"
         \/ /\ Fits(4) /\ IsCpu(cpu') /\ cpu'.pc = <<routine, 0>> /\ cpu'.P = cpu.P
            /\ cpu'.dom = t /\ cpu'.D = Page(t)
            /\ \E r : /\ IsStack(r) /\ Len(r) <= TaskUsable /\ Called(r, <<after, t>>)
                      /\ ByteAt(r, 4) = a /\ stack' = [stack EXCEPT ![t] = r]
<1>1. current = t /\ BodyStack(Top)
  BY BodyFacts
<1>2. IsCpu(cpu) /\ cpu.dom = t /\ cpu.D = Page(t) /\ IsStack(Top)
  BY <1>1, TaskFacts
<1>3. CASE ~Fits(4)
  <2>1. Goto("A816_STACK_OVERFLOW", 0) /\ UNCHANGED stack
    BY <1>3 DEF Call, Overflow
  <2> QED
    BY <1>2, <1>3, <2>1 DEF Goto, IsCpu
<1>4. CASE Fits(4)
  <2> PICK pc : pc = <<after, t>>
    OBVIOUS
  <2>1. Push(Byte(a) \o ReturnAddress(pc)) /\ Goto(routine, 0)
    BY <1>4 DEF Call
  <2> PICK r : r = Top \o (Byte(a) \o ReturnAddress(pc))
    OBVIOUS
  <2>2. /\ IsStack(r) /\ Len(r) = Len(Top) + 4
        /\ WordAt(r, 1) = Before(pc) /\ ByteAt(r, 4) = a /\ Drop(r, 4) = Top
    <3>1. PICK s : s = Top
      OBVIOUS
    <3>2. IsStack(s)
      BY <1>2, <3>1
    <3>3. /\ IsStack(s \o (Byte(a) \o ReturnAddress(pc)))
          /\ Len(s \o (Byte(a) \o ReturnAddress(pc))) = Len(s) + 4
          /\ WordAt(s \o (Byte(a) \o ReturnAddress(pc)), 1) = Before(pc)
          /\ ByteAt(s \o (Byte(a) \o ReturnAddress(pc)), 4) = a
          /\ Drop(s \o (Byte(a) \o ReturnAddress(pc)), 4) = s
      BY ONLY <3>2, PushCall
    <3> QED
      BY <3>1, <3>3
  <2>3. Len(r) <= TaskUsable
    BY <1>4, <2>2, Checks
  <2>4. Called(r, pc)
    BY <1>1, <2>2 DEF Called
  <2>5. stack' = [stack EXCEPT ![t] = r]
    BY <1>2, <2>1 DEF Push, Top
  <2>6. IsCpu(cpu') /\ cpu'.pc = <<routine, 0>> /\ cpu'.P = cpu.P /\ cpu'.dom = t /\ cpu'.D = Page(t)
    BY <1>2, <2>1 DEF Goto, IsCpu
  <2> QED
    BY <1>4, <2>2, <2>3, <2>4, <2>5, <2>6
<1> QED
  BY <1>3, <1>4

LEMMA BodySteps ==
  ASSUME Inv, Working(cpu, stack), NEW t \in Task, Quiet,
         \/ SetWidths(t) \/ PushLocal(t) \/ PopLocal(t)
         \/ CallYield(t) \/ CallSaveDisable(t) \/ BodyReturns(t)
  PROVE  Inv'
<1> PICK m, s : m = Mode(t) /\ s = Top
  OBVIOUS
<1>1. cpu.pc = <<"body", t>>
  BY DEF SetWidths, PushLocal, PopLocal, CallYield, CallSaveDisable, BodyReturns, AtBoundary, InBody, At_pc
<1>2. current = t /\ current \in Task /\ BodyStack(s) /\ (cpu.P.i <=> Holds(m))
  BY <1>1, BodyFacts
<1>3. /\ IsCpu(cpu) /\ cpu.dom = t /\ cpu.D = Page(t)
      /\ IsStack(s) /\ Len(s) \in Nat /\ Len(s) <= TaskUsable /\ TaskUsable \in Nat /\ TaskUsable >= 6
      /\ stack' = stack => stack' = [stack EXCEPT ![t] = s]
  BY <1>2, TaskFacts, DomainFacts
<1>4. ASSUME NEW r, IsStack(r), Len(r) <= TaskUsable, BodyStack(r), stack' = [stack EXCEPT ![t] = r],
             IsCpu(cpu'), cpu'.dom = t, cpu'.D = Page(t), cpu'.P.i = cpu.P.i, cpu'.pc = <<"body", t>>
      PROVE  Inv'
  <2>1. InTaskCode(t, cpu', r, m)
    BY <1>2, <1>4 DEF InTaskCode
  <2> QED
    BY <1>2, <1>4, <2>1, TaskStep
<1>5. ASSUME IsCpu(cpu'), cpu'.dom = cpu.dom, cpu'.pc[1] = "A816_STACK_OVERFLOW", stack' = stack
      PROVE  Inv'
  BY <1>5, Stops DEF Quiet
<1>6. CASE SetWidths(t)
  <2>1. PICK w \in Widths : cpu' = Computes(t, w)
    BY <1>6 DEF SetWidths
  <2>2. w \in BOOLEAN \X BOOLEAN /\ stack' = stack
    BY <1>6, LayoutAssumption DEF SetWidths
  <2>3. IsCpu(cpu') /\ cpu'.P.i = cpu.P.i /\ cpu'.dom = t /\ cpu'.D = Page(t) /\ cpu'.pc = <<"body", t>>
    BY <1>3, <2>1, <2>2, ComputesFacts
  <2> QED
    BY <1>2, <1>3, <1>4, <2>2, <2>3
<1>7. CASE PushLocal(t)
  <2>1. CASE Fits(1)
    <3>1. Push(Local) /\ UNCHANGED cpu
      BY <1>7, <2>1 DEF PushLocal
    <3> PICK v : v = <<"local">>
      OBVIOUS
    <3> PICK b : b = Byte(v)
      OBVIOUS
    <3>2. IsStack(b)
      BY Pieces
    <3> PICK r : r = s \o b
      OBVIOUS
    <3>3. IsStack(r) /\ Len(r) = Len(s) + 1
      BY <1>3, PushByte
    <3>4. BodyStack(r)
      BY ONLY <1>2, <1>3, <3>2, BodyPush, r = s \o b
    <3>5. stack' = [stack EXCEPT ![t] = r]
      BY <1>3, <3>1 DEF Push, Local, Top
    <3>6. Len(r) <= TaskUsable
      BY <2>1, <3>3, Checks
    <3> QED
      BY <1>1, <1>3, <1>4, <3>1, <3>3, <3>4, <3>5, <3>6
  <2>2. CASE ~Fits(1)
    <3>1. Goto("A816_STACK_OVERFLOW", 0) /\ UNCHANGED stack
      BY <1>7, <2>2 DEF PushLocal, Overflow
    <3> QED
      BY <1>3, <1>5, <3>1 DEF Goto, IsCpu
  <2> QED
    BY <2>1, <2>2
<1>8. CASE PopLocal(t)
  <2>1. Pop(1) /\ UNCHANGED cpu /\ Locals > 0
    BY <1>8 DEF PopLocal
  <2>2. Len(s) > 6
    BY <1>3, <2>1 DEF Locals, FirstTaskOutgoing
  <2> PICK r : r = Drop(s, 1)
    OBVIOUS
  <2>3. BodyStack(r) /\ IsStack(r) /\ Len(r) = Len(s) - 1
    BY <1>2, <1>3, <2>2, BodyPop
  <2>4. stack' = [stack EXCEPT ![t] = r]
    BY <1>3, <2>1 DEF Pop, Top
  <2>5. Len(r) <= TaskUsable
    BY <1>3, <2>3
  <2> QED
    BY <1>1, <1>3, <1>4, <2>1, <2>3, <2>4, <2>5
<1>9. ASSUME NEW routine, NEW after, Call(t, Zero, routine, after),
             \/ routine = "yield" /\ after = "after_call"
             \/ routine = "save" /\ after = "after_save"
      PROVE  Inv'
  <2>1. CASE cpu'.pc[1] = "A816_STACK_OVERFLOW" /\ stack' = stack /\ IsCpu(cpu') /\ cpu'.dom = cpu.dom
    BY <1>5, <2>1
  <2>2. CASE /\ IsCpu(cpu') /\ cpu'.pc = <<routine, 0>> /\ cpu'.P = cpu.P
            /\ cpu'.dom = t /\ cpu'.D = Page(t)
            /\ \E r : /\ IsStack(r) /\ Len(r) <= TaskUsable /\ Called(r, <<after, t>>)
                      /\ stack' = [stack EXCEPT ![t] = r]
    <3>1. PICK r : /\ IsStack(r) /\ Len(r) <= TaskUsable /\ Called(r, <<after, t>>)
                   /\ stack' = [stack EXCEPT ![t] = r]
      BY <2>2
    <3>2. InTaskCode(t, cpu', r, m)
      BY <1>2, <1>9, <2>2, <3>1 DEF InTaskCode, InYield, InSave
    <3> QED
      BY <1>2, <2>2, <3>1, <3>2, TaskStep
  <2> QED
    BY <1>1, <1>9, <2>1, <2>2, CallFacts
<1>10. CASE CallYield(t)
  BY <1>9, <1>10 DEF CallYield
<1>11. CASE CallSaveDisable(t)
  BY <1>9, <1>11 DEF CallSaveDisable
<1>12. CASE BodyReturns(t)
  <2>1. Rtl /\ Locals = 0 /\ tokens[t] = <<>>
    BY <1>12 DEF BodyReturns
  <2>2. Len(s) = 6
    BY <1>3, <2>1 DEF Locals, FirstTaskOutgoing
  <2> PICK pc : pc = <<"task_return", 0>>
    OBVIOUS
  <2>3. WordAt(s, 1) = Before(pc) /\ Drop(s, 3) = Argument
    BY <1>2, <1>3, <2>2, BodyBottom
  <2>4. After(WordAt(s, 1)) = pc
    BY <2>3 DEF After, Before
  <2>5. IsCpu(cpu') /\ cpu'.pc = pc /\ cpu'.P = cpu.P /\ cpu'.dom = t /\ cpu'.D = Page(t)
    BY <1>3, <2>1, <2>4 DEF Rtl, IsCpu
  <2>6. stack' = [stack EXCEPT ![t] = Argument]
    BY <1>3, <2>1, <2>3 DEF Rtl, Pop, Top
  <2>7. IsStack(Argument) /\ Len(Argument) <= TaskUsable
    BY <1>3, ArgumentFacts
  <2>8. InReturn(cpu', Argument, m)
    BY <1>2, <2>1, <2>5 DEF InReturn, Mode
  <2>9. InTaskCode(t, cpu', Argument, m)
    BY <2>5, <2>7, <2>8 DEF InTaskCode
  <2> QED
    BY <1>2, <2>5, <2>6, <2>7, <2>9, TaskStep
<1> QED
  BY <1>6, <1>7, <1>8, <1>10, <1>11, <1>12

LEMMA CopSteps ==
  ASSUME Inv, Working(cpu, stack), YieldCop \/ \E t \in Task : RawCop(t)
  PROVE  Inv'
<1>1. CASE YieldCop
  <2>1. cpu.pc = <<"yield", 4>> /\ cpu.pc[1] = "yield" /\ cpu.pc[2] = 4 /\ Cop(<<"yield", 5>>)
    BY <1>1 DEF YieldCop, At_pc
  <2>2. current \in Task
    <3>1. CASE current \notin Task
      <4>1. InBootCode(cpu, Top)
        BY <3>1, BootFacts
      <4> QED
        BY <2>1, <4>1 DEF InBootCode
    <3> QED
      BY <3>1
  <2> PICK t, m, s : t = current /\ m = Mode(current) /\ s = Top
    OBVIOUS
  <2>3. InTaskCode(t, cpu, s, m) /\ cpu.dom = t /\ cpu.D = Page(t) /\ Len(s) <= TaskUsable /\ IsCpu(cpu)
        /\ Live = t
    BY <2>2, TaskFacts, DomainFacts DEF Live
  <2>4. InYield(t, cpu, s, m)
    BY <2>1, <2>3, TaskPc
  <2>5. (cpu.P.i <=> Holds(m)) /\ ~cpu.P.i /\ Called(s, <<"after_call", t>>)
    BY <2>1, <2>4 DEF InYield
  <2> PICK c : c = [cpu EXCEPT !.pc = <<"yield", 5>>]
    OBVIOUS
  <2>6. c.pc = <<"yield", 5>> /\ c.P = cpu.P /\ c.dom = t /\ c.D = Page(t)
    BY <2>3 DEF IsCpu
  <2>7. InTaskCode(t, c, s, m)
    <3>1. InYield(t, c, s, m)
      BY <2>5, <2>6 DEF InYield
    <3> QED
      BY <2>3, <2>6, <3>1 DEF InTaskCode
  <2> QED
    BY <2>1, <2>2, <2>3, <2>7, CopStep
<1>2. ASSUME NEW t \in Task, RawCop(t) PROVE Inv'
  <2>1. cpu.pc = <<"body", t>> /\ (Cop(<<"body", t>>) \/ Cop(<<"cop1", t>>))
    BY <1>2 DEF RawCop, AtBoundary, InBody, At_pc
  <2> PICK m, s : m = Mode(t) /\ s = Top
    OBVIOUS
  <2>2. current = t /\ BodyStack(s) /\ (cpu.P.i <=> Holds(m)) /\ Live = t
    BY <2>1, BodyFacts, DomainFacts DEF Live
  <2>3. cpu.dom = t /\ cpu.D = Page(t) /\ Len(s) <= TaskUsable /\ IsCpu(cpu)
    BY <2>2, TaskFacts
  <2>4. CASE Cop(<<"body", t>>)
    <3> PICK c : c = [cpu EXCEPT !.pc = <<"body", t>>]
      OBVIOUS
    <3>1. c.pc = <<"body", t>> /\ c.P = cpu.P /\ c.dom = t /\ c.D = Page(t)
      BY <2>3 DEF IsCpu
    <3>2. InTaskCode(t, c, s, m)
      BY <2>2, <2>3, <3>1 DEF InTaskCode
    <3> QED
      BY <2>2, <2>4, <3>2, CopStep
  <2>5. CASE Cop(<<"cop1", t>>)
    <3> PICK c : c = [cpu EXCEPT !.pc = <<"cop1", t>>]
      OBVIOUS
    <3>1. c.pc = <<"cop1", t>> /\ c.P = cpu.P /\ c.dom = t /\ c.D = Page(t)
      BY <2>3 DEF IsCpu
    <3>2. IllegalCop(t, c, s)
      BY <2>3, <3>1 DEF IllegalCop
    <3> QED
      BY <2>2, <2>5, <3>2, CopStep
  <2> QED
    BY <2>1, <2>4, <2>5
<1> QED
  BY <1>1, <1>2

(* Tokens: the last one goes out as an argument, a new one comes in A.     *)
LEMMA FrontFacts ==
  ASSUME NEW V, NEW q \in Seq(V), q # <<>>, NEW n, n = Len(q), NEW p, p = SubSeq(q, 1, n - 1)
  PROVE  /\ n \in Nat /\ n >= 1 /\ \A k \in 1..n : q[k] \in V
         /\ p \in Seq(V) /\ Len(p) = n - 1 /\ (\A k \in 1..(n - 1) : p[k] = q[k])
         /\ p # <<>> <=> n > 1
<1>1. n \in Nat /\ n >= 1 /\ \A k \in 1..n : q[k] \in V
  OBVIOUS
<1>2. p \in Seq(V) /\ Len(p) = n - 1 /\ \A k \in 1..(n - 1) : p[k] = q[k]
  BY <1>1
<1>3. p # <<>> <=> n > 1
  <2>1. CASE n > 1
    <3>1. Len(p) # 0 /\ Len(<<>>) = 0
      BY <1>1, <1>2, <2>1
    <3> QED
      BY <2>1, <3>1
  <2>2. CASE ~(n > 1)
    <3>1. p = <<>>
      BY <1>1, <1>2, <2>2
    <3> QED
      BY <2>2, <3>1
  <2> QED
    BY <2>1, <2>2
<1> QED
  BY <1>1, <1>2, <1>3

LEMMA AppendFacts ==
  ASSUME NEW V, NEW q \in Seq(V), NEW v \in V, NEW n, n = Len(q), NEW p, p = Append(q, v)
  PROVE  /\ n \in Nat /\ p \in Seq(V) /\ Len(p) = n + 1 /\ p[n + 1] = v
         /\ \A k \in 1..n : p[k] = q[k]
         /\ p # <<>> /\ (q # <<>> <=> n + 1 > 1)
<1>1. n \in Nat /\ p \in Seq(V) /\ Len(p) = n + 1 /\ p[n + 1] = v
      /\ \A k \in 1..n : p[k] = q[k]
  OBVIOUS
<1>2. p # <<>> /\ (q # <<>> <=> n + 1 > 1)
  BY <1>1
<1> QED
  BY <1>1, <1>2

LEMMA CallRestoreStep ==
  ASSUME Inv, Working(cpu, stack), NEW t \in Task, CallRestore(t)
  PROVE  Inv'
<1> PICK m, q, n : m = Mode(t) /\ q = tokens[t] /\ n = Len(tokens[t])
  OBVIOUS
<1>1. /\ cpu.pc = <<"body", t>> /\ q # <<>> /\ Call(t, q[n], "restore_irq", "after_call")
      /\ tokens' = IF Fits(4) THEN [tokens EXCEPT ![t] = SubSeq(@, 1, Len(@) - 1)] ELSE tokens
      /\ UNCHANGED <<scratch, dispatcher, masked, shadow, nmi>>
  BY DEF CallRestore, AtBoundary, InBody, At_pc
<1>2. current = t /\ (cpu.P.i <=> Holds(m)) /\ BodyStack(Top) /\ cpu.P \in [i : BOOLEAN, m8 : BOOLEAN, x8 : BOOLEAN]
  BY <1>1, BodyFacts, TaskFacts DEF IsCpu
<1>3. TokensOK
  BY LiveKeeps DEF Typed
<1>4. /\ q \in Seq({Flag(TRUE), Flag(FALSE)}) /\ n \in Nat /\ n >= 1
      /\ \A k \in 1..n : q[k] \in {Flag(TRUE), Flag(FALSE)} /\ (q[k] = Flag(TRUE) <=> k > 1 \/ t \in masked)
  <2>1. q \in Seq({Flag(TRUE), Flag(FALSE)})
    BY <1>3 DEF TokensOK
  <2>2. n = Len(q)
    OBVIOUS
  <2>3. n \in Nat /\ n >= 1 /\ \A k \in 1..n : q[k] \in {Flag(TRUE), Flag(FALSE)}
    BY ONLY <1>1, <2>1, <2>2, FrontFacts
  <2>4. \A k \in 1..n : q[k] = Flag(TRUE) <=> k > 1 \/ t \in masked
    BY <1>3 DEF TokensOK
  <2> QED
    BY <2>1, <2>3, <2>4
<1>5. CASE ~Fits(4)
  <2>1. tokens' = tokens /\ stack' = stack /\ IsCpu(cpu') /\ cpu'.dom = cpu.dom
        /\ cpu'.pc[1] = "A816_STACK_OVERFLOW"
    BY <1>1, <1>5, CallFacts
  <2> QED
    BY <1>1, <2>1, Stops DEF programs
<1>6. CASE Fits(4)
  <2>1. /\ IsCpu(cpu') /\ cpu'.pc = <<"restore_irq", 0>> /\ cpu'.P = cpu.P
        /\ cpu'.dom = t /\ cpu'.D = Page(t)
        /\ \E r : /\ IsStack(r) /\ Len(r) <= TaskUsable /\ Called(r, <<"after_call", t>>)
                  /\ ByteAt(r, 4) = q[n] /\ stack' = [stack EXCEPT ![t] = r]
    BY <1>1, <1>6, CallFacts
  <2>2. PICK r : /\ IsStack(r) /\ Len(r) <= TaskUsable /\ Called(r, <<"after_call", t>>)
                 /\ ByteAt(r, 4) = q[n] /\ stack' = [stack EXCEPT ![t] = r]
    BY <2>1
  <2> PICK p : p = SubSeq(q, 1, n - 1)
    OBVIOUS
  <2>3. tokens' = [tokens EXCEPT ![t] = p]
    BY <1>1, <1>6
  <2>4. /\ p \in Seq({Flag(TRUE), Flag(FALSE)}) /\ Len(p) = n - 1 /\ \A k \in 1..(n - 1) : p[k] = q[k]
        /\ p # <<>> <=> n > 1
    <3>1. PICK V : V = {Flag(TRUE), Flag(FALSE)}
      OBVIOUS
    <3>2. n = Len(q) /\ p = SubSeq(q, 1, n - 1) /\ q \in Seq(V) /\ q # <<>>
      BY <1>1, <1>4, <3>1
    <3>3. /\ p \in Seq(V) /\ Len(p) = n - 1 /\ \A k \in 1..(n - 1) : p[k] = q[k]
          /\ p # <<>> <=> n > 1
      <4>1. p \in Seq(V)
        BY ONLY <3>2, FrontFacts
      <4>2. Len(p) = n - 1
        BY ONLY <3>2, FrontFacts
      <4>3. \A k \in 1..(n - 1) : p[k] = q[k]
        BY ONLY <3>2, FrontFacts
      <4>4. p # <<>> <=> n > 1
        BY ONLY <3>2, FrontFacts
      <4> QED
        BY <4>1, <4>2, <4>3, <4>4
    <3> QED
      BY ONLY <3>1, <3>3
  <2>5. tokens'[t] = p /\ \A u \in Task : u # t => tokens'[u] = tokens[u]
    BY <1>3, <2>3 DEF TokensOK
  <2>6. TokensOK'
    <3>1. tokens' \in [Task -> Seq({Flag(TRUE), Flag(FALSE)})]
      BY <1>3, <2>3, <2>4 DEF TokensOK
    <3>2. ASSUME NEW u \in Task, NEW k \in 1..Len(tokens'[u])
          PROVE  tokens'[u][k] = Flag(TRUE) <=> k > 1 \/ u \in masked'
      <4>1. CASE u = t
        <5>1. k \in 1..(n - 1) /\ k \in 1..n /\ masked' = masked
          BY <1>1, <1>4, <2>4, <2>5, <3>2, <4>1
        <5> QED
          BY <1>4, <2>4, <2>5, <4>1, <5>1
      <4>2. CASE u # t
        BY <1>1, <1>3, <2>5, <3>2, <4>2 DEF TokensOK
      <4> QED
        BY <4>1, <4>2
    <3> QED
      BY <3>1, <3>2 DEF TokensOK
  <2> PICK w : w = Mode(t)'
    OBVIOUS
  <2>7. Tells(q[n], w)
    <3>1. w.tokens = p /\ w.masked = (t \in masked)
      BY <1>1, <2>5 DEF Mode
    <3>2. p # <<>> <=> n > 1
      BY <2>4
    <3>3. n \in 1..n
      BY <1>4
    <3>4. q[n] \in {Flag(TRUE), Flag(FALSE)} /\ (q[n] = Flag(TRUE) <=> n > 1 \/ t \in masked)
      BY <1>4, <3>3
    <3> QED
      BY <3>1, <3>2, <3>4 DEF Tells, Holds
  <2>8. cpu.P.i
    BY <1>1, <1>2 DEF Holds, Mode
  <2>9. InTaskCode(t, cpu', r, w)
    <3>1. InRestoreIrq(t, cpu', r, w)
      BY <2>1, <2>2, <2>7, <2>8 DEF InRestoreIrq
    <3> QED
      BY <2>1, <2>2, <3>1 DEF InTaskCode
  <2>10. w = Mode(current)'
    <3>1. current' = t
      BY <1>1, <1>2 DEF dispatcher
    <3> QED
      BY <1>2, <3>1
  <2> QED
    BY <1>1, <1>2, <2>1, <2>2, <2>5, <2>6, <2>9, <2>10, TokenStep
<1> QED
  BY <1>5, <1>6

LEMMA AfterCallStep ==
  ASSUME Inv, Working(cpu, stack), NEW t \in Task, AfterCall(t)
  PROVE  Inv'
<1> PICK m, q, n, s : m = Mode(t) /\ q = tokens[t] /\ n = Len(tokens[t]) /\ s = Top
  OBVIOUS
<1>1. /\ \/ cpu.pc = <<"after_call", t>> /\ UNCHANGED tokens
         \/ cpu.pc = <<"after_save", t>> /\ tokens' = [tokens EXCEPT ![t] = Append(@, cpu.A)]
      /\ Pop(1) /\ cpu' = Computes(t, <<FALSE, FALSE>>)
      /\ UNCHANGED <<scratch, dispatcher, masked, shadow, nmi>>
  BY DEF AfterCall, At_pc
<1>2. cpu.pc[1] \in {"after_call", "after_save"} /\ cpu.pc[2] = t
  BY <1>1
<1>3. current \in Task
  <2>1. CASE current \notin Task
    <3>1. InBootCode(cpu, s)
      BY <2>1, BootFacts
    <3> QED
      BY <1>2, <3>1 DEF InBootCode
  <2> QED
    BY <2>1
<1>4. InTaskCode(current, cpu, s, Mode(current)) /\ IsCpu(cpu) /\ cpu.dom = current /\ cpu.D = Page(current)
      /\ IsStack(s) /\ Len(s) \in Nat /\ Len(s) <= TaskUsable
  BY <1>3, TaskFacts
<1>5. /\ current = t /\ BodyStack(Drop(s, 1))
      /\ \/ cpu.pc = <<"after_call", t>> /\ (cpu.P.i <=> Holds(m))
         \/ cpu.pc = <<"after_save", t>> /\ cpu.P.i /\ Tells(cpu.A, m)
  <2>1. CASE cpu.pc = <<"after_call", t>>
    <3>1. InYield(current, cpu, s, Mode(current))
      BY <1>4, <2>1, TaskPc
    <3> QED
      BY <2>1, <3>1 DEF InYield
  <2>2. CASE cpu.pc = <<"after_save", t>>
    <3>1. InSave(current, cpu, s, Mode(current))
      BY <1>4, <2>2, TaskPc
    <3> QED
      BY <2>2, <3>1 DEF InSave
  <2> QED
    BY <1>1, <2>1, <2>2
<1> PICK r : r = Drop(s, 1)
  OBVIOUS
<1>6. IsStack(r) /\ Len(r) <= TaskUsable
  <2>1. Len(s) >= 1
    <3>1. CASE Len(s) = 0
      <4>1. Drop(s, 1) = <<>>
        <5>1. PICK W : s \in Seq(W)
          BY <1>4 DEF IsStack
        <5> QED
          BY <3>1, <5>1 DEF Drop
      <4>2. Len(r) = 0
        BY <4>1
      <4> QED
        BY <1>5, <4>2 DEF BodyStack
    <3> QED
      BY <1>4, <3>1
  <2>2. IsStack(r) /\ Len(r) = Len(s) - 1
    BY <1>4, <2>1, DropStack
  <2> QED
    BY <1>4, <2>2, DomainFacts
<1>7. stack' = [stack EXCEPT ![t] = r]
  BY <1>1, <1>4, <1>5 DEF Pop, Top
<1>8. IsCpu(cpu') /\ cpu'.P.i = cpu.P.i /\ cpu'.dom = t /\ cpu'.D = Page(t) /\ cpu'.pc = <<"body", t>>
  <2>1. <<FALSE, FALSE>> \in BOOLEAN \X BOOLEAN
    OBVIOUS
  <2> QED
    BY <1>1, <1>4, <1>5, <2>1, ComputesFacts
<1>9. TokensOK
  BY LiveKeeps DEF Typed
<1> PICK w : w = Mode(t)'
  OBVIOUS
<1>10. w = Mode(current)' /\ masked' = masked
  <2>1. current' = t /\ masked' = masked
    BY <1>1, <1>5 DEF dispatcher
  <2> QED
    BY <1>5, <2>1
<1>11. CASE cpu.pc = <<"after_call", t>>
  <2>1. tokens' = tokens /\ (cpu.P.i <=> Holds(m))
    BY <1>1, <1>5, <1>11
  <2>2. w = m /\ TokensOK'
    BY <1>9, <1>10, <2>1 DEF Mode, TokensOK
  <2>3. InTaskCode(t, cpu', r, w)
    BY <1>5, <1>6, <1>8, <2>1, <2>2 DEF InTaskCode
  <2> QED
    BY <1>1, <1>3, <1>5, <1>6, <1>7, <1>8, <1>10, <2>1, <2>2, <2>3, TokenStep
<1>12. CASE cpu.pc = <<"after_save", t>>
  <2> PICK p : p = Append(q, cpu.A)
    OBVIOUS
  <2>1. tokens' = [tokens EXCEPT ![t] = p] /\ cpu.P.i /\ Tells(cpu.A, m)
    BY <1>1, <1>5, <1>12
  <2>2. tokens'[t] = p /\ \A u \in Task : u # t => tokens'[u] = tokens[u]
    BY <1>9, <2>1 DEF TokensOK
  <2>3. /\ q \in Seq({Flag(TRUE), Flag(FALSE)}) /\ cpu.A \in {Flag(TRUE), Flag(FALSE)}
        /\ \A k \in 1..n : q[k] = Flag(TRUE) <=> k > 1 \/ t \in masked
    <3>1. q \in Seq({Flag(TRUE), Flag(FALSE)}) /\ cpu.A \in {Flag(TRUE), Flag(FALSE)}
      BY <1>9, <2>1 DEF TokensOK, Tells
    <3>2. \A k \in 1..n : q[k] = Flag(TRUE) <=> k > 1 \/ t \in masked
      BY <1>9 DEF TokensOK
    <3> QED
      BY <3>1, <3>2
  <2>4. /\ n \in Nat /\ p \in Seq({Flag(TRUE), Flag(FALSE)}) /\ Len(p) = n + 1 /\ p[n + 1] = cpu.A
        /\ \A k \in 1..n : p[k] = q[k]
        /\ p # <<>> /\ (q # <<>> <=> n + 1 > 1)
    <3>1. PICK V, v : V = {Flag(TRUE), Flag(FALSE)} /\ v = cpu.A
      OBVIOUS
    <3>2. n = Len(q) /\ p = Append(q, v) /\ q \in Seq(V) /\ v \in V
      BY <2>3, <3>1
    <3>3. /\ n \in Nat /\ p \in Seq(V) /\ Len(p) = n + 1 /\ p[n + 1] = v
          /\ \A k \in 1..n : p[k] = q[k]
          /\ p # <<>> /\ (q # <<>> <=> n + 1 > 1)
      BY ONLY <3>2, AppendFacts
    <3> QED
      BY ONLY <3>1, <3>3
  <2>5. cpu.A = Flag(TRUE) <=> n + 1 > 1 \/ t \in masked
    BY <2>1, <2>4 DEF Tells, Holds, Mode
  <2>6. TokensOK'
    <3>1. tokens' \in [Task -> Seq({Flag(TRUE), Flag(FALSE)})]
      BY <1>9, <2>1, <2>4 DEF TokensOK
    <3>2. ASSUME NEW u \in Task, NEW k \in 1..Len(tokens'[u])
          PROVE  tokens'[u][k] = Flag(TRUE) <=> k > 1 \/ u \in masked'
      <4>1. CASE u = t
        <5>1. tokens'[u][k] = p[k] /\ k \in 1..(n + 1)
          BY <2>2, <2>4, <3>2, <4>1
        <5>2. CASE k \in 1..n
          <6>1. p[k] = q[k] /\ (q[k] = Flag(TRUE) <=> k > 1 \/ t \in masked)
            BY <2>3, <2>4, <5>2
          <6> QED
            BY <1>10, <4>1, <5>1, <6>1
        <5>3. CASE k = n + 1
          <6>1. p[k] = cpu.A /\ (k > 1 <=> n + 1 > 1)
            BY <2>4, <5>3
          <6> QED
            BY <1>10, <2>5, <4>1, <5>1, <6>1
        <5>4. k \in 1..n \/ k = n + 1
          <6>1. n \in Nat
            BY <2>4
          <6> QED
            BY <5>1, <6>1
        <5> QED
          BY <5>2, <5>3, <5>4
      <4>2. CASE u # t
        BY <1>9, <1>10, <2>2, <3>2, <4>2 DEF TokensOK
      <4> QED
        BY <4>1, <4>2
    <3> QED
      BY <3>1, <3>2 DEF TokensOK
  <2>7. Holds(w)
    <3>1. w.tokens = p
      BY <2>2 DEF Mode
    <3>2. p # <<>>
      BY <2>4
    <3> QED
      BY <3>1, <3>2 DEF Holds
  <2>8. InTaskCode(t, cpu', r, w)
    BY <1>5, <1>6, <1>8, <2>1, <2>7 DEF InTaskCode
  <2> QED
    BY <1>1, <1>3, <1>5, <1>6, <1>7, <1>8, <1>10, <2>2, <2>6, <2>8, TokenStep
<1> QED
  BY <1>1, <1>11, <1>12

-----------------------------------------------------------------------------
(* An NMI hides the stack it interrupted under its frame. *)
NmiInv ==
  /\ IsCpu(cpu) /\ stack = [d \in Domain |-> stack[d]]
  /\ nmi # NoContext =>
       /\ IsContext(nmi) /\ nmi.cpu.dom = cpu.dom
       /\ cpu.pc = <<"nmi", 0>>
       /\ Top = Frame5(nmi.stack, nmi.cpu)

Uncovered == [stack EXCEPT ![Here.cpu.dom] = Here.stack]
ContextInv == NmiInv /\ BridgeInv(Here.cpu, Uncovered)

LEMMA Plain ==
  ASSUME IsCpu(cpu), stack = [d \in Domain |-> stack[d]], nmi = NoContext
  PROVE  Here = Context /\ Here.cpu = cpu /\ Uncovered = stack /\ (ContextInv <=> Inv)
<1>1. Here = Context /\ Here.cpu = cpu /\ Here.stack = stack[cpu.dom]
  BY DEF Here, Context, Top
<1>2. Uncovered = stack
  BY <1>1 DEF Uncovered
<1> QED
  BY <1>1, <1>2 DEF ContextInv, NmiInv, Inv

LEMMA PlainNext ==
  ASSUME Inv', nmi' = NoContext
  PROVE  ContextInv'
<1>1. IsCpu(cpu') /\ stack' = [d \in Domain |-> stack'[d]]
  BY DEF Inv, BridgeInv, Grounds, Typed
<1>2. Here' = Context' /\ Here'.cpu = cpu' /\ Here'.stack = stack'[cpu'.dom]
  BY DEF Here, Context, Top
<1>3. Uncovered' = stack'
  BY <1>1, <1>2 DEF Uncovered
<1> QED
  BY <1>1, <1>2, <1>3 DEF ContextInv, NmiInv, Inv

(* Wherever execution is, it is somewhere. *)
LEMMA PcFacts ==
  ASSUME NEW c, NEW st, BridgeInv(c, st)
  PROVE  c.pc[1] \in {"body", "after_call", "after_save", "yield", "save", "restore_irq",
                      "task_return", "A816_TASK_EXIT", "boot", "terminal", "irq", "cop", "dispatch",
                      "A816_DISPATCH", "restore", "A816_TERMINAL", "A816_STACK_OVERFLOW"}
<1>1. CASE Working(c, st)
  BY <1>1 DEF Working, InBootCode, InTaskCode, InYield, InSave, InRestoreIrq, InReturn
<1>2. CASE Saving(c, st)
  BY <1>2 DEF Saving, SavingAt
<1>3. CASE Switching(c, st)
  BY <1>3 DEF Switching, SwitchingAt
<1>4. CASE Calling(c, st)
  <2>1. PICK r \in {"irq", "cop"},
             pc \in {<<"dispatch", 5>>, <<"dispatch", 6>>, <<"dispatch", 7>>, <<"A816_DISPATCH", 0>>} :
               CallingAt(r, pc, c, st)
    BY <1>4 DEF Calling
  <2>2. c.pc = pc
    BY <2>1 DEF CallingAt
  <2> QED
    BY <2>2
<1>5. CASE Chosen(c, st)
  <2>1. c.pc = <<"dispatch", 8>> \/ c.pc = <<"restore", 0>> \/ c.pc = <<"restore", 1>>
    BY <1>5, Zenon DEF Chosen
  <2> QED
    BY <2>1
<1>6. CASE Restoring(c, st)
  BY <1>6 DEF Restoring, RestoringAt
<1>7. CASE Over(c, st)
  BY <1>7 DEF Over
<1> QED
  BY <1>1, <1>2, <1>3, <1>4, <1>5, <1>6, <1>7 DEF BridgeInv, Phase

(* What an NMI leaves alone. *)
LEMMA Unmoved ==
  ASSUME UNCHANGED <<scratch, dispatcher, programs, shadow>>, NEW c, NEW st, BridgeInv(c, st)
  PROVE  BridgeInv(c, st)'
<1>1. /\ current' = current /\ saved' = saved /\ tokens' = tokens /\ masked' = masked
      /\ scratch' = scratch /\ shadow' = shadow
  BY DEF dispatcher, programs
<1>2. Live' = Live /\ (\A t : Mode(t)' = Mode(t)) /\ (YieldIsLegal' <=> YieldIsLegal)
  BY <1>1 DEF Live, Mode, YieldIsLegal
<1>3. Typed(c, st)' <=> Typed(c, st)
  BY <1>1 DEF Typed, TokensOK
<1>4. ScratchIsolated' <=> ScratchIsolated
  BY <1>1 DEF ScratchIsolated
<1>5. \A u \in Task : Suspended(u, st)' <=> Suspended(u, st)
  BY <1>1, <1>2 DEF Suspended, Resumable
<1>6. Working(c, st) => Working(c, st)'
  BY <1>1, <1>2 DEF Working
<1>7. \A r, k : SavingAt(r, k, c, st) => SavingAt(r, k, c, st)'
  BY <1>1, <1>2 DEF SavingAt
<1>8. \A r, k : SwitchingAt(r, k, c, st) => SwitchingAt(r, k, c, st)'
  BY <1>1, <1>2 DEF SwitchingAt
<1>9. \A r, pc : CallingAt(r, pc, c, st) => CallingAt(r, pc, c, st)'
  BY <1>1, <1>2 DEF CallingAt
<1>10. Chosen(c, st) => Chosen(c, st)'
  BY <1>1, <1>5 DEF Chosen
<1>11. \A k : RestoringAt(k, c, st) => RestoringAt(k, c, st)'
  BY <1>1, <1>2 DEF RestoringAt
<1>12. Over(c, st) => Over(c, st)'
  BY DEF Over
<1>13. Grounds(c, st)'
  BY <1>1, <1>3, <1>4, <1>5 DEF BridgeInv, Grounds
<1>14. Phase(c, st)'
  <2>1. Saving(c, st) => Saving(c, st)'
    BY <1>7 DEF Saving
  <2>2. Switching(c, st) => Switching(c, st)'
    BY <1>8 DEF Switching
  <2>3. Calling(c, st) => Calling(c, st)'
    BY <1>9 DEF Calling
  <2>4. Restoring(c, st) => Restoring(c, st)'
    BY <1>11 DEF Restoring
  <2>5. Phase(c, st)
    BY DEF BridgeInv
  <2> QED
    BY <1>6, <1>10, <1>12, <2>1, <2>2, <2>3, <2>4, <2>5 DEF Phase
<1> QED
  BY <1>13, <1>14 DEF BridgeInv

LEMMA NmiEnterStep ==
  ASSUME ContextInv, NmiEnter
  PROVE  ContextInv' /\ Here' = Here
<1>1. /\ nmi = NoContext /\ nmi' = Context /\ UNCHANGED <<scratch, dispatcher, programs, shadow>>
      /\ IsCpu(cpu) /\ stack = [d \in Domain |-> stack[d]] /\ cpu.dom \in Domain
      /\ cpu.P \in [i : BOOLEAN, m8 : BOOLEAN, x8 : BOOLEAN]
  BY DEF NmiEnter, Running, ContextInv, NmiInv, IsCpu
<1>2. Inv /\ Here = Context /\ Here.cpu = cpu /\ Uncovered = stack
  BY <1>1, Plain
<1>3. Context # NoContext
  <2>1. cpu.pc[1] # "junk"
    BY <1>2, PcFacts DEF Inv
  <2>2. NoContext.cpu.pc[1] = "junk"
    BY DEF NoContext, BootCpu, Junk
  <2> QED
    BY <2>1, <2>2 DEF Context
<1> PICK d, s : d = cpu.dom /\ s = Top
  OBVIOUS
<1>4. s = stack[d] /\ IsStack(s)
  BY <1>1, <1>2 DEF Top, Inv, BridgeInv, Grounds, Typed
<1> PICK r : r = Frame5(s, cpu)
  OBVIOUS
<1>5. stack' = [stack EXCEPT ![d] = r]
  <2>1. s \o (HardwareFrame(cpu.P, cpu.pc) \o Word(cpu.A) \o Word(cpu.X) \o Word(cpu.Y)
                 \o Word(cpu.D) \o Byte(cpu.B)) = r
    BY <1>4, NmiFrame
  <2> QED
    BY <1>4, <2>1 DEF NmiEnter, Push, Top
<1>6. IsCpu(cpu') /\ cpu'.dom = d /\ cpu'.pc = <<"nmi", 0>>
  <2>1. cpu' = [cpu EXCEPT !.P = [i |-> TRUE, m8 |-> TRUE, x8 |-> FALSE], !.A = Junk,
                        !.pc = <<"nmi", 0>>]
    BY DEF NmiEnter
  <2>2. [i |-> TRUE, m8 |-> TRUE, x8 |-> FALSE] \in [i : BOOLEAN, m8 : BOOLEAN, x8 : BOOLEAN]
    OBVIOUS
  <2> QED
    BY <1>1, <2>1, <2>2 DEF IsCpu
<1>7. Here' = Context
  BY <1>1, <1>3 DEF Here
<1>8. Uncovered' = stack
  <2>1. Here'.cpu.dom = d /\ Here'.stack = stack[d]
    BY <1>4, <1>7 DEF Context
  <2>2. [stack' EXCEPT ![d] = stack[d]] = stack
    BY <1>1, <1>5
  <2> QED
    BY <2>1, <2>2 DEF Uncovered
<1>9. BridgeInv(Here.cpu, Uncovered)'
  <2> PICK c, st : c = cpu /\ st = stack
    OBVIOUS
  <2>1. BridgeInv(c, st)
    BY <1>2 DEF Inv
  <2>2. BridgeInv(c, st)'
    BY <1>1, <2>1, Unmoved
  <2>3. Here'.cpu = c /\ Uncovered' = st
    BY <1>7, <1>8 DEF Context
  <2> QED
    BY <2>2, <2>3
<1>10. NmiInv'
  <2>1. stack' = [e \in Domain |-> stack'[e]] /\ stack'[d] = r
    BY <1>1, <1>5
  <2>2. Top' = r
    BY <1>6, <2>1 DEF Top
  <2>3. nmi'.cpu = cpu /\ nmi'.stack = s
    BY <1>1 DEF Context
  <2>4. IsContext(nmi')
    BY <1>1, <1>4 DEF IsContext, Context
  <2> QED
    BY <1>6, <2>1, <2>2, <2>3, <2>4 DEF NmiInv
<1> QED
  BY <1>2, <1>7, <1>9, <1>10 DEF ContextInv

LEMMA NmiExitStep ==
  ASSUME ContextInv, NmiExit
  PROVE  ContextInv' /\ nmi # NoContext /\ Context' = nmi /\ Here' = Here
<1>1. cpu.pc[1] = "nmi" /\ IsCpu(cpu) /\ stack = [d \in Domain |-> stack[d]] /\ cpu.dom \in Domain
  BY DEF NmiExit, At_pc, ContextInv, NmiInv, IsCpu
<1>2. nmi # NoContext
  <2>1. CASE nmi = NoContext
    BY <1>1, <2>1, Plain, PcFacts DEF Inv
  <2> QED
    BY <2>1
<1>3. IsContext(nmi) /\ nmi.cpu.dom = cpu.dom /\ Top = Frame5(nmi.stack, nmi.cpu) /\ IsCpu(nmi.cpu)
      /\ IsStack(nmi.stack)
  BY <1>2 DEF ContextInv, NmiInv, IsContext
<1> PICK d, b, c, s : d = cpu.dom /\ b = nmi.stack /\ c = nmi.cpu /\ s = Top
  OBVIOUS
<1>4. s = Frame5(b, c) /\ IsStack(b) /\ IsCpu(c) /\ c.dom = d /\ nmi = [cpu |-> c, stack |-> b] /\ s = stack[d]
  BY <1>3 DEF IsContext, Top
<1>5. /\ WordAt(s, 2) = c.D /\ WordAt(s, 4) = c.Y /\ WordAt(s, 6) = c.X /\ WordAt(s, 8) = c.A
      /\ PAt(s, 10) = c.P /\ WordAt(s, 11) = c.pc /\ Drop(s, 13) = b /\ ByteAt(s, 1) = c.B
  <2>1. IsStack(b) /\ s = Frame5(b, c)
    BY <1>4
  <2>2. /\ WordAt(Frame5(b, c), 2) = c.D /\ WordAt(Frame5(b, c), 4) = c.Y
        /\ WordAt(Frame5(b, c), 6) = c.X /\ WordAt(Frame5(b, c), 8) = c.A
        /\ PAt(Frame5(b, c), 10) = c.P /\ WordAt(Frame5(b, c), 11) = c.pc
        /\ Drop(Frame5(b, c), 13) = b
    BY ONLY <2>1, FrameReads
  <2>3. ByteAt(Frame5(b, c), 1) = c.B
    BY ONLY <2>1, FrameFacts
  <2> QED
    BY ONLY <2>1, <2>2, <2>3
<1>6. cpu' = c
  <2>1. cpu' = [cpu EXCEPT !.B = c.B, !.D = c.D, !.Y = c.Y, !.X = c.X, !.A = c.A, !.P = c.P, !.pc = c.pc]
    BY <1>5 DEF NmiExit
  <2>2. c.dom = cpu.dom
    BY <1>4
  <2>3. c = [A |-> c.A, X |-> c.X, Y |-> c.Y, D |-> c.D, B |-> c.B, P |-> c.P, dom |-> c.dom, pc |-> c.pc]
    BY <1>4 DEF IsCpu
  <2>4. cpu = [A |-> cpu.A, X |-> cpu.X, Y |-> cpu.Y, D |-> cpu.D, B |-> cpu.B, P |-> cpu.P,
               dom |-> cpu.dom, pc |-> cpu.pc]
    BY <1>1 DEF IsCpu
  <2>5. cpu' = [A |-> c.A, X |-> c.X, Y |-> c.Y, D |-> c.D, B |-> c.B, P |-> c.P, dom |-> cpu.dom, pc |-> c.pc]
    BY ONLY <2>1, <2>4
  <2> QED
    BY ONLY <2>2, <2>3, <2>5
<1>7. stack' = [stack EXCEPT ![d] = b] /\ stack'[d] = b
  BY <1>1, <1>4, <1>5 DEF NmiExit, Pop
<1>8. nmi' = NoContext /\ UNCHANGED <<scratch, dispatcher, programs, shadow>>
  BY DEF NmiExit
<1>9. Here' = nmi /\ Context' = nmi /\ Here = nmi
  BY <1>2, <1>4, <1>6, <1>7, <1>8 DEF Here, Context, Top
<1>10. Uncovered = stack'
  BY <1>4, <1>7, <1>9 DEF Uncovered
<1>11. Inv'
  <2> PICK st : st = stack'
    OBVIOUS
  <2>1. BridgeInv(c, st)
    BY <1>9, <1>10 DEF ContextInv
  <2>2. BridgeInv(c, st)'
    BY <1>8, <2>1, Unmoved
  <2> QED
    BY <1>6, <2>2 DEF Inv
<1> QED
  BY <1>2, <1>8, <1>9, <1>11, PlainNext

-----------------------------------------------------------------------------
LEMMA FirstImageFacts ==
  ASSUME NEW t, NEW i
  PROVE  /\ FirstImage(t, i) = Frame5(EntryStack, EntryContext(t, i).cpu)
         /\ IsStack(FirstImage(t, i)) /\ Len(FirstImage(t, i)) = 19
         /\ EntryContext(t, i).stack = EntryStack
<1> PICK c : c = EntryContext(t, i).cpu
  OBVIOUS
<1>1. EntryContext(t, i).stack = EntryStack
  BY DEF EntryContext, EntryStack
<1>2. /\ c.A = Zero /\ c.X = Zero /\ c.Y = Zero /\ c.D = Page(t) /\ c.B = Zero
  BY DEF EntryContext
<1>3. FirstImage(t, i) = Frame5(EntryStack, c)
  BY <1>1, <1>2 DEF FirstImage, Frame0, Frame1, Frame2, Frame3, Frame4, Frame5
<1> PICK b : b = EntryStack
  OBVIOUS
<1>4. IsStack(b) /\ Len(b) = 6
  BY ArgumentFacts
<1>5. IsStack(Frame5(b, c)) /\ Len(Frame5(b, c)) = Len(b) + 13
  BY ONLY <1>4, FrameFacts
<1>6. Len(Frame5(b, c)) = 19
  BY <1>4, <1>5
<1> QED
  BY <1>1, <1>3, <1>5, <1>6

LEMMA Initially ==
  ASSUME Init
  PROVE  ContextInv
<1>1. /\ masked \in SUBSET Task /\ cpu = BootCpu
      /\ stack = [d \in Domain |-> IF d \in Task THEN FirstImage(d, d \in masked) ELSE <<>>]
      /\ scratch = [d \in Domain |-> Own(d)] /\ current = None
      /\ saved = [t \in Task |-> SavedS(t, 19)] /\ tokens = [t \in Task |-> <<>>]
      /\ shadow = [d \in Domain |-> IF d \in Task THEN EntryContext(d, d \in masked) ELSE NoContext]
      /\ nmi = NoContext
  BY DEF Init
<1>2. Flags(TRUE) \in [i : BOOLEAN, m8 : BOOLEAN, x8 : BOOLEAN]
      /\ \A i \in BOOLEAN : Flags(i) \in [i : BOOLEAN, m8 : BOOLEAN, x8 : BOOLEAN] /\ Flags(i).i = i
  BY DEF Flags
<1>3. IsCpu(BootCpu) /\ BootCpu.pc = <<"boot", 0>> /\ BootCpu.P.i /\ BootCpu.dom = Boot
      /\ BootCpu.D = Page(Boot)
  BY <1>2, DomainFacts DEF BootCpu, IsCpu
<1>4. IsStack(<<>>) /\ Len(<<>>) = 0
  BY Pieces
<1>5. IsContext(NoContext)
  <2>1. IsCpu(NoContext.cpu)
    <3>1. NoContext.cpu = [BootCpu EXCEPT !.pc = Junk]
      BY DEF NoContext
    <3> QED
      BY <1>2, <3>1, DomainFacts DEF BootCpu, IsCpu
  <2> QED
    BY <1>4, <2>1 DEF NoContext, IsContext
<1>6. ASSUME NEW t \in Task
      PROVE  /\ IsContext(shadow[t]) /\ shadow[t] = EntryContext(t, t \in masked)
             /\ shadow[t].stack = EntryStack /\ IsStack(EntryStack)
             /\ stack[t] = Frame5(EntryStack, shadow[t].cpu) /\ IsStack(stack[t]) /\ Len(stack[t]) = 19
             /\ shadow[t].cpu.dom = t /\ shadow[t].cpu.D = Page(t) /\ shadow[t].cpu.pc = <<"body", t>>
             /\ (shadow[t].cpu.P.i <=> t \in masked)
  <2>0. \E i \in BOOLEAN : i = (t \in masked)
    <3>1. CASE t \in masked
      <4>1. TRUE = (t \in masked)
        BY <3>1
      <4> QED
        BY <4>1, Zenon
    <3>2. CASE t \notin masked
      <4>1. FALSE = (t \in masked)
        BY <3>2
      <4> QED
        BY <4>1, Zenon
    <3> QED
      BY <3>1, <3>2
  <2> PICK i \in BOOLEAN : i = (t \in masked)
    BY <2>0
  <2>1. shadow[t] = EntryContext(t, i) /\ stack[t] = FirstImage(t, i) /\ t \in Domain
    BY <1>1, DomainFacts
  <2>2. IsStack(EntryStack)
    BY ArgumentFacts
  <2> PICK c : c = EntryContext(t, i).cpu
    OBVIOUS
  <2>3. c = [A |-> Zero, X |-> Zero, Y |-> Zero, D |-> Page(t), B |-> Zero,
            P |-> Flags(i), dom |-> t, pc |-> <<"body", t>>]
    BY DEF EntryContext
  <2>4. IsCpu(c) /\ c.dom = t /\ c.D = Page(t) /\ c.pc = <<"body", t>> /\ (c.P.i <=> i)
    <3> PICK p : p = Flags(i)
      OBVIOUS
    <3>1. p \in [i : BOOLEAN, m8 : BOOLEAN, x8 : BOOLEAN] /\ p.i = i
      BY <1>2
    <3>2. c = [A |-> Zero, X |-> Zero, Y |-> Zero, D |-> Page(t), B |-> Zero,
               P |-> p, dom |-> t, pc |-> <<"body", t>>]
      BY <2>3
    <3>3. t \in Domain
      BY <2>1
    <3> QED
      BY ONLY <3>1, <3>2, <3>3 DEF IsCpu
  <2>5. EntryContext(t, i) = [cpu |-> c, stack |-> EntryStack]
    BY DEF EntryContext, EntryStack
  <2>6. IsContext(shadow[t])
    BY <2>1, <2>2, <2>4, <2>5 DEF IsContext
  <2>7. shadow[t] = EntryContext(t, t \in masked)
    BY <2>1
  <2>8. stack[t] = Frame5(EntryStack, c) /\ IsStack(stack[t]) /\ Len(stack[t]) = 19
    BY <2>1, FirstImageFacts
  <2>9. shadow[t].cpu = c /\ shadow[t].stack = EntryStack
    BY <2>1, <2>5
  <2> QED
    BY <2>2, <2>4, <2>6, <2>7, <2>8, <2>9
<1>7. TokensOK
  <2>1. <<>> \in Seq({Flag(TRUE), Flag(FALSE)})
    OBVIOUS
  <2> QED
    BY <1>1, <1>4, <2>1 DEF TokensOK
<1>8. \A d \in Domain : IsStack(stack[d]) /\ Len(stack[d]) <= Room(d)
  <2> SUFFICES ASSUME NEW d \in Domain PROVE IsStack(stack[d]) /\ Len(stack[d]) <= Room(d)
    OBVIOUS
  <2>1. CASE d \in Task
    <3>1. 19 <= TaskUsable + 13 /\ d # Irq
      BY <2>1, DomainFacts
    <3> QED
      BY <1>6, <2>1, <3>1 DEF Room
  <2>2. CASE d \notin Task
    <3>1. stack[d] = <<>>
      BY <1>1, <2>2
    <3>2. 0 <= TaskUsable + 13
      BY DomainFacts
    <3> QED
      BY <1>4, <3>1, <3>2 DEF Room
  <2> QED
    BY <2>1, <2>2
<1>9. Typed(cpu, stack)
  <2>1. \A d \in Domain : IsContext(shadow[d])
    BY <1>1, <1>5, <1>6
  <2> QED
    BY <1>1, <1>3, <1>7, <1>8, <2>1 DEF Typed
<1>10. ASSUME NEW t \in Task PROVE Suspended(t, stack)
  <2>1. tokens[t] = <<>> /\ saved[t] = SavedS(t, Len(stack[t]))
    BY <1>1, <1>6
  <2>2. (shadow[t].cpu.P.i <=> Holds(Mode(t)))
    BY <1>6, <2>1 DEF Holds, Mode
  <2>3. BodyStack(EntryStack) /\ Len(EntryStack) <= TaskUsable
    <3>1. Len(EntryStack) = 6 /\ SubSeq(EntryStack, 1, 6) = EntryStack
      BY ArgumentFacts
    <3>2. 6 >= 6 /\ 6 <= TaskUsable
      BY DomainFacts
    <3> QED
      BY <3>1, <3>2 DEF BodyStack
  <2>4. InTaskCode(t, shadow[t].cpu, shadow[t].stack, Mode(t))
    BY <1>6, <2>2, <2>3 DEF InTaskCode
  <2> QED
    BY <1>6, <2>1, <2>4 DEF Suspended, Resumable
<1>11. ScratchIsolated
  BY <1>1 DEF ScratchIsolated
<1>12. Working(cpu, stack)
  <2>1. stack[Boot] = <<>> /\ \A t \in Task : saved[t] # Junk
    BY <1>1, DomainFacts DEF SavedS, Junk
  <2> QED
    BY <1>1, <1>3, <2>1 DEF Working, InBootCode
<1>13. Inv
  BY <1>9, <1>10, <1>11, <1>12 DEF Inv, BridgeInv, Grounds, Phase
<1> QED
  <2>1. stack = [d \in Domain |-> stack[d]] /\ IsCpu(cpu)
    BY <1>1, <1>3
  <2> QED
    BY <1>1, <1>13, <2>1, Plain

(* Code runs only where execution is in code. *)
LEMMA CodeWorks ==
  ASSUME Inv, Code
  PROVE  Working(cpu, stack)
<1>2. cpu.pc[1] \in {"body", "after_call", "after_save", "yield", "save", "restore_irq",
                     "task_return", "A816_TASK_EXIT", "boot"} => Working(cpu, stack)
  BY Phases DEF Inv
<1>3. cpu.pc[1] \in {"body", "after_call", "after_save", "yield", "save", "restore_irq",
                     "task_return", "A816_TASK_EXIT", "boot"}
  <2>1. CodeStep \/ OtherCodeStep
    BY DEF Code
  <2>2. /\ Yield => (\/ At_pc("yield", 0) \/ At_pc("yield", 1) \/ At_pc("yield", 2)
                     \/ At_pc("yield", 3) \/ At_pc("yield", 5))
        /\ SaveDisable => (\/ At_pc("save", 0) \/ At_pc("save", 1) \/ At_pc("save", 2)
                           \/ At_pc("save", 3) \/ At_pc("save", 4))
        /\ RestoreIrq => At_pc("restore_irq", 0) \/ At_pc("restore_irq", 1)
        /\ TaskReturn => (\/ At_pc("task_return", 0) \/ At_pc("task_return", 1) \/ At_pc("task_return", 2)
                          \/ At_pc("task_return", 3) \/ At_pc("task_return", 4))
        /\ ExitReturns => At_pc("A816_TASK_EXIT", 0)
        /\ BootYields => At_pc("boot", 0)
        /\ YieldCop => At_pc("yield", 4)
    BY Zenon DEF Yield, SaveDisable, RestoreIrq, TaskReturn, ExitReturns, BootYields, YieldCop
  <2>3. /\ Yield => cpu.pc[1] = "yield"
        /\ SaveDisable => cpu.pc[1] = "save"
        /\ RestoreIrq => cpu.pc[1] = "restore_irq"
        /\ TaskReturn => cpu.pc[1] = "task_return"
        /\ ExitReturns => cpu.pc[1] = "A816_TASK_EXIT"
        /\ BootYields => cpu.pc[1] = "boot"
        /\ YieldCop => cpu.pc[1] = "yield"
    BY <2>2 DEF At_pc
  <2>4. \A t \in Task : (\/ SetWidths(t) \/ PushLocal(t) \/ PopLocal(t)
                         \/ CallYield(t) \/ CallSaveDisable(t) \/ BodyReturns(t)
                         \/ CallRestore(t) \/ RawCop(t)) => cpu.pc[1] = "body"
    BY DEF SetWidths, PushLocal, PopLocal, CallYield, CallSaveDisable, BodyReturns, CallRestore, RawCop,
           AtBoundary, InBody, At_pc
  <2>5. \A t \in Task : /\ TaskExit(t) => cpu.pc[1] = "A816_TASK_EXIT"
                        /\ BootStart(t) => cpu.pc[1] = "boot"
                        /\ AfterCall(t) => cpu.pc[1] \in {"after_call", "after_save"}
    BY DEF TaskExit, BootStart, AfterCall, At_pc
  <2>6. CASE CodeStep
    BY <2>3, <2>4, <2>6 DEF CodeStep
  <2>7. CASE OtherCodeStep
    BY <2>3, <2>4, <2>5, <2>7 DEF OtherCodeStep
  <2> QED
    BY <2>1, <2>6, <2>7
<1> QED
  BY <1>2, <1>3

(* Every step. *)
LEMMA CodeSteps ==
  ASSUME Inv, Code
  PROVE  Inv'
<1>1. CASE Working(cpu, stack)
  <2>1. ASSUME Quiet, CodeStep PROVE Inv'
    <3>1. CASE Yield
      BY <1>1, <2>1, <3>1, YieldSteps, BootYieldSteps
    <3>2. CASE SaveDisable
      <4>1. cpu.pc[1] = "save"
        BY <3>2 DEF SaveDisable, At_pc
      <4>2. current \in Task
        BY <1>1, <4>1, BootFacts DEF InBootCode
      <4> QED
        BY <1>1, <2>1, <3>2, <4>2, SaveDisableSteps
    <3>3. CASE RestoreIrq
      <4>1. cpu.pc[1] = "restore_irq"
        BY <3>3 DEF RestoreIrq, At_pc
      <4>2. current \in Task
        BY <1>1, <4>1, BootFacts DEF InBootCode
      <4> QED
        BY <1>1, <2>1, <3>3, <4>2, RestoreIrqSteps
    <3>4. CASE TaskReturn \/ ExitReturns
      <4>1. cpu.pc[1] \in {"task_return", "A816_TASK_EXIT"}
        BY <3>4 DEF TaskReturn, ExitReturns, At_pc
      <4>2. current \in Task
        BY <1>1, <4>1, BootFacts DEF InBootCode
      <4> QED
        BY <1>1, <2>1, <3>4, <4>2, ReturnSteps
    <3>5. CASE BootYields
      BY <1>1, <2>1, <3>5, BootYieldsStep
    <3>6. CASE \E t \in Task : \/ SetWidths(t) \/ PushLocal(t) \/ PopLocal(t)
                               \/ CallYield(t) \/ CallSaveDisable(t) \/ BodyReturns(t)
      BY <1>1, <2>1, <3>6, BodySteps
    <3> QED
      BY <2>1, <3>1, <3>2, <3>3, <3>4, <3>5, <3>6 DEF CodeStep
  <2>2. ASSUME OtherCodeStep PROVE Inv'
    BY <1>1, <2>2, CopSteps, ExitStep, BootStartStep, CallRestoreStep, AfterCallStep DEF OtherCodeStep
  <2> QED
    BY <2>1, <2>2 DEF Code
<1> QED
  BY <1>1, CodeWorks

LEMMA BridgeSteps ==
  ASSUME Inv, Bridge
  PROVE  Inv'
<1>1. ASSUME MachineStep, Quiet PROVE Inv'
  BY <1>1, SaveSteps, SwitchSteps, InvokeSteps, RestoreSteps, TerminalStep DEF MachineStep
<1>2. ASSUME OtherBridgeStep PROVE Inv'
  BY <1>2, ValidateStep, RtiStep, DispatchStep DEF OtherBridgeStep
<1> QED
  BY <1>1, <1>2 DEF Bridge

LEMMA Steps ==
  ASSUME ContextInv, Next
  PROVE  ContextInv'
<1>1. CASE NmiEnter
  BY <1>1, NmiEnterStep
<1>2. CASE NmiExit
  BY <1>2, NmiExitStep
<1>3. CASE IrqArrives \/ Bridge \/ Code
  <2>1. nmi = NoContext
    BY <1>3 DEF IrqArrives, Bridge, Code, Running
  <2>2. nmi' = NoContext
    BY <1>3, <2>1 DEF IrqArrives, Bridge, Code, Quiet, OtherBridgeStep, OtherCodeStep, Validate,
       ReturnFromInterrupt, Dispatch, YieldCop, Cop, TaskExit, BootStart, CallRestore, AfterCall, RawCop
  <2>3. Inv
    BY <2>1, Plain DEF ContextInv, NmiInv
  <2>4. Inv'
    BY <1>3, <2>3, IrqStep, BridgeSteps, CodeSteps
  <2> QED
    BY <2>2, <2>4, PlainNext
<1> QED
  BY <1>1, <1>2, <1>3 DEF Next

(* Where every context is, at every instruction of the bridge. *)
THEOREM ContextInvCorrect == Spec => []ContextInv
<1>1. Init => ContextInv
  BY Initially
<1>2. ContextInv /\ [Next]_vars => ContextInv'
  <2> SUFFICES ASSUME ContextInv, [Next]_vars PROVE ContextInv'
    OBVIOUS
  <2>1. CASE UNCHANGED vars
    <3>1. UNCHANGED <<scratch, dispatcher, programs, shadow>> /\ cpu' = cpu /\ stack' = stack /\ nmi' = nmi
      BY <2>1 DEF vars, dispatcher, programs
    <3>2. Here' = Here /\ Uncovered' = Uncovered /\ Top' = Top
      BY <3>1 DEF Here, Uncovered, Context, Top
    <3>3. BridgeInv(Here.cpu, Uncovered)'
      <4> PICK c, st : c = Here.cpu /\ st = Uncovered
        OBVIOUS
      <4>1. BridgeInv(c, st)
        BY DEF ContextInv
      <4>2. BridgeInv(c, st)'
        BY <3>1, <4>1, Unmoved
      <4> QED
        BY <3>2, <4>2
    <3>4. NmiInv'
      BY <3>1, <3>2 DEF ContextInv, NmiInv
    <3> QED
      BY <3>3, <3>4 DEF ContextInv
  <2> QED
    BY <2>1, Steps
<1> QED
  BY <1>1, <1>2, PTL DEF Spec

-----------------------------------------------------------------------------
(* The bridge writes its scratch only through the IRQ domain's page: live  *)
(* compiler scratch of every other domain is always its own.               *)
THEOREM ScratchIsolatedCorrect == Spec => []ScratchIsolated
<1>1. ContextInv => ScratchIsolated
  BY DEF ContextInv, BridgeInv, Grounds
<1> QED
  BY <1>1, ContextInvCorrect, PTL

LEMMA Excluded ==
  ASSUME ContextInv
  PROVE  CriticalSections
<1>1. ASSUME At_pc("A816_DISPATCH", 0) \/ \E t \in Task : At_pc("body", t) PROVE nmi = NoContext /\ Inv
  <2>1. cpu.pc[1] # "nmi"
    BY <1>1 DEF At_pc
  <2>2. nmi = NoContext
    BY <2>1 DEF ContextInv, NmiInv
  <2> QED
    BY <2>2, Plain DEF ContextInv, NmiInv
<1>2. ASSUME NEW t \in Task, tokens[t] # <<>> PROVE current = t
  BY <1>2 DEF ContextInv, BridgeInv, Grounds, Suspended
<1>3. ASSUME NEW t \in Task, tokens[t] # <<>>, At_pc("A816_DISPATCH", 0) PROVE FALSE
  <2>1. cpu.pc[1] = "A816_DISPATCH" /\ Inv
    BY <1>1, <1>3 DEF At_pc
  <2>2. PICK r \in {"irq", "cop"} : CallingAt(r, cpu.pc, cpu, stack)
    BY <2>1, Phases DEF Inv
  <2>3. Live = t
    BY <1>2, <1>3, DomainFacts DEF Live
  <2>4. tokens[t] = <<>>
    BY <2>2, <2>3 DEF CallingAt
  <2> QED
    BY <1>3, <2>4
<1>4. ASSUME NEW t \in Task, At_pc("body", t) PROVE cpu.P.i = (tokens[t] # <<>> \/ t \in masked)
  <2>1. cpu.pc = <<"body", t>> /\ cpu.pc[1] = "body" /\ Inv
    BY <1>1, <1>4 DEF At_pc
  <2>2. Working(cpu, stack)
    BY <2>1, Phases DEF Inv
  <2>3. cpu.P.i <=> Holds(Mode(t))
    BY <2>1, <2>2, BodyFacts
  <2>4. cpu.P.i \in BOOLEAN
    BY DEF ContextInv, NmiInv, IsCpu
  <2>5. cpu.P.i <=> (tokens[t] # <<>> \/ t \in masked)
    BY <2>3 DEF Holds, Mode
  <2> QED
    BY <2>4, <2>5
<1> QED
  BY <1>2, <1>3, <1>4 DEF CriticalSections, CriticalExclusive, MaskBalanced

(* A task holding a token of SaveIRQ is never switched out, and runs       *)
(* masked exactly while it holds one or was started masked.                *)
THEOREM CriticalSectionsCorrect == Spec => []CriticalSections
BY ContextInvCorrect, Excluded, PTL

LEMMA StacksFit ==
  ASSUME ContextInv
  PROVE  StackWithinDomain
<1>1. /\ \A d \in Domain : IsStack(Uncovered[d]) /\ Len(Uncovered[d]) <= Room(d)
      /\ IsCpu(cpu) /\ stack = [d \in Domain |-> stack[d]]
  BY DEF ContextInv, NmiInv, BridgeInv, Grounds, Typed
<1>2. \A d \in Domain : Room(d) + 13 <= Size(d) /\ Room(d) \in Nat
  BY LayoutAssumption DEF Room, Size, Usable, IrqHeadroom, TaskHeadroom
<1>3. ASSUME NEW d \in Domain PROVE Len(stack[d]) <= Size(d)
  <2>1. CASE nmi = NoContext \/ d # cpu.dom
    <3>1. Uncovered[d] = stack[d]
      <4>1. CASE nmi = NoContext
        BY <1>1, <4>1, Plain
      <4>2. CASE nmi # NoContext /\ d # cpu.dom
        <5>1. Here.cpu.dom = cpu.dom
          BY <4>2 DEF Here, ContextInv, NmiInv
        <5> QED
          BY <1>1, <4>2, <5>1 DEF Uncovered
      <4> QED
        BY <2>1, <4>1, <4>2
    <3> PICK n, k : n = Len(stack[d]) /\ k = Room(d)
      OBVIOUS
    <3>2. n \in Nat /\ n <= k /\ k \in Nat /\ k + 13 <= Size(d)
      BY <1>1, <1>2, <3>1, StackFacts
    <3>3. Size(d) \in Nat
      BY LayoutAssumption DEF Size, Usable, IrqHeadroom, TaskHeadroom
    <3> QED
      BY <3>2, <3>3
  <2>2. CASE nmi # NoContext /\ d = cpu.dom
    <3> PICK b, c : b = nmi.stack /\ c = nmi.cpu
      OBVIOUS
    <3>1. c.dom = d /\ Here = nmi /\ stack[d] = Frame5(b, c) /\ IsStack(b)
      BY <2>2 DEF ContextInv, NmiInv, Here, Top, IsContext
    <3>2. Uncovered[d] = b
      BY <1>1, <3>1 DEF Uncovered
    <3>3. Len(stack[d]) = Len(b) + 13
      <4>1. IsStack(b)
        BY <3>1
      <4>2. Len(Frame5(b, c)) = Len(b) + 13
        BY ONLY <4>1, FrameFacts
      <4> QED
        BY <3>1, <4>2
    <3> PICK n, k : n = Len(b) /\ k = Room(d)
      OBVIOUS
    <3>4. n \in Nat /\ n <= k /\ k \in Nat /\ k + 13 <= Size(d)
      BY <1>1, <1>2, <3>1, <3>2, StackFacts
    <3>5. Size(d) \in Nat
      BY LayoutAssumption DEF Size, Usable, IrqHeadroom, TaskHeadroom
    <3> QED
      BY <3>3, <3>4, <3>5
  <2> QED
    BY <2>1, <2>2
<1>4. ASSUME InTask PROVE Len(Top) <= Usable(cpu.dom)
  <2>1. nmi = NoContext /\ cpu.pc[1] \notin Routines /\ cpu.dom \in Task
    BY <1>4 DEF InTask, InBridge, Context
  <2>2. Inv
    BY <1>1, <2>1, Plain
  <2>3. Usable(cpu.dom) = TaskUsable
    BY <2>1, DomainFacts DEF Usable
  <2>4. Working(cpu, stack) \/ Over(cpu, stack)
    <3>1. ~Saving(cpu, stack) /\ ~Switching(cpu, stack)
      <4>1. ASSUME NEW r \in {"irq", "cop"}, NEW k \in 0..6, SavingAt(r, k, cpu, stack) PROVE FALSE
        <5>1. cpu.pc[1] = r
          BY <4>1 DEF SavingAt
        <5> QED
          BY <2>1, <5>1 DEF Routines
      <4>2. ASSUME NEW r \in {"irq", "cop"}, NEW k \in 0..4, SwitchingAt(r, k, cpu, stack) PROVE FALSE
        <5>1. cpu.pc[1] = "dispatch"
          BY <4>2 DEF SwitchingAt
        <5> QED
          BY <2>1, <5>1 DEF Routines
      <4> QED
        BY <4>1, <4>2 DEF Saving, Switching
    <3>2. ~Calling(cpu, stack)
      <4>1. ASSUME NEW r \in {"irq", "cop"},
             NEW pc \in {<<"dispatch", 5>>, <<"dispatch", 6>>, <<"dispatch", 7>>, <<"A816_DISPATCH", 0>>},
               CallingAt(r, pc, cpu, stack)
            PROVE FALSE
        BY <2>1, <4>1 DEF Routines, CallingAt
      <4> QED
        BY <4>1 DEF Calling
    <3>3. ~Chosen(cpu, stack)
      <4>1. Chosen(cpu, stack) =>
              cpu.pc = <<"dispatch", 8>> \/ cpu.pc = <<"restore", 0>> \/ cpu.pc = <<"restore", 1>>
        BY Zenon DEF Chosen
      <4> QED
        BY <2>1, <4>1 DEF Routines
    <3>4. ~Restoring(cpu, stack)
      <4>1. ASSUME NEW k \in 2..7, RestoringAt(k, cpu, stack) PROVE FALSE
        <5>1. cpu.pc[1] = "restore"
          BY <4>1 DEF RestoringAt
        <5> QED
          BY <2>1, <5>1 DEF Routines
      <4> QED
        BY <4>1 DEF Restoring
    <3> QED
      BY <2>2, <3>1, <3>2, <3>3, <3>4 DEF Inv, BridgeInv, Phase
  <2>5. CASE Working(cpu, stack)
    BY <2>2, <2>3, <2>5, WorkingFacts
  <2>6. CASE Over(cpu, stack)
    BY <2>1, <2>3, <2>6 DEF Over, Top
  <2> QED
    BY <2>4, <2>5, <2>6
<1> QED
  BY <1>3, <1>4 DEF StackWithinDomain

(* The published headroom is enough for an IRQ or COP frame and an NMI on  *)
(* top of it, for any sizes of stacks the image builder admits.            *)
THEOREM StackWithinDomainCorrect == Spec => []StackWithinDomain
BY ContextInvCorrect, StacksFit, PTL

(* An NMI gives back every register, every flag and the stack as they were *)
(* at the instruction it fell on.                                          *)
THEOREM NmiTransparentCorrect == Spec => NmiTransparent
<1>1. ContextInv /\ [Next]_vars => [nmi # NoContext => Context' = nmi]_vars
  <2> SUFFICES ASSUME ContextInv, Next, nmi # NoContext PROVE Context' = nmi
    BY DEF vars
  <2>1. NmiExit
    BY DEF Next, IrqArrives, NmiEnter, Bridge, Code, Running
  <2> QED
    BY <2>1, NmiExitStep
<1> QED
  BY <1>1, ContextInvCorrect, PTL DEF Spec, NmiTransparent

-----------------------------------------------------------------------------
(* What the dispatcher is called with, and what ends at the terminal entry. *)
LEMMA HookCalled ==
  ASSUME ContextInv
  PROVE  HookJustified
<1> SUFFICES ASSUME At_pc("A816_DISPATCH", 0)
             PROVE  CalledAtBoundary /\ (ByteAt(Top, 6) = <<"reason", "cop">> => YieldIsLegal)
  BY DEF HookJustified
<1>1. cpu.pc = <<"A816_DISPATCH", 0>> /\ cpu.pc[1] = "A816_DISPATCH" /\ nmi = NoContext
  BY DEF At_pc, ContextInv, NmiInv
<1>2. Inv
  BY <1>1, Plain DEF ContextInv, NmiInv
<1> PICK d, x : d = Live /\ x = shadow[d]
  OBVIOUS
<1>3. PICK r \in {"irq", "cop"} : CallingAt(r, cpu.pc, cpu, stack)
  BY <1>1, <1>2, Phases DEF Inv
<1>4. /\ r = "cop" => YieldIsLegal
      /\ stack[d] = Frame5(x.stack, x.cpu) /\ cpu.X = SavedS(d, Len(stack[d]))
      /\ cpu.dom = Irq /\ cpu.D = Page(Irq) /\ cpu.B = Zero /\ cpu.P = Flags(TRUE)
      /\ Top = Byte(<<"reason", r>>) \o Word(cpu.X) \o ReturnAddress(<<"dispatch", 8>>)
  BY <1>1, <1>3 DEF CallingAt, Top
<1>5. IsStack(x.stack)
  BY <1>2, LiveKeeps
<1> PICK pc, u, v : pc = <<"dispatch", 8>> /\ u = <<"reason", r>> /\ v = cpu.X
  OBVIOUS
<1>6. Len(Top) = 6 /\ WordAt(Top, 4) = cpu.X /\ ByteAt(Top, 6) = <<"reason", r>>
  <2>1. LET w == (Byte(u) \o Word(v)) \o ReturnAddress(pc) IN
          Len(w) = 6 /\ WordAt(w, 4) = v /\ ByteAt(w, 6) = u
    BY ONLY CallAreaFacts
  <2> QED
    BY <1>4, <2>1
<1>7. cpu.X[1] = "sp" /\ cpu.X[2] = d /\ cpu.X[3] = Len(stack[d])
  BY <1>4 DEF SavedS
<1>8. Drop(stack[d], 13) = x.stack
  <2> PICK b, c : b = x.stack /\ c = x.cpu
    BY SMTT(60)
  <2>1. IsStack(b)
    BY <1>5
  <2>2. Drop(Frame5(b, c), 13) = b
    BY ONLY <2>1, FrameReads
  <2> QED
    BY <1>4, <2>2
<1>9. CalledAtBoundary
  BY <1>4, <1>6, <1>7, <1>8 DEF CalledAtBoundary, Live
<1>10. r = "cop" \/ <<"reason", r>> # <<"reason", "cop">>
  OBVIOUS
<1> QED
  BY <1>4, <1>6, <1>9, <1>10

LEMMA BridgeReturns ==
  ASSUME Inv, NEW t \in Task, Dispatch(t)
  PROVE  cpu'.pc = <<"dispatch", 8>>
<1>1. cpu.pc = <<"A816_DISPATCH", 0>> /\ cpu.pc[1] = "A816_DISPATCH" /\ IsCpu(cpu)
  BY LiveKeeps DEF Dispatch, At_pc
<1>2. PICK r \in {"irq", "cop"} : CallingAt(r, cpu.pc, cpu, stack)
  BY <1>1, Phases DEF Inv
<1>3. Top = Byte(<<"reason", r>>) \o Word(cpu.X) \o ReturnAddress(<<"dispatch", 8>>)
  BY <1>1, <1>2 DEF CallingAt, Top
<1> PICK pc, u, v : pc = <<"dispatch", 8>> /\ u = <<"reason", r>> /\ v = cpu.X
  OBVIOUS
<1>4. WordAt(Top, 1) = Before(pc)
  <2>1. WordAt((Byte(u) \o Word(v)) \o ReturnAddress(pc), 1) = Before(pc)
    BY ONLY CallAreaFacts
  <2> QED
    BY <1>3, <2>1
<1>5. After(WordAt(Top, 1)) = pc
  BY <1>4 DEF After, Before
<1>6. cpu' = [cpu EXCEPT !.A = saved'[t], !.X = Junk, !.Y = Junk, !.pc = After(WordAt(Top, 1))]
  BY DEF Dispatch
<1> QED
  BY <1>1, <1>5, <1>6 DEF IsCpu

(* A routine returns to the code that called it. *)
LEMMA CodeReturns ==
  ASSUME Inv, Working(cpu, stack), current \in Task, Rtl,
         \/ cpu.pc \in {<<"yield", 5>>, <<"save", 4>>, <<"restore_irq", 1>>, <<"A816_TASK_EXIT", 0>>}
         \/ cpu.pc = <<"body", current>> /\ Locals = 0
  PROVE  cpu'.pc[1] # "terminal"
<1> PICK t, m, s : t = current /\ m = Mode(current) /\ s = Top
  OBVIOUS
<1>1. IsCpu(cpu) /\ IsStack(s) /\ InTaskCode(t, cpu, s, m)
  BY TaskFacts
<1>2. cpu'.pc = After(WordAt(s, 1))
  BY <1>1 DEF Rtl, IsCpu
<1>3. ASSUME NEW after \in {"after_call", "after_save"}, Called(s, <<after, t>>) PROVE cpu'.pc[1] # "terminal"
  <2> PICK pc : pc = <<after, t>>
    OBVIOUS
  <2>1. After(WordAt(s, 1)) = pc
    BY <1>1, <1>3, CalledFacts
  <2> QED
    BY <1>2, <2>1
<1>4. ASSUME NEW k, WordAt(s, 1) = Before(<<"task_return", k>>) PROVE cpu'.pc[1] # "terminal"
  <2>1. After(WordAt(s, 1)) = <<"task_return", k>>
    BY <1>4 DEF After, Before
  <2> QED
    BY <1>2, <2>1
<1>5. CASE cpu.pc = <<"yield", 5>>
  <2>1. InYield(t, cpu, s, m)
    BY <1>1, <1>5, TaskPc
  <2>2. Called(s, <<"after_call", t>>)
    BY <1>5, <2>1 DEF InYield
  <2> QED
    BY <1>3, <2>2
<1>6. CASE cpu.pc = <<"save", 4>>
  <2>1. InSave(t, cpu, s, m)
    BY <1>1, <1>6, TaskPc
  <2>2. Called(s, <<"after_save", t>>)
    BY <1>6, <2>1 DEF InSave
  <2> QED
    BY <1>3, <2>2
<1>7. CASE cpu.pc = <<"restore_irq", 1>>
  <2>1. InRestoreIrq(t, cpu, s, m)
    BY <1>1, <1>7, TaskPc
  <2> QED
    BY <1>3, <2>1 DEF InRestoreIrq
<1>8. CASE cpu.pc = <<"A816_TASK_EXIT", 0>>
  <2> PICK pc, r : pc = <<"task_return", 4>> /\ r = Byte(Zero)
    OBVIOUS
  <2>1. InReturn(cpu, s, m)
    BY <1>1, <1>8, TaskPc
  <2>2. s = r \o ReturnAddress(pc)
    BY <1>8, <2>1 DEF InReturn
  <2>3. IsStack(r)
    BY Pieces
  <2>4. WordAt(s, 1) = Before(pc)
    BY <2>2, <2>3, PushReturn
  <2> QED
    BY <1>4, <2>4
<1>9. CASE cpu.pc = <<"body", current>> /\ Locals = 0
  <2>1. BodyStack(s)
    BY <1>1, <1>9, TaskPc
  <2>2. Len(s) = 6
    <3>1. Len(s) \in Nat
      BY <1>1, StackFacts
    <3> QED
      BY <1>9, <3>1 DEF Locals, FirstTaskOutgoing
  <2>3. WordAt(s, 1) = Before(<<"task_return", 0>>)
    BY <1>1, <2>1, <2>2, BodyBottom
  <2> QED
    BY <1>4, <2>3
<1> QED
  BY <1>5, <1>6, <1>7, <1>8, <1>9

(* Where a step goes is read off its last assignment. *)
LEMMA HasPc ==
  ASSUME IsCpu(cpu)
  PROVE  "pc" \in DOMAIN cpu /\ \A r, k : Goto(r, k) => cpu'.pc[1] = r
<1>1. "pc" \in DOMAIN cpu
  BY DEF IsCpu
<1> QED
  BY <1>1 DEF Goto

LEMMA Refused ==
  ASSUME Inv, Validate, cpu'.pc = <<"terminal", 0>>
  PROVE  At_pc("dispatch", 4) /\ ~YieldIsLegal
<1> PICK d, x : d = Live /\ x = shadow[d]
  OBVIOUS
<1>1. cpu.pc = <<"dispatch", 4>> /\ IsCpu(cpu) /\ IsStack(x.stack)
  BY LiveKeeps DEF Validate, At_pc
<1>2. PICK r \in {"irq", "cop"} : SwitchingAt(r, 4, cpu, stack)
  BY <1>1, Phases DEF Inv
<1>3. /\ cpu.Y = <<"reason", r>> /\ cpu.X[2] = d /\ stack[d] = Frame5(x.stack, x.cpu)
      /\ Entered(r, d, x, Mode(d))
  BY <1>2 DEF SwitchingAt, SavedS
<1>4. r = "cop" /\ ~CopAccepted
  <2>1. CASE r = "irq"
    <3>1. cpu' = [cpu EXCEPT !.pc = <<"dispatch", 5>>]
      BY <1>3, <2>1 DEF Validate, Goto
    <3> QED
      BY <1>1, <3>1 DEF IsCpu
  <2>2. CASE r = "cop" /\ CopAccepted
    <3>1. cpu' = [cpu EXCEPT !.A = Junk, !.Y = Junk, !.pc = <<"dispatch", 5>>]
      BY <1>3, <2>2 DEF Validate
    <3> QED
      BY <1>1, <3>1 DEF IsCpu
  <2> QED
    BY <2>1, <2>2
<1>5. ASSUME YieldIsLegal PROVE CopAccepted
  <2>1. d \in Task /\ d = current /\ ~x.cpu.P.i /\ Signature(x.cpu.pc) = 0
    BY <1>5, DomainFacts DEF YieldIsLegal, Live
  <2>2. x.cpu.D = Page(d)
    BY <1>3, <1>4, <2>1, DomainFacts DEF Entered, InCode, InTaskCode, IllegalCop
  <2>3. PAt(stack[d], 10) = x.cpu.P /\ WordAt(stack[d], 2) = Page(d) /\ WordAt(stack[d], 11) = x.cpu.pc
    <3> PICK b, c : b = x.stack /\ c = x.cpu
      OBVIOUS
    <3>1. IsStack(b)
      BY <1>1
    <3>2. PAt(Frame5(b, c), 10) = c.P /\ WordAt(Frame5(b, c), 2) = c.D /\ WordAt(Frame5(b, c), 11) = c.pc
      BY ONLY <3>1, FrameReads
    <3> QED
      BY <1>3, <2>2, <3>2
  <2>4. Kind(Page(d)) = "task"
    BY <2>1, DomainFacts DEF Kind, Page
  <2> QED
    BY <1>3, <2>1, <2>3, <2>4 DEF CopAccepted, Interrupted
<1> QED
  BY <1>1, <1>4, <1>5 DEF At_pc

LEMMA YieldRefused ==
  ASSUME Inv, Working(cpu, stack), Yield, cpu'.pc = <<"terminal", 0>>
  PROVE  At_pc("yield", 3) /\ (cpu.P.i \/ cpu.dom = Boot)
<1>1. IsCpu(cpu) /\ cpu'.pc[1] = "terminal"
  BY LiveKeeps
<1>4. ~At_pc("yield", 0) /\ ~At_pc("yield", 1) /\ ~At_pc("yield", 2)
  <2>1. ASSUME At_pc("yield", 0) PROVE FALSE
    <3>1. CheckStack(1, "yield", 1)
      BY <2>1 DEF Yield, At_pc
    <3>2. cpu'.pc = <<"yield", 1>> \/ cpu'.pc = <<"A816_STACK_OVERFLOW", 0>>
      BY <1>1, <3>1, HasPc DEF CheckStack
    <3> QED
      BY <1>1, <3>2
  <2>2. ASSUME At_pc("yield", 1) PROVE FALSE
    <3>1. Goto("yield", 2)
      BY <2>2 DEF Yield, At_pc
    <3> QED
      BY <1>1, <3>1, HasPc
  <2>3. ASSUME At_pc("yield", 2) PROVE FALSE
    <3>1. cpu' = [cpu EXCEPT !.A = StatusBit(PAt(Top, 1)), !.P.m8 = TRUE, !.pc = <<"yield", 3>>]
      BY <2>3 DEF Yield, At_pc
    <3> QED
      BY <1>1, <3>1, HasPc
  <2> QED
    BY <2>1, <2>2, <2>3
<1>2. CASE current \notin Task
  <2>1. InBootCode(cpu, Top) /\ cpu.dom = Boot
    BY <1>2, BootFacts
  <2>2. ~At_pc("yield", 5)
    BY <2>1 DEF InBootCode, At_pc
  <2>3. ~At_pc("yield", 0) /\ ~At_pc("yield", 1) /\ ~At_pc("yield", 2)
    BY <1>4
  <2>4. At_pc("yield", 3)
    BY <2>2, <2>3, Zenon DEF Yield
  <2> QED
    BY <2>1, <2>4
<1>3. CASE current \in Task
  <2>1. ~At_pc("yield", 0) /\ ~At_pc("yield", 1) /\ ~At_pc("yield", 2)
    BY <1>4
  <2>2. ~At_pc("yield", 5)
    <3>1. ASSUME At_pc("yield", 5) PROVE FALSE
      <4>1. Rtl /\ cpu.pc = <<"yield", 5>>
        BY <3>1 DEF Yield, At_pc
      <4> QED
        BY <1>1, <1>3, <4>1, CodeReturns
    <3> QED
      BY <3>1
  <2>3. At_pc("yield", 3)
    BY <2>1, <2>2, Zenon DEF Yield
  <2> PICK t, m, s : t = current /\ m = Mode(current) /\ s = Top
    OBVIOUS
  <2>4. InTaskCode(t, cpu, s, m) /\ Kind(cpu.D) = "task" /\ cpu.pc = <<"yield", 3>>
    BY <1>3, <2>3, TaskFacts DEF At_pc
  <2>5. InYield(t, cpu, s, m)
    BY <2>4, TaskPc
  <2>6. Tells(cpu.A, m) /\ (cpu.P.i <=> Holds(m))
    BY <2>4, <2>5 DEF InYield
  <2>7. cpu.A = Flag(TRUE)
    <3>1. ASSUME cpu.A # Flag(TRUE) PROVE FALSE
      <4>1. cpu' = [cpu EXCEPT !.A = Junk, !.P.m8 = FALSE, !.pc = <<"yield", 4>>]
        BY <2>4, <3>1 DEF Yield, At_pc
      <4> QED
        BY <1>1, <4>1 DEF IsCpu
    <3> QED
      BY <3>1
  <2> QED
    BY <2>3, <2>6, <2>7 DEF Tells
<1> QED
  BY <1>2, <1>3

LEMMA MachineElsewhere ==
  ASSUME IsCpu(cpu), MachineStep, ~At_pc("terminal", 0)
  PROVE  cpu'.pc[1] \in Routines
<1>0. /\ "pc" \in DOMAIN cpu /\ (\A r, k : Goto(r, k) => cpu'.pc[1] = r)
      /\ Routines = {"irq", "cop", "dispatch", "A816_DISPATCH", "restore"}
  BY HasPc DEF Routines
<1>1. ASSUME NEW r \in {"irq", "cop"}, SaveFull(r) PROVE cpu'.pc[1] \in Routines
  <2>1. CASE cpu' = [cpu EXCEPT !.P = Widened(@), !.pc = <<r, 1>>]
    BY <1>0, <2>1
  <2>2. CASE \E k \in 1..5 : Goto(r, k + 1)
    BY <1>0, <2>2
  <2>3. CASE cpu' = [cpu EXCEPT !.A = S, !.X = S, !.Y = <<"reason", r>>, !.pc = <<"dispatch", 0>>]
    BY <1>0, <2>3
  <2> QED
    BY <1>1, <2>1, <2>2, <2>3, Zenon DEF SaveFull
<1>2. CASE SwitchStack \/ SwitchPage \/ SwitchBank
  <2>1. CASE SwitchStack
    BY <1>0, <2>1 DEF SwitchStack
  <2>2. CASE SwitchPage
    BY <1>0, <2>2 DEF SwitchPage
  <2>3. CASE SwitchBank
    <3>1. CASE cpu' = [cpu EXCEPT !.P.m8 = TRUE, !.pc = <<"dispatch", 3>>]
      BY <1>0, <3>1
    <3>2. CASE cpu' = [cpu EXCEPT !.B = ByteAt(Top, 1), !.P.m8 = FALSE, !.pc = <<"dispatch", 4>>]
      BY <1>0, <3>2
    <3> QED
      BY <2>3, <3>1, <3>2, Zenon DEF SwitchBank
  <2> QED
    BY <1>2, <2>1, <2>2, <2>3
<1>3. CASE Invoke
  <2>1. CASE \/ Goto("dispatch", 6) \/ Goto("dispatch", 7) \/ Goto("A816_DISPATCH", 0) \/ Goto("restore", 0)
    BY <1>0, <2>1
  <2> QED
    BY <1>3, <2>1, Zenon DEF Invoke, ReserveArguments, StoreArguments
<1>4. CASE Restore
  <2>1. CASE cpu' = [cpu EXCEPT !.P = Flags(TRUE), !.pc = <<"restore", 1>>]
    BY <1>0, <2>1
  <2>3. CASE cpu' = [cpu EXCEPT !.dom = cpu.A[2], !.pc = <<"restore", 2>>]
    <3>1. cpu'.pc = <<"restore", 2>>
      BY <1>0, <2>3
    <3> QED
      BY <1>0, <3>1
  <2>2. CASE \E k \in 1..5 : cpu' = [cpu EXCEPT ![RestoreOrder[k]] = Pulled(RestoreOrder[k]),
                                !.pc = <<"restore", k + 2>>]
    <3>1. PICK k \in 1..5 : cpu' = [cpu EXCEPT ![RestoreOrder[k]] = Pulled(RestoreOrder[k]),
                                !.pc = <<"restore", k + 2>>]
      BY <2>2
    <3> PICK f : f = RestoreOrder[k]
      OBVIOUS
    <3> PICK v : v = Pulled(f)
      OBVIOUS
    <3>2. cpu' = [cpu EXCEPT ![f] = v, !.pc = <<"restore", k + 2>>]
      BY <3>1
    <3>3. cpu'.pc = <<"restore", k + 2>>
      BY <1>0, <3>2
    <3> QED
      BY <1>0, <3>3
  <2> QED
    BY <1>4, <2>1, <2>2, <2>3, Zenon DEF Restore
<1>5. CASE Terminal
  BY <1>5 DEF Terminal
<1> QED
  BY <1>1, <1>2, <1>3, <1>4, <1>5 DEF MachineStep

LEMMA CodeElsewhere ==
  ASSUME Inv, Working(cpu, stack), Code, cpu'.pc = <<"terminal", 0>>, ~At_pc("terminal", 0)
  PROVE  \/ At_pc("task_return", 4)
         \/ At_pc("yield", 3) /\ (cpu.P.i \/ cpu.dom = Boot)
<1>0. /\ "pc" \in DOMAIN cpu /\ (\A r, k : Goto(r, k) => cpu'.pc[1] = r)
      /\ cpu'.pc[1] = "terminal"
  BY LiveKeeps, HasPc
<1>1. ASSUME NEW n, NEW r \in {"save", "task_return"}, NEW k, CheckStack(n, r, k) PROVE FALSE
  <2>1. cpu'.pc = <<r, k>> \/ cpu'.pc = <<"A816_STACK_OVERFLOW", 0>>
    BY <1>0, <1>1 DEF CheckStack
  <2> QED
    BY <1>0, <2>1
<1>2. ASSUME NEW a, NEW t, NEW routine, NEW after, Call(t, a, routine, after), routine # "terminal" PROVE FALSE
  <2>1. Goto(routine, 0) \/ Goto("A816_STACK_OVERFLOW", 0)
    BY <1>2 DEF Call, Overflow
  <2> QED
    BY <1>0, <1>2, <2>1
<1>3. ASSUME NEW t, NEW w, cpu' = Computes(t, w) PROVE FALSE
  <2>1. cpu'.pc = <<"body", t>>
    BY <1>0, <1>3 DEF Computes
  <2> QED
    BY <1>0, <2>1
<1>4. ASSUME cpu' = cpu PROVE FALSE
  BY <1>4 DEF At_pc
<1>5. ASSUME Rtl,
         \/ cpu.pc \in {<<"save", 4>>, <<"restore_irq", 1>>, <<"A816_TASK_EXIT", 0>>}
         \/ \E t \in Task : cpu.pc = <<"body", t>> /\ Locals = 0
      PROVE  FALSE
  <2>1. current \in Task
    <3>1. CASE current \notin Task
      <4>1. InBootCode(cpu, Top)
        BY <3>1, BootFacts
      <4>2. cpu.pc[1] \in {"boot", "yield", "terminal"}
        BY <4>1 DEF InBootCode
      <4>3. cpu.pc[1] \in {"save", "restore_irq", "A816_TASK_EXIT", "body"}
        BY <1>5
      <4> QED
        BY <4>2, <4>3
    <3> QED
      BY <3>1
  <2>2. \/ cpu.pc \in {<<"save", 4>>, <<"restore_irq", 1>>, <<"A816_TASK_EXIT", 0>>}
        \/ cpu.pc = <<"body", current>> /\ Locals = 0
    BY <1>5, BodyFacts
  <2> QED
    BY <1>0, <1>5, <2>1, <2>2, CodeReturns
<1>6. CASE Yield
  BY <1>6, YieldRefused
<1>7. ~SaveDisable
  <2>1. SaveDisable =>
          \/ CheckStack(1, "save", 1) \/ Goto("save", 2)
          \/ cpu' = [cpu EXCEPT !.P.i = TRUE, !.pc = <<"save", 3>>]
          \/ cpu' = [cpu EXCEPT !.A = StatusBit(PAt(Top, 1)), !.pc = <<"save", 4>>]
          \/ At_pc("save", 4) /\ Rtl
    BY Zenon DEF SaveDisable
  <2>2. cpu' # [cpu EXCEPT !.P.i = TRUE, !.pc = <<"save", 3>>]
    <3>1. ASSUME cpu' = [cpu EXCEPT !.P.i = TRUE, !.pc = <<"save", 3>>] PROVE FALSE
      <4>1. cpu'.pc = <<"save", 3>>
        BY <1>0, <3>1
      <4> QED
        BY <1>0, <4>1
    <3> QED
      BY <3>1
  <2>3. cpu' # [cpu EXCEPT !.A = StatusBit(PAt(Top, 1)), !.pc = <<"save", 4>>]
    <3>1. ASSUME cpu' = [cpu EXCEPT !.A = StatusBit(PAt(Top, 1)), !.pc = <<"save", 4>>] PROVE FALSE
      <4>1. cpu'.pc = <<"save", 4>>
        BY <1>0, <3>1
      <4> QED
        BY <1>0, <4>1
    <3> QED
      BY <3>1
  <2>4. ~Goto("save", 2)
    BY <1>0
  <2> QED
    BY <1>1, <1>5, <2>1, <2>2, <2>3, <2>4 DEF At_pc
<1>8. ~RestoreIrq
  <2>1. RestoreIrq =>
          \/ cpu' = [cpu EXCEPT !.A = Junk, !.P.i = TokenMasks(Top), !.pc = <<"restore_irq", 1>>]
          \/ At_pc("restore_irq", 1) /\ Rtl
    BY Zenon DEF RestoreIrq
  <2>2. cpu' # [cpu EXCEPT !.A = Junk, !.P.i = TokenMasks(Top), !.pc = <<"restore_irq", 1>>]
    <3>1. ASSUME cpu' = [cpu EXCEPT !.A = Junk, !.P.i = TokenMasks(Top), !.pc = <<"restore_irq", 1>>] PROVE FALSE
      <4>1. cpu'.pc = <<"restore_irq", 1>>
        BY <1>0, <3>1
      <4> QED
        BY <1>0, <4>1
    <3> QED
      BY <3>1
  <2> QED
    BY <1>5, <2>1, <2>2 DEF At_pc
<1>9. CASE TaskReturn
  <2>1. \/ Goto("task_return", 1) \/ CheckStack(4, "task_return", 2) \/ Goto("task_return", 3)
        \/ Goto("A816_TASK_EXIT", 0) \/ At_pc("task_return", 4)
    BY <1>9, Zenon DEF TaskReturn
  <2>2. ~Goto("task_return", 1) /\ ~Goto("task_return", 3) /\ ~Goto("A816_TASK_EXIT", 0)
    BY <1>0
  <2> QED
    BY <1>1, <2>1, <2>2
<1>10. ~ExitReturns
  BY <1>5 DEF ExitReturns, At_pc
<1>11. ~BootYields
  <2>1. ASSUME NEW i, cpu' = [cpu EXCEPT !.P.i = i, !.pc = <<"yield", 0>>] PROVE FALSE
    BY <1>0, <2>1
  <2> QED
    BY <2>1 DEF BootYields
<1>12. ASSUME NEW t \in Task PROVE ~SetWidths(t) /\ ~PushLocal(t) /\ ~PopLocal(t) /\ ~CallYield(t)
           /\ ~CallSaveDisable(t) /\ ~BodyReturns(t) /\ ~CallRestore(t) /\ ~AfterCall(t)
  <2>1. ~SetWidths(t) /\ ~AfterCall(t)
    BY <1>3 DEF SetWidths, AfterCall
  <2>2. ~PushLocal(t) /\ ~PopLocal(t)
    <3>1. PushLocal(t) \/ PopLocal(t) => cpu' = cpu \/ Goto("A816_STACK_OVERFLOW", 0)
      BY DEF PushLocal, PopLocal, Overflow
    <3> QED
      BY <1>0, <1>4, <3>1
  <2>3. ~CallYield(t) /\ ~CallSaveDisable(t) /\ ~CallRestore(t)
    BY <1>2 DEF CallYield, CallSaveDisable, CallRestore
  <2>4. ~BodyReturns(t)
    BY <1>5 DEF BodyReturns, AtBoundary, InBody, At_pc
  <2> QED
    BY <2>1, <2>2, <2>3, <2>4
<1>13. ~YieldCop /\ \A t \in Task : ~RawCop(t)
  <2>1. ASSUME NEW pc, Cop(pc) PROVE FALSE
    <3>1. cpu' = [cpu EXCEPT !.P.i = TRUE, !.pc = <<"cop", 0>>]
      BY <2>1 DEF Cop, Interrupt
    <3>2. cpu'.pc = <<"cop", 0>>
      BY <1>0, <3>1
    <3> QED
      BY <1>0, <3>2
  <2> QED
    BY <2>1 DEF YieldCop, RawCop
<1>14. ASSUME NEW t \in Task PROVE ~TaskExit(t) /\ ~BootStart(t)
  <2>1. cpu' # [cpu EXCEPT !.A = saved[t], !.P.i = TRUE, !.pc = <<"restore", 0>>]
    <3>1. ASSUME cpu' = [cpu EXCEPT !.A = saved[t], !.P.i = TRUE, !.pc = <<"restore", 0>>] PROVE FALSE
      <4>1. cpu'.pc = <<"restore", 0>>
        BY <1>0, <3>1
      <4> QED
        BY <1>0, <4>1
    <3> QED
      BY <3>1
  <2>2. cpu' # [cpu EXCEPT !.A = saved[t], !.pc = <<"restore", 0>>]
    <3>1. ASSUME cpu' = [cpu EXCEPT !.A = saved[t], !.pc = <<"restore", 0>>] PROVE FALSE
      <4>1. cpu'.pc = <<"restore", 0>>
        BY <1>0, <3>1
      <4> QED
        BY <1>0, <4>1
    <3> QED
      BY <3>1
  <2> QED
    BY <2>1, <2>2, Zenon DEF TaskExit, BootStart
<1>15. CodeStep \/ OtherCodeStep
  BY DEF Code
<1> QED
  BY <1>6, <1>7, <1>8, <1>9, <1>10, <1>11, <1>12, <1>13, <1>14, <1>15, Zenon DEF CodeStep, OtherCodeStep

LEMMA Ends ==
  ASSUME ContextInv, Next
  PROVE  TerminalJustified
<1> SUFFICES ASSUME cpu'.pc = <<"terminal", 0>>, ~At_pc("terminal", 0), nmi = NoContext, ~At_pc("restore", 7)
             PROVE  \/ At_pc("task_return", 4)
                    \/ At_pc("yield", 3) /\ (cpu.P.i \/ cpu.dom = Boot)
                    \/ At_pc("dispatch", 4) /\ ~YieldIsLegal
  BY DEF TerminalJustified, At_pc
<1>1. Inv /\ IsCpu(cpu) /\ "pc" \in DOMAIN cpu /\ cpu'.pc[1] = "terminal"
  BY Plain, HasPc DEF ContextInv, NmiInv
<1>2. ~IrqArrives
  <2>1. cpu' # [cpu EXCEPT !.P.i = TRUE, !.pc = <<"irq", 0>>]
    <3>1. ASSUME cpu' = [cpu EXCEPT !.P.i = TRUE, !.pc = <<"irq", 0>>] PROVE FALSE
      <4>1. cpu'.pc = <<"irq", 0>>
        BY <1>1, <3>1
      <4> QED
        BY <1>1, <4>1
    <3> QED
      BY <3>1
  <2> QED
    BY <2>1 DEF IrqArrives, Interrupt
<1>3. ~NmiEnter
  <2>1. cpu' # [cpu EXCEPT !.P = [i |-> TRUE, m8 |-> TRUE, x8 |-> FALSE], !.A = Junk, !.pc = <<"nmi", 0>>]
    <3>1. ASSUME cpu' = [cpu EXCEPT !.P = [i |-> TRUE, m8 |-> TRUE, x8 |-> FALSE], !.A = Junk, !.pc = <<"nmi", 0>>] PROVE FALSE
      <4>1. cpu'.pc = <<"nmi", 0>>
        BY <1>1, <3>1
      <4> QED
        BY <1>1, <4>1
    <3> QED
      BY <3>1
  <2> QED
    BY <2>1, Zenon DEF NmiEnter
<1>4. ~NmiExit
  BY NmiExitStep
<1>5. CASE Bridge
  <2>1. ~MachineStep
    BY <1>1, MachineElsewhere DEF Routines, At_pc
  <2>2. ~ReturnFromInterrupt
    BY Zenon DEF ReturnFromInterrupt
  <2>3. \A t \in Task : ~Dispatch(t)
    <3>1. ASSUME NEW t \in Task, Dispatch(t) PROVE FALSE
      <4>1. cpu'.pc = <<"dispatch", 8>>
        BY <1>1, <3>1, BridgeReturns
      <4> QED
        BY <1>1, <4>1
    <3> QED
      BY <3>1
  <2>4. Validate
    BY <1>5, <2>1, <2>2, <2>3, Zenon DEF Bridge, OtherBridgeStep
  <2> QED
    BY <1>1, <2>4, Refused
<1>6. CASE Code
  BY <1>1, <1>6, CodeWorks, CodeElsewhere
<1> QED
  BY <1>2, <1>3, <1>4, <1>5, <1>6 DEF Next

(* The dispatcher is called at the native boundary with what interrupted   *)
(* the task, hears only of legal yields, and no legal yield is refused.    *)
THEOREM DispatchContractCorrect == Spec => DispatchContract
<1>1. ContextInv /\ ContextInv' /\ [Next]_vars => [HookJustified' /\ TerminalJustified]_vars
  <2> SUFFICES ASSUME ContextInv, ContextInv', Next PROVE HookJustified' /\ TerminalJustified
    BY DEF vars
  <2>1. HookJustified'
    BY HookCalled, PTL
  <2> QED
    BY <2>1, Ends
<1> QED
  BY <1>1, ContextInvCorrect, PTL DEF Spec, DispatchContract
-----------------------------------------------------------------------------
(* The bridge as a ContextSwitch: the task that has the processor, and     *)
(* every task's context.                                                   *)
Contexts == [t \in Task |-> IF HasCpu(t) THEN Here ELSE shadow[t]]
Runs == IF \E t \in Task : HasCpu(t) THEN Here.cpu.dom ELSE None

LEMMA Holder ==
  /\ Here.cpu.dom \in Task /\ Here.cpu.pc[1] \notin Routines =>
       /\ Runs = Here.cpu.dom /\ Contexts[Here.cpu.dom] = Here
       /\ \A u \in Task : u # Here.cpu.dom => Contexts[u] = shadow[u]
  /\ Here.cpu.dom \notin Task \/ Here.cpu.pc[1] \in Routines =>
       Runs = None /\ Contexts = [t \in Task |-> shadow[t]]
BY DEF Runs, Contexts, HasCpu, InBridge

(* The steps of the abstract specification, in these terms. *)
LEMMA AbstractStutter ==
  ASSUME Contexts' = Contexts, Runs' = Runs
  PROVE  [Tasks!Next]_(Tasks!vars)
BY DEF Tasks!vars, Contexts, Runs

LEMMA AbstractRun ==
  ASSUME NEW d, d = Runs, d # None, Runs' = d, \A u \in Task : u # d => Contexts'[u] = Contexts[u],
         Contexts'[d] # NoContext
  PROVE  Tasks!Next
BY DEF Tasks!Next, Tasks!Run, Tasks!OthersKeep, Contexts, Runs

LEMMA AbstractPreempt ==
  ASSUME Runs # None, Runs' = None, Contexts' = Contexts, ~Contexts[Runs].cpu.P.i
  PROVE  Tasks!Next
BY DEF Tasks!Next, Tasks!Preempt, MaskedContext, Contexts, Runs

LEMMA AbstractGiveUp ==
  ASSUME NEW d, d = Runs, d # None, Runs' = None, \A u \in Task : u # d => Contexts'[u] = Contexts[u]
  PROVE  Tasks!Next
<1>1. CASE Contexts'[d] # NoContext
  BY <1>1 DEF Tasks!Next, Tasks!GiveUp, Tasks!OthersKeep, Contexts, Runs
<1>2. CASE Contexts'[d] = NoContext
  BY <1>2 DEF Tasks!Next, Tasks!Leave, Tasks!OthersKeep, Contexts, Runs
<1> QED
  BY <1>1, <1>2

LEMMA AbstractResume ==
  ASSUME NEW t \in Task, Runs = None, Runs' = t, Contexts' = Contexts, Contexts[t] # NoContext
  PROVE  Tasks!Next
BY DEF Tasks!Next, Tasks!Resume, Contexts, Runs

-----------------------------------------------------------------------------
(* A context somewhere in the code is not that of a task that left. *)
LEMMA Alive ==
  ASSUME NEW x, x.cpu.pc[1] # "junk"
  PROVE  x # NoContext
BY DEF NoContext, BootCpu, Junk

LEMMA PcAlive ==
  ASSUME NEW c, NEW st, BridgeInv(c, st)
  PROVE  c.pc[1] # "junk"
BY PcFacts

LEMMA CodePc ==
  ASSUME NEW t, NEW c, NEW s, NEW m, InTaskCode(t, c, s, m)
  PROVE  c.pc[1] \notin Routines /\ c.pc[1] # "junk" /\ c.dom = t
BY DEF InTaskCode, InYield, InSave, InRestoreIrq, InReturn, Routines

(* While NoContext is all that is kept for the live task, execution is not *)
(* in the bridge.                                                          *)
LEMMA NotInBridge ==
  ASSUME NEW c, NEW st, BridgeInv(c, st), current \in Task, shadow[current] = NoContext
  PROVE  c.pc[1] \notin Routines
<1> PICK x : x = shadow[current]
  OBVIOUS
<1>1. Live = current /\ current # Boot
  BY DomainFacts DEF Live
<1>2. x.cpu.pc[1] = "junk"
  BY DEF NoContext, BootCpu, Junk
<1>3. \A s, m : ~InTaskCode(current, x.cpu, s, m)
  BY <1>2, CodePc
<1>4. \A s, m : ~InCode(current, x.cpu, s, m) /\ ~IllegalCop(current, x.cpu, s)
  BY <1>1, <1>2, <1>3 DEF InCode, IllegalCop
<1>5. \A r \in {"irq", "cop"} : \A m : ~Entered(r, current, x, m)
  BY <1>4 DEF Entered
<1>6. ~Saving(c, st)
  BY <1>1, <1>5 DEF Saving, SavingAt
<1>7. ~Switching(c, st)
  BY <1>1, <1>5 DEF Switching, SwitchingAt
<1>8. ~Calling(c, st)
  BY <1>1, <1>4 DEF Calling, CallingAt
<1>9. ~Chosen(c, st)
  BY <1>3 DEF Chosen, Suspended, Resumable
<1>10. ~Restoring(c, st)
  BY <1>3 DEF Restoring, RestoringAt
<1>11. Working(c, st) \/ Over(c, st)
  BY <1>6, <1>7, <1>8, <1>9, <1>10 DEF BridgeInv, Phase
<1>12. CASE Working(c, st)
  BY <1>12, CodePc, DomainFacts DEF Working
<1>13. CASE Over(c, st)
  BY <1>13 DEF Over, Routines
<1> QED
  BY <1>11, <1>12, <1>13

(* No code but a switch of S changes the domain, which only the bridge has.*)
LEMMA CodeStays ==
  ASSUME IsCpu(cpu), CodeStep \/ \E t \in Task : CallRestore(t) \/ AfterCall(t)
  PROVE  cpu'.dom = cpu.dom
<1>0. "dom" \in DOMAIN cpu /\ \A r, k : Goto(r, k) => cpu'.dom = cpu.dom
  <2>1. "dom" \in DOMAIN cpu
    BY DEF IsCpu
  <2> QED
    BY <2>1 DEF Goto
<1>1. ASSUME NEW n, NEW r, NEW k, CheckStack(n, r, k) PROVE cpu'.dom = cpu.dom
  BY <1>0, <1>1 DEF CheckStack
<1>2. ASSUME NEW a, NEW t, NEW routine, NEW after, Call(t, a, routine, after) PROVE cpu'.dom = cpu.dom
  BY <1>0, <1>2, Zenon DEF Call, Overflow
<1>3. ASSUME NEW t, NEW w, cpu' = Computes(t, w) PROVE cpu'.dom = cpu.dom
  BY <1>0, <1>3 DEF Computes
<1>4. Rtl => cpu'.dom = cpu.dom
  BY <1>0 DEF Rtl
<1>5. Yield => cpu'.dom = cpu.dom
  <2>1. cpu' = [cpu EXCEPT !.A = StatusBit(PAt(Top, 1)), !.P.m8 = TRUE, !.pc = <<"yield", 3>>] => cpu'.dom = cpu.dom
    BY <1>0
  <2>2. cpu' = [cpu EXCEPT !.A = Junk, !.P.m8 = FALSE, !.pc = <<"yield", 4>>] => cpu'.dom = cpu.dom
    BY <1>0
  <2> QED
    BY <1>0, <1>1, <1>4, <2>1, <2>2, Zenon DEF Yield
<1>6. SaveDisable => cpu'.dom = cpu.dom
  <2>1. cpu' = [cpu EXCEPT !.P.i = TRUE, !.pc = <<"save", 3>>] => cpu'.dom = cpu.dom
    BY <1>0
  <2>2. cpu' = [cpu EXCEPT !.A = StatusBit(PAt(Top, 1)), !.pc = <<"save", 4>>] => cpu'.dom = cpu.dom
    BY <1>0
  <2> QED
    BY <1>0, <1>1, <1>4, <2>1, <2>2, Zenon DEF SaveDisable
<1>7. RestoreIrq => cpu'.dom = cpu.dom
  <2>1. cpu' = [cpu EXCEPT !.A = Junk, !.P.i = TokenMasks(Top), !.pc = <<"restore_irq", 1>>] => cpu'.dom = cpu.dom
    BY <1>0
  <2> QED
    BY <1>4, <2>1, Zenon DEF RestoreIrq
<1>8. TaskReturn \/ ExitReturns => cpu'.dom = cpu.dom
  BY <1>0, <1>1, <1>4, Zenon DEF TaskReturn, ExitReturns
<1>9. BootYields => cpu'.dom = cpu.dom
  <2>1. ASSUME NEW i, cpu' = [cpu EXCEPT !.P.i = i, !.pc = <<"yield", 0>>] PROVE cpu'.dom = cpu.dom
    BY <1>0, <2>1
  <2> QED
    BY <2>1 DEF BootYields
<1>10. ASSUME NEW t \in Task,
              \/ SetWidths(t) \/ PushLocal(t) \/ PopLocal(t) \/ CallYield(t) \/ CallSaveDisable(t)
              \/ BodyReturns(t) \/ CallRestore(t) \/ AfterCall(t)
       PROVE  cpu'.dom = cpu.dom
  <2>1. SetWidths(t) \/ AfterCall(t) => cpu'.dom = cpu.dom
    BY <1>3 DEF SetWidths, AfterCall
  <2>2. PushLocal(t) \/ PopLocal(t) => cpu'.dom = cpu.dom
    <3>1. PushLocal(t) \/ PopLocal(t) => cpu' = cpu \/ Goto("A816_STACK_OVERFLOW", 0)
      BY DEF PushLocal, PopLocal, Overflow
    <3> QED
      BY <1>0, <3>1
  <2>3. CallYield(t) \/ CallSaveDisable(t) \/ CallRestore(t) => cpu'.dom = cpu.dom
    BY <1>2 DEF CallYield, CallSaveDisable, CallRestore
  <2>4. BodyReturns(t) => cpu'.dom = cpu.dom
    BY <1>4 DEF BodyReturns
  <2> QED
    BY <1>10, <2>1, <2>2, <2>3, <2>4
<1> QED
  BY <1>5, <1>6, <1>7, <1>8, <1>9, <1>10 DEF CodeStep

-----------------------------------------------------------------------------
(* Each step of the bridge, of its routines and of code, seen from the     *)
(* tasks.                                                                  *)
LEMMA NotInBridgeNow ==
  Inv /\ (current \in Task /\ shadow[current] = NoContext) => cpu.pc[1] \notin Routines
BY NotInBridge DEF Inv

LEMMA PcAliveNow == Inv => cpu.pc[1] # "junk"
BY PcAlive DEF Inv

LEMMA PlainCodeRefines ==
  ASSUME Inv, Inv', Working(cpu, stack), nmi = NoContext, nmi' = NoContext,
         shadow' = shadow, current' = current, cpu'.dom = cpu.dom
  PROVE  [Tasks!Next]_(Tasks!vars)
<1>1. Here = Context /\ Here.cpu = cpu /\ Here' = Context' /\ Here'.cpu = cpu'
  BY DEF Here, Context
<1>2. CASE current \in Task
  <2> PICK t, m, s : t = current /\ m = Mode(current) /\ s = Top
    OBVIOUS
  <2>1. InTaskCode(t, cpu, s, m) /\ cpu.dom = t /\ shadow[t] = NoContext /\ t \in Task /\ t # None
    BY <1>2, TaskFacts, DomainFacts DEF Working
  <2>2. cpu.pc[1] \notin Routines
    BY <2>1, CodePc
  <2>3. Runs = t /\ \A u \in Task : u # t => Contexts[u] = shadow[u]
    BY <1>1, <2>1, <2>2, Holder
  <2>4. (/\ current \in Task /\ shadow[current] = NoContext)'
    BY <1>2, <2>1
  <2>5. cpu'.pc[1] \notin Routines
    <3>1. (Inv /\ (current \in Task /\ shadow[current] = NoContext) => cpu.pc[1] \notin Routines)'
      BY NotInBridgeNow, PTL
    <3> QED
      BY <2>4, <3>1
  <2>6. cpu'.pc[1] # "junk"
    <3>1. (Inv => cpu.pc[1] # "junk")'
      BY PcAliveNow, PTL
    <3> QED
      BY <3>1
  <2>7. Runs' = t /\ Contexts'[t] = Context' /\ \A u \in Task : u # t => Contexts'[u] = shadow'[u]
    <3>1. (/\ Here.cpu.dom \in Task /\ Here.cpu.pc[1] \notin Routines =>
                /\ Runs = Here.cpu.dom /\ Contexts[Here.cpu.dom] = Here
                /\ \A u \in Task : u # Here.cpu.dom => Contexts[u] = shadow[u])'
      BY Holder, PTL
    <3> QED
      BY <1>1, <2>1, <2>5, <3>1
  <2>8. Context' # NoContext
    <3>1. Context'.cpu = cpu'
      BY DEF Context
    <3> QED
      BY <2>6, <3>1, Alive
  <2> QED
    BY <2>1, <2>3, <2>7, <2>8, AbstractRun
<1>3. CASE current \notin Task
  <2>1. cpu.dom \notin Task
    BY <1>3, BootFacts, DomainFacts
  <2>2. Runs = None /\ Contexts = [t \in Task |-> shadow[t]]
    BY <1>1, <2>1, Holder
  <2>3. Runs' = None /\ Contexts' = [t \in Task |-> shadow'[t]]
    <3>1. (Here.cpu.dom \notin Task => Runs = None /\ Contexts = [t \in Task |-> shadow[t]])'
      BY Holder, PTL
    <3> QED
      BY <1>1, <2>1, <3>1
  <2> QED
    BY <2>2, <2>3, AbstractStutter
<1> QED
  BY <1>2, <1>3

(* In the bridge before and after: no task can tell.                       *)
LEMMA Invisible ==
  ASSUME nmi = NoContext, nmi' = NoContext, cpu.dom \notin Task \/ cpu.pc[1] \in Routines,
         cpu'.dom \notin Task \/ cpu'.pc[1] \in Routines,
         \A t \in Task : shadow'[t] = shadow[t]
  PROVE  [Tasks!Next]_(Tasks!vars)
<1>1. Here.cpu = cpu /\ Here'.cpu = cpu'
  BY DEF Here, Context
<1>2. Runs = None /\ Contexts = [t \in Task |-> shadow[t]]
  BY <1>1, Holder
<1>3. Runs' = None /\ Contexts' = [t \in Task |-> shadow'[t]]
  <2>1. (Here.cpu.dom \notin Task \/ Here.cpu.pc[1] \in Routines =>
           Runs = None /\ Contexts = [t \in Task |-> shadow[t]])'
    BY Holder, PTL
  <2> QED
    BY <1>1, <2>1
<1>4. Contexts' = Contexts
  BY <1>2, <1>3
<1> QED
  BY <1>2, <1>3, <1>4, AbstractStutter

(* The processor leaves the task in a known context.                       *)
LEMMA Surrenders ==
  ASSUME Inv, Working(cpu, stack), nmi = NoContext, nmi' = NoContext, current \in Task,
         cpu'.pc[1] \in Routines
  PROVE  /\ Runs = current /\ current # None /\ Runs' = None /\ Contexts[current] = Context
         /\ \A u \in Task : u # current => Contexts[u] = shadow[u]
         /\ \A u \in Task : Contexts'[u] = shadow'[u]
<1>0. (Here.cpu.dom \notin Task \/ Here.cpu.pc[1] \in Routines =>
         Runs = None /\ Contexts = [t \in Task |-> shadow[t]])'
  BY Holder, PTL
<1>1. Here = Context /\ Here.cpu = cpu /\ Here'.cpu = cpu'
  BY DEF Here, Context
<1> PICK t, m, s : t = current /\ m = Mode(current) /\ s = Top
  OBVIOUS
<1>2. InTaskCode(t, cpu, s, m) /\ cpu.dom = t /\ t # None /\ t \in Task
  BY TaskFacts, DomainFacts
<1>3. cpu.pc[1] \notin Routines
  BY <1>2, CodePc
<1>4. Runs = t /\ Contexts[t] = Context /\ \A u \in Task : u # t => Contexts[u] = shadow[u]
  BY <1>1, <1>2, <1>3, Holder
<1>5. Runs' = None /\ Contexts' = [u \in Task |-> shadow'[u]]
  BY <1>0, <1>1
<1> QED
  BY <1>2, <1>4, <1>5

LEMMA IrqRefines ==
  ASSUME Inv, IrqArrives
  PROVE  [Tasks!Next]_(Tasks!vars)
<1>1. /\ Working(cpu, stack) /\ ~cpu.P.i /\ nmi = NoContext /\ nmi' = NoContext
      /\ IsCpu(cpu) /\ "pc" \in DOMAIN cpu /\ Routines = {"irq", "cop", "dispatch", "A816_DISPATCH", "restore"}
  BY Phases, LiveKeeps, HasPc DEF Inv, IrqArrives, Running, Routines
<1>2. cpu'.pc[1] \in Routines
  <2>1. cpu' = [cpu EXCEPT !.P.i = TRUE, !.pc = <<"irq", 0>>]
    BY DEF IrqArrives, Interrupt
  <2>2. cpu'.pc = <<"irq", 0>>
    BY <1>1, <2>1
  <2> QED
    BY <1>1, <2>2
<1>3. shadow' = [shadow EXCEPT ![cpu.dom] = Context] /\ shadow = [d \in Domain |-> shadow[d]]
  BY LiveKeeps DEF IrqArrives, Typed
<1>4. CASE current \in Task
  <2>1. cpu.dom = current /\ current \in Domain
    BY <1>1, <1>4, TaskFacts, DomainFacts
  <2>2. shadow'[current] = Context /\ \A u \in Task : u # current => shadow'[u] = shadow[u]
    BY <1>3, <2>1, DomainFacts
  <2>3. \A u \in Task : Contexts'[u] = Contexts[u]
    BY <1>1, <1>2, <1>4, <2>2, Surrenders
  <2>4. Contexts' = Contexts
    BY <2>3 DEF Contexts
  <2>5. ~Contexts[Runs].cpu.P.i
    BY <1>1, <1>2, <1>4, Surrenders DEF Context
  <2> QED
    BY <1>1, <1>2, <1>4, <2>4, <2>5, Surrenders, AbstractPreempt
<1>5. CASE current \notin Task
  <2>1. cpu.dom \notin Task
    BY <1>1, <1>5, BootFacts, DomainFacts
  <2>2. \A u \in Task : shadow'[u] = shadow[u]
    BY <1>3, <2>1, DomainFacts
  <2> QED
    BY <1>1, <1>2, <2>1, <2>2, Invisible
<1> QED
  BY <1>4, <1>5

LEMMA CopRefines ==
  ASSUME Inv, Working(cpu, stack), nmi = NoContext, NEW pc, Cop(pc), current \in Task
  PROVE  [Tasks!Next]_(Tasks!vars)
<1>1. /\ nmi' = NoContext /\ IsCpu(cpu) /\ "pc" \in DOMAIN cpu /\ cpu.dom = current
      /\ Routines = {"irq", "cop", "dispatch", "A816_DISPATCH", "restore"}
  BY LiveKeeps, TaskFacts, HasPc DEF Cop, Routines
<1>2. cpu'.pc[1] \in Routines
  <2>1. cpu' = [cpu EXCEPT !.P.i = TRUE, !.pc = <<"cop", 0>>]
    BY DEF Cop, Interrupt
  <2>2. cpu'.pc = <<"cop", 0>>
    BY <1>1, <2>1
  <2> QED
    BY <1>1, <2>2
<1>3. \A u \in Task : u # current => shadow'[u] = shadow[u]
  <2> PICK x : x = [Context EXCEPT !.cpu.pc = pc]
    OBVIOUS
  <2>1. shadow' = [shadow EXCEPT ![cpu.dom] = x] /\ shadow = [d \in Domain |-> shadow[d]]
    BY LiveKeeps DEF Cop, Typed
  <2> QED
    BY <1>1, <2>1, DomainFacts
<1>4. \A u \in Task : u # current => Contexts'[u] = Contexts[u]
  BY <1>1, <1>2, <1>3, Surrenders
<1> QED
  BY <1>1, <1>2, <1>4, Surrenders, AbstractGiveUp

LEMMA ExitRefines ==
  ASSUME Inv, Working(cpu, stack), nmi = NoContext, NEW t \in Task, TaskExit(t)
  PROVE  [Tasks!Next]_(Tasks!vars)
<1>1. /\ nmi' = NoContext /\ "pc" \in DOMAIN cpu /\ shadow' = shadow /\ cpu.pc[1] = "A816_TASK_EXIT"
      /\ Routines = {"irq", "cop", "dispatch", "A816_DISPATCH", "restore"}
  BY LiveKeeps, HasPc DEF TaskExit, At_pc, Routines
<1>2. current \in Task
  BY <1>1, BootFacts DEF InBootCode
<1>3. cpu'.pc[1] \in Routines
  <2>1. cpu' = [cpu EXCEPT !.A = saved[t], !.P.i = TRUE, !.pc = <<"restore", 0>>]
    BY DEF TaskExit
  <2>2. cpu'.pc = <<"restore", 0>>
    BY <1>1, <2>1
  <2> QED
    BY <1>1, <2>2
<1>4. \A u \in Task : u # current => Contexts'[u] = Contexts[u]
  BY <1>1, <1>2, <1>3, Surrenders
<1> QED
  BY <1>1, <1>2, <1>3, <1>4, Surrenders, AbstractGiveUp

LEMMA BootStartRefines ==
  ASSUME Inv, Working(cpu, stack), nmi = NoContext, NEW t \in Task, BootStart(t)
  PROVE  [Tasks!Next]_(Tasks!vars)
<1>1. /\ nmi' = NoContext /\ "pc" \in DOMAIN cpu /\ shadow' = shadow /\ cpu.pc[1] = "boot"
      /\ Routines = {"irq", "cop", "dispatch", "A816_DISPATCH", "restore"}
  BY LiveKeeps, HasPc DEF BootStart, At_pc, Routines
<1>2. cpu.dom \notin Task
  <2>1. CASE current \in Task
    <3>1. InTaskCode(current, cpu, Top, Mode(current))
      BY <2>1, TaskFacts
    <3> QED
      BY <1>1, <3>1, TaskPc
  <2>2. CASE current \notin Task
    BY <2>2, BootFacts, DomainFacts
  <2> QED
    BY <2>1, <2>2
<1>3. cpu'.pc[1] \in Routines
  <2>1. cpu' = [cpu EXCEPT !.A = saved[t], !.pc = <<"restore", 0>>]
    BY DEF BootStart
  <2>2. cpu'.pc = <<"restore", 0>>
    BY <1>1, <2>1
  <2> QED
    BY <1>1, <2>2
<1> QED
  BY <1>1, <1>2, <1>3, Invisible

LEMMA CodeRefines ==
  ASSUME Inv, Inv', Code
  PROVE  [Tasks!Next]_(Tasks!vars)
<1>1. Working(cpu, stack) /\ nmi = NoContext /\ IsCpu(cpu)
  BY CodeWorks, LiveKeeps DEF Code, Running
<1>2. ASSUME CodeStep, Quiet PROVE [Tasks!Next]_(Tasks!vars)
  <2>1. shadow' = shadow /\ current' = current /\ nmi' = NoContext
    BY <1>1, <1>2 DEF Quiet, dispatcher
  <2>2. cpu'.dom = cpu.dom
    BY <1>1, <1>2, CodeStays
  <2> QED
    BY <1>1, <2>1, <2>2, PlainCodeRefines
<1>3. ASSUME NEW t \in Task, CallRestore(t) \/ AfterCall(t) PROVE [Tasks!Next]_(Tasks!vars)
  <2>1. shadow' = shadow /\ current' = current /\ nmi' = NoContext
    BY <1>1, <1>3 DEF CallRestore, AfterCall, dispatcher
  <2>2. cpu'.dom = cpu.dom
    BY <1>1, <1>3, CodeStays
  <2> QED
    BY <1>1, <2>1, <2>2, PlainCodeRefines
<1>4. ASSUME NEW t \in Task, RawCop(t) PROVE [Tasks!Next]_(Tasks!vars)
  <2>1. cpu.pc = <<"body", t>>
    BY <1>4 DEF RawCop, AtBoundary, InBody, At_pc
  <2>2. current \in Task
    BY <1>1, <2>1, BodyFacts
  <2>3. Cop(<<"body", t>>) \/ Cop(<<"cop1", t>>)
    BY <1>4 DEF RawCop
  <2> QED
    BY <1>1, <2>2, <2>3, CopRefines
<1>5. ASSUME YieldCop PROVE [Tasks!Next]_(Tasks!vars)
  <2>1. cpu.pc = <<"yield", 4>> /\ Cop(<<"yield", 5>>)
    BY <1>5 DEF YieldCop, At_pc
  <2>2. current \in Task
    <3>1. CASE current \notin Task
      <4>1. InBootCode(cpu, Top)
        BY <1>1, <3>1, BootFacts
      <4> QED
        BY <2>1, <4>1 DEF InBootCode
    <3> QED
      BY <3>1
  <2> QED
    BY <1>1, <2>1, <2>2, CopRefines
<1>6. (CodeStep /\ Quiet) \/ OtherCodeStep
  BY DEF Code
<1> QED
  BY <1>1, <1>2, <1>3, <1>4, <1>5, <1>6, ExitRefines, BootStartRefines, Zenon DEF OtherCodeStep

LEMMA TerminalRefines ==
  ASSUME Inv, Inv', Terminal, Quiet, nmi = NoContext
  PROVE  [Tasks!Next]_(Tasks!vars)
<1>1. /\ IsCpu(cpu) /\ cpu.pc[1] = "terminal" /\ nmi' = NoContext /\ shadow' = shadow
      /\ current' = current /\ Irq \notin Task
  BY LiveKeeps, DomainFacts DEF Terminal, At_pc, Quiet, dispatcher
<1>2. cpu'.dom = cpu.dom
  BY <1>1 DEF Terminal, IsCpu
<1>3. CASE Working(cpu, stack)
  BY <1>1, <1>2, <1>3, PlainCodeRefines
<1>4. CASE cpu.dom = Irq
  BY <1>1, <1>2, <1>4, Invisible
<1> QED
  BY <1>1, <1>3, <1>4, Phases DEF Inv

LEMMA MachineStarts ==
  ASSUME MachineStep, ~Terminal
  PROVE  cpu.pc[1] \in Routines
<1>1. \A r \in {"irq", "cop"} : SaveFull(r) => cpu.pc[1] = r
  <2> SUFFICES ASSUME NEW r \in {"irq", "cop"}, SaveFull(r) PROVE cpu.pc[1] = r
    OBVIOUS
  <2>1. \E k : At_pc(r, k)
    BY Zenon DEF SaveFull
  <2> QED
    BY <2>1 DEF At_pc
<1>2. SwitchStack \/ SwitchPage \/ SwitchBank => cpu.pc[1] = "dispatch"
  BY DEF SwitchStack, SwitchPage, SwitchBank, At_pc
<1>3. Invoke => cpu.pc[1] = "dispatch"
  <2>1. Invoke => \E k : At_pc("dispatch", k)
    BY Zenon DEF Invoke, ReserveArguments, StoreArguments
  <2> QED
    BY <2>1 DEF At_pc
<1>4. Restore => cpu.pc[1] = "restore"
  <2>1. Restore => \E k : At_pc("restore", k)
    BY Zenon DEF Restore
  <2> QED
    BY <2>1 DEF At_pc
<1> QED
  BY <1>1, <1>2, <1>3, <1>4 DEF MachineStep, Routines

LEMMA ValidateRefines ==
  ASSUME Inv, Validate, nmi = NoContext
  PROVE  [Tasks!Next]_(Tasks!vars)
<1>1. /\ IsCpu(cpu) /\ cpu.pc = <<"dispatch", 4>> /\ nmi' = NoContext /\ shadow' = shadow /\ Irq \notin Task
      /\ "dom" \in DOMAIN cpu
  BY LiveKeeps, DomainFacts DEF Validate, At_pc, IsCpu
<1>2. PICK r \in {"irq", "cop"} : SwitchingAt(r, 4, cpu, stack)
  BY <1>1, Phases DEF Inv
<1>3. cpu.dom = Irq
  BY <1>2 DEF SwitchingAt
<1>4. cpu'.dom = cpu.dom
  <2>1. \/ cpu' = [cpu EXCEPT !.A = Junk, !.Y = Junk, !.pc = <<"dispatch", 5>>]
        \/ Goto("dispatch", 5) \/ Goto("terminal", 0)
    BY Zenon DEF Validate
  <2> QED
    BY <1>1, <2>1 DEF Goto
<1> QED
  BY <1>1, <1>3, <1>4, Invisible

LEMMA DispatchRefines ==
  ASSUME Inv, NEW t \in Task, Dispatch(t), nmi = NoContext
  PROVE  [Tasks!Next]_(Tasks!vars)
<1>1. cpu.pc[1] \in Routines /\ nmi' = NoContext /\ shadow' = shadow
  BY DEF Dispatch, At_pc, Routines
<1>2. cpu'.pc = <<"dispatch", 8>>
  BY BridgeReturns
<1>3. cpu'.pc[1] \in Routines
  BY <1>2 DEF Routines
<1> QED
  BY <1>1, <1>3, Invisible

LEMMA RtiRefines ==
  ASSUME Inv, ReturnFromInterrupt, nmi = NoContext
  PROVE  [Tasks!Next]_(Tasks!vars)
<1>0. (/\ Here.cpu.dom \in Task /\ Here.cpu.pc[1] \notin Routines =>
            /\ Runs = Here.cpu.dom /\ Contexts[Here.cpu.dom] = Here
            /\ \A u \in Task : u # Here.cpu.dom => Contexts[u] = shadow[u])'
  BY Holder, PTL
<1> PICK t, x : t = current /\ x = shadow[current]
  OBVIOUS
<1>1. /\ t \in Task /\ InTaskCode(t, x.cpu, x.stack, Mode(t)) /\ IsContext(x) /\ nmi' = NoContext
      /\ x.cpu.dom = t /\ cpu' = x.cpu /\ stack' = [stack EXCEPT ![t] = x.stack]
      /\ shadow' = [shadow EXCEPT ![t] = NoContext]
  BY RtiFacts
<1>2. /\ shadow = [d \in Domain |-> shadow[d]] /\ stack = [d \in Domain |-> stack[d]]
      /\ cpu.pc[1] \in Routines /\ t \in Domain
  BY <1>1, LiveKeeps, DomainFacts DEF ReturnFromInterrupt, At_pc, Routines, Typed
<1>3. x.cpu.pc[1] \notin Routines /\ x # NoContext
  BY <1>1, CodePc, Alive
<1>4. Here.cpu = cpu
  BY DEF Here, Context
<1>5. Runs = None /\ Contexts = [u \in Task |-> shadow[u]]
  BY <1>2, <1>4, Holder
<1>6. Here' = x /\ Here'.cpu = x.cpu
  <2>1. Top' = x.stack
    BY <1>1, <1>2 DEF Top
  <2> QED
    BY <1>1, <2>1 DEF Here, Context, IsContext
<1>7. Runs' = t /\ Contexts'[t] = x /\ \A u \in Task : u # t => Contexts'[u] = shadow'[u]
  BY <1>0, <1>1, <1>3, <1>6
<1>8. \A u \in Task : u # t => shadow'[u] = shadow[u]
  BY <1>1, <1>2, DomainFacts
<1>9. \A u \in Task : Contexts'[u] = Contexts[u]
  BY <1>1, <1>5, <1>7, <1>8
<1>10. Contexts' = Contexts
  BY <1>9 DEF Contexts
<1> QED
  BY <1>1, <1>3, <1>5, <1>7, <1>10, AbstractResume

LEMMA BridgeRefines ==
  ASSUME Inv, Inv', Bridge
  PROVE  [Tasks!Next]_(Tasks!vars)
<1>1. nmi = NoContext /\ IsCpu(cpu)
  BY LiveKeeps DEF Bridge, Running
<1>2. ASSUME MachineStep, Quiet PROVE [Tasks!Next]_(Tasks!vars)
  <2>1. CASE Terminal
    BY <1>1, <1>2, <2>1, TerminalRefines
  <2>2. CASE ~Terminal
    <3>1. cpu.pc[1] \in Routines
      BY <1>2, <2>2, MachineStarts
    <3>2. ~At_pc("terminal", 0)
      BY <3>1 DEF At_pc, Routines
    <3>3. cpu'.pc[1] \in Routines
      BY <1>1, <1>2, <3>2, MachineElsewhere
    <3>4. nmi' = NoContext /\ shadow' = shadow
      BY <1>1, <1>2 DEF Quiet
    <3> QED
      BY <1>1, <3>1, <3>3, <3>4, Invisible
  <2> QED
    BY <2>1, <2>2
<1>3. (MachineStep /\ Quiet) \/ Validate \/ ReturnFromInterrupt \/ \E t \in Task : Dispatch(t)
  BY DEF Bridge, OtherBridgeStep
<1> QED
  BY <1>1, <1>2, <1>3, ValidateRefines, RtiRefines, DispatchRefines

(* An NMI is part of the context it hides.                                 *)
LEMMA HiddenRefines ==
  ASSUME Here' = Here, shadow' = shadow
  PROVE  [Tasks!Next]_(Tasks!vars)
<1>1. Contexts' = Contexts /\ Runs' = Runs
  BY DEF Contexts, Runs, HasCpu, InBridge
<1> QED
  BY <1>1, AbstractStutter

LEMMA StepRefines ==
  ASSUME ContextInv, ContextInv', Next
  PROVE  [Tasks!Next]_(Tasks!vars)
<1>1. CASE NmiEnter
  <2>1. Here' = Here /\ shadow' = shadow
    BY <1>1, NmiEnterStep DEF NmiEnter
  <2> QED
    BY <2>1, HiddenRefines
<1>2. CASE NmiExit
  <2>1. Here' = Here /\ shadow' = shadow
    BY <1>2, NmiExitStep DEF NmiExit
  <2> QED
    BY <2>1, HiddenRefines
<1>3. CASE IrqArrives \/ Bridge \/ Code
  <2>1. nmi = NoContext
    BY <1>3 DEF IrqArrives, Bridge, Code, Running
  <2>2. Inv
    BY <2>1, Plain DEF ContextInv, NmiInv
  <2>3. Inv'
    BY <1>3, <2>2, IrqStep, BridgeSteps, CodeSteps
  <2> QED
    BY <1>3, <2>2, <2>3, IrqRefines, BridgeRefines, CodeRefines
<1> QED
  BY <1>1, <1>2, <1>3 DEF Next

LEMMA StartRefines == Init => Tasks!Init
<1> SUFFICES ASSUME Init PROVE Tasks!Init
  OBVIOUS
<1>1. nmi = NoContext /\ cpu.dom = Boot /\ Boot \notin Task /\ Task \subseteq Domain
  BY DomainFacts DEF Init, BootCpu
<1>2. Here.cpu = cpu
  BY <1>1 DEF Here, Context
<1>3. Runs = None /\ Contexts = [t \in Task |-> shadow[t]]
  BY <1>1, <1>2, Holder
<1>4. \A t \in Task : shadow[t] = EntryContext(t, t \in masked)
  BY <1>1 DEF Init
<1>5. \A t \in Task : Contexts[t] \in EntryContexts(t)
  <2> SUFFICES ASSUME NEW t \in Task PROVE Contexts[t] \in EntryContexts(t)
    OBVIOUS
  <2>1. Contexts[t] = EntryContext(t, t \in masked)
    BY <1>3, <1>4
  <2>2. CASE t \in masked
    <3>1. (t \in masked) = TRUE
      BY <2>2
    <3>2. Contexts[t] = EntryContext(t, TRUE)
      BY <2>1, <3>1, Zenon
    <3> QED
      BY <3>2 DEF EntryContexts
  <2>3. CASE t \notin masked
    <3>1. (t \in masked) = FALSE
      BY <2>3
    <3>2. Contexts[t] = EntryContext(t, FALSE)
      BY <2>1, <3>1, Zenon
    <3> QED
      BY <3>2 DEF EntryContexts
  <2> QED
    BY <2>2, <2>3
<1>6. Contexts \in [Task -> UNION {EntryContexts(t) : t \in Task}]
  <2> PICK f : f = Contexts
    OBVIOUS
  <2> PICK E : E = UNION {EntryContexts(t) : t \in Task}
    OBVIOUS
  <2>1. f = [t \in Task |-> f[t]]
    BY <1>3
  <2>2. \A t \in Task : f[t] \in E
    BY <1>5
  <2> QED
    BY <2>1, <2>2
<1> QED
  BY <1>3, <1>5, <1>6 DEF Tasks!Init, Contexts, Runs

(* To its tasks the bridge is a ContextSwitch: whatever interrupts fall    *)
(* where, a task's context is changed by its own execution alone, and it   *)
(* gets the processor back with the context it lost it with.               *)
THEOREM RefinesContextSwitchCorrect == Spec => RefinesContextSwitch
<1>1. ContextInv /\ ContextInv' /\ [Next]_vars => [Tasks!Next]_(Tasks!vars)
  <2> SUFFICES ASSUME ContextInv, ContextInv', [Next]_vars PROVE [Tasks!Next]_(Tasks!vars)
    OBVIOUS
  <2>1. CASE UNCHANGED vars
    <3>1. Here' = Here /\ shadow' = shadow
      BY <2>1 DEF vars, dispatcher, programs, Here, Context, Top
    <3> QED
      BY <3>1, HiddenRefines
  <2> QED
    BY <2>1, StepRefines
<1> QED
  BY <1>1, ContextInvCorrect, StartRefines, PTL DEF Spec, RefinesContextSwitch, Tasks!Spec
=============================================================================

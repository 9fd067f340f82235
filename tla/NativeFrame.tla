----------------------------- MODULE NativeFrame -----------------------------
(***************************************************************************)
(* The bytes the 65816 context bridge keeps on its stacks: how words, code *)
(* addresses and P are laid out, the 13-byte saved frame, and the image a  *)
(* task that never ran is restored from (src/mir65816/context.rs).         *)
(*                                                                         *)
(* A stack is the sequence of bytes at and above S, the most recent last:  *)
(* what lies below S may be overwritten by an NMI at any time, so a stack  *)
(* pointer moved below its stack exposes bytes of unknown value.           *)
(***************************************************************************)
EXTENDS Integers, Sequences

(* Values are tagged tuples; a stacked word is its high then its low byte. *)
Junk == <<"junk">>
Zero == <<"zero">>
SavedS(d, n) == <<"sp", d, n>>          \* S with n bytes of d's stack in use
Flag(b) == <<"flag", b>>                \* P's I bit in A, and the BYTE token
Own(d) == <<"own", d>>                  \* scratch values of d's own code
Page(d) == <<"page", d>>                \* D naming d's direct page

Word(v) == <<<<"hi", v>>, <<"lo", v>>>>
Byte(v) == <<<<"byte", v>>>>
CodeAddress(pc) == Byte(<<"bank", pc>>) \o Word(pc)

(* JSL stacks the address before the one it returns to, and RTL adds one.  *)
Before(pc) == <<"before", pc>>
ReturnAddress(pc) == CodeAddress(Before(pc))
After_NoIncrement(address) == address
After(address) == IF address[1] = "before" THEN address[2] ELSE Junk

(* The byte at S+k, and the word at S+k, S+k+1. *)
At(s, k) == IF k <= Len(s) THEN s[Len(s) - k + 1] ELSE Junk
ByteAt(s, k) == IF At(s, k)[1] = "byte" THEN At(s, k)[2] ELSE Junk
WordAt(s, k) ==
  IF At(s, k)[1] = "lo" /\ At(s, k + 1)[1] = "hi" /\ At(s, k)[2] = At(s, k + 1)[2]
    THEN At(s, k)[2] ELSE Junk

Drop(s, n) == SubSeq(s, 1, Len(s) - n)
Resize(s, n) == [i \in 1..n |-> IF i <= Len(s) THEN s[i] ELSE Junk]

Flags(i) == [i |-> i, m8 |-> FALSE, x8 |-> FALSE]
Widened_OnlyA(p) == [p EXCEPT !.m8 = FALSE]
Widened(p) == [p EXCEPT !.m8 = FALSE, !.x8 = FALSE]             \* rep #$30
StatusBit(p) == Flag(p.i)                                       \* and #4
PByte(p) == Byte(<<"P", p>>)
PAt(s, k) ==
  IF ByteAt(s, k)[1] = "P" THEN ByteAt(s, k)[2]
  ELSE [i |-> TRUE, m8 |-> TRUE, x8 |-> TRUE]

(* The saved frame: four bytes of hardware, then five registers. *)
HardwareFrame(p, pc) == CodeAddress(pc) \o PByte(p)
SaveOrder == <<"A", "X", "Y", "D", "B">>
RestoreOrder == <<"B", "D", "Y", "X", "A">>

-----------------------------------------------------------------------------
(* FirstTask::new: saved frame, synthetic return and argument, from S0.    *)
Argument == Byte(<<"argument", 2>>) \o Byte(<<"argument", 1>>) \o Byte(<<"argument", 0>>)

EntryContext(t, i) ==
  [cpu |-> [A |-> Zero, X |-> Zero, Y |-> Zero, D |-> Page(t), B |-> Zero,
            P |-> Flags(i), dom |-> t, pc |-> <<"body", t>>],
   stack |-> Argument \o ReturnAddress(<<"task_return", 0>>)]

FirstImage(t, i) ==
  LET c == EntryContext(t, i) IN
  c.stack \o HardwareFrame(c.cpu.P, c.cpu.pc)
    \o Word(Zero) \o Word(Zero) \o Word(Zero) \o Word(Page(t)) \o Byte(Zero)
=============================================================================

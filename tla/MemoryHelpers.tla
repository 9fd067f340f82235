---------------------------- MODULE MemoryHelpers ----------------------------
(***************************************************************************)
(* Move, Clear and Fill of runtime/65816/memory.s.  They work in chunks    *)
(* that the 16-bit index can span, by words, with one byte where a chunk   *)
(* is odd; Move goes down from the end when the destination is above the   *)
(* source.  One action is the setup of a call or a chunk, or the transfer  *)
(* of a word or of a byte.                                                 *)
(*                                                                         *)
(* A byte of memory starts as the name of its cell.  What is not part of   *)
(* the caller's objects may be anything, a device register included, so    *)
(* that even a read of it shows.                                           *)
(***************************************************************************)
EXTENDS Integers, Sequences

CONSTANTS Bank,               \* addresses of a 16-bit index: 2^16
          Banks,              \* values of a bank byte: 2^8
          Zero, Byte,         \* what Clear and Fill store
          Disturbed           \* a cell accessed outside the objects

VARIABLES call,               \* the arguments: [op, destination, source, length]
          work,               \* the direct-page scratch, X, Y and the place in the code
          bytes               \* all of memory

vars == <<call, work, bytes>>

Size == Bank * Banks          \* pointers and lengths have 24 bits
Address == 0..(Size - 1)
Extent(from) == {from + k : k \in 0..(call.length - 1)}
Objects == Extent(call.destination) \cup (IF call.op = "move" THEN Extent(call.source) ELSE {})

(* Callers provide contiguous objects. *)
Calls ==
  {c \in [op : {"move", "clear", "fill"}, destination : Address, source : Address,
          length : 0..Size - 1] :
     /\ c.destination + c.length <= Size /\ c.source + c.length <= Size
     /\ c.op # "move" => c.source = 0}

(* A chunk short of a bank by two is even, so words fill it.               *)
SizesFit ==
  /\ Bank \in Nat /\ Bank % 2 = 0 /\ Bank >= 4 /\ Banks \in Nat \ {0}
  /\ Zero \notin Address /\ Byte \notin Address

Start(c) ==
  /\ call = c
  /\ work = [at |-> "entry", dest |-> c.destination, source |-> c.source, left |-> c.length,
             back |-> FALSE, chunk |-> 0, x |-> 0, y |-> 0]
  /\ bytes = [a \in Address |-> a]

Become(changes) == work' = changes /\ UNCHANGED <<call, bytes>>

Lower == call.source < call.destination

(* am_add_length, of 24 bits. *)
Skipped_BankLost(pointer) == (pointer + (call.length % Bank)) % Size
Skipped(pointer) == (pointer + call.length) % Size

EnterMove ==
  /\ work.at = "entry" /\ call.op = "move"
  /\ \/ call.source = call.destination /\ Become([work EXCEPT !.at = "return"])
     \/ ~Lower /\ call.source # call.destination /\ Become([work EXCEPT !.at = "chunk"])
     \/ Lower /\ Become([work EXCEPT !.at = "chunk", !.back = TRUE,
                                  !.dest = Skipped(@), !.source = Skipped(@)])

EnterFill == work.at = "entry" /\ call.op # "move" /\ Become([work EXCEPT !.at = "chunk"])

(* The last chunk may be one byte longer than the full ones. *)
ChunkSize == IF work.left >= Bank THEN Bank - 2 ELSE work.left
Down(pointer) == (pointer - ChunkSize) % Size

Chunk ==
  /\ work.at = "chunk"
  /\ \/ work.left = 0 /\ Become([work EXCEPT !.at = "return"])
     \/ /\ work.left # 0 /\ ~work.back
        /\ Become([work EXCEPT !.at = "copy", !.chunk = ChunkSize, !.x = ChunkSize, !.y = 0])
     \/ /\ work.left # 0 /\ work.back
        /\ Become([work EXCEPT !.at = "copy", !.chunk = ChunkSize, !.x = ChunkSize, !.y = ChunkSize,
                            !.dest = Down(@), !.source = Down(@)])

-----------------------------------------------------------------------------
Value(a) ==
  CASE call.op = "move" -> bytes[a]
    [] call.op = "clear" -> Zero
    [] call.op = "fill" -> Byte

(* The n bytes at index y; an indexed access carries into the next bank.   *)
Transfer(y, n) ==
  LET Reached(pointer) == {(pointer + y + k) % Size : k \in 0..(n - 1)}
      Beside == (IF call.op = "move" THEN Reached(work.source) ELSE {}) \ Objects
  IN bytes' = [a \in Address |->
       IF a \in Reached(work.dest) THEN Value((work.source + (a - work.dest)) % Size)
       ELSE IF a \in Beside THEN Disturbed
       ELSE bytes[a]]

Copy(n) ==
  LET below == IF work.back THEN work.y - n ELSE work.y
  IN /\ Transfer(below, n)
     /\ work' = [work EXCEPT !.x = @ - n, !.y = IF work.back THEN below ELSE (@ + n) % Bank]
     /\ UNCHANGED call

Word == work.at = "copy" /\ work.x >= 2 /\ Copy(2)
OddTail == work.at = "copy" /\ work.x = 1 /\ Copy(1)

Progress ==
  /\ work.at = "copy" /\ work.x = 0
  /\ LET Up(pointer) == IF work.back THEN pointer ELSE (pointer + work.chunk) % Size
     IN Become([work EXCEPT !.at = "chunk", !.dest = Up(@), !.source = Up(@), !.left = @ - work.chunk])

Init == \E c \in Calls : Start(c)
Next == EnterMove \/ EnterFill \/ Chunk \/ Word \/ OddTail \/ Progress
Spec == Init /\ [][Next]_vars

-----------------------------------------------------------------------------
Returned == work.at = "return"

(* A call promises one assignment, of the source or of the value stored,   *)
(* all at once and of nothing else.                                        *)
Assignment == INSTANCE ParallelAssignment WITH
  Cell <- Address,
  moves <- <<[from |-> [k \in 1..call.length |->
                 CASE call.op = "move" -> call.source + k - 1
                   [] call.op = "clear" -> Zero
                   [] call.op = "fill" -> Byte],
              to |-> [k \in 1..call.length |-> call.destination + k - 1]]>>,
  memory <- IF Returned THEN bytes ELSE [a \in Address |-> a],
  taken <- Returned

RefinesParallelAssignment == Assignment!Spec
=============================================================================

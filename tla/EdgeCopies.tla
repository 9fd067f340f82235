----------------------------- MODULE EdgeCopies -----------------------------
(***************************************************************************)
(* How the 65816 back end emits the argument copies of a control-flow      *)
(* edge: edge_transfer of src/mir65816/emit/select.rs and the planners it  *)
(* tries in turn (pointer_copies.rs, copies.rs, mixed_copies.rs,           *)
(* mixed_edges.rs).  A planner orders the copies, captures in the staging  *)
(* pool what would be lost, and yields instructions; running them is the   *)
(* edge.  One action is one iteration of a planner, or one instruction.    *)
(*                                                                         *)
(* Values are opaque: a byte of memory starts as the name of its cell, an  *)
(* immediate or relocated byte is its own name.  That a displacement fits  *)
(* its operand is checked elsewhere and left out.                          *)
(***************************************************************************)
EXTENDS Integers, Sequences, FiniteSets, SequencesExt

CONSTANTS Place,              \* every home or operand an edge may name
          Cell,               \* bytes of the stack frame and of the direct page
          SlotWidth           \* bytes between two slots of the staging pool

(* A place is [space, at, width], in space "stack" or "dp" a home, in      *)
(* space "imm" an immediate, in space "link" an address only the linker    *)
(* knows.                                                                  *)
ASSUME PlaceAssumption ==
  Place \subseteq [space : {"stack", "dp", "imm", "link"}, at : Nat, width : 1..4]
ASSUME CellAssumption == Cell \subseteq {"stack", "dp", "result"} \X Nat
ASSUME SlotAssumption == SlotWidth \in Nat /\ SlotWidth >= 4      \* no two slots overlap

VARIABLES moves,              \* [from, to], one per parameter of the target block
          pool,               \* offset of the first staging slot
          strategy,           \* the planner chosen
          phase,              \* "choose", "plan", "run", "done" or "rejected"
          pending,            \* indices of moves not yet scheduled
          source,             \* where each move finds its value
          staged,             \* widths of the slots captured so far
          code,               \* instructions planned, then left to run
          memory, acc         \* cells, and the two halves of A

edge == <<moves, pool>>
planning == <<strategy, pending, source, staged>>
vars == <<edge, planning, phase, code, memory, acc>>

Bytes(p) == [k \in 1..p.width |-> <<p.space, p.at + k - 1>>]
Cells(p) == {<<p.space, p.at + k - 1>> : k \in 1..p.width}
IsHome(p) == p.space \in {"stack", "dp"}
Overlap(p, q) == IsHome(p) /\ Cells(p) \cap Cells(q) # {}

Moves == DOMAIN moves
From(i) == moves[i].from
To(i) == moves[i].to
Final == Len(moves)
Slot_CountsFromZero(k, w) == [space |-> "stack", at |-> pool + SlotWidth * (k - 2), width |-> w]
Slot(k, w) == [space |-> "stack", at |-> pool + SlotWidth * (k - 1), width |-> w]

Staged(k, w) == [space |-> "staged", at |-> k, width |-> w]
Physical(p) == IF p.space = "staged" THEN Slot(p.at, p.width) ELSE p

Smallest(S) == CHOOSE i \in S : \A j \in S : i <= j
InOrder(S) ==
  CHOOSE s \in [1..Cardinality(S) -> S] : \A j, k \in DOMAIN s : j < k => s[j] < s[k]

-----------------------------------------------------------------------------
(* Instructions: a load of one byte or of a word, and a store of it.       *)
AccLow == <<"acc", 1>>
AccHigh == <<"acc", 2>>
Load(from) == [from |-> from, to |-> <<>>]
Pair(p, k) == <<<<p.space, p.at + k - 1>>, <<p.space, p.at + k>>>>
Store(p) == [from |-> <<AccLow, AccHigh>>, to |-> Pair(p, 1)]
WordAt(p, q, k) == [from |-> Pair(p, k), to |-> Pair(q, k)]

ByteCopy(p, q) == [k \in 1..q.width |-> [from |-> <<Bytes(p)[k]>>, to |-> <<Bytes(q)[k]>>]]
WordCopy(p, q) == <<WordAt(p, q, 1)>>
PointerCopy(p, q) == <<WordAt(p, q, 1), WordAt(p, q, 2)>>     \* two overlapping words
QuadCopy(p, q) == <<WordAt(p, q, 1), WordAt(p, q, 3)>>

-----------------------------------------------------------------------------
(* Which planner takes the edge.                                           *)
Disjoint == \A i, j \in Moves : i # j => ~Overlap(To(i), To(j))

PointerGeometry ==
  Disjoint /\ \A i, j \in Moves : From(i) # To(j) => ~Overlap(From(i), To(j))
PointerEdge ==
  /\ \A i \in Moves : To(i).width = 3 /\ IsHome(From(i))
  /\ PointerGeometry

WordEdge == \A i \in Moves : To(i).width = 2 /\ From(i).space # "link"
WholeWords == PointerGeometry

MixedEdge ==
  /\ \A i \in Moves : From(i).space # "link"
  /\ \E i \in Moves : "dp" \in {From(i).space, To(i).space}

Begin(how, todo, first) ==
  /\ strategy' = how
  /\ pending' = todo
  /\ code' = first
  /\ phase' = "plan"
  /\ UNCHANGED <<edge, source, staged, memory, acc>>

NotIdentity == {i \in Moves : From(i) # To(i)}

(* Slot 1 of a pointer edge keeps A. *)
ChoosePointer ==
  /\ phase = "choose" /\ PointerEdge
  /\ Begin("pointer", NotIdentity, IF NotIdentity = {} THEN <<>> ELSE <<Store(Slot(1, 2))>>)

ChooseWord ==
  /\ phase = "choose" /\ ~PointerEdge /\ WordEdge
  /\ IF Final = 1 \/ WholeWords
       THEN Begin("direct", Moves, <<>>)
       ELSE Begin("complete", {}, <<>>)

ChooseMixed ==
  /\ phase = "choose" /\ ~PointerEdge /\ ~WordEdge /\ MixedEdge
  /\ IF Disjoint
       THEN Begin("mixed", NotIdentity, <<>>)
       ELSE phase' = "rejected" /\ UNCHANGED <<edge, planning, code, memory, acc>>

ChooseBytes ==
  /\ phase = "choose" /\ ~PointerEdge /\ ~WordEdge /\ ~MixedEdge
  /\ Begin("bytes", {}, <<>>)

-----------------------------------------------------------------------------
(* Scheduling.  A move is ready when it overwrites nothing still needed; a *)
(* whole-word load precedes its store, so a word may overlap its own       *)
(* source, but a byte copy may not.                                        *)
Blocks_CountsSelf(j, i) ==
  CASE strategy = "pointer" -> source[j] = To(i)
    [] strategy \in {"direct", "mixed"} -> Overlap(source[j], To(i))
Blocks(j, i) ==
  CASE strategy = "pointer" -> source[j] = To(i)
    [] strategy = "direct" -> j # i /\ Overlap(source[j], To(i))
    [] strategy = "mixed" -> Overlap(source[j], To(i))

Ready == {i \in pending : \A j \in pending : ~Blocks(j, i)}

(* A word schedule keeps the last argument for the end if it can, since A  *)
(* must hold it there.                                                     *)
Pick ==
  IF strategy = "direct" /\ Ready \ {Final} # {} THEN Smallest(Ready \ {Final}) ELSE Smallest(Ready)

Schedule ==
  /\ phase = "plan" /\ Ready # {}
  /\ pending' = pending \ {Pick}
  /\ code' = code \o CASE strategy = "pointer" -> PointerCopy(Physical(source[Pick]), To(Pick))
                       [] strategy = "mixed" -> ByteCopy(Physical(source[Pick]), To(Pick))
                       [] strategy = "direct" -> IF Pick \in NotIdentity THEN WordCopy(From(Pick), To(Pick)) ELSE <<>>
  /\ UNCHANGED <<edge, strategy, source, staged, phase, memory, acc>>

Redirect(home, k) ==
  [j \in Moves |-> IF j \in pending /\ source[j] = home THEN Staged(k, home.width) ELSE source[j]]

(* A cycle of pointers is opened by saving one destination, always in the  *)
(* second slot.                                                            *)
CapturePointer ==
  /\ phase = "plan" /\ strategy = "pointer" /\ pending # {} /\ Ready = {}
  /\ LET home == To(Smallest(pending)) IN
     /\ source' = Redirect(home, 2)
     /\ code' = code \o PointerCopy(home, Slot(2, 3))
  /\ staged' = <<2, 3>>
  /\ UNCHANGED <<edge, strategy, pending, phase, memory, acc>>

(* A mixed edge captures a whole source, in a slot of its own.             *)
CaptureMixed ==
  /\ phase = "plan" /\ strategy = "mixed" /\ pending # {} /\ Ready = {}
  /\ LET homes == {i \in pending : IsHome(source[i])} IN
     IF homes = {}
       THEN phase' = "rejected" /\ UNCHANGED <<source, code, staged>>
       ELSE LET home == source[Smallest(homes)]
                k == Len(staged) + 1
            IN /\ source' = Redirect(home, k)
               /\ code' = code \o ByteCopy(home, Slot(k, home.width))
               /\ staged' = Append(staged, home.width)
               /\ UNCHANGED phase
  /\ UNCHANGED <<edge, strategy, pending, memory, acc>>

(* Words on a cycle are captured before any of them is overwritten.        *)
GiveUpOrder ==
  /\ phase = "plan" /\ strategy = "direct" /\ pending # {} /\ Ready = {}
  /\ strategy' = "selective"
  /\ pending' = {}
  /\ code' = <<>>
  /\ UNCHANGED <<edge, source, staged, phase, memory, acc>>

-----------------------------------------------------------------------------
(* Emission.                                                               *)
Captured ==
  CASE strategy = "complete" -> Moves
    [] strategy = "selective" -> {i \in Moves : \E j \in 1..(i - 1) : From(i) = To(j)}
    [] OTHER -> {}
Rank(i) == CHOOSE k \in DOMAIN InOrder(Captured) : InOrder(Captured)[k] = i

DirectCode_NoRepair == code
DirectCode ==
  IF code # <<>> /\ code[Len(code)] = WordAt(From(Final), To(Final), 1)
    THEN code
    ELSE Append(code, Load(Bytes(To(Final))))

CapturedCode ==
  LET captures == InOrder(Captured)
      From2(i) == IF i \in Captured THEN Slot(Rank(i), 2) ELSE From(i)
  IN [k \in DOMAIN captures |-> WordAt(From(captures[k]), Slot(k, 2), 1)]
       \o [i \in Moves |-> WordAt(From2(i), To(i), 1)]

LastByte == Load(<<Bytes(To(Final))[To(Final).width]>>)

PointerCode ==
  IF code = <<>> THEN <<LastByte>> ELSE code \o <<Load(Bytes(Slot(1, 2))), LastByte>>

(* The byte fallback stages everything but isolated identities; it may     *)
(* move pairs as words, with A kept in scratch meanwhile.                  *)
Result == [space |-> "result", at |-> 1, width |-> 2]
Identity(i) ==
  /\ From(i) = To(i) /\ To(i).space = "stack"
  /\ \A j \in Moves : i # j => ~Overlap(To(i), To(j))

MayUseWords ==
  \A i \in Moves :
    /\ To(i).width \in {1, 2, 4} /\ To(i).space = "stack" /\ From(i).space # "dp"
    /\ To(i).width > 1 /\ ~Identity(i) => IsHome(From(i))

Piecewise(wide, p, q) ==
  IF ~wide \/ q.width = 1 THEN ByteCopy(p, q)
  ELSE IF q.width = 2 THEN WordCopy(p, q) ELSE QuadCopy(p, q)

BytesCode(wide) ==
  LET rest == InOrder({i \in Moves : ~Identity(i)})
      Stage(i) == Slot(i, To(i).width)
  IN (IF wide THEN <<Store(Result)>> ELSE <<>>)
       \o FlattenSeq([k \in DOMAIN rest |-> Piecewise(wide, From(rest[k]), Stage(rest[k]))])
       \o FlattenSeq([k \in DOMAIN rest |-> Piecewise(wide, Stage(rest[k]), To(rest[k]))])
       \o (IF wide THEN <<Load(Bytes(Result))>> ELSE <<>>)
       \o (IF wide \/ Identity(Final) THEN <<LastByte>> ELSE <<>>)

(* The slots the code will use, each as wide as it is checked.             *)
SlotsUsed ==
  CASE strategy = "pointer" -> 
           {Slot(k, k + 1) : k \in IF code = <<>> THEN {} ELSE IF staged = <<>> THEN {1} ELSE {1, 2}}
    [] strategy = "mixed" -> {Slot(k, SlotWidth) : k \in DOMAIN staged}
    [] strategy = "bytes" -> {Slot(i, To(i).width) : i \in Moves}
    [] OTHER -> {Slot(Rank(i), 2) : i \in Captured}

StagingClear == \A slot \in SlotsUsed, i \in Moves : ~Overlap(slot, From(i)) /\ ~Overlap(slot, To(i))

(* Every slot is checked against every home before anything is emitted.    *)
Emit ==
  /\ phase = "plan" /\ pending = {}
  /\ IF StagingClear
       THEN /\ phase' = "run"
            /\ \/ strategy = "pointer" /\ code' = PointerCode
               \/ strategy = "direct" /\ code' = DirectCode
               \/ strategy \in {"selective", "complete"} /\ code' = CapturedCode
               \/ strategy = "mixed" /\ code' = Append(code, LastByte)
               \/ /\ strategy = "bytes"
                  /\ \E wide \in {FALSE, MayUseWords} : code' = BytesCode(wide)
       ELSE phase' = "rejected" /\ UNCHANGED code
  /\ UNCHANGED <<edge, planning, memory, acc>>

-----------------------------------------------------------------------------
(* Running the edge.  Loading a byte leaves the high half of A alone.      *)
Read(b) ==
  IF b = AccLow THEN acc[1] ELSE IF b = AccHigh THEN acc[2]
  ELSE IF b \in Cell THEN memory[b] ELSE b

Execute ==
  /\ phase = "run" /\ code # <<>>
  /\ LET instruction == Head(code)
         value == [k \in DOMAIN instruction.from |-> Read(instruction.from[k])]
         Stores(c) == {k \in DOMAIN instruction.to : instruction.to[k] = c}
     IN /\ acc' = IF Len(value) = 2 THEN value ELSE <<value[1], acc[2]>>
        /\ memory' = [c \in Cell |-> IF Stores(c) = {} THEN memory[c] ELSE value[Smallest(Stores(c))]]
  /\ code' = Tail(code)
  /\ UNCHANGED <<edge, planning, phase>>

Arrive ==
  /\ phase = "run" /\ code = <<>>
  /\ phase' = "done"
  /\ UNCHANGED <<edge, planning, code, memory, acc>>

-----------------------------------------------------------------------------
Start(m, p) ==
  /\ moves = m /\ pool = p
  /\ strategy = "none" /\ phase = "choose"
  /\ pending = {} /\ staged = <<>> /\ code = <<>>
  /\ source = [i \in DOMAIN m |-> m[i].from]
  /\ memory = [c \in Cell |-> c]
  /\ acc = <<AccLow, AccHigh>>

(* The edges a compiled routine has: an argument is as wide as its         *)
(* parameter, homes and staging slots are cells of the frame.              *)
LegalEdge(m, p) ==
  /\ m \in Seq([from : Place, to : Place]) /\ m # <<>> /\ p \in Nat
  /\ \A i \in DOMAIN m :
       /\ m[i].from.width = m[i].to.width /\ IsHome(m[i].to) /\ Cells(m[i].to) \subseteq Cell
       /\ IsHome(m[i].from) => Cells(m[i].from) \subseteq Cell
  /\ \A k \in 1..Len(m), j \in 0..3 : <<"stack", p + SlotWidth * (k - 1) + j>> \in Cell
  /\ {<<"result", 1>>, <<"result", 2>>} \subseteq Cell

Init == \E m \in Seq([from : Place, to : Place]), p \in Nat : LegalEdge(m, p) /\ Start(m, p)

Choose == ChoosePointer \/ ChooseWord \/ ChooseMixed \/ ChooseBytes
Plan == Schedule \/ CapturePointer \/ CaptureMixed \/ GiveUpOrder \/ Emit
Next == Choose \/ Plan \/ Execute \/ Arrive
Spec == Init /\ [][Next]_vars

-----------------------------------------------------------------------------
(* The target block finds in A what an edge copied in argument order would *)
(* leave there: after words the whole last word, after anything else its   *)
(* last byte and the high half A came with.                                *)
AccumulatorContract ==
  phase = "done" =>
    LET last == Bytes(To(Final)) IN
    IF WordEdge THEN acc = <<memory[last[1]], memory[last[2]]>>
    ELSE acc = <<memory[last[Len(last)]], AccHigh>>

(* An edge whose destinations do not overlap, with a pool clear of its     *)
(* homes, is never refused: no schedule is left unresolved.                *)
PoolCells == {c \in Cell : c[1] = "stack" /\ c[2] >= pool}
WellAllocated ==
  Disjoint /\ \A i \in Moves : (Cells(From(i)) \cup Cells(To(i))) \cap PoolCells = {}
WellAllocatedCompiles == phase = "rejected" => ~WellAllocated

(* A capture is made only where plain moves cannot do: no order of the     *)
(* moves reads every source before it is overwritten.                      *)
Serial(o) ==
  \A m, n \in DOMAIN o :
    m < n \/ (m = n /\ strategy = "mixed") => ~Overlap(From(o[n]), To(o[m]))
CapturesUnavoidable ==
  phase = "done" /\ (strategy = "selective" \/ staged # <<>>) =>
    \A o \in [1..Cardinality(NotIdentity) -> NotIdentity] :
      NotIdentity \subseteq {o[k] : k \in DOMAIN o} => ~Serial(o)

-----------------------------------------------------------------------------
(* Staging slots and the scratch word are nobody's value.                  *)
Scratch ==
  {c \in Cell : /\ c \in PoolCells \/ c[1] = "result"
                /\ \A i \in Moves : c \notin Cells(To(i))}

Abstract == INSTANCE ParallelAssignment WITH
  moves <- [i \in Moves |-> [from |-> Bytes(From(i)), to |-> Bytes(To(i))]],
  memory <- IF phase = "done"
              THEN [c \in Cell |-> IF c \in Scratch THEN c ELSE memory[c]]
              ELSE [c \in Cell |-> c],
  taken <- phase = "done"

(* Whatever the planner, order, captures and overlaps: the edge is a       *)
(* simultaneous assignment, and touches nothing else that holds a value.   *)
RefinesParallelAssignment == Abstract!Spec
=============================================================================

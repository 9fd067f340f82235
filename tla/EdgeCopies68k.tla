---------------------------- MODULE EdgeCopies68k ----------------------------
(***************************************************************************)
(* The copies of a control-flow edge on the 68000: edge and parallel_edge  *)
(* of src/mir68k/materialize.rs.  Without register allocation every        *)
(* argument is staged in a slot of its own.  With it, a copy is made once  *)
(* no other has still to read its destination; when none is left, one      *)
(* destination is saved in the only slot.  What is emitted runs in the     *)
(* order of emission, so one action is the emission of a copy and its run. *)
(*                                                                         *)
(* Homes are registers or longwords of the frame, so two are the same or   *)
(* apart; what a home holds at first is its own name.                      *)
(***************************************************************************)
EXTENDS Integers, Sequences, SequencesExt

CONSTANTS Home,               \* homes of temporaries
          Operand,            \* values that are in no home
          EdgeSlot            \* slots of the edge copy area: EdgeSlot[1], ...

VARIABLES transfer,           \* [copies, allocated, taken]: a copy per parameter
          todo,               \* copies not made yet, in order
          homes               \* contents of homes and slots

vars == <<transfer, todo, homes>>

Copy(from, to) == [source |-> from, destination |-> to]
Spaces == Home \cup {EdgeSlot[k] : k \in DOMAIN EdgeSlot}
Contents(place) == IF place \in Spaces THEN homes[place] ELSE place

(* Copies that have somewhere to go, in order.                             *)
Moving(copies) ==
  LET Kept[n \in 0..Len(copies)] ==
        IF n = 0 THEN <<>>
        ELSE IF copies[n].source = copies[n].destination THEN Kept[n - 1]
        ELSE Append(Kept[n - 1], copies[n])
  IN Kept[Len(copies)]

(* Staging has two rounds.                                                 *)
Planned(t) ==
  IF t.allocated
    THEN Moving(t.copies)
    ELSE [k \in DOMAIN t.copies |-> Copy(t.copies[k].source, EdgeSlot[k])]
           \o [k \in DOMAIN t.copies |-> Copy(EdgeSlot[k], t.copies[k].destination)]

Start(t) ==
  /\ transfer = t
  /\ todo = Planned(t)
  /\ homes = [place \in Spaces |-> place]

Ready(k) ==
  transfer.allocated => \A j \in DOMAIN todo : todo[j].source # todo[k].destination
NextCopy == {k \in DOMAIN todo : Ready(k) /\ \A j \in 1..(k - 1) : ~Ready(j)}

Move ==
  \E k \in NextCopy :
    /\ homes' = [homes EXCEPT ![todo[k].destination] = Contents(todo[k].source)]
    /\ todo' = RemoveAt(todo, k)
    /\ UNCHANGED transfer

(* A cycle is opened at the first destination; all its readers follow.     *)
Redirected_OneReader(home) ==
  [k \in DOMAIN todo |->
     IF k = Len(todo) /\ todo[k].source = home THEN Copy(EdgeSlot[1], todo[k].destination) ELSE todo[k]]
Redirected(home) ==
  [k \in DOMAIN todo |->
     IF todo[k].source = home THEN Copy(EdgeSlot[1], todo[k].destination) ELSE todo[k]]

Capture ==
  /\ todo # <<>> /\ NextCopy = {}
  /\ homes' = [homes EXCEPT ![EdgeSlot[1]] = homes[todo[1].destination]]
  /\ todo' = Redirected(todo[1].destination)
  /\ UNCHANGED transfer

(* The jump to the target block. *)
Jump ==
  /\ todo = <<>> /\ ~transfer.taken
  /\ transfer' = [transfer EXCEPT !.taken = TRUE]
  /\ UNCHANGED <<todo, homes>>

Next == Move \/ Capture \/ Jump

(* Parameters have homes of their own, and the frame has a slot for each,  *)
(* or one slot where registers are allocated.                              *)
LegalEdge(t) ==
  /\ t \in [copies : Seq([source : Home \cup Operand, destination : Home]),
           allocated : BOOLEAN, taken : {FALSE}]
  /\ \A j, k \in DOMAIN t.copies : t.copies[j].destination = t.copies[k].destination => j = k
  /\ IF t.allocated THEN t.copies # <<>> => 1 \in DOMAIN EdgeSlot
                    ELSE DOMAIN t.copies \subseteq DOMAIN EdgeSlot
  /\ \A j, k \in DOMAIN EdgeSlot : EdgeSlot[j] = EdgeSlot[k] => j = k
  /\ \A k \in DOMAIN EdgeSlot : EdgeSlot[k] \notin Home \cup Operand
  /\ Home \cap Operand = {}

Init ==
  \E copies \in Seq([source : Home \cup Operand, destination : Home]), allocated \in BOOLEAN :
    LET t == [copies |-> copies, allocated |-> allocated, taken |-> FALSE] IN
    LegalEdge(t) /\ Start(t)
Spec == Init /\ [][Next]_vars

-----------------------------------------------------------------------------
(* The parameters take their arguments' values all at once. *)
Assignment == INSTANCE ParallelAssignment WITH
  Cell <- Home,
  moves <- [k \in DOMAIN transfer.copies |->
              [from |-> <<transfer.copies[k].source>>, to |-> <<transfer.copies[k].destination>>]],
  memory <- IF transfer.taken THEN [h \in Home |-> homes[h]] ELSE [h \in Home |-> h],
  taken <- transfer.taken

RefinesParallelAssignment == Assignment!Spec
=============================================================================

------------------------------ MODULE MCCopies ------------------------------
(***************************************************************************)
(* Edges over a small frame, in four families: every assignment of homes,  *)
(* widths and operands that a family allows.  And calls of the memory      *)
(* helpers over small banks: every extent of up to three chunks.           *)
(***************************************************************************)
EXTENDS EdgeCopies

CONSTANTS Bank, Banks, Zero, Byte, Disturbed

VARIABLES call, work, bytes

helper == <<call, work, bytes>>

Helper == INSTANCE MemoryHelpers
ASSUME BanksFit == Helper!SizesFit

CONSTANTS Immediate, Parameters
VARIABLES transfer, todo, homes
edge68k == <<transfer, todo, homes>>

Homes68k == {<<"home", k>> : k \in 1..(Parameters + 1)}
Edge68k == INSTANCE EdgeCopies68k WITH
  Home <- Homes68k, Operand <- {Immediate}, EdgeSlot <- [k \in 1..Parameters |-> <<"slot", k>>]

Homes(stack, page, w) ==
  [space : {"stack"}, at : stack, width : {w}] \cup [space : {"dp"}, at : page, width : {w}]
Operands(spaces, w) == [space : spaces, at : {1}, width : {w}]
Arguments(stack, page, spaces, w) ==
  [from : Homes(stack, page, w) \cup Operands(spaces, w), to : Homes(stack, page, w)]
Lists(n, A) == UNION {[1..k -> A] : k \in 1..n}

(* One or two arguments of any width, overlapping each other, themselves   *)
(* and the staging pool.                                                   *)
Overlapping == UNION {Arguments({0, 1, 3}, {0, 2}, {"imm", "link"}, w) : w \in 1..4}
(* Up to three words, overlapping or not.                                  *)
Words == Arguments({0, 1, 2, 4}, {0}, {"imm"}, 2)
(* Up to four pointers with homes of their own: two cycles at once.        *)
Pointers == Arguments({0, 3, 6}, {0}, {}, 3)
(* Up to three bytes and words over the direct page, parameters apart.     *)
Mixed == UNION {Arguments({0}, {0, 1, 2}, {"imm"}, w) : w \in {1, 2}}

Places == UNION {{a.from, a.to} : a \in Overlapping \cup Words \cup Pointers \cup Mixed}
AllCells == ({"stack"} \X (0..24)) \cup ({"dp"} \X (0..5)) \cup ({"result"} \X {1, 2})

(* Edges are legal argument by argument: one made of an argument alone, as *)
(* long as a family has, stands for all it occurs in.                      *)
AllLegal(n, A, p) == \A a \in A : LegalEdge([k \in 1..n |-> a], p)
ASSUME LegalEdges ==
  /\ AllLegal(2, Overlapping, 2) /\ AllLegal(2, Overlapping, 8)
  /\ AllLegal(3, Words, 6) /\ AllLegal(4, Pointers, 9) /\ AllLegal(3, Mixed, 8)

EdgeInit ==
  \/ \E m \in Lists(2, Overlapping), p \in {2, 8} : Start(m, p)
  \/ \E m \in Lists(3, Words) : Start(m, 6)
  \/ \E m \in Lists(4, Pointers) : Start(m, 9) /\ Disjoint
  \/ \E m \in Lists(3, Mixed) : Start(m, 8) /\ Disjoint

NoCall == [op |-> "clear", destination |-> 0, source |-> 0, length |-> 0]
NoWork == [at |-> "idle"]
HelperIdle == call = NoCall /\ work = NoWork /\ bytes = [a \in 0..(Bank * Banks - 1) |-> a]
EdgeIdle ==
  /\ moves = <<>> /\ pool = 0 /\ strategy = "none" /\ phase = "idle"
  /\ pending = {} /\ staged = <<>> /\ code = <<>> /\ source = <<>>
  /\ memory = [c \in Cell |-> c] /\ acc = <<AccLow, AccHigh>>

(* Homes are interchangeable, so parameter k has home k; one home more is  *)
(* nobody's destination.                                                   *)
Edges68k ==
  UNION {{[copies |-> [k \in 1..n |-> [source |-> s[k], destination |-> <<"home", k>>]],
           allocated |-> a, taken |-> FALSE] :
            s \in [1..n -> Homes68k \cup {Immediate}], a \in BOOLEAN} : n \in 1..Parameters}
ASSUME LegalEdges68k == \A t \in Edges68k : Edge68k!LegalEdge(t)
NoTransfer == [copies |-> <<>>, allocated |-> TRUE, taken |-> FALSE]
Edge68kIdle == transfer = NoTransfer /\ todo = <<>> /\ homes = <<>>

MCInit ==
  \/ EdgeInit /\ HelperIdle /\ Edge68kIdle
  \/ EdgeIdle /\ Helper!Init /\ Edge68kIdle
  \/ EdgeIdle /\ HelperIdle /\ \E t \in Edges68k : Edge68k!Start(t)
MCNext ==
  \/ Next /\ UNCHANGED <<helper, edge68k>>
  \/ Helper!Next /\ UNCHANGED <<vars, edge68k>>
  \/ transfer # NoTransfer /\ Edge68k!Next /\ UNCHANGED <<vars, helper>>
allVars == <<vars, helper, edge68k>>
MCSpec == MCInit /\ [][MCNext]_allVars /\ WF_allVars(MCNext)

(* Whatever the planner, order, captures and overlaps, an edge is a        *)
(* simultaneous assignment and touches nothing else that holds a value,    *)
(* on either machine; so is a call of Move, Clear or Fill, however its     *)
(* objects overlap, over chunk and bank boundaries and with an odd end,    *)
(* and it does not as much as read a byte beside them.                     *)
CopiesAreAssignments ==
  /\ RefinesParallelAssignment
  /\ Helper!RefinesParallelAssignment
  /\ Edge68k!RefinesParallelAssignment

(* Planning and running an edge come to an end, and so does every call.    *)
CopiesEnd == <>(phase \in {"done", "rejected"} \/ Helper!Returned \/ transfer.taken)
=============================================================================

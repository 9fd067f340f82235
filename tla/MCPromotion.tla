----------------------------- MODULE MCPromotion -----------------------------
(* Dominance on every graph of blocks with at most two targets each, and   *)
(* promotion, with the run of its result, on small routines of every shape *)
(* that has joins, loops or both.                                          *)
EXTENDS Promotion, TLC

Blocks == 1..4
CONSTANT MaxTargets           \* bound: targets of a terminator

Two(n, a, b) == {<<n, a>>, <<n, b>>}
Shapes ==
  {Two(1, 2, 3) \cup {<<2, 4>>, <<3, 4>>},                          \* diamond
   {<<1, 2>>} \cup Two(2, 3, 4) \cup {<<3, 2>>},                    \* loop
   {<<1, 2>>} \cup Two(2, 2, 3) \cup Two(3, 2, 4),                  \* nested loops
   Two(1, 2, 3) \cup {<<2, 3>>} \cup Two(3, 2, 4),                  \* loop with two entries
   Two(1, 2, 4) \cup Two(2, 3, 4) \cup {<<3, 4>>},                  \* exits that meet
   {<<1, 2>>, <<3, 2>>} \cup Two(2, 3, 4) \cup {<<4, 2>>},          \* two latches
   Two(1, 2, 3) \cup {<<2, 1>>, <<3, 4>>}}                          \* loop at the entry

Bodies ==
  {<<>>, <<"load">>, <<"store">>, <<"divide">>, <<"call">>, <<"store", "load">>,
   <<"load", "store">>, <<"store", "divide">>, <<"region", "fault">>}

Branching == [Blocks -> {s \in SUBSET Blocks : Cardinality(s) <= MaxTargets}]
EdgesOf(t) == {e \in Blocks \X Blocks : e[2] \in t[e[1]]}
AnyGraph == \E t \in Branching : edges = EdgesOf(t)

-----------------------------------------------------------------------------
(* Registers for small routines on two of the shapes: values are named     *)
(* after their block, 10 b + k for a parameter and 10 b + 5 + k otherwise. *)
CONSTANTS Registers, NoTemp

VARIABLES phase, routine, conflicts, candidates, registers, discarded, point, held
allocation == <<phase, routine, conflicts, candidates, registers, discarded, point, held>>

Registers68k == INSTANCE RegisterAllocation68k WITH Pool <- Registers

DataRegisters == <<4, 5>>
Op(kind, uses, result) == [kind |-> kind, uses |-> uses, result |-> result]
Load(t) == Op("op", <<>>, t)
Read(v) == Op("op", <<v>>, NoTemp)
Maybe(S) == {<<>>} \cup {<<x>> : x \in S}

Source(parameters, one, two, three, four, condition, args) ==
  [params |-> parameters, ops |-> <<one, two, three, four>>,
   condition |-> [b \in Blocks |-> IF b = condition[1] THEN condition[2] ELSE NoTemp], args |-> args]

Loop == {<<1, 2>>, <<2, 3>>, <<2, 4>>, <<3, 2>>}
LoopRoutine ==
  \E n \in 0..2 :
    LET named == SubSeq(<<21, 22>>, 1, n)
        values == ToSet(named) \cup {15} IN
    \E two \in Maybe({Read(v) : v \in values} \cup {Op("compare", <<v>>, 25) : v \in values}),
      three \in Maybe({Read(v) : v \in values} \cup {Op("op", <<v>>, 35) : v \in values})
                 \cup {<<Load(36), Op("call", <<v>>, 35), Read(36)>> : v \in values},
      four \in Maybe({Read(v) : v \in values \cup {25}}),
      start \in [1..n -> {15, NoTemp}], again \in [1..n -> values \cup {25, 35}] :
        routine' = Source([b \in Blocks |-> IF b = 2 THEN named ELSE <<>>],
                          <<Load(15)>>, two, three, four,
                          <<2, IF two # <<>> THEN two[1].result ELSE NoTemp>>,
                          [e \in Loop |-> CASE e = <<1, 2>> -> start [] e = <<3, 2>> -> again [] OTHER -> <<>>])

Diamond == {<<1, 2>>, <<1, 3>>, <<2, 4>>, <<3, 4>>}
DiamondRoutine ==
  \E n \in 0..2 :
    LET named == SubSeq(<<41, 42>>, 1, n)
        values == ToSet(named) \cup {15, 16} IN
    \E two \in Maybe({Read(15), Op("op", <<15>>, 25)}), three \in Maybe({Op("op", <<16>>, 35)}),
      first, last \in values,
      left \in [1..n -> {15, 16, 25, NoTemp}], right \in [1..n -> {15, 16, 35}] :
        routine' = Source([b \in Blocks |-> IF b = 4 THEN named ELSE <<>>],
                          <<Load(15), Load(16)>>, two, three, <<Read(first), Read(last), Read(first)>>,
                          <<1, 15>>,
                          [e \in Diamond |-> CASE e = <<2, 4>> -> left [] e = <<3, 4>> -> right [] OTHER -> <<>>])

AnyRoutine ==
  /\ Done /\ stage = "analysis" /\ phase = "source" /\ routine = <<>>
  /\ \/ edges = Loop /\ LoopRoutine
     \/ edges = Diamond /\ DiamondRoutine
  /\ UNCHANGED <<vars, phase, conflicts, candidates, registers, discarded, point, held>>
  /\ Registers68k!WellFormed'

-----------------------------------------------------------------------------
MCInit ==
  /\ AnyGraph
  /\ Init /\ PromotionInit /\ Registers68k!AllocationInit
MCNext ==
  \/ (Done => edges \in Shapes) /\ routine = <<>> /\ PromotionNext /\ UNCHANGED allocation
  \/ (AnyRoutine \/ Registers68k!AllocationNext) /\ UNCHANGED promotion
MCSpec == MCInit /\ [][MCNext]_<<vars, promotion, allocation>>

AllocationPreserves == Registers68k!AllocationPreserves
=============================================================================

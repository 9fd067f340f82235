------------------------------ MODULE MCStorage ------------------------------
(* StorageOptimizer on small routines: a loop, two nested loops or a join. *)
EXTENDS StorageOptimizer

Homes == {"x", "y"}
ThreeHomes == {"x", "y", "z"}
ThreeBlocks == 1..3
FourBlocks == 1..4

Shapes ==
  {{<<1, 2>>, <<2, 2>>, <<2, 3>>}, {<<1, 2>>, <<2, 3>>, <<3, 2>>, <<3, 3>>}, {<<1, 2>>, <<1, 3>>, <<2, 3>>}}

seed == Temp(1, 1)
Load(h) == Op("load", h, NoValue)
Store(h, v) == Op("store", h, v)
Compute(v) == Op("compute", "", v)
Barrier(k) == Op(k, "", NoValue)
Leave(v) == Op("leave", "", v)

Starts == {<<Compute(Const), Store("x", seed)>>, <<Load("y"), Store("x", seed)>>, <<Load("x"), Store("y", Const)>>}
Middle ==
  {Load("x"), Load("y"), Compute(seed), Op("divide", "", Const), Op("poke", "", seed), Op("region", "x", NoValue)}
    \cup {Barrier(k) : k \in {"call", "callee", "foreign"}}
    \cup {Store(h, v) : h \in Homes, v \in {Const, seed}}
Second(op) == Middle \cup {Store("y", v) : v \in IF DefinesTemp(op) THEN {Temp(2, 1)} ELSE {}}
Ends == {<<Load("x"), Leave(seed)>>, <<Load("y"), Leave(Temp(3, 1))>>, <<Load("y"), Load("x"), Leave(Temp(3, 2))>>}

AnyRoutine ==
  /\ edges \in Shapes
  /\ kind \in [Homes -> {"automatic", "static", "global"}]
  /\ \E first \in Starts, op \in Middle, last \in Ends : \E next \in Second(op) :
       source = <<first \o <<Leave(Const)>>, <<op, next, Leave(Const)>>, last>>
  /\ WellFormed
  /\ Init
MCSpec == AnyRoutine /\ [][Next]_vars

(* x := seed; do t := x; y := t; x := seed; exit if seed; z := y; y := t od *)
CopyingLoop ==
  /\ edges = {<<1, 2>>, <<2, 3>>, <<2, 4>>, <<3, 2>>}
  /\ kind = [h \in ThreeHomes |-> "global"]
  /\ source = <<<<Compute(Const), Store("x", seed), Leave(Const)>>,
                <<Load("x"), Store("y", Temp(2, 1)), Store("x", seed), Leave(seed)>>,
                <<Load("y"), Store("z", Temp(3, 1)), Store("y", Temp(2, 1)), Leave(Const)>>,
                <<Leave(Const)>>>>
  /\ Init
LoopSpec == CopyingLoop /\ [][Next]_vars /\ FairSolver

(* y := 5; do t := y; x := t; v := x; do use v; call od od, over globals:   *)
(* what v stands for is 5 before the outer loop comes round, then t.       *)
TwoLoops ==
  /\ edges = {<<1, 2>>, <<2, 3>>, <<3, 2>>, <<3, 3>>}
  /\ kind = [h \in Homes |-> "global"]
  /\ source = <<<<Store("y", Const), Leave(Const)>>,
                <<Load("y"), Store("x", Temp(2, 1)), Load("x"), Leave(Const)>>,
                <<Compute(Temp(2, 3)), Barrier("call"), Leave(Const)>>>>
  /\ Init
TwoLoopsSpec == TwoLoops /\ [][Next]_vars
=============================================================================

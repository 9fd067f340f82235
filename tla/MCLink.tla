------------------------------- MODULE MCLink -------------------------------
(* The linker on two families of instances: bare graphs, assembled in any   *)
(* order and queried for any roots, and programs of three items in two      *)
(* regions, which are two modules or, in a legacy source, share one         *)
(* identity; every use the walk tells apart, two of them by the first item. *)
EXTENDS LinkSelection

Position == 1..3
Identities == (101..103) \cup (201..203) \cup (310..312) \cup (320..322)
BareNode == {101, 201, 310}
BareReason == {0, 4}

Vias(kind, opaque) ==
  CASE opaque -> {"machine"}
    [] kind \in {"routine", "statement"} -> {"call", "value"}
    [] kind = "storage" -> {"value", "list"}
    [] OTHER -> {}

Shapes ==
  {<<"routine", FALSE>>, <<"routine", TRUE>>, <<"statement", FALSE>>, <<"statement", TRUE>>,
   <<"storage", FALSE>>, <<"type", FALSE>>, <<"define", FALSE>>}

AtMostOne(S) == {{}} \cup {{x} : x \in S}
RefsOf(shapes, i) ==
  AtMostOne({r \in [to : {j \in Position \ {i} : shapes[j][1] \in {"routine", "storage"}},
                    via : Vias(shapes[i][1], shapes[i][2])] :
               r.via = "call" => shapes[r.to][1] = "routine"})

(* The third item is always in a library region or all is one region. *)
Regions == {<<1, 1, 1>>, <<1, 1, 2>>, <<1, 2, 2>>}
Modules(regions) == IF regions[3] = 1 THEN {<<1, 2>>} ELSE {<<1, 2>>, <<1, 1>>}

NoProgram == [items |-> <<>>, module |-> <<1>>, root |-> 1, entry |-> 0]

AnyProgram ==
  \E shapes \in [Position -> Shapes], regions \in Regions :
  \E module \in Modules(regions),
     r1 \in {a \cup b : a, b \in RefsOf(shapes, 1)}, r2 \in RefsOf(shapes, 2), r3 \in RefsOf(shapes, 3),
     entry \in {0} \cup {i \in Position : shapes[i][1] = "routine"} :
    program = [items |-> [i \in Position |->
                           [region |-> regions[i], kind |-> shapes[i][1], opaque |-> shapes[i][2],
                            refs |-> <<r1, r2, r3>>[i]]],
               module |-> module, root |-> 1, entry |-> entry]

MCInit == ((program = NoProgram /\ policy = "RetainAll") \/ AnyProgram) /\ SelectInit

(* A graph that no program stands behind. *)
BareNext ==
  /\ program = NoProgram
  /\ \/ \E n \in BareNode : AddNode(n)
     \/ \E s, t \in BareNode, r \in BareReason : AddEdge(s, t, r)
     \/ \E R \in SUBSET BareNode : BeginClosure(R)
  /\ UNCHANGED selection

MCNext ==
  \/ BareNext
  \/ program # NoProgram /\ (Build \/ StartClosure)
  \/ Close
  \/ Filter

MCSpec == MCInit /\ [][MCNext]_linkVars /\ WF_linkVars(Close)
=============================================================================

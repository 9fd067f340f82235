-------------------------- MODULE ParallelAssignment --------------------------
(***************************************************************************)
(* What a control-flow edge promises: the parameters of the target block   *)
(* take the values of the edge's arguments all at once.                    *)
(***************************************************************************)
EXTENDS Integers, Sequences

CONSTANT Cell                 \* bytes of the frame and of the direct page

VARIABLES moves,              \* the edge: from (byte sources) and to (cells), per argument
          memory,
          taken

vars == <<moves, memory, taken>>

(* Homes that overlap are written in the order of the arguments.           *)
LastWriter(c) ==
  CHOOSE i \in DOMAIN moves :
    /\ \E k \in DOMAIN moves[i].to : moves[i].to[k] = c
    /\ \A j \in DOMAIN moves : (\E k \in DOMAIN moves[j].to : moves[j].to[k] = c) => j <= i

Written(c) == \E i \in DOMAIN moves : \E k \in DOMAIN moves[i].to : moves[i].to[k] = c

ValueOf(byte) == IF byte \in Cell THEN memory[byte] ELSE byte

Transfer ==
  /\ ~taken
  /\ taken' = TRUE
  /\ memory' = [c \in Cell |->
       IF Written(c)
         THEN LET i == LastWriter(c) IN
              ValueOf(moves[i].from[CHOOSE k \in DOMAIN moves[i].to : moves[i].to[k] = c])
         ELSE memory[c]]
  /\ UNCHANGED moves

Init == taken = FALSE

Spec == Init /\ [][Transfer]_vars
=============================================================================

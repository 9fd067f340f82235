------------------------ MODULE RegisterAllocation68k ------------------------
(***************************************************************************)
(* The data registers of a 68000 routine: allocate of                      *)
(* src/mir68k/allocation.rs on top of Dominance, and the routine run with  *)
(* the homes it hands out.                                                 *)
(*                                                                         *)
(* An operation keeps what it reads and what it defines.  A value that     *)
(* gets no register has a longword of the frame to itself.  An operation   *)
(* reads its operands before it saves its result, and the copies of an     *)
(* edge are one assignment, which is EdgeCopies68k's promise.              *)
(***************************************************************************)
EXTENDS Dominance, Sequences, SequencesExt, FiniteSetsExt

CONSTANTS Pool,               \* the registers there are, in order of preference
          NoTemp              \* in place of a temporary: a literal, or no result

VARIABLES phase,              \* "source", "choosing", "running" or "refused"
          routine,            \* [params, ops, condition] of each block, args of each edge
          conflicts,          \* pairs that must not share a register
          candidates,         \* temporaries still to get one, the most used first
          registers,          \* register of each allocated temporary
          discarded,          \* temporaries without any home
          point,              \* block and position about to run
          held                \* history: whose current value each home holds

plan == <<conflicts, candidates>>
homes == <<registers, discarded>>
allocation == <<phase, routine, plan, homes, point, held>>

-----------------------------------------------------------------------------
Targets(b) == {c \in Node : <<b, c>> \in edges}
Ops(b) == routine.ops[b]
Params(b) == ToSet(routine.params[b])
Defined(b) == (Params(b) \cup {Ops(b)[i].result : i \in DOMAIN Ops(b)}) \ {NoTemp}
Temps == UNION {Defined(b) : b \in Node}

(* What the verifier and promotion promise: an argument for each parameter, *)
(* and none for the entry.  Registers and frame slots are different homes. *)
Value == Int \cup {NoTemp}
Operation == [kind : {"op", "compare", "call"}, uses : Seq(Value), result : Value]
WellFormed ==
  /\ routine \in [params : [Node -> Seq(Int \ {NoTemp})], ops : [Node -> Seq(Operation)],
                  condition : [Node -> Value], args : [edges -> Seq(Value)]]
  /\ \A e \in edges : Len(routine.args[e]) = Len(routine.params[e[2]])
  /\ routine.params[Entry] = <<>>
  /\ Temps \cap ToSet(Pool) = {}

(* op_values, and term_values after the last operation. *)
TermValues(b) ==
  FoldSet(LAMBDA c, values : values \o routine.args[<<b, c>>], <<routine.condition[b]>>, Targets(b))
Values(b, i) == IF i <= Len(Ops(b)) THEN Ops(b)[i].uses ELSE TermValues(b)
Used(b, i) ==
  (IF i <= Len(Ops(b)) THEN ToSet(Ops(b)[i].uses)
   ELSE {routine.condition[b]} \cup UNION {ToSet(routine.args[<<b, c>>]) : c \in Targets(b)}) \ {NoTemp}
Positions(b) == 1..(Len(Ops(b)) + 1)

Count(t, b) ==
  MapThenSumSet(LAMBDA i : Len(SelectSeq(Values(b, i), LAMBDA v : v = t)), Positions(b))
UseCount(t) == MapThenSumSet(LAMBDA b : Count(t, b), Node)

(* verify_uses: every value is defined before its use on every path. *)
Verified ==
  \A b \in reachable : \A i \in Positions(b) : \A t \in Used(b, i) :
    \E a \in dominators[b] :
      \/ t \in Params(a)
      \/ \E j \in DOMAIN Ops(a) : Ops(a)[j].result = t /\ (a = b => j < i)

(* What the solver answers for Liveness. *)
Exposed(b) ==
  {t \in Temps \ Params(b) : \E i \in Positions(b) :
     t \in Used(b, i) /\ \A j \in 1..(i - 1) : Ops(b)[j].result # t}
LiveIn ==
  LET In[k \in 0..Cardinality(Node)] ==
        IF k = 0 THEN [b \in Node |-> Exposed(b)]
        ELSE LET near == In[k - 1] IN
             [b \in Node |-> Exposed(b) \cup ((UNION {near[c] : c \in Targets(b)}) \ Defined(b))]
  IN In[Cardinality(Node)]

(* The values needed before each position of a block and at its end. *)
Active(b) ==
  LET end == (UNION {LiveIn[c] : c \in Targets(b)}) \cup Used(b, Len(Ops(b)) + 1)
      Before[i \in Positions(b)] ==
        IF i = Len(Ops(b)) + 1 THEN end
        ELSE (Before[i + 1] \ {Ops(b)[i].result}) \cup Used(b, i)
  IN Before

(* A parameter is written before anything else of the block happens.       *)
Interferences_ParamsApart(b) ==
  LET before == Active(b) IN
  (UNION {{Ops(b)[i].result} \X before[i + 1] : i \in DOMAIN Ops(b)})
    \cup (Params(b) \X (before[1] \cap Params(b)))
Interferences(b) ==
  LET before == Active(b) IN
  (UNION {{Ops(b)[i].result} \X before[i + 1] : i \in DOMAIN Ops(b)}) \cup (Params(b) \X before[1])
Conflict(s, t) == s # t /\ (<<s, t>> \in conflicts \/ <<t, s>> \in conflicts)

(* Only values that cross an edge or a call compete for registers. *)
Passed(b) ==
  UNION {UNION {{routine.params[c][k], routine.args[<<b, c>>][k]} : k \in DOMAIN routine.params[c]} :
           c \in Targets(b)} \ {NoTemp}
OverCalls(b) ==
  UNION {Active(b)[i + 1] \ {Ops(b)[i].result} : i \in {j \in DOMAIN Ops(b) : Ops(b)[j].kind = "call"}}
Across == UNION {LiveIn[b] \cup Passed(b) \cup OverCalls(b) : b \in reachable}

(* A comparison only its block's branch uses is made by the branch itself. *)
Fused(b) ==
  /\ Ops(b) # <<>> /\ Last(Ops(b)).kind = "compare"
  /\ Last(Ops(b)).result = routine.condition[b] /\ UseCount(routine.condition[b]) = 1
Discarded ==
  {t \in Temps : UseCount(t) = 0}
    \cup {routine.condition[b] : b \in {c \in Node : Fused(c)}}

(* loop_weights: a use counts more in every loop it is in. *)
Members(h) ==
  LET Back[k \in 0..Cardinality(Node)] ==
        IF k = 0 THEN {t \in reachable : <<t, h>> \in edges /\ h \in dominators[t]}
        ELSE LET near == Back[k - 1] IN near \cup UNION {Predecessors(b) : b \in near \ {h}}
  IN IF Back[0] = {} THEN {} ELSE {h} \cup Back[Cardinality(Node)]
Weight(b) == 1 + 16 * Cardinality({h \in reachable : b \in Members(h)})
Score(t) == MapThenSumSet(LAMBDA b : Weight(b) * Count(t, b), reachable)

Candidates(excluded) ==
  LET score == [t \in Temps |-> Score(t)] IN
  SetToSortSeq({t \in Across \ excluded : score[t] >= 2},
               LAMBDA s, t : score[s] > score[t] \/ (score[s] = score[t] /\ s < t))

-----------------------------------------------------------------------------
AllocationInit ==
  /\ phase = "source" /\ routine = <<>> /\ conflicts = {} /\ candidates = <<>>
  /\ registers = <<>> /\ discarded = {}
  /\ point = <<Entry, 1>> /\ held = <<>>

Allocate ==
  /\ phase = "source" /\ routine # <<>> /\ Done
  /\ IF Verified
       THEN /\ phase' = "choosing"
            /\ conflicts' = UNION {Interferences(b) : b \in reachable}
            /\ discarded' = Discarded
            /\ candidates' = Candidates(discarded')
       ELSE phase' = "refused" /\ UNCHANGED <<plan, discarded>>
  /\ UNCHANGED <<vars, routine, registers, point, held>>

Taken(t) == {registers[s] : s \in {r \in DOMAIN registers : Conflict(r, t)}}
Affine(t) ==
  {s \in DOMAIN registers : \E e \in edges : \E k \in DOMAIN routine.args[e] :
     {s, t} = {routine.params[e[2]][k], routine.args[e][k]} /\ s # t}
Preferred(t) ==
  [k \in 1..Cardinality(Affine(t)) |-> registers[SetToSortSeq(Affine(t), <)[k]]]
Free(t) == SelectSeq(Preferred(t) \o Pool, LAMBDA r : r \notin Taken(t))

Choose ==
  /\ phase = "choosing" /\ candidates # <<>>
  /\ registers' = IF Free(Head(candidates)) = <<>> THEN registers
                  ELSE Head(candidates) :> Head(Free(Head(candidates))) @@ registers
  /\ candidates' = Tail(candidates)
  /\ UNCHANGED <<vars, phase, routine, conflicts, discarded, point, held>>

(* verify_allocation *)
Sound ==
  /\ \A t \in DOMAIN registers : registers[t] \in ToSet(Pool) /\ t \in Temps \ discarded
  /\ \A s, t \in DOMAIN registers : Conflict(s, t) => registers[s] # registers[t]
Finish ==
  /\ phase = "choosing" /\ candidates = <<>>
  /\ phase' = IF Sound THEN "running" ELSE "refused"
  /\ held' = [home \in ToSet(Pool) \cup Temps |-> {}]
  /\ UNCHANGED <<vars, routine, plan, homes, point>>

-----------------------------------------------------------------------------
(* A run: temp names the home of a value, save writes one. *)
Home(t) == IF t \in DOMAIN registers THEN registers[t] ELSE t
Saved(t) ==
  [home \in DOMAIN held |-> IF home = Home(t) THEN {t} ELSE held[home] \ {t}]

Execute ==
  /\ phase = "running" /\ point[2] <= Len(Ops(point[1]))
  /\ LET result == Ops(point[1])[point[2]].result IN
     held' = IF result \in discarded \cup {NoTemp} THEN held ELSE Saved(result)
  /\ point' = <<point[1], point[2] + 1>>
  /\ UNCHANGED <<vars, phase, routine, plan, homes>>

(* After an edge a home holds whatever its source held, and by new names.  *)
Copied(e) == {k \in DOMAIN routine.args[e] : routine.params[e[2]][k] \notin discarded}
Writers(e, home) ==
  {k \in Copied(e) : /\ Home(routine.params[e[2]][k]) = home
                     /\ \A j \in Copied(e) : j > k => Home(routine.params[e[2]][j]) # home}
Source(e, k) == IF routine.args[e][k] = NoTemp THEN {} ELSE held[Home(routine.args[e][k])]
Arrived(e, home) ==
  LET into == Writers(e, home)
      old == IF into = {} THEN held[home] ELSE UNION {Source(e, k) : k \in into}
      names == into \cup {k \in Copied(e) : routine.args[e][k] \in old}
  IN (old \ Params(e[2])) \cup {routine.params[e[2]][k] : k \in names}

Follow(c) ==
  /\ phase = "running" /\ point[2] > Len(Ops(point[1]))
  /\ held' = [home \in DOMAIN held |-> Arrived(<<point[1], c>>, home)]
  /\ point' = <<c, 1>>
  /\ UNCHANGED <<vars, phase, routine, plan, homes>>

AllocationNext == Allocate \/ Choose \/ Finish \/ Execute \/ (\E c \in Targets(point[1]) : Follow(c))

-----------------------------------------------------------------------------
(* Whatever register a value is given, it is still there wherever the      *)
(* routine reads it: parameters written on one incoming edge or another,   *)
(* loops and shared registers destroy no value that is read later.         *)
AllocationPreserves ==
  phase = "running" =>
    \A t \in Used(point[1], point[2]) \ discarded : t \in held[Home(t)]
=============================================================================

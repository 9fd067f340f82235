--------------------------- MODULE StorageOptimizer ---------------------------
(***************************************************************************)
(* Loads forwarded from what their home is known to hold, and stores no    *)
(* one reads dropped: propagate_routine of src/nir/storage_optimizer.rs,   *)
(* then eliminate_dead_stores of src/nir/home_elision.rs, each through the *)
(* solver of Dataflow; then the routine that comes out of them, run beside *)
(* the one that went in.                                                   *)
(*                                                                         *)
(* The two alternate in src/nir.rs; one round of them is modelled.         *)
(*                                                                         *)
(* Homes are scalars of one width, directly accessed, with no address      *)
(* taken.  Temps are named by the operation that defines them, and block   *)
(* parameters are left out.  A terminator is the last operation of a block *)
(* and its condition or argument the value it uses.                        *)
(***************************************************************************)
EXTENDS Integers, Sequences, SequencesExt, FiniteSets

CONSTANTS Node,               \* blocks, the first of them the entry
          Home,
          MaxOps,             \* bound: operations of a block
          MaxCount

ASSUME BlockAssumption == 1 \in Node /\ Node \subseteq Nat /\ IsFiniteSet(Node)
ASSUME SizeAssumption == MaxOps \in Nat

VARIABLES stage,              \* "forwarding", "liveness" or "running"
          kind,               \* "automatic", "static" or "global", of each home
          source, code,       \* operations as they came, and as they are now
          edges, reachable, order,
          in_states, out_states, worklist, queued, evaluations,
          at,                 \* block and operation about to run
          holders,            \* history: temps and homes that hold one given value
          stale               \* homes whose last store was dropped

graph == <<edges, reachable>>
solver == <<in_states, out_states, worklist, queued, evaluations>>
run == <<at, holders, stale>>
vars == <<stage, kind, source, code, graph, order, solver, run>>

Entry == 1
Const == <<"const">>
NoValue == <<"none">>
Place(h) == <<"home", h>>
Temp(n, i) == <<"temp", n, i>>
IsTemp(v) == v[1] = "temp"

Op(k, h, v) == [kind |-> k, home |-> h, value |-> v]
Dropped == Op("dropped", "", NoValue)
DefinesTemp(op) == op.kind \in {"load", "compute", "divide"}

Temps == UNION {{Temp(n, i) : i \in {j \in DOMAIN source[n] : DefinesTemp(source[n][j])}} : n \in Node}
Fact == ({Place(h) : h \in Home} \cup Temps) \X ({Const} \cup Temps)
Private(h) == kind[h] = "automatic"

-----------------------------------------------------------------------------
(* What is known between two operations: the value a home holds, and the   *)
(* value that stands for the temp of a load that is gone.                  *)
Onward(v, known) ==
  LET values == {f[2] : f \in {g \in known : g[1] = v}} IN
  IF values = {} THEN v ELSE CHOOSE w \in values : TRUE
Resolve(v, known) ==
  LET Follow[k \in 0..Cardinality(Temps)] == IF k = 0 THEN v ELSE Onward(Follow[k - 1], known)
  IN Follow[Cardinality(Temps)]

Without(names, known) == {f \in known : f[1] \notin names}
Unkept(Keeps(_)) == {Place(h) : h \in {g \in Home : ~Keeps(g)}}
EveryPlace == Unkept(LAMBDA h : FALSE)

UsedIn(n, v) == \E i \in DOMAIN source[n] : source[n][i].value = v
UsedAfter(n, i, v) == \E j \in (i + 1)..Len(source[n]) : source[n][j].value = v

(* retain_available_storage_values: temps are not kept alive for a load.   *)
Retained(n, i, known) ==
  {f \in known : f[1] \in EveryPlace /\ IsTemp(f[2]) => UsedAfter(n, i, f[2])}

Graph == INSTANCE FlowGraph
Dominates(d, n) ==
  d = n \/ n \notin Graph!ReachableFrom(Node, {e \in edges : e[1] # d}, Entry)

(* What verify_program asks of a routine: a block ends where it says so,   *)
(* and a value is there before it is used, on every way to its use.        *)
Kinds == {"load", "store", "compute", "divide", "call", "callee", "region", "poke", "foreign", "leave"}
Operation == [kind : Kinds, home : Home \cup {""}, value : Temps \cup {Const, NoValue}]
Defined(t, n, i) == IF t[2] = n THEN t[3] < i ELSE Dominates(t[2], n)
WellFormed ==
  /\ kind \in [Home -> {"automatic", "static", "global"}]
  /\ edges \subseteq Node \X Node
  /\ source \in [Node -> Seq(Operation)]
  /\ \A n \in Node : Len(source[n]) \in 1..MaxOps
  /\ \A n \in Node : \A i \in DOMAIN source[n] :
       LET op == source[n][i] IN
       /\ op.kind = "leave" <=> i = Len(source[n])
       /\ op.kind \in {"load", "store", "region"} => op.home \in Home
       /\ op.kind = "store" => op.value # NoValue
       /\ IsTemp(op.value) => Defined(op.value, n, i)

Available(v, n, i) ==
  \/ ~IsTemp(v)
  \/ v[2] = n /\ v[3] < i
  \/ v[2] # n /\ Dominates(v[2], n) /\ UsedIn(n, v)

Forwarded(n, i, known) ==
  /\ source[n][i].kind = "load"
  /\ \E f \in known : /\ f[1] = Place(source[n][i].home)
                      /\ Available(Resolve(f[2], known), n, i)

(* transfer_op: the facts after an operation.                              *)
SurvivesCall_AllLocals(h) == kind[h] # "global"
SurvivesCall(h) == Private(h)
After(n, i, known) ==
  LET op == source[n][i]
      place == Place(op.home)
      temp == Temp(n, i)
      kept == Retained(n, i, Without({temp}, known))
  IN CASE Forwarded(n, i, known) ->
            LET held == (CHOOSE f \in known : f[1] = place)[2] IN
            Without({temp}, known) \cup {<<temp, Resolve(held, known)>>}
       [] op.kind = "load" /\ ~Forwarded(n, i, known) -> Without({place}, kept) \cup {<<place, temp>>}
       [] op.kind = "store" -> Without({place}, known) \cup {<<place, Resolve(op.value, known)>>}
       [] op.kind = "compute" -> kept
       [] op.kind = "divide" -> Without(EveryPlace, kept)
       [] op.kind = "call" -> Without(Unkept(SurvivesCall), kept)
       [] op.kind = "callee" -> Without(Unkept(LAMBDA h : kind[h] # "global"), kept)
       [] op.kind = "region" -> Without({place}, kept)
       [] op.kind \in {"poke", "foreign"} -> Without(EveryPlace, known)
       [] OTHER -> known

(* What is known before each operation of a block, and behind the last.    *)
Facts(n, known) ==
  LET At[i \in 1..(Len(source[n]) + 1)] ==
        IF i = 1 THEN known ELSE [before \in SUBSET Fact |-> After(n, i - 1, before)][At[i - 1]]
  IN At
Rewritten(n, i, known) ==
  IF Forwarded(n, i, known) THEN Dropped ELSE [source[n][i] EXCEPT !.value = Resolve(@, known)]
ForwardedCode(n, known) ==
  LET facts == Facts(n, known) IN [i \in DOMAIN source[n] |-> Rewritten(n, i, facts[i])]

-----------------------------------------------------------------------------
(* StorageValueProblem: no state yet, or some facts, of which a join keeps *)
(* those both sides know.  In the lattice of the solver, where a join is a *)
(* union, a state is what is not known.                                    *)
Arrived == <<<<"arrived">>, <<"arrived">>>>
Some(known) == {Arrived} \cup (Fact \ known)
Known(s) == Fact \ s

ForwardTransfer(n, s) == IF s = {} THEN {} ELSE Some(Facts(n, Known(s))[Len(source[n]) + 1])

(* Homes of which every store may go: locals never read before a store.    *)
Avoiding(h) == {e \in edges : \A i \in DOMAIN code[e[1]] : code[e[1]][i] # Op("store", h, code[e[1]][i].value)}
ReadBeforeDefinition(h) ==
  \E n \in Graph!ReachableFrom(Node, Avoiding(h), Entry) :
    \E i \in DOMAIN code[n] :
      /\ code[n][i].kind = "load" /\ code[n][i].home = h
      /\ \A j \in 1..(i - 1) : ~(code[n][j].kind = "store" /\ code[n][j].home = h)
Candidates == {h \in Home : kind[h] # "global" /\ ~ReadBeforeDefinition(h)}

(* transfer_op_backwards. Calls and faults may look at what is not private. *)
Observable == {h \in Candidates : ~Private(h)}
Before(op, live) ==
  Candidates \cap
  CASE op.kind = "load" -> live \cup {op.home}
    [] op.kind = "store" -> live \ {op.home}
    [] op.kind = "divide" -> live \cup Observable
    [] op.kind = "call" -> live \cup Observable
    [] op.kind = "region" -> (live \ {op.home}) \cup {op.home}
    [] op.kind = "foreign" -> live \cup Candidates
    [] OTHER -> live

(* What is live before each operation of a block, and behind the last.     *)
LiveThrough(n, live) ==
  LET Through[i \in 1..(Len(code[n]) + 1)] ==
        IF i > Len(code[n]) THEN live ELSE Before(code[n][i], Through[i + 1])
  IN Through
Elided(n, live) ==
  LET through == LiveThrough(n, live) IN
  [i \in DOMAIN code[n] |->
     IF code[n][i].kind = "store" /\ code[n][i].home \in Candidates \ through[i + 1]
       THEN Dropped ELSE code[n][i]]

Alive == <<"live">>
AsState(live) == {<<Place(h), Alive>> : h \in live}
Live(s) == {h \in Home : <<Place(h), Alive>> \in s}

(* StorageLivenessProblem.  Nothing is needed at an exit: a candidate is   *)
(* stored into before the next call loads it.                              *)
BackwardTransfer(n, s) == AsState(LiveThrough(n, Live(s))[1])

Names == {Place(h) : h \in Home} \cup {Temp(n, i) : n \in Node, i \in 1..MaxOps}
States == SUBSET ((Names \X (Names \cup {Const, Alive})) \cup {Arrived})
Direction == IF stage = "forwarding" THEN "Forward" ELSE "Backward"
Boundary(n) == IF stage = "forwarding" /\ n = Entry THEN Some({}) ELSE {}
Transfer(n, s) == IF stage = "forwarding" THEN ForwardTransfer(n, s) ELSE BackwardTransfer(n, s)
Problem ==
  [boundary |-> [n \in Node |-> Boundary(n)],
   transfer |-> [n \in Node |-> [s \in States |-> Transfer(n, s)]],
   executable |-> [e \in Node \X Node |-> States],
   edge |-> [e \in Node \X Node |-> [s \in States |-> s]]]

Solver == INSTANCE Dataflow WITH State <- States, direction <- Direction, problem <- Problem

OrderFor(forward) == Graph!EvaluationOrder(forward, Graph!Postorder(Node, edges, Entry))
Begins(forward) ==
  /\ order' = OrderFor(forward)
  /\ in_states' = [n \in reachable |-> {}] /\ out_states' = [n \in reachable |-> {}]
  /\ worklist' = OrderFor(forward) /\ queued' = reachable
  /\ evaluations' = 0

-----------------------------------------------------------------------------
(* The checker picks kind, source and edges. *)
Init ==
  /\ stage = "forwarding"
  /\ code = source
  /\ reachable = Graph!Reachable(Node, edges, Entry)
  /\ order = OrderFor(TRUE)
  /\ Solver!Begin
  /\ at = <<Entry, 1>> /\ holders = {} /\ stale = {}

Solve ==
  /\ stage \in {"forwarding", "liveness"}
  /\ Solver!Evaluation
  /\ UNCHANGED <<stage, kind, source, code, graph, order, run>>

Forward ==
  /\ stage = "forwarding" /\ Solver!Done
  /\ code' = [n \in Node |-> ForwardedCode(n, Known(in_states[n]))]
  /\ Begins(FALSE)
  /\ stage' = "liveness"
  /\ UNCHANGED <<kind, source, graph, run>>

Eliminate ==
  /\ stage = "liveness" /\ Solver!Done
  /\ code' = [n \in Node |-> Elided(n, Live(out_states[n]))]
  /\ stage' = "running"
  /\ holders' \in {{}, {Const}} \cup {{Place(h)} : h \in Home}
  /\ UNCHANGED <<kind, source, graph, order, solver, at, stale>>

-----------------------------------------------------------------------------
(* A run of the routine that came in.  One value, any, is followed: holders *)
(* are the names that have it, so two names hold the same at all times if  *)
(* whatever the value followed, both have it or neither has.               *)
Upcoming == source[at[1]][at[2]]
Optimized == code[at[1]][at[2]]

Reads(op) ==
  {h \in Home : CASE op.kind \in {"call", "divide"} -> ~Private(h)
                  [] op.kind = "callee" -> kind[h] = "global"
                  [] op.kind = "region" -> h = op.home
                  [] op.kind = "foreign" -> TRUE
                  [] OTHER -> FALSE}
Writes(op) == IF op.kind = "divide" THEN {} ELSE Reads(op)

Copied(from, to) == IF from \in holders THEN holders \cup {to} ELSE holders \ {to}
Fresh(names) == {holders \ names} \cup (IF holders \ names = {} THEN {{x} : x \in names} ELSE {})

Step ==
  /\ stage = "running" /\ Upcoming.kind # "leave"
  /\ CASE Upcoming.kind = "load" -> holders' = Copied(Place(Upcoming.home), Temp(at[1], at[2]))
       [] Upcoming.kind = "store" -> holders' = Copied(Upcoming.value, Place(Upcoming.home))
       [] Upcoming.kind \in {"compute", "divide"} -> holders' \in Fresh({Temp(at[1], at[2])})
       [] OTHER -> \E W \in SUBSET Writes(Upcoming) : holders' \in Fresh({Place(h) : h \in W})
  /\ stale' = CASE Upcoming.kind = "store" /\ Optimized = Dropped -> stale \cup {Upcoming.home}
                [] Upcoming.kind = "store" /\ Optimized # Dropped -> stale \ {Upcoming.home}
                [] OTHER -> stale
  /\ at' = <<at[1], at[2] + 1>>
  /\ UNCHANGED <<stage, kind, source, code, graph, order, solver>>

Jump ==
  /\ stage = "running" /\ Upcoming.kind = "leave"
  /\ \E m \in Graph!Successors(edges, at[1]) : at' = <<m, 1>>
  /\ UNCHANGED <<stage, kind, source, code, graph, order, solver, holders, stale>>

Next == Solve \/ Forward \/ Eliminate \/ Step \/ Jump

-----------------------------------------------------------------------------
(* Round every loop, over every join and to the end of a call: an          *)
(* operation that is left uses values equal to those it used, a load that  *)
(* is left finds what it found, and so does whoever else looks at a home.  *)
OptimizedAgrees ==
  stage = "running" /\ Optimized # Dropped =>
    /\ Upcoming.value \in holders <=> Optimized.value \in holders
    /\ Optimized.kind = "load" => Optimized.home \notin stale
    /\ Reads(Optimized) \cap stale = {}

(* "Every component preserves verification": what is left of a routine     *)
(* uses no temp whose load is gone.                                        *)
Gone(v) == IsTemp(v) /\ code[v[2]][v[3]] = Dropped
VerificationPreserved ==
  stage = "running" /\ Optimized # Dropped => ~Gone(Optimized.value)

(* "A finite, monotone block data-flow problem": the solver gets to the end *)
(* of it.                                                                  *)
FairSolver == WF_vars(Solve)
PropagationEnds == (stage = "forwarding") ~> Solver!Done
=============================================================================

------------------------------ MODULE Promotion ------------------------------
(***************************************************************************)
(* Promotion of a storage home to values and block parameters, promote_home *)
(* of src/nir/promotion.rs on top of Dominance, and the promoted routine   *)
(* run beside the one it came from.                                        *)
(*                                                                         *)
(* Of an operation only its access to the home is kept.  Every store puts  *)
(* a value of its own there, so of the values of a run all that matters is *)
(* who holds what the home should hold.  A home admitted by the storage    *)
(* analysis is never needed at an exit: one that is may be read before its *)
(* definition, which blocks promotion.  Which of the admissible homes are  *)
(* promoted is a cost model; any may be.                                   *)
(***************************************************************************)
EXTENDS Dominance, Sequences, SequencesExt

CONSTANTS Body,               \* what the operations of a block may do to the home
          NoValue

ASSUME BodyAssumption ==
  Body \subseteq Seq({"load", "store", "divide", "call", "region", "fault"})

VARIABLES stage,              \* "analysis", "entered", "placing", "renaming", "running" or "kept"
          code,               \* the accesses of each block
          private,            \* nothing outside the invocation can name the home
          work,               \* blocks whose frontier has still to be visited
          params,             \* blocks given a parameter for the home
          pending,            \* blocks to rename, with the value they inherit
          body,               \* renamed blocks
          argument,           \* the value each passes to the parameters it jumps to
          at,                 \* block and operation about to run
          holders             \* history: names and storage holding the home's value

home == <<code, private>>
renamed == <<params, pending, body, argument>>
promotion == <<stage, home, work, renamed, at, holders>>

-----------------------------------------------------------------------------
(* call_access: an opaque call, and one whose effects name the home. Both  *)
(* read and write; a fault reads what others may see and does not return.  *)
Reads(op) == op = "region" \/ (op \in {"call", "fault"} /\ ~private)
Writes(op) == op = "region" \/ (op = "call" /\ ~private)
Defines(op) == op = "store" \/ Writes(op)
Uses(op) == op = "load" \/ Reads(op)

DefinesIn(n) == \E i \in DOMAIN code[n] : Defines(code[n][i])
UsedFirst(n) ==
  \E i \in DOMAIN code[n] : Uses(code[n][i]) /\ \A j \in 1..(i - 1) : ~Defines(code[n][j])

(* Blocks a walk from n reaches through blocks that satisfy Open. *)
Walk(n, Open(_)) ==
  LET Reach[k \in 0..Cardinality(Node)] ==
        IF k = 0 THEN {n}
        ELSE LET near == Reach[k - 1] IN
             near \cup {e[2] : e \in {a \in edges : a[1] \in near /\ Open(a[1])}}
  IN Reach[Cardinality(Node)]

(* What the solver answers for StorageLivenessProblem.                     *)
LiveIn == {n \in reachable : \E m \in Walk(n, LAMBDA b : ~DefinesIn(b)) : UsedFirst(m)}

(* The blocker read_before_definition: a load that no store precedes.      *)
Assigns(n) == \E i \in DOMAIN code[n] : code[n][i] = "store"
LoadsFirst(n) ==
  \E i \in DOMAIN code[n] : code[n][i] = "load" /\ \A j \in 1..(i - 1) : code[n][j] # "store"
ReadBeforeDefinition == \E n \in Walk(Entry, LAMBDA b : ~Assigns(b)) : LoadsFirst(n)

NeedsEntryValue == Entry \in LiveIn
Definitions == {n \in reachable : DefinesIn(n)} \cup (IF NeedsEntryValue THEN {Entry} ELSE {})

-----------------------------------------------------------------------------
PromotionInit ==
  /\ stage = "analysis" /\ code = <<>> /\ private = FALSE /\ work = {} /\ params = {}
  /\ pending = <<>> /\ body = <<>> /\ argument = <<>> /\ at = <<Entry, 0>> /\ holders = {}

Analyze == stage = "analysis" /\ Next /\ UNCHANGED promotion

Admissible_AnyEntry == reachable = Node
Admissible == reachable = Node /\ Predecessors(Entry) = {}

(* A routine enters with its unreachable blocks removed.                   *)
Enter ==
  /\ stage = "analysis" /\ Done /\ Admissible
  /\ code' \in [Node -> Body]
  /\ private' \in BOOLEAN
  /\ (\A n \in Node : \A i \in DOMAIN code'[n] : code'[n][i] = "fault" =>
        i = Len(code'[n]) /\ \A e \in edges : e[1] # n)
  /\ \E n \in Node : \E i \in DOMAIN code'[n] : code'[n][i] = "load"
  /\ stage' = "entered"
  /\ UNCHANGED <<vars, work, renamed, at, holders>>

Admit ==
  /\ stage = "entered" /\ ~ReadBeforeDefinition
  /\ work' = Definitions
  /\ stage' = "placing"
  /\ UNCHANGED <<vars, home, renamed, at, holders>>

(* pruned_iterated_frontier: only where the home is live.                  *)
Placed(n) == (frontier[n] \cap LiveIn) \ params

Place(n) ==
  /\ stage = "placing" /\ IsSmallest(n, work)
  /\ params' = params \cup Placed(n)
  /\ work' = (work \ {n}) \cup (Placed(n) \ Definitions)
  /\ UNCHANGED <<vars, stage, home, pending, body, argument, at, holders>>

Seed == <<"seed">>
Storage == <<"storage">>
BeginRenaming ==
  /\ stage = "placing" /\ work = {}
  /\ params' = params \ {Entry}
  /\ pending' = <<[block |-> Entry, value |-> IF NeedsEntryValue THEN Seed ELSE NoValue]>>
  /\ stage' = "renaming"
  /\ UNCHANGED <<vars, home, work, body, argument, at, holders>>

-----------------------------------------------------------------------------
(* Operations of the rewritten block: a use of a name that was a load, a   *)
(* name given to a stored value, a synchronizing store, a reload, and the  *)
(* operations that keep their place.                                       *)
Operation(kind, value) == [kind |-> kind, value |-> value]
Sync(value) == <<Operation("sync", value)>>
Kept(op) == <<Operation(op, NoValue)>>

MustHold(op) == op = "load" \/ Reads(op) \/ (op = "divide" /\ ~private)

Rewrite(n, op, i, current) ==
  CASE op = "load" -> [code |-> <<Operation("use", current)>>, current |-> current]
    [] op = "store" -> [code |-> <<Operation("name", <<"value", n, i>>)>>, current |-> <<"value", n, i>>]
    [] op = "divide" -> [code |-> (IF private THEN <<>> ELSE Sync(current)) \o Kept(op), current |-> current]
    [] OTHER ->
         LET before == IF Reads(op) THEN Sync(current) ELSE <<>>
             reload == <<"reload", n, i>>
         IN IF Writes(op)
              THEN [code |-> before \o Kept(op) \o <<Operation("reload", reload)>>, current |-> reload]
              ELSE [code |-> before \o Kept(op), current |-> current]

Renaming(n, inherited) ==
  LET start == [code |-> IF n = Entry /\ NeedsEntryValue THEN <<Operation("reload", Seed)>> ELSE <<>>,
                current |-> IF n \in params THEN <<"param", n>> ELSE inherited,
                legal |-> TRUE]
      Then(done, i) ==
        LET r == Rewrite(n, code[n][i], i, done.current) IN
        [code |-> done.code \o r.code, current |-> r.current,
         legal |-> done.legal /\ (MustHold(code[n][i]) => done.current # NoValue)]
      Rewritten[i \in 0..Len(code[n])] == IF i = 0 THEN start ELSE Then(Rewritten[i - 1], i)
  IN Rewritten[Len(code[n])]

Targets(n) == {m \in Node : <<n, m>> \in edges}
Ascending(S) ==
  CHOOSE s \in [1..Cardinality(S) -> S] : \A i, j \in DOMAIN s : i < j => s[i] < s[j]
With(f, n, value) == [m \in DOMAIN f \cup {n} |-> IF m = n THEN value ELSE f[m]]

(* rename_block: depth first over the dominator tree; without a value for  *)
(* a use or an argument the routine is left as it was.                     *)
Rename ==
  /\ stage = "renaming" /\ pending # <<>>
  /\ LET n == Head(pending).block
         r == Renaming(n, Head(pending).value)
         next == Ascending(Children(n))
     IN IF r.legal /\ (Targets(n) \cap params # {} => r.current # NoValue)
          THEN /\ body' = With(body, n, r.code)
               /\ argument' = With(argument, n, r.current)
               /\ pending' = [k \in DOMAIN next |-> [block |-> next[k], value |-> r.current]] \o Tail(pending)
               /\ UNCHANGED stage
          ELSE stage' = "kept" /\ pending' = <<>> /\ UNCHANGED <<body, argument>>
  /\ UNCHANGED <<vars, home, work, params, at, holders>>

-----------------------------------------------------------------------------
(* A run: each step keeps who holds the value the home has in the original. *)
Start ==
  /\ stage = "renaming" /\ pending = <<>>
  /\ stage' = "running" /\ at' = <<Entry, 1>> /\ holders' = {Storage}
  /\ UNCHANGED <<vars, home, work, renamed>>

Copied(from, to) == IF from \in holders THEN holders \cup {to} ELSE holders \ {to}
Upcoming == body[at[1]][at[2]]
Step ==
  /\ stage = "running" /\ at[2] <= Len(body[at[1]])
  /\ Upcoming.kind # "fault"
  /\ CASE Upcoming.kind = "name" -> holders' = {Upcoming.value}
       [] Upcoming.kind = "sync" -> holders' = Copied(Upcoming.value, Storage)
       [] Upcoming.kind = "reload" -> holders' = Copied(Storage, Upcoming.value)
       [] Upcoming.kind \in {"call", "region"} /\ Writes(Upcoming.kind) -> holders' \in {holders, {Storage}}
       [] OTHER -> UNCHANGED holders
  /\ at' = <<at[1], at[2] + 1>>
  /\ UNCHANGED <<vars, stage, home, work, renamed>>

Jump ==
  /\ stage = "running" /\ at[2] > Len(body[at[1]])
  /\ \E m \in Targets(at[1]) :
       /\ at' = <<m, 1>>
       /\ holders' = IF m \in params THEN Copied(argument[at[1]], <<"param", m>>) ELSE holders
  /\ UNCHANGED <<vars, stage, home, work, renamed>>

PromotionNext == Analyze \/ Enter \/ Admit \/ (\E n \in Node : Place(n)) \/ BeginRenaming \/ Rename \/ Start \/ Step \/ Jump

-----------------------------------------------------------------------------
(* Running(ops): the run is about to execute one of them. *)
About(kinds) ==
  stage = "running" /\ at[2] <= Len(body[at[1]]) /\ Upcoming.kind \in kinds

(* Round every loop and over every join, a name that took the place of a   *)
(* load stands for what the home would hold, and whoever else looks at the *)
(* home, and returns, finds it there.                                      *)
PromotionPreserves ==
  /\ About({"use"}) => Upcoming.value \in holders
  /\ About({"call", "region", "fault"}) /\ Reads(Upcoming.kind) => Storage \in holders

(* "Error can inspect fixed/escaped storage before terminating": a division *)
(* that may fault finds in a home that is not private what was stored last. *)
FaultsObserveStorage ==
  About({"divide"}) /\ ~private => Storage \in holders
=============================================================================

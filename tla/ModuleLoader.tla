---------------------------- MODULE ModuleLoader ----------------------------
(***************************************************************************)
(* CompilationLoader of src/includes.rs: from the root it loads what each  *)
(* module's USE declarations name, depth first.  A module is active while  *)
(* its dependencies load; it enters graph_order, which declaration and     *)
(* lowering follow, when they are all loaded.  The recursion of load_use   *)
(* is the stack of frames, and active the names on it.  Reading, parsing   *)
(* and INCLUDE are left out: provided says what resolving a name yields.   *)
(***************************************************************************)
EXTENDS Naturals, Sequences

CONSTANTS Module,             \* canonical module paths
          Root,               \* the path the root file declares
          Sys                 \* the module every root uses implicitly

ASSUME LoaderAssumption == Root \in Module /\ Sys \in Module

VARIABLES uses,               \* the USE declarations of each module
          provided,           \* "named", or why its file is no such module
          named,              \* whether the root file declares its path
          implicit,           \* whether the root uses Sys by itself
          frames,             \* modules being loaded, with the use to load next
          modules_by_path,
          dependencies,
          graph_order,
          status              \* "start", "loading", "loaded", "cycle" or "failed"

program == <<uses, provided, named, implicit>>
loader == <<program, frames, modules_by_path, dependencies, graph_order, status>>

Outcome == {"named", "legacy", "other", "missing"}

(* A legacy root has no path, so it cannot use and is used by no one.      *)
InputOK ==
  /\ uses \in [Module -> Seq(Module)]
  /\ provided \in [Module -> Outcome]
  /\ named \in BOOLEAN /\ implicit \in BOOLEAN
  /\ ~named => /\ uses[Root] = <<>> /\ Root # Sys
               /\ \A m \in Module : \A i \in 1..Len(uses[m]) : uses[m][i] # Root

LoadInit ==
  /\ InputOK
  /\ frames = <<>> /\ modules_by_path = {} /\ graph_order = <<>>
  /\ dependencies = [m \in Module |-> <<>>]
  /\ status = "start"

-----------------------------------------------------------------------------
Top == Len(frames)
User == frames[Top].user
Use == frames[Top].next
Active == {frames[i].user : i \in 1..Top}
Frame(m, n) == [user |-> m, next |-> n]

(* A root without a path is loaded but found under no name.  The use of    *)
(* number 0 is the one every root but Sys itself begins with.              *)
UsesSys == implicit /\ ~(named /\ Root = Sys)
Pending(p) ==
  \/ Use = 0 /\ UsesSys /\ p = Sys
  \/ Use \in 1..Len(uses[User]) /\ p = uses[User][Use]

Depends(m, p) ==
  [dependencies EXCEPT ![m] = IF \E i \in 1..Len(@) : @[i] = p THEN @ ELSE Append(@, p)]
Advanced == [frames EXCEPT ![Top].next = @ + 1]

LoadRoot ==
  /\ status = "start" /\ status' = "loading"
  /\ frames' = <<Frame(Root, 0)>>
  /\ modules_by_path' = IF named THEN {Root} ELSE {}
  /\ UNCHANGED <<program, dependencies, graph_order>>

SkipSys ==
  /\ status = "loading" /\ Use = 0 /\ ~UsesSys
  /\ frames' = Advanced
  /\ UNCHANGED <<program, modules_by_path, dependencies, graph_order, status>>

FindsCycle(p) ==
  /\ status = "loading" /\ Pending(p)
  /\ p \in Active
  /\ status' = "cycle"
  /\ UNCHANGED <<program, frames, modules_by_path, dependencies, graph_order>>

Reuses_BeforeActive(p) == p \in modules_by_path
Reuses(p) == p \notin Active /\ p \in modules_by_path
UseKnown(p) ==
  /\ status = "loading" /\ Pending(p)
  /\ Reuses(p)
  /\ dependencies' = Depends(User, p)
  /\ frames' = Advanced
  /\ UNCHANGED <<program, modules_by_path, graph_order, status>>

UseFails(p) ==
  /\ status = "loading" /\ Pending(p)
  /\ p \notin Active /\ p \notin modules_by_path /\ provided[p] # "named"
  /\ status' = "failed"
  /\ UNCHANGED <<program, frames, modules_by_path, dependencies, graph_order>>

UseLoads_OrdersAtOnce(p) ==
  /\ status = "loading" /\ Pending(p)
  /\ p \notin Active /\ p \notin modules_by_path /\ provided[p] = "named"
  /\ modules_by_path' = modules_by_path \cup {p}
  /\ frames' = Append(frames, Frame(p, 1))
  /\ graph_order' = Append(graph_order, p)
  /\ UNCHANGED <<program, dependencies, status>>

UseLoads(p) ==
  /\ status = "loading" /\ Pending(p)
  /\ p \notin Active /\ p \notin modules_by_path /\ provided[p] = "named"
  /\ modules_by_path' = modules_by_path \cup {p}
  /\ frames' = Append(frames, Frame(p, 1))
  /\ UNCHANGED <<program, dependencies, graph_order, status>>

(* The caller of load_use learns what its use refers to.                   *)
Return ==
  /\ status = "loading" /\ Use > Len(uses[User])
  /\ graph_order' = Append(graph_order, User)
  /\ frames' = [i \in 1..Top - 1 |-> IF i = Top - 1 THEN Frame(frames[i].user, frames[i].next + 1)
                                      ELSE frames[i]]
  /\ IF Top = 1 THEN status' = "loaded" /\ UNCHANGED dependencies
     ELSE status' = status /\ dependencies' = Depends(frames[Top - 1].user, User)
  /\ UNCHANGED <<program, modules_by_path>>

Load ==
  \/ LoadRoot \/ SkipSys \/ Return
  \/ \E p \in Module : FindsCycle(p) \/ UseKnown(p) \/ UseFails(p) \/ UseLoads(p)
LoadSpec == LoadInit /\ [][Load]_loader

-----------------------------------------------------------------------------
Wants(m) == {uses[m][i] : i \in 1..Len(uses[m])} \cup (IF m = Root /\ UsesSys THEN {Sys} ELSE {})

(* Every module in graph_order is there once, and after all that it uses,  *)
(* whatever they share: what follows the order finds each name declared.   *)
DependenciesFirst ==
  \A i \in 1..Len(graph_order) :
    /\ \A p \in Wants(graph_order[i]) : \E j \in 1..i - 1 : graph_order[j] = p
    /\ \A j \in 1..Len(graph_order) : graph_order[j] = graph_order[i] => j = i

(* What m uses, directly or through others: whatever is in every set that  *)
(* holds what m uses and, with a module, what that one uses.               *)
Closed(S) == \A k \in S : Wants(k) \subseteq S
Reached(m) == {k \in Module : \A S \in SUBSET Module : Wants(m) \subseteq S /\ Closed(S) => k \in S}
Needed == Reached(Root) \cup {Root}

(* The loader loads exactly what the root reaches, refuses a program only  *)
(* for a module it reaches, and reports a cycle exactly when there is one  *)
(* it comes to before such a module.                                       *)
OutcomeJustified ==
  /\ status = "loaded" =>
       /\ {graph_order[i] : i \in 1..Len(graph_order)} = Needed
       /\ \A m \in Needed : /\ m \notin Reached(m)
                            /\ {dependencies[m][i] : i \in 1..Len(dependencies[m])} = Wants(m)
  /\ status = "cycle" => \E m \in Needed : m \in Reached(m)
  /\ status = "failed" => \E m \in Reached(Root) : provided[m] # "named"
=============================================================================

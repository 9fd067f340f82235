---------------------------- MODULE LinkSelection ----------------------------
(***************************************************************************)
(* select_semir of src/linker.rs: from the items of a program to the graph *)
(* of their dependencies, its closure above the roots of the policy        *)
(* (LinkClosure), and the program the closure filters.                     *)
(*                                                                         *)
(* A program is a list of items.  What the walk over declarations,         *)
(* statements and expressions finds in an item is a set of references,     *)
(* each to a declared item and by one of the ways the walk tells apart.    *)
(***************************************************************************)
EXTENDS LinkClosure, Sequences

VARIABLES program, policy,
          kept,               \* positions of the items of the selected program
          outcome             \* "none", "selected" or "lost entry"

link == <<nodes, edges, phase, roots, pending, retained, reasons>>
selection == <<program, policy, kept, outcome>>
linkVars == <<link, selection>>

(* LinkReason, by position. *)
DirectCall == 0
RoutineAddress == 1
StorageReference == 2
InitializerRelocation == 4
MachineRelocation == 5
ConservativeLayout == 9

ASSUME LinkReasonAssumption ==
  {DirectCall, RoutineAddress, StorageReference, InitializerRelocation, MachineRelocation,
   ConservativeLayout} \subseteq Reason

MaxItems == 99                \* bound: so many identities are kept apart by kind

Items == DOMAIN program.items
Item(i) == program.items[i]
Kind(i) == Item(i).kind
ModuleId(i) == program.module[Item(i).region]

-----------------------------------------------------------------------------
(* SemLinkNode: routines before storage before top-level code, which has   *)
(* no symbol and is told apart by its module and its position there.       *)
Executable == {"set", "statement"}
Ordinal(i) ==
  Cardinality({j \in 1..(i - 1) : Kind(j) \in Executable /\ Item(j).region = Item(i).region})

HasNode(i) == Kind(i) # "define"
NodeOf(i) ==
  CASE Kind(i) = "routine" -> 100 + i
    [] Kind(i) \in {"storage", "type"} -> 200 + i
    [] OTHER -> 300 + 10 * ModuleId(i) + Ordinal(i)

(* Only symbols of routines and declarations are targets.                  *)
Named(i) == Kind(i) \in {"routine", "storage", "type"}

(* The reason of an edge: a name of a routine in an expression is its      *)
(* address, and within a declaration anything else is its initializer.     *)
ReasonOf(i, ref) ==
  CASE ref.via = "call" -> DirectCall
    [] ref.via = "machine" -> MachineRelocation
    [] ref.via = "list" -> InitializerRelocation
    [] ref.via = "value" ->
         IF Kind(ref.to) = "routine" THEN RoutineAddress
         ELSE IF Kind(i) \in {"storage", "type"} THEN InitializerRelocation
         ELSE StorageReference

ReferenceEdges(i) ==
  {[source |-> NodeOf(i), target |-> NodeOf(r.to), reason |-> ReasonOf(i, r)] :
     r \in {q \in Item(i).refs : Named(q.to) /\ q.to # i}}

(* An opaque body may branch to or fall into anything of its module.       *)
LayoutEdges(i) ==
  {[source |-> NodeOf(i), target |-> NodeOf(j), reason |-> ConservativeLayout] :
     j \in {k \in Items : HasNode(k) /\ ModuleId(k) = ModuleId(i) /\ NodeOf(k) # NodeOf(i)
                          /\ Item(i).opaque}}

GraphNodes == {NodeOf(i) : i \in {j \in Items : HasNode(j)}}
GraphEdges == UNION {ReferenceEdges(i) \cup LayoutEdges(i) : i \in {j \in Items : HasNode(j)}}

(* semir_link_graph; a program of compile-time items alone has no graph to *)
(* build.                                                                  *)
Build ==
  /\ phase = "build"
  /\ nodes # GraphNodes
  /\ nodes' = GraphNodes
  /\ edges' = GraphEdges
  /\ UNCHANGED <<phase, roots, pending, retained, reasons, selection>>

-----------------------------------------------------------------------------
(* EntryReachable starts from the root module's own code, from tables of   *)
(* routine addresses, and from the entry.                                  *)
TopLevelOf_EveryModule(id) == {n \in nodes : n >= 300}
TopLevelOf(id) == {NodeOf(i) : i \in {j \in Items : Kind(j) \in Executable /\ ModuleId(j) = id}}

Tables == {e.source : e \in {d \in edges :
             /\ d.source \in 200..299 /\ d.target \in 100..199
             /\ d.reason = InitializerRelocation}}

EntryNodes_Forgotten == {}
EntryNodes == IF program.entry = 0 THEN {} ELSE {NodeOf(program.entry)}

LinkRoots ==
  IF policy = "RetainAll" THEN nodes
  ELSE TopLevelOf(program.root) \cup Tables \cup EntryNodes

StartClosure ==
  /\ nodes = GraphNodes
  /\ BeginClosure(LinkRoots)
  /\ UNCHANGED selection

Close == Scan /\ UNCHANGED selection

(* The filter recomputes each item's node; what emits nothing stays.       *)
FilterNode_CountsOn(i) ==
  IF Kind(i) \in Executable
    THEN 300 + 10 * ModuleId(i) + Cardinality({j \in 1..(i - 1) : Kind(j) \in Executable})
    ELSE NodeOf(i)
FilterNode(i) == NodeOf(i)
Stays(i) == Kind(i) \in {"define", "type"} \/ FilterNode(i) \in retained

Filter ==
  /\ phase = "done" /\ outcome = "none"
  /\ kept' = {i \in Items : Stays(i)}
  /\ outcome' = IF program.entry \in kept' \cup {0} THEN "selected" ELSE "lost entry"
  /\ UNCHANGED <<link, program, policy>>

-----------------------------------------------------------------------------
(* What analysis guarantees: references resolve, calls go to routines, and *)
(* the entry, if any, is a routine of the root module.                     *)
WellFormed ==
  /\ Items \subseteq 1..MaxItems
  /\ GraphNodes \subseteq Node
  /\ \A i \in Items :
       /\ Kind(i) \in {"routine", "storage", "type", "define"} \cup Executable
       /\ ModuleId(i) \in Nat
       /\ Item(i).opaque \in BOOLEAN
       /\ \A r \in Item(i).refs :
            /\ r.to \in Items
            /\ r.via \in {"call", "machine", "list", "value"}
            /\ r.via = "call" => Kind(r.to) = "routine"
  /\ program.entry \in
       {0} \cup {i \in Items : Kind(i) = "routine" /\ ModuleId(i) = program.root}

SelectInit ==
  /\ WellFormed
  /\ Init
  /\ policy \in {"RetainAll", "EntryReachable"}
  /\ kept = {}
  /\ outcome = "none"

SelectNext == Build \/ StartClosure \/ Close \/ Filter

(* One thread, from the graph to the selected program. *)
SelectSpec == SelectInit /\ [][SelectNext]_linkVars /\ WF_linkVars(SelectNext)

-----------------------------------------------------------------------------
(* The same selection said of items, with no graph, worklist or reasons.   *)
Uses(i) ==
  {r.to : r \in {q \in Item(i).refs : Named(q.to)}}
    \cup {j \in Items : Item(i).opaque /\ HasNode(i) /\ HasNode(j) /\ ModuleId(j) = ModuleId(i)}

Starts ==
  {i \in Items :
     \/ HasNode(i) /\ policy = "RetainAll"
     \/ Kind(i) \in Executable /\ ModuleId(i) = program.root
     \/ i = program.entry
     \/ Kind(i) \in {"storage", "type"} /\ \E r \in Item(i).refs :
          r.via = "list" /\ Kind(r.to) = "routine"}

ClosedUnderUse(S) == \A i \in S : HasNode(i) => Uses(i) \subseteq S

(* Nothing survives the link for want of precision: a kept item is one the *)
(* policy starts from, one they use directly or indirectly, one of a whole *)
(* module that is opaque, or emits no storage.  In particular an opaque    *)
(* routine that nobody reaches is no reason to keep anything.              *)
KeptIsNeeded ==
  outcome = "selected" =>
    \A S \in SUBSET Items :
      Starts \subseteq S /\ ClosedUnderUse(S) =>
        {i \in kept : Kind(i) \notin {"define", "type"}} \subseteq S

(* Nothing needed goes: what the policy starts from stays, and no item     *)
(* that stays for its code or storage uses one that went, be it by call,   *)
(* by address, in a table, from machine code or by layout.                 *)
NoDanglingUse ==
  outcome = "selected" =>
    /\ Starts \subseteq kept
    /\ \A i \in kept : Kind(i) \notin {"define", "type"} => Uses(i) \subseteq kept

(* The errors "root or dependency is missing" and "link selection removed  *)
(* the program entry" are unreachable: a closure from the roots the policy *)
(* chooses finds them all, and the entry outlives the filter.              *)
SelectionSucceeds ==
  /\ phase = "missing" => roots # LinkRoots
  /\ outcome # "lost entry"
=============================================================================

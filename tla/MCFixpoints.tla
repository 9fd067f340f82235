----------------------------- MODULE MCFixpoints -----------------------------
(* Loops that run until nothing changes: the solver of Dataflow, and the   *)
(* loops of MCRelaxation that shorten branches and splice rewrites.        *)
EXTENDS MCDataflow, MCRelaxation

(* One of them at a time; the other has come to its end. *)
NoCode ==
  /\ machine = "none" /\ at = [i \in SiteSet |-> 8 * (i - 1)] /\ target = [i \in SiteSet |-> 0]
  /\ long = [i \in SiteSet |-> Absolute(8)] /\ forms = [i \in SiteSet |-> {}]
  /\ Unshrunk /\ measured = NoShift /\ next = Sites + 1 /\ changed = FALSE
  /\ NotRewriting
Fall == [s \in State |-> IF s = {} THEN Fact ELSE {}]
NoProblem ==
  /\ edges = {} /\ reachable = {} /\ order = <<>> /\ direction = "Forward"
  /\ problem = [boundary |-> BoundaryAt(Entry, {}), transfer |-> [n \in Node |-> Fall],
                executable |-> EveryEdge(State), edge |-> EveryEdge(Same)]
  /\ Begin

FixInit ==
  \/ MCInit /\ NoCode
  \/ NoProblem /\ AnyCode
FixNext ==
  \/ Next /\ UNCHANGED allVars
  \/ CodeNext /\ UNCHANGED vars
FixSpec == FixInit /\ [][FixNext]_<<vars, allVars>> /\ WF_<<vars, allVars>>(FixNext)

(* The loops end, although each pass may bring other branches into reach   *)
(* and each batch of rewrites may make room for more.                      *)
RelaxationEnds == <>Finished
=============================================================================

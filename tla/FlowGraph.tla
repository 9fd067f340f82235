------------------------------ MODULE FlowGraph ------------------------------
(***************************************************************************)
(* Block graphs of a routine as the analyses see them: the facts that      *)
(* src/nir/analysis/cfg.rs derives once from the blocks and their targets. *)
(*                                                                         *)
(* A graph is a set of blocks, the first of them, and edges between them;  *)
(* block ids are ordered, and every loop over blocks follows that order.   *)
(***************************************************************************)
EXTENDS Integers, Sequences, SequencesExt

Ascending(S) ==
  CHOOSE s \in [1..Cardinality(S) -> S] : \A i, j \in DOMAIN s : i < j => s[i] < s[j]

Successors(edges, n) == {m \in {e[2] : e \in edges} : <<n, m>> \in edges}
Predecessors(edges, n) == {m \in {e[1] : e \in edges} : <<m, n>> \in edges}

(* Only targets that are blocks of the routine become edges.               *)
EdgesOf(nodes, targets) == {e \in targets : e[1] \in nodes /\ e[2] \in nodes}

(* visit_postorder: depth first, successors in order, a block after them.  *)
(* Calls are inside one another at most once for each block.               *)
Finish(visit, n) == visit \o <<n>>

Walk(nodes, edges, entry) ==
  LET Visit[depth \in 0..Cardinality(nodes)] ==
        [call \in nodes \X SUBSET nodes |->
           IF call[1] \in call[2] \/ depth = 0 THEN [seen |-> call[2], order |-> <<>>]
           ELSE LET next == Ascending(Successors(edges, call[1]))
                    Through[k \in 0..Len(next)] ==
                      IF k = 0 THEN [seen |-> call[2] \cup {call[1]}, order |-> <<>>]
                      ELSE LET done == Through[k - 1]
                               sub == Visit[depth - 1][<<next[k], done.seen>>]
                           IN [seen |-> sub.seen, order |-> done.order \o sub.order]
                    all == Through[Len(next)]
                IN [seen |-> all.seen, order |-> Finish(all.order, call[1])]]
  IN Visit[Cardinality(nodes)][<<entry, {}>>]

Reachable(nodes, edges, entry) == Walk(nodes, edges, entry).seen
Postorder(nodes, edges, entry) == Walk(nodes, edges, entry).order

(* solve_dataflow: forwards in reverse postorder, backwards in postorder.  *)
EvaluationOrder(forward, postorder) == IF forward THEN Reverse(postorder) ELSE postorder

-----------------------------------------------------------------------------
(* What the walk should compute, said without it. *)
Closed(S, edges) == \A n \in S : Successors(edges, n) \subseteq S
ReachableFrom(nodes, edges, start) ==
  LET Reach[k \in 0..Cardinality(nodes)] ==
        IF k = 0 THEN {start}
        ELSE LET near == Reach[k - 1] IN near \cup UNION {Successors(edges, n) : n \in near}
  IN Reach[Cardinality(nodes)]

OnCycle(nodes, edges, n) ==
  \E m \in Successors(edges, n) : n \in ReachableFrom(nodes, edges, m)

=============================================================================

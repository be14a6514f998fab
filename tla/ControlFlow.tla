---------------------------- MODULE ControlFlow ----------------------------
(***************************************************************************)
(* Edge lists of the procedure control-flow graph, as                      *)
(* src/semantic/control_flow.c and control_flow/connectivity.c keep them:  *)
(* every node owns a list of outgoing edges without duplicates, and the    *)
(* predecessor lists are derived from the successor lists.  An edge is a   *)
(* record with a field target; its other fields are the caller's.          *)
(***************************************************************************)
EXTENDS Naturals, Sequences, SequencesExt

\* The elements of a sequence that are in a set, in order.
Keep(s, set) ==
  LET kept[i \in 0 .. Len(s)] ==
        IF i = 0 THEN << >>
        ELSE IF s[i] \in set THEN Append(kept[i - 1], s[i]) ELSE kept[i - 1]
  IN  kept[Len(s)]

\* append_edge and append_connection: an edge already listed is not repeated.
AppendEdge(edges, e) == IF Contains(edges, e) THEN edges ELSE Append(edges, e)

AppendEdges(edges, more) == FoldLeft(AppendEdge, edges, more)

\* The edges into n that leave source, turned round.
EdgesInto(n, source, edges) ==
  LET into == Keep(edges, {e \in ToSet(edges) : e.target = n})
  IN  [k \in DOMAIN into |-> [into[k] EXCEPT !.target = source]]

\* Mutant: the edges of the first node are left out.
PredecessorsSkipFirst(nodes, successors) ==
  [n \in DOMAIN successors |->
     FoldLeft(LAMBDA edges, source :
                AppendEdges(edges, EdgesInto(n, source, successors[source])),
              << >>, Tail(nodes))]

(***************************************************************************)
(* build_node_predecessors: sources in ascending order, the edges of each  *)
(* in list order.  nodes is the sequence of node numbers.                  *)
(***************************************************************************)
Predecessors(nodes, successors) ==
  [n \in DOMAIN successors |->
     FoldLeft(LAMBDA edges, source :
                AppendEdges(edges, EdgesInto(n, source, successors[source])),
              << >>, nodes)]
=============================================================================

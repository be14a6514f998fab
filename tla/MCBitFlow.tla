----------------------------- MODULE MCBitFlow -----------------------------
(***************************************************************************)
(* BitFlow on every graph of three nodes with few edges.  Node 0 is the    *)
(* entry, node 1 may hold filtered edges as an assigned GOTO does.         *)
(***************************************************************************)
EXTENDS BitFlow
CF == INSTANCE ControlFlow

MCNodeCount == 3
MCFact == {"f"}

Plain == [target : {0, 1, 2}, needs : {{}}]
Filtered == [target : {0, 1, 2}, needs : {{"f"}}]

\* Edge lists of at most two edges, without duplicates.
AtMostOne(edges) == {<< >>} \union {<< e >> : e \in edges}
AtMostTwo(edges) ==
  AtMostOne(edges) \union {s \in edges \X edges : s[1] # s[2]}

\* Every node's successor list with the predecessor list the graph gives it.
Graphs(second) ==
  {[successors |-> succ, predecessors |-> CF!Predecessors(<<0, 1, 2>>, succ)] :
     succ \in {[n \in {0, 1, 2} |-> CASE n = 0 -> a [] n = 1 -> b [] n = 2 -> c] :
                 a \in AtMostTwo(Plain), b \in second, c \in AtMostOne(Plain)}}

\* A statement generates the fact, kills it, or leaves it alone.
Effects == {[gen |-> {"f"}, kill |-> {"f"}], [gen |-> {}, kill |-> {"f"}],
            [gen |-> {}, kill |-> {}]}

MCProblems ==
  [direction : {"forward"}, entry : {0}, boundary : SUBSET {"f"},
   graph : Graphs(AtMostOne(Plain \union Filtered) \union (Plain \X Filtered)),
   effect : [{0, 1, 2} -> Effects]]
  \union
  [direction : {"backward"}, entry : {0}, boundary : SUBSET {"f"},
   graph : Graphs(AtMostOne(Plain)), effect : [{0, 1, 2} -> Effects]]
=============================================================================

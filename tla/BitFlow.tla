------------------------------ MODULE BitFlow ------------------------------
(***************************************************************************)
(* The worklist data-flow solver of src/semantic/data_flow/bitset.c, in    *)
(* both directions: f2c_bit_flow_solve propagates from an entry node along *)
(* successor edges, f2c_bit_flow_solve_backward starts from every node and *)
(* propagates along predecessor edges.                                     *)
(*                                                                         *)
(* A state of the C code is a bit vector plus a flag word; both are merged *)
(* by bitwise or, so they are one set of facts here.  Transfer functions   *)
(* of every caller have the gen/kill form (apply_effect of                 *)
(* assigned_label.c, liveness_transfer of variables.c); an edge filter     *)
(* lets an edge pass when the output holds the facts the edge needs.       *)
(***************************************************************************)
EXTENDS Naturals, Sequences

CONSTANTS
  NodeCount,  \* graph->node_count, the capacity of the work queue as well
  Fact,       \* the bits and the flags of a state
  Problems    \* the graphs and transfer functions the solver is given

Node == 0 .. NodeCount - 1

Edge == [target : Node, needs : SUBSET Fact]

\* The parts of an F2cControlFlowGraph the solver reads.
Graph == [successors : [Node -> Seq(Edge)], predecessors : [Node -> Seq(Edge)]]

\* What a transfer function does to the facts of one node.
Effect == [gen : SUBSET Fact, kill : SUBSET Fact]

\* The arguments of one call of a solver.
Problem == [direction : {"forward", "backward"},
            graph     : Graph,
            entry     : Node,
            boundary  : SUBSET Fact,
            effect    : [Node -> Effect]]

ASSUME NodeCountAssumption == NodeCount \in Nat \ {0}
ASSUME ProblemsAssumption == Problems \subseteq Problem

VARIABLES
  problem,      \* the arguments of the call
  pc,           \* "start", "take", "edges", "done" or "failed"
  initialized,  \* nodes whose state has been reached
  facts,        \* the facts of each node's state
  queue,        \* the circular work queue, one slot per node
  head,         \* slot of the oldest queued node
  tail,         \* slot the next node is written to
  count,        \* queue_count
  queued,       \* nodes whose queued[] flag is set
  node,         \* the node being processed
  output,       \* the facts its transfer function computed
  edge          \* index of the next edge to propagate along

vars == << problem, pc, initialized, facts, queue, head, tail, count, queued,
           node, output, edge >>

-----------------------------------------------------------------------------
Forward == problem.direction = "forward"

\* The edges a processed node propagates along.
EdgesFrom(n) == IF Forward THEN problem.graph.successors[n]
                           ELSE problem.graph.predecessors[n]

\* The facts the transfer function of node n makes of the facts in.
Transfer(n, in) ==
  problem.effect[n].gen \union (in \ problem.effect[n].kill)

\* The edge filter: does edge e let the facts out through?
Passes(e, out) == e.needs \subseteq out

\* Mutant: a node reached for the first time without new facts is missed.
MergeChangesFactsOnly(n, out) == ~ (out \subseteq facts[n])

\* Mutant: every merge counts as a change.
MergeChangesAlways(n, out) == TRUE

\* Does merging out into the state of node n change that state?
MergeChanges(n, out) == \/ n \notin initialized
                        \/ ~ (out \subseteq facts[n])

\* The facts merge_state leaves in the state of node n: the first output to
\* reach a node is copied, later ones are joined.
Merged(n, out) == IF n \in initialized THEN facts[n] \union out ELSE out

\* Mutant: the queue does not wrap.
AdvanceWithoutWrap(slot) == slot + 1

Advance(slot) == (slot + 1) % NodeCount

\* A queued node is not queued again; a full queue is an error.
Enqueue(n) ==
  IF n \in queued
  THEN UNCHANGED << queue, tail, count, queued >>
  ELSE /\ queue'  = [queue EXCEPT ![tail] = n]
       /\ tail'   = Advance(tail)
       /\ count'  = count + 1
       /\ queued' = queued \union {n}

EnqueueFails(n) == n \notin queued /\ count >= NodeCount

\* Every failure frees the result.
Fail ==
  /\ pc' = "failed"
  /\ initialized' = {}
  /\ facts' = [n \in Node |-> {}]
  /\ UNCHANGED << problem, queue, head, tail, count, queued, node, output, edge >>

-----------------------------------------------------------------------------
Init ==
  /\ problem \in Problems
  /\ pc = "start"
  /\ initialized = {}
  /\ facts = [n \in Node |-> {}]
  /\ queue = [slot \in Node |-> 0]
  /\ head = 0 /\ tail = 0 /\ count = 0
  /\ queued = {}
  /\ node = 0 /\ output = {} /\ edge = 1

AllocationFails == pc = "start" /\ Fail

\* Only the entry state is known, and only the entry node is queued.
StartForward ==
  /\ pc = "start" /\ Forward
  /\ IF EnqueueFails(problem.entry)
     THEN Fail
     ELSE /\ initialized' = {problem.entry}
          /\ facts' = [facts EXCEPT ![problem.entry] = problem.boundary]
          /\ Enqueue(problem.entry)
          /\ pc' = "take"
          /\ UNCHANGED << problem, head, node, output, edge >>

\* A node that control leaves the procedure from.
Terminal(n) == problem.graph.successors[n] = << >>

\* Every node is initialized and queued in index order.
StartBackward ==
  /\ pc = "start" /\ ~ Forward
  /\ initialized' = Node
  /\ facts' = [n \in Node |-> IF Terminal(n) THEN problem.boundary ELSE {}]
  /\ queue' = [slot \in Node |-> slot]
  /\ tail' = 0 /\ count' = NodeCount /\ queued' = Node
  /\ pc' = "take"
  /\ UNCHANGED << problem, head, node, output, edge >>

\* Mutant: queued[node] is not cleared.
TakeNodeKeepsFlag ==
  /\ pc = "take" /\ count # 0
  /\ node' = queue[head]
  /\ head' = Advance(head)
  /\ count' = count - 1
  /\ output' = Transfer(queue[head], facts[queue[head]])
  /\ edge' = 1
  /\ pc' = "edges"
  /\ UNCHANGED << problem, initialized, facts, queue, tail, queued >>

\* Mutant: the output of the previous node is not overwritten.
TakeNodeKeepsOutput ==
  /\ pc = "take" /\ count # 0
  /\ node' = queue[head]
  /\ head' = Advance(head)
  /\ count' = count - 1
  /\ queued' = queued \ {queue[head]}
  /\ output' = output \union Transfer(queue[head], facts[queue[head]])
  /\ edge' = 1
  /\ pc' = "edges"
  /\ UNCHANGED << problem, initialized, facts, queue, tail >>

\* The oldest queued node leaves the queue and its transfer function runs.
TakeNode ==
  /\ pc = "take" /\ count # 0
  /\ node' = queue[head]
  /\ head' = Advance(head)
  /\ count' = count - 1
  /\ queued' = queued \ {queue[head]}
  /\ output' = Transfer(queue[head], facts[queue[head]])
  /\ edge' = 1
  /\ pc' = "edges"
  /\ UNCHANGED << problem, initialized, facts, queue, tail >>

TransferFails == pc = "take" /\ count # 0 /\ Fail

NextEdge == EdgesFrom(node)[edge]

FilterEdge ==
  /\ pc = "edges" /\ edge <= Len(EdgesFrom(node))
  /\ ~ Passes(NextEdge, output)
  /\ edge' = edge + 1
  /\ UNCHANGED << problem, pc, initialized, facts, queue, head, tail, count,
                  queued, node, output >>

\* merge_state followed, when it changed the target, by enqueue.
MergeEdge ==
  LET target == NextEdge.target IN
  /\ pc = "edges" /\ edge <= Len(EdgesFrom(node))
  /\ Passes(NextEdge, output)
  /\ IF MergeChanges(target, output) /\ EnqueueFails(target)
     THEN Fail
     ELSE /\ initialized' = initialized \union {target}
          /\ facts' = [facts EXCEPT ![target] = Merged(target, output)]
          /\ IF MergeChanges(target, output)
             THEN Enqueue(target)
             ELSE UNCHANGED << queue, tail, count, queued >>
          /\ edge' = edge + 1
          /\ UNCHANGED << problem, pc, head, node, output >>

EdgesExhausted ==
  /\ pc = "edges" /\ edge > Len(EdgesFrom(node))
  /\ pc' = "take"
  /\ UNCHANGED << problem, initialized, facts, queue, head, tail, count, queued,
                  node, output, edge >>

Finish ==
  /\ pc = "take" /\ count = 0
  /\ pc' = "done"
  /\ UNCHANGED << problem, initialized, facts, queue, head, tail, count, queued,
                  node, output, edge >>

Next == \/ AllocationFails \/ StartForward \/ StartBackward
        \/ TakeNode \/ TransferFails
        \/ FilterEdge \/ MergeEdge \/ EdgesExhausted
        \/ Finish

Spec == Init /\ [][Next]_vars /\ WF_vars(Next)

-----------------------------------------------------------------------------
(***************************************************************************)
(* What the solver promises.                                               *)
(***************************************************************************)

\* The states (reached, known) respect the boundary condition of the call.
RespectsBoundary(reached, known) ==
  IF Forward
  THEN problem.entry \in reached /\ problem.boundary \subseteq known[problem.entry]
  ELSE /\ reached = Node
       /\ \A n \in Node : Terminal(n) => problem.boundary \subseteq known[n]

\* Edge e carries what node n lets through into the state of its target.
Carried(n, e, reached, known) ==
  Passes(e, Transfer(n, known[n])) =>
    e.target \in reached /\ Transfer(n, known[n]) \subseteq known[e.target]

NodeCarried(n, reached, known) ==
  \A k \in 1 .. Len(EdgesFrom(n)) : Carried(n, EdgesFrom(n)[k], reached, known)

\* A solution of the data-flow equations.
IsSolution(reached, known) ==
  /\ RespectsBoundary(reached, known)
  /\ \A n \in reached : NodeCarried(n, reached, known)

\* Every variable stays in its domain, the queue indices within the queue.
TypeOK ==
  /\ problem \in Problem
  /\ pc \in {"start", "take", "edges", "done", "failed"}
  /\ initialized \in SUBSET Node
  /\ facts \in [Node -> SUBSET Fact]
  /\ queue \in [Node -> Node]
  /\ head \in Node /\ tail \in Node /\ count \in 0 .. NodeCount
  /\ queued \in SUBSET Node
  /\ node \in Node /\ output \in SUBSET Fact /\ edge \in Nat \ {0}

\* Slots of the circular queue that hold a queued node.
Occupied(slot) == IF head + count <= NodeCount
                  THEN head <= slot /\ slot < head + count
                  ELSE head <= slot \/ slot < head + count - NodeCount

(***************************************************************************)
(* The queued[] flags and the circular queue tell the same story: the      *)
(* occupied slots hold the flagged nodes, each once.  A duplicate would    *)
(* overflow the queue (enqueue fails, the analysis reports out of memory), *)
(* a flag without a slot would lose a node for ever.                       *)
(***************************************************************************)
QueueMatchesFlags ==
  /\ tail = IF head + count < NodeCount THEN head + count
                                        ELSE head + count - NodeCount
  /\ \A slot \in Node : Occupied(slot) => queue[slot] \in queued
  /\ \A n \in queued : \E slot \in Node : Occupied(slot) /\ queue[slot] = n
  /\ \A s, t \in Node :
       Occupied(s) /\ Occupied(t) /\ queue[s] = queue[t] => s = t

(***************************************************************************)
(* When the solver returns 1 its states satisfy the boundary condition and *)
(* every transfer equation: no edge of the control-flow graph was missed,  *)
(* whatever the order in which nodes were queued.                          *)
(***************************************************************************)
SolvedAtDone == pc = "done" => IsSolution(initialized, facts)

(***************************************************************************)
(* The states returned hold nothing that some solution does not need: a    *)
(* fact or a reached node never comes from a stale output or from an edge  *)
(* the filter had closed.                                                  *)
(***************************************************************************)
LeastAtDone ==
  pc = "done" =>
    \A reached \in SUBSET Node : \A known \in [Node -> SUBSET Fact] :
      IsSolution(reached, known) =>
        /\ initialized \subseteq reached
        /\ \A n \in initialized : facts[n] \subseteq known[n]

(***************************************************************************)
(* In a backward problem each node's state covers the input of every       *)
(* successor: a variable used further on is live, though the solver only   *)
(* ever walked the predecessor lists.                                      *)
(***************************************************************************)
SuccessorsFlowBack ==
  pc = "done" /\ ~ Forward =>
    \A n \in Node : \A k \in 1 .. Len(problem.graph.successors[n]) :
      LET e    == problem.graph.successors[n][k]
          live == Transfer(e.target, facts[e.target])
      IN  Passes(e, live) => live \subseteq facts[n]

(***************************************************************************)
(* The while loop of the solver ends on every graph, cyclic ones included. *)
(***************************************************************************)
Terminates == <>(pc \in {"done", "failed"})
=============================================================================

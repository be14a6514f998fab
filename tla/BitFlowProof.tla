---------------------------- MODULE BitFlowProof ----------------------------
(***************************************************************************)
(* Proofs about the worklist data-flow solver, for every graph, every set  *)
(* of facts and every gen/kill transfer function:                          *)
(*   - type correctness;                                                   *)
(*   - the circular queue and the queued[] flags agree, so enqueue never   *)
(*     runs out of slots;                                                  *)
(*   - the states returned solve the data-flow equations;                  *)
(*   - they are below every other solution, and in a backward problem      *)
(*     cover what every successor needs.                                   *)
(***************************************************************************)
EXTENDS BitFlow, RecursionLemmas

-----------------------------------------------------------------------------
(* Helpers.                                                                *)

(***************************************************************************)
(* Advancing a slot of the circular queue wraps at the last slot, as the   *)
(* modulus in enqueue and in both solvers' loops does.                     *)
(***************************************************************************)
LEMMA AdvanceWraps ==
  ASSUME NEW slot \in Node
  PROVE  /\ Advance(slot) = IF slot + 1 = NodeCount THEN 0 ELSE slot + 1
         /\ Advance(slot) \in Node
BY NodeCountAssumption DEF Advance, Node

(***************************************************************************)
(* The edge lists of a problem are sequences of edges.                     *)
(***************************************************************************)
LEMMA EdgesFromType ==
  ASSUME TypeOK, NEW n \in Node
  PROVE  EdgesFrom(n) \in Seq(Edge)
BY DEF TypeOK, EdgesFrom, Problem, Graph

(***************************************************************************)
(* A transfer function makes facts of facts.                               *)
(***************************************************************************)
LEMMA TransferType ==
  ASSUME TypeOK, NEW n \in Node, NEW in \in SUBSET Fact
  PROVE  Transfer(n, in) \in SUBSET Fact
<1>1. problem.effect[n] \in Effect
  BY DEF TypeOK, Problem
<1> QED BY <1>1 DEF Transfer, Effect

(***************************************************************************)
(* The edge a processed node propagates along has its target in the graph. *)
(***************************************************************************)
LEMMA NextEdgeType ==
  ASSUME TypeOK, edge <= Len(EdgesFrom(node))
  PROVE  NextEdge \in Edge /\ NextEdge.target \in Node
<1>1. EdgesFrom(node) \in Seq(Edge)
  BY EdgesFromType DEF TypeOK
<1>2. edge \in 1 .. Len(EdgesFrom(node))
  BY <1>1 DEF TypeOK
<1>3. NextEdge \in Edge
  BY <1>1, <1>2 DEF NextEdge
<1> QED BY <1>3 DEF Edge

-----------------------------------------------------------------------------
(* Type correctness.                                                       *)

(***************************************************************************)
(* Queueing a node keeps the queue's variables in their domains.           *)
(***************************************************************************)
LEMMA EnqueueType ==
  ASSUME TypeOK, NEW n \in Node, ~ EnqueueFails(n), Enqueue(n)
  PROVE  /\ queue' \in [Node -> Node]
         /\ tail' \in Node
         /\ count' \in 0 .. NodeCount
         /\ queued' \in SUBSET Node
<1>1. CASE n \in queued
  BY <1>1 DEF Enqueue, TypeOK
<1>2. CASE n \notin queued
  <2>1. count < NodeCount
    BY <1>2, NodeCountAssumption DEF EnqueueFails, TypeOK
  <2>2. Advance(tail) \in Node
    BY AdvanceWraps DEF TypeOK
  <2> QED BY <1>2, <2>1, <2>2, NodeCountAssumption DEF Enqueue, TypeOK
<1> QED BY <1>1, <1>2

(***************************************************************************)
(* A failure keeps every variable in its domain.                           *)
(***************************************************************************)
LEMMA FailType == TypeOK /\ Fail => TypeOK'
BY DEF TypeOK, Fail

\* Every step keeps every variable in its domain.
LEMMA TypeStep == TypeOK /\ [Next]_vars => TypeOK'
<1> SUFFICES ASSUME TypeOK, [Next]_vars PROVE TypeOK'
  OBVIOUS
<1>1. CASE AllocationFails
  BY <1>1, FailType DEF AllocationFails
<1>2. CASE StartForward
  <2>1. CASE EnqueueFails(problem.entry)
    BY <1>2, <2>1, FailType DEF StartForward
  <2>2. CASE ~ EnqueueFails(problem.entry)
    <3>1. problem.entry \in Node /\ problem.boundary \in SUBSET Fact
      BY DEF TypeOK, Problem
    <3>2. /\ queue' \in [Node -> Node] /\ tail' \in Node
          /\ count' \in 0 .. NodeCount /\ queued' \in SUBSET Node
      BY <1>2, <2>2, <3>1, EnqueueType DEF StartForward
    <3> QED BY <1>2, <2>2, <3>1, <3>2 DEF StartForward, TypeOK
  <2> QED BY <2>1, <2>2
<1>3. CASE StartBackward
  <2>1. problem.boundary \in SUBSET Fact
    BY DEF TypeOK, Problem
  <2>2. 0 \in Node /\ NodeCount \in 0 .. NodeCount
    BY NodeCountAssumption DEF Node
  <2> QED BY <1>3, <2>1, <2>2 DEF StartBackward, TypeOK
<1>4. CASE TakeNode
  <2>1. queue[head] \in Node /\ facts[queue[head]] \in SUBSET Fact
    BY DEF TypeOK
  <2>2. Transfer(queue[head], facts[queue[head]]) \in SUBSET Fact
    BY <2>1, TransferType
  <2>3. Advance(head) \in Node
    BY AdvanceWraps DEF TypeOK
  <2>4. count - 1 \in 0 .. NodeCount
    BY <1>4, NodeCountAssumption DEF TakeNode, TypeOK
  <2> QED BY <1>4, <2>1, <2>2, <2>3, <2>4 DEF TakeNode, TypeOK
<1>5. CASE TransferFails
  BY <1>5, FailType DEF TransferFails
<1>6. CASE FilterEdge
  BY <1>6 DEF FilterEdge, TypeOK
<1>7. CASE MergeEdge
  <2> DEFINE target == NextEdge.target
  <2>1. target \in Node
    BY <1>7, NextEdgeType DEF MergeEdge
  <2>2. CASE MergeChanges(target, output) /\ EnqueueFails(target)
    BY <1>7, <2>2, FailType DEF MergeEdge
  <2>3. CASE MergeChanges(target, output) /\ ~ EnqueueFails(target)
    <3>1. Enqueue(target)
      BY <1>7, <2>3 DEF MergeEdge
    <3>2. /\ queue' \in [Node -> Node] /\ tail' \in Node
          /\ count' \in 0 .. NodeCount /\ queued' \in SUBSET Node
      BY <2>1, <2>3, <3>1, EnqueueType
    <3>3. /\ initialized' = initialized \union {target}
          /\ facts' = [facts EXCEPT ![target] = Merged(target, output)]
          /\ edge' = edge + 1
          /\ UNCHANGED << problem, pc, head, node, output >>
      BY <1>7, <2>3 DEF MergeEdge
    <3>4. Merged(target, output) \in SUBSET Fact
      BY <2>1 DEF Merged, TypeOK
    <3> HIDE DEF target
    <3> QED BY <2>1, <3>2, <3>3, <3>4 DEF TypeOK
  <2>4. CASE ~ MergeChanges(target, output)
    BY <1>7, <2>1, <2>4 DEF MergeEdge, MergeChanges, Merged, TypeOK
  <2> QED BY <2>2, <2>3, <2>4
<1>8. CASE EdgesExhausted
  BY <1>8 DEF EdgesExhausted, TypeOK
<1>9. CASE Finish
  BY <1>9 DEF Finish, TypeOK
<1>10. CASE UNCHANGED vars
  BY <1>10 DEF vars, TypeOK
<1> QED
  BY <1>1, <1>2, <1>3, <1>4, <1>5, <1>6, <1>7, <1>8, <1>9, <1>10 DEF Next

(***************************************************************************)
(* Type correctness: the solver's indices stay inside its arrays.          *)
(***************************************************************************)
THEOREM TypeCorrect == Spec => []TypeOK
<1>1. Init => TypeOK
  BY ProblemsAssumption, NodeCountAssumption DEF Init, TypeOK, Node
<1> QED BY <1>1, TypeStep, PTL DEF Spec

-----------------------------------------------------------------------------
(* The circular queue.                                                     *)

(***************************************************************************)
(* Queueing an unflagged node occupies the tail slot and no other.         *)
(***************************************************************************)
LEMMA EnqueueOccupies ==
  ASSUME TypeOK, QueueMatchesFlags, NEW n \in Node,
         n \notin queued, count < NodeCount, Enqueue(n), head' = head
  PROVE  /\ ~ Occupied(tail)
         /\ \A slot \in Node : Occupied(slot)' <=> Occupied(slot) \/ slot = tail
<1>1. count' = count + 1
  BY DEF Enqueue
<1>2. /\ head \in 0 .. NodeCount - 1 /\ count \in 0 .. NodeCount - 1
      /\ NodeCount \in Nat
  BY NodeCountAssumption DEF TypeOK, Node
<1>3. tail = IF head + count < NodeCount THEN head + count
                                        ELSE head + count - NodeCount
  BY DEF QueueMatchesFlags
<1> QED BY <1>1, <1>2, <1>3 DEF Occupied, Node

\* Enqueueing a node keeps flags and queue in agreement.
LEMMA EnqueueKeepsQueue ==
  ASSUME TypeOK, QueueMatchesFlags, NEW n \in Node,
         ~ EnqueueFails(n), Enqueue(n), head' = head
  PROVE  QueueMatchesFlags'
<1>1. CASE n \in queued
  BY <1>1 DEF Enqueue, QueueMatchesFlags, Occupied
<1>2. CASE n \notin queued
  <2>1. count < NodeCount
    BY <1>2, NodeCountAssumption DEF EnqueueFails, TypeOK
  <2>2. /\ ~ Occupied(tail)
        /\ \A slot \in Node : Occupied(slot)' <=> Occupied(slot) \/ slot = tail
    BY <1>2, <2>1, EnqueueOccupies
  <2>3. /\ queue' = [queue EXCEPT ![tail] = n]
        /\ queued' = queued \union {n}
        /\ queue \in [Node -> Node] /\ tail \in Node
    BY <1>2 DEF Enqueue, TypeOK
  <2>4. tail' = IF head' + count' < NodeCount THEN head' + count'
                                             ELSE head' + count' - NodeCount
    <3>1. tail' = (IF tail + 1 = NodeCount THEN 0 ELSE tail + 1) /\ count' = count + 1
      BY <1>2, AdvanceWraps DEF Enqueue, TypeOK
    <3>2. /\ head \in 0 .. NodeCount - 1 /\ count \in 0 .. NodeCount - 1
          /\ NodeCount \in Nat \ {0}
      BY <2>1, NodeCountAssumption DEF TypeOK, Node
    <3> QED BY <3>1, <3>2 DEF QueueMatchesFlags
  <2>5. ASSUME NEW slot \in Node, Occupied(slot)'
        PROVE  queue'[slot] \in queued'
    BY <2>2, <2>3, <2>5 DEF QueueMatchesFlags
  <2>6. ASSUME NEW m \in queued'
        PROVE  \E slot \in Node : Occupied(slot)' /\ queue'[slot] = m
    <3>1. CASE m = n
      BY <2>2, <2>3, <3>1
    <3>2. CASE m # n
      <4>1. PICK slot \in Node : Occupied(slot) /\ queue[slot] = m
        BY <2>3, <2>6, <3>2 DEF QueueMatchesFlags
      <4> QED BY <2>2, <2>3, <4>1
    <3> QED BY <3>1, <3>2
  <2>7. ASSUME NEW s \in Node, NEW t \in Node,
               Occupied(s)', Occupied(t)', queue'[s] = queue'[t]
        PROVE  s = t
    <3>1. \A slot \in Node : slot # tail /\ Occupied(slot)' => queue'[slot] # n
      BY <1>2, <2>2, <2>3 DEF QueueMatchesFlags
    <3>2. queue'[tail] = n
      BY <2>3
    <3>3. CASE s = tail \/ t = tail
      BY <2>7, <3>1, <3>2, <3>3
    <3>4. CASE s # tail /\ t # tail
      BY <2>2, <2>3, <2>7, <3>4 DEF QueueMatchesFlags
    <3> QED BY <3>3, <3>4
  <2> QED BY <2>4, <2>5, <2>6, <2>7 DEF QueueMatchesFlags
<1> QED BY <1>1, <1>2

(***************************************************************************)
(* Taking the oldest node frees the head slot and no other.                *)
(***************************************************************************)
LEMMA TakeFrees ==
  ASSUME TypeOK, QueueMatchesFlags, TakeNode
  PROVE  /\ Occupied(head)
         /\ \A slot \in Node : Occupied(slot)' <=> Occupied(slot) /\ slot # head
<1>1. count' = count - 1
  BY DEF TakeNode
<1>2. head' = IF head + 1 = NodeCount THEN 0 ELSE head + 1
  BY AdvanceWraps DEF TakeNode, TypeOK
<1>3. /\ head \in 0 .. NodeCount - 1 /\ count \in 1 .. NodeCount
      /\ NodeCount \in Nat \ {0}
  BY NodeCountAssumption DEF TypeOK, Node, TakeNode
<1> QED BY <1>1, <1>2, <1>3 DEF Occupied, Node

\* Taking the oldest node keeps flags and queue in agreement.
LEMMA TakeKeepsQueue ==
  ASSUME TypeOK, QueueMatchesFlags, TakeNode
  PROVE  QueueMatchesFlags'
<1>1. /\ Occupied(head)
      /\ \A slot \in Node : Occupied(slot)' <=> Occupied(slot) /\ slot # head
  BY TakeFrees
<1>2. /\ queue' = queue /\ tail' = tail /\ head \in Node
      /\ queued' = queued \ {queue[head]}
  BY DEF TakeNode, TypeOK
<1>3. tail' = IF head' + count' < NodeCount THEN head' + count'
                                           ELSE head' + count' - NodeCount
  <2>1. head' = (IF head + 1 = NodeCount THEN 0 ELSE head + 1) /\ count' = count - 1
    BY AdvanceWraps DEF TakeNode, TypeOK
  <2>2. /\ head \in 0 .. NodeCount - 1 /\ count \in 1 .. NodeCount
        /\ NodeCount \in Nat \ {0}
    BY NodeCountAssumption DEF TypeOK, Node, TakeNode
  <2> QED BY <1>2, <2>1, <2>2 DEF QueueMatchesFlags
<1>4. ASSUME NEW slot \in Node, Occupied(slot)'
      PROVE  queue'[slot] \in queued'
  BY <1>1, <1>2, <1>4 DEF QueueMatchesFlags
<1>5. ASSUME NEW n \in queued'
      PROVE  \E slot \in Node : Occupied(slot)' /\ queue'[slot] = n
  <2>1. PICK slot \in Node : Occupied(slot) /\ queue[slot] = n
    BY <1>2, <1>5 DEF QueueMatchesFlags
  <2> QED BY <1>1, <1>2, <1>5, <2>1
<1>6. ASSUME NEW s \in Node, NEW t \in Node,
             Occupied(s)', Occupied(t)', queue'[s] = queue'[t]
      PROVE  s = t
  BY <1>1, <1>2, <1>6 DEF QueueMatchesFlags
<1> QED BY <1>3, <1>4, <1>5, <1>6 DEF QueueMatchesFlags

(***************************************************************************)
(* A step that leaves the queue alone keeps the agreement.                 *)
(***************************************************************************)
LEMMA QueueUntouched ==
  ASSUME QueueMatchesFlags, UNCHANGED << queue, head, tail, count, queued >>
  PROVE  QueueMatchesFlags'
BY DEF QueueMatchesFlags, Occupied

(***************************************************************************)
(* The inductive invariant adds that the queue starts at slot 0, where the *)
(* backward solver's first node goes.                                      *)
(***************************************************************************)
QueueInv == QueueMatchesFlags /\ (pc = "start" => head = 0)

\* The queue is empty at slot 0 until the call starts.
LEMMA StartLeft == (pc = "start" => head = 0) /\ [Next]_vars => (pc = "start" => head = 0)'
BY DEF Next, vars, AllocationFails, StartForward, StartBackward, TakeNode, TransferFails,
       FilterEdge, MergeEdge, EdgesExhausted, Finish, Fail

\* Every step keeps flags and queue in agreement.
LEMMA QueueStep == TypeOK /\ QueueInv /\ [Next]_vars => QueueInv'
<1> SUFFICES ASSUME TypeOK, QueueInv, [Next]_vars PROVE QueueMatchesFlags'
  BY StartLeft DEF QueueInv
<1> USE DEF QueueInv
<1>1. CASE Fail
  BY <1>1, QueueUntouched DEF Fail
<1>2. CASE StartForward
  <2>1. problem.entry \in Node
    BY DEF TypeOK, Problem
  <2>2. CASE ~ EnqueueFails(problem.entry)
    BY <1>2, <2>1, <2>2, EnqueueKeepsQueue DEF StartForward
  <2> QED BY <1>1, <1>2, <2>2 DEF StartForward
<1>3. CASE StartBackward
  <2>1. /\ head' = 0 /\ tail' = 0 /\ count' = NodeCount /\ queued' = Node
        /\ queue' = [slot \in Node |-> slot]
    BY <1>3 DEF StartBackward
  <2>2. \A slot \in Node : queue'[slot] = slot /\ Occupied(slot)'
    BY <2>1, NodeCountAssumption DEF Occupied, Node
  <2>3. tail' = IF head' + count' < NodeCount THEN head' + count'
                                             ELSE head' + count' - NodeCount
    BY <2>1, NodeCountAssumption
  <2> QED BY <2>1, <2>2, <2>3 DEF QueueMatchesFlags
<1>4. CASE TakeNode
  BY <1>4, TakeKeepsQueue
<1>5. CASE MergeEdge
  <2> DEFINE target == NextEdge.target
  <2>1. target \in Node
    BY <1>5, NextEdgeType DEF MergeEdge
  <2>2. CASE MergeChanges(target, output) /\ ~ EnqueueFails(target)
    BY <1>5, <2>1, <2>2, EnqueueKeepsQueue DEF MergeEdge
  <2>3. CASE ~ MergeChanges(target, output)
    BY <1>5, <2>3, QueueUntouched DEF MergeEdge
  <2> QED BY <1>1, <1>5, <2>2, <2>3 DEF MergeEdge
<1>6. CASE AllocationFails \/ TransferFails
  BY <1>1, <1>6 DEF AllocationFails, TransferFails
<1>7. CASE FilterEdge \/ EdgesExhausted \/ Finish \/ UNCHANGED vars
  BY <1>7, QueueUntouched DEF FilterEdge, EdgesExhausted, Finish, vars
<1> QED BY <1>2, <1>3, <1>4, <1>5, <1>6, <1>7 DEF Next

(***************************************************************************)
(* The queue and the flags agree in every reachable state.                 *)
(***************************************************************************)
THEOREM QueueCorrect == Spec => []QueueMatchesFlags
<1>1. Init => QueueInv
  BY NodeCountAssumption DEF Init, QueueInv, QueueMatchesFlags, Occupied, Node
<1>2. QueueInv => QueueMatchesFlags
  BY DEF QueueInv
<1> QED BY <1>1, <1>2, QueueStep, TypeCorrect, PTL DEF Spec

(***************************************************************************)
(* Hence enqueue never finds the queue full: with every slot occupied, a   *)
(* further unflagged node would make a queue of NodeCount distinct nodes   *)
(* out of NodeCount - 1.                                                   *)
(***************************************************************************)
THEOREM EnqueueNeverFails == Spec => [](\A n \in Node : ~ EnqueueFails(n))
<1>1. TypeOK /\ QueueMatchesFlags => \A n \in Node : ~ EnqueueFails(n)
  <2> SUFFICES ASSUME TypeOK, QueueMatchesFlags, NEW n \in Node, EnqueueFails(n)
               PROVE  FALSE
    OBVIOUS
  <2>1. count = NodeCount /\ n \notin queued
    BY NodeCountAssumption DEF EnqueueFails, TypeOK
  <2>2. \A slot \in Node : Occupied(slot)
    BY <2>1, NodeCountAssumption DEF Occupied, Node, TypeOK
  <2>3. queue \in [Node -> Node \ {n}]
    BY <2>1, <2>2 DEF QueueMatchesFlags, TypeOK
  <2>4. IsFiniteSet(Node) /\ Cardinality(Node) = NodeCount
    BY FS_Interval, NodeCountAssumption DEF Node
  <2>5. IsFiniteSet(Node \ {n}) /\ Cardinality(Node \ {n}) = NodeCount - 1
    BY <2>4, FS_RemoveElement
  <2>6. Cardinality(Node \ {n}) < Cardinality(Node)
    BY <2>4, <2>5, NodeCountAssumption
  <2>7. \E s, t \in Node : s # t /\ queue[s] = queue[t]
    BY <2>3, <2>4, <2>5, <2>6, FS_PigeonHole
  <2> QED BY <2>2, <2>7 DEF QueueMatchesFlags
<1> QED BY <1>1, TypeCorrect, QueueCorrect, PTL

-----------------------------------------------------------------------------
(* The states returned solve the equations.                                *)

(***************************************************************************)
(* The inductive invariant: every reached node that is not queued has      *)
(* propagated its present facts along all its edges, except the node being *)
(* processed, which has done so along the edges before the current one --  *)
(* unless a self loop queued it again, and its output is already stale.    *)
(***************************************************************************)
FlowInv ==
  /\ pc \in {"take", "edges", "done"} =>
       /\ RespectsBoundary(initialized, facts)
       /\ queued \subseteq initialized
       /\ \A n \in initialized \ queued :
            (pc = "edges" /\ n = node) \/ NodeCarried(n, initialized, facts)
  /\ pc = "edges" =>
       /\ node \in initialized
       /\ node \notin queued =>
            /\ output = Transfer(node, facts[node])
            /\ \A k \in 1 .. edge - 1 :
                 Carried(node, EdgesFrom(node)[k], initialized, facts)
  /\ pc \in {"start", "done"} => queued = {}

(***************************************************************************)
(* States that only grow keep what a node whose own facts are unchanged    *)
(* has propagated.                                                         *)
(***************************************************************************)
LEMMA CarriedGrows ==
  ASSUME TypeOK, problem' = problem, NEW n \in Node, facts'[n] = facts[n],
         initialized \subseteq initialized',
         \A m \in initialized : facts[m] \subseteq facts'[m],
         NEW k \in 1 .. Len(EdgesFrom(n)),
         Carried(n, EdgesFrom(n)[k], initialized, facts)
  PROVE  Carried(n, EdgesFrom(n)[k], initialized, facts)'
<1>1. EdgesFrom(n) \in Seq(Edge)
  BY EdgesFromType
<1>2. EdgesFrom(n)[k] \in Edge
  BY <1>1
<1>3. EdgesFrom(n)[k].target \in Node
  BY <1>2 DEF Edge
<1>4. EdgesFrom(n)' = EdgesFrom(n)
  BY DEF EdgesFrom, Forward
<1>5. Transfer(n, facts[n])' = Transfer(n, facts[n])
  BY DEF Transfer
<1> QED BY <1>3, <1>4, <1>5 DEF Carried, Passes

\* A node whose edges are carried keeps them carried while states grow.
LEMMA NodeCarriedGrows ==
  ASSUME TypeOK, problem' = problem, NEW n \in Node, facts'[n] = facts[n],
         initialized \subseteq initialized',
         \A m \in initialized : facts[m] \subseteq facts'[m],
         NodeCarried(n, initialized, facts)
  PROVE  NodeCarried(n, initialized, facts)'
<1>1. EdgesFrom(n)' = EdgesFrom(n)
  BY DEF EdgesFrom, Forward
<1>2. \A k \in 1 .. Len(EdgesFrom(n)) : Carried(n, EdgesFrom(n)[k], initialized, facts)'
  BY CarriedGrows DEF NodeCarried
<1> QED BY <1>1, <1>2 DEF NodeCarried

(***************************************************************************)
(* The boundary condition survives growth.                                 *)
(***************************************************************************)
LEMMA BoundaryGrows ==
  ASSUME TypeOK, problem' = problem, RespectsBoundary(initialized, facts),
         initialized \subseteq initialized', initialized' \subseteq Node,
         \A m \in initialized : facts[m] \subseteq facts'[m]
  PROVE  RespectsBoundary(initialized, facts)'
<1>1. CASE Forward
  BY <1>1 DEF RespectsBoundary, Forward
<1>2. CASE ~ Forward
  <2>1. initialized = Node /\ initialized' = Node
    BY <1>2 DEF RespectsBoundary
  <2>2. \A n \in Node : Terminal(n)' => problem.boundary \subseteq facts'[n]
    BY <1>2, <2>1 DEF RespectsBoundary, Terminal
  <2> QED BY <1>2, <2>1, <2>2 DEF RespectsBoundary, Forward
<1> QED BY <1>1, <1>2

(***************************************************************************)
(* A step that changes neither the states nor the flags.                   *)
(***************************************************************************)
LEMMA FlowUntouched ==
  ASSUME UNCHANGED << problem, initialized, facts, queued >>, NEW n
  PROVE  /\ RespectsBoundary(initialized, facts)' <=> RespectsBoundary(initialized, facts)
         /\ NodeCarried(n, initialized, facts)' <=> NodeCarried(n, initialized, facts)
         /\ EdgesFrom(n)' = EdgesFrom(n)
         /\ Transfer(n, facts[n])' = Transfer(n, facts[n])
         /\ \A k : Carried(n, EdgesFrom(n)[k], initialized, facts)'
                 <=> Carried(n, EdgesFrom(n)[k], initialized, facts)
BY DEF RespectsBoundary, NodeCarried, Carried, EdgesFrom, Transfer, Passes, Forward, Terminal

\* The forward start establishes the flow invariant: only the entry is due.
LEMMA FlowStartForward ==
  ASSUME TypeOK, FlowInv, StartForward, ~ EnqueueFails(problem.entry)
  PROVE  FlowInv'
<1>1. problem.entry \in Node /\ problem' = problem
  BY DEF TypeOK, Problem, StartForward
<1>2. /\ initialized' = {problem.entry} /\ pc' = "take"
      /\ facts' = [facts EXCEPT ![problem.entry] = problem.boundary]
      /\ Enqueue(problem.entry) /\ Forward
  BY DEF StartForward
<1>3. queued' = {problem.entry}
  BY <1>2 DEF Enqueue, FlowInv, StartForward
<1>4. facts'[problem.entry] = problem.boundary
  BY <1>1, <1>2 DEF TypeOK
<1>5. RespectsBoundary(initialized, facts)'
  BY <1>1, <1>2, <1>4 DEF RespectsBoundary, Forward
<1> QED BY <1>2, <1>3, <1>5 DEF FlowInv

\* The backward start establishes it: every node is due.
LEMMA FlowStartBackward ==
  ASSUME TypeOK, StartBackward
  PROVE  FlowInv'
<1>1. /\ initialized' = Node /\ queued' = Node /\ pc' = "take" /\ problem' = problem
      /\ facts' = [n \in Node |-> IF Terminal(n) THEN problem.boundary ELSE {}]
      /\ ~ Forward
  BY DEF StartBackward
<1>2. RespectsBoundary(initialized, facts)'
  BY <1>1 DEF RespectsBoundary, Forward, Terminal
<1> QED BY <1>1, <1>2 DEF FlowInv

\* A node that leaves the queue is the one being processed.
LEMMA FlowTake ==
  ASSUME TypeOK, QueueMatchesFlags, FlowInv, TakeNode
  PROVE  FlowInv'
<1>1. /\ node' = queue[head] /\ queued' = queued \ {queue[head]} /\ edge' = 1
      /\ output' = Transfer(queue[head], facts[queue[head]])
      /\ pc = "take" /\ pc' = "edges"
      /\ UNCHANGED << problem, initialized, facts >>
  BY DEF TakeNode
<1>2. queue[head] \in queued /\ queue[head] \in Node
  BY TakeFrees DEF QueueMatchesFlags, TypeOK
<1>3. /\ RespectsBoundary(initialized, facts) /\ queued \subseteq initialized
      /\ \A n \in initialized \ queued : NodeCarried(n, initialized, facts)
  BY <1>1 DEF FlowInv
<1>4. /\ RespectsBoundary(initialized, facts)'
      /\ \A n : NodeCarried(n, initialized, facts)' <=> NodeCarried(n, initialized, facts)
  BY <1>1, <1>3 DEF RespectsBoundary, NodeCarried, Carried, EdgesFrom, Transfer, Passes,
                    Forward, Terminal
<1>5. \A n \in initialized' \ queued' : n = node' \/ NodeCarried(n, initialized, facts)'
  BY <1>1, <1>3, <1>4
<1>6. output' = Transfer(node, facts[node])'
  BY <1>1 DEF Transfer
<1>7. 1 .. edge' - 1 = {}
  BY <1>1
<1> QED BY <1>1, <1>2, <1>3, <1>4, <1>5, <1>6, <1>7 DEF FlowInv

\* An edge that is filtered out demands nothing of its target.
LEMMA FlowFilter ==
  ASSUME TypeOK, FlowInv, FilterEdge
  PROVE  FlowInv'
<1>1. /\ pc = "edges" /\ edge' = edge + 1 /\ ~ Passes(NextEdge, output)
      /\ UNCHANGED << problem, pc, initialized, facts, queued, node, output >>
  BY DEF FilterEdge
<1>2. ASSUME node \notin queued
      PROVE  /\ output' = Transfer(node, facts[node])'
             /\ \A k \in 1 .. edge' - 1 :
                  Carried(node, EdgesFrom(node)[k], initialized, facts)'
  <2>1. /\ output = Transfer(node, facts[node])
        /\ \A k \in 1 .. edge - 1 :
             Carried(node, EdgesFrom(node)[k], initialized, facts)
    BY <1>1, <1>2 DEF FlowInv
  <2>2. Carried(node, EdgesFrom(node)[edge], initialized, facts)
    BY <1>1, <2>1 DEF Carried, NextEdge
  <2>3. \A k \in 1 .. edge : Carried(node, EdgesFrom(node)[k], initialized, facts)
    BY <2>1, <2>2 DEF TypeOK
  <2>4. edge' - 1 = edge
    BY <1>1 DEF TypeOK
  <2>5. output' = Transfer(node, facts[node])'
    BY <1>1, <2>1 DEF Transfer
  <2>6. \A k : Carried(node, EdgesFrom(node)[k], initialized, facts)'
             <=> Carried(node, EdgesFrom(node)[k], initialized, facts)
    BY <1>1 DEF Carried, EdgesFrom, Transfer, Passes, Forward
  <2> QED BY <2>3, <2>4, <2>5, <2>6
<1>3. /\ RespectsBoundary(initialized, facts)' <=> RespectsBoundary(initialized, facts)
      /\ \A n : NodeCarried(n, initialized, facts)' <=> NodeCarried(n, initialized, facts)
  BY <1>1 DEF RespectsBoundary, NodeCarried, Carried, EdgesFrom, Transfer, Passes,
              Forward, Terminal
<1> QED BY <1>1, <1>2, <1>3 DEF FlowInv

\* A merged edge is carried; a target that changed is due again.
LEMMA FlowMerge ==
  ASSUME TypeOK, FlowInv, MergeEdge,
         ~ (MergeChanges(NextEdge.target, output) /\ EnqueueFails(NextEdge.target))
  PROVE  FlowInv'
<1> DEFINE target == NextEdge.target
<1>1. /\ pc = "edges" /\ edge <= Len(EdgesFrom(node)) /\ edge' = edge + 1
      /\ initialized' = initialized \union {target}
      /\ facts' = [facts EXCEPT ![target] = Merged(target, output)]
      /\ UNCHANGED << problem, pc, node, output >>
  BY DEF MergeEdge
<1>2. /\ MergeChanges(target, output) => queued' = queued \union {target}
      /\ ~ MergeChanges(target, output) => queued' = queued
  BY DEF MergeEdge, Enqueue
<1>3. target \in Node
  BY <1>1, NextEdgeType
<1>4. /\ \A m \in Node : m # target => facts'[m] = facts[m]
      /\ facts'[target] = Merged(target, output) /\ output \subseteq facts'[target]
      /\ \A m \in initialized : facts[m] \subseteq facts'[m]
      /\ initialized' \subseteq Node /\ queued \subseteq queued'
  BY <1>1, <1>2, <1>3 DEF TypeOK, Merged
<1>5. ~ MergeChanges(target, output) => facts' = facts /\ initialized' = initialized
  BY <1>1, <1>3 DEF MergeChanges, Merged, TypeOK
<1> HIDE DEF target
<1>6. \A n \in initialized' \ queued' :
        n \in initialized \ queued /\ n \in Node /\ facts'[n] = facts[n]
  BY <1>1, <1>2, <1>4, <1>5 DEF TypeOK
<1>7. RespectsBoundary(initialized, facts)'
  BY <1>1, <1>4, BoundaryGrows DEF FlowInv
<1>8. queued' \subseteq initialized'
  BY <1>1, <1>2, <1>4 DEF FlowInv
<1>9. ASSUME NEW n \in initialized' \ queued', n # node
      PROVE  NodeCarried(n, initialized, facts)'
  <2>1. n \in Node /\ facts'[n] = facts[n] /\ NodeCarried(n, initialized, facts)
    BY <1>1, <1>6, <1>9 DEF FlowInv
  <2> QED BY <1>1, <1>4, <2>1, NodeCarriedGrows
<1>10. node \in initialized'
  BY <1>1 DEF FlowInv
<1>11. ASSUME node' \notin queued'
       PROVE  /\ output' = Transfer(node, facts[node])'
              /\ \A k \in 1 .. edge' - 1 :
                   Carried(node, EdgesFrom(node)[k], initialized, facts)'
  <2>1. node \in Node /\ node \notin queued /\ facts'[node] = facts[node]
    BY <1>1, <1>4, <1>6, <1>10, <1>11
  <2>2. output = Transfer(node, facts[node])
    BY <1>1, <2>1 DEF FlowInv
  <2>3. output' = Transfer(node, facts[node])'
    BY <1>1, <2>1, <2>2 DEF Transfer
  <2>4. EdgesFrom(node) \in Seq(Edge) /\ EdgesFrom(node)' = EdgesFrom(node)
    BY <1>1, <2>1, EdgesFromType DEF EdgesFrom, Forward
  <2>5. ASSUME NEW k \in 1 .. edge - 1
        PROVE  Carried(node, EdgesFrom(node)[k], initialized, facts)'
    <3>1. Carried(node, EdgesFrom(node)[k], initialized, facts)
      BY <1>1, <2>1 DEF FlowInv
    <3>2. k \in 1 .. Len(EdgesFrom(node))
      BY <1>1, <2>4 DEF TypeOK
    <3>3. Carried(node, EdgesFrom(node)[k], initialized, facts)'
             <=> Carried(node', EdgesFrom(node)[k]', initialized', facts')
      BY <1>1 DEF Carried, Passes, Transfer
    <3> QED BY <1>1, <1>4, <2>1, <3>1, <3>2, CarriedGrows
  <2>6. ASSUME NEW k, k = edge
        PROVE  Carried(node, EdgesFrom(node)[k], initialized, facts)'
    <3>1. NextEdge = EdgesFrom(node)[k] /\ EdgesFrom(node)'[k] = EdgesFrom(node)[k]
      BY <2>4, <2>6 DEF NextEdge
    <3>2. target \in initialized' /\ output \subseteq facts'[target]
      BY <1>1, <1>4
    <3> QED BY <1>1, <2>2, <2>3, <3>1, <3>2 DEF Carried, target
  <2>7. 1 .. edge' - 1 = (1 .. edge - 1) \union {edge}
    BY <1>1 DEF TypeOK
  <2> QED BY <2>3, <2>5, <2>6, <2>7
<1> QED BY <1>1, <1>7, <1>8, <1>9, <1>10, <1>11 DEF FlowInv

\* A node with all edges processed is carried.
LEMMA FlowExhausted ==
  ASSUME TypeOK, FlowInv, EdgesExhausted
  PROVE  FlowInv'
<1>1. /\ pc = "edges" /\ pc' = "take" /\ edge > Len(EdgesFrom(node))
      /\ UNCHANGED << problem, initialized, facts, queued >>
  BY DEF EdgesExhausted
<1>2. EdgesFrom(node) \in Seq(Edge)
  BY EdgesFromType DEF TypeOK
<1>3. \A k \in 1 .. Len(EdgesFrom(node)) : k \in 1 .. edge - 1
  BY <1>1, <1>2 DEF TypeOK
<1>4. node \notin queued => NodeCarried(node, initialized, facts)
  BY <1>1, <1>3 DEF FlowInv, NodeCarried
<1>5. \A n \in initialized \ queued : NodeCarried(n, initialized, facts)
  BY <1>1, <1>4 DEF FlowInv
<1> QED BY <1>1, <1>5, FlowUntouched DEF FlowInv

\* With an empty queue every reached node is carried.
LEMMA FlowFinish ==
  ASSUME TypeOK, QueueMatchesFlags, FlowInv, Finish
  PROVE  FlowInv'
<1>1. /\ pc = "take" /\ pc' = "done" /\ count = 0
      /\ UNCHANGED << problem, initialized, facts, queued >>
  BY DEF Finish
<1>2. \A slot \in Node : ~ Occupied(slot)
  BY <1>1, NodeCountAssumption DEF Occupied, Node, TypeOK
<1>3. queued = {}
  BY <1>2 DEF QueueMatchesFlags
<1> QED BY <1>1, <1>3, FlowUntouched DEF FlowInv

\* Every step keeps the flow invariant.
LEMMA FlowStep ==
  TypeOK /\ QueueMatchesFlags /\ FlowInv /\ [Next]_vars => FlowInv'
<1> SUFFICES ASSUME TypeOK, QueueMatchesFlags, FlowInv, [Next]_vars PROVE FlowInv'
  OBVIOUS
<1>1. CASE Fail
  BY <1>1 DEF Fail, FlowInv
<1>2. CASE AllocationFails \/ TransferFails
  BY <1>1, <1>2 DEF AllocationFails, TransferFails
<1>3. CASE StartForward
  BY <1>1, <1>3, FlowStartForward DEF StartForward
<1>4. CASE StartBackward
  BY <1>4, FlowStartBackward
<1>5. CASE TakeNode
  BY <1>5, FlowTake
<1>6. CASE FilterEdge
  BY <1>6, FlowFilter
<1>7. CASE MergeEdge
  BY <1>1, <1>7, FlowMerge DEF MergeEdge
<1>8. CASE EdgesExhausted
  BY <1>8, FlowExhausted
<1>9. CASE Finish
  BY <1>9, FlowFinish
<1>10. CASE UNCHANGED vars
  <2>1. UNCHANGED << problem, pc, initialized, facts, queued, node, output, edge >>
    BY <1>10 DEF vars
  <2> QED BY <2>1, FlowUntouched DEF FlowInv
<1> QED BY <1>2, <1>3, <1>4, <1>5, <1>6, <1>7, <1>8, <1>9, <1>10 DEF Next

(***************************************************************************)
(* A solver that returns 1 returns a solution: the whole graph has been    *)
(* propagated, for both directions, with and without edge filters.         *)
(***************************************************************************)
THEOREM Solved == Spec => []SolvedAtDone
<1>1. Init => FlowInv
  BY DEF Init, FlowInv
<1>2. TypeOK /\ FlowInv => SolvedAtDone
  BY DEF FlowInv, SolvedAtDone, IsSolution, TypeOK
<1> QED BY <1>1, <1>2, FlowStep, TypeCorrect, QueueCorrect, PTL DEF Spec

-----------------------------------------------------------------------------
(* The states are below every solution.                                    *)

\* The states, and the output in flight, are below the solution given.
Below(reached, known) ==
  /\ initialized \subseteq reached
  /\ \A n \in initialized : facts[n] \subseteq known[n]
  /\ pc = "edges" => /\ node \in reached
                     /\ output \subseteq Transfer(node, known[node])

LeastInv ==
  \A reached \in SUBSET Node : \A known \in [Node -> SUBSET Fact] :
    IsSolution(reached, known) => Below(reached, known)

(***************************************************************************)
(* Facts a node does not have yet cannot pass a filter a solution closes:  *)
(* gen/kill transfer functions are monotone.                               *)
(***************************************************************************)
LEMMA TransferMonotone ==
  ASSUME NEW n, NEW small, NEW large, small \subseteq large
  PROVE  Transfer(n, small) \subseteq Transfer(n, large)
BY DEF Transfer

\* What the graph and the boundary demand does not change during a call.
LEMMA SolutionFixed ==
  ASSUME problem' = problem, NEW reached, NEW known
  PROVE  IsSolution(reached, known)' <=> IsSolution(reached, known)
BY DEF IsSolution, RespectsBoundary, NodeCarried, Carried, EdgesFrom, Transfer, Passes,
       Forward, Terminal

\* The output computed is below what any solution passes on.
LEMMA LeastTake ==
  ASSUME TypeOK, LeastInv, QueueMatchesFlags, FlowInv, TakeNode,
         NEW reached \in SUBSET Node, NEW known \in [Node -> SUBSET Fact],
         IsSolution(reached, known)
  PROVE  Below(reached, known)'
<1>1. /\ node' = queue[head] /\ output' = Transfer(queue[head], facts[queue[head]])
      /\ pc = "take" /\ UNCHANGED << problem, initialized, facts >>
  BY DEF TakeNode
<1>2. queue[head] \in initialized
  BY <1>1, TakeFrees DEF QueueMatchesFlags, FlowInv, TypeOK
<1>3. /\ initialized \subseteq reached
      /\ \A n \in initialized : facts[n] \subseteq known[n]
  BY DEF LeastInv, Below
<1>4. output' \subseteq Transfer(node', known[node'])
  BY <1>1, <1>2, <1>3, TransferMonotone
<1> QED BY <1>1, <1>2, <1>3, <1>4 DEF Below, Transfer

\* Merging the output keeps the states below every solution.
LEMMA LeastMerge ==
  ASSUME TypeOK, LeastInv, MergeEdge,
         ~ (MergeChanges(NextEdge.target, output) /\ EnqueueFails(NextEdge.target)),
         NEW reached \in SUBSET Node, NEW known \in [Node -> SUBSET Fact],
         IsSolution(reached, known)
  PROVE  Below(reached, known)'
<1> DEFINE target == NextEdge.target
<1>1. /\ pc = "edges" /\ edge <= Len(EdgesFrom(node)) /\ Passes(NextEdge, output)
      /\ initialized' = initialized \union {target}
      /\ facts' = [facts EXCEPT ![target] = Merged(target, output)]
      /\ UNCHANGED << problem, pc, node, output >>
  BY DEF MergeEdge
<1>2. /\ initialized \subseteq reached
      /\ \A n \in initialized : facts[n] \subseteq known[n]
      /\ node \in reached /\ output \subseteq Transfer(node, known[node])
  BY <1>1 DEF LeastInv, Below
<1>3. target \in Node
  BY <1>1, NextEdgeType
<1>4. EdgesFrom(node) \in Seq(Edge)
  BY EdgesFromType DEF TypeOK
<1>5. edge \in 1 .. Len(EdgesFrom(node))
  BY <1>1, <1>4 DEF TypeOK
<1>6. Carried(node, NextEdge, reached, known)
  BY <1>2, <1>5 DEF IsSolution, NodeCarried, NextEdge
<1>7. Passes(NextEdge, Transfer(node, known[node]))
  BY <1>1, <1>2 DEF Passes
<1>8. target \in reached /\ output \subseteq known[target]
  BY <1>2, <1>6, <1>7 DEF Carried
<1> HIDE DEF target
<1>9. \A n \in initialized' : facts'[n] \subseteq known[n]
  BY <1>1, <1>2, <1>3, <1>8 DEF Merged, TypeOK
<1>10. Transfer(node, known[node])' = Transfer(node, known[node])
  BY <1>1 DEF Transfer
<1> QED BY <1>1, <1>2, <1>8, <1>9, <1>10 DEF Below

\* The boundary states are below every solution.
LEMMA LeastStart ==
  ASSUME TypeOK, NEW reached \in SUBSET Node, NEW known \in [Node -> SUBSET Fact],
         IsSolution(reached, known),
         \/ StartForward /\ ~ EnqueueFails(problem.entry)
         \/ StartBackward
  PROVE  Below(reached, known)'
<1>1. problem.entry \in Node
  BY DEF TypeOK, Problem
<1>2. CASE StartForward /\ ~ EnqueueFails(problem.entry)
  <2>1. /\ initialized' = {problem.entry} /\ pc' = "take" /\ Forward
        /\ facts' = [facts EXCEPT ![problem.entry] = problem.boundary]
    BY <1>2 DEF StartForward
  <2> QED BY <1>1, <2>1 DEF Below, IsSolution, RespectsBoundary, TypeOK
<1>3. CASE StartBackward
  <2>1. /\ initialized' = Node /\ pc' = "take" /\ ~ Forward
        /\ facts' = [n \in Node |-> IF Terminal(n) THEN problem.boundary ELSE {}]
    BY <1>3 DEF StartBackward
  <2> QED BY <2>1 DEF Below, IsSolution, RespectsBoundary
<1> QED BY <1>2, <1>3

\* Every step keeps the states below every solution.
LEMMA LeastStep ==
  TypeOK /\ QueueMatchesFlags /\ FlowInv /\ LeastInv /\ [Next]_vars => LeastInv'
<1> SUFFICES ASSUME TypeOK, QueueMatchesFlags, FlowInv, LeastInv, [Next]_vars,
                    NEW reached \in SUBSET Node, NEW known \in [Node -> SUBSET Fact],
                    IsSolution(reached, known)'
             PROVE  Below(reached, known)'
  BY DEF LeastInv, Node
<1>1. problem' = problem
  BY DEF Next, vars, AllocationFails, StartForward, StartBackward, TakeNode, TransferFails,
         FilterEdge, MergeEdge, EdgesExhausted, Finish, Fail
<1>2. IsSolution(reached, known)
  BY <1>1, SolutionFixed
<1>3. Below(reached, known)
  BY <1>2 DEF LeastInv
<1>4. CASE Fail
  BY <1>4 DEF Fail, Below
<1>5. CASE AllocationFails \/ TransferFails
  BY <1>4, <1>5 DEF AllocationFails, TransferFails
<1>6. CASE StartForward \/ StartBackward
  BY <1>2, <1>4, <1>6, LeastStart DEF StartForward
<1>7. CASE TakeNode
  BY <1>2, <1>7, LeastTake
<1>8. CASE MergeEdge
  BY <1>2, <1>4, <1>8, LeastMerge DEF MergeEdge
<1>9. CASE FilterEdge
  BY <1>1, <1>3, <1>9 DEF FilterEdge, Below, Transfer
<1>10. CASE EdgesExhausted \/ Finish
  BY <1>3, <1>10 DEF EdgesExhausted, Finish, Below
<1>11. CASE UNCHANGED vars
  BY <1>3, <1>11 DEF vars, Below, Transfer
<1> QED BY <1>5, <1>6, <1>7, <1>8, <1>9, <1>10, <1>11 DEF Next

(***************************************************************************)
(* The states returned are the least solution: no solution of the          *)
(* equations reaches fewer nodes or knows fewer facts of a reached node.   *)
(***************************************************************************)
THEOREM Least == Spec => []LeastAtDone
<1>1. Init => FlowInv /\ LeastInv
  BY DEF Init, FlowInv, LeastInv, Below
<1>2. LeastInv => LeastAtDone
  BY DEF LeastInv, LeastAtDone, Below
<1> QED
  BY <1>1, <1>2, LeastStep, FlowStep, TypeCorrect, QueueCorrect, PTL DEF Spec

-----------------------------------------------------------------------------
(* Successors, of which the backward solver reads the predecessor lists.   *)

\* Every edge of a successor list is in the predecessor list of its target,
\* where build_node_predecessors puts it.
Mirrored(graph) ==
  \A n \in Node : \A k \in 1 .. Len(graph.successors[n]) :
    LET e == graph.successors[n][k] IN
    \E j \in 1 .. Len(graph.predecessors[e.target]) :
      graph.predecessors[e.target][j] = [target |-> n, needs |-> e.needs]

(***************************************************************************)
(* What build_node_predecessors looks for in the successor list of source: *)
(* the edges into n, turned round.                                         *)
(***************************************************************************)
LEMMA EdgesTurnedRound ==
  ASSUME NEW n \in Node, NEW source \in Node, NEW edges \in Seq(Edge)
  PROVE  /\ EdgesInto(n, source, edges) \in Seq(Edge)
         /\ \A m \in Node, needs \in SUBSET Fact :
              [target |-> m, needs |-> needs] \in ToSet(EdgesInto(n, source, edges)) <=>
                m = source /\ [target |-> n, needs |-> needs] \in ToSet(edges)
<1> DEFINE into == Keep(edges, {e \in ToSet(edges) : e.target = n})
           turned == [k \in DOMAIN into |-> [into[k] EXCEPT !.target = source]]
<1>1. EdgesInto(n, source, edges) = turned
  BY DEF EdgesInto
<1>2. ToSet(edges) \subseteq Edge
  BY ToSetFacts
<1>3. into \in Seq(Edge) /\ ToSet(into) = ToSet(edges) \intersect {e \in ToSet(edges) : e.target = n}
  BY KeepFacts
<1> HIDE DEF into
<1>4. PICK l \in Nat : l = Len(into)
  BY <1>3
<1>5. DOMAIN into = 1 .. l /\ \A k \in 1 .. l : into[k] \in Edge /\ into[k] \in ToSet(into)
  BY <1>3, <1>4 DEF ToSet
<1>6. \A k \in 1 .. l : /\ into[k] = [target |-> n, needs |-> into[k].needs]
                        /\ into[k] \in ToSet(edges)
                        /\ turned[k] = [target |-> source, needs |-> into[k].needs]
                        /\ turned[k] \in Edge
  <2> SUFFICES ASSUME NEW k \in 1 .. l
               PROVE  /\ into[k] = [target |-> n, needs |-> into[k].needs]
                      /\ into[k] \in ToSet(edges)
                      /\ turned[k] = [target |-> source, needs |-> into[k].needs]
                      /\ turned[k] \in Edge
    OBVIOUS
  <2>1. into[k] \in ToSet(edges) /\ into[k].target = n /\ into[k] \in Edge
    BY <1>3, <1>5
  <2>2. turned[k] = [into[k] EXCEPT !.target = source]
    BY <1>5
  <2> HIDE DEF turned
  <2> QED BY <2>1, <2>2 DEF Edge
<1>7. turned \in Seq(Edge)
  <2>1. turned \in [1 .. l -> Edge]
    BY <1>5, <1>6
  <2> QED BY <2>1
<1>8. ASSUME NEW m \in Node, NEW needs \in SUBSET Fact
      PROVE  [target |-> m, needs |-> needs] \in ToSet(turned) <=>
               m = source /\ [target |-> n, needs |-> needs] \in ToSet(edges)
  <2>1. DOMAIN turned = 1 .. l
    BY <1>5
  <2>2. ASSUME [target |-> m, needs |-> needs] \in ToSet(turned)
        PROVE  m = source /\ [target |-> n, needs |-> needs] \in ToSet(edges)
    <3>1. PICK k \in 1 .. l : turned[k] = [target |-> m, needs |-> needs]
      BY <2>1, <2>2 DEF ToSet
    <3>2. m = source /\ needs = into[k].needs
      <4>1. [target |-> source, needs |-> into[k].needs] = [target |-> m, needs |-> needs]
        BY <1>6, <3>1
      <4> HIDE DEF into
      <4> QED BY <4>1
    <3> QED BY <1>6, <3>2
  <2>3. ASSUME m = source, [target |-> n, needs |-> needs] \in ToSet(edges)
        PROVE  [target |-> m, needs |-> needs] \in ToSet(turned)
    <3>1. [target |-> n, needs |-> needs] \in ToSet(into)
      BY <1>3, <2>3
    <3>2. PICK k \in 1 .. l : into[k] = [target |-> n, needs |-> needs]
      BY <1>5, <3>1 DEF ToSet
    <3>3. turned[k] = [target |-> m, needs |-> needs]
      BY <1>6, <2>3, <3>2
    <3> HIDE DEF turned
    <3> QED BY <2>1, <3>3 DEF ToSet
  <2> QED BY <2>2, <2>3
<1> QED BY <1>1, <1>7, <1>8

\* The edges that source contributes to a predecessor list.
Added(edges, n, source, successors) == AppendEdges(edges, EdgesInto(n, source, successors[source]))

\* f has the predecessor list of n as far as l sources make it.
Collects(f, n, l, nodes, successors) ==
  /\ f[1 .. 0] = << >>
  /\ \A m \in 0 .. l - 1 : f[1 .. m + 1] = Added(f[1 .. m], n, nodes[m + 1], successors)

(***************************************************************************)
(* A predecessor list grows by the edges of one source after another.      *)
(***************************************************************************)
LEMMA PredecessorSteps ==
  ASSUME NEW successors \in [Node -> Seq(Edge)], NEW nodes \in Seq(Node), NEW n \in Node,
         NEW l \in Nat, l = Len(nodes)
  PROVE  \E f : /\ Collects(f, n, l, nodes, successors)
                /\ Predecessors(nodes, successors)[n] = f[1 .. l]
<1> DEFINE V == Seq(Edge)
           none == << >>
           step == [p \in V \X (1 .. l) |-> Added(p[1], n, nodes[p[2]], successors)]
           Is(f) == f = [s \in SUBSET (1 .. l) |->
                           IF s = {} THEN none
                           ELSE Added(f[s \ {Max(s)}], n, nodes[Max(s)], successors)]
           f == CHOOSE f : Is(f)
<1>1. DOMAIN nodes = 1 .. l /\ \A i \in 1 .. l : nodes[i] \in Node
  OBVIOUS
<1>2. \A v \in V, i \in 1 .. l : Added(v, n, nodes[i], successors) \in V
  BY <1>1, EdgesTurnedRound, AppendEdgesFacts DEF Added
<1>3. Is(f)
  <2>1. step \in [V \X (1 .. l) -> V] /\ none \in V
    BY <1>1, <1>2
  <2>2. \A v \in V, i \in 1 .. l : step[<< v, i >>] = Added(v, n, nodes[i], successors)
    OBVIOUS
  <2> HIDE DEF step, V, none
  <2>3. PICK g \in [SUBSET (1 .. l) -> V] : FoldsBy(g, none, l, step)
    BY <2>1, FoldExists
  <2>4. \A s \in SUBSET (1 .. l) : s # {} => Max(s) \in 1 .. l /\ g[s \ {Max(s)}] \in V
    <3> SUFFICES ASSUME NEW s \in SUBSET (1 .. l), s # {}
                 PROVE  Max(s) \in 1 .. l /\ g[s \ {Max(s)}] \in V
      OBVIOUS
    <3>1. Max(s) \in s
      BY LargestExists
    <3> QED BY <3>1
  <2>5. \A s \in SUBSET (1 .. l) :
          g[s] = IF s = {} THEN none ELSE Added(g[s \ {Max(s)}], n, nodes[Max(s)], successors)
    BY <2>2, <2>3, <2>4 DEF FoldsBy
  <2>6. Is(g)
    BY <2>5
  <2> HIDE DEF Is
  <2> QED BY <2>6
<1>4. Predecessors(nodes, successors)[n] = f[1 .. l]
  BY <1>1 DEF Predecessors, FoldLeft, MapThenFoldSet, Added
<1> HIDE DEF f
<1>5. \A s \in SUBSET (1 .. l) :
        f[s] = IF s = {} THEN none ELSE Added(f[s \ {Max(s)}], n, nodes[Max(s)], successors)
  BY <1>3
<1>6. f[1 .. 0] = none
  <2>1. 1 .. 0 = {} /\ {} \in SUBSET (1 .. l)
    OBVIOUS
  <2> QED BY <1>5, <2>1
<1>7. ASSUME NEW m \in 0 .. l - 1
      PROVE  f[1 .. m + 1] = Added(f[1 .. m], n, nodes[m + 1], successors)
  <2>1. m \in Nat /\ 1 .. m + 1 \in SUBSET (1 .. l) /\ 1 .. m + 1 # {}
    <3>1. m \in Nat /\ m + 1 <= l /\ m + 1 \in 1 .. m + 1
      OBVIOUS
    <3>2. 1 .. m + 1 \subseteq 1 .. l
      BY <3>1
    <3> QED BY <3>1, <3>2
  <2>2. Max(1 .. m + 1) = m + 1 /\ (1 .. m + 1) \ {m + 1} = 1 .. m
    BY <2>1, LargestFirst
  <2> DEFINE s == 1 .. m + 1
  <2> HIDE DEF s
  <2>3. f[s] = Added(f[s \ {Max(s)}], n, nodes[Max(s)], successors)
    BY <1>5, <2>1 DEF s
  <2> QED BY <2>2, <2>3 DEF s
<1>8. Collects(f, n, l, nodes, successors)
  BY <1>6, <1>7 DEF Collects
<1> QED BY <1>4, <1>8

(***************************************************************************)
(* build_node_predecessors lists an edge with its target exactly where the *)
(* successor list of its source has it, and lists it once.                 *)
(***************************************************************************)
THEOREM PredecessorsMirror ==
  ASSUME NEW successors \in [Node -> Seq(Edge)], NEW nodes \in Seq(Node)
  PROVE  /\ Predecessors(nodes, successors) \in [Node -> Seq(Edge)]
         /\ \A n, m \in Node, needs \in SUBSET Fact :
              [target |-> m, needs |-> needs] \in ToSet(Predecessors(nodes, successors)[n]) <=>
                m \in ToSet(nodes) /\ [target |-> n, needs |-> needs] \in ToSet(successors[m])
         /\ \A n \in Node : Distinct(Predecessors(nodes, successors)[n])
<1> DEFINE P == Predecessors(nodes, successors)
<1>1. PICK l \in Nat : l = Len(nodes)
  OBVIOUS
<1>2. DOMAIN nodes = 1 .. l /\ \A i \in 1 .. l : nodes[i] \in Node
  BY <1>1
<1>3. ASSUME NEW n \in Node
      PROVE  /\ P[n] \in Seq(Edge) /\ Distinct(P[n])
             /\ \A m \in Node, needs \in SUBSET Fact :
                  [target |-> m, needs |-> needs] \in ToSet(P[n]) <=>
                    m \in ToSet(nodes) /\ [target |-> n, needs |-> needs] \in ToSet(successors[m])
  <2>0. PICK f : Collects(f, n, l, nodes, successors) /\ P[n] = f[1 .. l]
    BY <1>1, PredecessorSteps, ZenonT(60)
  <2>1. /\ f[1 .. 0] = << >>
        /\ \A m \in 0 .. l - 1 :
             f[1 .. m + 1] = Added(f[1 .. m], n, nodes[m + 1], successors)
    BY <2>0 DEF Collects
  <2> DEFINE Upto(i) == {nodes[j] : j \in 1 .. i}
             Lists(i) == \A m \in Node, needs \in SUBSET Fact :
                           [target |-> m, needs |-> needs] \in ToSet(f[1 .. i]) <=>
                             m \in Upto(i) /\ [target |-> n, needs |-> needs] \in ToSet(successors[m])
             T == {i \in 0 .. l : f[1 .. i] \in Seq(Edge) /\ Distinct(f[1 .. i]) /\ Lists(i)}
  <2>2. 0 \in T
    <3>1. Upto(0) = {} /\ 0 \in 0 .. l
      OBVIOUS
    <3>2. << >> \in Seq(Edge) /\ ToSet(<< >>) = {} /\ Distinct(<< >>)
      BY EmptySet DEF Distinct
    <3> HIDE DEF Upto
    <3> QED BY <2>1, <3>1, <3>2
  <2>3. ASSUME NEW i \in 0 .. l - 1, i \in T PROVE i + 1 \in T
    <3>1. i + 1 \in 0 .. l /\ i + 1 \in 1 .. l /\ nodes[i + 1] \in Node
      BY <1>2
    <3>2. Upto(i + 1) = Upto(i) \union {nodes[i + 1]}
      <4>1. 1 .. i + 1 = 1 .. i \union {i + 1}
        OBVIOUS
      <4> QED BY <4>1
    <3>3. f[1 .. i] \in Seq(Edge) /\ Distinct(f[1 .. i]) /\ Lists(i)
      BY <2>3
    <3> DEFINE source == nodes[i + 1]
               more == EdgesInto(n, source, successors[source])
    <3>4. /\ more \in Seq(Edge)
          /\ \A m \in Node, needs \in SUBSET Fact :
               [target |-> m, needs |-> needs] \in ToSet(more) <=>
                 m = source /\ [target |-> n, needs |-> needs] \in ToSet(successors[source])
      BY <3>1, EdgesTurnedRound
    <3>5. f[1 .. i + 1] = AppendEdges(f[1 .. i], more)
      BY <2>1 DEF Added
    <3> HIDE DEF more
    <3>6. /\ f[1 .. i + 1] \in Seq(Edge) /\ Distinct(f[1 .. i + 1])
          /\ ToSet(f[1 .. i + 1]) = ToSet(f[1 .. i]) \union ToSet(more)
      BY <3>3, <3>4, <3>5, AppendEdgesFacts
    <3> HIDE DEF Upto
    <3>7. Lists(i + 1)
      BY <3>2, <3>3, <3>4, <3>6
    <3> QED BY <3>1, <3>6, <3>7
  <2>4. l \in T
    <3> HIDE DEF T
    <3>1. 0 .. l \subseteq T
      BY <2>2, <2>3, BoundedInduction
    <3> QED BY <3>1
  <2>5. Upto(l) = ToSet(nodes)
    BY <1>2 DEF ToSet
  <2> HIDE DEF Upto
  <2> QED BY <2>0, <2>4, <2>5
<1>4. P \in [Node -> Seq(Edge)]
  <2>1. DOMAIN successors = Node
    OBVIOUS
  <2>2. DOMAIN P = Node /\ P = [n \in Node |-> P[n]]
    BY <2>1 DEF Predecessors
  <2> HIDE DEF P
  <2> QED BY <1>3, <2>2
<1> QED BY <1>3, <1>4

(***************************************************************************)
(* So the lists of such a graph mirror each other.                         *)
(***************************************************************************)
LEMMA MirroredGraph ==
  ASSUME NEW graph \in Graph, NEW nodes \in Seq(Node), ToSet(nodes) = Node,
         graph.predecessors = Predecessors(nodes, graph.successors)
  PROVE  Mirrored(graph)
<1> SUFFICES ASSUME NEW n \in Node, NEW k \in 1 .. Len(graph.successors[n]),
                    NEW e, e = graph.successors[n][k]
             PROVE  \E j \in 1 .. Len(graph.predecessors[e.target]) :
                      graph.predecessors[e.target][j] = [target |-> n, needs |-> e.needs]
  BY DEF Mirrored
<1>1. graph.successors \in [Node -> Seq(Edge)] /\ graph.predecessors \in [Node -> Seq(Edge)]
  BY DEF Graph
<1>2. graph.successors[n] \in Seq(Edge) /\ e \in Edge /\ e \in ToSet(graph.successors[n])
  BY <1>1 DEF ToSet
<1>3. /\ e.target \in Node /\ e.needs \in SUBSET Fact
      /\ e = [target |-> e.target, needs |-> e.needs]
  BY <1>2 DEF Edge
<1>4. [target |-> n, needs |-> e.needs] \in ToSet(graph.predecessors[e.target])
  <2>1. ASSUME NEW t \in Node, NEW needs \in SUBSET Fact
        PROVE  [target |-> n, needs |-> needs] \in ToSet(graph.predecessors[t]) <=>
                 n \in ToSet(nodes) /\ [target |-> t, needs |-> needs] \in ToSet(graph.successors[n])
    BY <1>1, PredecessorsMirror, ZenonT(60)
  <2> QED BY <1>2, <1>3, <2>1
<1>5. graph.predecessors[e.target] \in Seq(Edge)
  BY <1>1, <1>3
<1> QED BY <1>4, <1>5 DEF ToSet

(***************************************************************************)
(* When f2c_bit_flow_solve_backward returns 1, each node's state covers    *)
(* the input of every successor, on every graph whose predecessor lists    *)
(* build_node_predecessors has derived, going through all nodes.           *)
(***************************************************************************)
THEOREM SuccessorsCovered ==
  ASSUME NEW nodes \in Seq(Node), ToSet(nodes) = Node,
         \A given \in Problems :
           given.graph.predecessors = Predecessors(nodes, given.graph.successors)
  PROVE  Spec => []SuccessorsFlowBack
<1>0. \A given \in Problems : Mirrored(given.graph)
  BY ProblemsAssumption, MirroredGraph DEF Problem
<1>1. Init => problem \in Problems
  BY DEF Init
<1>2. problem \in Problems /\ [Next]_vars => (problem \in Problems)'
  BY DEF Next, vars, Fail, AllocationFails, StartForward, StartBackward, TakeNode,
         TransferFails, FilterEdge, MergeEdge, EdgesExhausted, Finish
<1>3. ASSUME problem \in Problems, TypeOK, SolvedAtDone
      PROVE  SuccessorsFlowBack
  <2> SUFFICES ASSUME pc = "done", ~ Forward, NEW n \in Node,
                      NEW k \in 1 .. Len(problem.graph.successors[n]),
                      NEW e, e = problem.graph.successors[n][k],
                      Passes(e, Transfer(e.target, facts[e.target]))
               PROVE  Transfer(e.target, facts[e.target]) \subseteq facts[n]
    BY DEF SuccessorsFlowBack
  <2>1. initialized = Node /\ \A m \in Node : NodeCarried(m, initialized, facts)
    BY <1>3 DEF SolvedAtDone, IsSolution, RespectsBoundary
  <2>2. e.target \in Node
    <3>1. problem.graph.successors[n] \in Seq(Edge)
      BY <1>3 DEF TypeOK, Problem, Graph
    <3>2. e \in Edge
      BY <3>1
    <3> QED BY <3>2 DEF Edge
  <2>3. PICK j \in 1 .. Len(problem.graph.predecessors[e.target]) :
          problem.graph.predecessors[e.target][j] = [target |-> n, needs |-> e.needs]
    BY <1>0, <1>3 DEF Mirrored
  <2>4. EdgesFrom(e.target) = problem.graph.predecessors[e.target]
    BY DEF EdgesFrom
  <2>5. Carried(e.target, [target |-> n, needs |-> e.needs], initialized, facts)
    BY <2>1, <2>2, <2>3, <2>4 DEF NodeCarried
  <2> QED BY <2>5 DEF Carried, Passes
<1> QED BY <1>1, <1>2, <1>3, TypeCorrect, Solved, PTL DEF Spec
=============================================================================

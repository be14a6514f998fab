--------------------------- MODULE AssignedLabels ---------------------------
(***************************************************************************)
(* Assigned statement labels: f2c_validation_assigned_labels of            *)
(* src/semantic/validation/assigned_label.c with the part of               *)
(* f2c_control_flow_build (src/semantic/control_flow.c) it refines.        *)
(*                                                                         *)
(* ASSIGN 30 TO V; GOTO V.  Which labels V may hold at the GOTO depends on *)
(* the control flow, and the control flow depends on the labels, so the    *)
(* analysis solves the reaching labels on the current graph, rebuilds the  *)
(* graph with the branches it found, and repeats until the graph is the    *)
(* same again.  Then a last pass reports what it cannot resolve.           *)
(*                                                                         *)
(* Once the analysis is done the model runs the Fortran program, so that   *)
(* the resolved branches can be compared with the branches taken.          *)
(***************************************************************************)
EXTENDS ControlFlow

CONSTANTS
  Variable,   \* the integer variables labels are assigned to
  MaxLabel,   \* bound: the largest label
  Units       \* the program units that are analysed

\* The statement at position n of a unit has the label n; a larger label is
\* the label of a FORMAT statement.
Label == 1 .. MaxLabel

Kind == {"assign_label", "assigned_goto", "goto", "stop", "write",
         "assignment", "continue"}

\* conditional: the statement is the action of a logical IF.  labels: the
\* label assigned or jumped to, or the allowed labels of an assigned GOTO.
\* write: formatted output with an assigned FORMAT variable; assignment:
\* anything that gives the variable another value.
Statement == [kind : Kind, conditional : BOOLEAN, variable : Variable,
              labels : Seq(Label)]

\* ASSIGN has a label, and the label of a GOTO is that of a statement of the
\* unit, as validate_branch_target has found before.
ASSUME UnitsAssumption ==
  /\ MaxLabel \in Nat
  /\ \A u \in Units :
       /\ u \in Seq(Statement) /\ u # << >>
       /\ \A n \in DOMAIN u :
            /\ u[n].kind \in {"assign_label", "goto"} => u[n].labels # << >>
            /\ u[n].kind = "goto" => u[n].labels[1] \in DOMAIN u

VARIABLES
  unit,         \* the program unit
  graph,        \* its control-flow graph: the successors of each node
  resolved,     \* resolved_branches or resolved_labels of each statement
  known,        \* statements with assigned_labels_resolved
  pc,           \* "analyze", "rebuild", "diagnose" or how it ended: "done",
                \* "unconverged", "failed"
  iteration,
  limit,        \* refinement_limit of the first graph
  diagnostics,  \* what the last pass reports: statement and reason
  at,           \* the running program: the statement it is at
  values        \* what each variable holds, Invalid for no label

vars == << unit, graph, resolved, known, pc, iteration, limit, diagnostics,
           at, values >>

-----------------------------------------------------------------------------
(* The control-flow graph.                                                 *)

Position == 1 .. Len(unit)
ProcedureExit == Len(unit) + 1
ImageTermination == Len(unit) + 2
Node == 1 .. ImageTermination

To(target, kind) == [target |-> target, kind |-> kind]
Branches(labels) == LET here == Keep(labels, Position)
                    IN  [k \in DOMAIN here |-> To(here[k], "branch")]

\* is_unconditional_terminal_transfer
IsTerminalTransfer(s) ==
  ~ s.conditional /\ s.kind \in {"assigned_goto", "goto", "stop"}

Fallthrough(n) ==
  IF IsTerminalTransfer(unit[n]) THEN << >>
  ELSE IF n < Len(unit) THEN << To(n + 1, "fallthrough") >>
  ELSE << To(ProcedureExit, "procedure_exit") >>

\* append_statement_label_edges: once resolved, an assigned GOTO branches to
\* the labels found; before, to its list of allowed labels.
LabelEdges(n, labels, analysed) ==
  CASE unit[n].kind = "goto" -> Branches(unit[n].labels)
    [] unit[n].kind = "assigned_goto" ->
         Branches(IF n \in analysed THEN labels[n] ELSE unit[n].labels)
    [] OTHER -> << >>

Defines(s, v) == s.kind = "assign_label" /\ s.variable = v

\* The labels that statements of a set assign to v, in source order.
AssignedIn(statements, v) ==
  LET assigns == Keep([n \in Position |-> n], {n \in statements : Defines(unit[n], v)})
  IN  [k \in DOMAIN assigns |-> unit[assigns[k]].labels[1]]

\* Mutant: only the labels assigned further up are looked at.
BareEdgesAbove(n, analysed) ==
  IF /\ unit[n].kind = "assigned_goto" /\ unit[n].labels = << >>
     /\ n \notin analysed
  THEN Branches(AssignedIn(1 .. n, unit[n].variable))
  ELSE << >>

\* append_bare_assigned_edges: an assigned GOTO without a list branches to
\* every label assigned to its variable, as long as it is not resolved; an
\* ASSIGN inside a logical IF is not looked at.
BareEdges(n, analysed) ==
  IF /\ unit[n].kind = "assigned_goto" /\ unit[n].labels = << >>
     /\ n \notin analysed
  THEN Branches(AssignedIn({m \in Position : ~ unit[m].conditional}, unit[n].variable))
  ELSE << >>

\* append_explicit_termination_edges, append_implicit_termination_edges
TerminationEdges(n) ==
  CASE unit[n].kind = "stop"  -> << To(ImageTermination, "stop") >>
    [] unit[n].kind = "write" -> << To(ImageTermination, "io_error") >>
    [] OTHER -> << >>

\* f2c_control_flow_build
Build(labels, analysed) ==
  [n \in Node |->
     IF n \in Position
     THEN AppendEdges(<< >>, Fallthrough(n) \o LabelEdges(n, labels, analysed)
                               \o BareEdges(n, analysed) \o TerminationEdges(n))
     ELSE << >>]

EdgeCount(g) == FoldLeft(LAMBDA sum, edges : sum + Len(edges), 0, g)

-----------------------------------------------------------------------------
(* Labels reaching each statement.  A state is a set of facts: Reached,    *)
(* the labels the variable may hold, and Invalid if it may hold none.      *)

Invalid == 0
Reached == MaxLabel + 1
Facts == 0 .. MaxLabel + 1

\* statement_effect and apply_effect
Invalidates(s, v) == s.kind = "assignment" /\ s.variable = v

Gen(s, v) == CASE Defines(s, v)     -> {s.labels[1]}
               [] Invalidates(s, v) -> {Invalid}
               [] OTHER             -> {}

\* Mutant: a conditional effect counts as one that always happens.
TransferUnconditional(s, v, in) ==
  IF Gen(s, v) = {} THEN in ELSE {Reached} \union Gen(s, v)

\* Mutant: earlier definitions are not killed.
TransferKeeps(s, v, in) == in \union Gen(s, v)

Transfer(s, v, in) ==
  IF Gen(s, v) = {} \/ s.conditional THEN in \union Gen(s, v)
                                     ELSE {Reached} \union Gen(s, v)

\* successor_is_feasible: a branch of a GOTO on this variable is taken only
\* if the variable may hold the label there.
Feasible(s, v, edge, out) ==
  s.kind = "assigned_goto" /\ s.variable = v /\ edge.kind = "branch" =>
    edge.target \in out

Entry(v) == [n \in Node |-> IF n = 1 THEN {Reached, Invalid} ELSE {}]

\* What the predecessors of node n send it.
Incoming(states, v, n) ==
  UNION {LET out == Transfer(unit[m], v, states[m])
         IN  IF \E k \in DOMAIN graph[m] : /\ graph[m][k].target = n
                                           /\ Feasible(unit[m], v, graph[m][k], out)
             THEN out ELSE {} : m \in {p \in Position : Reached \in states[p]}}

Spread(v) == [states \in [Node -> SUBSET Facts] |->
                [n \in Node |-> states[n] \union Incoming(states, v, n)]]

\* What a step leads to when it is repeated until it changes nothing.
Closure(step, start) ==
  LET reach[d \in DOMAIN step] == IF step[d] = d THEN d ELSE reach[step[d]]
  IN  reach[start]

\* solve_states: the least solution, which is what f2c_bit_flow_solve finds
\* (theorems Solved and Least of BitFlowProof).
Solve(v) == Closure(Spread(v), Entry(v))

-----------------------------------------------------------------------------
(* The uses of a variable.                                                 *)

IsUse(s) == s.kind \in {"assigned_goto", "write"}

\* build_catalog: the labels assigned to v, each once.
Catalog(v) == FoldLeft(AppendEdge, << >>, AssignedIn(Position, v))

\* branch_target, format_target
BranchTarget(l) == l \in Position
Allowed(s, l) == s.labels = << >> \/ Contains(s.labels, l)
Suits(s, l) == IF s.kind = "write" THEN ~ BranchTarget(l)
                                   ELSE BranchTarget(l) /\ Allowed(s, l)

\* Mutant: labels are resolved though the allowed list does not name them.
ResolveUnlisted(n, states) ==
  Keep(Catalog(unit[n].variable), {l \in states[n] : BranchTarget(l)})

\* resolve_goto, resolve_format: the labels that reach the use and suit it.
Resolve(n, states) ==
  Keep(Catalog(unit[n].variable), {l \in states[n] : Suits(unit[n], l)})

\* What the last pass reports of the use at n.
Complaints(n, states) ==
  {<< n, l >> : l \in {l \in states[n] \ {Reached} :
                         l = Invalid \/ ~ Suits(unit[n], l)}}

-----------------------------------------------------------------------------
Uses == {n \in Position : IsUse(unit[n])}

\* analyze_variables: the graph stays the same while all variables are solved.
Solutions == [v \in Variable |-> Solve(v)]
Resolutions(solutions) ==
  [n \in Position |-> IF n \in Uses THEN Resolve(n, solutions[unit[n].variable])
                                    ELSE << >>]

Init ==
  /\ unit \in Units
  /\ resolved = [n \in Position |-> << >>]
  /\ known = {}
  /\ graph = Build(resolved, known)
  /\ limit = EdgeCount(graph) + 2
  /\ pc = "analyze" /\ iteration = 0 /\ diagnostics = {}
  /\ at = 1 /\ values = [v \in Variable |-> Invalid]

program == << at, values >>

Analyze ==
  /\ pc = "analyze"
  /\ resolved' = Resolutions(Solutions)
  /\ known' = Uses
  /\ pc' = "rebuild"
  /\ UNCHANGED << unit, graph, iteration, limit, diagnostics, program >>

\* Mutant: the number of refinements is not limited.
RebuildUnlimited ==
  LET refined == Build(resolved, known) IN
  /\ pc = "rebuild"
  /\ graph' = refined
  /\ pc' = IF refined = graph THEN "diagnose" ELSE "analyze"
  /\ UNCHANGED << unit, resolved, known, iteration, limit, diagnostics, program >>

\* Mutant: the refined graph does not replace the one analysed.
RebuildKeepsGraph ==
  LET refined == Build(resolved, known) IN
  /\ pc = "rebuild"
  /\ iteration' = IF refined = graph THEN iteration ELSE iteration + 1
  /\ pc' = IF refined = graph THEN "diagnose"
           ELSE IF iteration + 1 > limit THEN "unconverged" ELSE "analyze"
  /\ UNCHANGED << unit, graph, resolved, known, limit, diagnostics, program >>

\* The graph is built again and compared with the one analysed.
Rebuild ==
  LET refined == Build(resolved, known) IN
  /\ pc = "rebuild"
  /\ IF refined = graph
     THEN /\ pc' = "diagnose"
          /\ UNCHANGED << graph, iteration >>
     ELSE /\ graph' = refined
          /\ iteration' = iteration + 1
          /\ pc' = IF iteration + 1 > limit THEN "unconverged" ELSE "analyze"
  /\ UNCHANGED << unit, resolved, known, limit, diagnostics, program >>

\* The last pass resolves once more, and reports.
Diagnose ==
  LET solutions == Solutions IN
  /\ pc = "diagnose"
  /\ resolved' = Resolutions(solutions)
  /\ diagnostics' = UNION {Complaints(n, solutions[unit[n].variable]) : n \in Uses}
  /\ pc' = "done"
  /\ UNCHANGED << unit, graph, known, iteration, limit, program >>

\* Out of memory: the unit is given up, and what had been resolved so far is
\* not looked at again.
Fail ==
  /\ pc \in {"analyze", "rebuild", "diagnose"}
  /\ pc' = "failed"
  /\ UNCHANGED << unit, graph, resolved, known, iteration, limit, diagnostics,
                  program >>

-----------------------------------------------------------------------------
(* The Fortran program, run after the analysis.                            *)

Running == pc = "done" /\ at \in Position
Goes(to) == at' = to /\ UNCHANGED values

\* A GOTO on a variable that holds no label it may jump to is not executed:
\* the Fortran standard gives it no meaning.
Runs(s) ==
  CASE s.kind = "assign_label" ->
         values' = [values EXCEPT ![s.variable] = s.labels[1]] /\ at' = at + 1
    [] s.kind = "assignment" ->
         values' = [values EXCEPT ![s.variable] = Invalid] /\ at' = at + 1
    [] s.kind = "goto" -> Goes(s.labels[1])
    [] s.kind = "assigned_goto" ->
         LET l == values[s.variable] IN
         BranchTarget(l) /\ Allowed(s, l) /\ Goes(l)
    [] s.kind = "stop"  -> Goes(ImageTermination)
    [] s.kind = "write" -> Goes(at + 1) \/ Goes(ImageTermination)
    [] OTHER -> Goes(at + 1)

Run ==
  /\ Running
  /\ \/ Runs(unit[at])
     \/ unit[at].conditional /\ Goes(at + 1)
  /\ UNCHANGED << unit, graph, resolved, known, pc, iteration, limit, diagnostics >>

Next == Analyze \/ Rebuild \/ Diagnose \/ Fail \/ Run

Spec == Init /\ [][Next]_vars /\ WF_vars(Analyze \/ Rebuild \/ Diagnose)

-----------------------------------------------------------------------------
(***************************************************************************)
(* What the analysis promises.                                             *)
(***************************************************************************)

(***************************************************************************)
(* Every variable stays in its domain; an edge leads to a node, and only   *)
(* uses of a variable are ever resolved, to labels that suit them.         *)
(***************************************************************************)
TypeOK ==
  /\ unit \in Units
  /\ DOMAIN graph = Node
  /\ \A n \in Node : \A k \in DOMAIN graph[n] : graph[n][k].target \in Node
  /\ \A n \in Position : \A k \in DOMAIN resolved[n] :
       IsUse(unit[n]) /\ Suits(unit[n], resolved[n][k])
  /\ known \subseteq Position
  /\ pc \in {"analyze", "rebuild", "diagnose", "done", "unconverged", "failed"}
  /\ iteration \in 0 .. limit + 1
  /\ diagnostics \subseteq Position \X (Label \union {Invalid})
  /\ at \in Node /\ values \in [Variable -> Label \union {Invalid}]

(***************************************************************************)
(* Whenever the running program comes to a GOTO or an output statement on  *)
(* a variable, the label the variable holds is among those resolved, or    *)
(* the analysis has reported it: no branch of the program is missing from  *)
(* the code generated, though the graph was cut down by a closed circle of *)
(* feasibility assumptions about several variables.                        *)
(***************************************************************************)
ExecutionCovered ==
  Running /\ IsUse(unit[at]) =>
    LET value == values[unit[at].variable] IN
    Contains(resolved[at], value) \/ << at, value >> \in diagnostics

\* Statements that assign label l to v, and those that may leave v alone.
Origins(v, l) == {m \in Position : Defines(unit[m], v) /\ unit[m].labels[1] = l}
Keepers(v) == {m \in Position : unit[m].conditional \/ Gen(unit[m], v) = {}}

\* Where control may go next, and where it may get without losing v.
Targets(nodes) == UNION {{graph[m][j].target : j \in DOMAIN graph[m]} : m \in nodes}
Onward(v) == [from \in SUBSET Node |->
                from \union Targets(from \intersect Keepers(v))]
Reachable(v, start) == Closure(Onward(v), start)

(***************************************************************************)
(* A label resolved at a use comes from somewhere: some assignment of that *)
(* label leads to the use through statements that may keep the variable.   *)
(***************************************************************************)
ResolvedIsAssigned ==
  pc = "done" =>
    \A n \in Uses : \A k \in DOMAIN resolved[n] :
      LET held == unit[n].variable IN
      n \in Reachable(held, Targets(Origins(held, resolved[n][k])))

\* No label is assigned inside a logical IF.
AssignsAtTopLevel ==
  \A n \in Position : unit[n].kind = "assign_label" => ~ unit[n].conditional

(***************************************************************************)
(* When labels are only assigned at top level a refinement only removes    *)
(* edges, so that it closes in on the graph of the program.                *)
(***************************************************************************)
RefinementRemovesEdges ==
  [][AssignsAtTopLevel =>
       \A n \in Node : ToSet(graph'[n]) \subseteq ToSet(graph[n])]_vars

(***************************************************************************)
(* When labels are only assigned at top level the refinement converges     *)
(* before its limit.                                                       *)
(***************************************************************************)
TopLevelConverges == AssignsAtTopLevel => pc # "unconverged"

(***************************************************************************)
(* The refinement converges: "assigned statement-label control-flow        *)
(* refinement did not converge" (assigned_label.c:810) is the report of an *)
(* internal error.                                                         *)
(***************************************************************************)
Converges == pc # "unconverged"

(***************************************************************************)
(* The analysis comes to an end on every unit, converging or not.          *)
(***************************************************************************)
AnalysisEnds == <>(pc \in {"done", "unconverged", "failed"})
=============================================================================

---------------------------- MODULE ModuleOrder ----------------------------
(***************************************************************************)
(* The order in which the modules of a project are analysed:               *)
(* f2c_build_module_analysis_order of src/frontend/module/dependency.c     *)
(* collects which module USEs which, orders the modules by repeatedly      *)
(* taking one without an unplaced provider, and reports a cycle when there *)
(* is none; apply_module_analysis_order of src/frontend/pipeline.c then    *)
(* permutes the project's modules.  Modules are numbered from 0 as in C.   *)
(* With no module the C code returns at once: there is at least one here.  *)
(***************************************************************************)
EXTENDS Integers, Sequences, FiniteSets

CONSTANTS
  ModuleCount,  \* context->modules.count
  Name,         \* names of modules, of the project or not
  Projects      \* the projects to order

Module == 0 .. ModuleCount - 1

\* What parsing a source line as a USE statement gives.
Line == [status    : {"not_matched", "no_memory", "invalid", "parsed"},
         intrinsic : BOOLEAN,
         name      : Name]

\* The names of the modules and the lines between their first and last.
Project == [names : [Module -> Name], lines : [Module -> Seq(Line)]]

\* consumer uses provider.
Dependency == [provider : Module, consumer : Module]

ASSUME ModuleCountAssumption == ModuleCount \in Nat \ {0}
ASSUME ProjectsAssumption == Projects \subseteq Project

VARIABLES
  project,       \* the project being ordered
  pc,            \* "collect", "select", "edges", "apply" or how it ended:
                 \* "done", "cyclic", "unordered", "failed"
  consumer,      \* the module whose lines are read
  line,          \* index of the next of its lines
  seen,          \* seen[p] = c + 1 when c is known to use p
  dependencies,  \* the dependencies recorded, in order
  indegree,      \* providers a module still waits for, or Placed
  result,        \* the modules placed, in order
  edge,          \* index of the next dependency to release
  reported,      \* the dependencies the cycle diagnostic names, at most one
  modules        \* context->modules, by original number

vars == << project, pc, consumer, line, seen, dependencies, indegree, result,
           edge, reported, modules >>

collecting == << consumer, line, seen, dependencies >>

-----------------------------------------------------------------------------
\* indegree of a placed module, SIZE_MAX in C.
Placed == -1

\* find_project_module: the first module of that name, if any.
IsModuleNamed(m, name) ==
  /\ project.names[m] = name
  /\ \A other \in 0 .. m - 1 : project.names[other] # name

\* Does the line make the module it stands in use project module p?
Uses(statement, p) ==
  /\ statement.status = "parsed"
  /\ ~ statement.intrinsic
  /\ IsModuleNamed(p, statement.name)

\* Mutant: the stamp of a consumer is its number, 0 for the first one.
StampUnshifted(c) == c

\* The mark collect_dependencies leaves in seen[] for consumer c.
Stamp(c) == c + 1

Init ==
  /\ project \in Projects
  /\ pc = "collect"
  /\ consumer = 0 /\ line = 1
  /\ seen = [m \in Module |-> 0]
  /\ dependencies = << >>
  /\ indegree = [m \in Module |-> 0]
  /\ result = << >>
  /\ edge = 1
  /\ reported = {}
  /\ modules = [k \in 1 .. ModuleCount |-> k - 1]

Fail ==
  /\ pc' = "failed"
  /\ UNCHANGED << project, consumer, line, seen, dependencies, indegree, result,
                  edge, reported, modules >>

AllocationFails == pc = "collect" /\ consumer = 0 /\ line = 1 /\ Fail

-----------------------------------------------------------------------------
(* collect_dependencies.                                                   *)

Reading == pc = "collect" /\ consumer < ModuleCount

ThisLine == project.lines[consumer][line]

\* Mutant: USE, INTRINSIC is taken for an ordinary USE.
NewProviderOfAnyNature(p) ==
  /\ Uses([ThisLine EXCEPT !.intrinsic = FALSE], p)
  /\ seen[p] # Stamp(consumer)

\* The provider of a line, when it names one not yet seen.
NewProvider(p) == Uses(ThisLine, p) /\ seen[p] # Stamp(consumer)

SkipLine ==
  /\ Reading /\ line <= Len(project.lines[consumer])
  /\ ThisLine.status # "no_memory"
  /\ \A p \in Module : ~ NewProvider(p)
  /\ line' = line + 1
  /\ UNCHANGED << project, pc, consumer, seen, dependencies, indegree, result,
                  edge, reported, modules >>

RecordDependency ==
  /\ Reading /\ line <= Len(project.lines[consumer])
  /\ \E p \in Module :
       /\ NewProvider(p)
       /\ seen' = [seen EXCEPT ![p] = Stamp(consumer)]
       /\ dependencies' =
            Append(dependencies, [provider |-> p, consumer |-> consumer])
  /\ indegree' = [indegree EXCEPT ![consumer] = @ + 1]
  /\ line' = line + 1
  /\ UNCHANGED << project, pc, consumer, result, edge, reported, modules >>

\* Parsing the line, or growing the array of dependencies, runs out of memory.
LineFails ==
  /\ Reading /\ line <= Len(project.lines[consumer])
  /\ \/ ThisLine.status = "no_memory"
     \/ \E p \in Module : NewProvider(p)
  /\ Fail

NextConsumer ==
  /\ Reading /\ line > Len(project.lines[consumer])
  /\ consumer' = consumer + 1
  /\ line' = 1
  /\ UNCHANGED << project, pc, seen, dependencies, indegree, result, edge,
                  reported, modules >>

Collected ==
  /\ pc = "collect" /\ consumer = ModuleCount
  /\ pc' = "select"
  /\ UNCHANGED << project, collecting, indegree, result, edge, reported, modules >>

-----------------------------------------------------------------------------
(* The ordering loop.                                                      *)

\* Mutant: the last module without an unplaced provider is selected.
SelectableLast(m) ==
  /\ indegree[m] = 0
  /\ \A other \in m + 1 .. ModuleCount - 1 : indegree[other] # 0

\* The first module that waits for no provider.
Selectable(m) ==
  /\ indegree[m] = 0
  /\ \A other \in 0 .. m - 1 : indegree[other] # 0

Select ==
  /\ pc = "select" /\ Len(result) < ModuleCount
  /\ \E m \in Module :
       /\ Selectable(m)
       /\ result' = Append(result, m)
       /\ indegree' = [indegree EXCEPT ![m] = Placed]
  /\ edge' = 1
  /\ pc' = "edges"
  /\ UNCHANGED << project, collecting, reported, modules >>

Selected == result[Len(result)]

\* Mutant: the dependencies of the first module read are passed over.
StuckAfterFirst(k) ==
  /\ k > 1
  /\ indegree[dependencies[k].provider] # Placed
  /\ indegree[dependencies[k].consumer] # Placed

\* Neither end of dependency k is placed.
Stuck(k) ==
  /\ indegree[dependencies[k].provider] # Placed
  /\ indegree[dependencies[k].consumer] # Placed

NoneSelectable ==
  /\ pc = "select" /\ Len(result) < ModuleCount
  /\ \A m \in Module : indegree[m] # 0

\* find_cycle_edge returns the first stuck dependency.  Without one the
\* diagnostic is "unable to order project module analysis".
DiagnoseCycle ==
  LET first == {k \in DOMAIN dependencies :
                  Stuck(k) /\ \A earlier \in 1 .. k - 1 : ~ Stuck(earlier)} IN
  /\ NoneSelectable
  /\ reported' = {dependencies[k] : k \in first}
  /\ pc' = IF first = {} THEN "unordered" ELSE "cyclic"
  /\ UNCHANGED << project, collecting, indegree, result, edge, modules >>

\* Mutant: a dependency is released whatever its two ends are.
ReleasesAlways(dependency) == TRUE

\* Mutant: every dependency is released, whichever module was selected.
ReleasesUnchecked(dependency) == indegree[dependency.consumer] # Placed

\* Does placing the selected module release the dependency's consumer?
Releases(dependency) ==
  /\ dependency.provider = Selected
  /\ indegree[dependency.consumer] # Placed

ReleaseEdge ==
  /\ pc = "edges" /\ edge <= Len(dependencies)
  /\ indegree' =
       IF Releases(dependencies[edge])
       THEN [indegree EXCEPT ![dependencies[edge].consumer] = @ - 1]
       ELSE indegree
  /\ edge' = edge + 1
  /\ UNCHANGED << project, pc, collecting, result, reported, modules >>

Released ==
  /\ pc = "edges" /\ edge > Len(dependencies)
  /\ pc' = "select"
  /\ UNCHANGED << project, collecting, indegree, result, edge, reported, modules >>

Ordered ==
  /\ pc = "select" /\ Len(result) = ModuleCount
  /\ pc' = "apply"
  /\ UNCHANGED << project, collecting, indegree, result, edge, reported, modules >>

\* apply_module_analysis_order
Apply ==
  /\ pc = "apply"
  /\ modules' = [k \in 1 .. ModuleCount |-> modules[result[k] + 1]]
  /\ pc' = "done"
  /\ UNCHANGED << project, collecting, indegree, result, edge, reported >>

ApplyFails == pc = "apply" /\ Fail

Next == \/ AllocationFails
        \/ SkipLine \/ RecordDependency \/ LineFails \/ NextConsumer \/ Collected
        \/ Select \/ ReleaseEdge \/ Released
        \/ DiagnoseCycle
        \/ Ordered \/ Apply \/ ApplyFails

Spec == Init /\ [][Next]_vars

-----------------------------------------------------------------------------
(***************************************************************************)
(* What the ordering promises.                                             *)
(***************************************************************************)

\* Module c uses project module p in the first n of its lines.
UsesIn(c, p, n) ==
  \E k \in 1 .. n : k <= Len(project.lines[c]) /\ Uses(project.lines[c][k], p)

DependsOn(c, p) == \E k \in 1 .. Len(project.lines[c]) : Uses(project.lines[c][k], p)

\* Every module of the set uses a module of the set: there is a cycle in it.
Trapped(set) == \A c \in set : \E p \in set : DependsOn(c, p)

Cyclic == \E set \in SUBSET Module : set # {} /\ Trapped(set)

\* Every variable stays in its domain; no indegree falls below Placed.
TypeOK ==
  /\ project \in Project
  /\ pc \in {"collect", "select", "edges", "apply", "done", "cyclic",
             "unordered", "failed"}
  /\ consumer \in 0 .. ModuleCount
  /\ line \in Nat \ {0}
  /\ seen \in [Module -> 0 .. ModuleCount]
  /\ dependencies \in Seq(Dependency)
  /\ indegree \in [Module -> Nat \union {Placed}]
  /\ result \in Seq(Module)
  /\ edge \in Nat \ {0}
  /\ reported \in SUBSET Dependency
  /\ modules \in [1 .. ModuleCount -> Module]

\* Dependency k has not been released yet.
Outstanding(k) ==
  \/ indegree[dependencies[k].provider] # Placed
  \/ pc = "edges" /\ dependencies[k].provider = Selected /\ k >= edge

\* The dependencies module m waits for.
Waiting(m) == {k \in DOMAIN dependencies :
                 dependencies[k].consumer = m /\ Outstanding(k)}

(***************************************************************************)
(* The indegree of a module that is not placed is the number of its        *)
(* outstanding dependencies, in every state between two steps of the       *)
(* release loop too: an indegree that ran ahead of the dependency list     *)
(* would place a module before its provider, one that lagged behind would  *)
(* report a cycle that is not there.                                       *)
(***************************************************************************)
IndegreeCounts ==
  \A m \in Module : indegree[m] # Placed => indegree[m] = Cardinality(Waiting(m))

(***************************************************************************)
(* When ordering succeeds, the project's modules have been permuted so     *)
(* that each comes after every module it uses, whatever the order of the   *)
(* source files: a module's analysis finds its providers analysed.         *)
(***************************************************************************)
ProvidersFirst ==
  pc = "done" =>
    /\ \A m \in Module : \E k \in 1 .. ModuleCount : modules[k] = m
    /\ \A j, k \in 1 .. ModuleCount :
         modules[j] = modules[k] => j = k
    /\ \A j, k \in 1 .. ModuleCount :
         DependsOn(modules[k], modules[j]) => j < k

(***************************************************************************)
(* A cycle is diagnosed only in a project that has one, and a project that *)
(* has one is never ordered.                                               *)
(***************************************************************************)
CycleDiagnosedIffCyclic ==
  /\ pc = "cyclic" => Cyclic
  /\ pc = "done" => ~ Cyclic

(***************************************************************************)
(* "unable to order project module analysis", the internal error, cannot   *)
(* happen: where no module is selectable, some dependency has neither end  *)
(* placed.                                                                 *)
(***************************************************************************)
NeverUnordered == pc # "unordered"

\* Could module m have been placed at k?
Eligible(m, k) ==
  /\ \A j \in 1 .. k - 1 : result[j] # m
  /\ \A p \in Module : DependsOn(m, p) => \E j \in 1 .. k - 1 : result[j] = p

(***************************************************************************)
(* The ordering is stable (CHANGELOG.md:497): each place goes to the first *)
(* module in source order that could have had it.                          *)
(***************************************************************************)
StableOrder ==
  \A k \in DOMAIN result : \A m \in Module : Eligible(m, k) => result[k] <= m

\* Following uses from p leads to c: every set that holds p and the modules
\* its members use holds c.
LeadsTo(p, c) ==
  \A set \in SUBSET Module :
    /\ p \in set
    /\ \A m \in set : \A q \in Module : DependsOn(m, q) => q \in set
    => c \in set

(***************************************************************************)
(* The cycle diagnostic says "cyclic project module dependency: module     *)
(* '%s' USEs module '%s'" (dependency.c:150): the dependency it names is   *)
(* part of a cycle.                                                        *)
(***************************************************************************)
NamedDependencyIsCyclic ==
  \A d \in reported : LeadsTo(d.provider, d.consumer)
=============================================================================

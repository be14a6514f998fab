-------------------------- MODULE ModuleOrderProof --------------------------
(***************************************************************************)
(* Proofs about the analysis order of modules, for every number of         *)
(* modules, every set of names and every project: type correctness, the    *)
(* meaning of indegree, the order itself, and when a cycle is diagnosed.   *)
(***************************************************************************)
EXTENDS ModuleOrder, FiniteSetTheorems, FunctionTheorems, TLAPS

-----------------------------------------------------------------------------
(* Type correctness.                                                       *)

\* What each phase knows about the one before.
Phase ==
  /\ pc = "collect" => result = << >> /\ \A m \in Module : indegree[m] # Placed
  /\ pc \in {"select", "edges", "apply", "done", "cyclic", "unordered"} =>
       consumer = ModuleCount
  /\ pc = "edges" => result # << >>
  /\ pc \in {"apply", "done"} => Len(result) = ModuleCount
  /\ pc \notin {"done", "failed"} => modules = [k \in 1 .. ModuleCount |-> k - 1]
  /\ pc = "done" => modules = [k \in 1 .. ModuleCount |-> result[k]]

(***************************************************************************)
(* The line read next stands in a module of the project.                   *)
(***************************************************************************)
LEMMA ReadingType ==
  ASSUME TypeOK, Reading
  PROVE  consumer \in Module
BY ModuleCountAssumption DEF TypeOK, Reading, Module

(***************************************************************************)
(* What is recorded of a dependency.                                       *)
(***************************************************************************)
LEMMA DependencyType ==
  ASSUME TypeOK, NEW k \in DOMAIN dependencies
  PROVE  /\ dependencies[k] \in Dependency
         /\ dependencies[k].provider \in Module
         /\ dependencies[k].consumer \in Module
<1>1. dependencies \in Seq(Dependency)
  BY DEF TypeOK
<1>2. dependencies[k] \in Dependency
  BY <1>1
<1> QED BY <1>2 DEF Dependency

(***************************************************************************)
(* The array of dependencies grows by one dependency.                      *)
(***************************************************************************)
LEMMA RecordType ==
  ASSUME TypeOK, NEW p \in Module, NEW c \in Module
  PROVE  Append(dependencies, [provider |-> p, consumer |-> c]) \in Seq(Dependency)
<1>1. dependencies \in Seq(Dependency)
  BY DEF TypeOK
<1>2. [provider |-> p, consumer |-> c] \in Dependency
  BY DEF Dependency
<1> QED BY <1>1, <1>2

(***************************************************************************)
(* A module already placed is one less than every other indegree.          *)
(***************************************************************************)
LEMMA IndegreeValues ==
  /\ Placed \notin Nat
  /\ \A n \in Nat : n + 1 \in Nat /\ n - 1 \in Nat \union {Placed}
BY DEF Placed

(***************************************************************************)
(* Every variable stays in its domain and the phases follow each other.    *)
(***************************************************************************)
LEMMA TypeStep == TypeOK /\ Phase /\ [Next]_vars => TypeOK' /\ Phase'
<1> SUFFICES ASSUME TypeOK, Phase, [Next]_vars PROVE TypeOK' /\ Phase'
  OBVIOUS
<1> USE ModuleCountAssumption DEF TypeOK, Phase
<1>1. CASE Fail
  BY <1>1 DEF Fail
<1>2. CASE AllocationFails \/ LineFails \/ ApplyFails
  <2>1. Fail
    BY <1>2 DEF AllocationFails, LineFails, ApplyFails
  <2> QED BY <1>1, <2>1
<1>3. CASE SkipLine
  BY <1>3 DEF SkipLine, Reading
<1>4. CASE RecordDependency
  <2>1. consumer \in Module
    BY <1>4, ReadingType DEF RecordDependency
  <2>2. PICK p \in Module :
          /\ seen' = [seen EXCEPT ![p] = Stamp(consumer)]
          /\ dependencies' = Append(dependencies, [provider |-> p, consumer |-> consumer])
    BY <1>4 DEF RecordDependency
  <2>3. Stamp(consumer) \in 0 .. ModuleCount
    BY <2>1 DEF Stamp, Module
  <2>4. indegree[consumer] \in Nat
    BY <1>4, <2>1 DEF RecordDependency, Reading
  <2>5. indegree' = [indegree EXCEPT ![consumer] = indegree[consumer] + 1]
    BY <1>4 DEF RecordDependency
  <2>6. indegree[consumer] + 1 \in Nat /\ indegree[consumer] + 1 # Placed
    BY <2>4, IndegreeValues
  <2>7. /\ indegree' \in [Module -> Nat \union {Placed}]
        /\ \A m \in Module : indegree'[m] # Placed
    BY <1>4, <2>1, <2>5, <2>6, SMTT(60) DEF RecordDependency, Reading
  <2>8. /\ pc = "collect"
        /\ UNCHANGED << project, pc, consumer, result, edge, reported, modules >>
        /\ line' = line + 1
    BY <1>4 DEF RecordDependency, Reading
  <2>9. seen' \in [Module -> 0 .. ModuleCount]
    BY <2>2, <2>3
  <2>10. dependencies' \in Seq(Dependency)
    BY <2>1, <2>2, RecordType
  <2> QED BY <2>7, <2>8, <2>9, <2>10, SMTT(60)
<1>5. CASE NextConsumer
  BY <1>5 DEF NextConsumer, Reading
<1>6. CASE Collected
  BY <1>6 DEF Collected, collecting
<1>7. CASE Select
  <2>1. PICK m \in Module :
          /\ result' = Append(result, m)
          /\ indegree' = [indegree EXCEPT ![m] = Placed]
    BY <1>7 DEF Select
  <2>2. result' \in Seq(Module) /\ Len(result') = Len(result) + 1 /\ Len(result) \in Nat
    BY <2>1
  <2>3. result' # << >>
    BY <2>2
  <2>4. indegree' \in [Module -> Nat \union {Placed}]
    BY <2>1
  <2>5. /\ pc = "select" /\ pc' = "edges" /\ edge' = 1
        /\ UNCHANGED << project, consumer, line, seen, dependencies, reported, modules >>
    BY <1>7 DEF Select, collecting
  <2> QED BY <2>2, <2>3, <2>4, <2>5
<1>8. CASE ReleaseEdge
  <2>1. edge \in DOMAIN dependencies
    BY <1>8 DEF ReleaseEdge
  <2>2. dependencies[edge].consumer \in Module
    BY <2>1, DependencyType
  <2>3. indegree' \in [Module -> Nat \union {Placed}]
    <3>1. CASE Releases(dependencies[edge])
      <4>1. indegree[dependencies[edge].consumer] \in Nat
        BY <2>2, <3>1 DEF Releases
      <4>2. indegree[dependencies[edge].consumer] - 1 \in Nat \union {Placed}
        BY <4>1, IndegreeValues
      <4>3. indegree' = [indegree EXCEPT ![dependencies[edge].consumer] =
                           indegree[dependencies[edge].consumer] - 1]
        BY <1>8, <3>1 DEF ReleaseEdge
      <4> QED BY <4>2, <4>3
    <3>2. CASE ~ Releases(dependencies[edge])
      BY <1>8, <3>2 DEF ReleaseEdge
    <3> QED BY <3>1, <3>2
  <2>4. /\ pc = "edges" /\ pc' = pc /\ edge' = edge + 1
        /\ UNCHANGED << project, consumer, line, seen, dependencies, result, reported,
                       modules >>
    BY <1>8 DEF ReleaseEdge, collecting
  <2> QED BY <2>3, <2>4
<1>9. CASE Released
  BY <1>9 DEF Released, collecting
<1>10. CASE DiagnoseCycle
  <2>1. reported' \in SUBSET Dependency
    BY <1>10, DependencyType DEF DiagnoseCycle
  <2>2. pc' \in {"unordered", "cyclic"} /\ pc = "select"
    BY <1>10 DEF DiagnoseCycle, NoneSelectable
  <2>3. UNCHANGED << project, consumer, line, seen, dependencies, indegree, result,
                     edge, modules >>
    BY <1>10 DEF DiagnoseCycle, collecting
  <2> QED BY <2>1, <2>2, <2>3
<1>11. CASE Ordered
  BY <1>11 DEF Ordered, collecting
<1>12. CASE Apply
  <2>1. modules' = [k \in 1 .. ModuleCount |-> result[k]]
    <3>1. \A k \in 1 .. ModuleCount : result[k] \in 0 .. ModuleCount - 1
      BY <1>12 DEF Apply, Module
    <3>2. \A k \in 1 .. ModuleCount : modules[result[k] + 1] = result[k]
      BY <1>12, <3>1, SMTT(60) DEF Apply
    <3> QED BY <1>12, <3>2 DEF Apply
  <2>2. modules' \in [1 .. ModuleCount -> Module]
    BY <1>12, <2>1 DEF Apply
  <2> QED BY <1>12, <2>1, <2>2 DEF Apply, collecting
<1>13. CASE UNCHANGED vars
  BY <1>13 DEF vars
<1> QED BY <1>2, <1>3, <1>4, <1>5, <1>6, <1>7, <1>8, <1>9, <1>10, <1>11, <1>12,
           <1>13 DEF Next

\* The initial state has the types and the phase of the collection.
LEMMA TypeInit == Init => TypeOK /\ Phase
<1> SUFFICES ASSUME Init PROVE TypeOK /\ Phase
  OBVIOUS
<1>1. project \in Project
  BY ProjectsAssumption DEF Init
<1>2. modules \in [1 .. ModuleCount -> Module]
  BY ModuleCountAssumption DEF Init, Module
<1> QED BY <1>1, <1>2, ModuleCountAssumption DEF Init, TypeOK, Phase, Placed


-----------------------------------------------------------------------------
(* Collecting the dependencies.                                            *)

\* The uses read so far.
Read(c, p) == \/ c < consumer /\ DependsOn(c, p)
              \/ c = consumer /\ UsesIn(c, p, line - 1)

\* The dependencies recorded are the uses read so far, and seen[] tells
\* those of the module being read from the rest.
CollectInv ==
  /\ \A p \in Module : seen[p] <= Stamp(consumer)
  /\ \A p \in Module : consumer < ModuleCount =>
       (seen[p] = Stamp(consumer) <=> UsesIn(consumer, p, line - 1))
  /\ \A c, p \in Module :
       Read(c, p) <=> \E k \in DOMAIN dependencies :
                        dependencies[k].provider = p /\ dependencies[k].consumer = c

(***************************************************************************)
(* Reading one more line of a module adds the uses of that line.           *)
(***************************************************************************)
LEMMA UsesInStep ==
  ASSUME TypeOK, NEW c \in Module, NEW p, NEW n \in Nat \ {0}
  PROVE  UsesIn(c, p, n) <=> \/ UsesIn(c, p, n - 1)
                             \/ n <= Len(project.lines[c]) /\ Uses(project.lines[c][n], p)
<1>1. \A k : k \in 1 .. n <=> (k \in 1 .. n - 1 \/ k = n)
  OBVIOUS
<1> QED BY <1>1 DEF UsesIn

(***************************************************************************)
(* When all its lines are read, the uses of a module are known.            *)
(***************************************************************************)
LEMMA UsesInAll ==
  ASSUME TypeOK, NEW c \in Module, NEW p, NEW n \in Nat, n >= Len(project.lines[c])
  PROVE  UsesIn(c, p, n) <=> DependsOn(c, p)
<1>1. Len(project.lines[c]) \in Nat
  BY DEF TypeOK, Project
<1>2. \A k : k \in 1 .. n /\ k <= Len(project.lines[c]) <=>
              k \in 1 .. Len(project.lines[c])
  BY <1>1
<1> QED BY <1>2 DEF UsesIn, DependsOn

(***************************************************************************)
(* A line names at most one module of the project.                         *)
(***************************************************************************)
LEMMA OneProvider ==
  ASSUME NEW statement, NEW p \in Module, NEW q \in Module,
         Uses(statement, p), Uses(statement, q)
  PROVE  p = q
<1>1. p \in 0 .. q - 1 \/ q \in 0 .. p - 1 \/ p = q
  BY ModuleCountAssumption DEF Module
<1> QED BY <1>1 DEF Uses, IsModuleNamed

(***************************************************************************)
(* The uses in a project depend on the project alone.                      *)
(***************************************************************************)
LEMMA UsesFixed ==
  ASSUME project' = project, NEW c, NEW p, NEW n
  PROVE  /\ UsesIn(c, p, n)' <=> UsesIn(c, p, n)
         /\ DependsOn(c, p)' <=> DependsOn(c, p)
BY DEF UsesIn, DependsOn, Uses, IsModuleNamed

(***************************************************************************)
(* Whatever keeps the lines read keeps what is known of them.              *)
(***************************************************************************)
LEMMA CollectFrame ==
  ASSUME CollectInv, UNCHANGED << project, collecting >>
  PROVE  CollectInv'
BY UsesFixed DEF CollectInv, collecting, Read, Stamp

\* Every step keeps the dependency list equal to the lines read so far.
LEMMA CollectStep == TypeOK /\ Phase /\ CollectInv /\ [Next]_vars => CollectInv'
<1> SUFFICES ASSUME TypeOK, Phase, CollectInv, [Next]_vars PROVE CollectInv'
  OBVIOUS
<1> USE ModuleCountAssumption
<1>1. CASE SkipLine
  <2>1. consumer \in Module /\ line \in Nat \ {0}
    BY <1>1, ReadingType DEF SkipLine, TypeOK
  <2>2. \A p \in Module : Uses(ThisLine, p) => seen[p] = Stamp(consumer)
    BY <1>1 DEF SkipLine, NewProvider
  <2>3. \A p \in Module : UsesIn(consumer, p, line) <=> UsesIn(consumer, p, line - 1)
    BY <1>1, <2>1, <2>2, UsesInStep DEF SkipLine, CollectInv, ThisLine, Reading
  <2>4. UNCHANGED << project, consumer, seen, dependencies >> /\ line' - 1 = line
    BY <1>1, <2>1 DEF SkipLine
  <2> QED BY <2>1, <2>3, <2>4, UsesFixed DEF CollectInv, Read, Stamp
<1>2. CASE RecordDependency
  <2>1. consumer \in Module /\ line \in Nat \ {0} /\ consumer < ModuleCount
    BY <1>2, ReadingType DEF RecordDependency, TypeOK, Reading
  <2>2. PICK p \in Module :
          /\ NewProvider(p)
          /\ seen' = [seen EXCEPT ![p] = Stamp(consumer)]
          /\ dependencies' = Append(dependencies, [provider |-> p, consumer |-> consumer])
    BY <1>2 DEF RecordDependency
  <2>3. \A q \in Module : Uses(ThisLine, q) <=> q = p
    BY <2>2, OneProvider DEF NewProvider
  <2>4. \A q \in Module :
          UsesIn(consumer, q, line) <=> UsesIn(consumer, q, line - 1) \/ q = p
    BY <1>2, <2>1, <2>3, UsesInStep DEF RecordDependency, ThisLine
  <2>5. UNCHANGED << project, consumer >> /\ line' - 1 = line
    BY <1>2, <2>1 DEF RecordDependency
  <2>6. \A q \in Module : seen'[q] = IF q = p THEN Stamp(consumer) ELSE seen[q]
    BY <2>2 DEF TypeOK
  <2>7. \A c, q \in Module : Read(c, q)' <=> Read(c, q) \/ (c = consumer /\ q = p)
    BY <2>1, <2>4, <2>5, UsesFixed DEF Read, Module
  <2>8. \A c, q :
          (\E k \in DOMAIN dependencies' :
             dependencies'[k].provider = q /\ dependencies'[k].consumer = c)
          <=> \/ \E k \in DOMAIN dependencies :
                   dependencies[k].provider = q /\ dependencies[k].consumer = c
              \/ q = p /\ c = consumer
    <3> DEFINE d == [provider |-> p, consumer |-> consumer]
    <3>1. dependencies \in Seq(Dependency) /\ d.provider = p /\ d.consumer = consumer
      BY DEF TypeOK
    <3>2. /\ Len(dependencies) \in Nat
          /\ DOMAIN dependencies = 1 .. Len(dependencies)
          /\ DOMAIN dependencies' = 1 .. Len(dependencies) + 1
          /\ dependencies'[Len(dependencies) + 1] = d
          /\ \A k \in 1 .. Len(dependencies) : dependencies'[k] = dependencies[k]
      BY <2>2, <3>1
    <3>3. \A k : k \in 1 .. Len(dependencies) + 1 <=>
                k \in 1 .. Len(dependencies) \/ k = Len(dependencies) + 1
      BY <3>2
    <3> QED BY <3>1, <3>2, <3>3
  <2>9. \A c, q \in Module :
          Read(c, q)' <=> \E k \in DOMAIN dependencies' :
                            dependencies'[k].provider = q /\ dependencies'[k].consumer = c
    BY <2>7, <2>8 DEF CollectInv
  <2>10. \A q \in Module :
           /\ seen'[q] <= Stamp(consumer)
           /\ seen'[q] = Stamp(consumer) <=> UsesIn(consumer, q, line)
    BY <2>1, <2>4, <2>6 DEF CollectInv, Stamp, Module
  <2> QED BY <2>5, <2>9, <2>10, UsesFixed DEF CollectInv, Stamp
<1>3. CASE NextConsumer
  <2>1. consumer \in Module /\ line - 1 \in Nat
    BY <1>3, ReadingType DEF NextConsumer, TypeOK
  <2>2. Len(project.lines[consumer]) \in Nat
    BY <2>1 DEF TypeOK, Project
  <2>3. line - 1 >= Len(project.lines[consumer])
    BY <1>3, <2>2 DEF NextConsumer, TypeOK
  <2>4. \A p : UsesIn(consumer, p, line - 1) <=> DependsOn(consumer, p)
    BY <2>1, <2>3, UsesInAll
  <2>5. /\ UNCHANGED << project, seen, dependencies >>
        /\ consumer' = consumer + 1 /\ line' - 1 = 0
    BY <1>3 DEF NextConsumer
  <2>6. \A c, p : ~ UsesIn(c, p, 0)
    BY DEF UsesIn
  <2>7. \A c, p \in Module : Read(c, p)' <=> Read(c, p)
    BY <2>1, <2>4, <2>5, <2>6, UsesFixed DEF Read, Module
  <2>8. \A p \in Module : seen[p] \in Nat /\ seen[p] < Stamp(consumer + 1)
    BY <2>1 DEF CollectInv, TypeOK, Stamp, Module
  <2>9. \A p \in Module : seen[p] <= Stamp(consumer + 1) /\ seen[p] # Stamp(consumer + 1)
    BY <2>1, <2>8 DEF Stamp, Module
  <2> QED BY <2>5, <2>6, <2>7, <2>9, UsesFixed DEF CollectInv, Stamp
<1>4. CASE UNCHANGED << project, collecting >>
  BY <1>4, CollectFrame
<1>5. CASE Fail
  BY <1>4, <1>5 DEF Fail, collecting
<1> QED BY <1>1, <1>2, <1>3, <1>4, <1>5
        DEF Next, vars, collecting, AllocationFails, LineFails, Collected, Select,
            ReleaseEdge, Released, DiagnoseCycle, Ordered, Apply, ApplyFails

\* Before the first line nothing has been read and nothing recorded.
LEMMA CollectInit == Init => CollectInv
<1> SUFFICES ASSUME Init PROVE CollectInv
  OBVIOUS
<1>1. \A c, p : ~ UsesIn(c, p, 0)
  BY DEF UsesIn
<1>2. \A c \in Module : ~ (c < 0)
  BY ModuleCountAssumption DEF Module
<1> QED BY <1>1, <1>2, ModuleCountAssumption DEF Init, CollectInv, Read, Stamp
-----------------------------------------------------------------------------
(* Indegrees and places.                                                   *)

\* The marked modules are those in the result, each once.
PlacedInv ==
  /\ \A m \in Module : indegree[m] = Placed <=> \E k \in DOMAIN result : result[k] = m
  /\ \A j, k \in DOMAIN result : result[j] = result[k] => j = k

(***************************************************************************)
(* A module waits for finitely many dependencies.                          *)
(***************************************************************************)
LEMMA WaitingFinite ==
  ASSUME TypeOK, NEW m
  PROVE  /\ IsFiniteSet(Waiting(m))
         /\ Cardinality(Waiting(m)) \in Nat
         /\ Cardinality(Waiting(m)) = 0 <=> Waiting(m) = {}
<1>1. DOMAIN dependencies = 1 .. Len(dependencies) /\ Len(dependencies) \in Nat
  BY DEF TypeOK
<1>2. IsFiniteSet(DOMAIN dependencies)
  BY <1>1, FS_Interval
<1>3. IsFiniteSet(Waiting(m))
  BY <1>2, FS_Subset DEF Waiting
<1> QED BY <1>3, FS_CardinalityType, FS_EmptySet

(***************************************************************************)
(* A module of indegree zero has all its providers placed.                 *)
(***************************************************************************)
LEMMA ZeroIsReady ==
  ASSUME TypeOK, Phase, CollectInv, IndegreeCounts, pc = "select",
         NEW m \in Module, indegree[m] = 0, NEW p \in Module, DependsOn(m, p)
  PROVE  indegree[p] = Placed
<1>1. Waiting(m) = {}
  BY WaitingFinite DEF IndegreeCounts, Placed
<1>2. Read(m, p)
  BY ModuleCountAssumption DEF Phase, Read, Module
<1>3. PICK k \in DOMAIN dependencies :
        dependencies[k].provider = p /\ dependencies[k].consumer = m
  BY <1>2 DEF CollectInv
<1> QED BY <1>1, <1>3 DEF Waiting, Outstanding

(***************************************************************************)
(* A module that cannot be selected waits for one that is not placed.      *)
(***************************************************************************)
LEMMA NonzeroWaits ==
  ASSUME TypeOK, Phase, CollectInv, IndegreeCounts, pc = "select",
         NEW m \in Module, indegree[m] # 0, indegree[m] # Placed
  PROVE  \E k \in DOMAIN dependencies :
           /\ dependencies[k].consumer = m
           /\ indegree[dependencies[k].provider] # Placed
           /\ DependsOn(m, dependencies[k].provider)
<1>1. Waiting(m) # {}
  BY WaitingFinite DEF IndegreeCounts
<1>2. PICK k \in DOMAIN dependencies : dependencies[k].consumer = m /\ Outstanding(k)
  BY <1>1 DEF Waiting
<1>3. dependencies[k].provider \in Module
  BY DependencyType
<1>4. Read(m, dependencies[k].provider)
  BY <1>2, <1>3 DEF CollectInv
<1>5. DependsOn(m, dependencies[k].provider)
  BY <1>4, ModuleCountAssumption DEF Read, Phase, Module
<1> QED BY <1>2, <1>5 DEF Outstanding

(***************************************************************************)
(* Outside the release loop, what a module waits for is kept by whatever   *)
(* keeps the dependencies and the indegrees.                               *)
(***************************************************************************)
LEMMA WaitingFrame ==
  ASSUME UNCHANGED << dependencies, indegree, result, edge >>,
         pc' = pc \/ (pc # "edges" /\ pc' # "edges"),
         NEW m
  PROVE  Waiting(m)' = Waiting(m)
BY DEF Waiting, Outstanding, Selected

(***************************************************************************)
(* Placing a module releases nothing yet.                                  *)
(***************************************************************************)
LEMMA WaitingSelect ==
  ASSUME TypeOK, Phase, PlacedInv, Select, NEW m
  PROVE  Waiting(m)' = Waiting(m)
<1>1. PICK s \in Module :
        /\ Selectable(s)
        /\ result' = Append(result, s)
        /\ indegree' = [indegree EXCEPT ![s] = Placed]
  BY DEF Select
<1>2. Selected' = s
  BY <1>1 DEF Selected, TypeOK
<1>3. indegree[s] # Placed
  BY <1>1 DEF Selectable, Placed
<1>4. /\ dependencies' = dependencies /\ edge' = 1
      /\ pc = "select" /\ pc' = "edges"
  BY DEF Select, collecting
<1>5. ASSUME NEW k \in DOMAIN dependencies
      PROVE  Outstanding(k)' <=> Outstanding(k)
  <2>1. dependencies[k].provider \in Module /\ k >= 1
    BY DependencyType DEF TypeOK
  <2> QED BY <1>1, <1>2, <1>3, <1>4, <2>1 DEF Outstanding, TypeOK
<1> QED BY <1>4, <1>5 DEF Waiting

(***************************************************************************)
(* Releasing a dependency places no module: its consumer still counted it. *)
(***************************************************************************)
LEMMA ReleaseKeepsPlaced ==
  ASSUME TypeOK, IndegreeCounts, ReleaseEdge, NEW n \in Module
  PROVE  indegree'[n] = Placed <=> indegree[n] = Placed
<1> DEFINE d == dependencies[edge]
<1>1. edge \in DOMAIN dependencies /\ pc = "edges"
  BY DEF ReleaseEdge, TypeOK
<1>2. d.consumer \in Module
  BY <1>1, DependencyType
<1>3. CASE Releases(d)
  <2>1. Outstanding(edge)
    BY <1>1, <1>3 DEF Outstanding, Releases, TypeOK
  <2>2. edge \in Waiting(d.consumer)
    BY <1>1, <2>1 DEF Waiting
  <2>3. indegree[d.consumer] \in Nat \ {0} /\ indegree[d.consumer] # Placed
    BY <1>2, <1>3, <2>2, WaitingFinite DEF IndegreeCounts, Releases
  <2>4. indegree[d.consumer] - 1 # Placed
    BY <2>3 DEF Placed
  <2>5. indegree' = [indegree EXCEPT ![d.consumer] = indegree[d.consumer] - 1]
    BY <1>3 DEF ReleaseEdge
  <2> QED BY <2>3, <2>4, <2>5 DEF TypeOK
<1>4. CASE ~ Releases(d)
  BY <1>4 DEF ReleaseEdge
<1> QED BY <1>3, <1>4

(***************************************************************************)
(* One step of the release loop: only a dependency on the selected module  *)
(* stops being waited for.                                                 *)
(***************************************************************************)
LEMMA WaitingRelease ==
  ASSUME TypeOK, Phase, PlacedInv, IndegreeCounts, ReleaseEdge, NEW m \in Module,
         indegree[m] # Placed
  PROVE  /\ indegree'[m] \in Nat
         /\ indegree'[m] = Cardinality(Waiting(m)')
<1> DEFINE d == dependencies[edge]
<1>1. /\ edge \in DOMAIN dependencies /\ edge \in Nat
      /\ pc = "edges" /\ pc' = "edges"
      /\ UNCHANGED << dependencies, result >> /\ edge' = edge + 1
  BY DEF ReleaseEdge, TypeOK, collecting
<1>2. d.provider \in Module /\ d.consumer \in Module
  BY <1>1, DependencyType
<1>3. Len(result) \in DOMAIN result /\ Selected \in Module
  BY <1>1 DEF Phase, Selected, TypeOK
<1>4. indegree[Selected] = Placed
  BY <1>3 DEF PlacedInv, Selected
<1>5. Selected' = Selected
  BY <1>1 DEF Selected
<1>6. CASE Releases(d) /\ d.consumer = m
  <2>1. Outstanding(edge)
    BY <1>1, <1>6 DEF Outstanding, Releases
  <2>2. edge \in Waiting(m)
    BY <1>1, <1>6, <2>1 DEF Waiting
  <2>3. Cardinality(Waiting(m)) \in Nat \ {0}
    BY <2>2, WaitingFinite
  <2>4. indegree[m] = Cardinality(Waiting(m))
    BY DEF IndegreeCounts
  <2>5. indegree' = [indegree EXCEPT ![m] = indegree[m] - 1]
    BY <1>6 DEF ReleaseEdge
  <2>6. indegree'[m] = indegree[m] - 1 /\ \A n \in Module \ {m} : indegree'[n] = indegree[n]
    BY <2>5 DEF TypeOK
  <2>7. indegree'[m] \in Nat /\ indegree'[m] # Placed
    BY <2>3, <2>4, <2>6 DEF Placed
  <2>8. ASSUME NEW k \in DOMAIN dependencies
        PROVE  Outstanding(k)' <=> Outstanding(k) /\ k # edge
    <3>1. dependencies[k].provider \in Module /\ k \in Nat
      BY DependencyType DEF TypeOK
    <3>2. indegree'[dependencies[k].provider] = Placed
            <=> indegree[dependencies[k].provider] = Placed
      BY <2>6, <2>7, <3>1
    <3>3. k >= edge + 1 <=> k >= edge /\ k # edge
      BY <1>1, <3>1
    <3>4. d.provider = Selected
      BY <1>6 DEF Releases
    <3> QED BY <1>1, <1>4, <1>5, <3>2, <3>3, <3>4 DEF Outstanding
  <2>9. Waiting(m)' = Waiting(m) \ {edge}
    BY <1>1, <2>8 DEF Waiting
  <2>10. Cardinality(Waiting(m) \ {edge}) = Cardinality(Waiting(m)) - 1
    BY <2>2, WaitingFinite, FS_RemoveElement
  <2> QED BY <2>4, <2>6, <2>7, <2>9, <2>10
<1>7. CASE ~ (Releases(d) /\ d.consumer = m)
  <2>1. indegree'[m] = indegree[m]
    BY <1>2, <1>7 DEF ReleaseEdge, TypeOK
  <2>2. ASSUME NEW k \in DOMAIN dependencies, dependencies[k].consumer = m
        PROVE  Outstanding(k)' <=> Outstanding(k)
    <3>1. dependencies[k].provider \in Module /\ k \in Nat
      BY DependencyType DEF TypeOK
    <3>2. dependencies[k].provider = Selected => k # edge
      BY <1>7, <2>2 DEF Releases
    <3>3. dependencies[k].provider = Selected => (k >= edge + 1 <=> k >= edge)
      BY <1>1, <3>1, <3>2
    <3>4. indegree'[dependencies[k].provider] = Placed
            <=> indegree[dependencies[k].provider] = Placed
      BY <3>1, ReleaseKeepsPlaced
    <3> QED BY <1>1, <1>5, <3>3, <3>4 DEF Outstanding
  <2>3. Waiting(m)' = Waiting(m)
    BY <1>1, <2>2 DEF Waiting
  <2>4. indegree[m] \in Nat
    BY DEF TypeOK
  <2> QED BY <2>1, <2>3, <2>4 DEF IndegreeCounts
<1> QED BY <1>6, <1>7
(***************************************************************************)
(* Recording a dependency makes its consumer, and no other module, wait    *)
(* for one more.                                                           *)
(***************************************************************************)
LEMMA WaitingRecord ==
  ASSUME TypeOK, Phase, IndegreeCounts, RecordDependency, NEW m \in Module
  PROVE  indegree'[m] = Cardinality(Waiting(m)')
<1>0. PICK new \in Nat : new = Len(dependencies) + 1
  BY DEF TypeOK
<1>1. consumer \in Module /\ pc = "collect" /\ pc' = "collect"
  BY ReadingType DEF RecordDependency, Reading
<1>2. PICK p \in Module :
        dependencies' = Append(dependencies, [provider |-> p, consumer |-> consumer])
  BY DEF RecordDependency
<1>3. dependencies \in Seq(Dependency)
  BY DEF TypeOK
<1>4. /\ Len(dependencies) \in Nat
      /\ DOMAIN dependencies = 1 .. Len(dependencies)
      /\ DOMAIN dependencies' = 1 .. new
      /\ dependencies'[new] = [provider |-> p, consumer |-> consumer]
      /\ \A k \in 1 .. Len(dependencies) : dependencies'[k] = dependencies[k]
  BY <1>0, <1>2, <1>3
<1>5. /\ indegree' = [indegree EXCEPT ![consumer] = indegree[consumer] + 1]
      /\ \A n \in Module : indegree[n] \in Nat /\ indegree[n] # Placed
  BY <1>1 DEF RecordDependency, Phase, TypeOK
<1>6. \A n \in Module : indegree'[n] # Placed
  BY <1>1, <1>5, IndegreeValues DEF TypeOK
<1>7. \A k \in 1 .. Len(dependencies) : Outstanding(k) /\ Outstanding(k)'
  <2> SUFFICES ASSUME NEW k \in 1 .. Len(dependencies)
               PROVE  Outstanding(k) /\ Outstanding(k)'
    OBVIOUS
  <2>1. dependencies[k].provider \in Module
    BY <1>4, DependencyType
  <2> QED BY <1>4, <1>5, <1>6, <2>1 DEF Outstanding
<1>8. Outstanding(new)'
  <2>1. dependencies'[new].provider \in Module
    BY <1>4
  <2> QED BY <1>6, <2>1 DEF Outstanding
<1>9. \A k : k \in 1 .. new <=> (k \in 1 .. Len(dependencies) \/ k = new)
  BY <1>0, <1>4
<1>10. new \notin Waiting(consumer)
  BY <1>0, <1>4 DEF Waiting
<1>11. CASE m = consumer
  <2>1. Waiting(m)' = Waiting(m) \union {new}
    BY <1>4, <1>7, <1>8, <1>9, <1>11 DEF Waiting
  <2>2. Cardinality(Waiting(m) \union {new}) = Cardinality(Waiting(m)) + 1
    BY <1>10, <1>11, WaitingFinite, FS_AddElement
  <2>3. indegree'[m] = indegree[m] + 1
    BY <1>5, <1>11 DEF TypeOK
  <2> QED BY <1>5, <2>1, <2>2, <2>3 DEF IndegreeCounts
<1>12. CASE m # consumer
  <2>1. Waiting(m)' = Waiting(m)
    BY <1>4, <1>7, <1>9, <1>12 DEF Waiting
  <2>2. indegree'[m] = indegree[m]
    BY <1>5, <1>12 DEF TypeOK
  <2> QED BY <1>5, <2>1, <2>2 DEF IndegreeCounts
<1> QED BY <1>11, <1>12

\* Every step keeps an indegree equal to the number of outstanding dependencies.
LEMMA CountsStep ==
  TypeOK /\ Phase /\ PlacedInv /\ IndegreeCounts /\ [Next]_vars => IndegreeCounts'
<1> SUFFICES ASSUME TypeOK, Phase, PlacedInv, IndegreeCounts, [Next]_vars,
                    NEW m \in Module, indegree'[m] # Placed
             PROVE  indegree'[m] = Cardinality(Waiting(m)')
  BY DEF IndegreeCounts, Module, Placed
<1>1. CASE RecordDependency
  BY <1>1, WaitingRecord
<1>2. CASE Select
  <2>1. PICK s \in Module : indegree' = [indegree EXCEPT ![s] = Placed]
    BY <1>2 DEF Select
  <2>2. indegree'[m] = indegree[m] /\ indegree[m] # Placed
    BY <2>1 DEF TypeOK
  <2> QED BY <1>2, <2>2, WaitingSelect DEF IndegreeCounts
<1>3. CASE ReleaseEdge
  BY <1>3, ReleaseKeepsPlaced, WaitingRelease
<1>4. CASE Released
  <2>1. \A k \in DOMAIN dependencies : ~ (k >= edge)
    BY <1>4 DEF Released, TypeOK
  <2>2. Waiting(m)' = Waiting(m)
    BY <1>4, <2>1 DEF Released, Waiting, Outstanding, collecting
  <2> QED BY <1>4, <2>2 DEF Released, IndegreeCounts
<1>5. CASE /\ UNCHANGED << dependencies, indegree, result, edge >>
           /\ pc' = pc \/ (pc # "edges" /\ pc' # "edges")
  <2>1. Waiting(m)' = Waiting(m)
    BY <1>5, WaitingFrame
  <2> QED BY <1>5, <2>1 DEF IndegreeCounts
<1>6. CASE AllocationFails \/ LineFails \/ ApplyFails
  BY <1>5, <1>6 DEF AllocationFails, LineFails, ApplyFails, Fail, Reading
<1>7. CASE SkipLine \/ NextConsumer \/ Collected
  BY <1>5, <1>7 DEF SkipLine, NextConsumer, Collected, collecting
<1>8. CASE DiagnoseCycle \/ Ordered \/ Apply
  BY <1>5, <1>8 DEF DiagnoseCycle, NoneSelectable, Ordered, Apply, collecting
<1>9. CASE UNCHANGED vars
  BY <1>5, <1>9 DEF vars
<1> QED BY <1>1, <1>2, <1>3, <1>4, <1>6, <1>7, <1>8, <1>9 DEF Next

(***************************************************************************)
(* Appending a module to the result leaves the places before it alone.     *)
(***************************************************************************)
LEMMA ResultGrows ==
  ASSUME TypeOK, NEW s \in Module, result' = Append(result, s)
  PROVE  /\ Len(result) \in Nat
         /\ DOMAIN result = 1 .. Len(result)
         /\ DOMAIN result' = 1 .. Len(result) + 1
         /\ result'[Len(result) + 1] = s
         /\ \A k \in 1 .. Len(result) : result'[k] = result[k]
         /\ \A k : k \in 1 .. Len(result) + 1 <=>
                   (k \in 1 .. Len(result) \/ k = Len(result) + 1)
<1>1. result \in Seq(Module)
  BY DEF TypeOK
<1>2. Len(result) \in Nat
  BY <1>1
<1>3. \A k : k \in 1 .. Len(result) + 1 <=>
           (k \in 1 .. Len(result) \/ k = Len(result) + 1)
  BY <1>2
<1> QED BY <1>1, <1>2, <1>3

\* Every step keeps the marked modules and the result in agreement.
LEMMA PlacedStep ==
  TypeOK /\ Phase /\ PlacedInv /\ IndegreeCounts /\ [Next]_vars => PlacedInv'
<1> SUFFICES ASSUME TypeOK, Phase, PlacedInv, IndegreeCounts, [Next]_vars
             PROVE  PlacedInv'
  OBVIOUS
<1>1. CASE RecordDependency
  <2>1. consumer \in Module /\ pc = "collect" /\ result' = result /\ result = << >>
    BY <1>1, ReadingType DEF RecordDependency, Reading, Phase
  <2>2. \A m \in Module : indegree[m] \in Nat
    BY <2>1 DEF Phase, TypeOK
  <2>3. indegree' = [indegree EXCEPT ![consumer] = indegree[consumer] + 1]
    BY <1>1 DEF RecordDependency
  <2>4. \A m \in Module : indegree'[m] # Placed
    BY <2>1, <2>2, <2>3, IndegreeValues DEF TypeOK
  <2> QED BY <2>1, <2>4 DEF PlacedInv
<1>2. CASE Select
  <2>1. PICK s \in Module :
          /\ Selectable(s)
          /\ result' = Append(result, s)
          /\ indegree' = [indegree EXCEPT ![s] = Placed]
    BY <1>2 DEF Select
  <2>2. indegree[s] # Placed
    BY <2>1 DEF Selectable, Placed
  <2>3. \A k \in DOMAIN result : result[k] # s
    BY <2>2 DEF PlacedInv
  <2>4. \A m \in Module : indegree'[m] = IF m = s THEN Placed ELSE indegree[m]
    BY <2>1 DEF TypeOK
  <2>5. \A m \in Module :
          indegree'[m] = Placed <=> \E k \in DOMAIN result' : result'[k] = m
    BY <2>1, <2>4, ResultGrows DEF PlacedInv
  <2>6. \A j, k \in DOMAIN result' : result'[j] = result'[k] => j = k
    BY <2>1, <2>3, ResultGrows DEF PlacedInv
  <2> QED BY <2>5, <2>6 DEF PlacedInv
<1>3. CASE ReleaseEdge
  BY <1>3, ReleaseKeepsPlaced DEF ReleaseEdge, PlacedInv
<1>4. CASE UNCHANGED << indegree, result >>
  BY <1>4 DEF PlacedInv
<1>5. CASE Fail
  BY <1>4, <1>5 DEF Fail
<1> QED BY <1>1, <1>2, <1>3, <1>4, <1>5
        DEF Next, vars, AllocationFails, LineFails, ApplyFails, SkipLine, NextConsumer,
            Collected, Released, DiagnoseCycle, Ordered, Apply
-----------------------------------------------------------------------------
(* The order.                                                              *)

\* Every placed module comes after the modules it uses.
PrefixInv ==
  \A k \in DOMAIN result : \A p \in Module :
    DependsOn(result[k], p) => \E j \in 1 .. k - 1 : result[j] = p

\* No module of a cycle is ever placed.
TrapInv ==
  \A set \in SUBSET Module : Trapped(set) => \A m \in set : indegree[m] # Placed

\* How the ordering may end.
OutcomeInv == (pc = "cyclic" => Cyclic) /\ pc # "unordered"

(***************************************************************************)
(* What the step that places a module knows.                               *)
(***************************************************************************)
LEMMA SelectFacts ==
  ASSUME TypeOK, Phase, CollectInv, PlacedInv, IndegreeCounts, Select
  PROVE  \E s \in Module :
           /\ Selectable(s)
           /\ result' = Append(result, s)
           /\ indegree' = [indegree EXCEPT ![s] = Placed]
           /\ project' = project /\ pc = "select"
           /\ \A p \in Module : DependsOn(s, p) =>
                indegree[p] = Placed /\ \E j \in DOMAIN result : result[j] = p
<1>1. PICK s \in Module :
        /\ Selectable(s)
        /\ result' = Append(result, s)
        /\ indegree' = [indegree EXCEPT ![s] = Placed]
  BY DEF Select
<1>2. pc = "select" /\ project' = project
  BY DEF Select
<1>3. indegree[s] = 0
  BY <1>1 DEF Selectable
<1>4. \A p \in Module : DependsOn(s, p) => indegree[p] = Placed
  BY <1>2, <1>3, ZeroIsReady
<1> QED BY <1>1, <1>2, <1>4 DEF PlacedInv

\* Every step keeps providers before consumers in the result.
LEMMA PrefixStep ==
  ASSUME TypeOK, Phase, CollectInv, PlacedInv, IndegreeCounts, PrefixInv, [Next]_vars
  PROVE  PrefixInv'
<1>1. CASE Select
  <2>1. PICK s \in Module :
          /\ result' = Append(result, s) /\ project' = project
          /\ \A p \in Module : DependsOn(s, p) => \E j \in DOMAIN result : result[j] = p
    BY <1>1, SelectFacts
  <2> SUFFICES ASSUME NEW k \in DOMAIN result', NEW p \in Module, DependsOn(result'[k], p)
               PROVE  \E j \in 1 .. k - 1 : result'[j] = p
    BY <2>1, UsesFixed DEF PrefixInv, Module
  <2>2. CASE k \in DOMAIN result
    <3>1. result'[k] = result[k]
      BY <2>1, <2>2, ResultGrows
    <3>2. PICK j \in 1 .. k - 1 : result[j] = p
      BY <2>2, <3>1 DEF PrefixInv
    <3>3. j \in 1 .. Len(result)
      BY <2>1, <2>2, ResultGrows
    <3> QED BY <2>1, <3>2, <3>3, ResultGrows
  <2>3. CASE k \notin DOMAIN result
    <3>1. k = Len(result) + 1 /\ result'[k] = s
      BY <2>1, <2>3, ResultGrows
    <3>2. PICK j \in DOMAIN result : result[j] = p
      BY <2>1, <3>1
    <3>3. j \in 1 .. k - 1 /\ result'[j] = p
      BY <2>1, <3>1, <3>2, ResultGrows
    <3> QED BY <3>3
  <2> QED BY <2>2, <2>3
<1>2. CASE UNCHANGED << project, result >>
  BY <1>2, UsesFixed DEF PrefixInv
<1>3. CASE Fail
  BY <1>2, <1>3 DEF Fail
<1> QED BY <1>1, <1>2, <1>3
        DEF Next, vars, AllocationFails, LineFails, ApplyFails, SkipLine, NextConsumer,
            Collected, Released, DiagnoseCycle, Ordered, Apply, RecordDependency,
            ReleaseEdge

\* No step places a module that a cycle keeps waiting.
LEMMA TrapStep ==
  ASSUME TypeOK, Phase, CollectInv, PlacedInv, IndegreeCounts, TrapInv, [Next]_vars,
         PlacedInv'
  PROVE  TrapInv'
<1> SUFFICES ASSUME NEW set \in SUBSET Module, Trapped(set)', NEW m \in set
             PROVE  indegree'[m] # Placed
  BY DEF TrapInv, Module, Placed
<1>1. project' = project
  BY DEF Next, vars, Fail, AllocationFails, LineFails, ApplyFails, SkipLine, NextConsumer,
         Collected, Select, Released, DiagnoseCycle, Ordered, Apply, RecordDependency,
         ReleaseEdge
<1>2. Trapped(set)
  BY <1>1, UsesFixed DEF Trapped
<1>3. \A n \in set : indegree[n] # Placed
  BY <1>2 DEF TrapInv
<1>4. CASE Select
  <2>1. PICK s \in Module :
          /\ indegree' = [indegree EXCEPT ![s] = Placed]
          /\ \A p \in Module : DependsOn(s, p) => indegree[p] = Placed
    BY <1>4, SelectFacts
  <2>2. s \notin set
    BY <1>2, <1>3, <2>1 DEF Trapped
  <2> QED BY <1>3, <2>1, <2>2 DEF TypeOK
<1>5. CASE result' = result
  BY <1>3, <1>5 DEF PlacedInv
<1>6. CASE Fail
  BY <1>5, <1>6 DEF Fail
<1> QED BY <1>4, <1>5, <1>6
        DEF Next, vars, AllocationFails, LineFails, ApplyFails, SkipLine, NextConsumer,
            Collected, Released, DiagnoseCycle, Ordered, Apply, RecordDependency,
            ReleaseEdge

(***************************************************************************)
(* While places are left, some module is not placed.                       *)
(***************************************************************************)
LEMMA SomeUnplaced ==
  ASSUME TypeOK, PlacedInv, Len(result) < ModuleCount
  PROVE  \E m \in Module : indegree[m] # Placed
<1> SUFFICES ASSUME \A m \in Module : indegree[m] = Placed PROVE FALSE
  OBVIOUS
<1>1. result \in [1 .. Len(result) -> Module] /\ Len(result) \in Nat
  BY DEF TypeOK
<1>2. \A m \in Module : \E k \in 1 .. Len(result) : result[k] = m
  BY <1>1 DEF PlacedInv
<1>3. result \in Surjection(1 .. Len(result), Module)
  BY <1>1, <1>2 DEF Surjection
<1>4. /\ IsFiniteSet(1 .. Len(result))
      /\ Cardinality(1 .. Len(result)) = Len(result)
  <2>1. 1 \in Int /\ Len(result) \in Int
    BY <1>1
  <2>2. /\ IsFiniteSet(1 .. Len(result))
        /\ Cardinality(1 .. Len(result)) =
             IF 1 > Len(result) THEN 0 ELSE Len(result) - 1 + 1
    BY <2>1, FS_Interval
  <2> QED BY <1>1, <2>2
<1>5. Cardinality(Module) <= Len(result)
  BY <1>3, <1>4, FS_Surjection
<1>6. Cardinality(Module) = ModuleCount
  BY ModuleCountAssumption, FS_Interval DEF Module
<1> QED BY <1>1, <1>5, <1>6, ModuleCountAssumption

(***************************************************************************)
(* When no place is left, every module is placed.                          *)
(***************************************************************************)
LEMMA AllPlaced ==
  ASSUME TypeOK, PlacedInv, Len(result) = ModuleCount, NEW m \in Module
  PROVE  \E k \in 1 .. ModuleCount : result[k] = m
<1>1. result \in [1 .. ModuleCount -> Module] /\ DOMAIN result = 1 .. ModuleCount
  BY DEF TypeOK
<1>2. result \in Injection(1 .. ModuleCount, Module)
  BY <1>1 DEF PlacedInv, Injection, IsInjective
<1>3. /\ IsFiniteSet(Module)
      /\ Cardinality(Module) = ModuleCount
      /\ Cardinality(1 .. ModuleCount) = ModuleCount
  BY ModuleCountAssumption, FS_Interval DEF Module
<1>4. result \in Surjection(1 .. ModuleCount, Module)
  BY <1>2, <1>3, FS_Injection
<1> QED BY <1>4 DEF Surjection

\* Every step keeps the outcome and its diagnostic in agreement.
LEMMA OutcomeStep ==
  ASSUME TypeOK, Phase, CollectInv, PlacedInv, IndegreeCounts, OutcomeInv, [Next]_vars
  PROVE  OutcomeInv'
<1>1. CASE DiagnoseCycle
  <2> DEFINE unplaced == {m \in Module : indegree[m] # Placed}
  <2>1. /\ pc = "select" /\ Len(result) < ModuleCount
        /\ \A m \in Module : indegree[m] # 0
        /\ project' = project
    BY <1>1 DEF DiagnoseCycle, NoneSelectable
  <2>2. \A m \in unplaced : \E k \in DOMAIN dependencies :
          /\ dependencies[k].consumer = m
          /\ indegree[dependencies[k].provider] # Placed
          /\ DependsOn(m, dependencies[k].provider)
    BY <2>1, NonzeroWaits
  <2>3. unplaced # {}
    BY <2>1, SomeUnplaced
  <2>4. Trapped(unplaced)
    BY <2>2, DependencyType DEF Trapped
  <2>5. Cyclic
    BY <2>3, <2>4 DEF Cyclic
  <2>6. Cyclic'
    BY <2>1, <2>5, UsesFixed DEF Cyclic, Trapped, Module
  <2>7. PICK k \in DOMAIN dependencies : Stuck(k)
    BY <2>2, <2>3 DEF Stuck
  <2>8. \E first \in DOMAIN dependencies :
          Stuck(first) /\ \A earlier \in 1 .. first - 1 : ~ Stuck(earlier)
    <3> DEFINE stuck == {i \in DOMAIN dependencies : Stuck(i)}
    <3>1. DOMAIN dependencies = 1 .. Len(dependencies) /\ Len(dependencies) \in Nat
      BY DEF TypeOK
    <3>2. stuck \in SUBSET Nat /\ stuck # {}
      BY <2>7, <3>1
    <3>3. PICK first \in stuck : \A i \in stuck : << i, first >> \notin OpToRel(<, Nat)
      BY <3>2, NatLessThanWellFounded, WFMin
    <3>4. \A i \in stuck : ~ (i < first)
      BY <3>2, <3>3 DEF OpToRel
    <3>5. \A i \in 1 .. first - 1 : i \in DOMAIN dependencies /\ i < first
      BY <3>1, <3>2
    <3> QED BY <3>4, <3>5
  <2>9. pc' = "cyclic"
    BY <1>1, <2>8 DEF DiagnoseCycle
  <2> QED BY <2>6, <2>9 DEF OutcomeInv
<1>2. CASE pc' \notin {"cyclic", "unordered"}
  BY <1>2 DEF OutcomeInv
<1>3. CASE UNCHANGED << project, pc >>
  BY <1>3, UsesFixed DEF OutcomeInv, Cyclic, Trapped, Module
<1>4. CASE Fail
  BY <1>2, <1>4 DEF Fail
<1> QED BY <1>1, <1>2, <1>3, <1>4
        DEF Next, vars, AllocationFails, LineFails, ApplyFails, SkipLine, NextConsumer,
            Collected, Select, Released, Ordered, Apply, RecordDependency, ReleaseEdge,
            Reading

\* Every step gives the place to the first module that could have it.
LEMMA StableStep ==
  ASSUME TypeOK, Phase, CollectInv, PlacedInv, IndegreeCounts, StableOrder, [Next]_vars
  PROVE  StableOrder'
<1>1. CASE Select
  <2>1. PICK s \in Module :
          /\ Selectable(s) /\ pc = "select"
          /\ result' = Append(result, s) /\ project' = project
    BY <1>1, SelectFacts
  <2> SUFFICES ASSUME NEW k \in DOMAIN result', NEW m \in Module, Eligible(m, k)'
               PROVE  result'[k] <= m
    BY DEF StableOrder, Module
  <2>2. /\ k \in 1 .. Len(result) + 1 /\ Len(result) \in Nat
        /\ \A j \in 1 .. k - 1 : result'[j] = result[j]
    BY <2>1, ResultGrows
  <2>3. Eligible(m, k)
    BY <2>1, <2>2, UsesFixed DEF Eligible
  <2>4. CASE k \in DOMAIN result
    <3>1. result'[k] = result[k]
      BY <2>1, <2>4, ResultGrows
    <3> QED BY <2>3, <2>4, <3>1 DEF StableOrder
  <2>5. CASE k \notin DOMAIN result
    <3>1. k = Len(result) + 1 /\ result'[k] = s
      BY <2>1, <2>5, ResultGrows
    <3>2. DOMAIN result = 1 .. k - 1
      BY <2>1, <2>2, <3>1, ResultGrows
    <3>3. indegree[m] # Placed
      BY <2>3, <3>2 DEF Eligible, PlacedInv
    <3>4. \A p \in Module : DependsOn(m, p) => indegree[p] = Placed
      BY <2>3, <3>2 DEF Eligible, PlacedInv
    <3>5. indegree[m] = 0
      BY <2>1, <3>3, <3>4, NonzeroWaits, DependencyType
    <3>6. m \notin 0 .. s - 1
      BY <2>1, <3>5 DEF Selectable
    <3> QED BY <3>1, <3>6, ModuleCountAssumption DEF Module
  <2> QED BY <2>4, <2>5
<1>2. CASE UNCHANGED << project, result >>
  <2>1. ASSUME NEW k, NEW m \in Module
        PROVE  Eligible(m, k)' <=> Eligible(m, k)
    BY <1>2, UsesFixed DEF Eligible, Module
  <2> QED BY <1>2, <2>1 DEF StableOrder, Module
<1>3. CASE Fail
  BY <1>2, <1>3 DEF Fail
<1> QED BY <1>1, <1>2, <1>3
        DEF Next, vars, AllocationFails, LineFails, ApplyFails, SkipLine, NextConsumer,
            Collected, Released, DiagnoseCycle, Ordered, Apply, RecordDependency,
            ReleaseEdge

-----------------------------------------------------------------------------
(* The theorems.                                                           *)

\* The inductive invariant.
OrderInv ==
  /\ TypeOK /\ Phase /\ CollectInv
  /\ IndegreeCounts /\ PlacedInv
  /\ PrefixInv /\ TrapInv /\ OutcomeInv /\ StableOrder

\* The initial state satisfies every part of the invariant.
LEMMA OrderInit == Init => OrderInv
<1> SUFFICES ASSUME Init PROVE OrderInv
  OBVIOUS
<1>1. TypeOK /\ Phase /\ CollectInv
  BY TypeInit, CollectInit
<1>2. /\ dependencies = << >> /\ result = << >> /\ pc = "collect"
      /\ \A m \in Module : indegree[m] = 0
  BY DEF Init
<1>3. DOMAIN dependencies = {} /\ DOMAIN result = {}
  BY <1>2
<1>4. IndegreeCounts
  <2>1. \A m \in Module : Waiting(m) = {}
    BY <1>3 DEF Waiting
  <2> QED BY <1>2, <2>1, FS_EmptySet DEF IndegreeCounts
<1>5. PlacedInv /\ TrapInv
  BY <1>2, <1>3 DEF PlacedInv, TrapInv, Placed
<1>6. PrefixInv /\ StableOrder /\ OutcomeInv
  BY <1>2, <1>3 DEF PrefixInv, StableOrder, OutcomeInv
<1> QED BY <1>1, <1>4, <1>5, <1>6 DEF OrderInv

\* Every step keeps every part of the invariant.
LEMMA OrderStep == OrderInv /\ [Next]_vars => OrderInv'
<1> SUFFICES ASSUME OrderInv, [Next]_vars PROVE OrderInv'
  OBVIOUS
<1> USE DEF OrderInv
<1>1. TypeOK' /\ Phase' /\ CollectInv'
  BY TypeStep, CollectStep
<1>2. IndegreeCounts' /\ PlacedInv'
  BY CountsStep, PlacedStep
<1>3. PrefixInv' /\ TrapInv'
  BY <1>2, PrefixStep, TrapStep
<1>4. OutcomeInv' /\ StableOrder'
  BY OutcomeStep, StableStep
<1> QED BY <1>1, <1>2, <1>3, <1>4

(***************************************************************************)
(* The inductive invariant holds of every ordering of every project.       *)
(***************************************************************************)
THEOREM OrderInvariant == Spec => []OrderInv
BY OrderInit, OrderStep, PTL DEF Spec

(***************************************************************************)
(* Every variable of the ordering stays in its domain.                     *)
(***************************************************************************)
THEOREM TypeCorrect == Spec => []TypeOK
<1>1. OrderInv => TypeOK
  BY DEF OrderInv
<1> QED BY <1>1, OrderInvariant, PTL

(***************************************************************************)
(* An indegree is the number of dependencies the module still waits for.   *)
(***************************************************************************)
THEOREM IndegreeCorrect == Spec => []IndegreeCounts
<1>1. OrderInv => IndegreeCounts
  BY DEF OrderInv
<1> QED BY <1>1, OrderInvariant, PTL

(***************************************************************************)
(* The order delivered is a permutation with providers first.              *)
(***************************************************************************)
THEOREM OrderCorrect == Spec => []ProvidersFirst
<1>1. OrderInv => ProvidersFirst
  <2> SUFFICES ASSUME OrderInv, pc = "done" PROVE ProvidersFirst
    BY DEF ProvidersFirst
  <2>1. /\ Len(result) = ModuleCount /\ result \in Seq(Module)
        /\ \A k \in 1 .. ModuleCount : modules[k] = result[k]
    BY DEF OrderInv, Phase, TypeOK
  <2>2. DOMAIN result = 1 .. ModuleCount
    BY <2>1
  <2>3. \A m \in Module : \E k \in 1 .. ModuleCount : modules[k] = m
    BY <2>1, AllPlaced DEF OrderInv
  <2>4. \A j, k \in 1 .. ModuleCount : modules[j] = modules[k] => j = k
    BY <2>1, <2>2 DEF OrderInv, PlacedInv
  <2>5. ASSUME NEW j \in 1 .. ModuleCount, NEW k \in 1 .. ModuleCount,
               DependsOn(modules[k], modules[j])
        PROVE  j < k
    <3>1. DependsOn(result[k], result[j]) /\ result[j] \in Module
      BY <2>1, <2>2, <2>5
    <3>2. PICK i \in 1 .. k - 1 : result[i] = result[j]
      BY <2>2, <3>1 DEF OrderInv, PrefixInv
    <3>3. i \in DOMAIN result /\ i < k
      BY <2>2, ModuleCountAssumption
    <3>4. i = j
      BY <2>2, <3>2, <3>3 DEF OrderInv, PlacedInv
    <3> QED BY <3>3, <3>4
  <2> QED BY <2>3, <2>4, <2>5 DEF ProvidersFirst
<1> QED BY <1>1, OrderInvariant, PTL

(***************************************************************************)
(* A cycle is reported only where there is one, and no project with a      *)
(* cycle is ordered.                                                       *)
(***************************************************************************)
THEOREM CycleCorrect == Spec => []CycleDiagnosedIffCyclic
<1>1. OrderInv => CycleDiagnosedIffCyclic
  <2> SUFFICES ASSUME OrderInv PROVE CycleDiagnosedIffCyclic
    OBVIOUS
  <2>1. ASSUME pc = "done", Cyclic PROVE FALSE
    <3>1. PICK set \in SUBSET Module : set # {} /\ Trapped(set)
      BY <2>1 DEF Cyclic
    <3>2. PICK m \in set : indegree[m] # Placed
      BY <3>1 DEF OrderInv, TrapInv
    <3>3. Len(result) = ModuleCount /\ result \in Seq(Module)
      BY <2>1 DEF OrderInv, Phase, TypeOK
    <3>4. PICK k \in 1 .. ModuleCount : result[k] = m
      BY <3>2, <3>3, AllPlaced DEF OrderInv
    <3> QED BY <3>2, <3>3, <3>4 DEF OrderInv, PlacedInv
  <2> QED BY <2>1 DEF CycleDiagnosedIffCyclic, OrderInv, OutcomeInv
<1> QED BY <1>1, OrderInvariant, PTL

(***************************************************************************)
(* The internal error of the ordering loop cannot happen.                  *)
(***************************************************************************)
THEOREM OrderingNeverStuck == Spec => []NeverUnordered
<1>1. OrderInv => NeverUnordered
  BY DEF OrderInv, OutcomeInv, NeverUnordered
<1> QED BY <1>1, OrderInvariant, PTL

(***************************************************************************)
(* Each place went to the first module in source order that could have it. *)
(***************************************************************************)
THEOREM OrderStable == Spec => []StableOrder
<1>1. OrderInv => StableOrder
  BY DEF OrderInv
<1> QED BY <1>1, OrderInvariant, PTL
=============================================================================

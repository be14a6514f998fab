------------------------ MODULE AssignedLabelsProof ------------------------
(***************************************************************************)
(* Proofs about the analysis of assigned labels.                           *)
(***************************************************************************)
EXTENDS AssignedLabels, RecursionLemmas

-----------------------------------------------------------------------------
(* Closures.                                                               *)

(***************************************************************************)
(* A closure under growth is where the growth ends.                        *)
(***************************************************************************)
LEMMA ClosureLeads ==
  ASSUME NEW D, NEW U, IsFiniteSet(U), NEW held \in [D -> SUBSET U],
         \A d, e \in D : held[d] = held[e] => d = e,
         NEW more \in [D -> D], \A d \in D : held[d] \subseteq held[more[d]],
         NEW start \in D
  PROVE  LeadsTo(Closure(more, start), start, D, more)
<1> DEFINE c == CHOOSE c : Closes(c, D, more)
<1>1. /\ \E e : Closes(e, D, more)
      /\ \A e : Closes(e, D, more) => \A d \in D : LeadsTo(e[d], d, D, more)
  BY GrowthEnds
<1>2. Closes(c, D, more)
  BY <1>1
<1>3. Closure(more, start) = c[start]
  <2>1. DOMAIN more = D
    OBVIOUS
  <2> QED BY <2>1 DEF Closure, Closes
<1> HIDE DEF c
<1> QED BY <1>1, <1>2, <1>3

(***************************************************************************)
(* A closure of sets within a finite set.                                  *)
(***************************************************************************)
LEMMA SetClosure ==
  ASSUME NEW U, IsFiniteSet(U), NEW more \in [SUBSET U -> SUBSET U],
         \A d \in SUBSET U : d \subseteq more[d], NEW start \in SUBSET U
  PROVE  LeadsTo(Closure(more, start), start, SUBSET U, more)
<1> DEFINE D == SUBSET U
           held == [d \in D |-> d]
<1>1. /\ held \in [D -> SUBSET U] /\ more \in [D -> D] /\ start \in D
      /\ \A d, e \in D : held[d] = held[e] => d = e
      /\ \A d \in D : held[d] \subseteq held[more[d]]
  OBVIOUS
<1> HIDE DEF held, D
<1>2. LeadsTo(Closure(more, start), start, D, more)
  BY <1>1, ClosureLeads
<1> QED BY <1>2 DEF D

(***************************************************************************)
(* A closure of families of sets within a finite set.                      *)
(***************************************************************************)
LEMMA FamilyClosure ==
  ASSUME NEW N, IsFiniteSet(N), NEW F, IsFiniteSet(F),
         NEW more \in [[N -> SUBSET F] -> [N -> SUBSET F]],
         \A d \in [N -> SUBSET F], n \in N : d[n] \subseteq more[d][n],
         NEW start \in [N -> SUBSET F]
  PROVE  LeadsTo(Closure(more, start), start, [N -> SUBSET F], more)
<1> DEFINE D == [N -> SUBSET F]
           U == N \X F
           held == [d \in D |-> {p \in U : p[2] \in d[p[1]]}]
<1>1. IsFiniteSet(U)
  BY FS_Product
<1>2. held \in [D -> SUBSET U]
  OBVIOUS
<1>3. ASSUME NEW d \in D, NEW e \in D, held[d] = held[e] PROVE d = e
  <2>1. ASSUME NEW n \in N, NEW x \in F PROVE x \in d[n] <=> x \in e[n]
    <3>1. << n, x >> \in held[d] <=> << n, x >> \in held[e]
      BY <1>3
    <3> QED BY <3>1
  <2>2. \A n \in N : d[n] \in SUBSET F /\ e[n] \in SUBSET F
    OBVIOUS
  <2>3. \A n \in N : d[n] = e[n]
    BY <2>1, <2>2
  <2> QED BY <2>3
<1>4. ASSUME NEW d \in D PROVE held[d] \subseteq held[more[d]]
  BY <1>4
<1>5. more \in [D -> D] /\ start \in D
  OBVIOUS
<1> HIDE DEF held, D, U
<1>6. LeadsTo(Closure(more, start), start, D, more)
  BY <1>1, <1>2, <1>3, <1>4, <1>5, ClosureLeads
<1> QED BY <1>6 DEF D


-----------------------------------------------------------------------------
(* The graph that is built.                                                *)

EdgeKind == {"branch", "fallthrough", "procedure_exit", "stop", "io_error"}
Edge == [target : Node, kind : EdgeKind]

(***************************************************************************)
(* A unit and its positions.                                               *)
(***************************************************************************)
LEMMA UnitFacts ==
  ASSUME unit \in Units
  PROVE  /\ Len(unit) \in Nat /\ Len(unit) >= 1 /\ Position = DOMAIN unit
         /\ MaxLabel \in Nat
         /\ \A n \in Position : /\ n \in Node /\ n + 1 \in Node /\ n \in Nat
                                /\ unit[n] \in Statement
                                /\ unit[n].labels \in Seq(Label)
         /\ ProcedureExit \in Node /\ ImageTermination \in Node
         /\ \A n \in Position : unit[n].kind \in {"assign_label", "goto"} =>
              1 \in DOMAIN unit[n].labels /\ unit[n].labels[1] \in Label
         /\ \A n \in Position : unit[n].kind = "goto" => unit[n].labels[1] \in Position
<1>1. /\ unit \in Seq(Statement) /\ unit # << >>
      /\ \A n \in DOMAIN unit :
           /\ unit[n].kind \in {"assign_label", "goto"} => unit[n].labels # << >>
           /\ unit[n].kind = "goto" => unit[n].labels[1] \in DOMAIN unit
  BY UnitsAssumption
<1>2. Len(unit) \in Nat /\ Len(unit) >= 1 /\ DOMAIN unit = 1 .. Len(unit)
  BY <1>1
<1>3. \A n \in DOMAIN unit : unit[n] \in Statement /\ unit[n].labels \in Seq(Label)
  <2>1. \A n \in DOMAIN unit : unit[n] \in Statement
    BY <1>1
  <2>2. \A s \in Statement : s.labels \in Seq(Label)
    BY DEF Statement
  <2> HIDE DEF Statement
  <2> QED BY <2>1, <2>2
<1>4. ASSUME NEW n \in DOMAIN unit, unit[n].kind \in {"assign_label", "goto"}
      PROVE  1 \in DOMAIN unit[n].labels /\ unit[n].labels[1] \in Label
  <2>1. unit[n].labels \in Seq(Label) /\ unit[n].labels # << >>
    BY <1>1, <1>3, <1>4
  <2> QED BY <2>1
<1>5. Position = DOMAIN unit /\ MaxLabel \in Nat
  BY <1>2, UnitsAssumption DEF Position
<1>6. \A n \in DOMAIN unit : n \in Node /\ n + 1 \in Node /\ n \in Nat
  BY <1>2 DEF Node, ImageTermination
<1>7. ProcedureExit \in Node /\ ImageTermination \in Node
  BY <1>2 DEF Node, ImageTermination, ProcedureExit
<1> QED BY <1>1, <1>2, <1>3, <1>4, <1>5, <1>6, <1>7

(***************************************************************************)
(* Branches to those of a list of labels that are labels of statements.    *)
(***************************************************************************)
LEMMA BranchesFacts ==
  ASSUME unit \in Units, NEW labels \in Seq(Label)
  PROVE  /\ Branches(labels) \in Seq(Edge)
         /\ ToSet(Branches(labels)) =
              {To(l, "branch") : l \in ToSet(labels) \intersect Position}
<1> DEFINE here == Keep(labels, Position)
<1>1. here \in Seq(Label) /\ ToSet(here) = ToSet(labels) \intersect Position
  BY KeepFacts
<1>2. Branches(labels) = [k \in DOMAIN here |-> To(here[k], "branch")]
  BY DEF Branches
<1> HIDE DEF here
<1>3. Len(here) \in Nat /\ DOMAIN here = 1 .. Len(here)
  BY <1>1
<1>4. \A k \in DOMAIN here : here[k] \in ToSet(here)
  BY DEF ToSet
<1>5. \A l \in Position : To(l, "branch") \in Edge
  BY UnitFacts DEF To, Edge, EdgeKind
<1>6. \A k \in DOMAIN here : To(here[k], "branch") \in Edge
  BY <1>1, <1>4, <1>5
<1>7. Branches(labels) \in Seq(Edge)
  BY <1>2, <1>3, <1>6
<1>8. ToSet(Branches(labels)) = {To(here[k], "branch") : k \in DOMAIN here}
  BY <1>2 DEF ToSet
<1>9. ToSet(here) = {here[k] : k \in DOMAIN here}
  BY DEF ToSet
<1>10. ToSet(Branches(labels)) = {To(l, "branch") : l \in ToSet(here)}
  BY <1>8, <1>9
<1> QED BY <1>1, <1>7, <1>10

(***************************************************************************)
(* The labels assigned to a variable by some of the statements.            *)
(***************************************************************************)
LEMMA AssignedInFacts ==
  ASSUME unit \in Units, NEW statements \in SUBSET Position, NEW v
  PROVE  /\ AssignedIn(statements, v) \in Seq(Label)
         /\ ToSet(AssignedIn(statements, v)) =
              {unit[m].labels[1] : m \in {n \in statements : Defines(unit[n], v)}}
<1> DEFINE all == [n \in Position |-> n]
           chosen == {n \in statements : Defines(unit[n], v)}
           assigns == Keep(all, chosen)
<1>1. all \in Seq(Position) /\ ToSet(all) = Position
  BY UnitFacts DEF Position, ToSet
<1> HIDE DEF all
<1>2. assigns \in Seq(Position) /\ ToSet(assigns) = chosen
  BY <1>1, KeepFacts
<1>3. AssignedIn(statements, v) = [k \in DOMAIN assigns |-> unit[assigns[k]].labels[1]]
  BY DEF AssignedIn, all
<1>4. \A m \in chosen : unit[m].labels[1] \in Label
  BY UnitFacts DEF Defines
<1> HIDE DEF chosen, assigns
<1>5. Len(assigns) \in Nat /\ DOMAIN assigns = 1 .. Len(assigns)
  BY <1>2
<1>6. ToSet(assigns) = {assigns[k] : k \in DOMAIN assigns}
  BY DEF ToSet
<1>7. \A k \in DOMAIN assigns : unit[assigns[k]].labels[1] \in Label
  BY <1>2, <1>4, <1>6
<1>8. AssignedIn(statements, v) \in Seq(Label)
  BY <1>3, <1>5, <1>7
<1>9. ToSet(AssignedIn(statements, v)) = {unit[assigns[k]].labels[1] : k \in DOMAIN assigns}
  BY <1>3 DEF ToSet
<1>10. ToSet(AssignedIn(statements, v)) = {unit[m].labels[1] : m \in chosen}
  BY <1>2, <1>6, <1>9
<1> QED BY <1>8, <1>10 DEF chosen

(***************************************************************************)
(* The catalog of a variable holds every label assigned to it.             *)
(***************************************************************************)
LEMMA CatalogFacts ==
  ASSUME unit \in Units, NEW v
  PROVE  /\ Catalog(v) \in Seq(Label)
         /\ \A m \in Position : Defines(unit[m], v) => unit[m].labels[1] \in ToSet(Catalog(v))
         /\ \A l \in ToSet(Catalog(v)) :
              \E m \in Position : Defines(unit[m], v) /\ unit[m].labels[1] = l
<1> DEFINE all == AssignedIn(Position, v)
<1>1. /\ all \in Seq(Label)
      /\ ToSet(all) = {unit[m].labels[1] : m \in {n \in Position : Defines(unit[n], v)}}
  BY AssignedInFacts
<1> HIDE DEF all
<1> DEFINE none == << >>
<1>2. Catalog(v) = AppendEdges(none, all)
  BY DEF Catalog, AppendEdges, all
<1>3. none \in Seq(Label) /\ ToSet(none) = {}
  BY EmptySet
<1> HIDE DEF none
<1>4. Catalog(v) \in Seq(Label) /\ ToSet(Catalog(v)) = ToSet(none) \union ToSet(all)
  BY <1>1, <1>2, <1>3, AppendEdgesFacts
<1> QED BY <1>1, <1>3, <1>4


(***************************************************************************)
(* A list of edges with one edge, or none.                                 *)
(***************************************************************************)
LEMMA Singleton ==
  ASSUME NEW A, NEW x \in A
  PROVE  << x >> \in Seq(A) /\ ToSet(<< x >>) = {x}
BY DEF ToSet

(***************************************************************************)
(* Concatenation joins the elements.                                       *)
(***************************************************************************)
LEMMA ConcatFacts ==
  ASSUME NEW A, NEW s \in Seq(A), NEW t \in Seq(A)
  PROVE  s \o t \in Seq(A) /\ ToSet(s \o t) = ToSet(s) \union ToSet(t)
<1> DEFINE u == s \o t
<1>1. /\ u \in Seq(A) /\ DOMAIN u = 1 .. Len(s) + Len(t)
      /\ Len(s) \in Nat /\ Len(t) \in Nat
      /\ DOMAIN s = 1 .. Len(s) /\ DOMAIN t = 1 .. Len(t)
      /\ \A i \in 1 .. Len(s) + Len(t) : u[i] = IF i <= Len(s) THEN s[i] ELSE t[i - Len(s)]
  OBVIOUS
<1> HIDE DEF u
<1>2. ASSUME NEW i \in DOMAIN u PROVE u[i] \in ToSet(s) \union ToSet(t)
  <2>1. CASE i <= Len(s)
    <3>1. i \in DOMAIN s /\ u[i] = s[i]
      BY <1>1, <2>1
    <3> QED BY <3>1 DEF ToSet
  <2>2. CASE i > Len(s)
    <3>1. i - Len(s) \in DOMAIN t /\ u[i] = t[i - Len(s)]
      BY <1>1, <2>2
    <3> QED BY <3>1 DEF ToSet
  <2> QED BY <1>1, <2>1, <2>2
<1>3. ASSUME NEW i \in DOMAIN s PROVE s[i] \in ToSet(u)
  <2>1. i \in DOMAIN u /\ u[i] = s[i]
    BY <1>1
  <2> QED BY <2>1 DEF ToSet
<1>4. ASSUME NEW i \in DOMAIN t PROVE t[i] \in ToSet(u)
  <2>1. i + Len(s) \in DOMAIN u /\ u[i + Len(s)] = t[(i + Len(s)) - Len(s)]
    BY <1>1
  <2>2. (i + Len(s)) - Len(s) = i
    BY <1>1
  <2> QED BY <2>1, <2>2 DEF ToSet
<1>5. /\ ToSet(u) = {u[i] : i \in DOMAIN u}
      /\ ToSet(s) = {s[i] : i \in DOMAIN s}
      /\ ToSet(t) = {t[i] : i \in DOMAIN t}
  BY DEF ToSet
<1>6. ToSet(u) = ToSet(s) \union ToSet(t)
  BY <1>2, <1>3, <1>4, <1>5
<1> QED BY <1>1, <1>6 DEF u

\* The lists of labels a rebuild starts from.
Labelling == [Position -> Seq(Label)]

(***************************************************************************)
(* The edges out of a statement, group by group.                           *)
(***************************************************************************)
LEMMA EdgeGroups ==
  ASSUME unit \in Units, NEW labels \in Labelling, NEW analysed, NEW n \in Position
  PROVE  /\ Fallthrough(n) \in Seq(Edge)
         /\ LabelEdges(n, labels, analysed) \in Seq(Edge)
         /\ BareEdges(n, analysed) \in Seq(Edge)
         /\ TerminationEdges(n) \in Seq(Edge)
<1>1. << >> \in Seq(Edge)
  BY EmptySet
<1>2. Fallthrough(n) \in Seq(Edge)
  <2>1. To(n + 1, "fallthrough") \in Edge /\ To(ProcedureExit, "procedure_exit") \in Edge
    BY UnitFacts DEF To, Edge, EdgeKind
  <2> HIDE DEF Edge
  <2> QED BY <1>1, <2>1, Singleton DEF Fallthrough
<1>3. LabelEdges(n, labels, analysed) \in Seq(Edge)
  <2>1. unit[n].labels \in Seq(Label) /\ labels[n] \in Seq(Label)
    BY UnitFacts DEF Labelling
  <2>2. Branches(unit[n].labels) \in Seq(Edge) /\ Branches(labels[n]) \in Seq(Edge)
    BY <2>1, BranchesFacts
  <2> QED BY <1>1, <2>2 DEF LabelEdges
<1>4. BareEdges(n, analysed) \in Seq(Edge)
  <2> DEFINE chosen == {m \in Position : ~ unit[m].conditional}
  <2>1. chosen \in SUBSET Position
    OBVIOUS
  <2> HIDE DEF chosen
  <2>2. AssignedIn(chosen, unit[n].variable) \in Seq(Label)
    BY <2>1, AssignedInFacts
  <2>3. Branches(AssignedIn(chosen, unit[n].variable)) \in Seq(Edge)
    BY <2>2, BranchesFacts
  <2> QED BY <1>1, <2>3 DEF BareEdges, chosen
<1>5. TerminationEdges(n) \in Seq(Edge)
  <2>1. To(ImageTermination, "stop") \in Edge /\ To(ImageTermination, "io_error") \in Edge
    BY UnitFacts DEF To, Edge, EdgeKind
  <2> HIDE DEF Edge
  <2> QED BY <1>1, <2>1, Singleton DEF TerminationEdges
<1> QED BY <1>2, <1>3, <1>4, <1>5

(***************************************************************************)
(* The graph that is built lists the edges of every group.                 *)
(***************************************************************************)
LEMMA BuildFacts ==
  ASSUME unit \in Units, NEW labels \in Labelling, NEW analysed
  PROVE  /\ Build(labels, analysed) \in [Node -> Seq(Edge)]
         /\ \A n \in Position :
              ToSet(Build(labels, analysed)[n]) =
                ToSet(Fallthrough(n)) \union ToSet(LabelEdges(n, labels, analysed))
                  \union ToSet(BareEdges(n, analysed)) \union ToSet(TerminationEdges(n))
         /\ \A n \in Node \ Position : Build(labels, analysed)[n] = << >>
         /\ \A n \in Node : Distinct(Build(labels, analysed)[n])
<1> DEFINE none == << >>
           All(n) == Fallthrough(n) \o LabelEdges(n, labels, analysed)
                       \o BareEdges(n, analysed) \o TerminationEdges(n)
<1>0. none = << >>
  OBVIOUS
<1>1. none \in Seq(Edge) /\ ToSet(none) = {} /\ Distinct(none)
  BY EmptySet DEF Distinct
<1> HIDE DEF none
<1>2. ASSUME NEW n \in Position
      PROVE  /\ All(n) \in Seq(Edge)
             /\ ToSet(All(n)) =
                  ToSet(Fallthrough(n)) \union ToSet(LabelEdges(n, labels, analysed))
                    \union ToSet(BareEdges(n, analysed)) \union ToSet(TerminationEdges(n))
  <2> DEFINE a == Fallthrough(n)
             b == LabelEdges(n, labels, analysed)
             c == BareEdges(n, analysed)
             d == TerminationEdges(n)
  <2>1. a \in Seq(Edge) /\ b \in Seq(Edge) /\ c \in Seq(Edge) /\ d \in Seq(Edge)
    BY EdgeGroups
  <2> HIDE DEF a, b, c, d
  <2> DEFINE ab == a \o b
             abc == ab \o c
             abcd == abc \o d
  <2>2. ab \in Seq(Edge) /\ ToSet(ab) = ToSet(a) \union ToSet(b)
    BY <2>1, ConcatFacts
  <2> HIDE DEF ab
  <2>3. abc \in Seq(Edge) /\ ToSet(abc) = ToSet(ab) \union ToSet(c)
    BY <2>1, <2>2, ConcatFacts
  <2> HIDE DEF abc
  <2>4. abcd \in Seq(Edge) /\ ToSet(abcd) = ToSet(abc) \union ToSet(d)
    BY <2>1, <2>3, ConcatFacts
  <2> HIDE DEF abcd
  <2>5. All(n) = abcd
    BY DEF a, b, c, d, ab, abc, abcd
  <2>6. ToSet(All(n)) = ToSet(a) \union ToSet(b) \union ToSet(c) \union ToSet(d)
    BY <2>2, <2>3, <2>4, <2>5
  <2>7. All(n) \in Seq(Edge)
    BY <2>4, <2>5
  <2> QED BY <2>6, <2>7 DEF a, b, c, d
<1>3. Build(labels, analysed) =
        [n \in Node |-> IF n \in Position THEN AppendEdges(none, All(n)) ELSE none]
  BY <1>0 DEF Build
<1> HIDE DEF All
<1>4. ASSUME NEW n \in Position
      PROVE  /\ AppendEdges(none, All(n)) \in Seq(Edge)
             /\ ToSet(AppendEdges(none, All(n))) = ToSet(none) \union ToSet(All(n))
             /\ Distinct(AppendEdges(none, All(n)))
  <2> DEFINE all == All(n)
  <2>1. all \in Seq(Edge)
    BY <1>2
  <2> HIDE DEF all
  <2>2. PICK edges \in Seq(Edge) : edges = none /\ Distinct(edges)
    BY <1>1
  <2>3. PICK more \in Seq(Edge) : more = all
    BY <2>1
  <2>4. /\ AppendEdges(edges, more) \in Seq(Edge)
        /\ ToSet(AppendEdges(edges, more)) = ToSet(edges) \union ToSet(more)
        /\ Distinct(edges) => Distinct(AppendEdges(edges, more))
    BY AppendEdgesFacts
  <2> QED BY <2>2, <2>3, <2>4 DEF all
<1>5. Build(labels, analysed) \in [Node -> Seq(Edge)]
  BY <1>1, <1>3, <1>4
<1>6. \A n \in Position : n \in Node
  BY UnitFacts
<1>7. ASSUME NEW n \in Position
      PROVE  ToSet(Build(labels, analysed)[n]) = ToSet(All(n))
  BY <1>1, <1>3, <1>4, <1>6
<1>8. \A n \in Node \ Position : Build(labels, analysed)[n] = << >>
  BY <1>0, <1>3
<1>9. \A n \in Node : Distinct(Build(labels, analysed)[n])
  BY <1>1, <1>3, <1>4
<1> QED BY <1>2, <1>5, <1>7, <1>8, <1>9


-----------------------------------------------------------------------------
(* The labels that reach the statements.                                   *)

States == [Node -> SUBSET Facts]

(***************************************************************************)
(* The nodes of a unit and the facts about a variable are finitely many.   *)
(***************************************************************************)
LEMMA FiniteDomains ==
  ASSUME unit \in Units
  PROVE  IsFiniteSet(Node) /\ IsFiniteSet(Facts)
<1>1. ImageTermination \in Int /\ MaxLabel + 1 \in Int
  BY UnitFacts DEF ImageTermination
<1> QED BY <1>1, FS_Interval DEF Node, Facts

(***************************************************************************)
(* The effect of a statement makes facts of facts, and more of more.       *)
(***************************************************************************)
LEMMA TransferFacts ==
  ASSUME unit \in Units, NEW m \in Position, NEW v,
         NEW in \in SUBSET Facts, NEW wider \in SUBSET Facts, in \subseteq wider
  PROVE  /\ Gen(unit[m], v) \subseteq Label \union {Invalid}
         /\ Transfer(unit[m], v, in) \in SUBSET Facts
         /\ Transfer(unit[m], v, in) \subseteq Transfer(unit[m], v, wider)
<1>1. Label \subseteq Facts /\ Invalid \in Facts /\ Reached \in Facts
  BY UnitFacts DEF Label, Invalid, Reached, Facts
<1>2. Gen(unit[m], v) \subseteq Label \union {Invalid}
  BY UnitFacts DEF Gen, Defines
<1> QED BY <1>1, <1>2 DEF Transfer

(***************************************************************************)
(* What reaches a node are facts.                                          *)
(***************************************************************************)
LEMMA IncomingFacts ==
  ASSUME unit \in Units, NEW states \in States, NEW v, NEW n
  PROVE  Incoming(states, v, n) \in SUBSET Facts
<1>1. \A m \in Position : states[m] \in SUBSET Facts
  BY UnitFacts DEF States
<1>2. \A m \in Position : Transfer(unit[m], v, states[m]) \in SUBSET Facts
  BY <1>1, TransferFacts
<1> HIDE DEF Facts
<1> QED BY <1>2 DEF Incoming

(***************************************************************************)
(* Spreading makes states of states and loses nothing.                     *)
(***************************************************************************)
LEMMA SpreadFacts ==
  ASSUME unit \in Units, NEW v
  PROVE  /\ Spread(v) \in [States -> States]
         /\ \A states \in States, n \in Node :
              /\ Spread(v)[states][n] = states[n] \union Incoming(states, v, n)
              /\ states[n] \subseteq Spread(v)[states][n]
         /\ Entry(v) \in States
<1>1. ASSUME NEW states \in States
      PROVE  [n \in Node |-> states[n] \union Incoming(states, v, n)] \in States
  BY IncomingFacts DEF States
<1>2. Entry(v) \in States
  BY UnitFacts DEF Entry, States, Reached, Invalid, Facts
<1>3. Spread(v) = [states \in States |->
                     [n \in Node |-> states[n] \union Incoming(states, v, n)]]
  BY DEF Spread, States
<1> HIDE DEF States
<1> QED BY <1>1, <1>2, <1>3

(***************************************************************************)
(* The solution holds what holds at the entry, what reaches a node from    *)
(* its predecessors, and nothing else.                                     *)
(***************************************************************************)
LEMMA SolveFacts ==
  ASSUME unit \in Units, NEW v
  PROVE  /\ Solve(v) \in States
         /\ \A n \in Node : Entry(v)[n] \subseteq Solve(v)[n]
         /\ \A n \in Node : Incoming(Solve(v), v, n) \subseteq Solve(v)[n]
         /\ LeadsTo(Solve(v), Entry(v), States, Spread(v))
<1> DEFINE more == Spread(v)
           start == Entry(v)
<1>1. IsFiniteSet(Node) /\ IsFiniteSet(Facts)
  BY FiniteDomains
<1>2. /\ more \in [[Node -> SUBSET Facts] -> [Node -> SUBSET Facts]]
      /\ start \in [Node -> SUBSET Facts]
      /\ \A d \in [Node -> SUBSET Facts], n \in Node : d[n] \subseteq more[d][n]
  BY SpreadFacts DEF States
<1> HIDE DEF more, start
<1>3. LeadsTo(Closure(more, start), start, [Node -> SUBSET Facts], more)
  BY <1>1, <1>2, FamilyClosure
<1>4. LeadsTo(Solve(v), Entry(v), States, Spread(v))
  BY <1>3 DEF Solve, more, start, States
<1>5. Solve(v) \in States /\ Spread(v)[Solve(v)] = Solve(v)
  BY <1>4 DEF LeadsTo
<1>6. \A n \in Node : Incoming(Solve(v), v, n) \subseteq Solve(v)[n]
  BY <1>5, SpreadFacts
<1> DEFINE P == {states \in States : \A n \in Node : Entry(v)[n] \subseteq states[n]}
<1>7. P \in SUBSET States /\ Entry(v) \in P
  BY SpreadFacts
<1>8. \A states \in P : Spread(v)[states] \in P
  BY SpreadFacts
<1>9. Solve(v) \in P
  <2> HIDE DEF P
  <2> QED BY <1>4, <1>7, <1>8 DEF LeadsTo
<1> QED BY <1>4, <1>5, <1>6, <1>9

(***************************************************************************)
(* What leaves a statement that is reached arrives wherever a feasible     *)
(* edge leads.                                                             *)
(***************************************************************************)
LEMMA FlowAlongEdge ==
  ASSUME unit \in Units, NEW v, NEW m \in Position, NEW k \in DOMAIN graph[m],
         graph[m][k].target \in Node, Reached \in Solve(v)[m],
         Feasible(unit[m], v, graph[m][k], Transfer(unit[m], v, Solve(v)[m]))
  PROVE  Transfer(unit[m], v, Solve(v)[m]) \subseteq Solve(v)[graph[m][k].target]
<1> DEFINE n == graph[m][k].target
           states == Solve(v)
<1>1. Incoming(states, v, n) \subseteq states[n]
  BY SolveFacts
<1> HIDE DEF states
<1>2. Transfer(unit[m], v, states[m]) \subseteq Incoming(states, v, n)
  BY DEF Incoming, states
<1> QED BY <1>1, <1>2 DEF states


-----------------------------------------------------------------------------
(* What the operators read of the state.                                   *)

(***************************************************************************)
(* What is assigned and what is used depends on the unit only.             *)
(***************************************************************************)
LEMMA UnitFrame ==
  ASSUME unit' = unit
  PROVE  /\ Position' = Position /\ Node' = Node /\ ProcedureExit' = ProcedureExit
         /\ ImageTermination' = ImageTermination /\ Uses' = Uses
         /\ Edge' = Edge /\ Labelling' = Labelling /\ States' = States
         /\ \A v : Catalog(v)' = Catalog(v)
         /\ \A v : Entry(v)' = Entry(v)
<1>1. Position' = Position /\ Node' = Node /\ ProcedureExit' = ProcedureExit
      /\ ImageTermination' = ImageTermination
  BY DEF Position, Node, ProcedureExit, ImageTermination
<1>2. Uses' = Uses
  BY <1>1 DEF Uses, IsUse
<1>3. Edge' = Edge /\ Labelling' = Labelling /\ States' = States
  BY <1>1 DEF Edge, Labelling, States
<1>4. ASSUME NEW v PROVE AssignedIn(Position, v)' = AssignedIn(Position, v)
  BY <1>1 DEF AssignedIn, Defines
<1>5. ASSUME NEW v PROVE Catalog(v)' = Catalog(v)
  BY <1>4 DEF Catalog
<1>6. ASSUME NEW v PROVE Entry(v)' = Entry(v)
  BY <1>1 DEF Entry
<1> QED BY <1>1, <1>2, <1>3, <1>5, <1>6

(***************************************************************************)
(* The graph built depends on the unit and the labels.                     *)
(***************************************************************************)
LEMMA BuildOf ==
  ASSUME unit' = unit
  PROVE  Build(resolved, known)' = Build(resolved', known')
<1>1. Position' = Position /\ Node' = Node /\ ProcedureExit' = ProcedureExit
      /\ ImageTermination' = ImageTermination
  BY UnitFrame
<1>2. \A labels : Branches(labels)' = Branches(labels)
  BY <1>1 DEF Branches
<1>3. \A n : Fallthrough(n)' = Fallthrough(n)
  BY <1>1 DEF Fallthrough
<1>4. \A n : LabelEdges(n, resolved, known)' = LabelEdges(n, resolved', known')
  BY <1>1, <1>2 DEF LabelEdges
<1>5. ASSUME NEW n PROVE BareEdges(n, known)' = BareEdges(n, known')
  <2>1. \A v : AssignedIn({m \in Position : ~ unit[m].conditional}, v)' =
               AssignedIn({m \in Position : ~ unit[m].conditional}, v)
    BY <1>1 DEF AssignedIn, Defines
  <2> QED BY <1>1, <1>2, <2>1 DEF BareEdges
<1>6. \A n : TerminationEdges(n)' = TerminationEdges(n)
  BY <1>1 DEF TerminationEdges
<1> QED BY <1>1, <1>3, <1>4, <1>5, <1>6 DEF Build

(***************************************************************************)
(* The graph built from given labels depends on the unit.                  *)
(***************************************************************************)
LEMMA BuildRigid ==
  ASSUME unit' = unit, NEW labels, NEW analysed
  PROVE  Build(labels, analysed)' = Build(labels, analysed)
<1>1. Position' = Position /\ Node' = Node /\ ProcedureExit' = ProcedureExit
      /\ ImageTermination' = ImageTermination
  BY UnitFrame
<1>2. \A list : Branches(list)' = Branches(list)
  BY <1>1 DEF Branches
<1>3. \A n : Fallthrough(n)' = Fallthrough(n)
  BY <1>1 DEF Fallthrough
<1>4. \A n : LabelEdges(n, labels, analysed)' = LabelEdges(n, labels, analysed)
  BY <1>1, <1>2 DEF LabelEdges
<1>5. ASSUME NEW n PROVE BareEdges(n, analysed)' = BareEdges(n, analysed)
  <2>1. \A v : AssignedIn({m \in Position : ~ unit[m].conditional}, v)' =
               AssignedIn({m \in Position : ~ unit[m].conditional}, v)
    BY <1>1 DEF AssignedIn, Defines
  <2> QED BY <1>1, <1>2, <2>1 DEF BareEdges
<1>6. \A n : TerminationEdges(n)' = TerminationEdges(n)
  BY <1>1 DEF TerminationEdges
<1> QED BY <1>1, <1>3, <1>4, <1>5, <1>6 DEF Build

(***************************************************************************)
(* Labels that stay the same build the same graph.                         *)
(***************************************************************************)
LEMMA BuildFrame ==
  ASSUME unit' = unit, resolved' = resolved, known' = known
  PROVE  Build(resolved, known)' = Build(resolved, known)
BY BuildOf

(***************************************************************************)
(* The solutions depend on the unit and the graph.                         *)
(***************************************************************************)
LEMMA SolveFrame ==
  ASSUME unit' = unit, graph' = graph
  PROVE  /\ \A v : Solve(v)' = Solve(v)
         /\ Solutions' = Solutions
         /\ Resolutions(Solutions)' = Resolutions(Solutions)
<1>1. /\ Position' = Position /\ Node' = Node /\ Uses' = Uses
      /\ \A v : Catalog(v)' = Catalog(v) /\ Entry(v)' = Entry(v)
  BY UnitFrame
<1>2. ASSUME NEW v, NEW states, NEW n
      PROVE  Incoming(states, v, n)' = Incoming(states, v, n)
  BY <1>1 DEF Incoming
<1>3. ASSUME NEW v PROVE Spread(v)' = Spread(v)
  BY <1>1, <1>2 DEF Spread
<1>4. ASSUME NEW v PROVE Solve(v)' = Solve(v)
  BY <1>1, <1>3 DEF Solve
<1>5. Solutions' = Solutions
  BY <1>4 DEF Solutions
<1>6. Resolutions(Solutions)' = Resolutions(Solutions)
  BY <1>1, <1>5 DEF Resolutions, Resolve, Suits, BranchTarget, Allowed
<1> QED BY <1>4, <1>5, <1>6


-----------------------------------------------------------------------------
(* The invariant.                                                          *)

\* What the last pass reports of all uses.
Reported(solutions) ==
  UNION {Complaints(n, solutions[unit[n].variable]) : n \in Uses}

\* While the uses are known, what is resolved is what the solutions of the
\* graph give, and at the end the graph is the one these labels build.
Phase ==
  /\ pc \in {"analyze", "rebuild", "diagnose", "done", "unconverged", "failed"}
  /\ pc \in {"rebuild", "diagnose", "done"} =>
       known = Uses /\ resolved = Resolutions(Solutions)
  /\ pc \in {"diagnose", "done"} => graph = Build(resolved, known)
  /\ diagnostics = IF pc = "done" THEN Reported(Solutions) ELSE {}

\* The running program is where the solutions expect it, with the values they
\* expect; a label it holds was assigned.
Execution ==
  /\ pc # "done" => at = 1 /\ values = [v \in Variable |-> Invalid]
  /\ at \in Node /\ values \in [Variable -> Label \union {Invalid}]
  /\ \A v \in Variable : values[v] # Invalid => values[v] \in ToSet(Catalog(v))
  /\ pc = "done" /\ at \in Position =>
       \A v \in Variable : Reached \in Solve(v)[at] /\ values[v] \in Solve(v)[at]

Invariant ==
  /\ unit \in Units
  /\ graph \in [Node -> Seq(Edge)] /\ resolved \in Labelling /\ known \in SUBSET Position
  /\ Phase
  /\ Execution

(***************************************************************************)
(* What is resolved at a use are labels of its catalog that reach it and   *)
(* suit it.                                                                *)
(***************************************************************************)
LEMMA ResolutionFacts ==
  ASSUME unit \in Units
  PROVE  /\ Resolutions(Solutions) \in Labelling
         /\ \A n \in Uses : ToSet(Resolutions(Solutions)[n]) =
              {l \in ToSet(Catalog(unit[n].variable)) \intersect Solve(unit[n].variable)[n] :
                 Suits(unit[n], l)}
         /\ \A n \in Position \ Uses : Resolutions(Solutions)[n] = << >>
<1>1. \A n \in Position : unit[n].variable \in Variable
  BY UnitFacts DEF Statement
<1>2. \A n \in Position : Solutions[unit[n].variable] = Solve(unit[n].variable)
  BY <1>1 DEF Solutions
<1>3. ASSUME NEW n \in Position
      PROVE  /\ Resolve(n, Solve(unit[n].variable)) \in Seq(Label)
             /\ ToSet(Resolve(n, Solve(unit[n].variable))) =
                  {l \in ToSet(Catalog(unit[n].variable)) \intersect Solve(unit[n].variable)[n] :
                     Suits(unit[n], l)}
  <2> DEFINE all == Catalog(unit[n].variable)
             chosen == {l \in Solve(unit[n].variable)[n] : Suits(unit[n], l)}
  <2>1. all \in Seq(Label)
    BY CatalogFacts
  <2>2. Resolve(n, Solve(unit[n].variable)) = Keep(all, chosen)
    BY DEF Resolve
  <2> HIDE DEF all, chosen
  <2>3. Keep(all, chosen) \in Seq(Label) /\ ToSet(Keep(all, chosen)) = ToSet(all) \intersect chosen
    BY <2>1, KeepFacts
  <2>4. Resolve(n, Solve(unit[n].variable)) \in Seq(Label)
    BY <2>2, <2>3
  <2>5. ToSet(Resolve(n, Solve(unit[n].variable))) = ToSet(all) \intersect chosen
    BY <2>2, <2>3
  <2> QED BY <2>4, <2>5 DEF all, chosen
<1>4. << >> \in Seq(Label)
  BY EmptySet
<1>5. Uses \subseteq Position
  BY DEF Uses
<1>6. Resolutions(Solutions) =
        [n \in Position |-> IF n \in Uses THEN Resolve(n, Solve(unit[n].variable)) ELSE << >>]
  BY <1>2 DEF Resolutions
<1>7. Resolutions(Solutions) \in Labelling
  BY <1>3, <1>4, <1>6 DEF Labelling
<1> QED BY <1>3, <1>5, <1>6, <1>7

(***************************************************************************)
(* The analysis starts with the invariant.                                 *)
(***************************************************************************)
LEMMA InitInvariant ==
  Init => Invariant
<1> SUFFICES ASSUME Init PROVE Invariant
  OBVIOUS
<1>1. unit \in Units /\ resolved = [n \in Position |-> << >>] /\ known = {}
  BY DEF Init
<1>2. resolved \in Labelling
  <2>1. << >> \in Seq(Label)
    BY EmptySet
  <2> QED BY <1>1, <2>1 DEF Labelling
<1>3. graph \in [Node -> Seq(Edge)]
  BY <1>1, <1>2, BuildFacts DEF Init
<1>4. Phase
  BY DEF Init, Phase
<1>5. Execution
  <2>1. at \in Node
    BY <1>1, UnitFacts DEF Init, Node, ImageTermination
  <2>2. values = [v \in Variable |-> Invalid] /\ at = 1 /\ pc = "analyze"
    BY DEF Init
  <2> QED BY <2>1, <2>2 DEF Execution
<1> QED BY <1>1, <1>2, <1>3, <1>4, <1>5 DEF Invariant


(***************************************************************************)
(* A program that has not started stays where it is.                       *)
(***************************************************************************)
LEMMA NotStarted ==
  ASSUME Execution, unit' = unit, at' = at, values' = values,
         pc # "done", pc' # "done"
  PROVE  Execution'
<1>1. /\ Position' = Position /\ Node' = Node
      /\ \A v : Catalog(v)' = Catalog(v)
  BY UnitFrame
<1> QED BY <1>1 DEF Execution

(***************************************************************************)
(* The steps of the analysis keep the invariant, up to its last pass.      *)
(***************************************************************************)
LEMMA AnalysisSteps ==
  Invariant /\ (Analyze \/ Rebuild \/ Fail) => Invariant'
<1> SUFFICES ASSUME Invariant, Analyze \/ Rebuild \/ Fail PROVE Invariant'
  OBVIOUS
<1>1. /\ unit \in Units /\ graph \in [Node -> Seq(Edge)] /\ resolved \in Labelling
      /\ known \in SUBSET Position /\ Phase /\ Execution
  BY DEF Invariant
<1>2. unit' = unit /\ at' = at /\ values' = values /\ diagnostics' = diagnostics
  BY DEF Analyze, Rebuild, Fail, program
<1>3. /\ Position' = Position /\ Node' = Node /\ Uses' = Uses
      /\ Edge' = Edge /\ Labelling' = Labelling
  BY <1>2, UnitFrame
<1>4. pc \in {"analyze", "rebuild", "diagnose"} /\ diagnostics = {}
  BY <1>1 DEF Analyze, Rebuild, Fail, Phase
<1>5. CASE Analyze
  <2>1. /\ resolved' = Resolutions(Solutions) /\ known' = Uses /\ pc' = "rebuild"
        /\ graph' = graph
    BY <1>5 DEF Analyze
  <2>2. Resolutions(Solutions)' = Resolutions(Solutions)
    BY <1>2, <2>1, SolveFrame
  <2>3. Phase'
    BY <1>2, <1>3, <1>4, <2>1, <2>2 DEF Phase
  <2>4. resolved' \in Labelling /\ known' \in SUBSET Position
    BY <1>1, <2>1, ResolutionFacts DEF Uses
  <2>5. Execution'
    BY <1>1, <1>2, <1>4, <2>1, NotStarted
  <2> QED BY <1>1, <1>2, <1>3, <2>1, <2>3, <2>4, <2>5 DEF Invariant
<1>6. CASE Rebuild
  <2>1. /\ resolved' = resolved /\ known' = known /\ pc = "rebuild"
        /\ graph' = Build(resolved, known)
        /\ pc' \in {"analyze", "unconverged", "diagnose"}
        /\ pc' = "diagnose" => graph' = graph
    BY <1>6 DEF Rebuild
  <2>2. Build(resolved, known)' = Build(resolved, known)
    BY <1>2, <2>1, BuildFrame
  <2>3. known = Uses /\ resolved = Resolutions(Solutions)
    BY <1>1, <2>1 DEF Phase
  <2>4. pc' = "diagnose" => Resolutions(Solutions)' = Resolutions(Solutions)
    BY <1>2, <2>1, SolveFrame
  <2>5. Phase'
    BY <1>2, <1>3, <1>4, <2>1, <2>2, <2>3, <2>4 DEF Phase
  <2>6. graph' \in [Node -> Seq(Edge)]
    BY <1>1, <2>1, BuildFacts
  <2>7. Execution'
    BY <1>1, <1>2, <1>4, <2>1, NotStarted
  <2> QED BY <1>1, <1>2, <1>3, <2>1, <2>5, <2>6, <2>7 DEF Invariant
<1>7. CASE Fail
  <2>1. resolved' = resolved /\ known' = known /\ graph' = graph /\ pc' = "failed"
    BY <1>7 DEF Fail
  <2>2. Phase'
    BY <1>2, <1>4, <2>1 DEF Phase
  <2>3. Execution'
    BY <1>1, <1>2, <1>4, <2>1, NotStarted
  <2> QED BY <1>1, <1>2, <1>3, <2>1, <2>2, <2>3 DEF Invariant
<1> QED BY <1>5, <1>6, <1>7

(***************************************************************************)
(* The last pass finds again what the pass before it found, and the        *)
(* program may start: at the entry no variable holds a label.              *)
(***************************************************************************)
LEMMA DiagnoseStep ==
  Invariant /\ Diagnose => Invariant'
<1> SUFFICES ASSUME Invariant, Diagnose PROVE Invariant'
  OBVIOUS
<1>1. /\ unit \in Units /\ graph \in [Node -> Seq(Edge)] /\ resolved \in Labelling
      /\ known \in SUBSET Position /\ Phase /\ Execution
  BY DEF Invariant
<1>2. /\ unit' = unit /\ at' = at /\ values' = values /\ graph' = graph /\ known' = known
      /\ pc = "diagnose" /\ pc' = "done" /\ resolved' = Resolutions(Solutions)
      /\ diagnostics' = Reported(Solutions)
  BY DEF Diagnose, program, Reported
<1>3. /\ Position' = Position /\ Node' = Node /\ Uses' = Uses
      /\ Edge' = Edge /\ Labelling' = Labelling
      /\ \A v : Catalog(v)' = Catalog(v)
  BY <1>2, UnitFrame
<1>4. /\ \A v : Solve(v)' = Solve(v)
      /\ Solutions' = Solutions /\ Resolutions(Solutions)' = Resolutions(Solutions)
  BY <1>2, SolveFrame
<1>5. resolved' = resolved /\ known = Uses /\ graph = Build(resolved, known)
  BY <1>1, <1>2 DEF Phase
<1>6. Build(resolved, known)' = Build(resolved, known)
  BY <1>2, <1>5, BuildFrame
<1>7. Reported(Solutions)' = Reported(Solutions)
  BY <1>2, <1>3, <1>4 DEF Reported, Complaints, Suits, BranchTarget, Allowed
<1>8. Phase'
  BY <1>2, <1>3, <1>4, <1>5, <1>6, <1>7 DEF Phase
<1>9. Execution'
  <2>1. at = 1 /\ values = [v \in Variable |-> Invalid] /\ at \in Node
        /\ \A v \in Variable : values[v] = Invalid
    BY <1>1, <1>2 DEF Execution
  <2>2. \A v \in Variable : {Reached, Invalid} \subseteq Solve(v)[1]
    BY <1>1, <2>1, SolveFacts DEF Entry
  <2>3. \A v \in Variable : Reached \in Solve(v)'[at'] /\ values'[v] \in Solve(v)'[at']
    BY <1>2, <1>4, <2>1, <2>2
  <2>4. /\ at' \in Node' /\ values' \in [Variable -> Label \union {Invalid}]
        /\ \A v \in Variable : values'[v] = Invalid
    BY <1>2, <1>3, <2>1
  <2> QED BY <1>2, <1>3, <2>3, <2>4 DEF Execution
<1> QED BY <1>1, <1>2, <1>3, <1>5, <1>8, <1>9 DEF Invariant


-----------------------------------------------------------------------------
(* The running program.                                                    *)

(***************************************************************************)
(* Once the analysis is done the graph has an edge for every way the       *)
(* program may go: to the next statement, to the label of a GOTO, and to   *)
(* every label that is resolved.                                           *)
(***************************************************************************)
LEMMA EdgesOut ==
  ASSUME Invariant, pc = "done", NEW n \in Position
  PROVE  /\ ~ IsTerminalTransfer(unit[n]) =>
              \E k \in DOMAIN graph[n] : graph[n][k].target = n + 1 /\ graph[n][k].kind # "branch"
         /\ unit[n].kind = "goto" =>
              \E k \in DOMAIN graph[n] : graph[n][k] = To(unit[n].labels[1], "branch")
         /\ unit[n].kind = "assigned_goto" =>
              \A l \in ToSet(resolved[n]) \intersect Position :
                \E k \in DOMAIN graph[n] : graph[n][k] = To(l, "branch")
<1>1. /\ unit \in Units /\ resolved \in Labelling /\ known = Uses /\ graph = Build(resolved, known)
  BY DEF Invariant, Phase
<1>2. /\ ToSet(Fallthrough(n)) \subseteq ToSet(graph[n])
      /\ ToSet(LabelEdges(n, resolved, known)) \subseteq ToSet(graph[n])
  BY <1>1, BuildFacts
<1>3. \A e \in ToSet(graph[n]) : \E k \in DOMAIN graph[n] : graph[n][k] = e
  BY DEF ToSet
<1>4. ASSUME ~ IsTerminalTransfer(unit[n])
      PROVE  \E e \in ToSet(graph[n]) : e.target = n + 1 /\ e.kind # "branch"
  <2>1. CASE n < Len(unit)
    <3> DEFINE e == To(n + 1, "fallthrough")
    <3>1. Fallthrough(n) = << e >> /\ e.target = n + 1 /\ e.kind # "branch"
      BY <1>4, <2>1 DEF Fallthrough, To
    <3> HIDE DEF e
    <3>2. e \in ToSet(Fallthrough(n))
      BY <3>1 DEF ToSet
    <3> QED BY <1>2, <3>1, <3>2
  <2>2. CASE ~ (n < Len(unit))
    <3> DEFINE e == To(ProcedureExit, "procedure_exit")
    <3>1. ProcedureExit = n + 1
      BY <1>1, <2>2, UnitFacts DEF Position, ProcedureExit
    <3>2. Fallthrough(n) = << e >> /\ e.target = n + 1 /\ e.kind # "branch"
      BY <1>4, <2>2, <3>1 DEF Fallthrough, To
    <3> HIDE DEF e
    <3>3. e \in ToSet(Fallthrough(n))
      BY <3>2 DEF ToSet
    <3> QED BY <1>2, <3>2, <3>3
  <2> QED BY <2>1, <2>2
<1>5. ASSUME unit[n].kind = "goto" PROVE To(unit[n].labels[1], "branch") \in ToSet(graph[n])
  <2>1. /\ unit[n].labels \in Seq(Label) /\ unit[n].labels[1] \in Position
        /\ 1 \in DOMAIN unit[n].labels
    BY <1>1, <1>5, UnitFacts
  <2>2. unit[n].labels[1] \in ToSet(unit[n].labels)
    BY <2>1 DEF ToSet
  <2>3. To(unit[n].labels[1], "branch") \in ToSet(Branches(unit[n].labels))
    BY <1>1, <2>1, <2>2, BranchesFacts
  <2>4. LabelEdges(n, resolved, known) = Branches(unit[n].labels)
    BY <1>5 DEF LabelEdges
  <2> QED BY <1>2, <2>3, <2>4
<1>6. ASSUME unit[n].kind = "assigned_goto", NEW l \in ToSet(resolved[n]) \intersect Position
      PROVE  To(l, "branch") \in ToSet(graph[n])
  <2>1. n \in known /\ resolved[n] \in Seq(Label)
    BY <1>1, <1>6 DEF Uses, IsUse, Labelling
  <2>2. To(l, "branch") \in ToSet(Branches(resolved[n]))
    BY <1>1, <2>1, BranchesFacts
  <2>3. LabelEdges(n, resolved, known) = Branches(resolved[n])
    BY <1>6, <2>1 DEF LabelEdges
  <2> QED BY <1>2, <2>2, <2>3
<1> QED BY <1>3, <1>4, <1>5, <1>6

(***************************************************************************)
(* The last pass resolves or reports every label the program may hold at   *)
(* a use.                                                                  *)
(***************************************************************************)
LEMMA HeldLabels ==
  ASSUME Invariant, pc = "done", at \in Position, IsUse(unit[at])
  PROVE  LET l == values[unit[at].variable] IN
         /\ l # Invalid /\ Suits(unit[at], l) => l \in ToSet(resolved[at])
         /\ l = Invalid \/ ~ Suits(unit[at], l) => << at, l >> \in diagnostics
<1> DEFINE x == unit[at].variable
           l == values[x]
<1>1. /\ unit \in Units /\ known = Uses /\ resolved = Resolutions(Solutions)
      /\ diagnostics = Reported(Solutions)
  BY DEF Invariant, Phase
<1>2. x \in Variable /\ at \in Uses
  BY <1>1, UnitFacts DEF Statement, Uses
<1>3. /\ l \in Solve(x)[at] /\ l \in Label \union {Invalid}
      /\ l # Invalid => l \in ToSet(Catalog(x))
  BY <1>2 DEF Invariant, Execution
<1>4. ASSUME l # Invalid, Suits(unit[at], l) PROVE l \in ToSet(resolved[at])
  BY <1>1, <1>2, <1>3, <1>4, ResolutionFacts
<1>5. ASSUME l = Invalid \/ ~ Suits(unit[at], l) PROVE << at, l >> \in diagnostics
  <2>1. l # Reached
    BY <1>1, <1>3, UnitFacts DEF Reached, Invalid, Label
  <2>2. << at, l >> \in Complaints(at, Solve(x))
    BY <1>3, <1>5, <2>1 DEF Complaints
  <2>3. Solutions[x] = Solve(x)
    BY <1>2 DEF Solutions
  <2> QED BY <1>1, <1>2, <2>2, <2>3 DEF Reported
<1> QED BY <1>4, <1>5

(***************************************************************************)
(* Whatever a statement does to a variable, the new value is among the     *)
(* labels that leave the statement.                                        *)
(***************************************************************************)
LEMMA EffectSound ==
  ASSUME Invariant, Run, NEW v \in Variable
  PROVE  LET out == Transfer(unit[at], v, Solve(v)[at]) IN
         /\ Reached \in out /\ values'[v] \in out
         /\ values'[v] \in Label \union {Invalid}
         /\ values'[v] # Invalid => values'[v] \in ToSet(Catalog(v))
<1> DEFINE in == Solve(v)[at]
           s == unit[at]
<1>1. unit \in Units /\ pc = "done" /\ at \in Position
  BY DEF Invariant, Run, Running
<1>2. /\ Reached \in in /\ values[v] \in in /\ values \in [Variable -> Label \union {Invalid}]
      /\ values[v] # Invalid => values[v] \in ToSet(Catalog(v))
  BY <1>1 DEF Invariant, Execution
<1> HIDE DEF in
<1>3. Reached \in Transfer(s, v, in)
  BY <1>2 DEF Transfer
<1>4. CASE values'[v] = values[v] /\ (Gen(s, v) = {} \/ s.conditional)
  BY <1>2, <1>3, <1>4 DEF Transfer, in
<1>5. CASE /\ Gen(s, v) = {values'[v]}
           /\ values'[v] \in Label \union {Invalid}
           /\ values'[v] # Invalid => values'[v] \in ToSet(Catalog(v))
  BY <1>2, <1>3, <1>5 DEF Transfer, in
<1>6. CASE s.conditional /\ Goes(at + 1)
  BY <1>4, <1>6 DEF Goes
<1>7. CASE Runs(s)
  <2>1. CASE s.kind = "assign_label"
    <3>1. values' = [values EXCEPT ![s.variable] = s.labels[1]]
      BY <1>7, <2>1 DEF Runs
    <3>2. CASE s.variable = v
      <4>1. Defines(s, v) /\ Gen(s, v) = {s.labels[1]}
        BY <2>1, <3>2 DEF Gen, Defines, Invalidates
      <4>2. s.labels[1] \in Label /\ s.labels[1] \in ToSet(Catalog(v))
        BY <1>1, <2>1, <4>1, UnitFacts, CatalogFacts
      <4>3. values'[v] = s.labels[1]
        BY <1>2, <3>1, <3>2
      <4> QED BY <1>5, <4>1, <4>2, <4>3
    <3>3. CASE s.variable # v
      <4>1. Gen(s, v) = {}
        BY <2>1, <3>3 DEF Gen, Defines, Invalidates
      <4>2. values'[v] = values[v]
        BY <1>2, <3>1, <3>3
      <4> QED BY <1>4, <4>1, <4>2
    <3> QED BY <3>2, <3>3
  <2>2. CASE s.kind = "assignment"
    <3>1. values' = [values EXCEPT ![s.variable] = Invalid]
      BY <1>7, <2>2 DEF Runs
    <3>2. CASE s.variable = v
      <4>1. Gen(s, v) = {Invalid}
        BY <2>2, <3>2 DEF Gen, Defines, Invalidates
      <4>2. values'[v] = Invalid
        BY <1>2, <3>1, <3>2
      <4> QED BY <1>5, <4>1, <4>2
    <3>3. CASE s.variable # v
      <4>1. Gen(s, v) = {}
        BY <2>2, <3>3 DEF Gen, Defines, Invalidates
      <4>2. values'[v] = values[v]
        BY <1>2, <3>1, <3>3
      <4> QED BY <1>4, <4>1, <4>2
    <3> QED BY <3>2, <3>3
  <2>3. CASE s.kind \notin {"assign_label", "assignment"}
    <3>1. Gen(s, v) = {}
      BY <2>3 DEF Gen, Defines, Invalidates
    <3>2. values' = values
      BY <1>7, <2>3 DEF Runs, Goes
    <3> QED BY <1>4, <3>1, <3>2
  <2> QED BY <2>1, <2>2, <2>3
<1> QED BY <1>6, <1>7 DEF Run


(***************************************************************************)
(* How control leaves a statement.                                         *)
(***************************************************************************)
LEMMA WaysOut ==
  ASSUME Invariant, Run
  PROVE  /\ \/ at' = at + 1 /\ ~ IsTerminalTransfer(unit[at])
            \/ unit[at].kind = "goto" /\ at' = unit[at].labels[1]
            \/ /\ unit[at].kind = "assigned_goto" /\ at' = values[unit[at].variable]
               /\ BranchTarget(at') /\ Allowed(unit[at], at')
            \/ at' = ImageTermination
         /\ values' \in [Variable -> Label \union {Invalid}]
         /\ at' \in Node
<1> DEFINE s == unit[at]
<1>1. /\ unit \in Units /\ at \in Position
      /\ values \in [Variable -> Label \union {Invalid}]
      /\ \/ Runs(s)
         \/ s.conditional /\ Goes(at + 1)
  BY DEF Invariant, Run, Running, Execution
<1>2. \/ at' = at + 1 /\ ~ IsTerminalTransfer(s)
      \/ s.kind = "goto" /\ at' = s.labels[1]
      \/ /\ s.kind = "assigned_goto" /\ at' = values[s.variable]
         /\ BranchTarget(at') /\ Allowed(s, at')
      \/ at' = ImageTermination
  <2>1. CASE s.conditional /\ Goes(at + 1)
    BY <2>1 DEF Goes, IsTerminalTransfer
  <2>2. CASE Runs(s)
    BY <2>2 DEF Runs, Goes, IsTerminalTransfer
  <2> QED BY <1>1, <2>1, <2>2
<1>3. values' \in [Variable -> Label \union {Invalid}]
  <2>1. s.kind = "assign_label" => s.labels[1] \in Label
    BY <1>1, UnitFacts
  <2>2. CASE s.conditional /\ Goes(at + 1)
    BY <1>1, <2>2 DEF Goes
  <2>3. CASE Runs(s)
    BY <1>1, <2>1, <2>3 DEF Runs, Goes
  <2> QED BY <1>1, <2>2, <2>3
<1>4. at' \in Node
  <2>1. \A n \in Position : n \in Node /\ n + 1 \in Node
    BY <1>1, UnitFacts
  <2>2. s.kind = "goto" => s.labels[1] \in Position
    BY <1>1, UnitFacts
  <2>3. ImageTermination \in Node
    BY <1>1, UnitFacts
  <2> QED BY <1>1, <1>2, <2>1, <2>2, <2>3 DEF BranchTarget
<1> QED BY <1>2, <1>3, <1>4

(***************************************************************************)
(* The program follows an edge of the graph, and one that is feasible for  *)
(* every variable.                                                         *)
(***************************************************************************)
LEMMA EdgeTaken ==
  ASSUME Invariant, Run, at' \in Position
  PROVE  \E k \in DOMAIN graph[at] :
           /\ graph[at][k].target = at'
           /\ \A v \in Variable :
                Feasible(unit[at], v, graph[at][k], Transfer(unit[at], v, Solve(v)[at]))
<1> DEFINE s == unit[at]
<1>1. unit \in Units /\ pc = "done" /\ at \in Position
  BY DEF Invariant, Run, Running
<1>2. at' # ImageTermination
  BY <1>1, UnitFacts DEF Position, ImageTermination
<1>3. CASE at' = at + 1 /\ ~ IsTerminalTransfer(s)
  <2>1. PICK k \in DOMAIN graph[at] : graph[at][k].target = at + 1 /\ graph[at][k].kind # "branch"
    BY <1>1, <1>3, EdgesOut
  <2> QED BY <1>3, <2>1 DEF Feasible
<1>4. CASE s.kind = "goto" /\ at' = s.labels[1]
  <2>1. PICK k \in DOMAIN graph[at] : graph[at][k] = To(at', "branch")
    BY <1>1, <1>4, EdgesOut
  <2> QED BY <1>4, <2>1 DEF Feasible, To
<1>5. CASE /\ s.kind = "assigned_goto" /\ at' = values[s.variable]
           /\ BranchTarget(at') /\ Allowed(s, at')
  <2>1. IsUse(s) /\ Suits(s, at')
    BY <1>5 DEF IsUse, Suits
  <2>2. at' # Invalid
    BY <1>1, <1>5, UnitFacts DEF BranchTarget, Position, Invalid
  <2>3. at' \in ToSet(resolved[at]) \intersect Position
    BY <1>1, <1>5, <2>1, <2>2, HeldLabels
  <2>4. PICK k \in DOMAIN graph[at] : graph[at][k] = To(at', "branch")
    BY <1>1, <1>5, <2>3, EdgesOut
  <2>5. ASSUME NEW v \in Variable, s.variable = v
        PROVE  at' \in Transfer(s, v, Solve(v)[at])
    <3>1. at' \in Solve(v)[at]
      BY <1>1, <1>5, <2>5 DEF Invariant, Execution
    <3>2. Gen(s, v) = {}
      BY <1>5 DEF Gen, Defines, Invalidates
    <3> QED BY <3>1, <3>2 DEF Transfer
  <2>6. graph[at][k].target = at'
    BY <2>4 DEF To
  <2> QED BY <2>5, <2>6 DEF Feasible
<1> QED BY <1>2, <1>3, <1>4, <1>5, WaysOut

(***************************************************************************)
(* The running program keeps the invariant.                                *)
(***************************************************************************)
LEMMA RunStep ==
  Invariant /\ Run => Invariant'
<1> SUFFICES ASSUME Invariant, Run PROVE Invariant'
  OBVIOUS
<1>1. /\ unit \in Units /\ graph \in [Node -> Seq(Edge)] /\ resolved \in Labelling
      /\ known \in SUBSET Position /\ Phase /\ Execution /\ pc = "done" /\ at \in Position
  BY DEF Invariant, Run, Running
<1>2. /\ unit' = unit /\ graph' = graph /\ resolved' = resolved /\ known' = known
      /\ pc' = pc /\ diagnostics' = diagnostics
  BY DEF Run
<1>3. /\ Position' = Position /\ Node' = Node /\ Uses' = Uses
      /\ Edge' = Edge /\ Labelling' = Labelling
      /\ \A v : Catalog(v)' = Catalog(v)
  BY <1>2, UnitFrame
<1>4. /\ \A v : Solve(v)' = Solve(v)
      /\ Solutions' = Solutions /\ Resolutions(Solutions)' = Resolutions(Solutions)
  BY <1>2, SolveFrame
<1>5. Build(resolved, known)' = Build(resolved, known)
  BY <1>2, BuildFrame
<1>6. Reported(Solutions)' = Reported(Solutions)
  BY <1>2, <1>3, <1>4 DEF Reported, Complaints, Suits, BranchTarget, Allowed
<1>7. Phase'
  BY <1>1, <1>2, <1>3, <1>4, <1>5, <1>6 DEF Phase
<1>8. at' \in Node /\ values' \in [Variable -> Label \union {Invalid}]
  BY WaysOut
<1>9. \A v \in Variable : values'[v] # Invalid => values'[v] \in ToSet(Catalog(v))
  BY EffectSound
<1>10. ASSUME at' \in Position, NEW v \in Variable
       PROVE  Reached \in Solve(v)[at'] /\ values'[v] \in Solve(v)[at']
  <2>1. PICK k \in DOMAIN graph[at] :
          /\ graph[at][k].target = at'
          /\ Feasible(unit[at], v, graph[at][k], Transfer(unit[at], v, Solve(v)[at]))
    BY <1>10, EdgeTaken
  <2>2. Reached \in Solve(v)[at]
    BY <1>1 DEF Execution
  <2>3. Transfer(unit[at], v, Solve(v)[at]) \subseteq Solve(v)[at']
    BY <1>1, <1>8, <2>1, <2>2, FlowAlongEdge
  <2> QED BY <2>3, EffectSound
<1>11. Execution'
  BY <1>1, <1>2, <1>3, <1>4, <1>8, <1>9, <1>10 DEF Execution
<1> QED BY <1>1, <1>2, <1>3, <1>7, <1>11 DEF Invariant


(***************************************************************************)
(* In every behaviour the solutions describe the running program.          *)
(***************************************************************************)
THEOREM InvariantHolds == Spec => []Invariant
<1>1. Init => Invariant
  BY InitInvariant
<1>2. Invariant /\ [Next]_vars => Invariant'
  <2> SUFFICES ASSUME Invariant, [Next]_vars PROVE Invariant'
    OBVIOUS
  <2>1. CASE Next
    BY <2>1, AnalysisSteps, DiagnoseStep, RunStep DEF Next
  <2>2. CASE UNCHANGED vars
    <3>1. /\ unit' = unit /\ graph' = graph /\ resolved' = resolved /\ known' = known
          /\ pc' = pc /\ diagnostics' = diagnostics /\ at' = at /\ values' = values
      BY <2>2 DEF vars
    <3>2. /\ Position' = Position /\ Node' = Node /\ Uses' = Uses
          /\ Edge' = Edge /\ Labelling' = Labelling
          /\ \A v : Catalog(v)' = Catalog(v)
      BY <3>1, UnitFrame
    <3>3. /\ \A v : Solve(v)' = Solve(v)
          /\ Solutions' = Solutions /\ Resolutions(Solutions)' = Resolutions(Solutions)
      BY <3>1, SolveFrame
    <3>4. Build(resolved, known)' = Build(resolved, known)
      BY <3>1, BuildFrame
    <3>5. Reported(Solutions)' = Reported(Solutions)
      BY <3>1, <3>2, <3>3 DEF Reported, Complaints, Suits, BranchTarget, Allowed
    <3>6. Phase'
      BY <3>1, <3>2, <3>3, <3>4, <3>5 DEF Invariant, Phase
    <3>7. Execution'
      BY <3>1, <3>2, <3>3 DEF Invariant, Execution
    <3> QED BY <3>1, <3>2, <3>6, <3>7 DEF Invariant
  <2> QED BY <2>1, <2>2
<1> QED BY <1>1, <1>2, PTL DEF Spec

(***************************************************************************)
(* Every label the program holds at a use has been resolved there or has   *)
(* been reported, whatever the unit: the graph that was cut down by        *)
(* assuming what it concludes misses no way the program goes.              *)
(***************************************************************************)
THEOREM ExecutionIsCovered == Spec => []ExecutionCovered
<1>1. Invariant => ExecutionCovered
  <2> SUFFICES ASSUME Invariant, Running, IsUse(unit[at])
               PROVE  \/ Contains(resolved[at], values[unit[at].variable])
                      \/ << at, values[unit[at].variable] >> \in diagnostics
    BY DEF ExecutionCovered
  <2>1. pc = "done" /\ at \in Position /\ resolved[at] \in Seq(Label)
    BY DEF Running, Invariant, Labelling
  <2>2. \/ values[unit[at].variable] \in ToSet(resolved[at])
        \/ << at, values[unit[at].variable] >> \in diagnostics
    BY <2>1, HeldLabels
  <2> QED BY <2>1, <2>2, ToSetFacts
<1> QED BY <1>1, InvariantHolds, PTL


-----------------------------------------------------------------------------
(* Where resolved labels come from.                                        *)

(***************************************************************************)
(* The nodes control may get to without losing a variable: they include    *)
(* those it starts from, and those next to them.                           *)
(***************************************************************************)
LEMMA ReachableFacts ==
  ASSUME unit \in Units, graph \in [Node -> Seq(Edge)], NEW v, NEW start \in SUBSET Node
  PROVE  /\ Reachable(v, start) \in SUBSET Node
         /\ start \subseteq Reachable(v, start)
         /\ Targets(Reachable(v, start) \intersect Keepers(v)) \subseteq Reachable(v, start)
<1> DEFINE more == Onward(v)
           R == Reachable(v, start)
<1>1. \A nodes \in SUBSET Node : Targets(nodes) \in SUBSET Node
  <2>1. \A m \in Node : \A j \in DOMAIN graph[m] : graph[m][j].target \in Node
    <3> SUFFICES ASSUME NEW m \in Node, NEW j \in DOMAIN graph[m]
                 PROVE  graph[m][j].target \in Node
      OBVIOUS
    <3>1. graph[m] \in Seq(Edge)
      OBVIOUS
    <3>2. graph[m][j] \in Edge
      BY <3>1
    <3> QED BY <3>2 DEF Edge
  <2> QED BY <2>1 DEF Targets
<1>2. more \in [SUBSET Node -> SUBSET Node]
  BY <1>1 DEF Onward
<1>3. \A d \in SUBSET Node : more[d] = d \union Targets(d \intersect Keepers(v))
  BY DEF Onward
<1>4. \A d \in SUBSET Node : d \subseteq more[d]
  BY <1>3
<1> HIDE DEF more
<1>5. IsFiniteSet(Node)
  BY FiniteDomains
<1>6. LeadsTo(Closure(more, start), start, SUBSET Node, more)
  BY <1>2, <1>4, <1>5, SetClosure
<1>7. LeadsTo(R, start, SUBSET Node, more)
  BY <1>6 DEF Reachable, more
<1> HIDE DEF R
<1>8. R \in SUBSET Node /\ more[R] = R
  BY <1>7 DEF LeadsTo
<1>9. Targets(R \intersect Keepers(v)) \subseteq R
  BY <1>3, <1>8
<1> DEFINE P == {d \in SUBSET Node : start \subseteq d}
<1>10. P \in SUBSET SUBSET Node /\ start \in P /\ \A d \in P : more[d] \in P
  BY <1>2, <1>4
<1>11. R \in P
  <2> HIDE DEF P
  <2> QED BY <1>7, <1>10 DEF LeadsTo
<1> QED BY <1>8, <1>9, <1>11 DEF R

(***************************************************************************)
(* A label reaches a node only along a way from a statement that assigns   *)
(* it, past statements that may keep it.                                   *)
(***************************************************************************)
LEMMA LabelsHaveOrigins ==
  ASSUME unit \in Units, graph \in [Node -> Seq(Edge)], NEW v, NEW l \in Label,
         NEW n \in Node, l \in Solve(v)[n]
  PROVE  n \in Reachable(v, Targets(Origins(v, l)))
<1> DEFINE start == Targets(Origins(v, l))
           R == Reachable(v, start)
           P == {states \in States : \A m \in Node : l \in states[m] => m \in R}
<1>1. start \in SUBSET Node
  <2>1. \A m \in Position : m \in Node /\ graph[m] \in Seq(Edge)
    BY UnitFacts
  <2>2. \A m \in Position : \A j \in DOMAIN graph[m] : graph[m][j] \in Edge
    BY <2>1
  <2>3. \A m \in Position : \A j \in DOMAIN graph[m] : graph[m][j].target \in Node
    BY <2>2 DEF Edge
  <2> QED BY <2>3 DEF Targets, Origins
<1> HIDE DEF start
<1>2. /\ start \subseteq R
      /\ Targets(R \intersect Keepers(v)) \subseteq R
  BY <1>1, ReachableFacts
<1>3. l # Invalid /\ l # Reached
  BY UnitFacts DEF Label, Invalid, Reached
<1> HIDE DEF R
<1>4. Entry(v) \in P
  BY <1>3, SpreadFacts DEF Entry
<1>5. ASSUME NEW states \in P, NEW m \in Node, l \in Spread(v)[states][m]
      PROVE  m \in R
  <2>1. CASE l \in states[m]
    BY <2>1
  <2>2. CASE l \in Incoming(states, v, m)
    <3>1. PICK p \in Position : /\ \E k \in DOMAIN graph[p] : graph[p][k].target = m
                                /\ l \in Transfer(unit[p], v, states[p])
      BY <2>2 DEF Incoming
    <3>2. p \in Node
      BY UnitFacts
    <3>3. CASE l \in Gen(unit[p], v)
      <4>1. Defines(unit[p], v) /\ unit[p].labels[1] = l
        BY <1>3, <3>3 DEF Gen
      <4>2. p \in Origins(v, l)
        BY <4>1 DEF Origins
      <4>3. m \in Targets(Origins(v, l))
        BY <3>1, <4>2 DEF Targets
      <4> QED BY <1>2, <4>3 DEF start
    <3>4. CASE l \notin Gen(unit[p], v)
      <4>1. l \in states[p] /\ p \in Keepers(v)
        BY <1>3, <3>1, <3>4 DEF Transfer, Keepers
      <4>2. p \in R \intersect Keepers(v)
        BY <3>2, <4>1
      <4>3. m \in Targets(R \intersect Keepers(v))
        BY <3>1, <4>2 DEF Targets
      <4> QED BY <1>2, <4>3
    <3> QED BY <3>3, <3>4
  <2>3. states \in States
    OBVIOUS
  <2> HIDE DEF P
  <2>4. l \in states[m] \union Incoming(states, v, m)
    BY <1>5, <2>3, SpreadFacts
  <2> QED BY <2>1, <2>2, <2>4
<1>6. ASSUME NEW states \in P PROVE Spread(v)[states] \in P
  BY <1>5, SpreadFacts
<1>7. Solve(v) \in P
  <2>1. P \in SUBSET States
    OBVIOUS
  <2> HIDE DEF P
  <2> QED BY <1>4, <1>6, <2>1, SolveFacts DEF LeadsTo
<1> QED BY <1>7 DEF R, start

(***************************************************************************)
(* No label is resolved that no statement can have left in the variable.   *)
(***************************************************************************)
THEOREM ResolvedLabelsAreAssigned == Spec => []ResolvedIsAssigned
<1>1. Invariant => ResolvedIsAssigned
  <2> SUFFICES ASSUME Invariant, pc = "done", NEW n \in Uses, NEW k \in DOMAIN resolved[n]
               PROVE  n \in Reachable(unit[n].variable,
                                      Targets(Origins(unit[n].variable, resolved[n][k])))
    BY DEF ResolvedIsAssigned
  <2> DEFINE x == unit[n].variable
             l == resolved[n][k]
  <2>1. /\ unit \in Units /\ graph \in [Node -> Seq(Edge)] /\ resolved = Resolutions(Solutions)
        /\ resolved \in Labelling /\ n \in Position
    BY DEF Invariant, Phase, Uses
  <2>2. resolved[n] \in Seq(Label) /\ n \in Node
    BY <2>1, UnitFacts DEF Labelling
  <2>3. l \in Label /\ l \in ToSet(resolved[n])
    BY <2>2 DEF ToSet
  <2>4. l \in Solve(x)[n]
    BY <2>1, <2>3, ResolutionFacts
  <2> QED BY <2>1, <2>2, <2>3, <2>4, LabelsHaveOrigins
<1> QED BY <1>1, InvariantHolds, PTL


-----------------------------------------------------------------------------
(* Refinement.                                                             *)

\* SolveFacts for all variables as a formula, to be had in the next state.
AllSolved ==
  unit \in Units =>
    \A v : /\ Solve(v) \in States
          /\ LeadsTo(Solve(v), Entry(v), States, Spread(v))

(***************************************************************************)
(* The solutions are solutions in the next state, too.                     *)
(***************************************************************************)
LEMMA SolvedNext == AllSolved'
<1>1. AllSolved
  BY SolveFacts DEF AllSolved
<1> QED BY <1>1, PTL

\* ResolutionFacts as a formula, to be had in the next state.
ResolutionsExact ==
  unit \in Units =>
    \A n \in Uses : ToSet(Resolutions(Solutions)[n]) =
      {l \in ToSet(Catalog(unit[n].variable)) \intersect Solve(unit[n].variable)[n] :
         Suits(unit[n], l)}

(***************************************************************************)
(* The labels resolved are exact in the next state, too.                   *)
(***************************************************************************)
LEMMA ExactNext == ResolutionsExact'
<1>1. ResolutionsExact
  BY ResolutionFacts DEF ResolutionsExact
<1> QED BY <1>1, PTL

(***************************************************************************)
(* What is resolved in the next state are the labels that reach there.     *)
(***************************************************************************)
LEMMA ResolvedNext ==
  ASSUME unit \in Units, unit' = unit, NEW n \in Uses
  PROVE  ToSet(Resolutions(Solutions)'[n]) =
           {l \in ToSet(Catalog(unit[n].variable)) \intersect Solve(unit[n].variable)'[n] :
              Suits(unit[n], l)}
<1>1. Position' = Position /\ Uses' = Uses /\ \A v : Catalog(v)' = Catalog(v)
  BY UnitFrame
<1> QED BY <1>1, ExactNext DEF ResolutionsExact, Suits, BranchTarget, Allowed

(***************************************************************************)
(* What arrives in a smaller graph from smaller states is less.            *)
(***************************************************************************)
LEMMA IncomingShrinks ==
  ASSUME unit \in Units, unit' = unit, \A n \in Node : ToSet(graph'[n]) \subseteq ToSet(graph[n]),
         NEW less \in States, NEW states \in States,
         \A n \in Node : less[n] \subseteq states[n], NEW v, NEW n
  PROVE  Incoming(less, v, n)' \subseteq Incoming(states, v, n)
<1> SUFFICES ASSUME NEW x, x \in Incoming(less, v, n)' PROVE x \in Incoming(states, v, n)
  OBVIOUS
<1> DEFINE Out(from, m) == Transfer(unit[m], v, from[m])
<1>1. Position' = Position
  BY UnitFrame
<1>2. PICK m \in Position :
        /\ Reached \in less[m] /\ x \in Out(less, m)
        /\ \E k \in DOMAIN graph'[m] : /\ graph'[m][k].target = n
                                      /\ Feasible(unit[m], v, graph'[m][k], Out(less, m))
  BY <1>1 DEF Incoming
<1>3. PICK k \in DOMAIN graph'[m] : /\ graph'[m][k].target = n
                                   /\ Feasible(unit[m], v, graph'[m][k], Out(less, m))
  BY <1>2
<1>4. m \in Node
  BY UnitFacts
<1>5. PICK j \in DOMAIN graph[m] : graph[m][j] = graph'[m][k]
  <2>1. graph'[m][k] \in ToSet(graph'[m])
    BY DEF ToSet
  <2>2. graph'[m][k] \in ToSet(graph[m])
    BY <1>4, <2>1
  <2> QED BY <2>2 DEF ToSet
<1>6. /\ less[m] \in SUBSET Facts /\ states[m] \in SUBSET Facts
      /\ less[m] \subseteq states[m]
  BY <1>4 DEF States
<1>7. Out(less, m) \subseteq Out(states, m)
  BY <1>6, TransferFacts
<1>8. Feasible(unit[m], v, graph[m][j], Out(states, m))
  BY <1>3, <1>5, <1>7 DEF Feasible
<1>9. x \in Out(states, m) /\ Reached \in states[m] /\ graph[m][j].target = n
  BY <1>2, <1>3, <1>5, <1>6, <1>7
<1> QED BY <1>8, <1>9 DEF Incoming

(***************************************************************************)
(* In a smaller graph less reaches every node.                             *)
(***************************************************************************)
LEMMA SolveShrinks ==
  ASSUME unit \in Units, unit' = unit, \A n \in Node : ToSet(graph'[n]) \subseteq ToSet(graph[n]),
         NEW v
  PROVE  \A n \in Node : Solve(v)'[n] \subseteq Solve(v)[n]
<1> DEFINE new == Solve(v)'
           more == Spread(v)'
           P == {states \in States : \A n \in Node : states[n] \subseteq Solve(v)[n]}
<1>1. Node' = Node /\ States' = States /\ Entry(v)' = Entry(v)
  BY UnitFrame
<1>2. LeadsTo(new, Entry(v), States, more)
  BY <1>1, SolvedNext DEF AllSolved
<1>3. Entry(v) \in P
  BY SpreadFacts, SolveFacts
<1>4. ASSUME NEW states \in P PROVE more[states] \in P
  <2>1. more[states] = [n \in Node |-> states[n] \union Incoming(states, v, n)']
    BY <1>1 DEF Spread, States
  <2>2. /\ states \in States /\ Solve(v) \in States
        /\ \A n \in Node : states[n] \subseteq Solve(v)[n]
    BY SolveFacts
  <2>3. ASSUME NEW n \in Node PROVE Incoming(states, v, n)' \subseteq Solve(v)[n]
    <3>1. Incoming(states, v, n)' \subseteq Incoming(Solve(v), v, n)
      BY <2>2, IncomingShrinks
    <3> QED BY <3>1, SolveFacts
  <2>4. \A n \in Node : Solve(v)[n] \in SUBSET Facts
    BY <2>2 DEF States
  <2>5. \A n \in Node : more[states][n] = states[n] \union Incoming(states, v, n)'
    BY <2>1
  <2>6. \A n \in Node : more[states][n] \subseteq Solve(v)[n]
    BY <2>2, <2>3, <2>5
  <2>7. more[states] \in States
    BY <2>1, <2>4, <2>5, <2>6 DEF States
  <2> QED BY <2>6, <2>7
<1>5. new \in P
  <2>1. P \in SUBSET States
    OBVIOUS
  <2> HIDE DEF P, new, more
  <2> QED BY <1>2, <1>3, <1>4, <2>1 DEF LeadsTo
<1> QED BY <1>5


(***************************************************************************)
(* When labels are only assigned at top level, the graph built from the    *)
(* labels that reach the uses has no edge that the graph before had not:   *)
(* every such label was listed, assigned at top level, or resolved before. *)
(***************************************************************************)
LEMMA BuildShrinks ==
  ASSUME unit \in Units, AssignsAtTopLevel, NEW old \in Labelling, NEW new \in Labelling,
         NEW analysed \in {{}, Uses},
         \A n \in Uses : \A l \in ToSet(new[n]) :
           Suits(unit[n], l) /\ l \in ToSet(Catalog(unit[n].variable)),
         analysed = Uses => \A n \in Uses : ToSet(new[n]) \subseteq ToSet(old[n])
  PROVE  \A n \in Node : ToSet(Build(new, Uses)[n]) \subseteq ToSet(Build(old, analysed)[n])
<1> SUFFICES ASSUME NEW n \in Node
             PROVE  ToSet(Build(new, Uses)[n]) \subseteq ToSet(Build(old, analysed)[n])
  OBVIOUS
<1>1. CASE n \notin Position
  BY <1>1, BuildFacts
<1>2. CASE n \in Position
  <2>1. LabelEdges(n, new, Uses) = LabelEdges(n, old, analysed)
          \/ unit[n].kind = "assigned_goto"
    BY DEF LabelEdges
  <2>2. BareEdges(n, Uses) = << >>
    BY <1>2 DEF BareEdges, Uses, IsUse
  <2>3. ToSet(BareEdges(n, Uses)) = {}
    BY <2>2, EmptySet
  <2>4. ASSUME unit[n].kind = "assigned_goto"
        PROVE  ToSet(LabelEdges(n, new, Uses)) \subseteq
                 ToSet(LabelEdges(n, old, analysed)) \union ToSet(BareEdges(n, analysed))
    <3> DEFINE x == unit[n].variable
               chosen == {m \in Position : ~ unit[m].conditional}
    <3>1. n \in Uses
      BY <1>2, <2>4 DEF Uses, IsUse
    <3>2. new[n] \in Seq(Label) /\ old[n] \in Seq(Label) /\ unit[n].labels \in Seq(Label)
      BY <1>2, UnitFacts DEF Labelling
    <3>3. LabelEdges(n, new, Uses) = Branches(new[n])
      BY <2>4, <3>1 DEF LabelEdges
    <3> SUFFICES ASSUME NEW l \in ToSet(new[n]), l \in Position
                 PROVE  To(l, "branch") \in
                          ToSet(LabelEdges(n, old, analysed)) \union ToSet(BareEdges(n, analysed))
      BY <3>2, <3>3, BranchesFacts
    <3>4. CASE analysed = Uses
      <4>1. l \in ToSet(old[n])
        BY <3>1, <3>4
      <4>2. LabelEdges(n, old, analysed) = Branches(old[n])
        BY <2>4, <3>1, <3>4 DEF LabelEdges
      <4> QED BY <3>2, <4>1, <4>2, BranchesFacts
    <3>5. CASE analysed = {}
      <4>1. LabelEdges(n, old, analysed) = Branches(unit[n].labels)
        BY <2>4, <3>5 DEF LabelEdges
      <4>2. CASE unit[n].labels # << >>
        <5>1. Contains(unit[n].labels, l)
          BY <2>4, <3>1, <4>2 DEF Suits, Allowed
        <5>2. l \in ToSet(unit[n].labels)
          BY <3>2, <5>1, ToSetFacts
        <5> QED BY <3>2, <4>1, <5>2, BranchesFacts
      <4>3. CASE unit[n].labels = << >>
        <5>1. PICK m \in Position : Defines(unit[m], x) /\ unit[m].labels[1] = l
          BY <3>1, CatalogFacts
        <5>2. m \in chosen
          BY <5>1 DEF AssignsAtTopLevel, Defines
        <5>3. chosen \in SUBSET Position
          OBVIOUS
        <5> HIDE DEF chosen
        <5>4. /\ AssignedIn(chosen, x) \in Seq(Label)
              /\ l \in ToSet(AssignedIn(chosen, x))
          BY <5>1, <5>2, <5>3, AssignedInFacts
        <5>5. To(l, "branch") \in ToSet(Branches(AssignedIn(chosen, x)))
          BY <5>4, BranchesFacts
        <5>6. BareEdges(n, analysed) = Branches(AssignedIn(chosen, x))
          BY <2>4, <3>5, <4>3 DEF BareEdges, chosen
        <5> QED BY <5>5, <5>6
      <4> QED BY <4>2, <4>3
    <3> QED BY <3>4, <3>5
  <2>5. ToSet(LabelEdges(n, new, Uses)) \subseteq
          ToSet(LabelEdges(n, old, analysed)) \union ToSet(BareEdges(n, analysed))
    BY <2>1, <2>4
  <2>6. ToSet(Build(new, Uses)[n]) =
          ToSet(Fallthrough(n)) \union ToSet(LabelEdges(n, new, Uses))
            \union ToSet(BareEdges(n, Uses)) \union ToSet(TerminationEdges(n))
    BY <1>2, BuildFacts
  <2>7. ToSet(Build(old, analysed)[n]) =
          ToSet(Fallthrough(n)) \union ToSet(LabelEdges(n, old, analysed))
            \union ToSet(BareEdges(n, analysed)) \union ToSet(TerminationEdges(n))
    BY <1>2, BuildFacts
  <2> QED BY <2>3, <2>5, <2>6, <2>7
<1> QED BY <1>1, <1>2

\* The graph is the one the labels build; the labels its solutions give next
\* are no new ones, and the graph these build has no new edges.
Refining ==
  /\ known \in {{}, Uses}
  /\ pc = "analyze" => graph = Build(resolved, known)
  /\ AssignsAtTopLevel =>
       /\ pc = "analyze" /\ known = Uses =>
            \A n \in Uses : ToSet(Resolutions(Solutions)[n]) \subseteq ToSet(resolved[n])
       /\ pc = "rebuild" =>
            \A n \in Node : ToSet(Build(resolved, known)[n]) \subseteq ToSet(graph[n])

(***************************************************************************)
(* In every behaviour the refinement goes one way.                         *)
(***************************************************************************)
LEMMA RefinesOneWay == Spec => []Refining
<1>1. Init => Refining
  <2> SUFFICES ASSUME Init PROVE Refining
    OBVIOUS
  <2>1. known = {} /\ pc = "analyze" /\ graph = Build(resolved, known)
    BY DEF Init
  <2> QED BY <2>1 DEF Refining
<1>2. Invariant /\ Refining /\ [Next]_vars => Refining'
  <2> SUFFICES ASSUME Invariant, Refining, [Next]_vars PROVE Refining'
    OBVIOUS
  <2>1. /\ unit \in Units /\ graph \in [Node -> Seq(Edge)] /\ resolved \in Labelling
        /\ Phase
    BY DEF Invariant
  <2>2. unit' = unit
    BY DEF Next, Analyze, Rebuild, Diagnose, Fail, Run, vars
  <2>3. /\ Position' = Position /\ Node' = Node /\ Uses' = Uses
        /\ AssignsAtTopLevel' = AssignsAtTopLevel
    BY <2>2, UnitFrame DEF AssignsAtTopLevel
  <2>4. CASE Analyze
    <3>1. /\ pc = "analyze" /\ pc' = "rebuild" /\ known' = Uses /\ graph' = graph
          /\ resolved' = Resolutions(Solutions)
      BY <2>4 DEF Analyze
    <3>2. Resolutions(Solutions) \in Labelling
      BY <2>1, ResolutionFacts
    <3>3. ASSUME AssignsAtTopLevel
          PROVE  \A n \in Node : ToSet(Build(Resolutions(Solutions), Uses)[n]) \subseteq ToSet(graph[n])
      <4>1. \A n \in Uses : \A l \in ToSet(Resolutions(Solutions)[n]) :
              Suits(unit[n], l) /\ l \in ToSet(Catalog(unit[n].variable))
        BY <2>1, ResolutionFacts
      <4>2. /\ known \in {{}, Uses} /\ graph = Build(resolved, known)
            /\ known = Uses =>
                 \A n \in Uses : ToSet(Resolutions(Solutions)[n]) \subseteq ToSet(resolved[n])
        BY <3>1, <3>3 DEF Refining
      <4> DEFINE new == Resolutions(Solutions)
      <4> HIDE DEF new
      <4>3. \A n \in Node : ToSet(Build(new, Uses)[n]) \subseteq ToSet(Build(resolved, known)[n])
        BY <2>1, <3>2, <3>3, <4>1, <4>2, BuildShrinks DEF new
      <4> QED BY <4>2, <4>3 DEF new
    <3>4. Build(resolved, known)' = Build(Resolutions(Solutions), Uses)
      BY <2>2, <3>1, BuildOf
    <3> QED BY <2>3, <3>1, <3>3, <3>4 DEF Refining
  <2>5. CASE Rebuild
    <3>1. /\ pc = "rebuild" /\ resolved' = resolved /\ known' = known
          /\ graph' = Build(resolved, known) /\ pc' # "rebuild"
      BY <2>5 DEF Rebuild
    <3>2. known = Uses /\ resolved = Resolutions(Solutions)
      BY <2>1, <3>1 DEF Phase
    <3>3. Build(resolved, known)' = Build(resolved, known)
      BY <2>2, <3>1, BuildFrame
    <3>4. ASSUME AssignsAtTopLevel, NEW n \in Uses
          PROVE  ToSet(Resolutions(Solutions)'[n]) \subseteq ToSet(resolved[n])
      <4>1. \A m \in Node : ToSet(graph'[m]) \subseteq ToSet(graph[m])
        BY <3>1, <3>4 DEF Refining
      <4>2. n \in Position /\ n \in Node
        BY <2>1, UnitFacts DEF Uses
      <4>3. Solve(unit[n].variable)'[n] \subseteq Solve(unit[n].variable)[n]
        BY <2>1, <2>2, <4>1, <4>2, SolveShrinks
      <4>4. ToSet(Resolutions(Solutions)[n]) =
              {l \in ToSet(Catalog(unit[n].variable)) \intersect Solve(unit[n].variable)[n] :
                 Suits(unit[n], l)}
        BY <2>1, ResolutionFacts
      <4>5. ToSet(Resolutions(Solutions)'[n]) =
              {l \in ToSet(Catalog(unit[n].variable)) \intersect Solve(unit[n].variable)'[n] :
                 Suits(unit[n], l)}
        BY <2>1, <2>2, <2>3, <4>2, ResolvedNext
      <4> QED BY <3>2, <4>3, <4>4, <4>5
    <3> QED BY <2>3, <3>1, <3>2, <3>3, <3>4 DEF Refining
  <2>6. CASE Diagnose \/ Fail \/ Run
    <3>1. known' = known /\ pc' \notin {"analyze", "rebuild"}
      BY <2>6 DEF Diagnose, Fail, Run, Running
    <3> QED BY <2>3, <3>1 DEF Refining
  <2>7. CASE UNCHANGED vars
    <3>1. /\ graph' = graph /\ resolved' = resolved /\ known' = known /\ pc' = pc
      BY <2>7 DEF vars
    <3>2. Resolutions(Solutions)' = Resolutions(Solutions)
      BY <2>2, <3>1, SolveFrame
    <3>3. Build(resolved, known)' = Build(resolved, known)
      BY <2>2, <3>1, BuildFrame
    <3> QED BY <2>3, <3>1, <3>2, <3>3 DEF Refining
  <2> QED BY <2>4, <2>5, <2>6, <2>7 DEF Next
<1> QED BY <1>1, <1>2, InvariantHolds, PTL DEF Spec


(***************************************************************************)
(* No step adds an edge when labels are only assigned at top level.        *)
(***************************************************************************)
THEOREM RefinementOnlyRemoves == Spec => RefinementRemovesEdges
<1> DEFINE Removes == AssignsAtTopLevel =>
                        \A n \in Node : ToSet(graph'[n]) \subseteq ToSet(graph[n])
<1>1. Refining /\ [Next]_vars => [Removes]_vars
  <2> SUFFICES ASSUME Refining, Next, AssignsAtTopLevel, NEW n \in Node
               PROVE  ToSet(graph'[n]) \subseteq ToSet(graph[n])
    OBVIOUS
  <2>1. CASE Rebuild
    <3>1. pc = "rebuild" /\ (graph' = Build(resolved, known) \/ graph' = graph)
      BY <2>1 DEF Rebuild
    <3> QED BY <3>1 DEF Refining
  <2>2. CASE Analyze \/ Diagnose \/ Fail \/ Run
    <3>1. graph' = graph
      BY <2>2 DEF Analyze, Diagnose, Fail, Run
    <3> QED BY <3>1
  <2> QED BY <2>1, <2>2 DEF Next
<1> QED BY <1>1, RefinesOneWay, PTL DEF Spec, RefinementRemovesEdges


-----------------------------------------------------------------------------
(* Counting edges.                                                         *)

(***************************************************************************)
(* A list without duplicates is as long as the set of its elements is      *)
(* large.                                                                  *)
(***************************************************************************)
LEMMA DistinctLength ==
  ASSUME NEW A, NEW s \in Seq(A), Distinct(s)
  PROVE  IsFiniteSet(ToSet(s)) /\ Cardinality(ToSet(s)) = Len(s)
<1>1. Len(s) \in Nat /\ DOMAIN s = 1 .. Len(s)
  OBVIOUS
<1>2. s \in Bijection(1 .. Len(s), ToSet(s))
  <2>1. s \in [1 .. Len(s) -> ToSet(s)]
    BY <1>1 DEF ToSet
  <2>2. \A i, j \in 1 .. Len(s) : s[i] = s[j] => i = j
    BY <1>1 DEF Distinct
  <2>3. \A x \in ToSet(s) : \E i \in 1 .. Len(s) : s[i] = x
    BY <1>1 DEF ToSet
  <2> QED BY <2>1, <2>2, <2>3 DEF Bijection, Injection, Surjection, IsInjective
<1>3. ExistsBijection(1 .. Len(s), ToSet(s))
  BY <1>2 DEF ExistsBijection
<1>4. Cardinality(ToSet(s)) = Len(s)
  BY <1>1, <1>3, FS_CountingElements
<1>5. IsFiniteSet(ToSet(s))
  BY <1>1, <1>3, FS_NatBijection
<1> QED BY <1>4, <1>5

(***************************************************************************)
(* A list of fewer elements is shorter.                                    *)
(***************************************************************************)
LEMMA FewerElements ==
  ASSUME NEW A, NEW s \in Seq(A), NEW t \in Seq(A), Distinct(s), Distinct(t),
         ToSet(s) \subseteq ToSet(t)
  PROVE  Len(s) <= Len(t) /\ (ToSet(s) # ToSet(t) => Len(s) < Len(t))
<1>1. /\ Cardinality(ToSet(s)) = Len(s) /\ Cardinality(ToSet(t)) = Len(t)
      /\ IsFiniteSet(ToSet(t)) /\ ToSet(s) \in SUBSET ToSet(t)
  BY DistinctLength
<1>2. /\ Cardinality(ToSet(s)) <= Cardinality(ToSet(t))
      /\ Cardinality(ToSet(t)) = Cardinality(ToSet(s)) => ToSet(t) = ToSet(s)
  BY <1>1, FS_Subset
<1>3. Len(s) \in Nat /\ Len(t) \in Nat
  OBVIOUS
<1> QED BY <1>1, <1>2, <1>3


(***************************************************************************)
(* The number of edges is summed up node by node.                          *)
(***************************************************************************)
LEMMA CountSteps ==
  ASSUME NEW A, NEW n \in Nat, NEW g \in [1 .. n -> Seq(A)]
  PROVE  \E h \in [0 .. n -> Nat] :
           /\ h[0] = 0 /\ h[n] = EdgeCount(g)
           /\ \A m \in 0 .. n - 1 : h[m + 1] = h[m] + Len(g[m + 1])
<1> DEFINE step == [p \in Nat \X (1 .. n) |-> p[1] + Len(g[p[2]])]
           Is(f) == f = [s \in SUBSET (1 .. n) |->
                           IF s = {} THEN 0 ELSE f[s \ {Max(s)}] + Len(g[Max(s)])]
           f == CHOOSE f : Is(f)
<1>1. \A i \in 1 .. n : Len(g[i]) \in Nat
  OBVIOUS
<1>2. Is(f)
  <2>1. step \in [Nat \X (1 .. n) -> Nat]
    BY <1>1
  <2>2. \A k \in Nat, i \in 1 .. n : step[<< k, i >>] = k + Len(g[i])
    OBVIOUS
  <2> HIDE DEF step
  <2>3. PICK e \in [SUBSET (1 .. n) -> Nat] : FoldsBy(e, 0, n, step)
    BY <2>1, FoldExists
  <2>4. \A s \in SUBSET (1 .. n) : s # {} => Max(s) \in 1 .. n /\ e[s \ {Max(s)}] \in Nat
    <3> SUFFICES ASSUME NEW s \in SUBSET (1 .. n), s # {}
                 PROVE  Max(s) \in 1 .. n /\ e[s \ {Max(s)}] \in Nat
      OBVIOUS
    <3>1. Max(s) \in s
      BY LargestExists
    <3> QED BY <3>1
  <2>5. \A s \in SUBSET (1 .. n) : e[s] = IF s = {} THEN 0
                                          ELSE e[s \ {Max(s)}] + Len(g[Max(s)])
    BY <2>2, <2>3, <2>4 DEF FoldsBy
  <2>6. Is(e)
    BY <2>5
  <2> HIDE DEF Is
  <2> QED BY <2>6
<1>3. EdgeCount(g) = f[1 .. n]
  <2>1. DOMAIN g = 1 .. n
    OBVIOUS
  <2> QED BY <2>1 DEF EdgeCount, FoldLeft, MapThenFoldSet
<1> HIDE DEF f
<1>4. f[1 .. 0] = 0
  <2>1. 1 .. 0 = {} /\ {} \in SUBSET (1 .. n)
    OBVIOUS
  <2> QED BY <1>2, <2>1
<1>5. ASSUME NEW m \in 0 .. n - 1 PROVE f[1 .. m + 1] = f[1 .. m] + Len(g[m + 1])
  <2>1. m \in Nat /\ 1 .. m + 1 \in SUBSET (1 .. n) /\ 1 .. m + 1 # {}
    <3>1. m \in Nat /\ m + 1 <= n /\ m + 1 \in 1 .. m + 1
      OBVIOUS
    <3>2. 1 .. m + 1 \subseteq 1 .. n
      BY <3>1
    <3> QED BY <3>1, <3>2
  <2>2. Max(1 .. m + 1) = m + 1 /\ (1 .. m + 1) \ {m + 1} = 1 .. m
    BY <2>1, LargestFirst
  <2> DEFINE s == 1 .. m + 1
  <2> HIDE DEF s
  <2>3. f[s] = f[s \ {Max(s)}] + Len(g[Max(s)])
    BY <1>2, <2>1 DEF s
  <2> QED BY <2>2, <2>3 DEF s
<1> DEFINE h == [m \in 0 .. n |-> f[1 .. m]]
<1>6. h[0] = 0 /\ h[n] = EdgeCount(g)
  BY <1>3, <1>4
<1>7. \A m \in 0 .. n - 1 : h[m + 1] = h[m] + Len(g[m + 1])
  <2> SUFFICES ASSUME NEW m \in 0 .. n - 1 PROVE h[m + 1] = h[m] + Len(g[m + 1])
    OBVIOUS
  <2>1. m \in 0 .. n /\ m + 1 \in 0 .. n
    OBVIOUS
  <2> QED BY <1>5, <2>1
<1> HIDE DEF h, f
<1> DEFINE T == {m \in 0 .. n : h[m] \in Nat}
<1>8. 0 \in T
  BY <1>6
<1>9. ASSUME NEW m \in 0 .. n - 1, m \in T PROVE m + 1 \in T
  <2>1. m + 1 \in 1 .. n /\ m + 1 \in 0 .. n
    OBVIOUS
  <2>2. h[m + 1] = h[m] + Len(g[m + 1]) /\ Len(g[m + 1]) \in Nat
    BY <1>1, <1>7, <2>1
  <2> QED BY <1>9, <2>1, <2>2
<1>10. \A m \in 0 .. n : h[m] \in Nat
  <2>1. 0 .. n \subseteq T
    <3> HIDE DEF T
    <3> QED BY <1>8, <1>9, BoundedInduction
  <2> QED BY <2>1
<1>11. h \in [0 .. n -> Nat]
  BY <1>10 DEF h
<1> QED BY <1>6, <1>7, <1>11

(***************************************************************************)
(* A graph with shorter lists has fewer edges.                             *)
(***************************************************************************)
LEMMA CountShrinks ==
  ASSUME NEW A, NEW n \in Nat, NEW f \in [1 .. n -> Seq(A)], NEW g \in [1 .. n -> Seq(A)],
         \A m \in 1 .. n : Len(f[m]) <= Len(g[m])
  PROVE  /\ EdgeCount(f) \in Nat /\ EdgeCount(g) \in Nat
         /\ EdgeCount(f) <= EdgeCount(g)
         /\ (\E m \in 1 .. n : Len(f[m]) < Len(g[m])) => EdgeCount(f) < EdgeCount(g)
<1>1. PICK a \in [0 .. n -> Nat] :
        /\ a[0] = 0 /\ a[n] = EdgeCount(f)
        /\ \A m \in 0 .. n - 1 : a[m + 1] = a[m] + Len(f[m + 1])
  BY CountSteps
<1>2. PICK b \in [0 .. n -> Nat] :
        /\ b[0] = 0 /\ b[n] = EdgeCount(g)
        /\ \A m \in 0 .. n - 1 : b[m + 1] = b[m] + Len(g[m + 1])
  BY CountSteps
<1>3. \A m \in 1 .. n : Len(f[m]) \in Nat /\ Len(g[m]) \in Nat
  OBVIOUS
<1> DEFINE Less(m) == \E i \in 1 .. m : Len(f[i]) < Len(g[i])
           T == {m \in 0 .. n : a[m] <= b[m] /\ (Less(m) => a[m] < b[m])}
<1>4. 0 \in T
  <2>1. ~ Less(0) /\ 0 \in 0 .. n
    OBVIOUS
  <2> HIDE DEF Less
  <2> QED BY <1>1, <1>2, <2>1
<1>5. ASSUME NEW m \in 0 .. n - 1, m \in T PROVE m + 1 \in T
  <2>1. m + 1 \in 1 .. n /\ m + 1 \in 0 .. n /\ m \in 0 .. n
    OBVIOUS
  <2>2. /\ a[m + 1] = a[m] + Len(f[m + 1]) /\ b[m + 1] = b[m] + Len(g[m + 1])
        /\ a[m] \in Nat /\ b[m] \in Nat
    BY <1>1, <1>2, <2>1
  <2>3. /\ Len(f[m + 1]) \in Nat /\ Len(g[m + 1]) \in Nat
        /\ Len(f[m + 1]) <= Len(g[m + 1])
    BY <1>3, <2>1
  <2>4. Less(m + 1) => Less(m) \/ Len(f[m + 1]) < Len(g[m + 1])
    <3>1. \A i \in 1 .. m + 1 : i \in 1 .. m \/ i = m + 1
      OBVIOUS
    <3> QED BY <3>1
  <2> HIDE DEF Less
  <2>5. a[m] <= b[m] /\ (Less(m) => a[m] < b[m])
    BY <1>5
  <2>6. PICK c \in Nat : c = Len(f[m + 1])
    BY <2>3
  <2>7. PICK d \in Nat : d = Len(g[m + 1]) /\ c <= d
    BY <2>3, <2>6
  <2>8. PICK p \in Nat : p = a[m]
    BY <2>2
  <2>9. PICK q \in Nat : q = b[m]
    BY <2>2
  <2>10. p <= q /\ (Less(m) => p < q) /\ (Less(m + 1) => Less(m) \/ c < d)
    BY <2>4, <2>5, <2>6, <2>7, <2>8, <2>9
  <2>11. p + c <= q + d /\ (Less(m + 1) => p + c < q + d)
    BY <2>7, <2>10, SMTT(60)
  <2>12. a[m + 1] = p + c /\ b[m + 1] = q + d
    BY <2>2, <2>6, <2>7, <2>8, <2>9
  <2> QED BY <2>1, <2>11, <2>12
<1>6. n \in T
  <2> HIDE DEF T
  <2>1. 0 .. n \subseteq T
    BY <1>4, <1>5, BoundedInduction
  <2> QED BY <2>1
<1>7. a[n] \in Nat /\ b[n] \in Nat
  OBVIOUS
<1> QED BY <1>1, <1>2, <1>6, <1>7


-----------------------------------------------------------------------------
(* Convergence.                                                            *)

\* The labels of a GOTO are labels of statements, in the order of the catalog.
Kept(labels) ==
  \A n \in Uses : unit[n].kind = "assigned_goto" =>
    /\ ToSet(labels[n]) \subseteq Position
    /\ \E set : labels[n] = Keep(Catalog(unit[n].variable), set)

(***************************************************************************)
(* Labels that reach the uses are kept from the catalog.                   *)
(***************************************************************************)
LEMMA ResolutionsKept ==
  ASSUME unit \in Units
  PROVE  Kept(Resolutions(Solutions))
<1> SUFFICES ASSUME NEW n \in Uses, unit[n].kind = "assigned_goto"
             PROVE  /\ ToSet(Resolutions(Solutions)[n]) \subseteq Position
                    /\ \E set : Resolutions(Solutions)[n] = Keep(Catalog(unit[n].variable), set)
  BY DEF Kept
<1>1. ToSet(Resolutions(Solutions)[n]) \subseteq Position
  <2>1. \A l \in ToSet(Resolutions(Solutions)[n]) : Suits(unit[n], l)
    BY ResolutionFacts
  <2> QED BY <2>1 DEF Suits, BranchTarget
<1>2. Resolutions(Solutions)[n] = Resolve(n, Solutions[unit[n].variable])
  BY DEF Resolutions, Uses
<1>3. \E set : Resolutions(Solutions)[n] = Keep(Catalog(unit[n].variable), set)
  BY <1>2 DEF Resolve
<1> QED BY <1>1, <1>3

(***************************************************************************)
(* The branches of an assigned GOTO can be told from its other edges.      *)
(***************************************************************************)
LEMMA BranchesTold ==
  ASSUME unit \in Units, NEW old \in Labelling, NEW new \in Labelling,
         NEW n \in Uses, unit[n].kind = "assigned_goto", ToSet(new[n]) \subseteq Position,
         ToSet(Build(new, Uses)[n]) \subseteq ToSet(Build(old, Uses)[n])
  PROVE  ToSet(new[n]) \subseteq ToSet(old[n])
<1> SUFFICES ASSUME NEW l \in ToSet(new[n]) PROVE l \in ToSet(old[n])
  OBVIOUS
<1>1. n \in Position /\ new[n] \in Seq(Label) /\ old[n] \in Seq(Label)
  BY DEF Uses, Labelling
<1>2. /\ LabelEdges(n, new, Uses) = Branches(new[n])
      /\ LabelEdges(n, old, Uses) = Branches(old[n])
  BY DEF LabelEdges
<1>3. To(l, "branch") \in ToSet(Branches(new[n]))
  BY <1>1, BranchesFacts
<1>4. ToSet(Build(new, Uses)[n]) =
        ToSet(Fallthrough(n)) \union ToSet(LabelEdges(n, new, Uses))
          \union ToSet(BareEdges(n, Uses)) \union ToSet(TerminationEdges(n))
  BY <1>1, BuildFacts
<1>5. ToSet(Build(old, Uses)[n]) =
        ToSet(Fallthrough(n)) \union ToSet(LabelEdges(n, old, Uses))
          \union ToSet(BareEdges(n, Uses)) \union ToSet(TerminationEdges(n))
  BY <1>1, BuildFacts
<1>6. ToSet(BareEdges(n, Uses)) = {} /\ ToSet(TerminationEdges(n)) = {}
  BY EmptySet DEF BareEdges, TerminationEdges
<1>7. \A e \in ToSet(Fallthrough(n)) : e.kind # "branch"
  BY DEF Fallthrough, To, ToSet
<1>8. To(l, "branch") \in ToSet(Branches(old[n]))
  BY <1>2, <1>3, <1>4, <1>5, <1>6, <1>7 DEF To
<1>9. PICK k \in ToSet(old[n]) \intersect Position : To(l, "branch") = To(k, "branch")
  BY <1>1, <1>8, BranchesFacts
<1>10. k = l
  BY <1>9 DEF To
<1> QED BY <1>9, <1>10

(***************************************************************************)
(* Graphs built from labels in the order of the catalog are the same when  *)
(* they have the same edges.                                               *)
(***************************************************************************)
LEMMA BuildSame ==
  ASSUME unit \in Units, NEW old \in Labelling, NEW new \in Labelling, Kept(old), Kept(new),
         \A n \in Node : ToSet(Build(new, Uses)[n]) = ToSet(Build(old, Uses)[n])
  PROVE  Build(new, Uses) = Build(old, Uses)
<1>1. ASSUME NEW n \in Position PROVE LabelEdges(n, new, Uses) = LabelEdges(n, old, Uses)
  <2>1. CASE unit[n].kind = "assigned_goto"
    <3> DEFINE all == Catalog(unit[n].variable)
    <3>1. n \in Uses /\ n \in Node
      BY <2>1, UnitFacts DEF Uses, IsUse
    <3>2. ToSet(new[n]) \subseteq Position /\ ToSet(old[n]) \subseteq Position
      BY <2>1, <3>1 DEF Kept
    <3>3. ToSet(new[n]) = ToSet(old[n])
      BY <2>1, <3>1, <3>2, BranchesTold, ZenonT(60)
    <3>4. PICK a : new[n] = Keep(all, a)
      BY <2>1, <3>1 DEF Kept
    <3>5. PICK b : old[n] = Keep(all, b)
      BY <2>1, <3>1 DEF Kept
    <3>6. all \in Seq(Label)
      BY CatalogFacts
    <3> HIDE DEF all
    <3>7. ToSet(Keep(all, a)) = ToSet(all) \intersect a /\ ToSet(Keep(all, b)) = ToSet(all) \intersect b
      BY <3>6, KeepFacts
    <3>8. Keep(all, a) = Keep(all, b)
      BY <3>3, <3>4, <3>5, <3>6, <3>7, KeepSame
    <3>9. new[n] = old[n]
      BY <3>4, <3>5, <3>8
    <3> QED BY <3>9 DEF LabelEdges
  <2>2. CASE unit[n].kind # "assigned_goto"
    BY <2>2 DEF LabelEdges
  <2> QED BY <2>1, <2>2
<1> QED BY <1>1 DEF Build


\* The rebuilt graph of a later iteration has fewer edges; the first one may
\* be in another order.
Converging ==
  /\ limit \in Nat /\ iteration \in 0 .. limit + 1
  /\ pc # "unconverged" => iteration <= limit
  /\ \A n \in Node : Distinct(graph[n])
  /\ iteration > 0 /\ pc = "analyze" => known = Uses /\ Kept(resolved)
  /\ iteration > 0 /\ pc = "rebuild" =>
       \E old \in Labelling : Kept(old) /\ graph = Build(old, Uses)
  /\ AssignsAtTopLevel =>
       /\ pc # "unconverged"
       /\ EdgeCount(graph) + (IF iteration = 0 THEN 2 ELSE iteration + 1) <= limit

(***************************************************************************)
(* A graph has a number of edges.                                          *)
(***************************************************************************)
LEMMA CountTyped ==
  ASSUME unit \in Units, NEW g \in [Node -> Seq(Edge)]
  PROVE  EdgeCount(g) \in Nat
<1>1. PICK n \in Nat : n = ImageTermination
  BY UnitFacts DEF ImageTermination
<1>2. g \in [1 .. n -> Seq(Edge)]
  BY <1>1 DEF Node
<1> HIDE DEF Node, Edge
<1>3. \A m \in 1 .. n : Len(g[m]) <= Len(g[m])
  BY <1>2
<1> QED BY <1>2, <1>3, CountShrinks

(***************************************************************************)
(* A graph with fewer edges at every node has fewer edges.                 *)
(***************************************************************************)
LEMMA GraphShrinks ==
  ASSUME unit \in Units, NEW f \in [Node -> Seq(Edge)], NEW g \in [Node -> Seq(Edge)],
         \A n \in Node : /\ Distinct(f[n]) /\ Distinct(g[n])
                         /\ ToSet(f[n]) \subseteq ToSet(g[n])
  PROVE  /\ EdgeCount(f) <= EdgeCount(g)
         /\ (\E n \in Node : ToSet(f[n]) # ToSet(g[n])) => EdgeCount(f) < EdgeCount(g)
<1>1. PICK n \in Nat : n = ImageTermination
  BY UnitFacts DEF ImageTermination
<1>2. Node = 1 .. n
  BY <1>1 DEF Node
<1>3. f \in [1 .. n -> Seq(Edge)] /\ g \in [1 .. n -> Seq(Edge)]
  BY <1>2
<1>4. \A m \in 1 .. n : /\ Len(f[m]) <= Len(g[m])
                        /\ ToSet(f[m]) # ToSet(g[m]) => Len(f[m]) < Len(g[m])
  BY <1>2, <1>3, FewerElements
<1>5. /\ EdgeCount(f) <= EdgeCount(g)
      /\ (\E m \in 1 .. n : Len(f[m]) < Len(g[m])) => EdgeCount(f) < EdgeCount(g)
  BY <1>3, <1>4, CountShrinks
<1> QED BY <1>2, <1>4, <1>5

(***************************************************************************)
(* A rebuild that changes the graph keeps the count within the limit.      *)
(***************************************************************************)
LEMMA RebuildConverges ==
  ASSUME Invariant, Refining, Converging, Rebuild, graph' # graph, AssignsAtTopLevel
  PROVE  EdgeCount(graph') + ((iteration + 1) + 1) <= limit
<1>1. /\ unit \in Units /\ graph \in [Node -> Seq(Edge)] /\ resolved \in Labelling
      /\ pc = "rebuild" /\ graph' = Build(resolved, known)
      /\ known = Uses /\ resolved = Resolutions(Solutions)
  BY DEF Invariant, Phase, Rebuild
<1>2. graph' \in [Node -> Seq(Edge)] /\ \A n \in Node : Distinct(graph'[n])
  BY <1>1, BuildFacts
<1>3. \A n \in Node : ToSet(graph'[n]) \subseteq ToSet(graph[n])
  BY <1>1 DEF Refining
<1>4. /\ EdgeCount(graph) \in Nat /\ EdgeCount(graph') \in Nat
  BY <1>1, <1>2, CountTyped
<1>5. /\ EdgeCount(graph') <= EdgeCount(graph)
      /\ (\E n \in Node : ToSet(graph'[n]) # ToSet(graph[n])) => EdgeCount(graph') < EdgeCount(graph)
  BY <1>1, <1>2, <1>3, GraphShrinks DEF Converging
<1>6. /\ limit \in Nat /\ iteration \in Nat
      /\ EdgeCount(graph) + (IF iteration = 0 THEN 2 ELSE iteration + 1) <= limit
  BY DEF Converging
<1>7. CASE iteration = 0
  BY <1>4, <1>5, <1>6, <1>7
<1>8. CASE iteration > 0
  <2>1. PICK old \in Labelling : Kept(old) /\ graph = Build(old, Uses)
    BY <1>1, <1>8 DEF Converging
  <2>2. Kept(resolved)
    BY <1>1, ResolutionsKept
  <2>3. \E n \in Node : ToSet(graph'[n]) # ToSet(graph[n])
    BY <1>1, <2>1, <2>2, BuildSame
  <2> QED BY <1>4, <1>5, <1>6, <1>8, <2>3
<1> QED BY <1>6, <1>7, <1>8

(***************************************************************************)
(* In every behaviour the iterations and the edges left are within the     *)
(* limit.                                                                  *)
(***************************************************************************)
LEMMA StaysConverging == Spec => []Converging
<1>1. Init => Converging
  <2> SUFFICES ASSUME Init PROVE Converging
    OBVIOUS
  <2>1. /\ unit \in Units /\ graph = Build(resolved, known) /\ limit = EdgeCount(graph) + 2
        /\ iteration = 0 /\ pc = "analyze"
    BY DEF Init
  <2>2. resolved \in Labelling /\ graph \in [Node -> Seq(Edge)]
    BY InitInvariant DEF Invariant
  <2>3. EdgeCount(graph) \in Nat
    BY <2>1, <2>2, CountTyped
  <2>4. \A n \in Node : Distinct(graph[n])
    BY <2>1, <2>2, BuildFacts
  <2> QED BY <2>1, <2>3, <2>4 DEF Converging
<1>2. Invariant /\ Refining /\ Converging /\ [Next]_vars => Converging'
  <2> SUFFICES ASSUME Invariant, Refining, Converging, [Next]_vars PROVE Converging'
    OBVIOUS
  <2>1. /\ unit \in Units /\ graph \in [Node -> Seq(Edge)] /\ resolved \in Labelling
        /\ Phase
    BY DEF Invariant
  <2>2. unit' = unit /\ limit' = limit
    BY DEF Next, Analyze, Rebuild, Diagnose, Fail, Run, vars
  <2>3. /\ Position' = Position /\ Node' = Node /\ Uses' = Uses /\ Labelling' = Labelling
        /\ AssignsAtTopLevel' = AssignsAtTopLevel
        /\ \A v : Catalog(v)' = Catalog(v)
    BY <2>2, UnitFrame DEF AssignsAtTopLevel
  <2>4. ASSUME NEW labels PROVE Kept(labels)' = Kept(labels)
    BY <2>2, <2>3 DEF Kept
  <2>5. ASSUME NEW labels PROVE Build(labels, Uses)' = Build(labels, Uses)
    BY <2>2, <2>3, BuildRigid
  <2>6. CASE Analyze
    <3>1. /\ pc = "analyze" /\ pc' = "rebuild" /\ graph' = graph /\ iteration' = iteration
      BY <2>6 DEF Analyze
    <3>2. ASSUME iteration > 0
          PROVE  \E old \in Labelling : Kept(old) /\ graph = Build(old, Uses)
      BY <2>1, <3>1, <3>2 DEF Converging, Refining
    <3> QED BY <2>2, <2>3, <2>4, <2>5, <3>1, <3>2 DEF Converging
  <2>7. CASE Rebuild /\ graph' = graph
    <3>1. /\ pc = "rebuild" /\ iteration' = iteration /\ pc' = "diagnose"
      BY <2>7 DEF Rebuild
    <3> QED BY <2>2, <2>3, <2>7, <3>1 DEF Converging
  <2>8. CASE Rebuild /\ graph' # graph
    <3>1. /\ pc = "rebuild" /\ iteration' = iteration + 1 /\ known' = known /\ resolved' = resolved
          /\ pc' = (IF iteration + 1 > limit THEN "unconverged" ELSE "analyze")
          /\ graph' = Build(resolved, known)
      BY <2>8 DEF Rebuild
    <3>2. known = Uses /\ resolved = Resolutions(Solutions)
      BY <2>1, <3>1 DEF Phase
    <3>3. Kept(resolved)
      BY <2>1, <3>2, ResolutionsKept
    <3>4. Kept(resolved)'
      BY <2>2, <2>3, <3>1, <3>3 DEF Kept
    <3>5. /\ limit \in Nat /\ iteration \in Nat /\ iteration <= limit
      BY <3>1 DEF Converging
    <3>6. /\ iteration' \in 0 .. limit + 1 /\ iteration' > 0 /\ pc' # "rebuild"
          /\ pc' # "unconverged" => iteration' <= limit
      BY <3>1, <3>5
    <3>7. \A n \in Node : Distinct(graph'[n])
      BY <2>1, <3>1, BuildFacts
    <3>8. ASSUME AssignsAtTopLevel
          PROVE  /\ pc' # "unconverged"
                 /\ EdgeCount(graph') + (IF iteration' = 0 THEN 2 ELSE iteration' + 1) <= limit
      <4>1. EdgeCount(graph') + ((iteration + 1) + 1) <= limit
        BY <2>8, <3>8, RebuildConverges
      <4>2. graph' \in [Node -> Seq(Edge)]
        BY <2>1, <3>1, BuildFacts
      <4>3. EdgeCount(graph') \in Nat
        BY <2>1, <4>2, CountTyped
      <4> QED BY <3>1, <3>5, <4>1, <4>3
    <3> QED BY <2>2, <2>3, <3>1, <3>2, <3>4, <3>5, <3>6, <3>7, <3>8 DEF Converging
  <2>9. CASE Diagnose \/ Fail \/ Run
    <3>1. /\ graph' = graph /\ iteration' = iteration
          /\ pc \notin {"unconverged"} /\ pc' \notin {"unconverged", "analyze", "rebuild"}
      BY <2>9 DEF Diagnose, Fail, Run, Running
    <3> QED BY <2>2, <2>3, <3>1 DEF Converging
  <2>10. CASE UNCHANGED vars
    <3>1. /\ graph' = graph /\ iteration' = iteration /\ pc' = pc /\ known' = known
          /\ resolved' = resolved
      BY <2>10 DEF vars
    <3>2. Kept(resolved)' = Kept(resolved)
      BY <2>2, <2>3, <3>1 DEF Kept
    <3> QED BY <2>2, <2>3, <2>4, <2>5, <3>1, <3>2 DEF Converging
  <2> QED BY <2>6, <2>7, <2>8, <2>9, <2>10 DEF Next
<1> QED BY <1>1, <1>2, InvariantHolds, RefinesOneWay, PTL DEF Spec


(***************************************************************************)
(* When labels are only assigned at top level the limit is never reached.  *)
(***************************************************************************)
THEOREM RefinementConverges == Spec => []TopLevelConverges
<1>1. Converging => TopLevelConverges
  BY DEF Converging, TopLevelConverges
<1> QED BY <1>1, StaysConverging, PTL

\* Only uses are resolved, and to labels that suit them.
Suited ==
  \A n \in Position : \A k \in DOMAIN resolved[n] :
    IsUse(unit[n]) /\ Suits(unit[n], resolved[n][k])

(***************************************************************************)
(* In every behaviour what is resolved suits the statement.                *)
(***************************************************************************)
LEMMA StaysSuited == Spec => []Suited
<1>1. Init => Suited
  BY DEF Init, Suited
<1>2. Invariant /\ Suited /\ [Next]_vars => Suited'
  <2> SUFFICES ASSUME Invariant, Suited, [Next]_vars PROVE Suited'
    OBVIOUS
  <2>1. unit' = unit /\ unit \in Units
    BY DEF Invariant, Next, Analyze, Rebuild, Diagnose, Fail, Run, vars
  <2>2. Position' = Position
    BY <2>1, UnitFrame
  <2>3. CASE Analyze \/ Diagnose
    <3>1. resolved' = Resolutions(Solutions)
      BY <2>3 DEF Analyze, Diagnose
    <3>2. ASSUME NEW n \in Position, NEW k \in DOMAIN Resolutions(Solutions)[n]
          PROVE  IsUse(unit[n]) /\ Suits(unit[n], Resolutions(Solutions)[n][k])
      <4>1. Resolutions(Solutions)[n][k] \in ToSet(Resolutions(Solutions)[n])
        BY DEF ToSet
      <4>2. n \in Uses
        BY <2>1, <3>2, ResolutionFacts
      <4> QED BY <2>1, <4>1, <4>2, ResolutionFacts DEF Uses
    <3> QED BY <2>1, <2>2, <3>1, <3>2 DEF Suited, Suits, BranchTarget, Allowed
  <2>4. CASE Rebuild \/ Fail \/ Run \/ UNCHANGED vars
    <3>1. resolved' = resolved
      BY <2>4 DEF Rebuild, Fail, Run, vars
    <3> QED BY <2>1, <2>2, <3>1 DEF Suited, Suits, BranchTarget, Allowed
  <2> QED BY <2>3, <2>4 DEF Next
<1> QED BY <1>1, <1>2, InvariantHolds, PTL DEF Spec

(***************************************************************************)
(* The type invariant: edges lead to nodes, the iterations stay within     *)
(* their limit, and only uses are resolved, to labels that suit them.      *)
(***************************************************************************)
THEOREM TypeCorrect == Spec => []TypeOK
<1>1. Invariant /\ Converging /\ Suited => TypeOK
  <2> SUFFICES ASSUME Invariant, Converging, Suited PROVE TypeOK
    OBVIOUS
  <2>1. /\ unit \in Units /\ graph \in [Node -> Seq(Edge)] /\ known \subseteq Position
        /\ Phase /\ Execution
    BY DEF Invariant
  <2>2. ASSUME NEW n \in Node, NEW k \in DOMAIN graph[n] PROVE graph[n][k].target \in Node
    <3>1. graph[n] \in Seq(Edge)
      BY <2>1
    <3>2. graph[n][k] \in Edge
      BY <3>1
    <3> QED BY <3>2 DEF Edge
  <2>3. diagnostics \subseteq Position \X (Label \union {Invalid})
    <3>1. CASE pc # "done"
      BY <2>1, <3>1 DEF Phase
    <3>2. CASE pc = "done"
      <4>1. diagnostics = Reported(Solutions)
        BY <2>1, <3>2 DEF Phase
      <4>2. ASSUME NEW n \in Uses
            PROVE  Complaints(n, Solutions[unit[n].variable]) \subseteq
                     Position \X (Label \union {Invalid})
        <5>1. n \in Position /\ n \in Node /\ unit[n].variable \in Variable
          BY <2>1, UnitFacts DEF Uses, Statement
        <5>2. Solve(unit[n].variable)[n] \in SUBSET Facts
          BY <2>1, <5>1, SolveFacts DEF States
        <5>3. Facts \ {Reached} = Label \union {Invalid}
          BY <2>1, UnitFacts DEF Facts, Reached, Label, Invalid
        <5>4. Solutions[unit[n].variable] = Solve(unit[n].variable)
          BY <5>1 DEF Solutions
        <5> QED BY <5>1, <5>2, <5>3, <5>4 DEF Complaints
      <4> QED BY <4>1, <4>2 DEF Reported
    <3> QED BY <3>1, <3>2
  <2>4. DOMAIN graph = Node
    BY <2>1
  <2>5. iteration \in 0 .. limit + 1
    BY DEF Converging
  <2>6. at \in Node /\ values \in [Variable -> Label \union {Invalid}]
    BY <2>1 DEF Execution
  <2>7. pc \in {"analyze", "rebuild", "diagnose", "done", "unconverged", "failed"}
    BY <2>1 DEF Phase
  <2> QED BY <2>1, <2>2, <2>3, <2>4, <2>5, <2>6, <2>7 DEF TypeOK, Suited
<1> QED BY <1>1, InvariantHolds, StaysConverging, StaysSuited, PTL
============

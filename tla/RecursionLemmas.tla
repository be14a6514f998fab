--------------------------- MODULE RecursionLemmas ---------------------------
(***************************************************************************)
(* What proofs about recursive definitions need: induction over the        *)
(* natural numbers, stated for sets, and that the equations of recursive   *)
(* functions, of folds over sequences and of closures have solutions; and  *)
(* what follows for the edge lists of ControlFlow.                         *)
(***************************************************************************)
EXTENDS Integers, ControlFlow, FiniteSetTheorems, WellFoundedInduction, TLAPS

(***************************************************************************)
(* A set of natural numbers has a smallest element.                        *)
(***************************************************************************)
LEMMA LeastNatural ==
  ASSUME NEW T \in SUBSET Nat, T # {}
  PROVE  \E x \in T : \A y \in T : x <= y
<1>1. IsWellFoundedOn(OpToRel(<, Nat), Nat)
  BY NatLessThanWellFounded
<1>2. \E x \in T : \A y \in T : ~ (<< y, x >> \in OpToRel(<, Nat))
  BY <1>1, WFMin
<1>3. PICK x \in T : \A y \in T : ~ (y < x)
  BY <1>2 DEF OpToRel
<1>4. x \in Nat /\ \A y \in T : y \in Nat
  OBVIOUS
<1>5. \A y \in T : x <= y
  BY <1>3, <1>4
<1> QED BY <1>5

(***************************************************************************)
(* A set with 0 and the successor of each of its numbers has them all.     *)
(***************************************************************************)
LEMMA NaturalInduction ==
  ASSUME NEW T, 0 \in T, \A n \in Nat : n \in T => n + 1 \in T
  PROVE  Nat \subseteq T
<1> SUFFICES ASSUME Nat \ T # {} PROVE FALSE
  OBVIOUS
<1>1. PICK x \in Nat \ T : \A y \in Nat \ T : x <= y
  <2>1. Nat \ T \in SUBSET Nat
    OBVIOUS
  <2> QED BY <2>1, LeastNatural
<1>2. x # 0 /\ x - 1 \in Nat
  BY <1>1
<1>3. x - 1 \in T
  BY <1>1, <1>2
<1>4. (x - 1) + 1 = x
  BY <1>1
<1> QED BY <1>1, <1>2, <1>3, <1>4

(***************************************************************************)
(* And up to a bound.                                                      *)
(***************************************************************************)
LEMMA BoundedInduction ==
  ASSUME NEW n \in Nat, NEW T, 0 \in T, \A m \in 0 .. n - 1 : m \in T => m + 1 \in T
  PROVE  0 .. n \subseteq T
<1> DEFINE U == {m \in Nat : m <= n => m \in T}
<1>1. 0 \in U
  OBVIOUS
<1>2. ASSUME NEW m \in Nat, m \in U PROVE m + 1 \in U
  <2> SUFFICES ASSUME m + 1 <= n PROVE m + 1 \in T
    OBVIOUS
  <2>1. m \in 0 .. n - 1 /\ m <= n
    OBVIOUS
  <2> QED BY <2>1, <1>2
<1> HIDE DEF U
<1>3. Nat \subseteq U
  BY <1>1, <1>2, NaturalInduction
<1> QED BY <1>3 DEF U

-----------------------------------------------------------------------------
(* Recursion over an interval.                                             *)

(***************************************************************************)
(* h holds the values of a recursion up to n, from b by a step function.   *)
(***************************************************************************)
Iterates(h, b, n, step) == h[0] = b /\ \A i \in 1 .. n : h[i] = step[<< h[i - 1], i >>]

(***************************************************************************)
(* A recursion with a step function has values up to every bound.          *)
(***************************************************************************)
LEMMA RecursionExists ==
  ASSUME NEW V, NEW b \in V, NEW n \in Nat, NEW step \in [V \X (1 .. n) -> V]
  PROVE  \E h \in [0 .. n -> V] : Iterates(h, b, n, step)
<1> DEFINE Solves(h, m) ==
             h[0] = b /\ \A i \in 1 .. m : h[i] = step[<< h[i - 1], i >>]
           T == {m \in 0 .. n : \E h \in [0 .. m -> V] : Solves(h, m)}
<1>1. 0 \in T
  <2> DEFINE h == [i \in 0 .. 0 |-> b]
  <2>1. h \in [0 .. 0 -> V] /\ h[0] = b
    OBVIOUS
  <2> HIDE DEF h
  <2> QED BY <2>1
<1>2. ASSUME NEW m \in 0 .. n - 1, m \in T PROVE m + 1 \in T
  <2>1. PICK g \in [0 .. m -> V] : Solves(g, m)
    BY <1>2
  <2> DEFINE h == [i \in 0 .. m + 1 |-> IF i <= m THEN g[i] ELSE step[<< g[m], m + 1 >>]]
  <2>2. g[m] \in V /\ m + 1 \in 1 .. n /\ m \in Nat
    OBVIOUS
  <2>3. step[<< g[m], m + 1 >>] \in V
    BY <2>2
  <2>4. h \in [0 .. m + 1 -> V]
    BY <2>2, <2>3
  <2>5. h[0] = b
    BY <2>1, <2>2
  <2>6. ASSUME NEW i \in 1 .. m + 1 PROVE h[i] = step[<< h[i - 1], i >>]
    <3>1. CASE i <= m
      BY <3>1, <2>1, <2>2
    <3>2. CASE i = m + 1
      BY <3>2, <2>2
    <3> QED BY <3>1, <3>2, <2>2
  <2> HIDE DEF h
  <2> QED BY <2>2, <2>4, <2>5, <2>6
<1> HIDE DEF T
<1>3. 0 .. n \subseteq T
  BY <1>1, <1>2, BoundedInduction
<1>4. n \in T
  BY <1>3
<1>5. PICK h \in [0 .. n -> V] : Solves(h, n)
  BY <1>4 DEF T
<1> QED BY <1>5 DEF Iterates

-----------------------------------------------------------------------------
(* Folds over sequences.                                                   *)

(***************************************************************************)
(* Folding from the left takes the elements of a sequence one by one.      *)
(***************************************************************************)
LEMMA LargestOf ==
  ASSUME NEW m \in Nat, NEW s \in SUBSET (1 .. m + 1), m + 1 \in s
  PROVE  Max(s) = m + 1
<1>1. \A y \in s : y \in Int /\ y <= m + 1
  OBVIOUS
<1>2. \A y \in s : m + 1 >= y
  BY <1>1
<1>3. ASSUME NEW x \in s, \A y \in s : x >= y PROVE x = m + 1
  <2>1. x >= m + 1 /\ x \in Int /\ x <= m + 1
    BY <1>1, <1>3
  <2> QED BY <2>1
<1>4. /\ Max(s) \in s
      /\ \A y \in s : Max(s) >= y
  BY <1>2 DEF Max
<1> QED BY <1>3, <1>4

(***************************************************************************)
(* A set of numbers with an upper bound has a largest element.             *)
(***************************************************************************)
LEMMA LargestExists ==
  ASSUME NEW n \in Nat, NEW s \in SUBSET (1 .. n), s # {}
  PROVE  Max(s) \in s
<1> DEFINE Gaps == {n - y : y \in s}
<1>1. Gaps \in SUBSET Nat /\ Gaps # {}
  <2>1. \A y \in s : y \in Nat /\ y <= n
    OBVIOUS
  <2>2. \A y \in s : n - y \in Nat
    BY <2>1
  <2>3. PICK y \in s : TRUE
    OBVIOUS
  <2>4. n - y \in Gaps
    OBVIOUS
  <2> QED BY <2>2, <2>4
<1> HIDE DEF Gaps
<1>2. PICK g \in Gaps : \A h \in Gaps : g <= h
  BY <1>1, LeastNatural
<1>3. PICK x \in s : g = n - x
  BY DEF Gaps
<1>4. ASSUME NEW y \in s PROVE x >= y
  <2>1. g <= n - y
    BY <1>2 DEF Gaps
  <2>2. x \in Int /\ y \in Int
    OBVIOUS
  <2> QED BY <1>3, <2>1, <2>2
<1> QED BY <1>4 DEF Max

(***************************************************************************)
(* The largest element of an interval, and the interval without it.        *)
(***************************************************************************)
LEMMA LargestFirst ==
  ASSUME NEW m \in Nat
  PROVE  Max(1 .. m + 1) = m + 1 /\ (1 .. m + 1) \ {m + 1} = 1 .. m
<1>1. Max(1 .. m + 1) = m + 1
  <2>1. m + 1 \in 1 .. m + 1
    OBVIOUS
  <2> QED BY <2>1, LargestOf
<1>2. (1 .. m + 1) \ {m + 1} = 1 .. m
  OBVIOUS
<1> QED BY <1>1, <1>2

(***************************************************************************)
(* f is a solution of the equation by which MapThenFoldSet folds over the  *)
(* indices of a sequence.                                                  *)
(***************************************************************************)
FoldsBy(f, b, n, step) ==
  \A s \in SUBSET (1 .. n) :
    f[s] = IF s = {} THEN b ELSE step[<< f[s \ {Max(s)}], Max(s) >>]

(***************************************************************************)
(* The equation of a fold has a solution.                                  *)
(***************************************************************************)
LEMMA FoldExists ==
  ASSUME NEW V, NEW b \in V, NEW n \in Nat, NEW step \in [V \X (1 .. n) -> V]
  PROVE  \E f \in [SUBSET (1 .. n) -> V] : FoldsBy(f, b, n, step)
<1> DEFINE Solves(f, m) ==
             \A s \in SUBSET (1 .. m) :
               f[s] = IF s = {} THEN b ELSE step[<< f[s \ {Max(s)}], Max(s) >>]
           T == {m \in 0 .. n : \E f \in [SUBSET (1 .. m) -> V] : Solves(f, m)}
<1>1. 0 \in T
  <2> DEFINE f == [s \in SUBSET (1 .. 0) |-> b]
  <2>1. f \in [SUBSET (1 .. 0) -> V] /\ \A s \in SUBSET (1 .. 0) : s = {} /\ f[s] = b
    OBVIOUS
  <2> HIDE DEF f
  <2>2. Solves(f, 0) /\ 0 \in 0 .. n
    BY <2>1
  <2> QED BY <2>1, <2>2
<1>2. ASSUME NEW m \in 0 .. n - 1, m \in T PROVE m + 1 \in T
  <2>1. PICK g \in [SUBSET (1 .. m) -> V] : Solves(g, m)
    BY <1>2
  <2> DEFINE f == [s \in SUBSET (1 .. m + 1) |->
                     IF m + 1 \in s THEN step[<< g[s \ {m + 1}], m + 1 >>] ELSE g[s]]
  <2>2. m + 1 \in 1 .. n /\ m \in Nat /\ m + 1 \in 0 .. n
    OBVIOUS
  <2>3. ASSUME NEW s \in SUBSET (1 .. m + 1)
        PROVE  /\ m + 1 \in s => s \ {m + 1} \in SUBSET (1 .. m) /\ Max(s) = m + 1
               /\ m + 1 \notin s => s \in SUBSET (1 .. m)
    <3>1. m + 1 \in s => Max(s) = m + 1
      BY LargestOf
    <3> QED BY <3>1
  <2>4. \A s \in SUBSET (1 .. m) : g[s] \in V /\ step[<< g[s], m + 1 >>] \in V
    BY <2>2
  <2>5. f \in [SUBSET (1 .. m + 1) -> V]
    BY <2>3, <2>4
  <2>6. \A s \in SUBSET (1 .. m) : s \in SUBSET (1 .. m + 1) /\ m + 1 \notin s /\ f[s] = g[s]
    BY <2>2
  <2>7. ASSUME NEW s \in SUBSET (1 .. m + 1)
        PROVE  f[s] = IF s = {} THEN b ELSE step[<< f[s \ {Max(s)}], Max(s) >>]
    <3>1. CASE m + 1 \in s
      <4>1. s \ {m + 1} \in SUBSET (1 .. m) /\ Max(s) = m + 1
        BY <2>3, <3>1
      <4>2. f[s] = step[<< g[s \ {m + 1}], m + 1 >>]
        BY <3>1
      <4>3. f[s \ {m + 1}] = g[s \ {m + 1}]
        BY <2>6, <4>1
      <4> HIDE DEF f
      <4> QED BY <3>1, <4>1, <4>2, <4>3
    <3>2. CASE m + 1 \notin s
      <4>1. s \in SUBSET (1 .. m) /\ s \ {Max(s)} \in SUBSET (1 .. m)
        BY <2>3, <3>2
      <4>2. f[s] = g[s] /\ f[s \ {Max(s)}] = g[s \ {Max(s)}]
        BY <2>6, <4>1
      <4>3. g[s] = IF s = {} THEN b ELSE step[<< g[s \ {Max(s)}], Max(s) >>]
        BY <2>1, <4>1
      <4> HIDE DEF f
      <4> QED BY <4>2, <4>3
    <3> QED BY <3>1, <3>2
  <2> HIDE DEF f
  <2>8. Solves(f, m + 1)
    BY <2>7
  <2> QED BY <2>2, <2>5, <2>8
<1> HIDE DEF T
<1>3. n \in T
  <2>1. 0 .. n \subseteq T
    BY <1>1, <1>2, BoundedInduction
  <2> QED BY <2>1
<1>4. PICK f \in [SUBSET (1 .. n) -> V] : Solves(f, n)
  BY <1>3 DEF T
<1> QED BY <1>4 DEF FoldsBy

-----------------------------------------------------------------------------
(* Closures: a step that is repeated until it changes nothing, which it    *)
(* does when a rank decreases.                                             *)

(***************************************************************************)
(* c leads every element of D to where steps change nothing.               *)
(***************************************************************************)
Closes(c, D, more) == c = [d \in D |-> IF more[d] = d THEN d ELSE c[more[d]]]

(***************************************************************************)
(* The equation of a closure has a solution.                               *)
(***************************************************************************)
LEMMA ClosureExists ==
  ASSUME NEW D, NEW bound \in Nat, NEW rank \in [D -> 0 .. bound], NEW more \in [D -> D],
         \A d \in D : more[d] # d => rank[more[d]] < rank[d]
  PROVE  \E c : Closes(c, D, more)
<1> DEFINE Below(m) == {d \in D : rank[d] < m}
           Solves(c, m) == \A d \in Below(m) : c[d] = IF more[d] = d THEN d ELSE c[more[d]]
           T == {m \in Nat : \E c \in [D -> D] : Solves(c, m)}
<1>1. 0 \in T
  <2>1. Below(0) = {}
    OBVIOUS
  <2>2. [d \in D |-> d] \in [D -> D]
    OBVIOUS
  <2> HIDE DEF Below
  <2> QED BY <2>1, <2>2
<1>2. ASSUME NEW m \in Nat, m \in T PROVE m + 1 \in T
  <2>1. PICK g \in [D -> D] : Solves(g, m)
    BY <1>2
  <2> DEFINE c == [d \in D |-> IF d \in Below(m) THEN g[d]
                               ELSE IF more[d] = d THEN d ELSE g[more[d]]]
  <2>2. c \in [D -> D]
    OBVIOUS
  <2>3. ASSUME NEW d \in Below(m + 1), more[d] # d PROVE more[d] \in Below(m) /\ d \in D
    BY <2>3
  <2>4. ASSUME NEW d \in Below(m + 1)
        PROVE  c[d] = IF more[d] = d THEN d ELSE c[more[d]]
    <3>1. d \in D /\ more[d] \in D
      OBVIOUS
    <3> HIDE DEF Below
    <3>2. CASE more[d] = d
      BY <3>1, <3>2, <2>1
    <3>3. CASE more[d] # d
      <4>1. c[more[d]] = g[more[d]]
        BY <2>3, <3>1, <3>3
      <4>2. c[d] = g[more[d]]
        BY <3>1, <3>3, <2>1
      <4> QED BY <3>3, <4>1, <4>2
    <3> QED BY <3>2, <3>3
  <2> HIDE DEF c
  <2> QED BY <2>2, <2>4
<1> HIDE DEF T
<1>3. bound + 1 \in T
  <2>1. Nat \subseteq T
    BY <1>1, <1>2, NaturalInduction
  <2> QED BY <2>1
<1>4. PICK c \in [D -> D] : Solves(c, bound + 1)
  BY <1>3 DEF T
<1>5. \A d \in D : d \in Below(bound + 1)
  OBVIOUS
<1>6. c = [d \in D |-> IF more[d] = d THEN d ELSE c[more[d]]]
  BY <1>4, <1>5
<1> QED BY <1>6 DEF Closes

\* Steps lead from start to e: they change nothing there, and e has every
\* property of start that they preserve.
LeadsTo(e, start, D, more) ==
  /\ e \in D /\ more[e] = e
  /\ \A P \in SUBSET D : start \in P /\ (\A d \in P : more[d] \in P) => e \in P

(***************************************************************************)
(* A closure is where the step changes nothing, and has every property the *)
(* step preserves.                                                         *)
(***************************************************************************)
LEMMA ClosureFacts ==
  ASSUME NEW D, NEW bound \in Nat, NEW rank \in [D -> 0 .. bound], NEW more \in [D -> D],
         \A d \in D : more[d] # d => rank[more[d]] < rank[d],
         NEW c, Closes(c, D, more),
         NEW start \in D
  PROVE  LeadsTo(c[start], start, D, more)
<1> DEFINE Fact(d) ==
             /\ c[d] \in D /\ more[c[d]] = c[d]
             /\ \A P \in SUBSET D : d \in P /\ (\A e \in P : more[e] \in P) => c[d] \in P
           T == {m \in Nat : \A d \in D : rank[d] < m => Fact(d)}
<1>0. \A d \in D : rank[d] \in Nat /\ rank[d] <= bound
  OBVIOUS
<1>1. 0 \in T
  BY <1>0
<1>2. ASSUME NEW m \in Nat, m \in T PROVE m + 1 \in T
  <2> SUFFICES ASSUME NEW d \in D, rank[d] < m + 1 PROVE Fact(d)
    OBVIOUS
  <2>1. c[d] = IF more[d] = d THEN d ELSE c[more[d]]
    BY DEF Closes
  <2>2. CASE more[d] = d
    BY <2>1, <2>2
  <2>3. CASE more[d] # d
    <3>1. more[d] \in D /\ rank[more[d]] < m
      BY <2>3, <1>0
    <3>2. Fact(more[d])
      BY <1>2, <3>1
    <3> QED BY <2>1, <2>3, <3>1, <3>2
  <2> QED BY <2>2, <2>3
<1>3. bound + 1 \in T
  <2> HIDE DEF T
  <2>1. Nat \subseteq T
    BY <1>1, <1>2, NaturalInduction
  <2> QED BY <2>1
<1>4. rank[start] < bound + 1
  BY <1>0
<1>5. Fact(start)
  BY <1>3, <1>4
<1> QED BY <1>5 DEF LeadsTo


-----------------------------------------------------------------------------
(* Sets that grow within a finite set.                                     *)

(***************************************************************************)
(* A larger subset of a finite set misses fewer elements.                  *)
(***************************************************************************)
LEMMA FewerAreMissing ==
  ASSUME NEW U, IsFiniteSet(U), NEW a \in SUBSET U, NEW b \in SUBSET U, a \subseteq b, a # b
  PROVE  /\ Cardinality(U \ a) \in 0 .. Cardinality(U)
         /\ Cardinality(U \ b) < Cardinality(U \ a)
<1>1. IsFiniteSet(U \ a) /\ Cardinality(U \ a) \in Nat /\ Cardinality(U \ a) <= Cardinality(U)
  <2>1. U \ a \in SUBSET U
    OBVIOUS
  <2> QED BY <2>1, FS_Subset, FS_CardinalityType
<1>2. Cardinality(U \ b) < Cardinality(U \ a)
  <2>1. U \ b \in SUBSET (U \ a) /\ U \ b # U \ a
    OBVIOUS
  <2> QED BY <1>1, <2>1, FS_Subset, FS_CardinalityType
<1>3. Cardinality(U) \in Nat
  BY FS_CardinalityType
<1> QED BY <1>1, <1>2, <1>3

(***************************************************************************)
(* Steps that only ever add elements of a finite set come to an end: what  *)
(* is held tells the states apart and never gets less.                     *)
(***************************************************************************)
LEMMA GrowthEnds ==
  ASSUME NEW D, NEW U, IsFiniteSet(U), NEW held \in [D -> SUBSET U],
         \A d, e \in D : held[d] = held[e] => d = e,
         NEW more \in [D -> D], \A d \in D : held[d] \subseteq held[more[d]]
  PROVE  /\ \E c : Closes(c, D, more)
         /\ \A c : Closes(c, D, more) => \A start \in D : LeadsTo(c[start], start, D, more)
<1>1. PICK bound \in Nat : bound = Cardinality(U)
  BY FS_CardinalityType
<1> DEFINE rank == [d \in D |-> Cardinality(U \ held[d])]
<1>2. rank \in [D -> 0 .. bound]
  <2>1. \A d \in D : U \ held[d] \in SUBSET U
    OBVIOUS
  <2>2. \A d \in D : Cardinality(U \ held[d]) \in 0 .. bound
    BY <1>1, <2>1, FS_Subset, FS_CardinalityType
  <2> QED BY <2>2
<1>3. ASSUME NEW d \in D, more[d] # d PROVE rank[more[d]] < rank[d]
  <2>1. /\ more[d] \in D /\ held[d] \in SUBSET U /\ held[more[d]] \in SUBSET U
        /\ held[d] \subseteq held[more[d]] /\ held[d] # held[more[d]]
    BY <1>3
  <2>2. Cardinality(U \ held[more[d]]) < Cardinality(U \ held[d])
    BY <2>1, FewerAreMissing
  <2> QED BY <2>1, <2>2
<1> HIDE DEF rank
<1>4. \E c : Closes(c, D, more)
  BY <1>2, <1>3, ClosureExists
<1>5. ASSUME NEW c, Closes(c, D, more), NEW start \in D
      PROVE  LeadsTo(c[start], start, D, more)
  BY <1>2, <1>3, <1>5, ClosureFacts
<1> QED BY <1>4, <1>5
-----------------------------------------------------------------------------
(* The edge lists of ControlFlow, which are made by recursion and folds.   *)

(***************************************************************************)
(* The elements of a sequence that grows.                                  *)
(***************************************************************************)
LEMMA ToSetFacts ==
  ASSUME NEW A, NEW s \in Seq(A)
  PROVE  /\ ToSet(s) \subseteq A
         /\ \A x : Contains(s, x) <=> x \in ToSet(s)
         /\ \A x \in A : Append(s, x) \in Seq(A) /\ ToSet(Append(s, x)) = ToSet(s) \union {x}
<1>1. /\ Len(s) \in Nat /\ DOMAIN s = 1 .. Len(s)
      /\ \A i \in 1 .. Len(s) : s[i] \in A
  OBVIOUS
<1>2. ASSUME NEW x \in A PROVE Append(s, x) \in Seq(A) /\ ToSet(Append(s, x)) = ToSet(s) \union {x}
  <2>1. /\ Append(s, x) \in Seq(A) /\ DOMAIN Append(s, x) = 1 .. Len(s) + 1
        /\ \A i \in 1 .. Len(s) : Append(s, x)[i] = s[i]
        /\ Append(s, x)[Len(s) + 1] = x
    OBVIOUS
  <2> DEFINE t == Append(s, x)
  <2>2. \A y : y \in ToSet(t) <=> \E i \in 1 .. Len(s) + 1 : t[i] = y
    BY <2>1 DEF ToSet
  <2>3. \A y : y \in ToSet(s) <=> \E i \in 1 .. Len(s) : s[i] = y
    BY <1>1 DEF ToSet
  <2> HIDE DEF t
  <2>4. ASSUME NEW y PROVE y \in ToSet(t) <=> y \in ToSet(s) \union {x}
    <3>1. ASSUME NEW i \in 1 .. Len(s) + 1, t[i] = y PROVE y \in ToSet(s) \union {x}
      <4>1. CASE i = Len(s) + 1
        BY <2>1, <3>1, <4>1 DEF t
      <4>2. CASE i # Len(s) + 1
        <5>1. i \in 1 .. Len(s)
          BY <1>1, <4>2
        <5> QED BY <5>1, <2>1, <2>3, <3>1 DEF t
      <4> QED BY <4>1, <4>2
    <3>2. ASSUME NEW i \in 1 .. Len(s), s[i] = y PROVE y \in ToSet(t)
      <4>1. i \in 1 .. Len(s) + 1 /\ t[i] = y
        BY <1>1, <2>1, <3>2 DEF t
      <4> QED BY <4>1, <2>2
    <3>3. x \in ToSet(t)
      <4>1. Len(s) + 1 \in 1 .. Len(s) + 1
        BY <1>1
      <4> QED BY <4>1, <2>1, <2>2 DEF t
    <3> QED BY <2>2, <2>3, <3>1, <3>2, <3>3
  <2> QED BY <2>1, <2>4 DEF t
<1>3. ToSet(s) \subseteq A
  BY <1>1 DEF ToSet
<1>4. \A x : Contains(s, x) <=> x \in ToSet(s)
  BY <1>1 DEF ToSet, Contains
<1> QED BY <1>2, <1>3, <1>4

(***************************************************************************)
(* The empty sequence, over any set.                                       *)
(***************************************************************************)
LEMMA EmptySet ==
  ASSUME NEW A
  PROVE  << >> \in Seq(A) /\ ToSet(<< >>) = {}
BY DEF ToSet

(***************************************************************************)
(* What is kept of a sequence grows element by element.                    *)
(***************************************************************************)
LEMMA KeepSteps ==
  ASSUME NEW A, NEW s \in Seq(A), NEW set, NEW n \in Nat, n = Len(s)
  PROVE  \E k : /\ k[0] = << >> /\ Keep(s, set) = k[n]
               /\ \A i \in 1 .. n : k[i] = IF s[i] \in set THEN Append(k[i - 1], s[i])
                                                         ELSE k[i - 1]
<1> DEFINE step == [p \in Seq(A) \X (1 .. n) |->
                      IF s[p[2]] \in set THEN Append(p[1], s[p[2]]) ELSE p[1]]
           Is(k) == k = [i \in 0 .. n |->
                           IF i = 0 THEN << >>
                           ELSE IF s[i] \in set THEN Append(k[i - 1], s[i]) ELSE k[i - 1]]
           k == CHOOSE k : Is(k)
<1>1. /\ DOMAIN s = 1 .. n /\ \A i \in 1 .. n : s[i] \in A
      /\ << >> \in Seq(A) /\ ToSet(<< >>) = {}
  BY EmptySet
<1>2. Is(k)
  <2> DEFINE V == Seq(A)
             b == << >>
  <2>1. step \in [V \X (1 .. n) -> V] /\ b \in V
    BY <1>1
  <2>2. \A v \in Seq(A), i \in 1 .. n :
          step[<< v, i >>] = IF s[i] \in set THEN Append(v, s[i]) ELSE v
    OBVIOUS
  <2> HIDE DEF step, V, b
  <2>3. PICK h \in [0 .. n -> V] : Iterates(h, b, n, step)
    BY <2>1, RecursionExists
  <2> USE DEF V, b
  <2>4. \A i \in 0 .. n : i # 0 => i \in 1 .. n /\ h[i - 1] \in Seq(A)
    BY <1>1
  <2>5. \A i \in 0 .. n : h[i] = IF i = 0 THEN << >>
                                 ELSE IF s[i] \in set THEN Append(h[i - 1], s[i]) ELSE h[i - 1]
    BY <2>2, <2>3, <2>4 DEF Iterates
  <2>6. Is(h)
    BY <2>5
  <2> HIDE DEF Is
  <2> QED BY <2>6
<1>3. Keep(s, set) = k[n]
  BY DEF Keep
<1> HIDE DEF k
<1>4. /\ k[0] = << >>
      /\ \A i \in 1 .. n : k[i] = IF s[i] \in set THEN Append(k[i - 1], s[i]) ELSE k[i - 1]
  <2>1. \A i \in 0 .. n : k[i] = IF i = 0 THEN << >>
                                 ELSE IF s[i] \in set THEN Append(k[i - 1], s[i]) ELSE k[i - 1]
    BY <1>2
  <2>2. 0 \in 0 .. n /\ \A i \in 1 .. n : i \in 0 .. n /\ i # 0
    BY <1>1
  <2> QED BY <2>1, <2>2
<1> QED BY <1>3, <1>4

(***************************************************************************)
(* What is kept of a sequence are its elements that are in the set.        *)
(***************************************************************************)
LEMMA KeepFacts ==
  ASSUME NEW A, NEW s \in Seq(A), NEW set
  PROVE  /\ Keep(s, set) \in Seq(A)
         /\ ToSet(Keep(s, set)) = ToSet(s) \intersect set
<1>0. PICK n \in Nat : n = Len(s)
  OBVIOUS
<1>1. /\ DOMAIN s = 1 .. n /\ \A i \in 1 .. n : s[i] \in A
      /\ << >> \in Seq(A) /\ ToSet(<< >>) = {}
  BY <1>0, EmptySet
<1>4. PICK k : /\ k[0] = << >> /\ Keep(s, set) = k[n]
               /\ \A i \in 1 .. n : k[i] = IF s[i] \in set THEN Append(k[i - 1], s[i])
                                                         ELSE k[i - 1]
  BY <1>0, KeepSteps
<1> DEFINE Upto(i) == {s[j] : j \in 1 .. i}
           T == {i \in 0 .. n : k[i] \in Seq(A) /\ ToSet(k[i]) = Upto(i) \intersect set}
<1>5. 0 \in T
  <2>1. Upto(0) = {} /\ 0 \in 0 .. n
    BY <1>1
  <2> HIDE DEF Upto
  <2> QED BY <1>1, <1>4, <2>1
<1>6. ASSUME NEW i \in 0 .. n - 1, i \in T PROVE i + 1 \in T
  <2>1. i + 1 \in 1 .. n /\ i + 1 \in 0 .. n /\ (i + 1) - 1 = i /\ s[i + 1] \in A
    BY <1>1
  <2>2. Upto(i + 1) = Upto(i) \union {s[i + 1]}
    BY <1>1
  <2>3. k[i + 1] = IF s[i + 1] \in set THEN Append(k[i], s[i + 1]) ELSE k[i]
    BY <1>4, <2>1
  <2>4. k[i] \in Seq(A) /\ ToSet(k[i]) = Upto(i) \intersect set
    BY <1>6
  <2> HIDE DEF Upto
  <2>5. CASE s[i + 1] \in set
    <3>1. k[i + 1] \in Seq(A) /\ ToSet(k[i + 1]) = ToSet(k[i]) \union {s[i + 1]}
      BY <2>1, <2>3, <2>4, <2>5, ToSetFacts
    <3> QED BY <2>1, <2>2, <2>4, <2>5, <3>1
  <2>6. CASE s[i + 1] \notin set
    BY <2>1, <2>2, <2>3, <2>4, <2>6
  <2> QED BY <2>5, <2>6
<1>7. n \in T
  <2> HIDE DEF T
  <2>1. 0 .. n \subseteq T
    BY <1>1, <1>5, <1>6, BoundedInduction
  <2> QED BY <1>1, <2>1
<1>8. Upto(n) = ToSet(s)
  BY <1>1 DEF ToSet
<1> QED BY <1>4, <1>7, <1>8

(***************************************************************************)
(* Only the elements of the sequence count.                                *)
(***************************************************************************)
LEMMA KeepSame ==
  ASSUME NEW A, NEW s \in Seq(A), NEW a, NEW b, ToSet(s) \intersect a = ToSet(s) \intersect b
  PROVE  Keep(s, a) = Keep(s, b)
<1>0. PICK n \in Nat : n = Len(s)
  OBVIOUS
<1>1. PICK k : /\ k[0] = << >> /\ Keep(s, a) = k[n]
               /\ \A i \in 1 .. n : k[i] = IF s[i] \in a THEN Append(k[i - 1], s[i])
                                                       ELSE k[i - 1]
  BY <1>0, KeepSteps
<1>2. PICK h : /\ h[0] = << >> /\ Keep(s, b) = h[n]
               /\ \A i \in 1 .. n : h[i] = IF s[i] \in b THEN Append(h[i - 1], s[i])
                                                       ELSE h[i - 1]
  BY <1>0, KeepSteps
<1>3. \A i \in 1 .. n : s[i] \in a <=> s[i] \in b
  BY <1>0 DEF ToSet
<1> DEFINE T == {i \in 0 .. n : k[i] = h[i]}
<1>4. 0 \in T
  BY <1>1, <1>2
<1>5. ASSUME NEW i \in 0 .. n - 1, i \in T PROVE i + 1 \in T
  <2>1. i + 1 \in 1 .. n /\ i + 1 \in 0 .. n /\ (i + 1) - 1 = i
    OBVIOUS
  <2>2. /\ k[i + 1] = IF s[i + 1] \in a THEN Append(k[i], s[i + 1]) ELSE k[i]
        /\ h[i + 1] = IF s[i + 1] \in b THEN Append(h[i], s[i + 1]) ELSE h[i]
    BY <1>1, <1>2, <2>1
  <2>3. k[i] = h[i]
    BY <1>5
  <2> QED BY <1>3, <2>1, <2>2, <2>3
<1>6. n \in T
  <2> HIDE DEF T
  <2>1. 0 .. n \subseteq T
    BY <1>4, <1>5, BoundedInduction
  <2> QED BY <2>1
<1> QED BY <1>1, <1>2, <1>6


\* No element occurs twice.
Distinct(s) == \A i, j \in DOMAIN s : s[i] = s[j] => i = j

(***************************************************************************)
(* Appending something new leaves a list without duplicates.               *)
(***************************************************************************)
LEMMA DistinctAppend ==
  ASSUME NEW A, NEW s \in Seq(A), Distinct(s), NEW x \in A, x \notin ToSet(s)
  PROVE  Distinct(Append(s, x))
<1> DEFINE t == Append(s, x)
<1>1. /\ Len(s) \in Nat /\ DOMAIN s = 1 .. Len(s) /\ DOMAIN t = 1 .. Len(s) + 1
      /\ \A i \in 1 .. Len(s) : t[i] = s[i]
      /\ t[Len(s) + 1] = x
  OBVIOUS
<1> HIDE DEF t
<1>2. \A i \in 1 .. Len(s) : s[i] # x
  BY <1>1 DEF ToSet
<1>3. \A i \in 1 .. Len(s) + 1 : i \in 1 .. Len(s) \/ i = Len(s) + 1
  BY <1>1
<1>4. ASSUME NEW i \in DOMAIN t, NEW j \in DOMAIN t, t[i] = t[j] PROVE i = j
  <2>1. CASE i \in 1 .. Len(s) /\ j \in 1 .. Len(s)
    BY <1>1, <1>4, <2>1 DEF Distinct
  <2>2. CASE i = Len(s) + 1 \/ j = Len(s) + 1
    BY <1>1, <1>2, <1>3, <1>4, <2>2
  <2> QED BY <1>1, <1>3, <2>1, <2>2
<1> QED BY <1>4 DEF Distinct, t

(***************************************************************************)
(* A list of edges that edges are appended to, each once.                  *)
(***************************************************************************)
LEMMA AppendEdgesFacts ==
  ASSUME NEW A, NEW edges \in Seq(A), NEW more \in Seq(A)
  PROVE  /\ AppendEdges(edges, more) \in Seq(A)
         /\ ToSet(AppendEdges(edges, more)) = ToSet(edges) \union ToSet(more)
         /\ Distinct(edges) => Distinct(AppendEdges(edges, more))
<1>0. PICK n \in Nat : n = Len(more)
  OBVIOUS
<1> DEFINE V == Seq(A)
           step == [p \in V \X (1 .. n) |-> AppendEdge(p[1], more[p[2]])]
           Is(f) == f = [s \in SUBSET (1 .. n) |->
                           IF s = {} THEN edges
                           ELSE AppendEdge(f[s \ {Max(s)}], more[Max(s)])]
           f == CHOOSE f : Is(f)
<1>1. DOMAIN more = 1 .. n /\ \A i \in 1 .. n : more[i] \in A
  BY <1>0
<1>2. \A v \in V, e \in A : /\ AppendEdge(v, e) \in V
                            /\ ToSet(AppendEdge(v, e)) = ToSet(v) \union {e}
                            /\ Distinct(v) => Distinct(AppendEdge(v, e))
  BY ToSetFacts, DistinctAppend DEF AppendEdge
<1>3. Is(f)
  <2>1. step \in [V \X (1 .. n) -> V] /\ edges \in V
    BY <1>1, <1>2
  <2>2. \A v \in V, i \in 1 .. n : step[<< v, i >>] = AppendEdge(v, more[i])
    OBVIOUS
  <2> HIDE DEF step, V
  <2>3. PICK g \in [SUBSET (1 .. n) -> V] : FoldsBy(g, edges, n, step)
    BY <2>1, FoldExists
  <2>4. \A s \in SUBSET (1 .. n) : s # {} => Max(s) \in 1 .. n /\ g[s \ {Max(s)}] \in V
    <3> SUFFICES ASSUME NEW s \in SUBSET (1 .. n), s # {}
                 PROVE  Max(s) \in 1 .. n /\ g[s \ {Max(s)}] \in V
      OBVIOUS
    <3>1. Max(s) \in s
      BY LargestExists
    <3> QED BY <3>1
  <2>5. \A s \in SUBSET (1 .. n) : g[s] = IF s = {} THEN edges
                                          ELSE AppendEdge(g[s \ {Max(s)}], more[Max(s)])
    BY <2>2, <2>3, <2>4 DEF FoldsBy
  <2>6. Is(g)
    BY <2>5
  <2> HIDE DEF Is
  <2> QED BY <2>6
<1>4. AppendEdges(edges, more) = f[1 .. n]
  BY <1>1 DEF AppendEdges, FoldLeft, MapThenFoldSet
<1> HIDE DEF f
<1>5. /\ f[1 .. 0] = edges
      /\ \A m \in 0 .. n - 1 : f[1 .. m + 1] = AppendEdge(f[1 .. m], more[m + 1])
  <2>1. \A s \in SUBSET (1 .. n) : f[s] = IF s = {} THEN edges
                                          ELSE AppendEdge(f[s \ {Max(s)}], more[Max(s)])
    BY <1>3
  <2>2. 1 .. 0 = {} /\ {} \in SUBSET (1 .. n)
    OBVIOUS
  <2>3. ASSUME NEW m \in 0 .. n - 1
        PROVE  f[1 .. m + 1] = AppendEdge(f[1 .. m], more[m + 1])
    <3>1. m \in Nat /\ 1 .. m + 1 \in SUBSET (1 .. n) /\ 1 .. m + 1 # {}
      <4>1. m \in Nat /\ m + 1 <= n /\ m + 1 \in 1 .. m + 1
        OBVIOUS
      <4>2. 1 .. m + 1 \subseteq 1 .. n
        BY <4>1
      <4> QED BY <4>1, <4>2
    <3>2. Max(1 .. m + 1) = m + 1 /\ (1 .. m + 1) \ {m + 1} = 1 .. m
      BY <3>1, LargestFirst
    <3> DEFINE s == 1 .. m + 1
    <3> HIDE DEF s
    <3>3. f[s] = AppendEdge(f[s \ {Max(s)}], more[Max(s)])
      BY <2>1, <3>1 DEF s
    <3> QED BY <3>2, <3>3 DEF s
  <2>4. f[1 .. 0] = edges
    BY <2>1, <2>2
  <2> QED BY <2>3, <2>4
<1> DEFINE Upto(m) == {more[j] : j \in 1 .. m}
           T == {m \in 0 .. n : /\ f[1 .. m] \in Seq(A)
                                /\ ToSet(f[1 .. m]) = ToSet(edges) \union Upto(m)
                                /\ Distinct(edges) => Distinct(f[1 .. m])}
<1>6. 0 \in T
  <2>1. Upto(0) = {} /\ 0 \in 0 .. n
    OBVIOUS
  <2> HIDE DEF Upto
  <2> QED BY <1>5, <2>1
<1>7. ASSUME NEW m \in 0 .. n - 1, m \in T PROVE m + 1 \in T
  <2>1. m + 1 \in 0 .. n /\ more[m + 1] \in A
    BY <1>1
  <2>2. Upto(m + 1) = Upto(m) \union {more[m + 1]}
    OBVIOUS
  <2>3. /\ f[1 .. m] \in Seq(A) /\ ToSet(f[1 .. m]) = ToSet(edges) \union Upto(m)
        /\ Distinct(edges) => Distinct(f[1 .. m])
    BY <1>7
  <2> HIDE DEF Upto
  <2>4. f[1 .. m + 1] = AppendEdge(f[1 .. m], more[m + 1])
    BY <1>5
  <2>5. /\ f[1 .. m + 1] \in Seq(A)
        /\ ToSet(f[1 .. m + 1]) = ToSet(f[1 .. m]) \union {more[m + 1]}
        /\ Distinct(edges) => Distinct(f[1 .. m + 1])
    BY <1>2, <2>1, <2>3, <2>4
  <2> QED BY <2>1, <2>2, <2>3, <2>5
<1>8. n \in T
  <2> HIDE DEF T
  <2>1. 0 .. n \subseteq T
    BY <1>6, <1>7, BoundedInduction
  <2> QED BY <2>1
<1>9. Upto(n) = ToSet(more)
  BY <1>1 DEF ToSet
<1> QED BY <1>4, <1>8, <1>9
=============================================================================

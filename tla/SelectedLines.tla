--------------------------- MODULE SelectedLines ---------------------------
(***************************************************************************)
(* What conditional compilation means, without a stack: the lines of a     *)
(* log that are selected, and where each was written.  This is what the    *)
(* preprocessor of src/frontend/preprocessor.c is compared with; nothing   *)
(* here follows its code.                                                  *)
(*                                                                         *)
(* A log is the sequence of the lines read so far, those of included files *)
(* at the place of their include line.  An entry has the line, the buffer  *)
(* and the input it is from, and the name of the file.                     *)
(***************************************************************************)
EXTENDS Integers, Sequences, FiniteSets, SequencesExt

CONSTANT Predefined  \* macros defined in the configuration

VARIABLE log

Kind(i) == log[i].line.kind
SameBuffer(i, j) == log[i].buffer = log[j].buffer
SameInput(i, j) == log[i].input = log[j].input
Before(i) == {j \in 1 .. i - 1 : SameBuffer(i, j)}

\* Groups of its buffer that are open before a line.
Level(i) ==
  Cardinality({j \in Before(i) : Kind(j) = "if"})
    - Cardinality({j \in Before(i) : Kind(j) = "endif"})

\* Does the group that opens at j enclose line i?
Encloses(j, i) ==
  /\ j \in Before(i) /\ Kind(j) = "if"
  /\ \A k \in Before(i) \union {i} : k > j => Level(k) > Level(j)

\* Where the branches of a group around line i begin, as far as they do
\* before i.
Branches(j, i) ==
  {j} \union {k \in Before(i) : /\ k > j /\ Kind(k) \in {"elif", "else"}
                                /\ Level(k) = Level(j) + 1}

\* Is a line selected, given which of those before it are?  In every group
\* around it, its branch is the first whose condition holds.
IsSelected(i, selected) ==
  LET Defined(macro, at) ==
        LET changes == {j \in 1 .. at - 1 :
                          /\ SameInput(j, at) /\ selected[j]
                          /\ Kind(j) \in {"define", "undef"} /\ log[j].line.macro = macro}
        IN IF changes = {} THEN macro \in Predefined ELSE Kind(Max(changes)) = "define"
      Holds(k) ==
        Kind(k) = "else" \/ Defined(log[k].line.macro, k) = log[k].line.defined
  IN \A j \in Before(i) :
       Encloses(j, i) =>
         LET branch == Max(Branches(j, i)) IN
         Holds(branch) /\ \A k \in Branches(j, i) \ {branch} : ~ Holds(k)

Selection ==
  FoldLeft(LAMBDA selected, entry : Append(selected, IsSelected(Len(selected) + 1, selected)),
           << >>, log)

\* Is there a group, and has it no #else yet, that a directive at i belongs to?
Matched(i) ==
  /\ Level(i) > 0
  /\ Kind(i) \in {"elif", "else"} =>
       \A j \in Before(i) :
         Encloses(j, i) /\ Level(j) = Level(i) - 1
           => \A k \in Branches(j, i) : Kind(k) # "else"

\* The source name and line of a line: those a #line gave, or its own.
Origin(i, selected) ==
  LET Ordinal(j) == Cardinality(Before(j)) + 1
      markers == {j \in Before(i) : selected[j] /\ Kind(j) = "line"}
  IN IF markers = {}
     THEN [name |-> log[i].file, line |-> Ordinal(i)]
     ELSE LET marker == Max(markers) IN
          [name |-> log[marker].line.name,
           line |-> log[marker].line.number + Ordinal(i) - Ordinal(marker) - 1]
=============================================================================

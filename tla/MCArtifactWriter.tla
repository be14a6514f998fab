-------------------------- MODULE MCArtifactWriter --------------------------
(***************************************************************************)
(* ArtifactWriter on C and header outputs.                                 *)
(***************************************************************************)
EXTENDS SequentialWriterProof, TLC

CONSTANTS p1, p2, p3

\* A C file and a header; then the header alone, the C code on standard
\* output.
Both == [files |-> << "out.c", "out.h" >>, slots |-> << 0, 1 >>, stream |-> FALSE]
Piped == [files |-> << "out.h" >>, slots |-> << 1 >>, stream |-> TRUE]

MCFile == {"out.c", "out.h"}
OneFile == {"out.c"}

\* Three invocations, one after another, two of them alike.
Sequential == p1 :> Both @@ p2 :> Piped @@ p3 :> Both

\* Two invocations at the same time.
Concurrent == p1 :> Both @@ p2 :> Piped

\* -o out.c --header ./out.c
Alias == p1 :> [files |-> << "out.c", "out.c" >>, slots |-> << 0, 1 >>,
                stream |-> FALSE]

\* Three invocations that write the C file alone, at the same time.
Single == [files |-> << "out.c" >>, slots |-> << 0 >>, stream |-> FALSE]
Race == p1 :> Single @@ p2 :> Single @@ p3 :> Single
Alike == Permutations({p1, p2, p3})

One == p1 :> Both
=============================================================================

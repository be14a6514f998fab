--------------------------- MODULE MCPreprocessor ---------------------------
(***************************************************************************)
(* Preprocessor on two inputs and two further sources.                     *)
(***************************************************************************)
EXTENDS Preprocessor

CONSTANTS main, lib, other, missing, inc, self

\* inc finds lib, or other from lib itself; a source renamed other finds
\* nothing; self finds the source it is in, if that has its own name.
MCResolve ==
  [at \in Name \X Request |->
     CASE at[2] = self -> at[1]
       [] at[2] = inc /\ at[1] = main -> lib
       [] at[2] = inc /\ at[1] = lib -> other
       [] OTHER -> missing]

MCMarker == {[name |-> other, number |-> 7]}
=============================================================================

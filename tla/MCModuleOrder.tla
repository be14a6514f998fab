--------------------------- MODULE MCModuleOrder ---------------------------
(***************************************************************************)
(* ModuleOrder on projects of three modules of two lines each.  The name   *)
(* "x" belongs to no module of the project.                                *)
(***************************************************************************)
EXTENDS ModuleOrder

MCModuleCount == 3
MCName == {"a", "b", "c", "x"}

Statement(status, intrinsic, name) ==
  [status |-> status, intrinsic |-> intrinsic, name |-> name]

Use(name) == Statement("parsed", FALSE, name)

\* Lines that record nothing, or stop the collection.
OtherLines == {Statement("not_matched", FALSE, "x"), Statement("invalid", FALSE, "a"),
               Statement("parsed", TRUE, "b"), Statement("no_memory", FALSE, "x"),
               Use("x")}

\* Distinct names, and a project with two modules of one name.
Named(names) == [m \in {0, 1, 2} |-> names[m + 1]]
Names == {Named(<< "a", "b", "c" >>), Named(<< "a", "b", "b" >>)}

Lines == {Use(n) : n \in {"a", "b", "c"}} \union OtherLines

\* One module has any two lines, the others use up to two modules.
Uses2 == {<< >>} \union {<< Use(n) >> : n \in {"a", "b", "c"}}
         \union {<< Use(n[1]), Use(n[2]) >> : n \in {"a", "b", "c"} \X {"a", "b", "c"}}

MCProjects ==
  [names : Names,
   lines : {[m \in {0, 1, 2} |-> CASE m = 0 -> a [] m = 1 -> b [] m = 2 -> c] :
              a \in (Lines \X Lines), b \in Uses2, c \in Uses2}]
=============================================================================

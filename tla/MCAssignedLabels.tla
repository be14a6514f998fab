-------------------------- MODULE MCAssignedLabels --------------------------
(***************************************************************************)
(* AssignedLabels on units of up to twelve statements with two variables.  *)
(***************************************************************************)
EXTENDS AssignedLabels

CONSTANTS v, w

S(kind, conditional, variable, labels) ==
  [kind |-> kind, conditional |-> conditional, variable |-> variable,
   labels |-> labels]

Assign(x, l) == S("assign_label", FALSE, x, << l >>)
IfAssign(x, l) == S("assign_label", TRUE, x, << l >>)
GotoVariable(x, allowed) == S("assigned_goto", FALSE, x, allowed)
IfGotoVariable(x) == S("assigned_goto", TRUE, x, << >>)
Goto(l) == S("goto", FALSE, v, << l >>)
IfGoto(l) == S("goto", TRUE, v, << l >>)
Stop == S("stop", FALSE, v, << >>)
Write(x) == S("write", FALSE, x, << >>)
Other(x) == S("assignment", FALSE, x, << >>)
Continue == S("continue", FALSE, v, << >>)

\* Two statements that assign labels, two jumps, and two statements of any
\* kind between and after them.
Middle == {IfAssign(v, 6), Assign(w, 4), IfAssign(w, 4), IfGoto(5), Goto(6),
           Write(v), Other(w), IfGotoVariable(v), Continue, Goto(2), Assign(v, 7)}
ShortUnits ==
  { << Assign(v, a), b, c, GotoVariable(v, d), e, GotoVariable(w, << >>), Stop >> :
      a \in {3, 5, 7, 9}, b \in {Assign(w, 2), Assign(w, 9), IfAssign(w, 3)},
      c \in Middle, d \in {<< >>, << 3, 5 >>},
      e \in Middle \ {IfGoto(5), Goto(6), Continue} }

\* Each variable's jump is reached only through the other's assignment,
\* which is the action of a logical IF.
Oscillating ==
  << Assign(v, 11), Assign(w, 11), IfGoto(5), Goto(6),
     GotoVariable(v, << >>), GotoVariable(w, << >>),
     IfAssign(w, 9), Goto(6), Assign(v, 7), Goto(5), Stop >>

MCUnits == ShortUnits \union {Oscillating}
=============================================================================

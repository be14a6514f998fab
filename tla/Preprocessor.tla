---------------------------- MODULE Preprocessor ----------------------------
(***************************************************************************)
(* The preprocessor, src/frontend/preprocessor.c with preprocessor/        *)
(* include.c, applied to the inputs of a project one after another: lines  *)
(* of a buffer are read one at a time, an include line starts a nested     *)
(* buffer.  All buffers of an input share the macros and the stack of open *)
(* conditional groups, all inputs the budgets of the request.              *)
(*                                                                         *)
(* A line counts as one byte of input.  What a line says is chosen when it *)
(* is read: a resolver may answer a request differently each time.         *)
(***************************************************************************)
EXTENDS SelectedLines

CONSTANTS
  Name,       \* source names
  Request,    \* what an include line asks for
  Resolve,    \* the resolver: what a request in a source named so finds
  NotFound,   \* an answer of the resolver
  Macro,      \* names of macros
  Marker,     \* what a #line says: a source name and a line number
  Inputs,     \* number of inputs
  MainName,   \* the source name of the inputs
  MaxInput,   \* limits.max_input_bytes
  MaxBytes,   \* limits.max_preprocessed_bytes
  MaxDepth,   \* limits.max_include_depth
  MaxFiles,   \* limits.max_include_files
  MaxNesting  \* limits.max_parse_depth

ASSUME PreprocessorAssumption ==
  /\ Resolve \in [Name \X Request -> Name \union {NotFound}]
  /\ NotFound \notin Name /\ MainName \in Name
  /\ Marker \subseteq [name : Name, number : Nat]
  /\ Predefined \subseteq Macro
  /\ {Inputs, MaxInput, MaxBytes, MaxDepth, MaxFiles, MaxNesting} \subseteq Nat

VARIABLES
  stack,              \* the buffers being read, innermost last
  conditionals,       \* the open groups of all of them
  macros,             \* macros that are defined
  output,             \* texts written for the input, and where they are from
  length,             \* their bytes, with the newlines
  input,              \* inputs started
  inputBytes,         \* Context: bytes of input and include sources
  includeFileCount,   \* Context: sources included
  preprocessedBytes,  \* Context: bytes of the finished inputs
  failure             \* why the request failed, or "none"

counters == << inputBytes, includeFileCount, preprocessedBytes, input >>
vars == << stack, conditionals, macros, output, length, counters, failure, log >>

Top == Last(stack)
Running == failure = "none" /\ stack # << >>
Reading == Running /\ Top.left > 0
AtEnd == Running /\ Top.left = 0

\* A buffer of size lines: the source it is from, the name and the line its
\* next line is said to have, the lines left, and its conditional state.
Buffer(id, file, size) ==
  [id |-> id, file |-> file, name |-> file, line |-> 1, left |-> size,
   active |-> TRUE, base |-> Len(conditionals)]

Init ==
  /\ stack = << >> /\ conditionals = << >> /\ macros = {}
  /\ output = << >> /\ length = 0
  /\ input = 0 /\ inputBytes = 0 /\ includeFileCount = 0 /\ preprocessedBytes = 0
  /\ failure = "none"
  /\ log = << >>

-----------------------------------------------------------------------------
(* One line.                                                               *)

Take(line) ==
  /\ Reading
  /\ log' = Append(log, [input |-> input, buffer |-> Top.id, file |-> Top.file, line |-> line])

Refuse(why) == failure' = why /\ UNCHANGED << stack, length >>

WithTop(buffers, buffer) == Append(Front(buffers), buffer)
Advance(buffer) == [buffer EXCEPT !.line = @ + 1, !.left = @ - 1]

\* f2c_preprocessor_append: what is written for the line before and within
\* its newline fits into what other inputs leave of the budget, or nothing
\* comes of the request.
Emit(bytes, buffers) ==
  IF preprocessedBytes + length + bytes > MaxBytes
  THEN Refuse("bytes")
  ELSE /\ length' = length + bytes /\ stack' = buffers
       /\ UNCHANGED failure

\* The line is done, its buffer in this state.
Finish(buffer) == Emit(1, WithTop(stack, Advance(buffer)))

Text ==
  /\ Take([kind |-> "text"])
  /\ IF Top.active
     THEN /\ Emit(2, WithTop(stack, Advance(Top)))
          /\ output' = Append(output, [at |-> Len(log'), name |-> Top.name, line |-> Top.line])
     ELSE Finish(Top) /\ UNCHANGED output
  /\ UNCHANGED << conditionals, macros, counters >>

-----------------------------------------------------------------------------
(* Conditional groups.                                                     *)

Group == Last(conditionals)

\* Mutant: the groups of the including file are in reach.
UnmatchedAnywhere == conditionals = << >>

\* conditional_base: the groups of the including file are out of reach.
Unmatched == Len(conditionals) = Top.base

\* Mutant: whether the line itself is active does not matter.
EnteredAnyway(condition) == condition

\* Is the group that opens active?
Entered(condition) == Top.active /\ condition

\* #if, #ifdef, #ifndef.  #if does not evaluate its condition in a group
\* that is skipped, #ifdef does.
If(macro, defined) ==
  LET holds == (macro \in macros) = defined IN
  /\ Take([kind |-> "if", macro |-> macro, defined |-> defined])
  /\ IF Len(conditionals) >= MaxNesting
     THEN Refuse("nesting") /\ UNCHANGED conditionals
     ELSE \E condition \in {holds, Top.active /\ holds} :
            /\ conditionals' = Append(conditionals, [parentActive |-> Top.active,
                                                     branchTaken |-> condition,
                                                     elseSeen |-> FALSE])
            /\ Finish([Top EXCEPT !.active = Entered(condition)])
  /\ UNCHANGED << macros, output, counters >>

\* Mutant: only an #else is remembered.
TakenByElse(condition, isElse) == Group.branchTaken \/ isElse

\* Has a branch of the group been taken now?
Taken(condition, isElse) == Group.branchTaken \/ condition \/ isElse

\* The group goes on with another branch.
Branch(line, holds, isElse) ==
  /\ Take(line)
  /\ IF Unmatched \/ Group.elseSeen
     THEN Refuse("syntax") /\ UNCHANGED conditionals
     ELSE LET condition == Group.parentActive /\ ~ Group.branchTaken /\ holds IN
          /\ conditionals' = WithTop(conditionals,
               [Group EXCEPT !.branchTaken = Taken(condition, isElse), !.elseSeen = isElse])
          /\ Finish([Top EXCEPT !.active = condition])
  /\ UNCHANGED << macros, output, counters >>

Elif(macro, defined) ==
  Branch([kind |-> "elif", macro |-> macro, defined |-> defined],
         (macro \in macros) = defined, FALSE)

Else == Branch([kind |-> "else"], TRUE, TRUE)

Endif ==
  /\ Take([kind |-> "endif"])
  /\ IF Unmatched
     THEN Refuse("syntax") /\ UNCHANGED conditionals
     ELSE conditionals' = Front(conditionals) /\ Finish([Top EXCEPT !.active = Group.parentActive])
  /\ UNCHANGED << macros, output, counters >>

-----------------------------------------------------------------------------
(* Directives that are obeyed where the text is selected only.             *)

\* #define of a macro that has that value already changes nothing.
Define(macro) ==
  /\ Take([kind |-> "define", macro |-> macro])
  /\ macros' = IF Top.active THEN macros \union {macro} ELSE macros
  /\ Finish(Top)
  /\ UNCHANGED << conditionals, output, counters >>

Undef(macro) ==
  /\ Take([kind |-> "undef", macro |-> macro])
  /\ macros' = IF Top.active THEN macros \ {macro} ELSE macros
  /\ Finish(Top)
  /\ UNCHANGED << conditionals, output, counters >>

\* #line and # number: of the line that follows.
Line(marker) ==
  /\ Take([kind |-> "line", name |-> marker.name, number |-> marker.number])
  /\ IF Top.active
     THEN Emit(1, WithTop(stack, [Advance(Top) EXCEPT !.name = marker.name,
                                                      !.line = marker.number]))
     ELSE Finish(Top)
  /\ UNCHANGED << conditionals, macros, output, counters >>

\* Mutant: the source of the line itself is not one of them.
OpenAbove == {stack[i].file : i \in 1 .. Len(stack) - 1}

\* include_cycle: the sources the line is within.
Open == {stack[i].file : i \in DOMAIN stack}

\* Why f2c_preprocessor_process_include refuses a source, in the order it
\* looks.
Objection(file, size) ==
  IF Len(stack) - 1 >= MaxDepth THEN "depth"
  ELSE IF includeFileCount >= MaxFiles THEN "files"
  ELSE IF file = NotFound THEN "not found"
  ELSE IF size > MaxInput - inputBytes THEN "input"
  ELSE IF file \in Open THEN "cycle"
  ELSE "none"

\* #include and INCLUDE.
Include(request, size) ==
  LET file == Resolve[<< Top.name, request >>]
      objection == Objection(file, size) IN
  /\ Take([kind |-> "include"])
  /\ IF ~ Top.active
     THEN size = 0 /\ Finish(Top) /\ UNCHANGED counters
     ELSE IF objection # "none"
     THEN Refuse(objection) /\ UNCHANGED counters
     ELSE /\ includeFileCount' = includeFileCount + 1
          /\ inputBytes' = inputBytes + size
          /\ stack' = Append(stack, Buffer(input + includeFileCount', file, size))
          /\ UNCHANGED << length, failure, input, preprocessedBytes >>
  /\ UNCHANGED << conditionals, macros, output >>

-----------------------------------------------------------------------------
(* Buffers end, and inputs.                                                *)

Unterminated == Len(conditionals) # Top.base

\* Mutant: a #line of the included source stays in force.
ResumedAs(buffer) == Advance([buffer EXCEPT !.name = Top.name])

\* The state of the including buffer is that at its include line.
Resumed(buffer) == Advance(buffer)

\* The included source ends, and with it the line that includes it.
Leave ==
  LET outer == Front(stack) IN
  /\ AtEnd /\ Len(stack) > 1
  /\ IF Unterminated
     THEN Refuse("syntax")
     ELSE Emit(1, WithTop(outer, Resumed(Last(outer))))
  /\ UNCHANGED << conditionals, macros, output, counters, log >>

\* f2c_transpile_project_config goes on with the next input.
StartInput(size) ==
  /\ failure = "none" /\ stack = << >> /\ input < Inputs
  /\ IF size > MaxInput - inputBytes
     THEN Refuse("input") /\ UNCHANGED << input, inputBytes, macros >>
     ELSE /\ input' = input + 1
          /\ inputBytes' = inputBytes + size
          /\ macros' = Predefined
          /\ stack' = << Buffer(input' + includeFileCount, MainName, size) >>
          /\ UNCHANGED << length, failure >>
  /\ UNCHANGED << conditionals, output, includeFileCount, preprocessedBytes, log >>

\* Mutant: every input has the whole budget.
SpentOnNothing == preprocessedBytes

\* What the finished inputs have used.
Spent == preprocessedBytes + length

\* f2c_preprocess_source returns the text, which is normalized.
EndInput ==
  /\ AtEnd /\ Len(stack) = 1
  /\ IF Unterminated
     THEN Refuse("syntax") /\ UNCHANGED << preprocessedBytes, output >>
     ELSE /\ preprocessedBytes' = Spent
          /\ stack' = << >> /\ output' = << >> /\ length' = 0
          /\ UNCHANGED failure
  /\ UNCHANGED << conditionals, macros, input, inputBytes, includeFileCount, log >>

Size == 0 .. MaxInput + 1

Next ==
  \/ \E size \in Size : StartInput(size)
  \/ Text
  \/ \E macro \in Macro, defined \in BOOLEAN : If(macro, defined) \/ Elif(macro, defined)
  \/ Else \/ Endif
  \/ \E macro \in Macro : Define(macro) \/ Undef(macro)
  \/ \E marker \in Marker : Line(marker)
  \/ \E request \in Request, size \in Size : Include(request, size)
  \/ Leave \/ EndInput

Spec == Init /\ [][Next]_vars

-----------------------------------------------------------------------------
(***************************************************************************)
(* What the preprocessor promises.                                         *)
(***************************************************************************)

(***************************************************************************)
(* The stacks fit together: each buffer has the groups from its base to    *)
(* that of the buffer it includes, and a buffer is active where it was     *)
(* when the innermost of its groups was opened and in a branch taken;      *)
(* whoever includes another is active.                                     *)
(***************************************************************************)
TypeOK ==
  LET End(i) == IF i = Len(stack) THEN Len(conditionals) ELSE stack[i + 1].base IN
  /\ \A i \in DOMAIN stack :
       /\ stack[i].file \in Name /\ stack[i].name \in Name
       /\ stack[i].line \in Nat /\ stack[i].left \in Nat
       /\ failure = "none" =>
            /\ stack[i].base <= End(i)
            /\ stack[i].base = End(i) => stack[i].active
            /\ stack[i].active /\ stack[i].base < End(i) =>
                 conditionals[End(i)].parentActive /\ conditionals[End(i)].branchTaken
            /\ i < Len(stack) => stack[i].active
  /\ macros \subseteq Macro
  /\ inputBytes <= MaxInput /\ includeFileCount <= MaxFiles /\ Len(stack) <= MaxDepth + 1

\* The texts of the log, of the input that is being read.
Texts(selected) ==
  {i \in DOMAIN log : log[i].input = input /\ Kind(i) = "text" /\ selected[i]}

(***************************************************************************)
(* The output has the selected texts of the input, each once and in order, *)
(* and as many sources were included as there are selected include lines:  *)
(* groups, macros and included files have no effect beyond what they say.  *)
(***************************************************************************)
OutputIsSelection ==
  failure = "none" =>
    LET selected == Selection IN
    /\ stack # << >> =>
         /\ {output[n].at : n \in DOMAIN output} = Texts(selected)
         /\ \A m, n \in DOMAIN output : m < n => output[m].at < output[n].at
    /\ includeFileCount = Cardinality({i \in DOMAIN log : Kind(i) = "include" /\ selected[i]})

(***************************************************************************)
(* Every text is mapped to where it was written, as the #line directives   *)
(* of its own buffer say, wherever included files end that have some too.  *)
(***************************************************************************)
OriginsKept ==
  failure = "none" =>
    LET selected == Selection IN
    \A n \in DOMAIN output :
      Origin(output[n].at, selected) = [name |-> output[n].name, line |-> output[n].line]

(***************************************************************************)
(* A conditional directive is refused where, and only where, its own       *)
(* buffer has no group it belongs to; and the end of a buffer where it has *)
(* a group without an end.                                                 *)
(***************************************************************************)
GroupsStayInTheirFile ==
  LET Continues(i) == Kind(i) \in {"elif", "else", "endif"}
      last == Len(log)
      open == {i \in DOMAIN log : log[i].buffer = Top.id /\ Kind(i) = "if"}
      closed == {i \in DOMAIN log : log[i].buffer = Top.id /\ Kind(i) = "endif"} IN
  /\ \A i \in DOMAIN log : Continues(i) => Matched(i) \/ (i = last /\ failure = "syntax")
  /\ failure = "syntax" =>
       \/ Continues(last) /\ ~ Matched(last)
       \/ Top.left = 0 /\ Cardinality(open) > Cardinality(closed)

\* The bytes of all lines that are done: newlines, and selected texts.
Written(selected) ==
  Len(log) + Cardinality({i \in DOMAIN log : Kind(i) = "text" /\ selected[i]})
    - (IF stack = << >> THEN 0 ELSE Len(stack) - 1)

(***************************************************************************)
(* The budget is that of the request: all inputs and included sources      *)
(* together never have more text than it allows, and less is not refused.  *)
(***************************************************************************)
BudgetIsCumulative ==
  LET written == Written(Selection) IN
  /\ failure = "none" => written <= MaxBytes
  /\ failure = "bytes" => written + (IF Top.left = 0 THEN 1 ELSE 0) > MaxBytes

(***************************************************************************)
(* A source is not read within itself, whatever the #line directives in it *)
(* and the resolver make of names.                                         *)
(***************************************************************************)
NoSourceWithinItself == \A i, j \in DOMAIN stack : i # j => stack[i].file # stack[j].file
=============================================================================

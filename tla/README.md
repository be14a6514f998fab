# TLA+ verification of f2c

f2c translates Fortran to C17. It is a sequential compiler: its hard behaviour is
not in threads but in fixed points over graphs, in orderings computed from
unordered input, in stacks and limits that nest, in the file system it shares with
other processes, and in the runtime it emits into every translated program. The
modules here model those parts, TLC checks them on small instances, and TLAPS
proves the central results for every instance. Paths below
are relative to the repository.

## 1. Inventory

| Component (source) | State it keeps | Operations | Hard behaviour | What makes it correct | Modelled |
|---|---|---|---|---|---|
| Bit-vector data-flow solver (`src/semantic/data_flow/bitset.c`) | one bit vector and flag word per CFG node, circular work queue, `queued[]` | solve forward, solve backward, merge, enqueue | cyclic graphs, any visiting order, queue at its limit, edges closed by a filter and opened later | result is the least solution of the equations; queue never overflows; the loop ends | `BitFlow` |
| Control-flow graph (`src/semantic/control_flow.c`, `control_flow/connectivity.c`) | successor and predecessor lists, basic blocks | build from statements; derive predecessors and blocks | labels, alternate returns, I/O exits, loops sharing a terminal statement | every possible transfer of control is an edge | partly: `ControlFlow`, `AssignedLabels` |
| Assigned labels (`src/semantic/validation/assigned_label.c`) | resolved branches of every assigned GOTO and FORMAT, the current graph | analyse, rebuild graph, repeat, diagnose | the graph depends on the labels and the labels on the graph | generated branches cover every execution; the iteration ends | `AssignedLabels` |
| Module analysis order (`src/frontend/module/dependency.c`, `pipeline.c`) | dependencies, indegrees, order | collect USEs, order, diagnose a cycle, permute | any order of input files, repeated and cyclic USE | providers first, stable, cycles and only cycles diagnosed | `ModuleOrder` |
| Artifact writer (`src/cli/io.c`) | staged files, backups, installed flags; the directory | stage, back up, install, print, restore, clean up | any system call fails, the process is killed, several processes share names | outputs replaced whole, together or not at all | `ArtifactWriter` |
| CLI driver (`src/cli/main.c`) | options, inputs | parse options, translate, write | two options naming one file | outputs are distinct | partly: `ArtifactWriter` |
| Variable liveness (`data_flow/variables.c`) | use and definition sets | collect, solve backward | conditional definitions | live variables are never dropped | partly: `BitFlow` |
| Temporary planning (`data_flow/temporaries.c`, `semantic/temporary.c`) | lifetimes of temporaries | plan over the CFG | early exits | released exactly once | no |
| Preprocessor (`src/frontend/preprocessor.c`, `preprocessor/`) | include stack, conditional stack, macro table, `#line` state, byte budgets | directives, expansion, include, next input | groups and `#line` state nested across files, limits shared by all inputs, state restored when a source ends | the output is the text the conditions select, mapped to where it was written; budgets never passed; no source within itself | partly: `Preprocessor`, `SelectedLines` |
| Compilation pipeline (`src/core/transpile.c`) | phase, error count, buffers, budgets of the request | inputs, phases, result | limits shared by inputs | budgets are cumulative | partly: the loop over inputs in `Preprocessor` |
| COMMON and EQUIVALENCE (`src/semantic/storage.c`) | offsets | propagate, extend | order of groups | the same layout in every order | no |
| Generated I/O runtime (`src/core/generated/io.c`, `record.c`, `stream.c`) | unit table, open files and their output buffers, the transfer of each unit | OPEN, CLOSE, READ, WRITE, REWIND, BACKSPACE, ENDFILE, INQUIRE, implicit OPEN | any C library call fails, output lost long after its WRITE, half-written records, positions inside records, reuse of a unit | a record written is the record read; statements move by records; a failure takes no more records than were buffered; units stay sound | partly: `FileUnits`, `RecordTransfer`, `SequentialFile` |
| NAMELIST transaction (`codegen/io/namelist/transaction.c`) | copies of the members | read, commit | an error half way | all or nothing | no |
| Numeric kernels (`src/core/numeric/`) | none | trip counts, powers | ends of the integer range | Fortran semantics without undefined behaviour | no |
| Lexer, parser, AST, name resolution, validation, constant evaluation, code generation, diagnostics | tables and trees | one pass each | size of the input language | differential and conformance tests compare them | no |

**Interaction.** `main` reads the inputs, calls the transpiler, and gives its
result to the artifact writer. The transpiler preprocesses (`Preprocessor`) and
parses every input, orders the modules (`ModuleOrder`) and analyses them in that order, builds
a control-flow graph per unit, refines it by the assigned labels
(`AssignedLabels`, which calls the data-flow solver for each variable), solves
liveness on it (the backward solver, which needs the predecessor lists of
`ControlFlow`), and generates C, into which it copies the parts of the I/O runtime the
program needs (`RecordTransfer` on top of `FileUnits`). Components call each other;
nothing is shared between threads. Processes share the output directory only.

## 2. Plan

Done, in this order, most important behaviour first:

1. `BitFlow` (with `ControlFlow`), the solver every flow analysis stands on; proofs.
2. `ModuleOrder`, on which the meaning of a multi-file project depends; proofs.
3. `ArtifactWriter`, the only part where processes and crashes meet; proofs.
4. `AssignedLabels`, composing the control-flow graph and the solver; proofs.
5. `FileUnits` and `RecordTransfer`, the unit table and the records of the generated
   runtime, composed, and shown to implement the abstract `SequentialFile`; proofs.
6. `Preprocessor`, the nested stacks and the budgets, against the abstract
   selection of `SelectedLines`; proofs.

Left, in the order of what each would add:

7. `OutputTransaction`, an abstract specification of the writer (every output is
   old or new, all change together) that `ArtifactWriter` implements when
   invocations do not overlap and undoing does not fail.
8. The remaining control-flow edges (loops, constructs, blocks) added to
   `ControlFlow`; `Liveness` over it with conditional definitions.
9. Storage association and the numeric kernels against reference definitions at
   small sizes.
10. In the runtime: formatted direct access, several records per transfer,
    preconnected units.

## 3. The modules

**`ControlFlow`** has the edge lists: `AppendEdge` keeps them free of
duplicates, `Predecessors` derives them as `build_node_predecessors` does.

**`BitFlow`** is one call of `f2c_bit_flow_solve` or
`f2c_bit_flow_solve_backward`. `queue`, `head`, `tail`, `count`, `queued` are the C
locals; `initialized` and `facts` are the result's states; `output` is the scratch
state; `node` and `edge` are the loop positions. `TakeNode` is the head of the
while loop with the transfer function, `FilterEdge` and `MergeEdge` one turn of
the edge loop, `AllocationFails`, `TransferFails` and a failing `Enqueue` the error
exits. Abstractions: bits and flags are one set of facts (both are merged by
bitwise or); a transfer function is gen/kill, as in every caller; an edge filter
asks for facts in the output; edges lead to nodes; the backward solver's
initial loop is one step.

**`ModuleOrder`** is `f2c_build_module_analysis_order` followed by
`apply_module_analysis_order`. One step reads a source line, selects a module,
or looks at one dependency. `seen` keeps the stamp `consumer + 1`; `Placed` stands for
`SIZE_MAX`. A line is what parsing it as USE gives.

**`ArtifactWriter`** is `f2c_cli_write_artifacts` in any number of invocations on
one directory, one step per system call. A file holds an earlier version, part of
an output, or a whole output, and the name of a temporary file depends on the
output, its slot and the attempt, not on the process, as in C. `Write` acts on the
open file: it completes the data wherever the file has been renamed to, and
does nothing visible when it was deleted. `Fault` is any call that fails; `Slip` is
one whose result the code throws away. `Crash` kills an invocation between any
two calls. `before` and `tidy` are history variables.

**`AssignedLabels`** is `f2c_validation_assigned_labels` with the edges of
`f2c_control_flow_build` it depends on: fall-through, GOTO, assigned GOTO before and
after resolution, STOP, and the error exit of output statements. One step
analyses all variables, rebuilds the graph, or reports. `Solve` is the least
solution of the flow equations; that this is what the solver computes is what
the theorems `Solved` and `Least` say. The statement at position n has label n,
and larger labels belong to FORMAT statements. When the analysis is done, `Run`
executes the Fortran program, so that what was resolved can be compared with
what happens. Not modelled: loops, constructs and subprogram calls in the graph, and the
diagnostics for a labelled variable read as an ordinary value.

**`FileUnits`** is the unit table: `f2c_open_unit_full`, `f2c_close_unit_with_status`, the
implicit OPEN of `f2c_unit_stream`, REWIND, BACKSPACE, ENDFILE and the seeks of INQUIRE. A file is a
sequence of cells: characters, 0 the newline, or words and length markers. `disk`
has the files that exist, `unit` the entries of connected units, whose field
`handle` is `entry->file` and `stream` tells whether `entry->stream` still is an open
file. A scratch file is known by its unit. `Fault` is a call of the C library that
fails. Each statement is one action, with all the outcomes its calls can
have: `Connect` closes the old connection before the new one is there, so that a
failed OPEN loses it; ENDFILE copies, empties and copies back, and `EndfileAbandoned`,
`EndfileDetached` and `EndfileLoses` are its failures before, during and after
emptying. A unit whose stream is closed (`Stale`) is not followed into its undefined
behaviour. `records`, `clean` and `direct` are history variables.

*Buffered output.* A formatted WRITE ends without a flush (`record.c:159-161` asks for the error
indicator only), so lines it reported complete may still be in the buffer of the C library. `disk`
is the file as the program sees it, buffer included; `buffer[u]` says where the output in the buffer
starts and what the file is without it. A call that positions, reads or closes the stream writes the
buffer out (`Emptied`), or fails to: then the output up to some cell `m` is in the file
and the rest is gone, lines of earlier WRITEs too (`Drop`). This is a failing outcome of CLOSE and of the OPEN that
reconnects a unit (`CloseLoses`), of REWIND, BACKSPACE, ENDFILE, INQUIRE and a formatted READ
(`FlushFails`), and of a WRITE that finds the buffer full (`OutputLost`). What was lost is taken off
`records`, and the file is no longer `clean`. Unformatted and direct WRITEs have no `buffer`: each begins right behind
a seek or seeks first, and ends with one, so only its own items can be in the buffer, and losing some is what the
model has anyway when an earlier item fails.

*What does not fail.* Reading, the seeks of a READ that have no output to write, and a call
whose failure changes nothing but the status (a REWIND with nothing to write, for one) are left
out. Positions after a failure are those the calls before it lead to; what a closed scratch file loses
is not followed, since the file is gone.

**`RecordTransfer`** extends it by READ and WRITE, which are `f2c_transfer_begin`, the
items, and `f2c_transfer_end`. A WRITE takes one step per item, because each item may
fail; a header of zero stands in for the length until the end. A formatted WRITE goes
on after an item that failed and writes the newline whatever came of the items;
an unformatted one stops writing and still gets markers that agree. A READ changes
the position and the buffer only and is one step. What one should know of the code, and the
model has: BACKSPACE after a READ that met the end of the file steps over the last
record, and cannot step over an empty first record of a formatted file; REWIND
and WRITE do not cut the file; an implicit OPEN persists even if the transfer
it was made for is refused. A WRITE that directly follows a READ is not preceded
by a positioning call; C leaves that open, and the model has it go on at the
position, as glibc does.

**`SequentialFile`** is what a program may rely on: a file is a sequence of records, a
unit is between two of them, no bytes, markers or newlines. Losing one's place, and
a file of which no more than a prefix is known, are part of it, since failures and
overwriting lead there. So is losing records: a statement that fails may take the last ones, but of the
complete ones only those written since the unit was last positioned, read or connected (`fragile`, `Lose`,
`Disconnect`), unless it is an ENDFILE. The mapping of `RecordTransfer` takes `place` from the byte position:
the number of records that end there; `whole` from `clean`; and `fragile` from where the buffer starts.

**`Preprocessor`** is the loop of `f2c_transpile_project_config` over its inputs with
`f2c_preprocess_source`, `f2c_preprocessor_process_buffer`, the directives, and
`f2c_preprocessor_process_include`. `stack` has the activations of the buffer
loop, `conditionals` the shared stack of groups with a `base` per buffer; `Emit`
checks every append against what finished inputs leave of the budget; `Refuse` ends the
request. The text of a source is chosen line by line as it is read, its length when it
is included, and the resolver is the constant `Resolve`, which is asked with
the name a `#line` gave, as in C. A condition asks whether one macro is defined. Not
modelled: malformed directives, expansion within lines, the limit on definitions and
incompatible redefinitions, continued lines, column maps, allocation failures.

**`SelectedLines`** says what conditional compilation means without a stack: a line of the
log of lines read is selected if in every group around it its branch is the first whose
condition held there; and where a line was written, by the `#line` lines of its own buffer.

**`MC...`** modules give each of them its instances; definitions called "Mutant"
are plausible mistakes that show a property can fail.

## 4. The runs

| Run | Instance | What it shows |
|---|---|---|
| `bit_flow` | 3 nodes, 1 fact, all small graphs, forward with filtered edges and backward, every gen/kill function | queue and flags agree; the result solves the equations and is the least; backward results flow from successors; the loop ends |
| `module_order` | 3 modules, one with any two lines, two with up to two USEs, repeated names, foreign names, intrinsic and malformed USE | indegrees count outstanding dependencies at every step; providers first; stable; cycles diagnosed exactly |
| `module_cycle` | the same | **violated**: the USE the cycle diagnostic names may be on no cycle |
| `artifact_writer` | 3 invocations one after another (two alike), 2 faults, 1 kill | no partial output, no original lost, failure undone, success complete, nothing left behind; the inductive invariant of the proofs |
| `artifact_overlap` | 2 invocations at once, 1 fault, 1 kill | with two invocations no output is ever partial; once both succeed the outputs are whole and the right ones |
| `artifact_race` | 3 invocations at once on one output, 1 fault | **violated**: an output can end incomplete |
| `artifact_restore` | 1 invocation, 2 faults | **violated**: an original is not restored if undoing fails |
| `artifact_alias` | 1 invocation, `out.c` twice | **violated**: success with the C output overwritten |
| `assigned_labels` | units of 7 statements with 2 variables, and one of 11 | execution covered; resolved labels really assigned; refinement only removes edges and converges when ASSIGN is at top level; the analysis ends |
| `record_io` | 1 unit; a formatted default file, an unformatted named and an unformatted scratch file; records of up to three characters or two words in 4 cells, direct records of 2; every specifier of OPEN; 2 failing calls | records written stay at the start of the file until overwritten or cut; a file without failures holds nothing else; what is lost with a buffer was written since the last positioning; READ gets what was written; direct records are kept; bytes implement `SequentialFile`, statement by statement |
| `preprocessor` | 2 inputs of together up to 5 lines, includes two deep, 1 macro, a `#line`, a resolver that finds the source itself | output is the selection and nothing else; texts map to their origins; directives belong to groups of their own file; the budget is that of the request and is exact; no source within itself |
| `assigned_converge` | the same | **violated**: ASSIGN inside a logical IF can keep the refinement from converging |

**Bounds and why they suffice.** Three nodes make a queue that wraps, self loops,
cycles and a node requeued while it is processed; one fact tells first visits,
growth and stale output apart; more nodes and facts are covered by the proofs.
Three modules give chains, two-module cycles and a module outside a cycle; again
the proofs cover the rest. Two faults are a failure and a failure to undo it; one
kill leaves the files the next invocation meets; `Attempts = 2` (128 in C) reaches
both the retry and the exhausted names. `NoPartialOutput` holds for two
overlapping invocations, and `artifact_race` shows that three break it, so the
bound of `artifact_overlap` is part of its statement (and of `PairsNeverPartial`);
`SharedOutputsWhole` is proved for any number of them. Four cells hold two formatted
records, one or both of them in the buffer, or an unformatted one between its markers with what was
there before it, and two direct records; files share no state, so one unit that changes files is enough
for every sequence of statements. Both words matter: a 0 in an unformatted
file looks like an empty marker and like padding. Two failing calls reach each
failure of each statement, the second one of ENDFILE, which leaves the unit without a
file, and a buffer lost after an item failed or twice in a row. Five lines of input and
seven bytes hold a group with two branches around an include line, a group
left open by the included source, and a macro defined there; `MaxInput`, `MaxBytes`, `MaxDepth`, `MaxFiles` and
`MaxNesting` are limits of the program and each is met and passed in the run. Two variables are needed
for the mutual dependence of feasible edges, and the eleven-statement unit is
the smallest we know that oscillates.

**Fairness.** `BitFlow` and the analysis steps of `AssignedLabels` have weak
fairness: they are loops of one thread that nothing blocks. The running Fortran
program and `ArtifactWriter` have none; system calls may hang and processes may
be killed. `RecordTransfer` has none either: the program decides what comes next.
`Preprocessor` states only safety. Deadlock is not checked, because each of these procedures returns:
its final states have no successor, a process may be killed for good, and the cells
of `MaxCells` may be used up.

**Findings.** The violated properties quote what the repository says; details
are in `PROJECT.json`. In short: the refinement that does not converge
(`src/semantic/validation/assigned_label.c:807`), the dependency named for a cycle
(`src/frontend/module/dependency.c:107`), two spellings of one output
(`src/cli/main.c:290`), a restore whose failure is ignored (`src/cli/io.c:151`), and a
temporary file removed though it belongs to another process (`src/cli/io.c:138`).

## 5. The proofs

All are checked by TLAPS for every value of the constants, from the assumptions
`NodeCountAssumption`, `ProblemsAssumption`, `ModuleCountAssumption`,
`ProjectsAssumption`, `PreprocessorAssumption`, `FileAssumption`, `OutputsAssumption`,
`BoundsAssumption`, `TransferAssumption`, `UnitsAssumption`, which say that the constants have their
types and that there is at least one node, module or attempt. What a theorem assumes
beyond that is said with it.

`BitFlowProof`
- `TypeCorrect`: the type invariant is inductive.
- `QueueCorrect`: `QueueMatchesFlags` is inductive together with the fact that the
  queue starts at slot 0. Since the occupied slots are distinct queued nodes,
  `EnqueueNeverFails` follows: a node that is not queued leaves a slot free.
- `Solved`: at the end nothing is queued, so it suffices that every reached node
  that is not queued has propagated its present facts along all its edges. In the
  middle of a node this is not yet so, and a self loop may make the node's own
  output stale; `FlowInv` says exactly how far the current node has come unless it
  is queued again.
- `Least`: against any fixed solution, the states and the scratch output stay below
  it, since gen/kill transfer functions are monotone.
- `PredecessorsMirror`: the predecessor lists that `ControlFlow` derives, as `build_node_predecessors`
  does, have exactly the edges of the successor lists, each once, whatever the order of the
  nodes. It is an induction over the loop along the nodes and, within it, over the edges of one.
- `SuccessorsCovered` carries `Solved` from predecessor lists, which the backward solver
  walks, to successor lists, which its callers mean. It assumes that the former were derived from
  the latter, going through all nodes, as they are in `bit_flow` and in C.

`ModuleOrderProof`
- `OrderInvariant`: the dependencies recorded are the uses read so far (`CollectInv`);
  marked modules are those in the result, each once (`PlacedInv`); indegrees count
  outstanding dependencies in the middle of the release loop too
  (`IndegreeCounts`); placed modules follow their providers (`PrefixInv`); no module of
  a set in which each uses another of the set is ever placed (`TrapInv`).
- From it `OrderCorrect`, `CycleCorrect`, `OrderingNeverStuck` and `OrderStable`. That a stuck
  ordering means a cycle is shown with the set of unplaced modules: each waits
  for an outstanding dependency, whose provider is not placed either.

`PreprocessorProof`
- `TypeCorrect` is not inductive: that a buffer is active again after `#endif` follows from
  what its groups say of each other. `Sound` adds that bases grow with the stack, that
  every group of a buffer was opened in a branch taken of the one around it, and that
  all buffers but the last are active; it holds as long as nothing was refused.
- `InclusionIsNotRecursive`: sources on the stack are distinct, because `Open` is asked with the
  name the resolver found and `#line` changes another field.
- The others compare the stacks with the log. `LInv` says that they agree: each buffer has as
  many groups as its lines so far leave open, and the k-th of them knows of the line that
  opened it whether that line is selected, whether a branch was taken and whether there was
  an `#else` (`Describes`); a buffer is active where its next line is selected; a macro is
  defined where the last selected line about it defines it (`Follows`). None of this holds once a
  request has failed, so it is asked of running ones only. `Selection` is a fold over the whole
  log: `SelectionGrows` shows that a line more leaves what it says of the others alone.
- `DirectivesStayInTheirFile` follows: the number of groups above a buffer's base is the number its
  own lines leave open, so `Unmatched` is what the log calls unmatched.
- `SelectedTextsWritten`, `TextsKeepTheirOrigins` and `OneBudgetForAllInputs` share the invariant `Faithful`, which
  adds to `LInv` that the output lists the selected texts of the input (`OutputKnown`); that the
  next line of every buffer on the stack, of a waiting one the line behind its include line, is from
  where the log says (`OriginsKnown`), without which nothing is known of the first line after
  an included source; and that the bytes spent are those of the lines done (`Budgeted`). Every step
  is brought into one of five forms (`StepForms`), so that each part needs two lemmas and not one per action.

`RecordTransferProof`
- `TypeCorrect`, for any number of units, and `DirectKept` share one invariant. `EntrySound` adds that
  an entry of a scratch file is that of its own unit, so that no OPEN can take over the file of another;
  `DirectIn`, that known direct records lie within the file; `TransferSound`, that a direct
  WRITE stays within its record, which is not known meanwhile, and that no direct record
  is known of a file with any other WRITE; `BufferSound`, that a buffer belongs to a formatted sequential
  connection and starts at or before its position, up to which there are cells.
- `StepSound` reduces the invariant to the unit that takes the step and the files it uses
  (`Within`); one lemma per statement follows. That writing or filling a record leaves the
  others alone rests on `RecordsApart` and `DirectKeptIf`.
- `RecordsStay`, `CleanFilesHoldTheirRecords` and `ReadGetsWhatWasWritten` share a second invariant
  beside it, `RInv`: the records of every history lie one behind the other in the cells of the file
  (`LaidOut`, whose ends are `EndOf`); a clean file that is not being written ends with the last
  (`HistoryIn`); no record of a formatted file has a newline in it (`Unbroken`), so that the next
  newline is that of the record; and a WRITE in progress is behind the records there are, right behind
  the last if it is in order, and at the end of a clean file (`WriteSound`). Without the last
  part, the end of a WRITE could not be known to leave a whole record and nothing behind it.
- The invariant is about the layout of cells, not about `Bytes`, which is recursive: `BytesFacts` and
  `LaidOutIsPrefix` lead from one to the other, by induction over the number of records.
  `FileStepKept` reduces a step to the file it changes, `KeptHistory` is about records cut off by a WRITE,
  an ENDFILE or a lost buffer (`DropKept`), `AppendLaidOut` about one that is added. The part of `RecordsOnDisk` about
  the file without the buffer has an invariant of its own, `Backed`, which rests on `KeptKept`: cutting the
  history further on leaves the records before the buffer. `Settle` keeps the history of a file
  that another unit is connected to; the proof failed until it did.
- `MovesByRecords` shows `StatementsMoveByRecords` from the same two invariants. The place of a unit is one
  number because the ends of the records grow (`SpotFacts`); a line is followed by the only newline in it and
  a payload is between two markers that agree (`LineIn`, `PayloadIn`), so the scan back of
  `LineStart` and the markers of `MarkerStart` find where the record starts, and a READ
  where it ends.
- `FilesImplemented` is the refinement: the runtime, with its bytes, markers, positions and failing calls,
  implements the files of records of `SequentialFile`. `Places` is the refinement mapping. The initial
  states map to the initial state (`PlacesInit`), and a step to a step of the abstract specification or to
  none (`StepSimulated`), with one lemma per statement that names the abstract step: an END that
  leaves a record is `EndWrite`, a call that loses a buffer is `Lose` or `Disconnect` (`LoseSimulated`), an item of a formatted WRITE that fails ends the abstract WRITE at
  once, a WRITE to a direct unit is `Overwrite`, an ENDFILE that fails half way is an `Endfile` that
  loses records. That a loss stays within what is `fragile` is `DropLoses`: the records that
  end before the buffer do not change, and the buffer starts anew at every statement that makes the unit safe. Besides the two invariants it takes a third, `TransfersKnown`: a WRITE in progress is on an
  open stream, its mode is that of the connection, and a formatted one with a failed item has spoilt
  its file, without which what the program knows of the unit after the END would be too much. `Apart`
  says what a step leaves alone, so that `OtherPlaces` has to be shown once and each
  lemma is about the place of one unit only.

`ArtifactWriterProof`
- `TypeCorrect`, for any invocations, overlapping or not, any number of failures and
  kills. `TypeInv` adds what each step of the control knows of the recorded outputs.
- `SharedOutputsAreWhole`, for any number of invocations that run at the same time, though
  one that cleans up removes whatever has the temporary name it recorded, and another one's
  backup takes away what the first has installed. `OverlapInv` holds as long as every invocation may
  still succeed (`Surviving`; none has crashed or begun to restore): a temporary file is meant for the
  output its name tells (`TempsMeant`), whoever made it, so that renaming another
  invocation's file into place does no harm; and under the name of an installed output there
  is an output meant for it, whole or still being written, or one is still to be renamed
  there (`InPlaceOrAwaited`). When all are done nothing is awaited or being written.
  `SurvivingStep` reduces each system call to one of seven kinds of step.
- `PairsNeverPartial`: with at most two invocations (`Pair`) no output file is ever partial, whoever fails
  or is killed; with three one can be (`artifact_race`). `PairInv` says that the files under the
  temporary names an invocation is still to install from are its own (`OwnStaged`), and that such a
  name is free, or has been taken twice, only when the other invocation is past staging
  (`Contested`, `Unrivalled`): one that removes a temporary file it does not own is cleaning up, and
  will not open the name again half written. `StepActs` sorts the system calls into five kinds.

`SequentialWriterProof`, about invocations that do not overlap (`~ Overlap`), any number
of them, with any outputs, failures and kills. Overlapping ones are excluded because
they break these statements: `artifact_race` shows three that do.
- `InvariantHolds`: none of the properties is inductive. That a rename replaces nothing
  that matters depends on which files earlier steps have moved, and that a
  restore finds its backup depends on no other invocation having been active since. `IInv`
  says, for every point of the control, what waits under a temporary name (`WaitingWhole`),
  which backups are still to be put back and hold what was there (`PendingSaved`), which output
  names are free (`Free`), which outputs are in place (`Installed`), and that every output
  file is as it was, about to be put back, or about to be withdrawn (`Restorable`). Left-overs of
  invocations that were killed may be under any name that is not an output's.
- `Work` is the part about one invocation; one lemma per action shows that
  it survives the invocation's own step, and `StepSound` puts them together. An
  invocation that is idle or has ended relies on nothing in the directory.
- `OutputsNeverPartial`, `OriginalsSurvive`, `FailuresAreUndone`, `SuccessIsComplete` and
  `NothingIsLeftBehind` follow. `FailuresAreUndone` holds for two spellings of one file too:
  the backup is made for the first output that names it (`First`). `SuccessIsComplete` does not,
  as `artifact_alias` shows, and assumes that the outputs of an invocation are different files.

`AssignedLabelsProof`, about every program unit that satisfies `UnitsAssumption` (an ASSIGN and a
GOTO have a label, that of a GOTO is a statement of the unit, which
`validate_branch_target` has checked by then)
- `InvariantHolds`: what the analysis concludes must describe what the program does, though it
  cut the graph down by assuming what it concludes. `Phase` says which graph and which
  solutions the variables of each phase stand for: when the analysis is done, the graph is the one
  built from the labels resolved on that very graph. `Execution` says that the running program
  is at a node the solution of *every* variable has reached, with values each solution expects. It has
  to speak of all variables at once, because the branch of a GOTO on one of them is an
  edge only if the solution of that variable found the label. `ExecutionIsCovered` follows.
- `ResolvedLabelsAreAssigned`: the facts about a label that `Reachable` accounts for are closed under
  the flow equations, so the least solution has no others (`LabelsHaveOrigins`).
- `RefinementOnlyRemoves` needs `Refining`: the next graph built from the solutions on a graph with
  fewer edges has fewer edges, provided ASSIGN is not conditional, since then the bare
  edges of the first graph name every label that can ever be found.
- `RefinementConverges` needs `Converging`: iterations and edges left stay together below
  the limit, because a graph that differs has lost an edge. That equal edge sets mean equal graphs
  takes the order of the edges, which is that of the catalog from the second graph on; the first
  graph may differ in order only, which is where the `+ 2` of `refinement_limit` goes.
- `TypeCorrect` adds `Suited`, that what is resolved suits its use.

`RecursionLemmas` has what these proofs know of recursion. Nothing recursive is taken to have a
value because it is written down: `RecursionExists`, `FoldExists` and `ClosureExists` show that the
equations of recursive functions over numbers, of folds over sequences, and of closures under a
step that grows within a finite set have solutions, by induction over the natural numbers stated
for sets (`NaturalInduction`), which needs no operator as a parameter. It also has the lemmas about
the edge lists of `ControlFlow` that `BitFlowProof` and `AssignedLabelsProof` use.

**Only model-checked:** liveness (`Terminates`, `AnalysisEnds`) is beyond the prover, and stays
with TLC. Every invariant and every action property of the passing runs is stated by a
theorem.

## 6. Not modelled

The front end from lexer to name resolution, validation rules, constant
evaluation and code generation transform trees whose state space is the input
language; they are compared with other compilers by the repository's
differential tests, and most of the repository's lines are theirs. Storage
association, temporaries, the namelist transaction and the numeric kernels are computations
of one statement or one unit whose state nothing else touches in between. Of the
runtime: formatted direct access, several records in one transfer (`/`), position edit descriptors
(`T`, `TL`), namelist input, non-advancing, child and defined transfers, preconnected units, internal units, what
INQUIRE reports (its seeks are modelled); and the error
indicator of C streams, which only REWIND and BACKSPACE clear. Memory management
appears only as "an allocation fails". `netlib-f2c/` is an archive of another program.

--------------------------- MODULE ArtifactWriter ---------------------------
(***************************************************************************)
(* How an invocation of f2c writes its outputs: f2c_cli_write_artifacts of *)
(* src/cli/io.c stages every file output under a temporary name, moves the *)
(* files it replaces to backup names, renames the staged files into place, *)
(* writes the output meant for standard output, and removes the backups;   *)
(* a failure puts the backups back.  One step is one system call.          *)
(*                                                                         *)
(* Several invocations share the directory: one after another, the earlier *)
(* ones possibly killed half way, or at the same time.  Any system call    *)
(* may fail; MaxFaults bounds how many do.                                 *)
(***************************************************************************)
EXTENDS Naturals, Sequences

CONSTANTS
  Invocation,  \* invocations of the program
  File,        \* the files outputs are written to
  Outputs,     \* Outputs[p]: files, and whether one output is standard output
  Attempts,    \* temporary names tried for one output, 128 in C
  MaxFaults,   \* bound: system calls that fail
  MaxCrashes,  \* bound: invocations that are killed
  Overlap      \* may invocations run at the same time?

\* The outputs that go to files, in order: the file each names, and its
\* position among all outputs.  Two spellings may name the same file.
Output == [files : Seq(File), slots : Seq(Nat), stream : BOOLEAN]

ASSUME OutputsAssumption ==
  /\ Outputs \in [Invocation -> Output]
  /\ \A p \in Invocation : Len(Outputs[p].slots) = Len(Outputs[p].files)
ASSUME BoundsAssumption ==
  /\ Attempts \in Nat \ {0} /\ MaxFaults \in Nat /\ MaxCrashes \in Nat
  /\ Overlap \in BOOLEAN

VARIABLES
  existing,    \* the files that exist to begin with
  directory,   \* what each existing name holds
  invocation,  \* the state of each invocation
  crashes,     \* invocations killed so far
  faults       \* system calls that failed so far

vars == << existing, directory, invocation, crashes, faults >>

-----------------------------------------------------------------------------
(* Names, and what they hold.                                              *)

Path(f) == << "path", f >>

\* temporary_path for staged output k: the C code numbers it 128 times the
\* slot plus the attempt; the backup name extends it with k.
Temporary(p, k, attempt) ==
  << "tmp", Outputs[p].files[k], Outputs[p].slots[k], attempt >>
Backup(p, k, attempt) == << "old", Temporary(p, k, attempt), k >>

Earlier(f) == << "earlier", f >>
Partial(p, k) == << "partial", p, k >>
Whole(p, k) == << "whole", p, k >>

Exists(name) == name \in DOMAIN directory

\* A function with some of its values replaced, or values added.
With(function, changes) ==
  [x \in DOMAIN function \union DOMAIN changes |->
     IF x \in DOMAIN changes THEN changes[x] ELSE function[x]]

Create(name, content) == directory' = With(directory, [n \in {name} |-> content])

\* remove: that the name does not exist is an error nobody looks at.
Remove(name) == directory' = [n \in DOMAIN directory \ {name} |-> directory[n]]

\* replace_path: rename, over an existing destination if there is one.
Rename(source, destination) ==
  /\ Exists(source)
  /\ directory' = [n \in (DOMAIN directory \ {source}) \union {destination} |->
                     directory[IF n = destination THEN source ELSE n]]

-----------------------------------------------------------------------------
Count(p) == Len(Outputs[p].files)
Destination(p, k) == Path(Outputs[p].files[k])

\* temporary_path and backup_path of staged output k.
Staged(p, k) == Temporary(p, k, invocation[p].sequence[k])
Saved(p, k) == Backup(p, k, invocation[p].sequence[k])

Idle(p) == [pc        |-> "idle",
            k         |-> 1,    \* the output a loop is at
            attempt   |-> 0,
            sequence  |-> [k \in 1 .. Count(p) |-> 0],  \* the attempt that succeeded
            staged    |-> 0,    \* staged_count
            reserved  |-> {},   \* outputs whose backup_path is set
            original  |-> {},   \* outputs with had_original
            installed |-> {},
            committed |-> FALSE,  \* result is 0
            before    |-> << >>,  \* history: the directory at the start
            tidy      |-> TRUE]   \* history: no cleaning or restoring call failed

Init ==
  /\ existing \in SUBSET File
  /\ directory = [n \in {Path(f) : f \in existing} |-> Earlier(n[2])]
  /\ invocation = [p \in Invocation |-> Idle(p)]
  /\ crashes = 0
  /\ faults = 0

At(p, label) == invocation[p].pc = label
Ended(p) == invocation[p].pc \in {"done", "failed", "crashed"}

\* The fields of changes are replaced; Pass also leaves the directory alone.
Step(p, changes) ==
  /\ invocation' = [invocation EXCEPT ![p] = With(@, changes)]
  /\ UNCHANGED << existing, crashes, faults >>
Pass(p, changes) == Step(p, changes) /\ UNCHANGED directory

\* A loop over the outputs goes on with output k, or control passes to exit.
Loop(p, label, k, exit) ==
  IF k <= Count(p) THEN [pc |-> label, k |-> k] ELSE [pc |-> exit, k |-> 1]

Discarding == [pc |-> "discard", k |-> 1]
\* restore_artifacts of the first n outputs, then the cleanup.
Restoring(n) == IF n = 0 THEN Discarding ELSE [pc |-> "withdraw", k |-> n]

\* A system call fails and control passes as changes says.
Fault(p, changes) ==
  /\ faults < MaxFaults
  /\ faults' = faults + 1
  /\ invocation' = [invocation EXCEPT ![p] = With(@, changes)]
  /\ UNCHANGED << existing, directory, crashes >>
\* One that cleans up or restores does: nobody looks at its result.
Slip(p, changes) == Fault(p, With(changes, [tidy |-> FALSE]))

Begin(p) ==
  /\ At(p, "idle")
  /\ Overlap \/ \A q \in Invocation : At(q, "idle") \/ Ended(q)
  /\ LET noted == [before |-> directory] IN
     \/ Pass(p, With(Loop(p, "open", 1, "stream"), noted))
     \/ Fault(p, With([pc |-> "failed"], noted))

Crash(p) ==
  /\ ~ At(p, "idle") /\ ~ Ended(p)
  /\ crashes < MaxCrashes
  /\ crashes' = crashes + 1
  /\ invocation' = [invocation EXCEPT ![p].pc = "crashed"]
  /\ UNCHANGED << existing, directory, faults >>

-----------------------------------------------------------------------------
(* stage_artifact and the staging loop.                                    *)

\* Mutant: the temporary file is opened without "x".
OpenOverwrites(p) ==
  LET k == invocation[p].k IN
  /\ At(p, "open")
  /\ Create(Temporary(p, k, 0), Partial(p, k))
  /\ Step(p, [pc |-> "write"])

\* Mutant: one attempt too many.
OpenOnceMore(p) ==
  LET k == invocation[p].k
      attempt == invocation[p].attempt IN
  /\ At(p, "open")
  /\ IF Exists(Temporary(p, k, attempt))
     THEN Pass(p, IF attempt < Attempts THEN [attempt |-> attempt + 1]
                                        ELSE Discarding)
     ELSE /\ Create(Temporary(p, k, attempt), Partial(p, k))
          /\ Step(p, [pc |-> "write", sequence |->
                        [invocation[p].sequence EXCEPT ![k] = attempt]])

\* fopen with "wbx": an existing name is passed over for the next attempt.
Open(p) ==
  LET k == invocation[p].k
      attempt == invocation[p].attempt
      name == Temporary(p, k, attempt) IN
  /\ At(p, "open")
  /\ \/ /\ Exists(name)
        /\ Pass(p, IF attempt + 1 < Attempts THEN [attempt |-> attempt + 1]
                                             ELSE Discarding)
     \/ /\ ~ Exists(name)
        /\ Create(name, Partial(p, k))
        /\ Step(p, [pc |-> "write", sequence |->
                      [invocation[p].sequence EXCEPT ![k] = attempt]])
     \/ Fault(p, Discarding)

\* Mutant: a write that fails goes unnoticed.
WriteUnchecked(p) ==
  LET k == invocation[p].k IN
  /\ At(p, "write")
  /\ Fault(p, With(Loop(p, "open", k + 1, "reserve"), [attempt |-> 0, staged |-> k]))

\* fwrite, fflush and fclose of the open file, whatever its name is by now.
Write(p) ==
  LET k == invocation[p].k
      Mine(n) == directory[n] = Partial(p, k) IN
  /\ At(p, "write")
  /\ \/ /\ directory' = [n \in DOMAIN directory |->
                           IF Mine(n) THEN Whole(p, k) ELSE directory[n]]
        /\ Step(p, With(Loop(p, "open", k + 1, "reserve"), [attempt |-> 0, staged |-> k]))
     \/ Fault(p, [pc |-> "unlink"])

\* The temporary file that could not be written is removed.
Unlink(p) ==
  /\ At(p, "unlink")
  /\ \/ Remove(Staged(p, invocation[p].k)) /\ Step(p, Discarding)
     \/ Slip(p, Discarding)

-----------------------------------------------------------------------------
(* reserve_backups.                                                        *)

\* replaceable_path_status: is there a file to keep?
Reserve(p) ==
  LET k == invocation[p].k IN
  /\ At(p, "reserve")
  /\ \/ /\ Exists(Destination(p, k))
        /\ Pass(p, [pc |-> "probe", reserved |-> invocation[p].reserved \union {k}])
     \/ /\ ~ Exists(Destination(p, k))
        /\ Pass(p, Loop(p, "reserve", k + 1, "install"))
     \/ Fault(p, Restoring(k - 1))

\* Mutant: the backup name is not looked up.
ProbeSkipped(p) == At(p, "probe") /\ Pass(p, [pc |-> "move"])

\* path_exists: a backup name in use is an error.
Probe(p) ==
  LET k == invocation[p].k IN
  /\ At(p, "probe")
  /\ \/ ~ Exists(Saved(p, k)) /\ Pass(p, [pc |-> "move"])
     \/ Exists(Saved(p, k)) /\ Pass(p, Restoring(k - 1))
     \/ Fault(p, Restoring(k - 1))

\* Mutant: had_original is not set.
MoveUnrecorded(p) ==
  LET k == invocation[p].k IN
  /\ At(p, "move")
  /\ Rename(Destination(p, k), Saved(p, k))
  /\ Step(p, Loop(p, "reserve", k + 1, "install"))

\* The file to keep is renamed; another invocation may have taken it away.
Move(p) ==
  LET k == invocation[p].k IN
  /\ At(p, "move")
  /\ \/ /\ Rename(Destination(p, k), Saved(p, k))
        /\ Step(p, With(Loop(p, "reserve", k + 1, "install"),
                        [original |-> invocation[p].original \union {k}]))
     \/ ~ Exists(Destination(p, k)) /\ Pass(p, Restoring(k - 1))
     \/ Fault(p, Restoring(k - 1))

-----------------------------------------------------------------------------
(* commit_artifacts and the rest of f2c_cli_write_artifacts.               *)

\* Mutant: a failed rename restores only the outputs before it.
InstallRestoresBefore(p) ==
  LET k == invocation[p].k IN
  /\ At(p, "install")
  /\ \/ /\ Rename(Staged(p, k), Destination(p, k))
        /\ Step(p, With(Loop(p, "install", k + 1, "stream"),
                        [installed |-> invocation[p].installed \union {k}]))
     \/ Fault(p, Restoring(k - 1))

\* Mutant: a failed rename goes unnoticed.
InstallUnchecked(p) ==
  LET k == invocation[p].k
      next == Loop(p, "install", k + 1, "stream") IN
  /\ At(p, "install")
  /\ \/ Rename(Staged(p, k), Destination(p, k)) /\ Step(p, next)
     \/ ~ Exists(Staged(p, k)) /\ Pass(p, next)
     \/ Fault(p, next)

Install(p) ==
  LET k == invocation[p].k IN
  /\ At(p, "install")
  /\ \/ /\ Rename(Staged(p, k), Destination(p, k))
        /\ Step(p, With(Loop(p, "install", k + 1, "stream"),
                        [installed |-> invocation[p].installed \union {k}]))
     \/ ~ Exists(Staged(p, k)) /\ Pass(p, Restoring(Count(p)))
     \/ Fault(p, Restoring(Count(p)))

\* The output for standard output, if any.  There is no way back from here.
WriteStream(p) ==
  /\ At(p, "stream")
  /\ \/ Pass(p, With(Loop(p, "unbackup", 1, "discard"), [committed |-> TRUE]))
     \/ Outputs[p].stream /\ Fault(p, Restoring(Count(p)))

\* Mutant: the backup of the last output is forgotten.
RemoveBackupButLast(p) ==
  LET k == invocation[p].k
      next == Loop(p, "unbackup", k + 1, "discard") IN
  /\ At(p, "unbackup")
  /\ IF k \in invocation[p].reserved /\ k < Count(p)
     THEN Remove(Saved(p, k)) /\ Step(p, next)
     ELSE Pass(p, next)

RemoveBackup(p) ==
  LET k == invocation[p].k
      next == Loop(p, "unbackup", k + 1, "discard") IN
  /\ At(p, "unbackup")
  /\ \/ k \in invocation[p].reserved /\ Remove(Saved(p, k)) /\ Step(p, next)
     \/ k \notin invocation[p].reserved /\ Pass(p, next)
     \/ k \in invocation[p].reserved /\ Slip(p, next)

\* restore_artifacts, from the last output down: what was installed is
\* removed, and what was there before is renamed back.
Withdraw(p) ==
  LET k == invocation[p].k
      next == [pc |-> "putback"] IN
  /\ At(p, "withdraw")
  /\ \/ k \in invocation[p].installed /\ Remove(Destination(p, k)) /\ Step(p, next)
     \/ k \notin invocation[p].installed /\ Pass(p, next)
     \/ k \in invocation[p].installed /\ Slip(p, next)

PutBack(p) ==
  LET k == invocation[p].k
      next == Restoring(k - 1) IN
  /\ At(p, "putback")
  /\ \/ /\ k \in invocation[p].original
        /\ Rename(Saved(p, k), Destination(p, k))
        /\ Step(p, next)
     \/ (k \in invocation[p].original => ~ Exists(Saved(p, k))) /\ Pass(p, next)
     \/ k \in invocation[p].original /\ Slip(p, next)

\* discard_staged_artifacts
Discard(p) ==
  LET k == invocation[p].k
      next == [k |-> k + 1] IN
  /\ At(p, "discard") /\ k <= invocation[p].staged
  /\ \/ Remove(Staged(p, k)) /\ Step(p, next)
     \/ Slip(p, next)

End(p) ==
  /\ At(p, "discard") /\ invocation[p].k > invocation[p].staged
  /\ Pass(p, [pc |-> IF invocation[p].committed THEN "done" ELSE "failed"])

Next == \E p \in Invocation :
  \/ Begin(p) \/ Crash(p)
  \/ Open(p) \/ Write(p) \/ Unlink(p)
  \/ Reserve(p) \/ Probe(p) \/ Move(p)
  \/ Install(p) \/ WriteStream(p) \/ RemoveBackup(p)
  \/ Withdraw(p) \/ PutBack(p)
  \/ Discard(p) \/ End(p)

Spec == Init /\ [][Next]_vars

-----------------------------------------------------------------------------
(***************************************************************************)
(* What the writer promises.                                               *)
(***************************************************************************)

Label == {"idle", "open", "write", "unlink", "reserve", "probe", "move", "install",
          "stream", "unbackup", "withdraw", "putback", "discard",
          "done", "failed", "crashed"}

(***************************************************************************)
(* Every invocation is at a known place with its loops in bounds, and      *)
(* undoes only what it did: it never marks an output it has not staged.    *)
(***************************************************************************)
TypeOK ==
  /\ crashes \in 0 .. MaxCrashes /\ faults \in 0 .. MaxFaults
  /\ \A p \in Invocation :
       LET s == invocation[p] IN
       /\ s.pc \in Label
       /\ s.k \in 1 .. Count(p) + 1
       /\ s.attempt \in 0 .. Attempts - 1
       /\ s.sequence \in [1 .. Count(p) -> 0 .. Attempts - 1]
       /\ s.staged \in 0 .. Count(p)
       /\ s.installed \subseteq 1 .. s.staged
       /\ s.original \subseteq s.reserved /\ s.reserved \subseteq 1 .. s.staged

\* What a directory holds under the output names of p, an empty tuple
\* for nothing.
Held(dir, p) == [k \in 1 .. Count(p) |->
                   IF Destination(p, k) \in DOMAIN dir THEN dir[Destination(p, k)]
                                                      ELSE << >>]

IsPartial(f) == Exists(Path(f)) /\ directory[Path(f)][1] = "partial"

(***************************************************************************)
(* No output file ever holds part of an output, whatever failed and        *)
(* whoever was killed.                                                     *)
(***************************************************************************)
NoPartialOutput == \A f \in File : ~ IsPartial(f)

(***************************************************************************)
(* "atomic file writes to prevent incomplete artifacts after failures"     *)
(* (CHANGELOG.md:627): when all is over no output file is incomplete.      *)
(***************************************************************************)
NoIncompleteArtifact ==
  (\A p \in Invocation : Ended(p)) => \A f \in File : ~ IsPartial(f)

(***************************************************************************)
(* When invocations that ran at the same time have all succeeded, every    *)
(* file one of them writes to holds a whole output meant for it.           *)
(***************************************************************************)
SharedOutputsWhole ==
  (\A p \in Invocation : At(p, "done")) =>
    \A p \in Invocation : \A k \in 1 .. Count(p) :
      \E q \in Invocation : \E j \in 1 .. Count(q) :
        /\ Destination(q, j) = Destination(p, k)
        /\ Held(directory, p)[k] = Whole(q, j)

(***************************************************************************)
(* Until an invocation has everything in place, the file an output         *)
(* replaces is kept, under its own name or a backup name: neither failures *)
(* nor kills nor the backups of other invocations destroy it.              *)
(***************************************************************************)
OriginalKept ==
  (\A p \in Invocation : ~ invocation[p].committed) =>
    \A f \in existing : \E n \in DOMAIN directory : directory[n] = Earlier(f)

Ends(p, label) == ~ At(p, label) /\ invocation'[p].pc = label

\* With no other invocation at work, an invocation that fails has left every
\* output file as it found it.
LeavesOutputs(p) ==
  Ends(p, "failed") => Held(directory', p) = Held(invocation'[p].before, p)

(***************************************************************************)
(* An invocation that fails, over whatever system call or left-over file,  *)
(* leaves every output file as it found it, if the calls that restore and  *)
(* clean up do not fail in their turn.                                     *)
(***************************************************************************)
FailureIsUndone ==
  [][\A p \in Invocation : invocation[p].tidy => LeavesOutputs(p)]_vars

(***************************************************************************)
(* "if any requested artifact cannot be written, existing C and header     *)
(* outputs are preserved" (README.md:49-50), however many calls fail.      *)
(***************************************************************************)
FailurePreservesOutputs == [][\A p \in Invocation : LeavesOutputs(p)]_vars

(***************************************************************************)
(* An invocation that reports success has written every one of its outputs *)
(* in full to its file.                                                    *)
(***************************************************************************)
SuccessWritesAll ==
  [][\A p \in Invocation : Ends(p, "done") =>
       Held(directory', p) = [k \in 1 .. Count(p) |-> Whole(p, k)]]_vars

\* What an invocation has written, or begun to.
Written(p) ==
  {Partial(p, k) : k \in 1 .. Count(p)} \union {Whole(p, k) : k \in 1 .. Count(p)}

\* Nothing invocation p has written is under a temporary name, and none of
\* the backups it made is left.
Tidied(p, dir) ==
  /\ \A n \in DOMAIN dir : dir[n] \in Written(p) => n[1] # "tmp"
  /\ \A k \in invocation[p].original : Saved(p, k) \notin DOMAIN dir

(***************************************************************************)
(* An invocation that succeeds or fails leaves no temporary and no backup  *)
(* file of its own, if the calls that restore and clean up do not fail.    *)
(***************************************************************************)
LeavesNothingBehind ==
  [][\A p \in Invocation :
       (Ends(p, "done") \/ Ends(p, "failed")) /\ invocation[p].tidy =>
         Tidied(p, directory')]_vars
=============================================================================

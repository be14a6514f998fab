------------------------ MODULE ArtifactWriterProof ------------------------
(***************************************************************************)
(* What one system call of the artifact writer does to the state of the    *)
(* invocation that makes it, call by call; that its loops stay in bounds   *)
(* and it undoes only what it did; that invocations that all succeed leave *)
(* whole outputs; and that no output is ever partial with at most two      *)
(* invocations: for any outputs and invocations, that run at the same time *)
(* or not, any number of failing system calls and of kills.                *)
(***************************************************************************)
EXTENDS ArtifactWriter, TLAPS

Fields == {"pc", "k", "attempt", "sequence", "staged", "reserved", "original",
           "installed", "committed", "before", "tidy"}

\* Where its program counter says an invocation is, that is what it has
\* done so far.
Placed(p, s) ==
  LET n == Count(p) IN
  /\ DOMAIN s = Fields
  /\ s.pc \in Label
  /\ s.k \in 1 .. n + 1
  /\ s.attempt \in 0 .. Attempts - 1
  /\ s.sequence \in [1 .. n -> 0 .. Attempts - 1]
  /\ s.staged \in 0 .. n
  /\ s.reserved \subseteq 1 .. s.staged
  /\ s.original \subseteq s.reserved
  /\ s.installed \subseteq 1 .. s.staged
  /\ s.committed \in BOOLEAN /\ s.tidy \in BOOLEAN
  /\ s.pc = "idle" => s.k = 1 /\ s.attempt = 0 /\ s.staged = 0
  /\ s.pc \in {"idle", "open", "write", "unlink"} => s.reserved = {} /\ s.installed = {}
  /\ s.pc \in {"open", "write", "unlink"} => s.k <= n /\ s.staged = s.k - 1
  /\ s.pc \in {"reserve", "probe", "move", "install", "unbackup", "withdraw", "putback"} =>
       s.k <= n /\ s.staged = n
  /\ s.pc \in {"reserve", "probe", "move"} => s.original \subseteq 1 .. s.k - 1 /\ s.installed = {}
  /\ s.pc = "reserve" => s.reserved \subseteq 1 .. s.k - 1
  /\ s.pc \in {"probe", "move"} => s.k \in s.reserved /\ s.reserved \subseteq 1 .. s.k
  /\ s.pc = "install" => s.installed = 1 .. s.k - 1
  /\ s.pc = "stream" => s.k = 1 /\ s.staged = n /\ s.installed = 1 .. n
  /\ s.pc = "discard" => s.k <= s.staged + 1
  /\ s.committed => s.pc \in {"unbackup", "discard", "done", "crashed"}
  /\ s.pc \in {"unbackup", "done"} => s.committed

TypeInv ==
  /\ DOMAIN invocation = Invocation
  /\ \A p \in Invocation : Placed(p, invocation[p])
  /\ crashes \in 0 .. MaxCrashes /\ faults \in 0 .. MaxFaults

Active(s) == s.pc \notin {"idle", "done", "failed", "crashed"}

\* The names an invocation in state s has for its output j.
Temp(p, s, j) == Temporary(p, j, s.sequence[j])
Old(p, s, j) == Backup(p, j, s.sequence[j])

-----------------------------------------------------------------------------
(* Steps of one invocation.                                                *)

(***************************************************************************)
(* There are finitely many outputs, each with a file and a slot.           *)
(***************************************************************************)
LEMMA CountFacts ==
  ASSUME NEW p \in Invocation
  PROVE  /\ Count(p) \in Nat
         /\ \A k \in 1 .. Count(p) : Outputs[p].files[k] \in File
<1>1. Outputs[p] \in Output
  BY OutputsAssumption
<1> QED BY <1>1 DEF Count, Output

(***************************************************************************)
(* What Step and Fault do to the fields of an invocation: those in changes *)
(* get their value from there, all others keep theirs.                     *)
(***************************************************************************)
LEMMA FieldsOf ==
  ASSUME TypeInv, NEW p \in Invocation, NEW changes, DOMAIN changes \subseteq Fields,
         invocation' = [invocation EXCEPT ![p] = With(@, changes)]
  PROVE  /\ DOMAIN invocation' = Invocation
         /\ \A q \in Invocation \ {p} : invocation'[q] = invocation[q]
         /\ DOMAIN invocation'[p] = Fields
         /\ \A x \in Fields :
              invocation'[p][x] = IF x \in DOMAIN changes THEN changes[x] ELSE invocation[p][x]
BY DEF TypeInv, Placed, With

(***************************************************************************)
(* A step of p that leaves p placed keeps the types.                       *)
(***************************************************************************)
LEMMA TypeKept ==
  ASSUME TypeInv, NEW p \in Invocation,
         DOMAIN invocation' = Invocation,
         \A q \in Invocation \ {p} : invocation'[q] = invocation[q],
         Placed(p, invocation'[p]),
         crashes' \in 0 .. MaxCrashes, faults' \in 0 .. MaxFaults
  PROVE  TypeInv'
<1>1. \A q \in Invocation \ {p} : Placed(q, invocation'[q])
  BY DEF TypeInv
<1> QED BY <1>1 DEF TypeInv

\* The changes of a loop over the outputs, and of the ways out of it.
LEMMA LoopFields ==
  ASSUME NEW p, NEW label, NEW k, NEW exit
  PROVE  /\ DOMAIN Loop(p, label, k, exit) = {"pc", "k"}
         /\ Loop(p, label, k, exit).pc = IF k <= Count(p) THEN label ELSE exit
         /\ Loop(p, label, k, exit).k = IF k <= Count(p) THEN k ELSE 1
BY DEF Loop

LEMMA RestoringFields ==
  ASSUME NEW n
  PROVE  /\ DOMAIN Restoring(n) = {"pc", "k"}
         /\ Restoring(n).pc = IF n = 0 THEN "discard" ELSE "withdraw"
         /\ Restoring(n).k = IF n = 0 THEN 1 ELSE n
BY DEF Restoring, Discarding


(***************************************************************************)
(* What the steps do to an invocation, field by field.                     *)
(***************************************************************************)

\* All fields but those in changed keep their value.
Keeps(s, t, changed) == DOMAIN t = Fields /\ \A x \in Fields \ changed : t[x] = s[x]

\* Control goes on at label, with output k; other fields may change as well.
Goes(s, t, label, k, others) ==
  Keeps(s, t, {"pc", "k"} \union others) /\ t.pc = label /\ t.k = k

Loops(p, s, t, label, exit, others) ==
  Goes(s, t, IF s.k < Count(p) THEN label ELSE exit,
             IF s.k < Count(p) THEN s.k + 1 ELSE 1, others)

Restores(s, t, n, others) ==
  Goes(s, t, IF n = 0 THEN "discard" ELSE "withdraw", IF n = 0 THEN 1 ELSE n, others)

\* Nothing but the state of p and the directory changes.
Alters(p) ==
  /\ DOMAIN invocation' = Invocation
  /\ \A q \in Invocation \ {p} : invocation'[q] = invocation[q]
  /\ existing' = existing
  /\ crashes' \in 0 .. MaxCrashes /\ faults' \in 0 .. MaxFaults

\* A step of p makes these changes, whether a call succeeds or fails.
Makes(p, changes) ==
  /\ invocation' = [invocation EXCEPT ![p] = With(@, changes)]
  /\ existing' = existing
  /\ crashes' \in 0 .. MaxCrashes /\ faults' \in 0 .. MaxFaults

(***************************************************************************)
(* Steps, passes, faults and slips are all changes of the one invocation.  *)
(***************************************************************************)
LEMMA StepMakes ==
  ASSUME TypeInv, NEW p \in Invocation, NEW changes
  PROVE  /\ Step(p, changes) => Makes(p, changes)
         /\ Pass(p, changes) => Makes(p, changes) /\ directory' = directory
         /\ Fault(p, changes) => Makes(p, changes) /\ directory' = directory
         /\ Slip(p, changes) =>
              Makes(p, With(changes, [tidy |-> FALSE])) /\ directory' = directory
BY BoundsAssumption DEF Step, Pass, Fault, Slip, Makes, TypeInv

(***************************************************************************)
(* The fields after such a step.                                           *)
(***************************************************************************)
LEMMA MakesFields ==
  ASSUME TypeInv, NEW p \in Invocation, NEW changes, Makes(p, changes),
         DOMAIN changes \subseteq Fields
  PROVE  /\ Alters(p)
         /\ Keeps(invocation[p], invocation'[p], DOMAIN changes)
         /\ \A x \in DOMAIN changes : invocation'[p][x] = changes[x]
BY FieldsOf, ZenonT(60) DEF Makes, Alters, Keeps

(***************************************************************************)
(* A transfer of control, with further fields that get a value.            *)
(***************************************************************************)
LEMMA GoesMade ==
  ASSUME TypeInv, NEW p \in Invocation, NEW go, NEW further,
         DOMAIN go = {"pc", "k"}, DOMAIN further \subseteq Fields \ {"pc", "k"},
         Makes(p, With(go, further))
  PROVE  /\ Alters(p)
         /\ Goes(invocation[p], invocation'[p], go.pc, go.k, DOMAIN further)
         /\ \A x \in DOMAIN further : invocation'[p][x] = further[x]
<1> DEFINE c == With(go, further)
<1>1. /\ DOMAIN c = {"pc", "k"} \union DOMAIN further /\ DOMAIN c \subseteq Fields
      /\ c.pc = go.pc /\ c.k = go.k
      /\ \A x \in DOMAIN further : c[x] = further[x]
  BY DEF With, Fields
<1>2. Makes(p, c)
  OBVIOUS
<1> HIDE DEF c
<1> QED BY <1>1, <1>2, MakesFields DEF Goes

LEMMA LoopMade ==
  ASSUME TypeInv, NEW p \in Invocation, NEW further, NEW label, NEW exit,
         DOMAIN further \subseteq Fields \ {"pc", "k"},
         Makes(p, With(Loop(p, label, invocation[p].k + 1, exit), further))
  PROVE  /\ Alters(p)
         /\ Loops(p, invocation[p], invocation'[p], label, exit, DOMAIN further)
         /\ \A x \in DOMAIN further : invocation'[p][x] = further[x]
<1> DEFINE go == Loop(p, label, invocation[p].k + 1, exit)
<1>1. Count(p) \in Nat /\ invocation[p].k \in Nat
  BY CountFacts DEF TypeInv, Placed
<1>2. /\ DOMAIN go = {"pc", "k"}
      /\ go.pc = (IF invocation[p].k < Count(p) THEN label ELSE exit)
      /\ go.k = IF invocation[p].k < Count(p) THEN invocation[p].k + 1 ELSE 1
  BY <1>1, LoopFields
<1>3. Makes(p, With(go, further))
  OBVIOUS
<1> HIDE DEF go
<1> QED BY <1>2, <1>3, GoesMade DEF Loops

(***************************************************************************)
(* The same without further fields.                                        *)
(***************************************************************************)
LEMMA GoesOnly ==
  ASSUME TypeInv, NEW p \in Invocation, NEW go, DOMAIN go = {"pc", "k"}, Makes(p, go)
  PROVE  /\ Alters(p)
         /\ Goes(invocation[p], invocation'[p], go.pc, go.k, {})
<1>1. DOMAIN go \subseteq Fields
  BY DEF Fields
<1> QED BY <1>1, MakesFields DEF Goes

LEMMA LoopOnly ==
  ASSUME TypeInv, NEW p \in Invocation, NEW label, NEW exit,
         Makes(p, Loop(p, label, invocation[p].k + 1, exit))
  PROVE  Alters(p) /\ Loops(p, invocation[p], invocation'[p], label, exit, {})
<1>1. Count(p) \in Nat /\ invocation[p].k \in Nat
  BY CountFacts DEF TypeInv, Placed
<1> DEFINE go == Loop(p, label, invocation[p].k + 1, exit)
<1>2. /\ DOMAIN go = {"pc", "k"}
      /\ go.pc = (IF invocation[p].k < Count(p) THEN label ELSE exit)
      /\ go.k = IF invocation[p].k < Count(p) THEN invocation[p].k + 1 ELSE 1
  BY <1>1, LoopFields
<1>3. Makes(p, go)
  OBVIOUS
<1> HIDE DEF go
<1> QED BY <1>2, <1>3, GoesOnly DEF Loops

LEMMA RestoresOnly ==
  ASSUME TypeInv, NEW p \in Invocation, NEW n, Makes(p, Restoring(n))
  PROVE  Alters(p) /\ Restores(invocation[p], invocation'[p], n, {})
BY RestoringFields, GoesOnly DEF Restores

LEMMA DiscardsOnly ==
  ASSUME TypeInv, NEW p \in Invocation, Makes(p, Discarding)
  PROVE  Alters(p) /\ Goes(invocation[p], invocation'[p], "discard", 1, {})
BY GoesOnly DEF Discarding


-----------------------------------------------------------------------------
(* The outcomes of each operation.                                         *)

(***************************************************************************)
(* f2c_cli_write_artifacts begins to stage, or cannot allocate its state.  *)
(***************************************************************************)
LEMMA BeginOutcome ==
  ASSUME TypeInv, NEW p \in Invocation, Begin(p)
  PROVE  LET s == invocation[p]
             t == invocation'[p] IN
         /\ Alters(p) /\ directory' = directory
         /\ s.pc = "idle" /\ t.before = directory
         /\ Overlap \/ \A q \in Invocation : ~ Active(invocation[q])
         /\ \/ Goes(s, t, IF 1 <= Count(p) THEN "open" ELSE "stream", 1, {"before"})
            \/ Goes(s, t, "failed", s.k, {"before"})
<1> DEFINE noted == [before |-> directory]
<1>1. DOMAIN noted = {"before"} /\ noted.before = directory
  OBVIOUS
<1>2. CASE Pass(p, With(Loop(p, "open", 1, "stream"), noted))
  <2>1. Makes(p, With(Loop(p, "open", 1, "stream"), noted)) /\ directory' = directory
    BY <1>2, StepMakes
  <2> HIDE DEF noted
  <2> QED BY <1>1, <2>1, LoopFields, GoesMade DEF Begin, At, Ended, Active, Fields
<1>3. CASE Fault(p, With([pc |-> "failed"], noted))
  <2>1. Makes(p, With([pc |-> "failed"], noted)) /\ directory' = directory
    BY <1>3, StepMakes
  <2> DEFINE c == With([pc |-> "failed"], noted)
  <2>2. DOMAIN c = {"pc", "before"} /\ c.pc = "failed" /\ c.before = directory
    BY DEF With
  <2>3. Makes(p, c)
    BY <2>1
  <2> HIDE DEF c
  <2> QED BY <2>1, <2>2, <2>3, MakesFields DEF Begin, At, Ended, Active, Fields, Goes, Keeps
<1> QED BY <1>2, <1>3 DEF Begin

(***************************************************************************)
(* A kill.                                                                 *)
(***************************************************************************)
LEMMA CrashOutcome ==
  ASSUME TypeInv, NEW p \in Invocation, Crash(p)
  PROVE  LET s == invocation[p]
             t == invocation'[p] IN
         /\ Alters(p) /\ directory' = directory
         /\ Active(s) /\ Goes(s, t, "crashed", s.k, {})
BY BoundsAssumption DEF Crash, TypeInv, Placed, Alters, Goes, Keeps, Fields, Active, At, Ended

\* The attempt that succeeds is the one the temporary name is made of.
Chooses(s, t) == t.sequence = [s.sequence EXCEPT ![s.k] = s.attempt]

(***************************************************************************)
(* stage_artifact: opening under a temporary name.                         *)
(***************************************************************************)
LEMMA OpenOutcome ==
  ASSUME TypeInv, NEW p \in Invocation, Open(p)
  PROVE  LET s == invocation[p]
             t == invocation'[p] IN
         /\ Alters(p) /\ s.pc = "open"
         /\ \/ /\ directory' = directory
               /\ Keeps(s, t, {"attempt"})
               /\ t.attempt = s.attempt + 1 /\ t.attempt < Attempts
            \/ directory' = directory /\ Goes(s, t, "discard", 1, {})
            \/ /\ ~ Exists(Temporary(p, s.k, s.attempt))
               /\ Create(Temporary(p, s.k, s.attempt), Partial(p, s.k))
               /\ Goes(s, t, "write", s.k, {"sequence"})
               /\ Chooses(s, t)
<1> DEFINE s == invocation[p]
           t == invocation'[p]
           next == [attempt |-> s.attempt + 1]
           opened == [pc |-> "write", sequence |-> [s.sequence EXCEPT ![s.k] = s.attempt]]
<1>1. CASE Pass(p, next) /\ s.attempt + 1 < Attempts
  <2>1. DOMAIN next = {"attempt"} /\ next.attempt = s.attempt + 1
    OBVIOUS
  <2> HIDE DEF next
  <2> QED BY <1>1, <2>1, StepMakes, MakesFields DEF Open, At, Fields
<1>2. CASE Pass(p, Discarding) \/ Fault(p, Discarding)
  BY <1>2, StepMakes, DiscardsOnly DEF Open, At
<1>3. CASE /\ ~ Exists(Temporary(p, s.k, s.attempt))
           /\ Create(Temporary(p, s.k, s.attempt), Partial(p, s.k))
           /\ Step(p, opened)
  <2>1. /\ DOMAIN opened = {"pc", "sequence"} /\ opened.pc = "write"
        /\ opened.sequence = [s.sequence EXCEPT ![s.k] = s.attempt]
    OBVIOUS
  <2> HIDE DEF opened
  <2> QED BY <1>3, <2>1, StepMakes, MakesFields DEF Open, At, Fields, Goes, Keeps, Chooses
<1> QED BY <1>1, <1>2, <1>3 DEF Open

(***************************************************************************)
(* stage_artifact: writing and closing.                                    *)
(***************************************************************************)
LEMMA WriteOutcome ==
  ASSUME TypeInv, NEW p \in Invocation, Write(p)
  PROVE  LET s == invocation[p]
             t == invocation'[p] IN
         /\ Alters(p) /\ s.pc = "write"
         /\ \/ /\ directory' = [n \in DOMAIN directory |->
                                  IF directory[n] = Partial(p, s.k)
                                  THEN Whole(p, s.k) ELSE directory[n]]
               /\ Loops(p, s, t, "open", "reserve", {"attempt", "staged"})
               /\ t.attempt = 0 /\ t.staged = s.k
            \/ directory' = directory /\ Goes(s, t, "unlink", s.k, {})
<1> DEFINE s == invocation[p]
           t == invocation'[p]
           further == [attempt |-> 0, staged |-> s.k]
           failed == [pc |-> "unlink"]
<1>1. CASE /\ directory' = [n \in DOMAIN directory |->
                              IF directory[n] = Partial(p, s.k)
                              THEN Whole(p, s.k) ELSE directory[n]]
           /\ Step(p, With(Loop(p, "open", s.k + 1, "reserve"), further))
  <2>1. /\ DOMAIN further = {"attempt", "staged"}
        /\ further.attempt = 0 /\ further.staged = s.k
    OBVIOUS
  <2>2. DOMAIN further \subseteq Fields \ {"pc", "k"}
    BY <2>1 DEF Fields
  <2>3. Makes(p, With(Loop(p, "open", s.k + 1, "reserve"), further))
    BY <1>1, StepMakes
  <2> HIDE DEF further
  <2>4. /\ Alters(p)
        /\ Loops(p, s, t, "open", "reserve", DOMAIN further)
        /\ \A x \in DOMAIN further : t[x] = further[x]
    BY <2>2, <2>3, LoopMade
  <2> QED BY <1>1, <2>1, <2>4 DEF Write, At
<1>2. CASE Fault(p, failed)
  <2>1. DOMAIN failed = {"pc"} /\ failed.pc = "unlink"
    OBVIOUS
  <2> HIDE DEF failed
  <2> QED BY <1>2, <2>1, StepMakes, MakesFields DEF Write, At, Fields, Goes, Keeps
<1> QED BY <1>1, <1>2 DEF Write

(***************************************************************************)
(* A transfer of control after a cleaning or restoring call that fails.    *)
(***************************************************************************)
LEMMA GoesSlip ==
  ASSUME TypeInv, NEW p \in Invocation, NEW go, DOMAIN go = {"pc", "k"},
         Slip(p, go)
  PROVE  /\ Alters(p) /\ directory' = directory
         /\ Goes(invocation[p], invocation'[p], go.pc, go.k, {"tidy"})
         /\ invocation'[p].tidy = FALSE
<1> DEFINE further == [tidy |-> FALSE]
<1>1. DOMAIN further = {"tidy"} /\ further.tidy = FALSE
  OBVIOUS
<1>2. Makes(p, With(go, further)) /\ directory' = directory
  BY StepMakes
<1> HIDE DEF further
<1>3. DOMAIN further \subseteq Fields \ {"pc", "k"}
  BY <1>1 DEF Fields
<1>4. /\ Alters(p)
      /\ Goes(invocation[p], invocation'[p], go.pc, go.k, DOMAIN further)
      /\ \A x \in DOMAIN further : invocation'[p][x] = further[x]
  BY <1>2, <1>3, GoesMade
<1> QED BY <1>1, <1>2, <1>4

(***************************************************************************)
(* stage_artifact: the file that could not be written is removed.          *)
(***************************************************************************)
LEMMA UnlinkOutcome ==
  ASSUME TypeInv, NEW p \in Invocation, Unlink(p)
  PROVE  LET s == invocation[p]
             t == invocation'[p] IN
         /\ Alters(p) /\ s.pc = "unlink"
         /\ \/ Remove(Temp(p, s, s.k)) /\ Goes(s, t, "discard", 1, {})
            \/ directory' = directory /\ t.tidy = FALSE /\ Goes(s, t, "discard", 1, {"tidy"})
<1>1. CASE Slip(p, Discarding)
  <2>1. /\ DOMAIN Discarding = {"pc", "k"}
        /\ Discarding.pc = "discard" /\ Discarding.k = 1
    BY DEF Discarding
  <2> QED BY <1>1, <2>1, GoesSlip DEF Unlink, At
<1>2. CASE Remove(Staged(p, invocation[p].k)) /\ Step(p, Discarding)
  BY <1>2, StepMakes, DiscardsOnly DEF Unlink, At, Staged, Temp
<1> QED BY <1>1, <1>2 DEF Unlink

(***************************************************************************)
(* reserve_backups: looking for a file to keep.                            *)
(***************************************************************************)
LEMMA ReserveOutcome ==
  ASSUME TypeInv, NEW p \in Invocation, Reserve(p)
  PROVE  LET s == invocation[p]
             t == invocation'[p] IN
         /\ Alters(p) /\ s.pc = "reserve" /\ directory' = directory
         /\ \/ /\ Exists(Destination(p, s.k))
               /\ Goes(s, t, "probe", s.k, {"reserved"}) /\ t.reserved = s.reserved \union {s.k}
            \/ /\ ~ Exists(Destination(p, s.k))
               /\ Loops(p, s, t, "reserve", "install", {})
            \/ Restores(s, t, s.k - 1, {})
<1> DEFINE s == invocation[p]
           t == invocation'[p]
           found == [pc |-> "probe", reserved |-> s.reserved \union {s.k}]
<1>1. CASE Exists(Destination(p, s.k)) /\ Pass(p, found)
  <2>1. /\ DOMAIN found = {"pc", "reserved"} /\ found.pc = "probe"
        /\ found.reserved = s.reserved \union {s.k}
    OBVIOUS
  <2> HIDE DEF found
  <2> QED BY <1>1, <2>1, StepMakes, MakesFields DEF Reserve, At, Fields, Goes, Keeps
<1>2. CASE ~ Exists(Destination(p, s.k)) /\ Pass(p, Loop(p, "reserve", s.k + 1, "install"))
  BY <1>2, StepMakes, LoopOnly DEF Reserve, At
<1>3. CASE Fault(p, Restoring(s.k - 1))
  BY <1>3, StepMakes, RestoresOnly DEF Reserve, At
<1> QED BY <1>1, <1>2, <1>3 DEF Reserve

(***************************************************************************)
(* reserve_backups: looking up the backup name.                            *)
(***************************************************************************)
LEMMA ProbeOutcome ==
  ASSUME TypeInv, NEW p \in Invocation, Probe(p)
  PROVE  LET s == invocation[p]
             t == invocation'[p] IN
         /\ Alters(p) /\ s.pc = "probe" /\ directory' = directory
         /\ \/ ~ Exists(Old(p, s, s.k)) /\ Goes(s, t, "move", s.k, {})
            \/ Restores(s, t, s.k - 1, {})
<1> DEFINE s == invocation[p]
           t == invocation'[p]
           free == [pc |-> "move"]
<1>1. CASE ~ Exists(Saved(p, s.k)) /\ Pass(p, free)
  <2>1. DOMAIN free = {"pc"} /\ free.pc = "move"
    OBVIOUS
  <2> HIDE DEF free
  <2> QED BY <1>1, <2>1, StepMakes, MakesFields DEF Probe, At, Fields, Goes, Keeps, Saved, Old
<1>2. CASE Pass(p, Restoring(s.k - 1)) \/ Fault(p, Restoring(s.k - 1))
  BY <1>2, StepMakes, RestoresOnly DEF Probe, At
<1> QED BY <1>1, <1>2 DEF Probe

(***************************************************************************)
(* reserve_backups: the file to keep is renamed.                           *)
(***************************************************************************)
LEMMA MoveOutcome ==
  ASSUME TypeInv, NEW p \in Invocation, Move(p)
  PROVE  LET s == invocation[p]
             t == invocation'[p] IN
         /\ Alters(p) /\ s.pc = "move"
         /\ \/ /\ Rename(Destination(p, s.k), Old(p, s, s.k))
               /\ Loops(p, s, t, "reserve", "install", {"original"})
               /\ t.original = s.original \union {s.k}
            \/ directory' = directory /\ Restores(s, t, s.k - 1, {})
<1> DEFINE s == invocation[p]
           t == invocation'[p]
           further == [original |-> s.original \union {s.k}]
<1>1. CASE /\ Rename(Destination(p, s.k), Saved(p, s.k))
           /\ Step(p, With(Loop(p, "reserve", s.k + 1, "install"), further))
  <2>1. DOMAIN further = {"original"} /\ further.original = s.original \union {s.k}
    OBVIOUS
  <2>2. DOMAIN further \subseteq Fields \ {"pc", "k"}
    BY <2>1 DEF Fields
  <2>3. Makes(p, With(Loop(p, "reserve", s.k + 1, "install"), further))
    BY <1>1, StepMakes
  <2> HIDE DEF further
  <2>4. /\ Alters(p)
        /\ Loops(p, s, t, "reserve", "install", DOMAIN further)
        /\ \A x \in DOMAIN further : t[x] = further[x]
    BY <2>2, <2>3, LoopMade
  <2> QED BY <1>1, <2>1, <2>4 DEF Move, At, Saved, Old
<1>2. CASE Pass(p, Restoring(s.k - 1)) \/ Fault(p, Restoring(s.k - 1))
  BY <1>2, StepMakes, RestoresOnly DEF Move, At
<1> QED BY <1>1, <1>2 DEF Move

(***************************************************************************)
(* commit_artifacts: a staged file is renamed into place.                  *)
(***************************************************************************)
LEMMA InstallOutcome ==
  ASSUME TypeInv, NEW p \in Invocation, Install(p)
  PROVE  LET s == invocation[p]
             t == invocation'[p] IN
         /\ Alters(p) /\ s.pc = "install"
         /\ \/ /\ Rename(Temp(p, s, s.k), Destination(p, s.k))
               /\ Loops(p, s, t, "install", "stream", {"installed"})
               /\ t.installed = s.installed \union {s.k}
            \/ directory' = directory /\ Restores(s, t, Count(p), {})
<1> DEFINE s == invocation[p]
           t == invocation'[p]
           further == [installed |-> s.installed \union {s.k}]
<1>1. CASE /\ Rename(Staged(p, s.k), Destination(p, s.k))
           /\ Step(p, With(Loop(p, "install", s.k + 1, "stream"), further))
  <2>1. DOMAIN further = {"installed"} /\ further.installed = s.installed \union {s.k}
    OBVIOUS
  <2>2. DOMAIN further \subseteq Fields \ {"pc", "k"}
    BY <2>1 DEF Fields
  <2>3. Makes(p, With(Loop(p, "install", s.k + 1, "stream"), further))
    BY <1>1, StepMakes
  <2> HIDE DEF further
  <2>4. /\ Alters(p)
        /\ Loops(p, s, t, "install", "stream", DOMAIN further)
        /\ \A x \in DOMAIN further : t[x] = further[x]
    BY <2>2, <2>3, LoopMade
  <2> QED BY <1>1, <2>1, <2>4 DEF Install, At, Staged, Temp
<1>2. CASE Pass(p, Restoring(Count(p))) \/ Fault(p, Restoring(Count(p)))
  BY <1>2, StepMakes, RestoresOnly DEF Install, At
<1> QED BY <1>1, <1>2 DEF Install

(***************************************************************************)
(* The output for standard output, the point of no return.                 *)
(***************************************************************************)
LEMMA StreamOutcome ==
  ASSUME TypeInv, NEW p \in Invocation, WriteStream(p)
  PROVE  LET s == invocation[p]
             t == invocation'[p] IN
         /\ Alters(p) /\ s.pc = "stream" /\ directory' = directory
         /\ \/ /\ Goes(s, t, IF 1 <= Count(p) THEN "unbackup" ELSE "discard", 1, {"committed"})
               /\ t.committed = TRUE
            \/ Restores(s, t, Count(p), {})
<1> DEFINE s == invocation[p]
           t == invocation'[p]
           further == [committed |-> TRUE]
           go == Loop(p, "unbackup", 1, "discard")
<1>1. CASE Pass(p, With(go, further))
  <2>1. DOMAIN further = {"committed"} /\ further.committed = TRUE
    OBVIOUS
  <2>2. /\ DOMAIN go = {"pc", "k"} /\ go.k = 1
        /\ go.pc = IF 1 <= Count(p) THEN "unbackup" ELSE "discard"
    BY LoopFields
  <2>3. DOMAIN further \subseteq Fields \ {"pc", "k"}
    BY <2>1 DEF Fields
  <2>4. Makes(p, With(go, further)) /\ directory' = directory
    BY <1>1, StepMakes
  <2> HIDE DEF further, go
  <2>5. /\ Alters(p) /\ Goes(s, t, go.pc, go.k, DOMAIN further)
        /\ \A x \in DOMAIN further : t[x] = further[x]
    BY <2>2, <2>3, <2>4, GoesMade
  <2> QED BY <2>1, <2>2, <2>4, <2>5 DEF WriteStream, At
<1>2. CASE Fault(p, Restoring(Count(p)))
  BY <1>2, StepMakes, RestoresOnly DEF WriteStream, At
<1> QED BY <1>1, <1>2 DEF WriteStream

(***************************************************************************)
(* The backups are removed.                                                *)
(***************************************************************************)
LEMMA RemoveBackupOutcome ==
  ASSUME TypeInv, NEW p \in Invocation, RemoveBackup(p)
  PROVE  LET s == invocation[p]
             t == invocation'[p] IN
         /\ Alters(p) /\ s.pc = "unbackup"
         /\ \/ /\ s.k \in s.reserved /\ Remove(Old(p, s, s.k))
               /\ Loops(p, s, t, "unbackup", "discard", {})
            \/ /\ s.k \notin s.reserved /\ directory' = directory
               /\ Loops(p, s, t, "unbackup", "discard", {})
            \/ /\ directory' = directory /\ t.tidy = FALSE
               /\ Loops(p, s, t, "unbackup", "discard", {"tidy"})
<1> DEFINE s == invocation[p]
           t == invocation'[p]
           go == Loop(p, "unbackup", s.k + 1, "discard")
<1>1. CASE s.k \in s.reserved /\ Remove(Saved(p, s.k)) /\ Step(p, go)
  BY <1>1, StepMakes, LoopOnly DEF RemoveBackup, At, Saved, Old
<1>2. CASE s.k \notin s.reserved /\ Pass(p, go)
  BY <1>2, StepMakes, LoopOnly DEF RemoveBackup, At
<1>3. CASE Slip(p, go)
  <2>1. Count(p) \in Nat /\ s.k \in Nat
    BY CountFacts DEF TypeInv, Placed
  <2>2. /\ DOMAIN go = {"pc", "k"}
        /\ go.pc = (IF s.k < Count(p) THEN "unbackup" ELSE "discard")
        /\ go.k = IF s.k < Count(p) THEN s.k + 1 ELSE 1
    BY <2>1, LoopFields
  <2> HIDE DEF go
  <2> QED BY <1>3, <2>2, GoesSlip DEF RemoveBackup, At, Loops
<1> QED BY <1>1, <1>2, <1>3 DEF RemoveBackup

(***************************************************************************)
(* restore_artifacts: what was installed is removed.                       *)
(***************************************************************************)
LEMMA WithdrawOutcome ==
  ASSUME TypeInv, NEW p \in Invocation, Withdraw(p)
  PROVE  LET s == invocation[p]
             t == invocation'[p] IN
         /\ Alters(p) /\ s.pc = "withdraw"
         /\ \/ /\ s.k \in s.installed /\ Remove(Destination(p, s.k))
               /\ Goes(s, t, "putback", s.k, {})
            \/ /\ s.k \notin s.installed /\ directory' = directory
               /\ Goes(s, t, "putback", s.k, {})
            \/ /\ directory' = directory /\ t.tidy = FALSE
               /\ Goes(s, t, "putback", s.k, {"tidy"})
<1> DEFINE s == invocation[p]
           t == invocation'[p]
           next == [pc |-> "putback"]
           slipped == With(next, [tidy |-> FALSE])
<1>1. DOMAIN next = {"pc"} /\ next.pc = "putback"
  OBVIOUS
<1>2. DOMAIN slipped = {"pc", "tidy"} /\ slipped.pc = "putback" /\ slipped.tidy = FALSE
  BY DEF With
<1>3. CASE Slip(p, next)
  <2>1. Makes(p, slipped) /\ directory' = directory
    BY <1>3, StepMakes
  <2> HIDE DEF slipped
  <2> QED BY <2>1, <1>2, MakesFields DEF Withdraw, At, Fields, Goes, Keeps
<1>4. CASE \/ s.k \in s.installed /\ Remove(Destination(p, s.k)) /\ Step(p, next)
           \/ s.k \notin s.installed /\ Pass(p, next)
  <2> HIDE DEF next
  <2> QED BY <1>4, <1>1, StepMakes, MakesFields DEF Withdraw, At, Fields, Goes, Keeps
<1> QED BY <1>3, <1>4 DEF Withdraw

(***************************************************************************)
(* restore_artifacts: what was there before is renamed back.               *)
(***************************************************************************)
LEMMA PutBackOutcome ==
  ASSUME TypeInv, NEW p \in Invocation, PutBack(p)
  PROVE  LET s == invocation[p]
             t == invocation'[p] IN
         /\ Alters(p) /\ s.pc = "putback"
         /\ \/ /\ s.k \in s.original /\ Rename(Old(p, s, s.k), Destination(p, s.k))
               /\ Restores(s, t, s.k - 1, {})
            \/ /\ s.k \in s.original => ~ Exists(Old(p, s, s.k))
               /\ directory' = directory
               /\ Restores(s, t, s.k - 1, {})
            \/ /\ directory' = directory /\ t.tidy = FALSE
               /\ Restores(s, t, s.k - 1, {"tidy"})
<1> DEFINE s == invocation[p]
           t == invocation'[p]
           next == Restoring(s.k - 1)
<1>1. CASE s.k \in s.original /\ Rename(Saved(p, s.k), Destination(p, s.k)) /\ Step(p, next)
  BY <1>1, StepMakes, RestoresOnly DEF PutBack, At, Saved, Old
<1>2. CASE (s.k \in s.original => ~ Exists(Saved(p, s.k))) /\ Pass(p, next)
  BY <1>2, StepMakes, RestoresOnly DEF PutBack, At, Saved, Old
<1>3. CASE Slip(p, next)
  <2>1. /\ DOMAIN next = {"pc", "k"}
        /\ next.pc = (IF s.k - 1 = 0 THEN "discard" ELSE "withdraw")
        /\ next.k = IF s.k - 1 = 0 THEN 1 ELSE s.k - 1
    BY RestoringFields
  <2> HIDE DEF next
  <2> QED BY <1>3, <2>1, GoesSlip DEF PutBack, At, Restores
<1> QED BY <1>1, <1>2, <1>3 DEF PutBack

(***************************************************************************)
(* discard_staged_artifacts.                                               *)
(***************************************************************************)
LEMMA DiscardOutcome ==
  ASSUME TypeInv, NEW p \in Invocation, Discard(p)
  PROVE  LET s == invocation[p]
             t == invocation'[p] IN
         /\ Alters(p) /\ s.pc = "discard" /\ s.k <= s.staged
         /\ \/ Remove(Temp(p, s, s.k)) /\ Goes(s, t, "discard", s.k + 1, {})
            \/ /\ directory' = directory /\ t.tidy = FALSE
               /\ Goes(s, t, "discard", s.k + 1, {"tidy"})
<1> DEFINE s == invocation[p]
           t == invocation'[p]
           next == [k |-> s.k + 1]
           slipped == With(next, [tidy |-> FALSE])
<1>1. DOMAIN next = {"k"} /\ next.k = s.k + 1
  OBVIOUS
<1>2. DOMAIN slipped = {"k", "tidy"} /\ slipped.k = s.k + 1 /\ slipped.tidy = FALSE
  BY DEF With
<1>3. CASE Slip(p, next)
  <2>1. Makes(p, slipped) /\ directory' = directory
    BY <1>3, StepMakes
  <2> HIDE DEF slipped
  <2> QED BY <2>1, <1>2, MakesFields DEF Discard, At, Fields, Goes, Keeps
<1>4. CASE Remove(Staged(p, s.k)) /\ Step(p, next)
  <2> HIDE DEF next
  <2> QED BY <1>4, <1>1, StepMakes, MakesFields
          DEF Discard, At, Fields, Goes, Keeps, Staged, Temp
<1> QED BY <1>3, <1>4 DEF Discard

(***************************************************************************)
(* f2c_cli_write_artifacts returns.                                        *)
(***************************************************************************)
LEMMA EndOutcome ==
  ASSUME TypeInv, NEW p \in Invocation, End(p)
  PROVE  LET s == invocation[p]
             t == invocation'[p] IN
         /\ Alters(p) /\ s.pc = "discard" /\ s.k > s.staged /\ directory' = directory
         /\ Goes(s, t, IF s.committed THEN "done" ELSE "failed", s.k, {})
<1> DEFINE s == invocation[p]
           t == invocation'[p]
           last == [pc |-> IF s.committed THEN "done" ELSE "failed"]
<1>1. DOMAIN last = {"pc"} /\ last.pc = IF s.committed THEN "done" ELSE "failed"
  OBVIOUS
<1>2. Pass(p, last) /\ s.pc = "discard" /\ s.k > s.staged
  BY DEF End, At
<1> HIDE DEF last
<1> QED BY <1>1, <1>2, StepMakes, MakesFields DEF Fields, Goes, Keeps


-----------------------------------------------------------------------------
(* The loops stay in bounds.                                               *)

(***************************************************************************)
(* The fields that stay, one by one.                                       *)
(***************************************************************************)
LEMMA FieldsKept ==
  ASSUME NEW s, NEW t, NEW changed, Keeps(s, t, changed)
  PROVE  /\ DOMAIN t = Fields
         /\ "pc" \in changed \/ t.pc = s.pc
         /\ "k" \in changed \/ t.k = s.k
         /\ "attempt" \in changed \/ t.attempt = s.attempt
         /\ "sequence" \in changed \/ t.sequence = s.sequence
         /\ "staged" \in changed \/ t.staged = s.staged
         /\ "reserved" \in changed \/ t.reserved = s.reserved
         /\ "original" \in changed \/ t.original = s.original
         /\ "installed" \in changed \/ t.installed = s.installed
         /\ "committed" \in changed \/ t.committed = s.committed
         /\ "before" \in changed \/ t.before = s.before
         /\ "tidy" \in changed \/ t.tidy = s.tidy
BY DEF Keeps, Fields

(***************************************************************************)
(* The same for a transfer of control that at most notes a slip.           *)
(***************************************************************************)
LEMMA GoesTidy ==
  ASSUME NEW s, NEW t, NEW label, NEW k, NEW others \in {{}, {"tidy"}},
         Goes(s, t, label, k, others)
  PROVE  /\ DOMAIN t = Fields /\ t.pc = label /\ t.k = k
         /\ t.attempt = s.attempt /\ t.sequence = s.sequence /\ t.staged = s.staged
         /\ t.reserved = s.reserved /\ t.original = s.original /\ t.installed = s.installed
         /\ t.committed = s.committed /\ t.before = s.before
         /\ t.tidy = s.tidy \/ others = {"tidy"}
<1>1. Keeps(s, t, {"pc", "k"} \union others) /\ t.pc = label /\ t.k = k
  BY DEF Goes
<1>2. others = {} \/ others = {"tidy"}
  OBVIOUS
<1> QED BY <1>1, <1>2, FieldsKept

(***************************************************************************)
(* And for one that notes nothing.                                         *)
(***************************************************************************)
LEMMA GoesPlain ==
  ASSUME NEW s, NEW t, NEW label, NEW k, Goes(s, t, label, k, {})
  PROVE  /\ DOMAIN t = Fields /\ t.pc = label /\ t.k = k
         /\ t.attempt = s.attempt /\ t.sequence = s.sequence /\ t.staged = s.staged
         /\ t.reserved = s.reserved /\ t.original = s.original /\ t.installed = s.installed
         /\ t.committed = s.committed /\ t.before = s.before /\ t.tidy = s.tidy
BY GoesTidy

(***************************************************************************)
(* Restoring starts, or goes on, at an output that has been dealt with.    *)
(***************************************************************************)
LEMMA RestoresPlaced ==
  ASSUME NEW p \in Invocation, NEW s, NEW t, NEW n, NEW others \in {{}, {"tidy"}},
         Placed(p, s), Restores(s, t, n, others), t.tidy \in BOOLEAN,
         ~ s.committed,
         \/ s.pc \in {"reserve", "probe", "move", "putback"} /\ n = s.k - 1
         \/ s.pc \in {"install", "stream"} /\ n = Count(p)
  PROVE  Placed(p, t)
<1>1. Count(p) \in Nat
  BY CountFacts
<1> QED BY <1>1 DEF Placed, Restores, Goes, Keeps, Fields, Label

(***************************************************************************)
(* The other transfers of control, each from where the code makes it.      *)
(***************************************************************************)
LEMMA BeginPlaced ==
  ASSUME NEW p \in Invocation, NEW s, NEW t, Placed(p, s), s.pc = "idle",
         \/ Goes(s, t, IF 1 <= Count(p) THEN "open" ELSE "stream", 1, {"before"})
         \/ Goes(s, t, "failed", s.k, {"before"})
  PROVE  Placed(p, t)
<1>1. Count(p) \in Nat
  BY CountFacts
<1>2. CASE 1 <= Count(p) /\ Goes(s, t, "open", 1, {"before"})
  BY <1>1, <1>2, FieldsKept DEF Placed, Goes, Label
<1>3. CASE ~ (1 <= Count(p)) /\ Goes(s, t, "stream", 1, {"before"})
  <2>1. Count(p) = 0 /\ 1 .. Count(p) = {}
    BY <1>1, <1>3
  <2> QED BY <1>3, <2>1, FieldsKept DEF Placed, Goes, Label
<1>4. CASE Goes(s, t, "failed", s.k, {"before"})
  BY <1>1, <1>4, FieldsKept DEF Placed, Goes, Label
<1> QED BY <1>1, <1>2, <1>3, <1>4

LEMMA OpenPlaced ==
  ASSUME NEW p \in Invocation, NEW s, NEW t, Placed(p, s), s.pc = "open",
         \/ /\ Keeps(s, t, {"attempt"})
            /\ t.attempt = s.attempt + 1 /\ t.attempt < Attempts
         \/ Goes(s, t, "discard", 1, {})
         \/ Goes(s, t, "write", s.k, {"sequence"}) /\ Chooses(s, t)
  PROVE  Placed(p, t)
<1>1. Count(p) \in Nat
  BY CountFacts
<1>2. CASE Keeps(s, t, {"attempt"}) /\ t.attempt = s.attempt + 1 /\ t.attempt < Attempts
  <2>1. /\ DOMAIN t = Fields /\ t.pc = s.pc /\ t.k = s.k
        /\ t.sequence = s.sequence /\ t.staged = s.staged
        /\ t.reserved = s.reserved /\ t.original = s.original /\ t.installed = s.installed
        /\ t.committed = s.committed /\ t.tidy = s.tidy
    BY <1>2, FieldsKept
  <2>2. t.attempt \in 0 .. Attempts - 1
    BY <1>2, BoundsAssumption DEF Placed
  <2> QED BY <1>1, <2>1, <2>2 DEF Placed
<1>3. CASE Goes(s, t, "discard", 1, {})
  BY <1>1, <1>3, GoesPlain DEF Placed, Label
<1>4. CASE Goes(s, t, "write", s.k, {"sequence"}) /\ Chooses(s, t)
  <2>1. t.sequence \in [1 .. Count(p) -> 0 .. Attempts - 1]
    BY <1>4 DEF Chooses, Placed
  <2>2. Keeps(s, t, {"pc", "k", "sequence"}) /\ t.pc = "write" /\ t.k = s.k
    BY <1>4 DEF Goes
  <2>3. /\ DOMAIN t = Fields /\ t.attempt = s.attempt /\ t.staged = s.staged
        /\ t.reserved = s.reserved /\ t.original = s.original /\ t.installed = s.installed
        /\ t.committed = s.committed /\ t.tidy = s.tidy
    BY <2>2, FieldsKept
  <2> QED BY <1>1, <2>1, <2>2, <2>3 DEF Placed, Label
<1> QED BY <1>2, <1>3, <1>4

LEMMA WritePlaced ==
  ASSUME NEW p \in Invocation, NEW s, NEW t, Placed(p, s), s.pc = "write",
         \/ /\ Loops(p, s, t, "open", "reserve", {"attempt", "staged"})
            /\ t.attempt = 0 /\ t.staged = s.k
         \/ Goes(s, t, "unlink", s.k, {})
  PROVE  Placed(p, t)
<1>1. Count(p) \in Nat
  BY CountFacts
<1>2. CASE /\ Loops(p, s, t, "open", "reserve", {"attempt", "staged"})
           /\ t.attempt = 0 /\ t.staged = s.k
  <2>1. /\ Keeps(s, t, {"pc", "k", "attempt", "staged"})
        /\ t.pc = (IF s.k < Count(p) THEN "open" ELSE "reserve")
        /\ t.k = IF s.k < Count(p) THEN s.k + 1 ELSE 1
    BY <1>2 DEF Loops, Goes
  <2>2. /\ DOMAIN t = Fields /\ t.sequence = s.sequence
        /\ t.reserved = s.reserved /\ t.original = s.original /\ t.installed = s.installed
        /\ t.committed = s.committed /\ t.tidy = s.tidy
    BY <2>1, FieldsKept
  <2> QED BY <1>1, <1>2, <2>1, <2>2, BoundsAssumption DEF Placed, Label
<1>3. CASE Goes(s, t, "unlink", s.k, {})
  BY <1>1, <1>3, GoesPlain DEF Placed, Label
<1> QED BY <1>2, <1>3

LEMMA UnlinkPlaced ==
  ASSUME NEW p \in Invocation, NEW s, NEW t, Placed(p, s), s.pc = "unlink",
         NEW others \in {{}, {"tidy"}}, t.tidy \in BOOLEAN,
         Goes(s, t, "discard", 1, others)
  PROVE  Placed(p, t)
<1>1. /\ DOMAIN t = Fields /\ t.pc = "discard" /\ t.k = 1
      /\ t.attempt = s.attempt /\ t.sequence = s.sequence /\ t.staged = s.staged
      /\ t.reserved = s.reserved /\ t.original = s.original /\ t.installed = s.installed
      /\ t.committed = s.committed
  BY GoesTidy
<1> QED BY <1>1, CountFacts DEF Placed, Label

LEMMA ReservePlaced ==
  ASSUME NEW p \in Invocation, NEW s, NEW t, Placed(p, s), s.pc = "reserve",
         \/ Goes(s, t, "probe", s.k, {"reserved"}) /\ t.reserved = s.reserved \union {s.k}
         \/ Loops(p, s, t, "reserve", "install", {})
  PROVE  Placed(p, t)
<1>1. Count(p) \in Nat
  BY CountFacts
<1>2. CASE Goes(s, t, "probe", s.k, {"reserved"}) /\ t.reserved = s.reserved \union {s.k}
  <2>1. Keeps(s, t, {"pc", "k", "reserved"}) /\ t.pc = "probe" /\ t.k = s.k
    BY <1>2 DEF Goes
  <2>2. /\ DOMAIN t = Fields /\ t.attempt = s.attempt /\ t.sequence = s.sequence
        /\ t.staged = s.staged /\ t.original = s.original /\ t.installed = s.installed
        /\ t.committed = s.committed /\ t.tidy = s.tidy
    BY <2>1, FieldsKept
  <2> QED BY <1>1, <1>2, <2>1, <2>2 DEF Placed, Label
<1>3. CASE Loops(p, s, t, "reserve", "install", {})
  <2>1. CASE s.k < Count(p)
    BY <1>1, <1>3, <2>1, GoesPlain DEF Placed, Loops, Label
  <2>2. CASE ~ (s.k < Count(p))
    <3>1. s.installed = {} /\ 1 .. 1 - 1 = {}
      BY DEF Placed
    <3>2. Goes(s, t, "install", 1, {})
      BY <1>3, <2>2 DEF Loops
    <3>3. /\ DOMAIN t = Fields /\ t.pc = "install" /\ t.k = 1
          /\ t.attempt = s.attempt /\ t.sequence = s.sequence /\ t.staged = s.staged
          /\ t.reserved = s.reserved /\ t.original = s.original /\ t.installed = s.installed
          /\ t.committed = s.committed /\ t.tidy = s.tidy
      BY <3>2, GoesPlain
    <3> QED BY <1>1, <3>1, <3>3 DEF Placed, Label
  <2> QED BY <2>1, <2>2
<1> QED BY <1>2, <1>3

LEMMA ProbePlaced ==
  ASSUME NEW p \in Invocation, NEW s, NEW t, Placed(p, s), s.pc = "probe",
         Goes(s, t, "move", s.k, {})
  PROVE  Placed(p, t)
BY CountFacts, GoesPlain DEF Placed, Label

LEMMA MovePlaced ==
  ASSUME NEW p \in Invocation, NEW s, NEW t, Placed(p, s), s.pc = "move",
         Loops(p, s, t, "reserve", "install", {"original"}),
         t.original = s.original \union {s.k}
  PROVE  Placed(p, t)
<1>1. /\ Keeps(s, t, {"pc", "k", "original"})
      /\ t.pc = (IF s.k < Count(p) THEN "reserve" ELSE "install")
      /\ t.k = IF s.k < Count(p) THEN s.k + 1 ELSE 1
  BY DEF Loops, Goes
<1>2. /\ DOMAIN t = Fields /\ t.attempt = s.attempt /\ t.sequence = s.sequence
      /\ t.staged = s.staged /\ t.reserved = s.reserved /\ t.installed = s.installed
      /\ t.committed = s.committed /\ t.tidy = s.tidy
  BY <1>1, FieldsKept
<1>3. t.installed = {} /\ 1 .. 1 - 1 = {}
  BY <1>2 DEF Placed
<1>4. CASE s.k < Count(p)
  BY <1>1, <1>2, <1>3, <1>4, CountFacts DEF Placed, Label
<1>5. CASE ~ (s.k < Count(p))
  BY <1>1, <1>2, <1>3, <1>5, CountFacts DEF Placed, Label
<1> QED BY <1>4, <1>5

LEMMA InstallPlaced ==
  ASSUME NEW p \in Invocation, NEW s, NEW t, Placed(p, s), s.pc = "install",
         Loops(p, s, t, "install", "stream", {"installed"}),
         t.installed = s.installed \union {s.k}
  PROVE  Placed(p, t)
<1>1. Count(p) \in Nat
  BY CountFacts
<1>2. t.installed = 1 .. s.k /\ s.k \in 1 .. Count(p)
  BY <1>1 DEF Placed
<1>3. /\ Keeps(s, t, {"pc", "k", "installed"})
      /\ t.pc = (IF s.k < Count(p) THEN "install" ELSE "stream")
      /\ t.k = IF s.k < Count(p) THEN s.k + 1 ELSE 1
  BY DEF Loops, Goes
<1>4. /\ DOMAIN t = Fields /\ t.attempt = s.attempt /\ t.sequence = s.sequence
      /\ t.staged = s.staged /\ t.reserved = s.reserved /\ t.original = s.original
      /\ t.committed = s.committed /\ t.tidy = s.tidy
  BY <1>3, FieldsKept
<1> QED BY <1>1, <1>2, <1>3, <1>4 DEF Placed, Label

\* With no file output, the stream alone is written.
LEMMA EmptyPlaced ==
  ASSUME NEW p \in Invocation, NEW s, NEW t, Placed(p, s), s.pc = "stream",
         Count(p) = 0, DOMAIN t = Fields, t.pc = "discard", t.k = 1,
         t.attempt = s.attempt, t.sequence = s.sequence, t.staged = s.staged,
         t.reserved = s.reserved, t.original = s.original, t.installed = s.installed,
         t.committed = TRUE, t.tidy = s.tidy
  PROVE  Placed(p, t)
<1>1. s.staged = 0 /\ s.reserved \subseteq 1 .. s.staged /\ s.installed \subseteq 1 .. s.staged
  BY DEF Placed
<1>2. t.pc \in Label
  BY DEF Label
<1>3. t.k \in 1 .. Count(p) + 1 /\ t.k <= t.staged + 1
  BY <1>1
<1>4. s.attempt \in 0 .. Attempts - 1 /\ s.sequence \in [1 .. Count(p) -> 0 .. Attempts - 1]
  BY DEF Placed
<1>5. s.original \subseteq s.reserved /\ s.tidy \in BOOLEAN /\ s.staged \in 0 .. Count(p)
  BY DEF Placed
<1> QED BY <1>1, <1>2, <1>3, <1>4, <1>5 DEF Placed

LEMMA StreamPlaced ==
  ASSUME NEW p \in Invocation, NEW s, NEW t, Placed(p, s), s.pc = "stream",
         Goes(s, t, IF 1 <= Count(p) THEN "unbackup" ELSE "discard", 1, {"committed"}),
         t.committed = TRUE
  PROVE  Placed(p, t)
<1>1. /\ Keeps(s, t, {"pc", "k", "committed"}) /\ t.k = 1
      /\ t.pc = IF 1 <= Count(p) THEN "unbackup" ELSE "discard"
  BY DEF Goes
<1>2. /\ DOMAIN t = Fields /\ t.attempt = s.attempt /\ t.sequence = s.sequence
      /\ t.staged = s.staged /\ t.reserved = s.reserved /\ t.original = s.original
      /\ t.installed = s.installed /\ t.tidy = s.tidy
  BY <1>1, FieldsKept
<1>3. CASE 1 <= Count(p)
  BY <1>1, <1>2, <1>3, CountFacts DEF Placed, Label
<1>4. CASE ~ (1 <= Count(p))
  <2>1. t.pc = "discard" /\ t.k = 1 /\ Count(p) = 0
    BY <1>1, <1>4, CountFacts
  <2> QED BY <1>2, <2>1, EmptyPlaced
<1> QED BY <1>3, <1>4

LEMMA RemoveBackupPlaced ==
  ASSUME NEW p \in Invocation, NEW s, NEW t, Placed(p, s), s.pc = "unbackup",
         NEW others \in {{}, {"tidy"}}, t.tidy \in BOOLEAN,
         Loops(p, s, t, "unbackup", "discard", others)
  PROVE  Placed(p, t)
<1>1. /\ DOMAIN t = Fields /\ t.pc = (IF s.k < Count(p) THEN "unbackup" ELSE "discard") /\ t.k = (IF s.k < Count(p) THEN s.k + 1 ELSE 1)
      /\ t.attempt = s.attempt /\ t.sequence = s.sequence /\ t.staged = s.staged
      /\ t.reserved = s.reserved /\ t.original = s.original /\ t.installed = s.installed
      /\ t.committed = s.committed
  BY GoesTidy DEF Loops
<1> QED BY <1>1, CountFacts DEF Placed, Label

LEMMA WithdrawPlaced ==
  ASSUME NEW p \in Invocation, NEW s, NEW t, Placed(p, s), s.pc = "withdraw",
         NEW others \in {{}, {"tidy"}}, t.tidy \in BOOLEAN,
         Goes(s, t, "putback", s.k, others)
  PROVE  Placed(p, t)
<1>1. /\ DOMAIN t = Fields /\ t.pc = "putback" /\ t.k = s.k
      /\ t.attempt = s.attempt /\ t.sequence = s.sequence /\ t.staged = s.staged
      /\ t.reserved = s.reserved /\ t.original = s.original /\ t.installed = s.installed
      /\ t.committed = s.committed
  BY GoesTidy
<1> QED BY <1>1, CountFacts DEF Placed, Label

LEMMA DiscardPlaced ==
  ASSUME NEW p \in Invocation, NEW s, NEW t, Placed(p, s), s.pc = "discard", s.k <= s.staged,
         NEW others \in {{}, {"tidy"}}, t.tidy \in BOOLEAN,
         Goes(s, t, "discard", s.k + 1, others)
  PROVE  Placed(p, t)
<1>1. /\ DOMAIN t = Fields /\ t.pc = "discard" /\ t.k = s.k + 1
      /\ t.attempt = s.attempt /\ t.sequence = s.sequence /\ t.staged = s.staged
      /\ t.reserved = s.reserved /\ t.original = s.original /\ t.installed = s.installed
      /\ t.committed = s.committed
  BY GoesTidy
<1> QED BY <1>1, CountFacts DEF Placed, Label

LEMMA LastPlaced ==
  ASSUME NEW p \in Invocation, NEW s, NEW t, Placed(p, s),
         \/ Active(s) /\ Goes(s, t, "crashed", s.k, {})
         \/ /\ s.pc = "discard"
            /\ Goes(s, t, IF s.committed THEN "done" ELSE "failed", s.k, {})
  PROVE  Placed(p, t)
<1>1. CASE Active(s) /\ Goes(s, t, "crashed", s.k, {})
  BY <1>1, CountFacts, GoesPlain DEF Placed, Label, Active
<1>2. CASE /\ s.pc = "discard"
           /\ Goes(s, t, IF s.committed THEN "done" ELSE "failed", s.k, {})
  BY <1>2, CountFacts, GoesPlain DEF Placed, Label
<1> QED BY <1>1, <1>2

(***************************************************************************)
(* Every step leaves every invocation placed.                              *)
(***************************************************************************)
LEMMA StepPlaced ==
  ASSUME TypeInv, NEW p \in Invocation,
         \/ Begin(p) \/ Crash(p) \/ Open(p) \/ Write(p) \/ Unlink(p)
         \/ Reserve(p) \/ Probe(p) \/ Move(p) \/ Install(p) \/ WriteStream(p)
         \/ RemoveBackup(p) \/ Withdraw(p) \/ PutBack(p) \/ Discard(p) \/ End(p)
  PROVE  Alters(p) /\ Placed(p, invocation'[p])
<1> DEFINE s == invocation[p]
           t == invocation'[p]
           kept == Goes(s, t, "discard", 1, {})
<1>1. Placed(p, s) /\ s.committed \in BOOLEAN /\ s.tidy \in BOOLEAN /\ s.reserved \subseteq 1 .. s.staged
  BY DEF TypeInv, Placed
<1>2. ASSUME NEW others, Keeps(s, t, others), "tidy" \notin others PROVE t.tidy \in BOOLEAN
  BY <1>1, <1>2, FieldsKept
<1>3. \A n : Restores(s, t, n, {}) => t.tidy \in BOOLEAN
  BY <1>2 DEF Restores, Goes
<1>4. s.pc \in {"reserve", "probe", "move", "install", "stream", "putback"} => ~ s.committed
  BY <1>1 DEF Placed
<1>5. CASE Begin(p)
  BY <1>1, <1>5, BeginOutcome, BeginPlaced
<1>6. CASE Crash(p) \/ End(p)
  BY <1>1, <1>6, CrashOutcome, EndOutcome, LastPlaced
<1>7. CASE Open(p)
  BY <1>1, <1>7, OpenOutcome, OpenPlaced
<1>8. CASE Write(p)
  BY <1>1, <1>8, WriteOutcome, WritePlaced
<1>9. CASE Unlink(p)
  <2>1. ASSUME NEW others \in {{}, {"tidy"}}, t.tidy \in BOOLEAN, s.pc = "unlink",
               Goes(s, t, "discard", 1, others)
        PROVE  Placed(p, t)
    BY <1>1, <2>1, UnlinkPlaced
  <2>2. Goes(s, t, "discard", 1, {}) => t.tidy = s.tidy
    BY GoesPlain
  <2> QED BY <1>1, <2>2, <1>9, <2>1, UnlinkOutcome
<1>10. CASE Reserve(p)
  BY <1>1, <1>3, <1>4, <1>10, ReserveOutcome, ReservePlaced, RestoresPlaced
<1>11. CASE Probe(p)
  BY <1>1, <1>3, <1>4, <1>11, ProbeOutcome, ProbePlaced, RestoresPlaced
<1>12. CASE Move(p)
  BY <1>1, <1>3, <1>4, <1>12, MoveOutcome, MovePlaced, RestoresPlaced
<1>13. CASE Install(p)
  BY <1>1, <1>3, <1>4, <1>13, InstallOutcome, InstallPlaced, RestoresPlaced
<1>14. CASE WriteStream(p)
  BY <1>1, <1>3, <1>4, <1>14, StreamOutcome, StreamPlaced, RestoresPlaced
<1>15. CASE RemoveBackup(p)
  <2>1. ASSUME NEW others \in {{}, {"tidy"}}, t.tidy \in BOOLEAN, s.pc = "unbackup",
               Loops(p, s, t, "unbackup", "discard", others)
        PROVE  Placed(p, t)
    BY <1>1, <2>1, RemoveBackupPlaced
  <2>2. Loops(p, s, t, "unbackup", "discard", {}) => t.tidy = s.tidy
    BY GoesPlain DEF Loops
  <2> QED BY <1>1, <1>15, <2>1, <2>2, RemoveBackupOutcome
<1>16. CASE Withdraw(p)
  <2>1. ASSUME NEW others \in {{}, {"tidy"}}, t.tidy \in BOOLEAN, s.pc = "withdraw",
               Goes(s, t, "putback", s.k, others)
        PROVE  Placed(p, t)
    BY <1>1, <2>1, WithdrawPlaced
  <2>2. Goes(s, t, "putback", s.k, {}) => t.tidy = s.tidy
    BY GoesPlain
  <2> QED BY <1>1, <2>2, <1>16, <2>1, WithdrawOutcome
<1>17. CASE PutBack(p)
  <2>1. ASSUME NEW others \in {{}, {"tidy"}}, t.tidy \in BOOLEAN, s.pc = "putback",
               Restores(s, t, s.k - 1, others)
        PROVE  Placed(p, t)
    BY <1>1, <1>4, <2>1, RestoresPlaced
  <2> QED BY <1>1, <1>3, <1>17, <2>1, PutBackOutcome
<1>18. CASE Discard(p)
  <2>1. ASSUME NEW others \in {{}, {"tidy"}}, t.tidy \in BOOLEAN, s.pc = "discard",
               s.k <= s.staged, Goes(s, t, "discard", s.k + 1, others)
        PROVE  Placed(p, t)
    BY <1>1, <2>1, DiscardPlaced
  <2>2. Goes(s, t, "discard", s.k + 1, {}) => t.tidy = s.tidy
    BY GoesPlain
  <2> QED BY <1>1, <2>2, <1>18, <2>1, DiscardOutcome
<1> QED BY <1>5, <1>6, <1>7, <1>8, <1>9, <1>10, <1>11, <1>12, <1>13, <1>14, <1>15, <1>16,
           <1>17, <1>18

LEMMA TypeStep == TypeInv /\ [Next]_vars => TypeInv'
<1> SUFFICES ASSUME TypeInv, [Next]_vars
             PROVE  TypeInv'
  OBVIOUS
<1>1. CASE UNCHANGED vars
  BY <1>1 DEF vars, TypeInv
<1>2. CASE Next
  <2>1. PICK p \in Invocation : Alters(p) /\ Placed(p, invocation'[p])
    BY <1>2, StepPlaced DEF Next
  <2> QED BY <2>1, TypeKept DEF Alters
<1> QED BY <1>1, <1>2

LEMMA TypeInit == Init => TypeInv
<1> SUFFICES ASSUME Init PROVE TypeInv
  OBVIOUS
<1>1. ASSUME NEW p \in Invocation PROVE Placed(p, invocation[p])
  <2>1. invocation[p] = Idle(p) /\ Count(p) \in Nat
    BY CountFacts DEF Init
  <2>2. Placed(p, Idle(p))
    BY <2>1, BoundsAssumption DEF Idle, Placed, Fields, Label
  <2> QED BY <2>1, <2>2
<1> QED BY <1>1, BoundsAssumption DEF Init, TypeInv

(***************************************************************************)
(* Every loop of f2c_cli_write_artifacts stays within the outputs, and     *)
(* what it restores or removes it has staged: of any invocations, that may *)
(* run at the same time, fail and be killed.                               *)
(***************************************************************************)
THEOREM TypeCorrect == Spec => []TypeOK
<1>1. TypeInv => TypeOK
  BY DEF TypeInv, Placed, TypeOK
<1> QED BY <1>1, TypeInit, TypeStep, PTL DEF Spec

-----------------------------------------------------------------------------
(* Names and directories.                                                  *)

(***************************************************************************)
(* Output files, temporary files and backups have different names, and an  *)
(* output has a backup name of its own.                                    *)
(***************************************************************************)
LEMMA DestinationFacts ==
  ASSUME NEW p, NEW i
  PROVE  Destination(p, i)[1] = "path"
BY DEF Destination, Path

LEMMA NameFacts ==
  ASSUME NEW p, NEW i, NEW a
  PROVE  /\ Temporary(p, i, a)[1] = "tmp"
         /\ Backup(p, i, a)[1] = "old"
         /\ \A j : /\ Temporary(p, i, a) # Destination(p, j)
                  /\ Backup(p, i, a) # Destination(p, j)
         /\ \A j, c : /\ Temporary(p, i, a) # Backup(p, j, c)
                     /\ Backup(p, i, a) = Backup(p, j, c) => i = j
BY DEF Destination, Path, Temporary, Backup

(***************************************************************************)
(* Whole and partial files differ.                                         *)
(***************************************************************************)
LEMMA ContentFacts ==
  ASSUME NEW p, NEW i
  PROVE  /\ Whole(p, i)[1] = "whole" /\ Partial(p, i)[1] = "partial"
         /\ \A q, j : Whole(p, i) # Partial(q, j)
BY DEF Whole, Partial

\* What a system call makes of directory d: a name is added, is dropped, is
\* moved, or the file that was being written is closed.
Added(d, e, name, content) ==
  /\ name \notin DOMAIN d /\ DOMAIN e = DOMAIN d \union {name}
  /\ e[name] = content /\ \A n \in DOMAIN d : e[n] = d[n]
Dropped(d, e, name) ==
  DOMAIN e = DOMAIN d \ {name} /\ \A n \in DOMAIN e : e[n] = d[n]
Moved(d, e, source, destination) ==
  /\ source \in DOMAIN d /\ DOMAIN e = (DOMAIN d \ {source}) \union {destination}
  /\ e[destination] = d[source] /\ \A n \in DOMAIN e \ {destination} : e[n] = d[n]
Closed(d, e, before, after) ==
  /\ DOMAIN e = DOMAIN d
  /\ \A n \in DOMAIN d : /\ d[n] = before => e[n] = after
                         /\ d[n] # before => e[n] = d[n]

(***************************************************************************)
(* The file operations of the module do that.                              *)
(***************************************************************************)
LEMMA Effects ==
  ASSUME NEW a, NEW b
  PROVE  /\ ~ Exists(a) /\ Create(a, b) => Added(directory, directory', a, b)
         /\ Remove(a) => Dropped(directory, directory', a)
         /\ Rename(a, b) => Moved(directory, directory', a, b)
         /\ directory' = [n \in DOMAIN directory |->
                            IF directory[n] = a THEN b ELSE directory[n]]
              => Closed(directory, directory', a, b)
<1>1. Exists(a) \/ ~ Create(a, b) \/ Added(directory, directory', a, b)
  BY DEF Exists, Create, With, Added
<1>2. Remove(a) => Dropped(directory, directory', a)
  BY DEF Remove, Dropped
<1>3. Rename(a, b) => Moved(directory, directory', a, b)
  BY DEF Rename, Exists, Moved
<1> QED BY <1>1, <1>2, <1>3 DEF Closed

-----------------------------------------------------------------------------
(* Invocations at the same time.                                           *)

\* There is still a way for an invocation to succeed.
Surviving(s) ==
  \/ s.pc \in {"idle", "open", "write", "reserve", "probe", "move", "install", "stream"}
  \/ s.committed /\ s.pc # "crashed"

\* An output that goes to this name, whole or being written.
MeantFor(inv, name, content) ==
  \E q \in Invocation : \E j \in 1 .. Count(q) :
    /\ Destination(q, j) = name
    /\ \/ content = Whole(q, j)
       \/ inv[q].pc = "write" /\ inv[q].k = j /\ content = Partial(q, j)

\* An output is still to be renamed to this name.
Awaited(inv, name) ==
  \E q \in Invocation : \E j \in 1 .. Count(q) :
    j \notin inv[q].installed /\ Destination(q, j) = name

Arrived(inv, d, name) ==
  IF name \in DOMAIN d THEN MeantFor(inv, name, d[name]) ELSE Awaited(inv, name)

\* Whoever made a temporary file, it is meant for the output its name tells.
TempsMeant(inv, d) ==
  \A n \in DOMAIN d : n[1] = "tmp" => MeantFor(inv, Path(n[2]), d[n])

InPlaceOrAwaited(inv, d) ==
  \A p \in Invocation :
    /\ \A k \in inv[p].installed : Arrived(inv, d, Destination(p, k))
    /\ inv[p].committed => inv[p].installed = 1 .. Count(p)

(***************************************************************************)
(* What invocations that run at the same time rely on, as long as each may *)
(* still succeed.  One may remove or install the temporary file of         *)
(* another, but that file was to go to the same name; one may move away    *)
(* what another has installed, but then it will put an output there.       *)
(***************************************************************************)
OverlapInv ==
  /\ TypeInv
  /\ (\A p \in Invocation : Surviving(invocation[p])) =>
       TempsMeant(invocation, directory) /\ InPlaceOrAwaited(invocation, directory)

\* Nothing else changes than the state of p and the directory.
Frame(p, inv, next) ==
  p \in Invocation /\ \A q \in Invocation \ {p} : next[q] = inv[q]

\* What the invariant looks at stays as it is, and no file is being written.
SameProgress(s, t) ==
  /\ t.installed = s.installed /\ t.committed = s.committed
  /\ s.pc # "write" /\ t.pc # "write"

\* The steps that leave a way to succeed.
Opens(p, s, t, d, e) ==
  /\ Added(d, e, Temporary(p, s.k, s.attempt), Partial(p, s.k))
  /\ s.pc = "open" /\ t.pc = "write" /\ t.k = s.k /\ s.k \in 1 .. Count(p)
  /\ s.installed = {} /\ t.installed = {} /\ ~ t.committed
Closes(p, s, t, d, e) ==
  /\ Closed(d, e, Partial(p, s.k), Whole(p, s.k))
  /\ s.pc = "write" /\ t.pc # "write"
  /\ s.installed = {} /\ t.installed = {} /\ ~ t.committed
MovesAway(p, s, t, d, e) ==
  /\ SameProgress(s, t) /\ ~ t.committed
  /\ s.k \in 1 .. Count(p) /\ s.installed = {}
  /\ Moved(d, e, Destination(p, s.k), Old(p, s, s.k))
PutsInPlace(p, s, t, d, e) ==
  /\ Moved(d, e, Temp(p, s, s.k), Destination(p, s.k))
  /\ s.k \in 1 .. Count(p) /\ t.installed = s.installed \union {s.k}
  /\ s.pc # "write" /\ t.pc # "write" /\ ~ t.committed
Commits(p, s, t, d, e) ==
  /\ e = d /\ t.committed
  /\ s.installed = 1 .. Count(p) /\ t.installed = s.installed
  /\ s.pc # "write" /\ t.pc # "write"
Cleans(p, s, t, d, e) ==
  /\ SameProgress(s, t)
  /\ \E n : Dropped(d, e, n) /\ n[1] # "path"

GoesOn(p, s, t, d, e) ==
  \/ SameProgress(s, t) /\ e = d
  \/ Opens(p, s, t, d, e) \/ Closes(p, s, t, d, e) \/ MovesAway(p, s, t, d, e)
  \/ PutsInPlace(p, s, t, d, e) \/ Commits(p, s, t, d, e) \/ Cleans(p, s, t, d, e)

(***************************************************************************)
(* A step after which an invocation may still succeed is one of those, and *)
(* it might have succeeded before.                                         *)
(***************************************************************************)
LEMMA DoomedStays ==
  ASSUME NEW p \in Invocation, NEW s, NEW t, Placed(p, s), NEW n, NEW others \in {{}, {"tidy"}},
         ~ s.committed,
         \/ Restores(s, t, n, others)
         \/ \E k : \E label \in {"discard", "failed", "unlink", "withdraw", "putback"} :
              Goes(s, t, label, k, others)
  PROVE  ~ Surviving(t)
<1>1. CASE Restores(s, t, n, others)
  <2>1. t.committed = s.committed /\ t.pc \in {"discard", "withdraw"}
    BY <1>1, GoesTidy DEF Restores
  <2> QED BY <2>1 DEF Surviving
<1>2. CASE \E k : \E label \in {"discard", "failed", "unlink", "withdraw", "putback"} :
             Goes(s, t, label, k, others)
  <2>1. PICK k : \E label \in {"discard", "failed", "unlink", "withdraw", "putback"} :
          Goes(s, t, label, k, others)
    BY <1>2
  <2>2. PICK label \in {"discard", "failed", "unlink", "withdraw", "putback"} :
          Goes(s, t, label, k, others)
    BY <2>1
  <2>3. t.committed = s.committed /\ t.pc = label
    BY <2>2, GoesTidy
  <2> QED BY <2>2, <2>3 DEF Surviving
<1> QED BY <1>1, <1>2

LEMMA SurvivingStep ==
  ASSUME TypeInv, NEW p \in Invocation, Surviving(invocation'[p]),
         \/ Begin(p) \/ Crash(p) \/ Open(p) \/ Write(p) \/ Unlink(p)
         \/ Reserve(p) \/ Probe(p) \/ Move(p) \/ Install(p) \/ WriteStream(p)
         \/ RemoveBackup(p) \/ Withdraw(p) \/ PutBack(p) \/ Discard(p) \/ End(p)
  PROVE  /\ Surviving(invocation[p]) /\ Frame(p, invocation, invocation')
         /\ GoesOn(p, invocation[p], invocation'[p], directory, directory')
<1> DEFINE s == invocation[p]
           t == invocation'[p]
           d == directory
           e == directory'
<1>1. Placed(p, s) /\ Placed(p, t) /\ Alters(p) /\ Count(p) \in Nat
  BY StepPlaced, CountFacts DEF TypeInv
<1>3. \A q \in Invocation \ {p} : invocation'[q] = invocation[q]
  BY <1>1 DEF Alters
<1>4. s.pc \in {"idle", "open", "write", "unlink", "reserve", "probe", "move", "install", "stream",
                "withdraw", "putback"} => ~ s.committed
  BY <1>1 DEF Placed
<1>5. s.committed <=> s.pc \in {"unbackup", "done"} \/ (s.committed /\ s.pc \in {"discard", "crashed"})
  BY <1>1 DEF Placed
<1> HIDE DEF s, t, d, e
<1>6. CASE Begin(p)
  <2>1. /\ e = d /\ s.pc = "idle"
        /\ \/ Goes(s, t, IF 1 <= Count(p) THEN "open" ELSE "stream", 1, {"before"})
           \/ Goes(s, t, "failed", s.k, {"before"})
    BY <1>6, BeginOutcome DEF s, t, d, e
  <2>2. /\ t.installed = s.installed /\ t.committed = s.committed
        /\ t.pc \in {"open", "stream", "failed"}
    BY <2>1, FieldsKept DEF Goes
  <2>3. SameProgress(s, t) /\ Surviving(s)
    BY <2>1, <2>2 DEF SameProgress, Surviving
  <2> QED BY <1>3, <2>1, <2>2, <2>3 DEF GoesOn, Frame, s, t, d, e
<1>7. CASE Crash(p)
  <2>1. t.pc = "crashed"
    BY <1>7, CrashOutcome DEF s, t, Goes
  <2> QED BY <2>1 DEF Surviving, t
<1>8. CASE Open(p)
  <2>1. /\ s.pc = "open"
        /\ \/ e = d /\ Keeps(s, t, {"attempt"})
           \/ Goes(s, t, "discard", 1, {})
           \/ /\ ~ Exists(Temporary(p, s.k, s.attempt))
              /\ Create(Temporary(p, s.k, s.attempt), Partial(p, s.k))
              /\ Goes(s, t, "write", s.k, {"sequence"}) /\ Chooses(s, t)
    BY <1>8, OpenOutcome DEF s, t, d, e
  <2>2. Surviving(s) /\ ~ s.committed
    BY <1>4, <2>1 DEF Surviving
  <2>3. CASE e = d /\ Keeps(s, t, {"attempt"})
    <3>1. SameProgress(s, t)
      BY <2>1, <2>3, FieldsKept DEF SameProgress
    <3> QED BY <1>3, <2>2, <2>3, <3>1 DEF GoesOn, Frame, s, t, d, e
  <2>4. CASE Goes(s, t, "discard", 1, {})
    BY <1>1, <2>2, <2>4, DoomedStays DEF t
  <2>5. CASE /\ ~ Exists(Temporary(p, s.k, s.attempt))
             /\ Create(Temporary(p, s.k, s.attempt), Partial(p, s.k))
             /\ Goes(s, t, "write", s.k, {"sequence"}) /\ Chooses(s, t)
    <3>1. s.k \in 1 .. Count(p) /\ s.installed = {}
      BY <1>1, <2>1 DEF Placed
    <3>2. t.pc = "write" /\ t.k = s.k /\ Keeps(s, t, {"pc", "k", "sequence"})
      BY <2>5 DEF Goes
    <3>3. t.installed = s.installed /\ t.committed = s.committed
      BY <3>2, FieldsKept
    <3>4. Added(d, e, Temporary(p, s.k, s.attempt), Partial(p, s.k))
      BY <2>5, Effects DEF d, e
    <3>5. Opens(p, s, t, d, e)
      BY <2>1, <2>2, <3>1, <3>2, <3>3, <3>4 DEF Opens
    <3> QED BY <1>3, <2>2, <3>5 DEF GoesOn, Frame, s, t, d, e
  <2> QED BY <2>1, <2>3, <2>4, <2>5
<1>9. CASE Write(p)
  <2>1. /\ s.pc = "write"
        /\ \/ /\ e = [n \in DOMAIN d |-> IF d[n] = Partial(p, s.k) THEN Whole(p, s.k) ELSE d[n]]
              /\ Loops(p, s, t, "open", "reserve", {"attempt", "staged"})
              /\ t.staged = s.k
           \/ Goes(s, t, "unlink", s.k, {})
    BY <1>9, WriteOutcome DEF s, t, d, e
  <2>2. Surviving(s) /\ ~ s.committed
    BY <1>4, <2>1 DEF Surviving
  <2>3. CASE Goes(s, t, "unlink", s.k, {})
    BY <1>1, <2>2, <2>3, DoomedStays DEF t
  <2>4. CASE /\ e = [n \in DOMAIN d |-> IF d[n] = Partial(p, s.k) THEN Whole(p, s.k) ELSE d[n]]
             /\ Loops(p, s, t, "open", "reserve", {"attempt", "staged"})
             /\ t.staged = s.k
    <3>1. s.installed = {}
      BY <1>1, <2>1 DEF Placed
    <3>2. t.pc # "write" /\ Keeps(s, t, {"pc", "k", "attempt", "staged"})
      BY <2>4 DEF Loops, Goes
    <3>3. t.installed = s.installed /\ t.committed = s.committed
      BY <3>2, FieldsKept
    <3>4. Closed(d, e, Partial(p, s.k), Whole(p, s.k))
      BY <2>4, Effects DEF d, e
    <3>5. Closes(p, s, t, d, e)
      BY <2>1, <2>2, <2>4, <3>1, <3>2, <3>3, <3>4 DEF Closes
    <3> QED BY <1>3, <2>2, <3>5 DEF GoesOn, Frame, s, t, d, e
  <2> QED BY <2>1, <2>3, <2>4
<1>10. CASE Unlink(p)
  <2>1. s.pc = "unlink" /\ \E others \in {{}, {"tidy"}} : Goes(s, t, "discard", 1, others)
    BY <1>10, UnlinkOutcome DEF s, t
  <2> QED BY <1>1, <1>4, <2>1, DoomedStays DEF t
<1>11. CASE Reserve(p)
  <2>1. /\ s.pc = "reserve" /\ e = d
        /\ \/ Goes(s, t, "probe", s.k, {"reserved"})
           \/ Loops(p, s, t, "reserve", "install", {})
           \/ Restores(s, t, s.k - 1, {})
    BY <1>11, ReserveOutcome DEF s, t, d, e
  <2>2. Surviving(s) /\ ~ s.committed
    BY <1>4, <2>1 DEF Surviving
  <2>3. CASE Restores(s, t, s.k - 1, {})
    BY <1>1, <2>2, <2>3, DoomedStays DEF t
  <2>4. CASE \/ Goes(s, t, "probe", s.k, {"reserved"})
             \/ Loops(p, s, t, "reserve", "install", {})
    <3>1. t.pc # "write" /\ (Keeps(s, t, {"pc", "k", "reserved"}) \/ Keeps(s, t, {"pc", "k"}))
      BY <2>4 DEF Loops, Goes
    <3>2. SameProgress(s, t)
      BY <2>1, <3>1, FieldsKept DEF SameProgress
    <3> QED BY <1>3, <2>1, <2>2, <3>2 DEF GoesOn, Frame, s, t, d, e
  <2> QED BY <2>1, <2>3, <2>4
<1>12. CASE Probe(p)
  <2>1. /\ s.pc = "probe" /\ e = d
        /\ Goes(s, t, "move", s.k, {}) \/ Restores(s, t, s.k - 1, {})
    BY <1>12, ProbeOutcome DEF s, t, d, e
  <2>2. Surviving(s) /\ ~ s.committed
    BY <1>4, <2>1 DEF Surviving
  <2>3. CASE Restores(s, t, s.k - 1, {})
    BY <1>1, <2>2, <2>3, DoomedStays DEF t
  <2>4. CASE Goes(s, t, "move", s.k, {})
    <3>1. SameProgress(s, t)
      BY <2>1, <2>4, GoesPlain DEF SameProgress
    <3> QED BY <1>3, <2>1, <2>2, <3>1 DEF GoesOn, Frame, s, t, d, e
  <2> QED BY <2>1, <2>3, <2>4
<1>13. CASE Move(p)
  <2>1. /\ s.pc = "move"
        /\ \/ /\ Rename(Destination(p, s.k), Old(p, s, s.k))
              /\ Loops(p, s, t, "reserve", "install", {"original"})
           \/ Restores(s, t, s.k - 1, {})
    BY <1>13, MoveOutcome DEF s, t
  <2>2. Surviving(s) /\ ~ s.committed
    BY <1>4, <2>1 DEF Surviving
  <2>3. CASE Restores(s, t, s.k - 1, {})
    BY <1>1, <2>2, <2>3, DoomedStays DEF t
  <2>4. CASE /\ Rename(Destination(p, s.k), Old(p, s, s.k))
             /\ Loops(p, s, t, "reserve", "install", {"original"})
    <3>1. s.k \in 1 .. Count(p) /\ s.installed = {}
      BY <1>1, <2>1 DEF Placed
    <3>2. t.pc # "write" /\ Keeps(s, t, {"pc", "k", "original"})
      BY <2>4 DEF Loops, Goes
    <3>3. SameProgress(s, t)
      BY <2>1, <3>2, FieldsKept DEF SameProgress
    <3>4. Moved(d, e, Destination(p, s.k), Old(p, s, s.k))
      BY <2>4, Effects DEF d, e
    <3> QED BY <1>3, <2>2, <3>1, <3>3, <3>4 DEF GoesOn, MovesAway, SameProgress, Frame, s, t, d, e
  <2> QED BY <2>1, <2>3, <2>4
<1>14. CASE Install(p)
  <2>1. /\ s.pc = "install"
        /\ \/ /\ Rename(Temp(p, s, s.k), Destination(p, s.k))
              /\ Loops(p, s, t, "install", "stream", {"installed"})
              /\ t.installed = s.installed \union {s.k}
           \/ Restores(s, t, Count(p), {})
    BY <1>14, InstallOutcome DEF s, t
  <2>2. Surviving(s) /\ ~ s.committed
    BY <1>4, <2>1 DEF Surviving
  <2>3. CASE Restores(s, t, Count(p), {})
    BY <1>1, <2>2, <2>3, DoomedStays DEF t
  <2>4. CASE /\ Rename(Temp(p, s, s.k), Destination(p, s.k))
             /\ Loops(p, s, t, "install", "stream", {"installed"})
             /\ t.installed = s.installed \union {s.k}
    <3>1. s.k \in 1 .. Count(p)
      BY <1>1, <2>1 DEF Placed
    <3>2. t.pc # "write" /\ Keeps(s, t, {"pc", "k", "installed"})
      BY <2>4 DEF Loops, Goes
    <3>3. t.committed = s.committed
      BY <3>2, FieldsKept
    <3>4. Moved(d, e, Temp(p, s, s.k), Destination(p, s.k))
      BY <2>4, Effects DEF d, e
    <3>5. PutsInPlace(p, s, t, d, e)
      BY <2>1, <2>2, <2>4, <3>1, <3>2, <3>3, <3>4 DEF PutsInPlace
    <3> QED BY <1>3, <2>2, <3>5 DEF GoesOn, Frame, s, t, d, e
  <2> QED BY <2>1, <2>3, <2>4
<1>15. CASE WriteStream(p)
  <2>1. /\ s.pc = "stream" /\ e = d
        /\ \/ /\ Goes(s, t, IF 1 <= Count(p) THEN "unbackup" ELSE "discard", 1, {"committed"})
              /\ t.committed = TRUE
           \/ Restores(s, t, Count(p), {})
    BY <1>15, StreamOutcome DEF s, t, d, e
  <2>2. Surviving(s) /\ ~ s.committed
    BY <1>4, <2>1 DEF Surviving
  <2>3. CASE Restores(s, t, Count(p), {})
    BY <1>1, <2>2, <2>3, DoomedStays DEF t
  <2>4. CASE /\ Goes(s, t, IF 1 <= Count(p) THEN "unbackup" ELSE "discard", 1, {"committed"})
             /\ t.committed = TRUE
    <3>1. t.pc \in {"unbackup", "discard"} /\ Keeps(s, t, {"pc", "k", "committed"})
      BY <2>4 DEF Goes
    <3>2. t.installed = s.installed
      BY <3>1, FieldsKept
    <3>3. s.installed = 1 .. Count(p)
      BY <1>1, <2>1 DEF Placed
    <3>4. Commits(p, s, t, d, e)
      BY <2>1, <2>4, <3>1, <3>2, <3>3 DEF Commits
    <3> QED BY <1>3, <2>2, <3>4 DEF GoesOn, Frame, s, t, d, e
  <2> QED BY <2>1, <2>3, <2>4
<1>16. CASE RemoveBackup(p)
  <2>1. /\ s.pc = "unbackup" /\ (e = d \/ Remove(Old(p, s, s.k)))
        /\ \E others \in {{}, {"tidy"}} : Loops(p, s, t, "unbackup", "discard", others)
    BY <1>16, RemoveBackupOutcome DEF s, t, d, e
  <2>2. Surviving(s) /\ s.committed
    BY <1>5, <2>1 DEF Surviving
  <2>3. PICK others \in {{}, {"tidy"}} : Loops(p, s, t, "unbackup", "discard", others)
    BY <2>1
  <2>4. SameProgress(s, t)
    BY <2>1, <2>3, GoesTidy DEF Loops, SameProgress
  <2>5. e = d \/ (Dropped(d, e, Old(p, s, s.k)) /\ Old(p, s, s.k)[1] # "path")
    BY <2>1, Effects, NameFacts DEF Old, d, e
  <2>6. e = d \/ Cleans(p, s, t, d, e)
    BY <2>4, <2>5 DEF Cleans
  <2> QED BY <1>3, <2>2, <2>4, <2>6 DEF GoesOn, Frame, s, t, d, e
<1>17. CASE Withdraw(p)
  <2>1. s.pc = "withdraw" /\ \E others \in {{}, {"tidy"}} : Goes(s, t, "putback", s.k, others)
    BY <1>17, WithdrawOutcome DEF s, t
  <2> QED BY <1>1, <1>4, <2>1, DoomedStays DEF t
<1>18. CASE PutBack(p)
  <2>1. s.pc = "putback" /\ \E others \in {{}, {"tidy"}} : Restores(s, t, s.k - 1, others)
    BY <1>18, PutBackOutcome DEF s, t
  <2> QED BY <1>1, <1>4, <2>1, DoomedStays DEF t
<1>19. CASE Discard(p)
  <2>1. /\ s.pc = "discard" /\ (e = d \/ Remove(Temp(p, s, s.k)))
        /\ \E others \in {{}, {"tidy"}} : Goes(s, t, "discard", s.k + 1, others)
    BY <1>19, DiscardOutcome DEF s, t, d, e
  <2>2. PICK others \in {{}, {"tidy"}} : Goes(s, t, "discard", s.k + 1, others)
    BY <2>1
  <2>3. s.committed
    BY <1>1, <2>2, DoomedStays DEF t
  <2>4. SameProgress(s, t) /\ Surviving(s)
    <3>1. t.pc = "discard" /\ s.pc = "discard"
      BY <2>1, <2>2, GoesTidy
    <3>2. Surviving(s)
      BY <2>3, <3>1 DEF Surviving
    <3> QED BY <2>2, <3>1, <3>2, GoesTidy DEF SameProgress
  <2>5. e = d \/ (Dropped(d, e, Temp(p, s, s.k)) /\ Temp(p, s, s.k)[1] # "path")
    BY <2>1, Effects, NameFacts DEF Temp, d, e
  <2>6. e = d \/ Cleans(p, s, t, d, e)
    BY <2>4, <2>5 DEF Cleans
  <2> QED BY <1>3, <2>4, <2>6 DEF GoesOn, Frame, s, t, d, e
<1>20. CASE End(p)
  <2>1. /\ s.pc = "discard" /\ e = d
        /\ Goes(s, t, IF s.committed THEN "done" ELSE "failed", s.k, {})
    BY <1>20, EndOutcome DEF s, t, d, e
  <2>2. s.committed
    BY <1>1, <2>1, DoomedStays DEF t
  <2>3. SameProgress(s, t) /\ Surviving(s)
    <3>1. t.pc = "done" /\ s.pc = "discard"
      BY <2>1, <2>2, GoesPlain
    <3>2. Surviving(s)
      BY <2>2, <3>1 DEF Surviving
    <3> QED BY <2>1, <3>1, <3>2, GoesPlain DEF SameProgress
  <2> QED BY <1>3, <2>1, <2>3 DEF GoesOn, Frame, s, t, d, e
<1> QED BY <1>6, <1>7, <1>8, <1>9, <1>10, <1>11, <1>12, <1>13, <1>14, <1>15, <1>16, <1>17,
           <1>18, <1>19, <1>20

(***************************************************************************)
(* The names of outputs, temporary files and backups differ; the name of a *)
(* temporary file tells the output it is for.                              *)
(***************************************************************************)
LEMMA NamesTell ==
  ASSUME NEW p, NEW s, NEW k, NEW a
  PROVE  /\ Destination(p, k)[1] = "path" /\ Old(p, s, k)[1] = "old"
         /\ Temp(p, s, k)[1] = "tmp" /\ Path(Temp(p, s, k)[2]) = Destination(p, k)
         /\ Temporary(p, k, a)[1] = "tmp" /\ Path(Temporary(p, k, a)[2]) = Destination(p, k)
<1>1. Destination(p, k)[1] = "path" /\ Old(p, s, k)[1] = "old"
  BY NameFacts, DestinationFacts DEF Old
<1>2. \A b : Temporary(p, k, b)[1] = "tmp" /\ Path(Temporary(p, k, b)[2]) = Destination(p, k)
  BY DEF Temporary, Destination, Path
<1> QED BY <1>1, <1>2 DEF Temp

\* A name is used as before, for a content meant for what it was meant for.
Faithful(inv, next, d, e, name) ==
  /\ name \in DOMAIN e <=> name \in DOMAIN d
  /\ \A to : name \in DOMAIN d /\ MeantFor(inv, to, d[name]) => MeantFor(next, to, e[name])

(***************************************************************************)
(* A step of an invocation that is not writing leaves alone what is meant. *)
(***************************************************************************)
LEMMA MeantKept ==
  ASSUME NEW p, NEW inv, NEW next, Frame(p, inv, next), inv[p].pc # "write",
         NEW name, NEW content, MeantFor(inv, name, content)
  PROVE  MeantFor(next, name, content)
BY DEF Frame, MeantFor

(***************************************************************************)
(* A step that installs nothing and leaves output names alone.             *)
(***************************************************************************)
LEMMA PlacesKept ==
  ASSUME NEW p, NEW inv, NEW next, NEW d, NEW e, Frame(p, inv, next),
         InPlaceOrAwaited(inv, d), next[p].installed = inv[p].installed,
         next[p].committed => next[p].installed = 1 .. Count(p),
         \A n : n[1] = "path" => Faithful(inv, next, d, e, n)
  PROVE  InPlaceOrAwaited(next, e)
<1> SUFFICES ASSUME NEW r \in Invocation
             PROVE  /\ \A k \in next[r].installed : Arrived(next, e, Destination(r, k))
                    /\ next[r].committed => next[r].installed = 1 .. Count(r)
  BY DEF InPlaceOrAwaited
<1>1. \A q \in Invocation : next[q].installed = inv[q].installed
  BY DEF Frame
<1>2. ASSUME NEW k \in next[r].installed PROVE Arrived(next, e, Destination(r, k))
  <2>1. PICK name : name = Destination(r, k) /\ name[1] = "path"
    BY DestinationFacts
  <2>2. Arrived(inv, d, name)
    BY <1>1, <1>2, <2>1 DEF InPlaceOrAwaited
  <2>3. Awaited(inv, name) => Awaited(next, name)
    BY <1>1 DEF Awaited
  <2>4. Faithful(inv, next, d, e, name)
    BY <2>1
  <2>5. Arrived(next, e, name)
    BY <2>2, <2>3, <2>4 DEF Arrived, Faithful
  <2> QED BY <2>1, <2>5
<1>3. next[r].committed => next[r].installed = 1 .. Count(r)
  <2>1. CASE r = p
    BY <2>1
  <2>2. CASE r # p
    BY <2>2 DEF Frame, InPlaceOrAwaited
  <2> QED BY <2>1, <2>2
<1> QED BY <1>2, <1>3

\* The premises, and what is to be shown, of the lemmas about steps.
Before(p, inv, next, d) ==
  Frame(p, inv, next) /\ TempsMeant(inv, d) /\ InPlaceOrAwaited(inv, d)
After(next, e) == TempsMeant(next, e) /\ InPlaceOrAwaited(next, e)

(***************************************************************************)
(* The directory stays as it is.                                           *)
(***************************************************************************)
LEMMA StayStep ==
  ASSUME NEW p, NEW inv, NEW next, NEW d, Before(p, inv, next, d),
         next[p].installed = inv[p].installed, inv[p].pc # "write",
         next[p].committed => next[p].installed = 1 .. Count(p)
  PROVE  After(next, d)
<1>1. Frame(p, inv, next) /\ TempsMeant(inv, d) /\ InPlaceOrAwaited(inv, d)
  BY DEF Before
<1>2. \A n, c : MeantFor(inv, n, c) => MeantFor(next, n, c)
  BY <1>1, MeantKept
<1>3. TempsMeant(next, d)
  BY <1>1, <1>2 DEF TempsMeant
<1>4. \A n : Faithful(inv, next, d, d, n)
  BY <1>2 DEF Faithful
<1>5. InPlaceOrAwaited(next, d)
  BY <1>1, <1>4, PlacesKept
<1> QED BY <1>3, <1>5 DEF After

(***************************************************************************)
(* After success a name that is not an output's is removed.                *)
(***************************************************************************)
LEMMA CleanStep ==
  ASSUME NEW p, NEW inv, NEW next, NEW d, NEW e, Before(p, inv, next, d),
         Cleans(p, inv[p], next[p], d, e)
  PROVE  After(next, e)
<1>1. Frame(p, inv, next) /\ TempsMeant(inv, d) /\ InPlaceOrAwaited(inv, d) /\ p \in Invocation
  BY DEF Before, Frame
<1>2. /\ inv[p].pc # "write" /\ next[p].installed = inv[p].installed
      /\ next[p].committed => next[p].installed = 1 .. Count(p)
  BY <1>1 DEF Cleans, SameProgress, InPlaceOrAwaited
<1>3. PICK gone : Dropped(d, e, gone) /\ gone[1] # "path"
  BY DEF Cleans
<1>4. \A n, c : MeantFor(inv, n, c) => MeantFor(next, n, c)
  BY <1>1, <1>2, MeantKept
<1>5. TempsMeant(next, e)
  BY <1>1, <1>3, <1>4 DEF TempsMeant, Dropped
<1>6. \A n : n[1] = "path" => Faithful(inv, next, d, e, n)
  BY <1>3, <1>4 DEF Faithful, Dropped
<1>7. InPlaceOrAwaited(next, e)
  BY <1>1, <1>2, <1>6, PlacesKept
<1> QED BY <1>5, <1>7 DEF After

(***************************************************************************)
(* A temporary file is opened, for the output its name tells.              *)
(***************************************************************************)
LEMMA OpenStep ==
  ASSUME NEW p, NEW inv, NEW next, NEW d, NEW e, Before(p, inv, next, d),
         Opens(p, inv[p], next[p], d, e)
  PROVE  After(next, e)
<1>1. Frame(p, inv, next) /\ TempsMeant(inv, d) /\ InPlaceOrAwaited(inv, d) /\ p \in Invocation
  BY DEF Before, Frame
<1>2. PICK k, new : k = inv[p].k /\ new = Temporary(p, k, inv[p].attempt)
  OBVIOUS
<1>3. /\ Added(d, e, new, Partial(p, k)) /\ k \in 1 .. Count(p)
      /\ inv[p].pc # "write" /\ next[p].pc = "write" /\ next[p].k = k
      /\ next[p].installed = inv[p].installed /\ ~ next[p].committed
  BY <1>2 DEF Opens
<1>4. new[1] = "tmp" /\ Path(new[2]) = Destination(p, k)
  BY <1>2, NamesTell
<1>5. \A n, c : MeantFor(inv, n, c) => MeantFor(next, n, c)
  BY <1>1, <1>3, MeantKept
<1>6. MeantFor(next, Path(new[2]), Partial(p, k))
  BY <1>1, <1>3, <1>4 DEF MeantFor
<1>7. TempsMeant(next, e)
  BY <1>1, <1>3, <1>5, <1>6 DEF TempsMeant, Added
<1>8. \A n : n[1] = "path" => Faithful(inv, next, d, e, n)
  BY <1>3, <1>4, <1>5 DEF Faithful, Added
<1>9. InPlaceOrAwaited(next, e)
  BY <1>1, <1>3, <1>8, PlacesKept
<1> QED BY <1>7, <1>9 DEF After

(***************************************************************************)
(* A file is closed: what was partial is whole, under whatever name.       *)
(***************************************************************************)
LEMMA CloseStep ==
  ASSUME NEW p, NEW inv, NEW next, NEW d, NEW e, Before(p, inv, next, d),
         Closes(p, inv[p], next[p], d, e)
  PROVE  After(next, e)
<1>1. Frame(p, inv, next) /\ TempsMeant(inv, d) /\ InPlaceOrAwaited(inv, d) /\ p \in Invocation
  BY DEF Before, Frame
<1>2. PICK h : h = inv[p].k
  OBVIOUS
<1>3. /\ Closed(d, e, Partial(p, h), Whole(p, h))
      /\ next[p].installed = inv[p].installed /\ ~ next[p].committed
  BY <1>2 DEF Closes
<1>4. ASSUME NEW n \in DOMAIN d, NEW to, MeantFor(inv, to, d[n])
      PROVE  MeantFor(next, to, e[n])
  <2> DEFINE Meant(q, j) ==
               /\ Destination(q, j) = to
               /\ \/ d[n] = Whole(q, j)
                  \/ inv[q].pc = "write" /\ inv[q].k = j /\ d[n] = Partial(q, j)
  <2>0. PICK q \in Invocation : \E j \in 1 .. Count(q) : Meant(q, j)
    BY <1>4 DEF MeantFor
  <2>1. PICK j \in 1 .. Count(q) : Meant(q, j)
    BY <2>0
  <2>2. CASE d[n] = Partial(p, h)
    <3>1. q = p /\ j = h
      BY <2>1, <2>2 DEF Whole, Partial
    <3>2. e[n] = Whole(q, j)
      BY <1>3, <2>2, <3>1 DEF Closed
    <3> QED BY <2>1, <3>2 DEF MeantFor
  <2>3. CASE d[n] # Partial(p, h)
    <3>1. e[n] = d[n]
      BY <1>3, <2>3 DEF Closed
    <3>2. d[n] = Whole(q, j) \/ q # p
      BY <1>2, <2>1, <2>3
    <3>3. q # p => next[q] = inv[q]
      BY <1>1 DEF Frame
    <3> QED BY <2>1, <3>1, <3>2, <3>3 DEF MeantFor
  <2> QED BY <2>2, <2>3
<1>5. DOMAIN e = DOMAIN d
  BY <1>3 DEF Closed
<1>6. TempsMeant(next, e)
  BY <1>1, <1>4, <1>5 DEF TempsMeant
<1>7. \A n : n[1] = "path" => Faithful(inv, next, d, e, n)
  BY <1>4, <1>5 DEF Faithful
<1>8. InPlaceOrAwaited(next, e)
  BY <1>1, <1>3, <1>7, PlacesKept
<1> QED BY <1>6, <1>8 DEF After

(***************************************************************************)
(* The file that an output replaces is moved away: the output is awaited.  *)
(***************************************************************************)
LEMMA MoveStep ==
  ASSUME NEW p, NEW inv, NEW next, NEW d, NEW e, Before(p, inv, next, d),
         MovesAway(p, inv[p], next[p], d, e)
  PROVE  After(next, e)
<1>1. Frame(p, inv, next) /\ TempsMeant(inv, d) /\ InPlaceOrAwaited(inv, d) /\ p \in Invocation
  BY DEF Before, Frame
<1>2. PICK k, from, to : k = inv[p].k /\ from = Destination(p, k) /\ to = Old(p, inv[p], k)
  OBVIOUS
<1>3. /\ Moved(d, e, from, to) /\ k \in 1 .. Count(p)
      /\ inv[p].pc # "write" /\ next[p].installed = inv[p].installed
      /\ next[p].installed = {} /\ ~ next[p].committed
  BY <1>2 DEF MovesAway, SameProgress
<1>4. from[1] = "path" /\ to[1] = "old"
  BY <1>2, NamesTell
<1>5. \A n, c : MeantFor(inv, n, c) => MeantFor(next, n, c)
  BY <1>1, <1>3, MeantKept
<1>6. TempsMeant(next, e)
  BY <1>1, <1>3, <1>4, <1>5 DEF TempsMeant, Moved
<1>7. \A q \in Invocation : /\ next[q].installed = inv[q].installed
                            /\ next[q].committed => next[q].installed = 1 .. Count(q)
  BY <1>1, <1>3 DEF Frame, InPlaceOrAwaited
<1>8. ASSUME NEW r \in Invocation, NEW j \in next[r].installed
      PROVE  Arrived(next, e, Destination(r, j))
  <2>1. PICK name : name = Destination(r, j) /\ name[1] = "path"
    BY DestinationFacts
  <2>2. CASE name = from
    <3>1. name \notin DOMAIN e
      BY <1>3, <1>4, <2>2 DEF Moved
    <3>2. Awaited(next, name)
      BY <1>1, <1>2, <1>3, <2>2 DEF Awaited
    <3> QED BY <2>1, <3>1, <3>2 DEF Arrived
  <2>3. CASE name # from
    <3>1. (name \in DOMAIN d <=> name \in DOMAIN e) /\ (name \in DOMAIN d => e[name] = d[name])
      BY <1>3, <1>4, <2>1, <2>3 DEF Moved
    <3>2. Arrived(inv, d, name)
      BY <1>1, <1>7, <1>8, <2>1 DEF InPlaceOrAwaited
    <3>3. Awaited(inv, name) => Awaited(next, name)
      BY <1>7 DEF Awaited
    <3>4. Arrived(next, e, name)
      BY <1>5, <3>1, <3>2, <3>3 DEF Arrived
    <3> QED BY <2>1, <3>4
  <2> QED BY <2>2, <2>3
<1> QED BY <1>6, <1>7, <1>8 DEF After, InPlaceOrAwaited

(***************************************************************************)
(* A file is renamed from a temporary name to the output that name tells,  *)
(* whoever made it; only this output ceases to be awaited.                 *)
(***************************************************************************)
LEMMA InstallStep ==
  ASSUME NEW p, NEW inv, NEW next, NEW d, NEW e, Before(p, inv, next, d),
         PutsInPlace(p, inv[p], next[p], d, e)
  PROVE  After(next, e)
<1>1. Frame(p, inv, next) /\ TempsMeant(inv, d) /\ InPlaceOrAwaited(inv, d) /\ p \in Invocation
  BY DEF Before, Frame
<1>2. PICK k, from, to : k = inv[p].k /\ from = Temp(p, inv[p], k) /\ to = Destination(p, k)
  OBVIOUS
<1>3. /\ Moved(d, e, from, to)
      /\ next[p].installed = inv[p].installed \union {k} /\ ~ next[p].committed
      /\ inv[p].pc # "write"
  BY <1>2 DEF PutsInPlace
<1>4. from[1] = "tmp" /\ Path(from[2]) = to /\ to[1] = "path"
  BY <1>2, NamesTell
<1>5. \A n, c : MeantFor(inv, n, c) => MeantFor(next, n, c)
  BY <1>1, <1>3, MeantKept
<1>6. TempsMeant(next, e)
  BY <1>1, <1>3, <1>4, <1>5 DEF TempsMeant, Moved
<1>7. to \in DOMAIN e /\ MeantFor(next, to, e[to])
  <2>1. MeantFor(inv, to, d[from])
    BY <1>1, <1>3, <1>4 DEF TempsMeant, Moved
  <2> QED BY <1>3, <1>5, <2>1 DEF Moved
<1>8. ASSUME NEW r \in Invocation, NEW j \in next[r].installed
      PROVE  Arrived(next, e, Destination(r, j))
  <2>1. PICK name : name = Destination(r, j) /\ name[1] = "path"
    BY DestinationFacts
  <2>2. CASE name = to
    BY <1>7, <2>1, <2>2 DEF Arrived
  <2>3. CASE name # to
    <3>1. (name \in DOMAIN d <=> name \in DOMAIN e) /\ (name \in DOMAIN d => e[name] = d[name])
      BY <1>3, <1>4, <2>1, <2>3 DEF Moved
    <3>2. j \in inv[r].installed
      <4>1. CASE r # p
        BY <1>1, <1>8, <4>1 DEF Frame
      <4>2. CASE r = p
        <5>1. j # k
          BY <1>2, <2>1, <2>3, <4>2
        <5> QED BY <1>3, <1>8, <4>2, <5>1
      <4> QED BY <4>1, <4>2
    <3>3. Arrived(inv, d, name)
      BY <1>1, <2>1, <3>2 DEF InPlaceOrAwaited
    <3>4. Awaited(inv, name) => Awaited(next, name)
      <4> SUFFICES ASSUME NEW q \in Invocation, NEW i \in 1 .. Count(q),
                          i \notin inv[q].installed, Destination(q, i) = name
                   PROVE  i \notin next[q].installed
        BY DEF Awaited
      <4>1. CASE q # p
        BY <1>1, <4>1 DEF Frame
      <4>2. CASE q = p
        <5>1. i # k
          BY <1>2, <2>3, <4>2
        <5> QED BY <1>3, <4>2, <5>1
      <4> QED BY <4>1, <4>2
    <3>5. Arrived(next, e, name)
      BY <1>5, <3>1, <3>3, <3>4 DEF Arrived
    <3> QED BY <2>1, <3>5
  <2> QED BY <2>2, <2>3
<1>9. \A q \in Invocation : next[q].committed => next[q].installed = 1 .. Count(q)
  BY <1>1, <1>3 DEF Frame, InPlaceOrAwaited
<1> QED BY <1>6, <1>8, <1>9 DEF After, InPlaceOrAwaited

(***************************************************************************)
(* Every step that leaves a way to succeed keeps what the others rely on.  *)
(***************************************************************************)
LEMMA GoesOnStep ==
  ASSUME NEW p, NEW inv, NEW next, NEW d, NEW e, Before(p, inv, next, d),
         GoesOn(p, inv[p], next[p], d, e)
  PROVE  After(next, e)
<1>1. inv[p].committed => inv[p].installed = 1 .. Count(p)
  BY DEF Before, Frame, InPlaceOrAwaited
<1>2. CASE SameProgress(inv[p], next[p]) /\ e = d
  BY <1>1, <1>2, StayStep DEF SameProgress
<1>3. CASE Commits(p, inv[p], next[p], d, e)
  BY <1>3, StayStep DEF Commits
<1> QED BY <1>2, <1>3, OpenStep, CloseStep, MoveStep, InstallStep, CleanStep DEF GoesOn

LEMMA OverlapInit == Init => OverlapInv
<1> SUFFICES ASSUME Init PROVE OverlapInv
  OBVIOUS
<1>1. InPlaceOrAwaited(invocation, directory)
  BY DEF Init, Idle, InPlaceOrAwaited
<1>2. TempsMeant(invocation, directory)
  BY DEF Init, Path, TempsMeant
<1> QED BY <1>1, <1>2, TypeInit DEF OverlapInv

LEMMA OverlapStep ==
  ASSUME OverlapInv, [Next]_vars
  PROVE  OverlapInv'
<1>1. TypeInv'
  BY TypeStep DEF OverlapInv
<1>2. CASE UNCHANGED vars
  BY <1>1, <1>2 DEF vars, OverlapInv
<1>3. CASE Next
  <2> SUFFICES ASSUME \A q \in Invocation : Surviving(invocation'[q])
               PROVE  After(invocation', directory')
    BY <1>1 DEF OverlapInv, After
  <2>1. PICK p \in Invocation :
          \/ Begin(p) \/ Crash(p) \/ Open(p) \/ Write(p) \/ Unlink(p)
          \/ Reserve(p) \/ Probe(p) \/ Move(p) \/ Install(p) \/ WriteStream(p)
          \/ RemoveBackup(p) \/ Withdraw(p) \/ PutBack(p) \/ Discard(p) \/ End(p)
    BY <1>3 DEF Next
  <2>2. /\ Surviving(invocation[p]) /\ Frame(p, invocation, invocation')
        /\ GoesOn(p, invocation[p], invocation'[p], directory, directory')
    BY <2>1, SurvivingStep DEF OverlapInv
  <2>3. \A q \in Invocation : Surviving(invocation[q])
    BY <2>2 DEF Frame
  <2>4. Before(p, invocation, invocation', directory)
    BY <2>2, <2>3 DEF OverlapInv, Before
  <2> QED BY <2>2, <2>4, GoesOnStep
<1> QED BY <1>2, <1>3

(***************************************************************************)
(* Where all is done nothing is awaited and nothing is being written.      *)
(***************************************************************************)
LEMMA AllDone == OverlapInv => SharedOutputsWhole
<1> SUFFICES ASSUME OverlapInv, \A p \in Invocation : At(p, "done"),
                    NEW p \in Invocation, NEW k \in 1 .. Count(p)
             PROVE  \E q \in Invocation : \E j \in 1 .. Count(q) :
                      /\ Destination(q, j) = Destination(p, k)
                      /\ Held(directory, p)[k] = Whole(q, j)
  BY DEF SharedOutputsWhole
<1>1. \A q \in Invocation : invocation[q].committed /\ invocation[q].pc = "done"
  BY DEF At, OverlapInv, TypeInv, Placed
<1>2. InPlaceOrAwaited(invocation, directory)
  BY <1>1 DEF OverlapInv, Surviving
<1>3. \A q \in Invocation : invocation[q].installed = 1 .. Count(q)
  BY <1>1, <1>2 DEF InPlaceOrAwaited
<1>4. PICK name : name = Destination(p, k)
  OBVIOUS
<1>5. Arrived(invocation, directory, name)
  BY <1>2, <1>3, <1>4 DEF InPlaceOrAwaited
<1>6. ~ Awaited(invocation, name)
  BY <1>3 DEF Awaited
<1>7. name \in DOMAIN directory /\ MeantFor(invocation, name, directory[name])
  BY <1>5, <1>6 DEF Arrived
<1>8. Held(directory, p)[k] = directory[name]
  BY <1>4, <1>7 DEF Held
<1> QED BY <1>1, <1>4, <1>7, <1>8 DEF MeantFor

(***************************************************************************)
(* Invocations that run at the same time leave, once all have succeeded, a *)
(* whole output meant for it under the name of every output: any number of *)
(* them, with any outputs, however their system calls interleave and fail. *)
(***************************************************************************)
THEOREM SharedOutputsAreWhole == Spec => []SharedOutputsWhole
<1>1. OverlapInv /\ [Next]_vars => OverlapInv'
  BY OverlapStep
<1> QED BY OverlapInit, <1>1, AllDone, PTL DEF Spec

-----------------------------------------------------------------------------
(* Two invocations at the same time: no output file is ever partial.       *)

\* An invocation that is still to put its temporary files in place.
Installing(s) == s.pc \in {"idle", "open", "write", "reserve", "probe", "move", "install"}

\* It opens no temporary file any more.
PastStaging(s) == s.pc \notin {"idle", "open", "write"}

\* Outputs that have a temporary name and not yet their own.
Unplaced(p, s) ==
  {j \in 1 .. Count(p) : /\ j \notin s.installed
                         /\ j <= s.staged \/ (s.pc = "write" /\ j = s.k)}

\* What p has written, or the part of an output it is writing.
Own(p, s, content) ==
  \/ \E i \in 1 .. Count(p) : content = Whole(p, i)
  \/ s.pc = "write" /\ content = Partial(p, s.k)

OwnStaged(p, s, d) ==
  \A k \in Unplaced(p, s) : Temp(p, s, k) \in DOMAIN d => Own(p, s, d[Temp(p, s, k)])

\* A temporary name that is free again, or was free before another output
\* of p took it.
Contested(p, s, d) ==
  \E k \in Unplaced(p, s) :
    \/ Temp(p, s, k) \notin DOMAIN d
    \/ \E j \in Unplaced(p, s) : j # k /\ Temp(p, s, j) = Temp(p, s, k)

Unrivalled(p, inv) == \A q \in Invocation : q # p => PastStaging(inv[q])

Waits(p, inv, d) ==
  Installing(inv[p]) => /\ OwnStaged(p, inv[p], d)
                        /\ Contested(p, inv[p], d) => Unrivalled(p, inv)

PartialsStaged(d) == \A n \in DOMAIN d : d[n][1] = "partial" => n[1] = "tmp"

(***************************************************************************)
(* What two invocations that run at the same time rely on, whether or not  *)
(* they will succeed: a partial output is under a temporary name, and      *)
(* under the temporary names an invocation is to install from there are    *)
(* its own files.  One removes another's temporary file only when it opens *)
(* none any more, so the name it frees is not taken by a third file.       *)
(***************************************************************************)
PairInv ==
  /\ TypeInv /\ PartialsStaged(directory)
  /\ \A p \in Invocation : Waits(p, invocation, directory)

\* There are at most two invocations.
Pair == \A p, q, r \in Invocation : p = q \/ q = r \/ p = r

\* Temporary names are used as they were, and nothing partial gets another.
SameTemps(d, e) ==
  \A n : n[1] = "tmp" => /\ n \in DOMAIN d <=> n \in DOMAIN e
                         /\ n \in DOMAIN d => e[n] = d[n]
Tame(d, e) == SameTemps(d, e) /\ (PartialsStaged(d) => PartialsStaged(e))

\* The steps of an invocation, by what they mean to the other one.
Quiet(s, t, d, e) ==
  /\ Tame(d, e)
  /\ Installing(t) => /\ Installing(s) /\ s.pc # "write" /\ t.pc # "write"
                      /\ t.sequence = s.sequence /\ t.staged = s.staged
                      /\ t.installed = s.installed
Frees(s, t, d, e) == ~ Installing(t) /\ \E n : Dropped(d, e, n)
Starts(p, s, t, d, e) ==
  /\ Added(d, e, Temp(p, t, s.k), Partial(p, s.k))
  /\ s.pc = "open" /\ t.pc = "write" /\ t.k = s.k
  /\ s.k \in 1 .. Count(p) /\ s.staged = s.k - 1 /\ t.staged = s.staged
  /\ \A j \in 1 .. s.k - 1 : t.sequence[j] = s.sequence[j]
  /\ s.installed = {} /\ t.installed = {}
Completes(p, s, t, d, e) ==
  /\ Closed(d, e, Partial(p, s.k), Whole(p, s.k))
  /\ s.pc = "write" /\ t.pc # "write"
  /\ s.k \in 1 .. Count(p) /\ s.staged = s.k - 1 /\ t.staged = s.k
  /\ t.sequence = s.sequence /\ s.installed = {} /\ t.installed = {}
Places(p, s, t, d, e) ==
  /\ Moved(d, e, Temp(p, s, s.k), Destination(p, s.k))
  /\ s.pc = "install" /\ t.pc # "write"
  /\ t.sequence = s.sequence /\ s.staged = Count(p) /\ t.staged = Count(p)
  /\ s.k \in 1 .. Count(p) /\ s.installed = 1 .. s.k - 1 /\ t.installed = 1 .. s.k

Acts(p, s, t, d, e) ==
  /\ PastStaging(s) => PastStaging(t)
  /\ \/ Quiet(s, t, d, e) \/ Frees(s, t, d, e) \/ Starts(p, s, t, d, e)
     \/ Completes(p, s, t, d, e) \/ Places(p, s, t, d, e)

(***************************************************************************)
(* File operations on names that are not temporary are tame.               *)
(***************************************************************************)
LEMMA TameCalls ==
  ASSUME NEW d, NEW e, NEW a, NEW b, a[1] # "tmp", b[1] # "tmp"
  PROVE  /\ Tame(d, d) /\ Dropped(d, e, a) => Tame(d, e)
         /\ Moved(d, e, a, b) => Tame(d, e)
<1>1. Tame(d, d)
  BY DEF Tame, SameTemps
<1>2. Dropped(d, e, a) => Tame(d, e)
  BY DEF Tame, SameTemps, PartialsStaged, Dropped
<1>3. Moved(d, e, a, b) => Tame(d, e)
  BY DEF Tame, SameTemps, PartialsStaged, Moved
<1> QED BY <1>1, <1>2, <1>3

(***************************************************************************)
(* An invocation that restores or cleans up, or has ended, is quiet.       *)
(***************************************************************************)
LEMMA Retires ==
  ASSUME NEW p, NEW s, NEW t, NEW d, NEW e,
         t.pc \in {"unlink", "stream", "unbackup", "withdraw", "putback", "discard",
                   "done", "failed", "crashed"}
  PROVE  /\ Tame(d, e) => Acts(p, s, t, d, e)
         /\ \A n : Dropped(d, e, n) => Acts(p, s, t, d, e)
<1>1. ~ Installing(t) /\ PastStaging(t)
  BY DEF Installing, PastStaging
<1> QED BY <1>1 DEF Acts, Quiet, Frees

(***************************************************************************)
(* Every step acts in one of those ways.                                   *)
(***************************************************************************)
LEMMA StepActs ==
  ASSUME TypeInv, NEW p \in Invocation,
         \/ Begin(p) \/ Crash(p) \/ Open(p) \/ Write(p) \/ Unlink(p)
         \/ Reserve(p) \/ Probe(p) \/ Move(p) \/ Install(p) \/ WriteStream(p)
         \/ RemoveBackup(p) \/ Withdraw(p) \/ PutBack(p) \/ Discard(p) \/ End(p)
  PROVE  /\ Frame(p, invocation, invocation')
         /\ Acts(p, invocation[p], invocation'[p], directory, directory')
<1> DEFINE s == invocation[p]
           t == invocation'[p]
           d == directory
           e == directory'
<1>1. Placed(p, s) /\ Alters(p) /\ Count(p) \in Nat
  BY StepPlaced, CountFacts DEF TypeInv
<1>2. Frame(p, invocation, invocation')
  BY <1>1 DEF Alters, Frame
<1>3. Tame(d, d)
  BY DEF Tame, SameTemps
<1> HIDE DEF s, t, d, e
<1>4. CASE Begin(p)
  <2>1. /\ e = d /\ s.pc = "idle"
        /\ \/ Goes(s, t, IF 1 <= Count(p) THEN "open" ELSE "stream", 1, {"before"})
           \/ Goes(s, t, "failed", s.k, {"before"})
    BY <1>4, BeginOutcome DEF s, t, d, e
  <2>2. /\ t.sequence = s.sequence /\ t.staged = s.staged /\ t.installed = s.installed
        /\ t.pc \in {"open", "stream", "failed"}
    BY <2>1, FieldsKept DEF Goes
  <2> QED BY <1>2, <1>3, <2>1, <2>2 DEF Acts, Quiet, Installing, PastStaging, s, t, d, e
<1>5. CASE Crash(p)
  <2>1. e = d /\ t.pc = "crashed"
    BY <1>5, CrashOutcome DEF s, t, d, e, Goes
  <2> QED BY <1>2, <1>3, <2>1, Retires DEF s, t, d, e
<1>6. CASE Open(p)
  <2>1. /\ s.pc = "open"
        /\ \/ e = d /\ Keeps(s, t, {"attempt"})
           \/ e = d /\ Goes(s, t, "discard", 1, {})
           \/ /\ ~ Exists(Temporary(p, s.k, s.attempt))
              /\ Create(Temporary(p, s.k, s.attempt), Partial(p, s.k))
              /\ Goes(s, t, "write", s.k, {"sequence"}) /\ Chooses(s, t)
    BY <1>6, OpenOutcome DEF s, t, d, e
  <2>2. CASE e = d /\ Keeps(s, t, {"attempt"})
    <3>1. /\ t.pc = s.pc /\ t.sequence = s.sequence /\ t.staged = s.staged
          /\ t.installed = s.installed
      BY <2>2, FieldsKept
    <3> QED BY <1>2, <1>3, <2>1, <2>2, <3>1
            DEF Acts, Quiet, Installing, PastStaging, s, t, d, e
  <2>3. CASE e = d /\ Goes(s, t, "discard", 1, {})
    <3>1. t.pc = "discard"
      BY <2>3 DEF Goes
    <3> QED BY <1>2, <1>3, <2>3, <3>1, Retires DEF s, t, d, e
  <2>4. CASE /\ ~ Exists(Temporary(p, s.k, s.attempt))
             /\ Create(Temporary(p, s.k, s.attempt), Partial(p, s.k))
             /\ Goes(s, t, "write", s.k, {"sequence"}) /\ Chooses(s, t)
    <3>1. /\ s.k \in 1 .. Count(p) /\ s.staged = s.k - 1 /\ s.installed = {}
          /\ s.sequence \in [1 .. Count(p) -> 0 .. Attempts - 1]
      BY <1>1, <2>1 DEF Placed
    <3>2. t.pc = "write" /\ t.k = s.k /\ Keeps(s, t, {"pc", "k", "sequence"})
      BY <2>4 DEF Goes
    <3>3. t.staged = s.staged /\ t.installed = s.installed
      BY <3>2, FieldsKept
    <3>4. t.sequence[s.k] = s.attempt /\ \A j \in 1 .. s.k - 1 : t.sequence[j] = s.sequence[j]
      BY <1>1, <2>4, <3>1 DEF Chooses
    <3>5. Added(d, e, Temp(p, t, s.k), Partial(p, s.k))
      BY <2>4, <3>4, Effects DEF Temp, d, e
    <3>6. Starts(p, s, t, d, e)
      BY <2>1, <3>1, <3>2, <3>3, <3>4, <3>5 DEF Starts
    <3> QED BY <1>2, <2>1, <3>6 DEF Acts, PastStaging, s, t, d, e
  <2> QED BY <2>1, <2>2, <2>3, <2>4
<1>7. CASE Write(p)
  <2>1. /\ s.pc = "write"
        /\ \/ /\ e = [n \in DOMAIN d |-> IF d[n] = Partial(p, s.k) THEN Whole(p, s.k) ELSE d[n]]
              /\ Loops(p, s, t, "open", "reserve", {"attempt", "staged"})
              /\ t.staged = s.k
           \/ e = d /\ Goes(s, t, "unlink", s.k, {})
    BY <1>7, WriteOutcome DEF s, t, d, e
  <2>2. CASE e = d /\ Goes(s, t, "unlink", s.k, {})
    <3>1. t.pc = "unlink"
      BY <2>2 DEF Goes
    <3> QED BY <1>2, <1>3, <2>2, <3>1, Retires DEF s, t, d, e
  <2>3. CASE /\ e = [n \in DOMAIN d |-> IF d[n] = Partial(p, s.k) THEN Whole(p, s.k) ELSE d[n]]
             /\ Loops(p, s, t, "open", "reserve", {"attempt", "staged"})
             /\ t.staged = s.k
    <3>1. s.k \in 1 .. Count(p) /\ s.staged = s.k - 1 /\ s.installed = {}
      BY <1>1, <2>1 DEF Placed
    <3>2. t.pc # "write" /\ Keeps(s, t, {"pc", "k", "attempt", "staged"})
      BY <2>3 DEF Loops, Goes
    <3>3. t.sequence = s.sequence /\ t.installed = s.installed
      BY <3>2, FieldsKept
    <3>4. Closed(d, e, Partial(p, s.k), Whole(p, s.k))
      BY <2>3, Effects DEF d, e
    <3>5. Completes(p, s, t, d, e)
      BY <2>1, <2>3, <3>1, <3>2, <3>3, <3>4 DEF Completes
    <3> QED BY <1>2, <2>1, <3>5 DEF Acts, PastStaging, s, t, d, e
  <2> QED BY <2>1, <2>2, <2>3
<1>8. CASE Unlink(p)
  <2>1. /\ e = d \/ Remove(Temp(p, s, s.k))
        /\ Goes(s, t, "discard", 1, {}) \/ Goes(s, t, "discard", 1, {"tidy"})
    BY <1>8, UnlinkOutcome DEF s, t, d, e
  <2>2. t.pc = "discard" /\ (e = d \/ Dropped(d, e, Temp(p, s, s.k)))
    BY <2>1, Effects DEF Goes, d, e
  <2> QED BY <1>2, <1>3, <2>2, Retires DEF s, t, d, e
<1>9. CASE Reserve(p)
  <2>1. /\ s.pc = "reserve" /\ e = d
        /\ \/ Goes(s, t, "probe", s.k, {"reserved"})
           \/ Loops(p, s, t, "reserve", "install", {})
           \/ Restores(s, t, s.k - 1, {})
    BY <1>9, ReserveOutcome DEF s, t, d, e
  <2>2. CASE Restores(s, t, s.k - 1, {})
    BY <1>2, <1>3, <2>1, <2>2, Retires DEF Restores, Goes, s, t, d, e
  <2>3. CASE \/ Goes(s, t, "probe", s.k, {"reserved"})
             \/ Loops(p, s, t, "reserve", "install", {})
    <3>1. /\ t.pc \in {"probe", "reserve", "install"}
          /\ Keeps(s, t, {"pc", "k", "reserved"}) \/ Keeps(s, t, {"pc", "k"})
      BY <2>3 DEF Loops, Goes
    <3>2. t.sequence = s.sequence /\ t.staged = s.staged /\ t.installed = s.installed
      BY <3>1, FieldsKept
    <3> QED BY <1>2, <1>3, <2>1, <3>1, <3>2
            DEF Acts, Quiet, Installing, PastStaging, s, t, d, e
  <2> QED BY <2>1, <2>2, <2>3
<1>10. CASE Probe(p)
  <2>1. /\ s.pc = "probe" /\ e = d
        /\ Goes(s, t, "move", s.k, {}) \/ Restores(s, t, s.k - 1, {})
    BY <1>10, ProbeOutcome DEF s, t, d, e
  <2>2. CASE Restores(s, t, s.k - 1, {})
    BY <1>2, <1>3, <2>1, <2>2, Retires DEF Restores, Goes, s, t, d, e
  <2>3. CASE Goes(s, t, "move", s.k, {})
    <3>1. /\ t.pc = "move" /\ t.sequence = s.sequence /\ t.staged = s.staged
          /\ t.installed = s.installed
      BY <2>3, GoesPlain
    <3> QED BY <1>2, <1>3, <2>1, <3>1 DEF Acts, Quiet, Installing, PastStaging, s, t, d, e
  <2> QED BY <2>1, <2>2, <2>3
<1>11. CASE Move(p)
  <2>1. /\ s.pc = "move"
        /\ \/ /\ Rename(Destination(p, s.k), Old(p, s, s.k))
              /\ Loops(p, s, t, "reserve", "install", {"original"})
           \/ e = d /\ Restores(s, t, s.k - 1, {})
    BY <1>11, MoveOutcome DEF s, t, d, e
  <2>2. CASE e = d /\ Restores(s, t, s.k - 1, {})
    BY <1>2, <1>3, <2>2, Retires DEF Restores, Goes, s, t, d, e
  <2>3. CASE /\ Rename(Destination(p, s.k), Old(p, s, s.k))
             /\ Loops(p, s, t, "reserve", "install", {"original"})
    <3>1. t.pc \in {"reserve", "install"} /\ Keeps(s, t, {"pc", "k", "original"})
      BY <2>3 DEF Loops, Goes
    <3>2. t.sequence = s.sequence /\ t.staged = s.staged /\ t.installed = s.installed
      BY <3>1, FieldsKept
    <3>3. Moved(d, e, Destination(p, s.k), Old(p, s, s.k))
      BY <2>3, Effects DEF d, e
    <3>4. Tame(d, e)
      BY <3>3, NamesTell, TameCalls
    <3> QED BY <1>2, <2>1, <3>1, <3>2, <3>4
            DEF Acts, Quiet, Installing, PastStaging, s, t, d, e
  <2> QED BY <2>1, <2>2, <2>3
<1>12. CASE Install(p)
  <2>1. /\ s.pc = "install"
        /\ \/ /\ Rename(Temp(p, s, s.k), Destination(p, s.k))
              /\ Loops(p, s, t, "install", "stream", {"installed"})
              /\ t.installed = s.installed \union {s.k}
           \/ e = d /\ Restores(s, t, Count(p), {})
    BY <1>12, InstallOutcome DEF s, t, d, e
  <2>2. CASE e = d /\ Restores(s, t, Count(p), {})
    BY <1>2, <1>3, <2>2, Retires DEF Restores, Goes, s, t, d, e
  <2>3. CASE /\ Rename(Temp(p, s, s.k), Destination(p, s.k))
             /\ Loops(p, s, t, "install", "stream", {"installed"})
             /\ t.installed = s.installed \union {s.k}
    <3>1. s.k \in 1 .. Count(p) /\ s.installed = 1 .. s.k - 1 /\ s.staged = Count(p)
      BY <1>1, <2>1 DEF Placed
    <3>2. t.pc \in {"install", "stream"} /\ Keeps(s, t, {"pc", "k", "installed"})
      BY <2>3 DEF Loops, Goes
    <3>3. t.sequence = s.sequence /\ t.staged = s.staged
      BY <3>2, FieldsKept
    <3>4. Moved(d, e, Temp(p, s, s.k), Destination(p, s.k))
      BY <2>3, Effects DEF d, e
    <3>5. t.installed = 1 .. s.k
      BY <1>1, <2>3, <3>1
    <3>6. Places(p, s, t, d, e)
      BY <2>1, <3>1, <3>2, <3>3, <3>4, <3>5 DEF Places
    <3> QED BY <1>2, <2>1, <3>2, <3>6 DEF Acts, PastStaging, s, t, d, e
  <2> QED BY <2>1, <2>2, <2>3
<1>13. CASE WriteStream(p)
  <2>1. /\ e = d
        /\ \/ Goes(s, t, IF 1 <= Count(p) THEN "unbackup" ELSE "discard", 1, {"committed"})
           \/ Restores(s, t, Count(p), {})
    BY <1>13, StreamOutcome DEF s, t, d, e
  <2>2. t.pc \in {"unbackup", "withdraw", "discard"}
    BY <2>1 DEF Goes, Restores
  <2> QED BY <1>2, <1>3, <2>1, <2>2, Retires DEF s, t, d, e
<1>14. CASE RemoveBackup(p)
  <2>1. /\ e = d \/ Remove(Old(p, s, s.k))
        /\ \/ Loops(p, s, t, "unbackup", "discard", {})
           \/ Loops(p, s, t, "unbackup", "discard", {"tidy"})
    BY <1>14, RemoveBackupOutcome DEF s, t, d, e
  <2>2. t.pc \in {"unbackup", "discard"} /\ (e = d \/ Dropped(d, e, Old(p, s, s.k)))
    BY <2>1, Effects DEF Loops, Goes, d, e
  <2> QED BY <1>2, <1>3, <2>2, Retires DEF s, t, d, e
<1>15. CASE Withdraw(p)
  <2>1. /\ e = d \/ Remove(Destination(p, s.k))
        /\ Goes(s, t, "putback", s.k, {}) \/ Goes(s, t, "putback", s.k, {"tidy"})
    BY <1>15, WithdrawOutcome DEF s, t, d, e
  <2>2. t.pc = "putback" /\ (e = d \/ Dropped(d, e, Destination(p, s.k)))
    BY <2>1, Effects DEF Goes, d, e
  <2> QED BY <1>2, <1>3, <2>2, Retires DEF s, t, d, e
<1>16. CASE PutBack(p)
  <2>1. /\ e = d \/ Rename(Old(p, s, s.k), Destination(p, s.k))
        /\ Restores(s, t, s.k - 1, {}) \/ Restores(s, t, s.k - 1, {"tidy"})
    BY <1>16, PutBackOutcome DEF s, t, d, e
  <2>2. t.pc \in {"withdraw", "discard"}
    BY <2>1 DEF Restores, Goes
  <2>3. e = d \/ Moved(d, e, Old(p, s, s.k), Destination(p, s.k))
    BY <2>1, Effects DEF d, e
  <2>4. Tame(d, e)
    BY <1>3, <2>3, NamesTell, TameCalls
  <2> QED BY <1>2, <2>2, <2>4, Retires DEF s, t, d, e
<1>17. CASE Discard(p)
  <2>1. /\ e = d \/ Remove(Temp(p, s, s.k))
        /\ Goes(s, t, "discard", s.k + 1, {}) \/ Goes(s, t, "discard", s.k + 1, {"tidy"})
    BY <1>17, DiscardOutcome DEF s, t, d, e
  <2>2. t.pc = "discard" /\ (e = d \/ Dropped(d, e, Temp(p, s, s.k)))
    BY <2>1, Effects DEF Goes, d, e
  <2> QED BY <1>2, <1>3, <2>2, Retires DEF s, t, d, e
<1>18. CASE End(p)
  <2>1. e = d /\ t.pc \in {"done", "failed"}
    BY <1>18, EndOutcome DEF Goes, s, t, d, e
  <2> QED BY <1>2, <1>3, <2>1, Retires DEF s, t, d, e
<1> QED BY <1>4, <1>5, <1>6, <1>7, <1>8, <1>9, <1>10, <1>11, <1>12, <1>13, <1>14, <1>15,
           <1>16, <1>17, <1>18

\* The premises, and what is to be shown, of the lemmas about steps.
Concerted(p, inv, next, d) ==
  /\ Pair /\ Frame(p, inv, next) /\ (PastStaging(inv[p]) => PastStaging(next[p]))
  /\ PartialsStaged(d) /\ \A r \in Invocation : Waits(r, inv, d)
StillConcerted(next, e) == PartialsStaged(e) /\ \A r \in Invocation : Waits(r, next, e)

(***************************************************************************)
(* Who is past staging stays so; of two, the other is all there is.        *)
(***************************************************************************)
LEMMA RivalsKept ==
  ASSUME NEW p, NEW inv, NEW next, NEW d, Concerted(p, inv, next, d), NEW r \in Invocation
  PROVE  /\ Unrivalled(r, inv) => Unrivalled(r, next)
         /\ r # p /\ PastStaging(next[p]) => Unrivalled(r, next)
<1>1. Unrivalled(r, inv) => Unrivalled(r, next)
  BY DEF Concerted, Frame, Unrivalled
<1>2. r # p => \A q \in Invocation : q # r => q = p
  BY DEF Concerted, Frame, Pair
<1> QED BY <1>1, <1>2 DEF Unrivalled

(***************************************************************************)
(* An invocation is not disturbed where its temporary files are the same.  *)
(***************************************************************************)
LEMMA FilesKept ==
  ASSUME NEW r, NEW s, NEW t, NEW d, NEW e, SameTemps(d, e),
         t.sequence = s.sequence, Unplaced(r, t) = Unplaced(r, s),
         t = s \/ s.pc # "write", OwnStaged(r, s, d)
  PROVE  /\ OwnStaged(r, t, e)
         /\ Contested(r, t, e) => Contested(r, s, d)
<1>1. \A k : Temp(r, t, k) = Temp(r, s, k) /\ Temp(r, s, k)[1] = "tmp"
  BY NamesTell DEF Temp
<1>2. \A k : /\ Temp(r, s, k) \in DOMAIN d <=> Temp(r, s, k) \in DOMAIN e
             /\ Temp(r, s, k) \in DOMAIN d => e[Temp(r, s, k)] = d[Temp(r, s, k)]
  BY <1>1 DEF SameTemps
<1>3. \A content : Own(r, s, content) => Own(r, t, content)
  BY DEF Own
<1>4. OwnStaged(r, t, e)
  BY <1>1, <1>2, <1>3 DEF OwnStaged
<1>5. Contested(r, t, e) => Contested(r, s, d)
  BY <1>1, <1>2 DEF Contested
<1> QED BY <1>4, <1>5

(***************************************************************************)
(* A step that leaves temporary names alone.                               *)
(***************************************************************************)
LEMMA QuietStep ==
  ASSUME NEW p, NEW inv, NEW next, NEW d, NEW e, Concerted(p, inv, next, d),
         Quiet(inv[p], next[p], d, e)
  PROVE  StillConcerted(next, e)
<1>1. SameTemps(d, e) /\ PartialsStaged(e)
  BY DEF Quiet, Tame, Concerted
<1> SUFFICES ASSUME NEW r \in Invocation, Installing(next[r])
             PROVE  /\ OwnStaged(r, next[r], e)
                    /\ Contested(r, next[r], e) => Unrivalled(r, next)
  BY <1>1 DEF StillConcerted, Waits
<1>2. PICK s, t : s = inv[r] /\ t = next[r]
  OBVIOUS
<1>3. /\ t.sequence = s.sequence /\ Unplaced(r, t) = Unplaced(r, s) /\ Installing(s)
      /\ t = s \/ s.pc # "write"
  <2>1. CASE r # p
    BY <1>2, <2>1 DEF Concerted, Frame
  <2>2. CASE r = p
    <3>1. /\ t.sequence = s.sequence /\ t.staged = s.staged /\ t.installed = s.installed
          /\ s.pc # "write" /\ t.pc # "write" /\ Installing(s)
      BY <1>2, <2>2 DEF Quiet
    <3> QED BY <3>1 DEF Unplaced
  <2> QED BY <2>1, <2>2
<1>4. OwnStaged(r, s, d) /\ (Contested(r, s, d) => Unrivalled(r, inv))
  BY <1>2, <1>3 DEF Concerted, Waits
<1>5. OwnStaged(r, t, e) /\ (Contested(r, t, e) => Contested(r, s, d))
  BY <1>1, <1>3, <1>4, FilesKept
<1> QED BY <1>2, <1>4, <1>5, RivalsKept

(***************************************************************************)
(* A name is removed by one that opens no more.                            *)
(***************************************************************************)
LEMMA FreeStep ==
  ASSUME NEW p, NEW inv, NEW next, NEW d, NEW e, Concerted(p, inv, next, d),
         Frees(inv[p], next[p], d, e)
  PROVE  StillConcerted(next, e)
<1>1. ~ Installing(next[p]) /\ PastStaging(next[p])
  BY DEF Frees, Installing, PastStaging
<1>2. PICK n : Dropped(d, e, n)
  BY DEF Frees
<1>3. PartialsStaged(e)
  BY <1>2 DEF Concerted, PartialsStaged, Dropped
<1> SUFFICES ASSUME NEW r \in Invocation, Installing(next[r])
             PROVE  OwnStaged(r, next[r], e) /\ Unrivalled(r, next)
  BY <1>3 DEF StillConcerted, Waits
<1>4. r # p
  BY <1>1
<1>5. next[r] = inv[r]
  BY <1>4 DEF Concerted, Frame
<1>6. OwnStaged(r, inv[r], d)
  BY <1>5 DEF Concerted, Waits
<1>7. OwnStaged(r, next[r], e)
  BY <1>2, <1>5, <1>6 DEF OwnStaged, Dropped
<1> QED BY <1>1, <1>4, <1>7, RivalsKept

(***************************************************************************)
(* A temporary file is opened under a name the other does not wait for,    *)
(* since it could only be free if nobody opens files any more.             *)
(***************************************************************************)
LEMMA StartStep ==
  ASSUME NEW p, NEW inv, NEW next, NEW d, NEW e, Concerted(p, inv, next, d),
         Starts(p, inv[p], next[p], d, e)
  PROVE  StillConcerted(next, e)
<1>1. PICK name : name = Temp(p, next[p], inv[p].k) /\ name[1] = "tmp"
  BY NamesTell
<1>2. Added(d, e, name, Partial(p, inv[p].k)) /\ ~ PastStaging(inv[p]) /\ p \in Invocation
  BY <1>1 DEF Starts, PastStaging, Concerted, Frame
<1>3. PartialsStaged(e)
  BY <1>1, <1>2 DEF Concerted, PartialsStaged, Added
<1> SUFFICES ASSUME NEW r \in Invocation, Installing(next[r])
             PROVE  /\ OwnStaged(r, next[r], e)
                    /\ Contested(r, next[r], e) => Unrivalled(r, next)
  BY <1>3 DEF StillConcerted, Waits
<1>4. PICK s, t : s = inv[r] /\ t = next[r]
  OBVIOUS
<1>5. CASE r # p
  <2>1. t = s /\ Installing(s)
    BY <1>4, <1>5 DEF Concerted, Frame
  <2>2. OwnStaged(r, s, d) /\ (Contested(r, s, d) => Unrivalled(r, inv))
    BY <1>4, <2>1 DEF Concerted, Waits
  <2>3. ~ Contested(r, s, d)
    BY <1>2, <1>5, <2>2 DEF Unrivalled
  <2>4. \A k \in Unplaced(r, s) : Temp(r, s, k) \in DOMAIN d
    BY <2>3 DEF Contested
  <2>5. OwnStaged(r, s, e)
    BY <1>2, <2>2, <2>4 DEF OwnStaged, Added
  <2>6. ~ Contested(r, s, e)
    BY <1>2, <2>3, <2>4 DEF Contested, Added
  <2> QED BY <1>4, <2>1, <2>5, <2>6
<1>6. CASE r = p
  <2>1. /\ s.pc = "open" /\ t.pc = "write" /\ t.k = s.k
        /\ s.k \in 1 .. Count(r) /\ s.staged = s.k - 1 /\ t.staged = s.staged
        /\ \A j \in 1 .. s.k - 1 : t.sequence[j] = s.sequence[j]
        /\ s.installed = {} /\ t.installed = {}
    BY <1>4, <1>6 DEF Starts
  <2>2. Count(r) \in Nat
    BY CountFacts
  <2>3. Unplaced(r, s) = 1 .. s.k - 1 /\ Unplaced(r, t) = Unplaced(r, s) \union {s.k}
    BY <2>1, <2>2 DEF Unplaced
  <2>4. name = Temp(r, t, s.k) /\ \A j \in Unplaced(r, s) : Temp(r, t, j) = Temp(r, s, j)
    BY <1>1, <1>4, <1>6, <2>1, <2>3 DEF Temp
  <2>5. Added(d, e, name, Partial(r, s.k)) /\ Own(r, t, Partial(r, s.k))
    BY <1>2, <1>4, <1>6, <2>1 DEF Own
  <2>6. \A c : Own(r, s, c) => Own(r, t, c)
    BY <2>1 DEF Own
  <2>7. Installing(s)
    BY <2>1 DEF Installing
  <2>8. OwnStaged(r, s, d) /\ (Contested(r, s, d) => Unrivalled(r, inv))
    BY <1>4, <2>7 DEF Concerted, Waits
  <2>9. ASSUME NEW k \in Unplaced(r, t), Temp(r, t, k) \in DOMAIN e
        PROVE  Own(r, t, e[Temp(r, t, k)])
    <3>1. CASE Temp(r, t, k) = name
      BY <2>5, <3>1 DEF Added
    <3>2. CASE Temp(r, t, k) # name
      <4>1. k \in Unplaced(r, s) /\ Temp(r, t, k) = Temp(r, s, k)
        BY <2>3, <2>4, <3>2, <2>9
      <4>2. Temp(r, s, k) \in DOMAIN d /\ e[Temp(r, s, k)] = d[Temp(r, s, k)]
        BY <2>5, <2>9, <3>2, <4>1 DEF Added
      <4> QED BY <2>6, <2>8, <4>1, <4>2 DEF OwnStaged
    <3> QED BY <3>1, <3>2
  <2>10. OwnStaged(r, t, e)
    BY <2>9 DEF OwnStaged
  <2>11. Contested(r, t, e) => Contested(r, s, d)
    <3>1. ASSUME NEW k \in Unplaced(r, t), Temp(r, t, k) \notin DOMAIN e
          PROVE  Contested(r, s, d)
      <4>1. k # s.k
        BY <2>4, <2>5, <3>1 DEF Added
      <4>2. k \in Unplaced(r, s) /\ Temp(r, s, k) \notin DOMAIN d
        BY <2>3, <2>4, <2>5, <3>1, <4>1 DEF Added
      <4> QED BY <4>2 DEF Contested
    <3>2. ASSUME NEW k \in Unplaced(r, t), NEW j \in Unplaced(r, t), j # k,
                 Temp(r, t, j) = Temp(r, t, k)
          PROVE  Contested(r, s, d)
      <4>1. CASE j \in Unplaced(r, s) /\ k \in Unplaced(r, s)
        BY <2>4, <3>2, <4>1 DEF Contested
      <4>2. CASE j = s.k
        <5>1. k \in Unplaced(r, s) /\ Temp(r, s, k) = name
          BY <2>3, <2>4, <3>2, <4>2
        <5> QED BY <2>5, <5>1 DEF Added, Contested
      <4>3. CASE k = s.k
        <5>1. j \in Unplaced(r, s) /\ Temp(r, s, j) = name
          BY <2>3, <2>4, <3>2, <4>3
        <5> QED BY <2>5, <5>1 DEF Added, Contested
      <4> QED BY <2>3, <4>1, <4>2, <4>3
    <3> QED BY <3>1, <3>2 DEF Contested
  <2> QED BY <1>4, <2>8, <2>10, <2>11, RivalsKept
<1> QED BY <1>5, <1>6

(***************************************************************************)
(* A file is closed: it stays one of the invocation that opened it.        *)
(***************************************************************************)
LEMMA CompleteStep ==
  ASSUME NEW p, NEW inv, NEW next, NEW d, NEW e, Concerted(p, inv, next, d),
         Completes(p, inv[p], next[p], d, e)
  PROVE  StillConcerted(next, e)
<1>1. PICK h : h = inv[p].k
  OBVIOUS
<1>2. /\ Closed(d, e, Partial(p, h), Whole(p, h)) /\ h \in 1 .. Count(p)
      /\ Whole(p, h)[1] = "whole" /\ p \in Invocation
  BY <1>1, ContentFacts DEF Completes, Concerted, Frame
<1>3. PartialsStaged(e)
  BY <1>2 DEF Concerted, PartialsStaged, Closed
<1> SUFFICES ASSUME NEW r \in Invocation, Installing(next[r])
             PROVE  /\ OwnStaged(r, next[r], e)
                    /\ Contested(r, next[r], e) => Unrivalled(r, next)
  BY <1>3 DEF StillConcerted, Waits
<1>4. PICK s, t : s = inv[r] /\ t = next[r]
  OBVIOUS
<1>5. /\ t.sequence = s.sequence /\ Unplaced(r, t) = Unplaced(r, s) /\ Installing(s)
      /\ \A b, c : Own(r, s, b) /\ (b = Partial(p, h) => c = Whole(p, h))
                   /\ (b # Partial(p, h) => c = b) => Own(r, t, c)
  <2>1. CASE r # p
    <3>1. t = s /\ Installing(s)
      BY <1>4, <2>1 DEF Concerted, Frame
    <3>2. \A i : Partial(r, i) # Partial(p, h) /\ Whole(r, i) # Partial(p, h)
      BY <2>1 DEF Partial, Whole
    <3> QED BY <3>1, <3>2 DEF Own
  <2>2. CASE r = p
    <3>1. /\ t.sequence = s.sequence /\ s.pc = "write" /\ t.pc # "write" /\ s.k = h
          /\ h \in 1 .. Count(r) /\ s.staged = h - 1 /\ t.staged = h
          /\ s.installed = {} /\ t.installed = {}
      BY <1>1, <1>4, <2>2 DEF Completes
    <3>2. Count(r) \in Nat
      BY CountFacts
    <3>3. Unplaced(r, t) = Unplaced(r, s) /\ Installing(s)
      BY <3>1, <3>2 DEF Unplaced, Installing
    <3>4. \A i : Whole(r, i) # Partial(p, h)
      BY ContentFacts
    <3> QED BY <2>2, <3>1, <3>3, <3>4 DEF Own
  <2> QED BY <2>1, <2>2
<1>6. \A k : Temp(r, t, k) = Temp(r, s, k)
  BY <1>5 DEF Temp
<1>7. OwnStaged(r, s, d) /\ (Contested(r, s, d) => Unrivalled(r, inv))
  BY <1>4, <1>5 DEF Concerted, Waits
<1>8. OwnStaged(r, t, e)
  <2> SUFFICES ASSUME NEW k \in Unplaced(r, t), Temp(r, t, k) \in DOMAIN e
               PROVE  Own(r, t, e[Temp(r, t, k)])
    BY DEF OwnStaged
  <2>1. PICK n : n = Temp(r, t, k) /\ n \in DOMAIN e
    OBVIOUS
  <2>2. /\ n \in DOMAIN d /\ d[n] = Partial(p, h) => e[n] = Whole(p, h)
        /\ d[n] # Partial(p, h) => e[n] = d[n]
    BY <1>2, <2>1 DEF Closed
  <2>3. n \in DOMAIN d
    BY <1>2, <2>1 DEF Closed
  <2>4. Own(r, s, d[n])
    BY <1>5, <1>6, <1>7, <2>1, <2>3 DEF OwnStaged
  <2> QED BY <1>5, <2>1, <2>2, <2>3, <2>4
<1>9. Contested(r, t, e) => Contested(r, s, d)
  BY <1>2, <1>5, <1>6 DEF Contested, Closed
<1> QED BY <1>4, <1>7, <1>8, <1>9, RivalsKept

(***************************************************************************)
(* A file that is renamed into place is one of the invocation's own, and   *)
(* whole.                                                                  *)
(***************************************************************************)
LEMMA PlaceStep ==
  ASSUME NEW p, NEW inv, NEW next, NEW d, NEW e, Concerted(p, inv, next, d),
         Places(p, inv[p], next[p], d, e)
  PROVE  StillConcerted(next, e)
<1>1. PICK u, v : u = inv[p] /\ v = next[p]
  OBVIOUS
<1>2. /\ u.pc = "install" /\ v.pc # "write"
      /\ v.sequence = u.sequence /\ u.staged = Count(p) /\ v.staged = Count(p)
      /\ u.k \in 1 .. Count(p) /\ u.installed = 1 .. u.k - 1 /\ v.installed = 1 .. u.k
  BY <1>1 DEF Places
<1>3. PICK from, to : from = Temp(p, u, u.k) /\ to = Destination(p, u.k)
  OBVIOUS
<1>4. Moved(d, e, from, to)
  BY <1>1, <1>3 DEF Places
<1>5. from[1] = "tmp" /\ to[1] = "path"
  BY <1>3, NamesTell
<1>6. p \in Invocation /\ Count(p) \in Nat /\ PastStaging(v)
  BY <1>1, <1>2, CountFacts DEF Concerted, Frame, PastStaging
<1>7. u.k \in Unplaced(p, u) /\ Unplaced(p, v) = Unplaced(p, u) \ {u.k}
  BY <1>2, <1>6 DEF Unplaced
<1>8. d[from][1] = "whole"
  <2>1. Installing(u)
    BY <1>2 DEF Installing
  <2>2. Own(p, u, d[from])
    BY <1>1, <1>3, <1>4, <1>6, <1>7, <2>1 DEF Concerted, Waits, OwnStaged, Moved
  <2> QED BY <1>2, <2>2, ContentFacts DEF Own
<1>9. PartialsStaged(e)
  <2> SUFFICES ASSUME NEW n \in DOMAIN e, e[n][1] = "partial" PROVE n[1] = "tmp"
    BY DEF PartialsStaged
  <2>1. n # to
    BY <1>4, <1>8 DEF Moved
  <2>2. n \in DOMAIN d /\ e[n] = d[n]
    BY <1>4, <2>1 DEF Moved
  <2> QED BY <2>2 DEF Concerted, PartialsStaged
<1> SUFFICES ASSUME NEW r \in Invocation, Installing(next[r])
             PROVE  /\ OwnStaged(r, next[r], e)
                    /\ Contested(r, next[r], e) => Unrivalled(r, next)
  BY <1>9 DEF StillConcerted, Waits
<1>10. PICK s, t : s = inv[r] /\ t = next[r]
  OBVIOUS
<1>11. /\ t.sequence = s.sequence /\ Unplaced(r, t) \subseteq Unplaced(r, s) /\ Installing(s)
       /\ \A c : Own(r, s, c) => Own(r, t, c)
  <2>1. CASE r # p
    BY <1>10, <2>1 DEF Concerted, Frame
  <2>2. CASE r = p
    <3>1. s = u /\ t = v
      BY <1>1, <1>10, <2>2
    <3> QED BY <1>2, <1>7, <2>2, <3>1 DEF Own, Installing
  <2> QED BY <2>1, <2>2
<1>12. \A k : Temp(r, t, k) = Temp(r, s, k) /\ Temp(r, s, k)[1] = "tmp"
  <2>1. \A k : Temp(r, t, k) = Temp(r, s, k)
    BY <1>11 DEF Temp
  <2> QED BY <2>1, NamesTell
<1>13. OwnStaged(r, s, d) /\ (Contested(r, s, d) => Unrivalled(r, inv))
  BY <1>10, <1>11 DEF Concerted, Waits
<1>14. OwnStaged(r, t, e)
  <2> SUFFICES ASSUME NEW k \in Unplaced(r, t), Temp(r, t, k) \in DOMAIN e
               PROVE  Own(r, t, e[Temp(r, t, k)])
    BY DEF OwnStaged
  <2>1. PICK n : n = Temp(r, s, k) /\ n[1] = "tmp" /\ n \in DOMAIN e /\ n = Temp(r, t, k)
    BY <1>12
  <2>2. n \in DOMAIN d /\ e[n] = d[n]
    BY <1>4, <1>5, <2>1 DEF Moved
  <2> QED BY <1>11, <1>13, <2>1, <2>2 DEF OwnStaged
<1>15. Contested(r, t, e) => Unrivalled(r, next)
  <2>1. CASE r # p
    BY <1>1, <1>6, <2>1, RivalsKept
  <2>2. CASE r = p
    <3>1. s = u /\ t = v
      BY <1>1, <1>10, <2>2
    <3>2. ASSUME NEW k \in Unplaced(r, t), Temp(r, s, k) \notin DOMAIN e
          PROVE  Contested(r, s, d)
      <4>1. CASE Temp(r, s, k) \notin DOMAIN d
        BY <1>11, <4>1 DEF Contested
      <4>2. CASE Temp(r, s, k) \in DOMAIN d
        <5>1. Temp(r, s, k) = from
          BY <1>4, <3>2, <4>2 DEF Moved
        <5>2. k # u.k /\ k \in Unplaced(r, s) /\ u.k \in Unplaced(r, s) /\ Temp(r, s, u.k) = from
          BY <1>3, <1>7, <2>2, <3>1, <3>2
        <5> QED BY <5>1, <5>2 DEF Contested
      <4> QED BY <4>1, <4>2
    <3>3. Contested(r, t, e) => Contested(r, s, d)
      BY <1>11, <1>12, <3>2 DEF Contested
    <3> QED BY <1>13, <3>3, RivalsKept
  <2> QED BY <2>1, <2>2
<1> QED BY <1>10, <1>14, <1>15

LEMMA PairInit == Init => PairInv
<1> SUFFICES ASSUME Init PROVE PairInv
  OBVIOUS
<1>1. PartialsStaged(directory)
  BY DEF Init, Earlier, PartialsStaged
<1>2. ASSUME NEW p \in Invocation PROVE Waits(p, invocation, directory)
  <2>1. invocation[p] = Idle(p) /\ Count(p) \in Nat
    BY CountFacts DEF Init
  <2>2. Idle(p).pc = "idle" /\ Idle(p).staged = 0
    BY DEF Idle
  <2>3. Unplaced(p, invocation[p]) = {}
    BY <2>1, <2>2 DEF Unplaced
  <2> QED BY <2>3 DEF Waits, OwnStaged, Contested
<1> QED BY <1>1, <1>2, TypeInit DEF PairInv

LEMMA PairStep ==
  ASSUME Pair, PairInv, [Next]_vars
  PROVE  PairInv'
<1>1. TypeInv'
  BY TypeStep DEF PairInv
<1>2. CASE UNCHANGED vars
  BY <1>1, <1>2 DEF vars, PairInv
<1>3. CASE Next
  <2>1. PICK p \in Invocation :
          \/ Begin(p) \/ Crash(p) \/ Open(p) \/ Write(p) \/ Unlink(p)
          \/ Reserve(p) \/ Probe(p) \/ Move(p) \/ Install(p) \/ WriteStream(p)
          \/ RemoveBackup(p) \/ Withdraw(p) \/ PutBack(p) \/ Discard(p) \/ End(p)
    BY <1>3 DEF Next
  <2>2. /\ Frame(p, invocation, invocation')
        /\ Acts(p, invocation[p], invocation'[p], directory, directory')
    BY <2>1, StepActs DEF PairInv
  <2>3. Concerted(p, invocation, invocation', directory)
    BY <2>2 DEF PairInv, Acts, Concerted
  <2>4. StillConcerted(invocation', directory')
    BY <2>2, <2>3, QuietStep, FreeStep, StartStep, CompleteStep, PlaceStep DEF Acts
  <2> QED BY <1>1, <2>4 DEF PairInv, StillConcerted
<1> QED BY <1>2, <1>3

(***************************************************************************)
(* With at most two invocations at the same time no output file ever holds *)
(* part of an output, wherever they fail or are killed: an invocation may  *)
(* remove the other one's temporary file, but opens none afterwards that   *)
(* the other could rename into place half written.                         *)
(***************************************************************************)
THEOREM PairsNeverPartial ==
  ASSUME Pair
  PROVE  Spec => []NoPartialOutput
<1>1. PairInv /\ [Next]_vars => PairInv'
  BY PairStep
<1>2. PairInv => NoPartialOutput
  BY DEF PairInv, PartialsStaged, NoPartialOutput, IsPartial, Exists, Path
<1> QED BY PairInit, <1>1, <1>2, PTL DEF Spec
=============================================================================

----------------------- MODULE SequentialWriterProof -----------------------
(***************************************************************************)
(* Proofs about invocations of the artifact writer that follow one         *)
(* another, however many system calls fail and invocations are killed:     *)
(*   - no output file ever holds part of an output;                        *)
(*   - the files that are replaced are kept until all outputs are in place;*)
(*   - a failure is undone, success is complete, and nothing is left over. *)
(* They rest on one invariant, IInv, of which these are consequences.      *)
(***************************************************************************)
EXTENDS ArtifactWriterProof

Alone == \A p, q \in Invocation : Active(invocation[p]) /\ Active(invocation[q]) => p = q

\* Partial outputs are under temporary names, replaced files are not.
Sorted(d) ==
  \A n \in DOMAIN d : /\ d[n][1] = "partial" => n[1] = "tmp"
                      /\ d[n][1] = "earlier" => n[1] # "tmp"

\* A name has in d the content it has in b, or is in neither.
Agree(n, d, b) ==
  /\ n \in DOMAIN d <=> n \in DOMAIN b
  /\ n \in DOMAIN d => d[n] = b[n]

\* Outputs that wait under their temporary names.
Waiting(p, s) ==
  {j \in 1 .. Count(p) : \/ s.pc \in {"open", "write"} /\ j < s.k
                         \/ s.pc \in {"reserve", "probe", "move"}
                         \/ s.pc = "install" /\ j >= s.k}

\* Outputs whose backup is still to be put back.
Pending(s) ==
  {i \in s.original : \/ s.pc \in {"reserve", "probe", "move", "install", "stream"}
                      \/ s.pc \in {"withdraw", "putback"} /\ i <= s.k}

\* Outputs that were installed and are still to be withdrawn.
Exposed(s) ==
  {i \in s.installed : \/ s.pc \in {"install", "stream"}
                       \/ s.pc = "withdraw" /\ i <= s.k
                       \/ s.pc = "putback" /\ i < s.k}

\* Outputs that are in place.
InPlace(p, s) ==
  {j \in 1 .. Count(p) : \/ s.pc = "install" /\ j < s.k
                         \/ s.pc = "stream"
                         \/ s.pc \in {"unbackup", "discard"} /\ s.committed}

\* Outputs that may have left a temporary file.
Littering(p, s) ==
  {j \in 1 .. Count(p) : /\ s.pc # "idle"
                         /\ \/ j <= s.staged
                            \/ s.pc \in {"write", "unlink"} /\ j = s.k
                         /\ s.pc = "discard" => j >= s.k}

\* Outputs whose backup is gone.
Cleared(s) ==
  {i \in s.original : \/ s.pc = "unbackup" /\ i < s.k
                      \/ s.pc \in {"withdraw", "putback"} /\ i > s.k
                      \/ s.pc = "discard"}

WaitingWhole(p, s, d) ==
  /\ \A j \in Waiting(p, s) : Temp(p, s, j) \in DOMAIN d /\ d[Temp(p, s, j)] = Whole(p, j)
  /\ s.pc = "write" =>
       Temp(p, s, s.k) \in DOMAIN d /\ d[Temp(p, s, s.k)] = Partial(p, s.k)

\* A temporary file with what p has written is that of an output.
OwnTemps(p, s, d) ==
  (Active(s) \/ s.pc = "idle") /\ s.tidy =>
    \A n \in DOMAIN d :
      n[1] = "tmp" /\ d[n] \in Written(p) => \E j \in Littering(p, s) : n = Temp(p, s, j)

\* An original is moved away for the first output that names it.
First(p, s) ==
  Active(s) =>
    /\ \A i \in s.original : /\ Destination(p, i) \in DOMAIN s.before
                             /\ \A j \in 1 .. Count(p) :
                                  Destination(p, j) = Destination(p, i) => i <= j
    /\ \A j \in 1 .. Count(p) :
         /\ s.pc \in {"install", "stream"} \/ j \in s.installed
         /\ Destination(p, j) \in DOMAIN s.before
         => \E i \in s.original : Destination(p, i) = Destination(p, j)

PendingSaved(p, s, d) ==
  \A i \in Pending(s) :
    Old(p, s, i) \in DOMAIN d /\ d[Old(p, s, i)] = s.before[Destination(p, i)]

\* Before a file is installed its name is free; the other files that were
\* installed may be there.
Free(p, s, d) ==
  /\ s.pc \in {"reserve", "probe", "move"} =>
       \A j \in 1 .. s.k - 1 : Destination(p, j) \notin DOMAIN d
  /\ s.pc \in {"install", "stream"} =>
       \A j \in 1 .. Count(p) :
         Destination(p, j) \in DOMAIN d =>
           \E i \in s.installed : Destination(p, i) = Destination(p, j)
  /\ s.pc = "move" => Old(p, s, s.k) \notin DOMAIN d

\* Every output file is as it was, or will be put back, or be withdrawn.
Restorable(p, s, d) ==
  Active(s) /\ s.tidy /\ ~ s.committed =>
    \A j \in 1 .. Count(p) :
      \/ \E i \in Pending(s) : Destination(p, i) = Destination(p, j)
      \/ Agree(Destination(p, j), d, s.before)
      \/ /\ Destination(p, j) \notin DOMAIN s.before
         /\ \E i \in Exposed(s) : Destination(p, i) = Destination(p, j)

\* No original is under a name that is about to be written or withdrawn.
NothingLost(p, s, d) ==
  \A j \in 1 .. Count(p) :
    /\ \/ s.pc \in {"install", "stream"}
       \/ s.pc \in {"withdraw", "putback"} /\ j <= s.k /\ j \in s.original \union s.installed
    /\ Destination(p, j) \in DOMAIN d
    => d[Destination(p, j)][1] = "whole"

\* Unless another output of p names the same file.
Installed(p, s, d) ==
  \A j \in InPlace(p, s) :
    (\A i \in 1 .. Count(p) : Destination(p, i) = Destination(p, j) => i = j) =>
      Destination(p, j) \in DOMAIN d /\ d[Destination(p, j)] = Whole(p, j)

\* No cleaning or restoring call has failed before the first is made.
Unslipped(s) ==
  s.pc \in {"idle", "open", "write", "unlink", "reserve", "probe", "move",
            "install", "stream"} => s.tidy

ClearedGone(p, s, d) == s.tidy => \A i \in Cleared(s) : Old(p, s, i) \notin DOMAIN d

Work(p, s, d) ==
  /\ Unslipped(s) /\ WaitingWhole(p, s, d) /\ OwnTemps(p, s, d)
  /\ First(p, s) /\ PendingSaved(p, s, d) /\ Free(p, s, d)
  /\ Restorable(p, s, d) /\ NothingLost(p, s, d)
  /\ Installed(p, s, d) /\ ClearedGone(p, s, d)

(***************************************************************************)
(* What f2c_cli_write_artifacts relies on between any two system calls,    *)
(* when invocations follow one another: at most one is active; partial     *)
(* outputs are under temporary names and replaced files under their own or *)
(* a backup name; every earlier file survives until the outputs are in     *)
(* place; and the directory is where the control of each invocation says   *)
(* it is: what waits to be installed, what is to be put back, withdrawn or *)
(* removed.                                                                *)
(***************************************************************************)
IInv ==
  /\ TypeInv
  /\ Alone
  /\ Sorted(directory)
  /\ OriginalKept
  /\ \A p \in Invocation : Work(p, invocation[p], directory)

-----------------------------------------------------------------------------
(* Every operation goes on with its work as the invariant says.            *)

(***************************************************************************)
(* Nothing is left to do for an invocation that has ended.                 *)
(***************************************************************************)
LEMMA EndedWork ==
  ASSUME NEW p \in Invocation, NEW t, NEW e, t.pc \in {"done", "failed", "crashed"}
  PROVE  Work(p, t, e)
BY DEF Work, Unslipped, WaitingWhole, Waiting, OwnTemps, Active, First, PendingSaved, Pending,
       Free, Restorable, NothingLost, Installed, InPlace, ClearedGone, Cleared

LEMMA BeginWork ==
  ASSUME NEW p \in Invocation, NEW s, NEW t, NEW d, Placed(p, s), Work(p, s, d),
         s.pc = "idle", t.before = d,
         Goes(s, t, IF 1 <= Count(p) THEN "open" ELSE "stream", 1, {"before"})
  PROVE  Work(p, t, d)
<1>1. Count(p) \in Nat
  BY CountFacts
<1>2. Keeps(s, t, {"pc", "k", "before"}) /\ t.k = 1
  BY DEF Goes
<1>3. /\ t.original = {} /\ t.installed = {} /\ t.committed = FALSE /\ t.tidy = s.tidy
      /\ t.staged = 0 /\ t.sequence = s.sequence
  BY <1>2, FieldsKept DEF Placed
<1>4. \/ t.pc = "open"
      \/ t.pc = "stream" /\ Count(p) = 0
  <2>1. t.pc = IF 1 <= Count(p) THEN "open" ELSE "stream"
    BY DEF Goes
  <2> QED BY <1>1, <2>1
<1> QED BY <1>1, <1>2, <1>3, <1>4
        DEF Work, Unslipped, WaitingWhole, Waiting, OwnTemps, Littering, Active, First,
            PendingSaved, Pending, Free, Restorable, Agree, NothingLost, Installed, InPlace,
            ClearedGone, Cleared

(***************************************************************************)
(* stage_artifact: the next name is tried, the file is opened, or staging  *)
(* is given up, before or after the file was opened.                       *)
(***************************************************************************)
LEMMA OpenAgainWork ==
  ASSUME NEW p \in Invocation, NEW s, NEW t, NEW d, Placed(p, s), Work(p, s, d),
         s.pc = "open", Keeps(s, t, {"attempt"})
  PROVE  Work(p, t, d)
<1>1. /\ t.pc = s.pc /\ t.k = s.k /\ t.sequence = s.sequence /\ t.staged = s.staged
      /\ t.reserved = {} /\ t.original = {} /\ t.installed = {}
      /\ t.committed = FALSE /\ t.before = s.before /\ t.tidy = s.tidy
  BY FieldsKept DEF Placed
<1>2. WaitingWhole(p, t, d)
  BY <1>1 DEF Work, WaitingWhole, Waiting, Temp
<1>3. OwnTemps(p, t, d)
  BY <1>1 DEF Work, OwnTemps, Littering, Active, Temp
<1>4. Restorable(p, t, d)
  BY <1>1 DEF Work, Restorable, Active, Pending, Exposed, Agree, Placed
<1> QED BY <1>1, <1>2, <1>3, <1>4
        DEF Work, Unslipped, First, PendingSaved, Pending, Free, NothingLost, Installed,
            InPlace, ClearedGone, Cleared

LEMMA OpenWork ==
  ASSUME NEW p \in Invocation, NEW s, NEW t, NEW d, NEW e, Placed(p, s), Work(p, s, d),
         s.pc = "open", Goes(s, t, "write", s.k, {"sequence"}), Chooses(s, t),
         Added(d, e, Temporary(p, s.k, s.attempt), Partial(p, s.k))
  PROVE  Work(p, t, e)
<1> DEFINE name == Temporary(p, s.k, s.attempt)
<1>1. Keeps(s, t, {"pc", "k", "sequence"}) /\ t.pc = "write" /\ t.k = s.k
  BY DEF Goes
<1>2. /\ t.staged = s.k - 1 /\ s.staged = s.k - 1 /\ s.k \in 1 .. Count(p)
      /\ s.original = {} /\ s.installed = {} /\ s.committed = FALSE
      /\ t.original = {} /\ t.installed = {}
      /\ t.committed = FALSE /\ t.before = s.before /\ t.tidy = s.tidy
  <2>1. /\ t.staged = s.staged /\ t.original = s.original /\ t.installed = s.installed
        /\ t.committed = s.committed /\ t.before = s.before /\ t.tidy = s.tidy
    BY <1>1, FieldsKept
  <2> QED BY <2>1, CountFacts DEF Placed
<1>3. /\ Temp(p, t, s.k) = name
      /\ \A j \in 1 .. Count(p) : j # s.k => Temp(p, t, j) = Temp(p, s, j)
  BY <1>2 DEF Chooses, Temp, Placed
<1>4. /\ name \notin DOMAIN d /\ DOMAIN e = DOMAIN d \union {name}
      /\ e[name] = Partial(p, s.k) /\ \A n \in DOMAIN d : e[n] = d[n]
  BY DEF Added
<1>5. Count(p) \in Nat /\ \A j : Destination(p, j) # name
  BY CountFacts, NameFacts
<1> HIDE DEF name
<1>6. WaitingWhole(p, t, e)
  BY <1>1, <1>2, <1>3, <1>4, <1>5 DEF Work, WaitingWhole, Waiting
<1>7. OwnTemps(p, t, e)
  BY <1>1, <1>2, <1>3, <1>4, <1>5 DEF Work, OwnTemps, Littering, Active
<1>8. Restorable(p, t, e)
  BY <1>1, <1>2, <1>4, <1>5 DEF Work, Restorable, Active, Pending, Exposed, Agree
<1> QED BY <1>1, <1>2, <1>6, <1>7, <1>8
        DEF Work, Unslipped, First, PendingSaved, Pending, Free, NothingLost, Installed,
            InPlace, ClearedGone, Cleared

LEMMA GiveUpWork ==
  ASSUME NEW p \in Invocation, NEW s, NEW t, NEW d, NEW e, Placed(p, s), Work(p, s, d),
         NEW others \in {{}, {"tidy"}}, Goes(s, t, "discard", 1, others),
         \/ s.pc = "open" /\ e = d /\ others = {}
         \/ s.pc = "unlink" /\ e = d /\ t.tidy = FALSE
         \/ s.pc = "unlink" /\ Dropped(d, e, Temp(p, s, s.k)) /\ others = {}
  PROVE  Work(p, t, e)
<1>1. /\ s.staged = s.k - 1 /\ s.k \in 1 .. Count(p) /\ Count(p) \in Nat
      /\ s.original = {} /\ s.installed = {} /\ s.committed = FALSE
  BY CountFacts DEF Placed
<1>2. /\ t.pc = "discard" /\ t.k = 1 /\ t.sequence = s.sequence /\ t.staged = s.staged
      /\ t.original = s.original /\ t.installed = s.installed
      /\ t.committed = s.committed /\ t.before = s.before
  BY GoesTidy
<1>3. others = {} => t.tidy = s.tidy
  BY GoesPlain
<1>4. \A n \in DOMAIN e : n \in DOMAIN d /\ e[n] = d[n]
  BY DEF Dropped
<1>5. OwnTemps(p, t, e)
  <2>1. CASE t.tidy = FALSE
    BY <2>1 DEF OwnTemps
  <2>2. CASE s.pc = "open" /\ t.tidy = s.tidy
    BY <1>1, <1>2, <1>4, <2>2 DEF Work, OwnTemps, Littering, Active, Temp
  <2>3. CASE s.pc = "unlink" /\ t.tidy = s.tidy /\ Temp(p, s, s.k) \notin DOMAIN e
    BY <1>1, <1>2, <1>4, <2>3 DEF Work, OwnTemps, Littering, Active, Temp
  <2> QED BY <1>3, <2>1, <2>2, <2>3 DEF Dropped
<1>6. Restorable(p, t, e)
  <2>1. t.tidy = FALSE \/ \A j : Agree(Destination(p, j), e, d)
    BY NameFacts DEF Dropped, Agree, Temp
  <2> QED BY <1>1, <1>2, <1>3, <2>1 DEF Work, Restorable, Active, Pending, Exposed, Agree
<1> QED BY <1>1, <1>2, <1>5, <1>6
        DEF Work, Unslipped, WaitingWhole, Waiting, First, PendingSaved, Pending, Free,
            NothingLost, Installed, InPlace, ClearedGone, Cleared

(***************************************************************************)
(* stage_artifact: the file is written and closed, or cannot be.           *)
(***************************************************************************)
LEMMA WriteWork ==
  ASSUME NEW p \in Invocation, NEW s, NEW t, NEW d, NEW e, Placed(p, s), Work(p, s, d),
         Sorted(d), s.pc = "write",
         Loops(p, s, t, "open", "reserve", {"attempt", "staged"}), t.staged = s.k,
         Closed(d, e, Partial(p, s.k), Whole(p, s.k))
  PROVE  Work(p, t, e)
<1>1. /\ Keeps(s, t, {"pc", "k", "attempt", "staged"})
      /\ t.pc = (IF s.k < Count(p) THEN "open" ELSE "reserve")
      /\ t.k = IF s.k < Count(p) THEN s.k + 1 ELSE 1
  BY DEF Loops, Goes
<1>2. /\ s.staged = s.k - 1 /\ s.k \in 1 .. Count(p) /\ t.sequence = s.sequence
      /\ s.original = {} /\ s.installed = {} /\ s.committed = FALSE
      /\ t.original = {} /\ t.installed = {} /\ t.committed = FALSE
      /\ t.before = s.before /\ t.tidy = s.tidy
  BY <1>1, FieldsKept, CountFacts, SMTT(60) DEF Placed
<1>3. Count(p) \in Nat
  BY CountFacts
<1>4. \/ t.pc = "open" /\ t.k = s.k + 1 /\ s.k < Count(p)
      \/ t.pc = "reserve" /\ t.k = 1 /\ s.k = Count(p)
  BY <1>1, <1>2, <1>3
<1>5. \A j : Partial(p, s.k) \in Written(p) /\ (Whole(p, j) = Partial(p, s.k) => FALSE)
  BY <1>2, ContentFacts DEF Written
<1>6. WaitingWhole(p, t, e)
  BY <1>2, <1>3, <1>4, <1>5 DEF Work, WaitingWhole, Waiting, Temp, Closed
<1>7. OwnTemps(p, t, e)
  BY <1>2, <1>3, <1>4, <1>5 DEF Work, OwnTemps, Littering, Active, Temp, Closed
<1>8. \A j : Destination(p, j) \in DOMAIN d => d[Destination(p, j)] # Partial(p, s.k)
  BY DestinationFacts, ContentFacts DEF Sorted
<1>9. Restorable(p, t, e)
  BY <1>2, <1>4, <1>8 DEF Work, Restorable, Active, Pending, Exposed, Agree, Closed
<1> QED BY <1>2, <1>4, <1>6, <1>7, <1>9
        DEF Work, Unslipped, First, PendingSaved, Pending, Free,
            NothingLost, Installed, InPlace, ClearedGone, Cleared

LEMMA NotWrittenWork ==
  ASSUME NEW p \in Invocation, NEW s, NEW t, NEW d, Placed(p, s), Work(p, s, d),
         s.pc = "write", Goes(s, t, "unlink", s.k, {})
  PROVE  Work(p, t, d)
<1>1. /\ t.pc = "unlink" /\ t.k = s.k /\ t.sequence = s.sequence /\ t.staged = s.staged
      /\ s.original = {} /\ s.installed = {} /\ s.committed = FALSE
      /\ t.original = {} /\ t.installed = {} /\ t.committed = FALSE
      /\ t.before = s.before /\ t.tidy = s.tidy
  BY GoesPlain DEF Placed
<1> QED BY <1>1
        DEF Work, Unslipped, WaitingWhole, Waiting, OwnTemps, Littering, Active, First, Temp,
            PendingSaved, Pending, Free, Restorable, Exposed, Agree, NothingLost, Installed, InPlace,
            ClearedGone, Cleared

(***************************************************************************)
(* reserve_backups: there is a file to keep, or none.                      *)
(***************************************************************************)
LEMMA ReserveFoundWork ==
  ASSUME NEW p \in Invocation, NEW s, NEW t, NEW d, Placed(p, s), Work(p, s, d),
         s.pc = "reserve", Goes(s, t, "probe", s.k, {"reserved"})
  PROVE  Work(p, t, d)
<1>1. Keeps(s, t, {"pc", "k", "reserved"}) /\ t.pc = "probe" /\ t.k = s.k
  BY DEF Goes
<1>2. /\ t.sequence = s.sequence /\ t.staged = s.staged
      /\ t.original = s.original /\ t.installed = s.installed
      /\ t.committed = s.committed /\ t.before = s.before /\ t.tidy = s.tidy
  BY <1>1, FieldsKept
<1>3. s.installed = {} /\ s.committed = FALSE
  BY DEF Placed
<1>4. WaitingWhole(p, t, d) /\ OwnTemps(p, t, d)
  BY <1>1, <1>2 DEF Work, WaitingWhole, Waiting, OwnTemps, Littering, Active, Temp
<1>5. First(p, t) /\ PendingSaved(p, t, d)
  BY <1>1, <1>2, <1>3 DEF Work, First, Active, PendingSaved, Pending, Old
<1>6. Free(p, t, d) /\ Restorable(p, t, d)
  BY <1>1, <1>2, <1>3 DEF Work, Free, Restorable, Active, Pending, Exposed
<1> QED BY <1>1, <1>2, <1>4, <1>5, <1>6
        DEF Work, Unslipped, NothingLost, Installed, InPlace, ClearedGone, Cleared

LEMMA ReserveNoneWork ==
  ASSUME NEW p \in Invocation, NEW s, NEW t, NEW d, Placed(p, s), Work(p, s, d),
         s.pc = "reserve", Destination(p, s.k) \notin DOMAIN d,
         Loops(p, s, t, "reserve", "install", {})
  PROVE  Work(p, t, d)
<1>1. Count(p) \in Nat /\ s.k \in 1 .. Count(p) /\ s.staged = Count(p)
  BY CountFacts DEF Placed
<1>2. /\ t.pc = (IF s.k < Count(p) THEN "reserve" ELSE "install")
      /\ t.k = (IF s.k < Count(p) THEN s.k + 1 ELSE 1)
      /\ t.sequence = s.sequence /\ t.staged = s.staged
      /\ t.original = s.original /\ t.installed = s.installed
      /\ t.committed = s.committed /\ t.before = s.before /\ t.tidy = s.tidy
  BY GoesPlain DEF Loops
<1>3. \/ t.pc = "reserve" /\ t.k = s.k + 1 /\ s.k < Count(p)
      \/ t.pc = "install" /\ t.k = 1 /\ s.k = Count(p)
  BY <1>1, <1>2
<1>4. s.installed = {} /\ s.committed = FALSE /\ s.tidy
  BY DEF Placed, Work, Unslipped
<1>5. \A j \in 1 .. s.k : Destination(p, j) \notin DOMAIN d
  BY <1>1 DEF Work, Free
<1>6. WaitingWhole(p, t, d) /\ OwnTemps(p, t, d)
  BY <1>1, <1>2, <1>3 DEF Work, WaitingWhole, Waiting, OwnTemps, Littering, Active, Temp
<1>7. First(p, t)
  <2>1. \A j \in 1 .. s.k : Destination(p, j) \in DOMAIN s.before =>
          \E i \in s.original : Destination(p, i) = Destination(p, j)
    BY <1>1, <1>4, <1>5 DEF Work, Restorable, Active, Pending, Exposed, Agree
  <2> QED BY <1>1, <1>2, <1>3, <1>4, <2>1 DEF Work, First, Active
<1>8. PendingSaved(p, t, d)
  BY <1>2, <1>3 DEF Work, PendingSaved, Pending, Old
<1>9. Free(p, t, d) /\ NothingLost(p, t, d)
  BY <1>1, <1>3, <1>5 DEF Free, NothingLost
<1>10. Restorable(p, t, d)
  BY <1>2, <1>3, <1>4 DEF Work, Restorable, Active, Pending, Exposed
<1> QED BY <1>1, <1>2, <1>3, <1>4, <1>6, <1>7, <1>8, <1>9, <1>10
        DEF Work, Unslipped, Installed, InPlace, ClearedGone, Cleared

(***************************************************************************)
(* reserve_backups: the backup name is free.                               *)
(***************************************************************************)
LEMMA ProbeWork ==
  ASSUME NEW p \in Invocation, NEW s, NEW t, NEW d, Placed(p, s), Work(p, s, d),
         s.pc = "probe", Old(p, s, s.k) \notin DOMAIN d, Goes(s, t, "move", s.k, {})
  PROVE  Work(p, t, d)
<1>1. /\ t.pc = "move" /\ t.k = s.k /\ t.sequence = s.sequence /\ t.staged = s.staged
      /\ t.original = s.original /\ t.installed = s.installed
      /\ t.committed = s.committed /\ t.before = s.before /\ t.tidy = s.tidy
  BY GoesPlain
<1>2. s.installed = {} /\ s.committed = FALSE
  BY DEF Placed
<1>3. WaitingWhole(p, t, d) /\ OwnTemps(p, t, d)
  BY <1>1 DEF Work, WaitingWhole, Waiting, OwnTemps, Littering, Active, Temp
<1>4. First(p, t) /\ PendingSaved(p, t, d)
  BY <1>1, <1>2 DEF Work, First, Active, PendingSaved, Pending, Old
<1>5. Free(p, t, d) /\ Restorable(p, t, d)
  BY <1>1, <1>2 DEF Work, Free, Restorable, Active, Pending, Exposed, Old
<1> QED BY <1>1, <1>3, <1>4, <1>5
        DEF Work, Unslipped, NothingLost, Installed, InPlace, ClearedGone, Cleared

(***************************************************************************)
(* reserve_backups: the file to keep gets its backup name.                 *)
(***************************************************************************)
LEMMA MoveWork ==
  ASSUME NEW p \in Invocation, NEW s, NEW t, NEW d, NEW e, Placed(p, s), Work(p, s, d),
         s.pc = "move", Moved(d, e, Destination(p, s.k), Old(p, s, s.k)),
         Loops(p, s, t, "reserve", "install", {"original"}),
         t.original = s.original \union {s.k}
  PROVE  Work(p, t, e)
<1>1. Count(p) \in Nat /\ s.k \in 1 .. Count(p) /\ s.staged = Count(p)
  BY CountFacts DEF Placed
<1>2. /\ Keeps(s, t, {"pc", "k", "original"})
      /\ t.pc = (IF s.k < Count(p) THEN "reserve" ELSE "install")
      /\ t.k = (IF s.k < Count(p) THEN s.k + 1 ELSE 1)
  BY DEF Loops, Goes
<1>3. /\ t.sequence = s.sequence /\ t.staged = s.staged /\ t.installed = s.installed
      /\ t.committed = s.committed /\ t.before = s.before /\ t.tidy = s.tidy
  BY <1>2, FieldsKept
<1>4. \/ t.pc = "reserve" /\ t.k = s.k + 1 /\ s.k < Count(p)
      \/ t.pc = "install" /\ t.k = 1 /\ s.k = Count(p)
  BY <1>1, <1>2
<1>5. /\ s.installed = {} /\ s.committed = FALSE /\ s.tidy
      /\ s.original \subseteq 1 .. s.k - 1
  BY DEF Placed, Work, Unslipped
<1>6. \A j \in 1 .. s.k - 1 : Destination(p, j) \notin DOMAIN d
  BY DEF Work, Free
<1>7. Destination(p, s.k) \in DOMAIN d /\ Old(p, s, s.k) \notin DOMAIN d
  BY DEF Work, Free, Moved
<1>8. /\ \A j : Old(p, s, s.k) # Destination(p, j)
      /\ \A j, a : /\ Temporary(p, j, a) # Old(p, s, s.k)
                   /\ Temporary(p, j, a) # Destination(p, s.k)
      /\ \A j \in s.original : /\ Old(p, s, j) # Destination(p, s.k)
                               /\ Old(p, s, j) # Old(p, s, s.k)
  BY <1>5, NameFacts DEF Old
<1>9. Agree(Destination(p, s.k), d, s.before)
  <2>1. \A i \in s.original : Destination(p, i) # Destination(p, s.k)
    BY <1>1, <1>5, <1>6, <1>7
  <2> QED BY <1>1, <1>5, <2>1 DEF Work, Restorable, Active, Pending, Exposed
<1>10. \A n : n[1] = "tmp" => Agree(n, e, d)
  BY DestinationFacts, NameFacts DEF Moved, Agree, Old
<1>11. \A j : /\ Destination(p, j) = Destination(p, s.k) => Destination(p, j) \notin DOMAIN e
              /\ Destination(p, j) # Destination(p, s.k) =>
                   Agree(Destination(p, j), e, d)
  BY <1>8 DEF Moved, Agree
<1>12. WaitingWhole(p, t, e)
  BY <1>1, <1>3, <1>4, <1>10, NameFacts DEF Work, WaitingWhole, Waiting, Temp, Agree
<1>13. OwnTemps(p, t, e)
  BY <1>1, <1>3, <1>4, <1>10 DEF Work, OwnTemps, Littering, Active, Temp, Agree
<1>14. First(p, t)
  <2>1. \A j \in 1 .. Count(p) : Destination(p, j) = Destination(p, s.k) => s.k <= j
    BY <1>1, <1>6, <1>7
  <2>2. \A j \in 1 .. s.k : Destination(p, j) \in DOMAIN s.before =>
          \E i \in t.original : Destination(p, i) = Destination(p, j)
    <3>1. \A j \in 1 .. s.k - 1 : Destination(p, j) \in DOMAIN s.before =>
            \E i \in s.original : Destination(p, i) = Destination(p, j)
      BY <1>1, <1>5, <1>6 DEF Work, Restorable, Active, Pending, Exposed, Agree
    <3> QED BY <1>1, <3>1
  <2> QED BY <1>1, <1>3, <1>4, <1>5, <1>7, <1>9, <2>1, <2>2 DEF Work, First, Active, Agree
<1>15. PendingSaved(p, t, e)
  <2>1. e[Old(p, s, s.k)] = s.before[Destination(p, s.k)] /\ Old(p, s, s.k) \in DOMAIN e
    BY <1>7, <1>9 DEF Moved, Agree
  <2>2. \A i \in s.original : /\ Old(p, s, i) \in DOMAIN e
                              /\ e[Old(p, s, i)] = s.before[Destination(p, i)]
    BY <1>8 DEF Work, PendingSaved, Pending, Moved
  <2> QED BY <1>3, <2>1, <2>2 DEF PendingSaved, Pending, Old
<1>16. Free(p, t, e) /\ NothingLost(p, t, e)
  <2>1. \A j \in 1 .. s.k : Destination(p, j) \notin DOMAIN e
    BY <1>1, <1>6, <1>11 DEF Agree
  <2> QED BY <1>1, <1>4, <2>1 DEF Free, NothingLost
<1>17. Restorable(p, t, e)
  <2>1. s.k \in Pending(t) /\ Pending(s) \subseteq Pending(t) /\ Exposed(s) = {}
    BY <1>4, <1>5 DEF Pending, Exposed
  <2> QED BY <1>1, <1>3, <1>4, <1>5, <1>11, <2>1 DEF Work, Restorable, Active, Agree
<1> QED BY <1>3, <1>4, <1>5, <1>12, <1>13, <1>14, <1>15, <1>16, <1>17
        DEF Work, Unslipped, Installed, InPlace, ClearedGone, Cleared

(***************************************************************************)
(* restore_artifacts begins: from reserve_backups with the outputs before  *)
(* the one that failed, from commit_artifacts or the stream with all.      *)
(***************************************************************************)
LEMMA RestoreEarlyWork ==
  ASSUME NEW p \in Invocation, NEW s, NEW t, NEW d, Placed(p, s), Work(p, s, d),
         s.pc \in {"reserve", "probe", "move"}, Restores(s, t, s.k - 1, {})
  PROVE  Work(p, t, d)
<1>1. Count(p) \in Nat /\ s.k \in 1 .. Count(p) /\ s.staged = Count(p)
  BY CountFacts DEF Placed
<1>2. /\ t.pc = (IF s.k - 1 = 0 THEN "discard" ELSE "withdraw")
      /\ t.k = (IF s.k - 1 = 0 THEN 1 ELSE s.k - 1)
      /\ t.sequence = s.sequence /\ t.staged = s.staged
      /\ t.original = s.original /\ t.installed = s.installed
      /\ t.committed = s.committed /\ t.before = s.before /\ t.tidy = s.tidy
  BY GoesPlain DEF Restores
<1>3. \/ t.pc = "discard" /\ t.k = 1 /\ s.k = 1
      \/ t.pc = "withdraw" /\ t.k = s.k - 1 /\ s.k > 1
  BY <1>1, <1>2
<1>4. s.installed = {} /\ s.committed = FALSE /\ s.original \subseteq 1 .. s.k - 1
  BY DEF Placed
<1>5. Pending(t) = s.original /\ Pending(s) = s.original /\ Exposed(s) = {} /\ Cleared(t) = {}
  BY <1>1, <1>2, <1>3, <1>4 DEF Pending, Exposed, Cleared
<1>6. OwnTemps(p, t, d)
  BY <1>1, <1>2, <1>3 DEF Work, OwnTemps, Littering, Active, Temp
<1>7. First(p, t)
  BY <1>2, <1>3, <1>4 DEF Work, First, Active
<1>8. PendingSaved(p, t, d)
  BY <1>2, <1>5 DEF Work, PendingSaved, Old
<1>9. Restorable(p, t, d)
  BY <1>2, <1>5 DEF Work, Restorable, Active
<1>10. NothingLost(p, t, d)
  BY <1>1, <1>2, <1>3, <1>4 DEF Work, NothingLost, Free
<1> QED BY <1>2, <1>3, <1>4, <1>5, <1>6, <1>7, <1>8, <1>9, <1>10
        DEF Work, Unslipped, WaitingWhole, Waiting, Free, Installed, InPlace, ClearedGone

LEMMA RestoreAllWork ==
  ASSUME NEW p \in Invocation, NEW s, NEW t, NEW d, Placed(p, s), Work(p, s, d),
         s.pc \in {"install", "stream"}, Restores(s, t, Count(p), {})
  PROVE  Work(p, t, d)
<1>1. Count(p) \in Nat /\ s.staged = Count(p)
  BY CountFacts DEF Placed
<1>2. /\ t.pc = (IF Count(p) = 0 THEN "discard" ELSE "withdraw")
      /\ t.k = (IF Count(p) = 0 THEN 1 ELSE Count(p))
      /\ t.sequence = s.sequence /\ t.staged = s.staged
      /\ t.original = s.original /\ t.installed = s.installed
      /\ t.committed = s.committed /\ t.before = s.before /\ t.tidy = s.tidy
  BY GoesPlain DEF Restores
<1>3. \/ t.pc = "discard" /\ t.k = 1 /\ Count(p) = 0
      \/ t.pc = "withdraw" /\ t.k = Count(p)
  BY <1>1, <1>2
<1>4. /\ s.committed = FALSE
      /\ s.original \subseteq 1 .. Count(p) /\ s.installed \subseteq 1 .. Count(p)
  BY <1>1 DEF Placed
<1>5. /\ Pending(t) = s.original /\ Pending(s) = s.original
      /\ Exposed(t) = s.installed /\ Exposed(s) = s.installed /\ Cleared(t) = {}
  BY <1>1, <1>2, <1>3, <1>4 DEF Pending, Exposed, Cleared
<1>6. OwnTemps(p, t, d)
  BY <1>1, <1>2, <1>3 DEF Work, OwnTemps, Littering, Active, Temp
<1>7. First(p, t)
  BY <1>2, <1>3, <1>4 DEF Work, First, Active
<1>8. PendingSaved(p, t, d)
  BY <1>2, <1>5 DEF Work, PendingSaved, Old
<1>9. Restorable(p, t, d)
  BY <1>2, <1>5 DEF Work, Restorable, Active
<1>10. NothingLost(p, t, d)
  BY <1>1, <1>2, <1>3, <1>4 DEF Work, NothingLost
<1> QED BY <1>2, <1>3, <1>4, <1>5, <1>6, <1>7, <1>8, <1>9, <1>10
        DEF Work, Unslipped, WaitingWhole, Waiting, Free, Installed, InPlace, ClearedGone

(***************************************************************************)
(* commit_artifacts: a staged file is renamed into place.                  *)
(***************************************************************************)
LEMMA InstallWork ==
  ASSUME NEW p \in Invocation, NEW s, NEW t, NEW d, NEW e, Placed(p, s), Work(p, s, d),
         s.pc = "install", Moved(d, e, Temp(p, s, s.k), Destination(p, s.k)),
         Loops(p, s, t, "install", "stream", {"installed"}),
         t.installed = s.installed \union {s.k}
  PROVE  Work(p, t, e)
<1>1. Count(p) \in Nat /\ s.k \in 1 .. Count(p) /\ s.staged = Count(p)
  BY CountFacts DEF Placed
<1>2. /\ Keeps(s, t, {"pc", "k", "installed"})
      /\ t.pc = (IF s.k < Count(p) THEN "install" ELSE "stream")
      /\ t.k = (IF s.k < Count(p) THEN s.k + 1 ELSE 1)
  BY DEF Loops, Goes
<1>3. /\ t.sequence = s.sequence /\ t.staged = s.staged /\ t.original = s.original
      /\ t.committed = s.committed /\ t.before = s.before /\ t.tidy = s.tidy
  BY <1>2, FieldsKept
<1>4. \/ t.pc = "install" /\ t.k = s.k + 1 /\ s.k < Count(p)
      \/ t.pc = "stream" /\ t.k = 1 /\ s.k = Count(p)
  BY <1>1, <1>2
<1>5. s.committed = FALSE /\ s.tidy /\ s.installed = 1 .. s.k - 1
  BY DEF Placed, Work, Unslipped
<1>6. d[Temp(p, s, s.k)] = Whole(p, s.k)
  BY <1>1 DEF Work, WaitingWhole, Waiting
<1>7. /\ \A n : n[1] = "tmp" /\ n # Temp(p, s, s.k) => Agree(n, e, d)
      /\ \A i \in s.original : Agree(Old(p, s, i), e, d)
      /\ \A j : Destination(p, j) # Destination(p, s.k) => Agree(Destination(p, j), e, d)
  BY DestinationFacts, NameFacts DEF Moved, Agree, Temp, Old
<1>8. /\ Destination(p, s.k) \in DOMAIN e
      /\ e[Destination(p, s.k)] = Whole(p, s.k)
      /\ Temp(p, s, s.k) \notin DOMAIN e
  BY <1>6, NameFacts DEF Moved, Temp
<1>9. WaitingWhole(p, t, e)
  <2>1. \A j \in Waiting(p, t) : j \in Waiting(p, s) /\ j # s.k
    BY <1>1, <1>4 DEF Waiting
  <2>2. \A j \in Waiting(p, t) : Temp(p, s, j) # Temp(p, s, s.k)
    <3> SUFFICES ASSUME NEW j \in Waiting(p, t), Temp(p, s, j) = Temp(p, s, s.k)
                 PROVE  FALSE
      OBVIOUS
    <3>1. Whole(p, j) = Whole(p, s.k)
      BY <1>6, <2>1 DEF Work, WaitingWhole
    <3>2. j # s.k
      BY <2>1
    <3> QED BY <3>1, <3>2 DEF Whole
  <2>3. \A j \in Waiting(p, t) : Agree(Temp(p, s, j), e, d)
    BY <1>7, <2>2, NameFacts DEF Temp
  <2> QED BY <1>3, <1>4, <2>1, <2>3 DEF Work, WaitingWhole, Temp, Agree
<1>10. OwnTemps(p, t, e)
  BY <1>1, <1>3, <1>4, <1>7, <1>8 DEF Work, OwnTemps, Littering, Active, Temp, Agree
<1>11. First(p, t)
  BY <1>3, <1>4 DEF Work, First, Active
<1>12. PendingSaved(p, t, e)
  BY <1>3, <1>4, <1>7 DEF Work, PendingSaved, Pending, Old, Agree
<1>13. Free(p, t, e)
  BY <1>1, <1>4, <1>7 DEF Work, Free, Agree
<1>14. Restorable(p, t, e)
  <2>1. /\ Pending(t) = s.original /\ Pending(s) = s.original
        /\ s.k \in Exposed(t) /\ Exposed(s) \subseteq Exposed(t)
    BY <1>3, <1>4 DEF Pending, Exposed
  <2>2. ASSUME NEW j \in 1 .. Count(p), Destination(p, j) = Destination(p, s.k)
        PROVE  \/ \E i \in Pending(t) : Destination(p, i) = Destination(p, j)
               \/ Destination(p, j) \notin DOMAIN s.before
    BY <2>1, <2>2 DEF Work, First, Active
  <2> QED BY <1>3, <1>5, <1>7, <2>1, <2>2 DEF Work, Restorable, Active, Agree
<1>15. NothingLost(p, t, e)
  BY <1>4, <1>7, <1>8, ContentFacts DEF Work, NothingLost, Agree
<1>16. Installed(p, t, e)
  <2>1. \A j \in InPlace(p, t) : j = s.k \/ j \in InPlace(p, s)
    BY <1>1, <1>4 DEF InPlace
  <2> QED BY <1>1, <1>7, <1>8, <2>1 DEF Work, Installed, InPlace, Agree
<1> QED BY <1>3, <1>4, <1>5, <1>9, <1>10, <1>11, <1>12, <1>13, <1>14, <1>15, <1>16
        DEF Work, Unslipped, ClearedGone, Cleared

(***************************************************************************)
(* The output meant for standard output is written: there is no way back.  *)
(***************************************************************************)
LEMMA StreamWork ==
  ASSUME NEW p \in Invocation, NEW s, NEW t, NEW d, Placed(p, s), Work(p, s, d),
         s.pc = "stream", t.committed = TRUE,
         Goes(s, t, IF 1 <= Count(p) THEN "unbackup" ELSE "discard", 1, {"committed"})
  PROVE  Work(p, t, d)
<1>1. Count(p) \in Nat /\ s.staged = Count(p) /\ s.original \subseteq 1 .. Count(p)
  BY CountFacts DEF Placed
<1>2. /\ Keeps(s, t, {"pc", "k", "committed"}) /\ t.k = 1
      /\ t.pc = IF 1 <= Count(p) THEN "unbackup" ELSE "discard"
  BY DEF Goes
<1>3. /\ t.sequence = s.sequence /\ t.staged = s.staged
      /\ t.original = s.original /\ t.installed = s.installed
      /\ t.before = s.before /\ t.tidy = s.tidy
  BY <1>2, FieldsKept
<1>4. \/ t.pc = "unbackup" /\ 1 <= Count(p)
      \/ t.pc = "discard" /\ Count(p) = 0
  BY <1>1, <1>2
<1>5. OwnTemps(p, t, d)
  BY <1>1, <1>2, <1>3, <1>4 DEF Work, OwnTemps, Littering, Active, Temp
<1>6. First(p, t)
  BY <1>3, <1>4 DEF Work, First, Active
<1>7. Installed(p, t, d)
  BY <1>3, <1>4 DEF Work, Installed, InPlace
<1>8. Cleared(t) = {}
  BY <1>1, <1>2, <1>3, <1>4 DEF Cleared
<1> QED BY <1>2, <1>3, <1>4, <1>5, <1>6, <1>7, <1>8
        DEF Work, Unslipped, WaitingWhole, Waiting, PendingSaved, Pending, Free,
            Restorable, NothingLost, ClearedGone

(***************************************************************************)
(* remove_backups: the backup of an output is removed, there is none, or   *)
(* the call fails.                                                         *)
(***************************************************************************)
LEMMA RemoveBackupWork ==
  ASSUME NEW p \in Invocation, NEW s, NEW t, NEW d, NEW e, Placed(p, s), Work(p, s, d),
         s.pc = "unbackup", NEW others \in {{}, {"tidy"}},
         Loops(p, s, t, "unbackup", "discard", others),
         \/ s.k \in s.reserved /\ Dropped(d, e, Old(p, s, s.k)) /\ others = {}
         \/ s.k \notin s.reserved /\ e = d /\ others = {}
         \/ e = d /\ t.tidy = FALSE
  PROVE  Work(p, t, e)
<1>1. Count(p) \in Nat /\ s.k \in 1 .. Count(p) /\ s.staged = Count(p) /\ s.committed
  BY CountFacts DEF Placed
<1>2. /\ t.pc = (IF s.k < Count(p) THEN "unbackup" ELSE "discard")
      /\ t.k = (IF s.k < Count(p) THEN s.k + 1 ELSE 1)
      /\ t.sequence = s.sequence /\ t.staged = s.staged
      /\ t.original = s.original /\ t.installed = s.installed
      /\ t.committed = s.committed /\ t.before = s.before
  BY GoesTidy DEF Loops
<1>3. \/ t.pc = "unbackup" /\ t.k = s.k + 1 /\ s.k < Count(p)
      \/ t.pc = "discard" /\ t.k = 1 /\ s.k = Count(p)
  BY <1>1, <1>2
<1>4. \/ t.tidy = FALSE
      \/ t.tidy = s.tidy /\ (s.k \in s.original => Old(p, s, s.k) \notin DOMAIN e)
  <2>1. others = {} => t.tidy = s.tidy
    BY GoesPlain DEF Loops
  <2>2. s.original \subseteq s.reserved
    BY DEF Placed
  <2> QED BY <2>1, <2>2 DEF Dropped
<1>5. /\ \A n \in DOMAIN e : n \in DOMAIN d /\ e[n] = d[n]
      /\ \A j : Agree(Destination(p, j), e, d)
  BY NameFacts DEF Dropped, Agree, Old
<1>6. s.original \subseteq 1 .. Count(p)
  BY <1>1 DEF Placed
<1>7. OwnTemps(p, t, e)
  <2>1. CASE t.tidy = FALSE
    BY <2>1 DEF OwnTemps
  <2>2. CASE t.tidy = s.tidy
    BY <1>1, <1>2, <1>3, <1>5, <2>2 DEF Work, OwnTemps, Littering, Active, Temp
  <2> QED BY <1>4, <2>1, <2>2
<1>8. First(p, t)
  BY <1>2, <1>3 DEF Work, First, Active
<1>9. Installed(p, t, e)
  BY <1>1, <1>2, <1>3, <1>5 DEF Work, Installed, InPlace, Agree
<1>10. ClearedGone(p, t, e)
  <2>1. \A i \in Cleared(t) : i = s.k \/ i \in Cleared(s)
    BY <1>1, <1>2, <1>3, <1>6 DEF Cleared
  <2> QED BY <1>2, <1>4, <1>5, <2>1 DEF Work, ClearedGone, Cleared, Old
<1> QED BY <1>1, <1>2, <1>3, <1>7, <1>8, <1>9, <1>10
        DEF Work, Unslipped, WaitingWhole, Waiting, PendingSaved, Pending, Free,
            Restorable, NothingLost

(***************************************************************************)
(* restore_artifacts: what was installed is removed, nothing was, or the   *)
(* call fails.                                                             *)
(***************************************************************************)
LEMMA WithdrawWork ==
  ASSUME NEW p \in Invocation, NEW s, NEW t, NEW d, NEW e, Placed(p, s), Work(p, s, d),
         s.pc = "withdraw", NEW others \in {{}, {"tidy"}},
         Goes(s, t, "putback", s.k, others),
         \/ s.k \in s.installed /\ Dropped(d, e, Destination(p, s.k)) /\ others = {}
         \/ s.k \notin s.installed /\ e = d /\ others = {}
         \/ e = d /\ t.tidy = FALSE
  PROVE  Work(p, t, e)
<1>1. /\ Count(p) \in Nat /\ s.k \in 1 .. Count(p) /\ s.staged = Count(p) /\ s.committed = FALSE
      /\ s.original \subseteq 1 .. Count(p) /\ s.installed \subseteq 1 .. Count(p)
  BY CountFacts DEF Placed
<1>2. /\ t.pc = "putback" /\ t.k = s.k /\ t.sequence = s.sequence /\ t.staged = s.staged
      /\ t.original = s.original /\ t.installed = s.installed
      /\ t.committed = s.committed /\ t.before = s.before
  BY GoesTidy
<1>3. others = {} => t.tidy = s.tidy
  BY GoesPlain
<1>4. /\ \A n \in DOMAIN e : n \in DOMAIN d /\ e[n] = d[n]
      /\ \A i : Agree(Old(p, s, i), e, d)
  BY NameFacts DEF Dropped, Agree, Old
<1>5. Pending(t) = Pending(s) /\ Cleared(t) = Cleared(s)
  BY <1>2 DEF Pending, Cleared
<1>6. OwnTemps(p, t, e)
  <2>1. CASE t.tidy = FALSE
    BY <2>1 DEF OwnTemps
  <2>2. CASE t.tidy = s.tidy
    BY <1>2, <1>4, <2>2 DEF Work, OwnTemps, Littering, Active, Temp
  <2> QED BY <1>3, <2>1, <2>2
<1>7. First(p, t)
  BY <1>2 DEF Work, First, Active
<1>8. PendingSaved(p, t, e)
  BY <1>2, <1>4, <1>5 DEF Work, PendingSaved, Old, Agree
<1>9. NothingLost(p, t, e)
  BY <1>2, <1>4 DEF Work, NothingLost
<1>10. ClearedGone(p, t, e)
  BY <1>2, <1>3, <1>4, <1>5 DEF Work, ClearedGone, Old
<1>11. Restorable(p, t, e)
  <2>1. CASE t.tidy = FALSE
    BY <2>1 DEF Restorable
  <2>2. CASE s.k \notin s.installed /\ e = d /\ t.tidy = s.tidy
    <3>1. Exposed(s) \subseteq Exposed(t)
      BY <1>1, <1>2, <2>2 DEF Exposed
    <3> QED BY <1>1, <1>2, <1>5, <2>2, <3>1 DEF Work, Restorable, Active
  <2>3. CASE /\ s.k \in s.installed /\ Dropped(d, e, Destination(p, s.k))
             /\ t.tidy = s.tidy
    <3>1. /\ Destination(p, s.k) \notin DOMAIN e
          /\ \A j : Destination(p, j) # Destination(p, s.k) =>
                      Agree(Destination(p, j), e, d)
      BY <2>3 DEF Dropped, Agree
    <3>2. \A i \in Exposed(s) : i = s.k \/ i \in Exposed(t)
      BY <1>1, <1>2 DEF Exposed
    <3>3. CASE Destination(p, s.k) \in DOMAIN s.before
      <4>1. PICK i \in s.original : Destination(p, i) = Destination(p, s.k)
        BY <1>1, <2>3, <3>3 DEF Work, First, Active
      <4>2. i <= s.k
        BY <1>1, <4>1 DEF Work, First, Active
      <4>3. i \in Pending(t)
        BY <1>2, <4>1, <4>2 DEF Pending
      <4> QED BY <1>1, <1>2, <1>5, <2>3, <3>1, <3>2, <3>3, <4>1, <4>3
              DEF Work, Restorable, Active, Agree
    <3>4. CASE Destination(p, s.k) \notin DOMAIN s.before
      BY <1>1, <1>2, <1>5, <2>3, <3>1, <3>2, <3>4 DEF Work, Restorable, Active, Agree
    <3> QED BY <3>3, <3>4
  <2> QED BY <1>3, <2>1, <2>2, <2>3
<1> QED BY <1>2, <1>6, <1>7, <1>8, <1>9, <1>10, <1>11
        DEF Work, Unslipped, WaitingWhole, Waiting, Free, Installed, InPlace

(***************************************************************************)
(* restore_artifacts: what was there before is renamed back, there was     *)
(* nothing, or the call fails.                                             *)
(***************************************************************************)
LEMMA PutBackWork ==
  ASSUME NEW p \in Invocation, NEW s, NEW t, NEW d, NEW e, Placed(p, s), Work(p, s, d),
         s.pc = "putback", NEW others \in {{}, {"tidy"}},
         Restores(s, t, s.k - 1, others),
         \/ /\ s.k \in s.original /\ others = {}
            /\ Moved(d, e, Old(p, s, s.k), Destination(p, s.k))
         \/ (s.k \in s.original => Old(p, s, s.k) \notin DOMAIN d) /\ e = d /\ others = {}
         \/ e = d /\ t.tidy = FALSE
  PROVE  Work(p, t, e)
<1>1. /\ Count(p) \in Nat /\ s.k \in 1 .. Count(p) /\ s.staged = Count(p) /\ s.committed = FALSE
      /\ s.original \subseteq 1 .. Count(p) /\ s.installed \subseteq 1 .. Count(p)
  BY CountFacts DEF Placed
<1>2. /\ t.pc = (IF s.k - 1 = 0 THEN "discard" ELSE "withdraw")
      /\ t.k = (IF s.k - 1 = 0 THEN 1 ELSE s.k - 1)
      /\ t.sequence = s.sequence /\ t.staged = s.staged
      /\ t.original = s.original /\ t.installed = s.installed
      /\ t.committed = s.committed /\ t.before = s.before
  BY GoesTidy DEF Restores
<1>3. \/ t.pc = "discard" /\ t.k = 1 /\ s.k = 1
      \/ t.pc = "withdraw" /\ t.k = s.k - 1 /\ s.k > 1
  BY <1>1, <1>2
<1>4. others = {} => t.tidy = s.tidy
  BY GoesPlain DEF Restores
<1>5. /\ Pending(t) = Pending(s) \ {s.k} /\ Exposed(t) = Exposed(s)
      /\ Cleared(t) = Cleared(s) \union ({s.k} \cap s.original)
  BY <1>1, <1>2, <1>3 DEF Pending, Exposed, Cleared
<1>6. s.k \in s.original => s.k \in Pending(s)
  BY <1>1 DEF Pending
<1>7. First(p, t)
  BY <1>2, <1>3 DEF Work, First, Active
<1>8. CASE e = d /\ t.tidy = FALSE
  <2>1. PendingSaved(p, t, e)
    BY <1>2, <1>5, <1>8 DEF Work, PendingSaved, Old
  <2>2. NothingLost(p, t, e)
    BY <1>1, <1>2, <1>3, <1>8 DEF Work, NothingLost
  <2> QED BY <1>1, <1>2, <1>3, <1>7, <1>8, <2>1, <2>2
          DEF Work, Unslipped, WaitingWhole, Waiting, OwnTemps, Free, Restorable, Installed,
              InPlace, ClearedGone
<1>9. CASE /\ s.k \in s.original => Old(p, s, s.k) \notin DOMAIN d
           /\ e = d /\ t.tidy = s.tidy
  <2>1. s.k \notin s.original /\ Pending(t) = Pending(s) /\ Cleared(t) = Cleared(s)
    BY <1>5, <1>6, <1>9 DEF Work, PendingSaved, Pending
  <2>2. OwnTemps(p, t, e)
    BY <1>1, <1>2, <1>3, <1>9 DEF Work, OwnTemps, Littering, Active, Temp
  <2>3. PendingSaved(p, t, e) /\ ClearedGone(p, t, e)
    BY <1>2, <1>9, <2>1 DEF Work, PendingSaved, ClearedGone, Old
  <2>4. NothingLost(p, t, e)
    BY <1>1, <1>2, <1>3, <1>9 DEF Work, NothingLost
  <2>5. Restorable(p, t, e)
    BY <1>2, <1>5, <1>9, <2>1 DEF Work, Restorable, Active
  <2> QED BY <1>1, <1>2, <1>3, <1>7, <2>2, <2>3, <2>4, <2>5
          DEF Work, Unslipped, WaitingWhole, Waiting, Free, Installed, InPlace
<1>10. CASE /\ s.k \in s.original /\ t.tidy = s.tidy
            /\ Moved(d, e, Old(p, s, s.k), Destination(p, s.k))
  <2>1. /\ Destination(p, s.k) \in DOMAIN e
        /\ e[Destination(p, s.k)] = s.before[Destination(p, s.k)]
    BY <1>6, <1>10 DEF Work, PendingSaved, Moved
  <2>2. /\ Destination(p, s.k) \in DOMAIN s.before
        /\ \A j \in 1 .. Count(p) : Destination(p, j) = Destination(p, s.k) => s.k <= j
    BY <1>10 DEF Work, First, Active
  <2>3. /\ Old(p, s, s.k) \notin DOMAIN e
        /\ \A j : Destination(p, j) # Destination(p, s.k) => Agree(Destination(p, j), e, d)
        /\ \A i : i # s.k => Agree(Old(p, s, i), e, d)
        /\ \A n : n[1] = "tmp" => Agree(n, e, d)
    BY <1>10, DestinationFacts, NameFacts DEF Moved, Agree, Old
  <2>4. OwnTemps(p, t, e)
    BY <1>1, <1>2, <1>3, <1>10, <2>3 DEF Work, OwnTemps, Littering, Active, Temp, Agree
  <2>5. PendingSaved(p, t, e)
    BY <1>2, <1>5, <2>3 DEF Work, PendingSaved, Old, Agree
  <2>6. NothingLost(p, t, e)
    BY <1>1, <1>2, <1>3, <2>2, <2>3 DEF Work, NothingLost, Agree
  <2>7. Restorable(p, t, e)
    <3>1. \A i \in Pending(s) : i = s.k \/ i \in Pending(t)
      BY <1>5
    <3> QED BY <1>2, <1>5, <1>10, <2>1, <2>2, <2>3, <3>1 DEF Work, Restorable, Active, Agree
  <2>8. ClearedGone(p, t, e)
    BY <1>2, <1>5, <1>10, <2>3 DEF Work, ClearedGone, Old, Agree
  <2> QED BY <1>1, <1>2, <1>3, <1>7, <2>4, <2>5, <2>6, <2>7, <2>8
          DEF Work, Unslipped, WaitingWhole, Waiting, Free, Installed, InPlace
<1> QED BY <1>4, <1>8, <1>9, <1>10

(***************************************************************************)
(* discard_staged_artifacts: a temporary file is removed, if it is there,  *)
(* or the call fails.                                                      *)
(***************************************************************************)
LEMMA DiscardWork ==
  ASSUME NEW p \in Invocation, NEW s, NEW t, NEW d, NEW e, Placed(p, s), Work(p, s, d),
         s.pc = "discard", NEW others \in {{}, {"tidy"}},
         Goes(s, t, "discard", s.k + 1, others),
         \/ Dropped(d, e, Temp(p, s, s.k)) /\ others = {}
         \/ e = d /\ t.tidy = FALSE
  PROVE  Work(p, t, e)
<1>1. Count(p) \in Nat /\ s.k \in Nat /\ s.staged \in Nat
  BY CountFacts DEF Placed
<1>2. /\ t.pc = "discard" /\ t.k = s.k + 1 /\ t.sequence = s.sequence /\ t.staged = s.staged
      /\ t.original = s.original /\ t.installed = s.installed
      /\ t.committed = s.committed /\ t.before = s.before
  BY GoesTidy
<1>3. \/ t.tidy = FALSE
      \/ t.tidy = s.tidy /\ Temp(p, s, s.k) \notin DOMAIN e
  BY GoesPlain DEF Dropped
<1>4. /\ \A n \in DOMAIN e : n \in DOMAIN d /\ e[n] = d[n]
      /\ \A j : Agree(Destination(p, j), e, d)
  BY NameFacts DEF Dropped, Agree, Temp
<1>5. OwnTemps(p, t, e)
  <2>1. CASE t.tidy = FALSE
    BY <2>1 DEF OwnTemps
  <2>2. CASE t.tidy = s.tidy /\ Temp(p, s, s.k) \notin DOMAIN e
    <3>1. \A j \in Littering(p, s) : j = s.k \/ j \in Littering(p, t)
      BY <1>1, <1>2 DEF Littering
    <3> QED BY <1>2, <1>4, <2>2, <3>1 DEF Work, OwnTemps, Active, Temp
  <2> QED BY <1>3, <2>1, <2>2
<1>6. First(p, t)
  BY <1>2 DEF Work, First, Active
<1>7. Restorable(p, t, e)
  BY <1>2, <1>3, <1>4 DEF Work, Restorable, Active, Pending, Exposed, Agree
<1>8. Installed(p, t, e)
  BY <1>2, <1>4 DEF Work, Installed, InPlace, Agree
<1>9. ClearedGone(p, t, e)
  BY <1>2, <1>3, <1>4 DEF Work, ClearedGone, Cleared, Old
<1> QED BY <1>2, <1>5, <1>6, <1>7, <1>8, <1>9
        DEF Work, Unslipped, WaitingWhole, Waiting, PendingSaved, Pending, Free, NothingLost

-----------------------------------------------------------------------------
(* What a step does for the other invocations and the files they keep.     *)

\* Of the temporary files only those of p change, and those that may be
\* partial stay under temporary names.
Undisturbed(p, d, e) ==
  /\ Sorted(e)
  /\ \A n \in DOMAIN e : n[1] = "tmp" => \/ n \in DOMAIN d /\ e[n] = d[n]
                                         \/ e[n] \in Written(p)

\* No file that was there to begin with is lost.
Preserved(d, e) ==
  \A n \in DOMAIN d : d[n][1] = "earlier" => \E m \in DOMAIN e : e[m] = d[n]

(***************************************************************************)
(* Opening and closing a file that an output is staged in.                 *)
(***************************************************************************)
LEMMA StagingKeeps ==
  ASSUME NEW p \in Invocation, NEW k \in 1 .. Count(p), NEW a, NEW d, NEW e, Sorted(d),
         \/ Added(d, e, Temporary(p, k, a), Partial(p, k))
         \/ Closed(d, e, Partial(p, k), Whole(p, k))
  PROVE  Undisturbed(p, d, e) /\ Preserved(d, e)
<1>1. Partial(p, k) \in Written(p) /\ Whole(p, k) \in Written(p)
  BY DEF Written
<1>2. CASE Added(d, e, Temporary(p, k, a), Partial(p, k))
  BY <1>1, <1>2, NameFacts, ContentFacts DEF Added, Undisturbed, Sorted, Preserved
<1>3. CASE Closed(d, e, Partial(p, k), Whole(p, k))
  BY <1>1, <1>3, ContentFacts DEF Closed, Undisturbed, Sorted, Preserved
<1> QED BY <1>2, <1>3

(***************************************************************************)
(* Removing a name, and renaming to a name that is not temporary.          *)
(***************************************************************************)
LEMMA DroppingKeeps ==
  ASSUME NEW p, NEW d, NEW e, NEW name, Sorted(d), Dropped(d, e, name)
  PROVE  /\ Undisturbed(p, d, e)
         /\ (name \in DOMAIN d => d[name][1] # "earlier") => Preserved(d, e)
<1>1. \A n \in DOMAIN d : n # name => n \in DOMAIN e /\ e[n] = d[n]
  BY DEF Dropped
<1> QED BY <1>1 DEF Dropped, Undisturbed, Sorted, Preserved

LEMMA MovingKeeps ==
  ASSUME NEW p, NEW d, NEW e, NEW source, NEW destination, Sorted(d),
         Moved(d, e, source, destination), destination[1] # "tmp",
         d[source][1] # "partial",
         destination \in DOMAIN d => d[destination][1] # "earlier"
  PROVE  Undisturbed(p, d, e) /\ Preserved(d, e)
<1>1. \A n \in DOMAIN d : n # source /\ n # destination => n \in DOMAIN e /\ e[n] = d[n]
  BY DEF Moved
<1>2. destination \in DOMAIN e /\ e[destination] = d[source] /\ source \in DOMAIN d
  BY DEF Moved
<1>3. Preserved(d, e)
  BY <1>1, <1>2 DEF Preserved
<1>4. Undisturbed(p, d, e)
  BY <1>2 DEF Moved, Undisturbed, Sorted
<1> QED BY <1>3, <1>4

LEMMA NothingKeeps ==
  ASSUME NEW p, NEW d, Sorted(d)
  PROVE  Undisturbed(p, d, d) /\ Preserved(d, d)
BY DEF Undisturbed, Preserved

(***************************************************************************)
(* An invocation that is not at work, when another one is.                 *)
(***************************************************************************)
LEMMA OthersWork ==
  ASSUME NEW p, NEW q, p # q, NEW u, NEW d, NEW e, Work(q, u, d), ~ Active(u),
         Undisturbed(p, d, e)
  PROVE  Work(q, u, e)
<1>1. OwnTemps(q, u, e)
  <2>1. Written(p) \cap Written(q) = {}
    BY DEF Written, Partial, Whole
  <2>2. u.pc = "idle" => Littering(q, u) = {}
    BY DEF Littering
  <2> QED BY <2>1, <2>2 DEF Work, OwnTemps, Active, Undisturbed
<1>2. u.pc \in {"idle", "done", "failed", "crashed"}
  BY DEF Active
<1> QED BY <1>1, <1>2
        DEF Work, WaitingWhole, Waiting, Active, First, PendingSaved, Pending,
            Free, Restorable, NothingLost, Installed, InPlace, ClearedGone, Cleared

\* What a step of p, from state s to t and directory d to e, brings about.
Sound(p, s, t, d, e) ==
  /\ Work(p, t, e)
  /\ Undisturbed(p, d, e)
  /\ s.committed => t.committed
  /\ t.committed \/ Preserved(d, e)

(***************************************************************************)
(* No transfer of control takes back that everything is in place.          *)
(***************************************************************************)
LEMMA CommittedKept ==
  ASSUME NEW p, NEW s, NEW t, NEW label, NEW exit, NEW k, NEW others,
         "committed" \notin others,
         \/ Keeps(s, t, others)
         \/ Goes(s, t, label, k, others)
         \/ Loops(p, s, t, label, exit, others)
         \/ Restores(s, t, k, others)
  PROVE  t.committed = s.committed
<1>1. Keeps(s, t, others) \/ Keeps(s, t, {"pc", "k"} \union others)
  BY DEF Goes, Loops, Restores
<1> QED BY <1>1, FieldsKept

(***************************************************************************)
(* One lemma for each group of operations, as they follow in the code.     *)
(***************************************************************************)
LEMMA StagingSound ==
  ASSUME TypeInv, Sorted(directory), NEW p \in Invocation,
         Work(p, invocation[p], directory),
         Open(p) \/ Write(p) \/ Unlink(p)
  PROVE  Active(invocation[p]) /\
         Sound(p, invocation[p], invocation'[p], directory, directory')
<1> DEFINE s == invocation[p]
           t == invocation'[p]
           d == directory
           e == directory'
<1>1. Placed(p, s) /\ Work(p, s, d) /\ Sorted(d)
  BY DEF TypeInv
<1>2. s.pc \in {"open", "write", "unlink"} => s.k \in 1 .. Count(p) /\ Active(s)
  BY <1>1, CountFacts DEF Placed, Active
<1>3. Undisturbed(p, d, d) /\ Preserved(d, d)
  BY <1>1, NothingKeeps
<1>4. CASE Open(p)
  <2>1. CASE e = d /\ Keeps(s, t, {"attempt"}) /\ s.pc = "open"
    BY <1>1, <1>2, <1>3, <2>1, OpenAgainWork, CommittedKept DEF Sound
  <2>2. CASE e = d /\ Goes(s, t, "discard", 1, {}) /\ s.pc = "open"
    BY <1>1, <1>2, <1>3, <2>2, GiveUpWork, CommittedKept DEF Sound
  <2>3. CASE /\ s.pc = "open" /\ Goes(s, t, "write", s.k, {"sequence"}) /\ Chooses(s, t)
             /\ ~ Exists(Temporary(p, s.k, s.attempt))
             /\ Create(Temporary(p, s.k, s.attempt), Partial(p, s.k))
    <3>1. Added(d, e, Temporary(p, s.k, s.attempt), Partial(p, s.k))
      BY <2>3, Effects
    <3>2. Undisturbed(p, d, e) /\ Preserved(d, e)
      BY <1>1, <1>2, <2>3, <3>1, StagingKeeps
    <3> QED BY <1>1, <1>2, <2>3, <3>1, <3>2, OpenWork, CommittedKept DEF Sound
  <2> QED BY <1>4, <2>1, <2>2, <2>3, OpenOutcome
<1>5. CASE Write(p)
  <2>1. CASE /\ s.pc = "write"
             /\ e = [n \in DOMAIN d |->
                       IF d[n] = Partial(p, s.k) THEN Whole(p, s.k) ELSE d[n]]
             /\ Loops(p, s, t, "open", "reserve", {"attempt", "staged"})
             /\ t.staged = s.k
    <3>1. Closed(d, e, Partial(p, s.k), Whole(p, s.k))
      BY <2>1, Effects
    <3>2. Undisturbed(p, d, e) /\ Preserved(d, e)
      BY <1>1, <1>2, <2>1, <3>1, StagingKeeps
    <3> QED BY <1>1, <1>2, <2>1, <3>1, <3>2, WriteWork, CommittedKept DEF Sound
  <2>2. CASE s.pc = "write" /\ e = d /\ Goes(s, t, "unlink", s.k, {})
    BY <1>1, <1>2, <1>3, <2>2, NotWrittenWork, CommittedKept DEF Sound
  <2> QED BY <1>5, <2>1, <2>2, WriteOutcome
<1>6. CASE Unlink(p)
  <2>1. CASE /\ s.pc = "unlink" /\ Remove(Temp(p, s, s.k))
             /\ Goes(s, t, "discard", 1, {})
    <3>1. Dropped(d, e, Temp(p, s, s.k))
      BY <2>1, Effects
    <3>2. Undisturbed(p, d, e) /\ Preserved(d, e)
      <4>1. Temp(p, s, s.k) \in DOMAIN d => d[Temp(p, s, s.k)][1] # "earlier"
        BY <1>1, NameFacts DEF Sorted, Temp
      <4> QED BY <1>1, <3>1, <4>1, DroppingKeeps
    <3> QED BY <1>1, <1>2, <2>1, <3>1, <3>2, GiveUpWork, CommittedKept DEF Sound
  <2>2. CASE /\ s.pc = "unlink" /\ e = d /\ t.tidy = FALSE
             /\ Goes(s, t, "discard", 1, {"tidy"})
    BY <1>1, <1>2, <1>3, <2>2, GiveUpWork, CommittedKept DEF Sound
  <2> QED BY <1>6, <2>1, <2>2, UnlinkOutcome
<1> QED BY <1>4, <1>5, <1>6

LEMMA ReserveSound ==
  ASSUME TypeInv, Sorted(directory), NEW p \in Invocation,
         Work(p, invocation[p], directory),
         Reserve(p) \/ Probe(p) \/ Move(p)
  PROVE  Active(invocation[p]) /\
         Sound(p, invocation[p], invocation'[p], directory, directory')
<1> DEFINE s == invocation[p]
           t == invocation'[p]
           d == directory
           e == directory'
<1>1. Placed(p, s) /\ Work(p, s, d) /\ Sorted(d)
  BY DEF TypeInv
<1>2. s.pc \in {"reserve", "probe", "move"} => Active(s)
  BY DEF Active
<1>3. Undisturbed(p, d, d) /\ Preserved(d, d)
  BY <1>1, NothingKeeps
<1>4. CASE s.pc \in {"reserve", "probe", "move"} /\ e = d /\ Restores(s, t, s.k - 1, {})
  BY <1>1, <1>2, <1>3, <1>4, RestoreEarlyWork, CommittedKept DEF Sound
<1>5. CASE Reserve(p)
  <2>1. CASE s.pc = "reserve" /\ e = d /\ Goes(s, t, "probe", s.k, {"reserved"})
    BY <1>1, <1>2, <1>3, <2>1, ReserveFoundWork, CommittedKept DEF Sound
  <2>2. CASE /\ s.pc = "reserve" /\ e = d /\ ~ Exists(Destination(p, s.k))
             /\ Loops(p, s, t, "reserve", "install", {})
    BY <1>1, <1>2, <1>3, <2>2, ReserveNoneWork, CommittedKept DEF Sound, Exists
  <2> QED BY <1>4, <1>5, <2>1, <2>2, ReserveOutcome
<1>6. CASE Probe(p)
  <2>1. CASE /\ s.pc = "probe" /\ e = d /\ ~ Exists(Old(p, s, s.k))
             /\ Goes(s, t, "move", s.k, {})
    BY <1>1, <1>2, <1>3, <2>1, ProbeWork, CommittedKept DEF Sound, Exists
  <2> QED BY <1>4, <1>6, <2>1, ProbeOutcome
<1>7. CASE Move(p)
  <2>1. CASE /\ s.pc = "move" /\ Rename(Destination(p, s.k), Old(p, s, s.k))
             /\ Loops(p, s, t, "reserve", "install", {"original"})
             /\ t.original = s.original \union {s.k}
    <3>1. Moved(d, e, Destination(p, s.k), Old(p, s, s.k))
      BY <2>1, Effects
    <3>2. Undisturbed(p, d, e) /\ Preserved(d, e)
      <4>1. d[Destination(p, s.k)][1] # "partial"
        BY <1>1, <3>1, DestinationFacts DEF Sorted, Moved
      <4>2. Old(p, s, s.k)[1] # "tmp" /\ Old(p, s, s.k) \notin DOMAIN d
        BY <1>1, <2>1, NameFacts DEF Old, Work, Free
      <4> QED BY <1>1, <3>1, <4>1, <4>2, MovingKeeps
    <3> QED BY <1>1, <1>2, <2>1, <3>1, <3>2, MoveWork, CommittedKept DEF Sound
  <2> QED BY <1>4, <1>7, <2>1, MoveOutcome
<1> QED BY <1>5, <1>6, <1>7

LEMMA CommitSound ==
  ASSUME TypeInv, Sorted(directory), NEW p \in Invocation,
         Work(p, invocation[p], directory),
         Install(p) \/ WriteStream(p) \/ RemoveBackup(p)
  PROVE  Active(invocation[p]) /\
         Sound(p, invocation[p], invocation'[p], directory, directory')
<1> DEFINE s == invocation[p]
           t == invocation'[p]
           d == directory
           e == directory'
<1>1. Placed(p, s) /\ Work(p, s, d) /\ Sorted(d)
  BY DEF TypeInv
<1>2. s.pc \in {"install", "stream", "unbackup"} => Active(s)
  BY DEF Active
<1>3. Undisturbed(p, d, d) /\ Preserved(d, d)
  BY <1>1, NothingKeeps
<1>4. CASE s.pc \in {"install", "stream"} /\ e = d /\ Restores(s, t, Count(p), {})
  BY <1>1, <1>2, <1>3, <1>4, RestoreAllWork, CommittedKept DEF Sound
<1>5. CASE Install(p)
  <2>1. CASE /\ s.pc = "install" /\ Rename(Temp(p, s, s.k), Destination(p, s.k))
             /\ Loops(p, s, t, "install", "stream", {"installed"})
             /\ t.installed = s.installed \union {s.k}
    <3>1. Moved(d, e, Temp(p, s, s.k), Destination(p, s.k))
      BY <2>1, Effects
    <3>2. s.k \in 1 .. Count(p)
      BY <1>1, <2>1, CountFacts DEF Placed
    <3>3. Undisturbed(p, d, e) /\ Preserved(d, e)
      <4>1. d[Temp(p, s, s.k)][1] # "partial"
        BY <1>1, <2>1, <3>2, CountFacts, ContentFacts DEF Work, WaitingWhole, Waiting
      <4>2. /\ Destination(p, s.k)[1] # "tmp"
            /\ Destination(p, s.k) \in DOMAIN d => d[Destination(p, s.k)][1] # "earlier"
        BY <1>1, <2>1, <3>2, DestinationFacts DEF Work, NothingLost
      <4> QED BY <1>1, <3>1, <4>1, <4>2, MovingKeeps
    <3> QED BY <1>1, <1>2, <2>1, <3>1, <3>3, InstallWork, CommittedKept DEF Sound
  <2> QED BY <1>4, <1>5, <2>1, InstallOutcome
<1>6. CASE WriteStream(p)
  <2>1. CASE /\ s.pc = "stream" /\ e = d /\ t.committed = TRUE
             /\ Goes(s, t, IF 1 <= Count(p) THEN "unbackup" ELSE "discard", 1, {"committed"})
    BY <1>1, <1>2, <1>3, <2>1, StreamWork DEF Sound
  <2> QED BY <1>4, <1>6, <2>1, StreamOutcome
<1>7. CASE RemoveBackup(p)
  <2>1. s.pc = "unbackup" /\ s.committed
    BY <1>1, <1>7, RemoveBackupOutcome DEF Placed
  <2>2. CASE /\ s.k \in s.reserved /\ Remove(Old(p, s, s.k))
             /\ Loops(p, s, t, "unbackup", "discard", {})
    <3>1. Dropped(d, e, Old(p, s, s.k))
      BY <2>2, Effects
    <3>2. Undisturbed(p, d, e)
      BY <1>1, <3>1, DroppingKeeps
    <3> QED BY <1>1, <1>2, <2>1, <2>2, <3>1, <3>2, RemoveBackupWork, CommittedKept DEF Sound
  <2>3. CASE /\ s.k \notin s.reserved /\ e = d
             /\ Loops(p, s, t, "unbackup", "discard", {})
    BY <1>1, <1>2, <1>3, <2>1, <2>3, RemoveBackupWork, CommittedKept DEF Sound
  <2>4. CASE e = d /\ t.tidy = FALSE /\ Loops(p, s, t, "unbackup", "discard", {"tidy"})
    BY <1>1, <1>2, <1>3, <2>1, <2>4, RemoveBackupWork, CommittedKept DEF Sound
  <2> QED BY <1>7, <2>2, <2>3, <2>4, RemoveBackupOutcome
<1> QED BY <1>5, <1>6, <1>7

LEMMA RestoreSound ==
  ASSUME TypeInv, Sorted(directory), NEW p \in Invocation,
         Work(p, invocation[p], directory),
         Withdraw(p) \/ PutBack(p) \/ Discard(p)
  PROVE  Active(invocation[p]) /\
         Sound(p, invocation[p], invocation'[p], directory, directory')
<1> DEFINE s == invocation[p]
           t == invocation'[p]
           d == directory
           e == directory'
<1>1. Placed(p, s) /\ Work(p, s, d) /\ Sorted(d)
  BY DEF TypeInv
<1>2. s.pc \in {"withdraw", "putback", "discard"} => Active(s)
  BY DEF Active
<1>3. Undisturbed(p, d, d) /\ Preserved(d, d)
  BY <1>1, NothingKeeps
<1>4. s.pc \in {"withdraw", "putback"} => s.k \in 1 .. Count(p)
  BY <1>1, CountFacts DEF Placed
<1>5. CASE Withdraw(p)
  <2>1. s.pc = "withdraw"
    BY <1>5, WithdrawOutcome
  <2>2. CASE s.k \in s.installed /\ Remove(Destination(p, s.k)) /\ Goes(s, t, "putback", s.k, {})
    <3>1. Dropped(d, e, Destination(p, s.k))
      BY <2>2, Effects
    <3>2. Destination(p, s.k) \in DOMAIN d => d[Destination(p, s.k)][1] # "earlier"
      BY <1>1, <1>4, <2>1, <2>2 DEF Work, NothingLost
    <3>3. Undisturbed(p, d, e) /\ Preserved(d, e)
      BY <1>1, <3>1, <3>2, DroppingKeeps
    <3> QED BY <1>1, <1>2, <2>1, <2>2, <3>1, <3>3, WithdrawWork, CommittedKept DEF Sound
  <2>3. CASE s.k \notin s.installed /\ e = d /\ Goes(s, t, "putback", s.k, {})
    BY <1>1, <1>2, <1>3, <2>1, <2>3, WithdrawWork, CommittedKept DEF Sound
  <2>4. CASE e = d /\ t.tidy = FALSE /\ Goes(s, t, "putback", s.k, {"tidy"})
    BY <1>1, <1>2, <1>3, <2>1, <2>4, WithdrawWork, CommittedKept DEF Sound
  <2> QED BY <1>5, <2>2, <2>3, <2>4, WithdrawOutcome
<1>6. CASE PutBack(p)
  <2>1. s.pc = "putback"
    BY <1>6, PutBackOutcome
  <2>2. CASE /\ s.k \in s.original /\ Rename(Old(p, s, s.k), Destination(p, s.k))
             /\ Restores(s, t, s.k - 1, {})
    <3>1. Moved(d, e, Old(p, s, s.k), Destination(p, s.k))
      BY <2>2, Effects
    <3>2. Undisturbed(p, d, e) /\ Preserved(d, e)
      <4>1. d[Old(p, s, s.k)][1] # "partial"
        BY <1>1, <3>1, NameFacts DEF Sorted, Moved, Old
      <4>2. /\ Destination(p, s.k)[1] # "tmp"
            /\ Destination(p, s.k) \in DOMAIN d => d[Destination(p, s.k)][1] # "earlier"
        BY <1>1, <1>4, <2>1, <2>2, DestinationFacts DEF Work, NothingLost
      <4> QED BY <1>1, <3>1, <4>1, <4>2, MovingKeeps
    <3> QED BY <1>1, <1>2, <2>1, <2>2, <3>1, <3>2, PutBackWork, CommittedKept DEF Sound
  <2>3. CASE /\ s.k \in s.original => ~ Exists(Old(p, s, s.k))
             /\ e = d /\ Restores(s, t, s.k - 1, {})
    BY <1>1, <1>2, <1>3, <2>1, <2>3, PutBackWork, CommittedKept DEF Sound, Exists
  <2>4. CASE e = d /\ t.tidy = FALSE /\ Restores(s, t, s.k - 1, {"tidy"})
    BY <1>1, <1>2, <1>3, <2>1, <2>4, PutBackWork, CommittedKept DEF Sound
  <2> QED BY <1>6, <2>2, <2>3, <2>4, PutBackOutcome
<1>7. CASE Discard(p)
  <2>1. s.pc = "discard"
    BY <1>7, DiscardOutcome
  <2>2. CASE Remove(Temp(p, s, s.k)) /\ Goes(s, t, "discard", s.k + 1, {})
    <3>1. Dropped(d, e, Temp(p, s, s.k))
      BY <2>2, Effects
    <3>2. Temp(p, s, s.k) \in DOMAIN d => d[Temp(p, s, s.k)][1] # "earlier"
      BY <1>1, NameFacts DEF Sorted, Temp
    <3>3. Undisturbed(p, d, e) /\ Preserved(d, e)
      BY <1>1, <3>1, <3>2, DroppingKeeps
    <3> QED BY <1>1, <1>2, <2>1, <2>2, <3>1, <3>3, DiscardWork, CommittedKept DEF Sound
  <2>3. CASE e = d /\ t.tidy = FALSE /\ Goes(s, t, "discard", s.k + 1, {"tidy"})
    BY <1>1, <1>2, <1>3, <2>1, <2>3, DiscardWork, CommittedKept DEF Sound
  <2> QED BY <1>7, <2>2, <2>3, DiscardOutcome
<1> QED BY <1>5, <1>6, <1>7

(***************************************************************************)
(* The first and the last step, and a kill.                                *)
(***************************************************************************)
LEMMA EndsSound ==
  ASSUME TypeInv, Sorted(directory), NEW p \in Invocation, ~ Overlap,
         Work(p, invocation[p], directory),
         Begin(p) \/ Crash(p) \/ End(p)
  PROVE  /\ Active(invocation[p]) \/ \A q \in Invocation : ~ Active(invocation[q])
         /\ Sound(p, invocation[p], invocation'[p], directory, directory')
<1> DEFINE s == invocation[p]
           t == invocation'[p]
           d == directory
<1>1. Placed(p, s) /\ Work(p, s, d) /\ Undisturbed(p, d, d) /\ Preserved(d, d)
  BY NothingKeeps DEF TypeInv
<1>2. CASE Begin(p)
  <2>1. /\ s.pc = "idle" /\ t.before = d /\ directory' = d
        /\ \A q \in Invocation : ~ Active(invocation[q])
    BY <1>2, BeginOutcome
  <2>2. CASE Goes(s, t, IF 1 <= Count(p) THEN "open" ELSE "stream", 1, {"before"})
    BY <1>1, <2>1, <2>2, BeginWork, CommittedKept DEF Sound
  <2>3. CASE Goes(s, t, "failed", s.k, {"before"})
    <3>1. t.pc = "failed"
      BY <2>3 DEF Goes
    <3>2. Work(p, t, d)
      BY <3>1, EndedWork
    <3>3. t.committed = s.committed
      BY <2>3, CommittedKept
    <3> QED BY <1>1, <2>1, <3>2, <3>3 DEF Sound
  <2> QED BY <1>2, <2>1, <2>2, <2>3, BeginOutcome
<1>3. CASE Crash(p) \/ End(p)
  <2>1. /\ Active(s) /\ directory' = d /\ t.pc \in {"done", "failed", "crashed"}
        /\ t.committed = s.committed
    BY <1>3, CrashOutcome, EndOutcome, GoesPlain DEF Active
  <2> QED BY <1>1, <2>1, EndedWork DEF Sound
<1> QED BY <1>2, <1>3

(***************************************************************************)
(* The invariant holds at the start and is kept by every step.             *)
(***************************************************************************)
LEMMA IInit == Init => IInv
<1> SUFFICES ASSUME Init PROVE IInv
  OBVIOUS
<1>1. TypeInv
  BY TypeInit
<1>2. \A p \in Invocation :
        /\ invocation[p].pc = "idle" /\ invocation[p].tidy = TRUE
        /\ invocation[p].original = {} /\ invocation[p].installed = {}
  BY DEF Init, Idle
<1>3. \A n \in DOMAIN directory : n[1] = "path" /\ directory[n][1] = "earlier"
  BY DEF Init, Path, Earlier
<1>4. Alone
  BY <1>2 DEF Alone, Active
<1>5. Sorted(directory)
  BY <1>3 DEF Sorted
<1>6. OriginalKept
  <2>1. ASSUME NEW f \in existing
        PROVE  Path(f) \in DOMAIN directory /\ directory[Path(f)] = Earlier(f)
    <3>1. Path(f)[2] = f
      BY DEF Path
    <3> QED BY <3>1 DEF Init
  <2> QED BY <2>1 DEF OriginalKept
<1>7. \A p \in Invocation : Work(p, invocation[p], directory)
  BY <1>2, <1>3
     DEF Work, Unslipped, WaitingWhole, Waiting, OwnTemps, Active, First, PendingSaved, Pending,
         Free, Restorable, NothingLost, Installed, InPlace, ClearedGone, Cleared
<1> QED BY <1>1, <1>4, <1>5, <1>6, <1>7 DEF IInv

LEMMA StepSound ==
  ASSUME IInv, NEW p \in Invocation, ~ Overlap,
         \/ Begin(p) \/ Crash(p) \/ Open(p) \/ Write(p) \/ Unlink(p)
         \/ Reserve(p) \/ Probe(p) \/ Move(p) \/ Install(p) \/ WriteStream(p)
         \/ RemoveBackup(p) \/ Withdraw(p) \/ PutBack(p) \/ Discard(p) \/ End(p)
  PROVE  /\ Active(invocation[p]) \/ \A q \in Invocation : ~ Active(invocation[q])
         /\ Sound(p, invocation[p], invocation'[p], directory, directory')
         /\ Alters(p) /\ Placed(p, invocation'[p])
<1>1. TypeInv /\ Sorted(directory) /\ Work(p, invocation[p], directory)
  BY DEF IInv
<1>2. Alters(p) /\ Placed(p, invocation'[p])
  BY <1>1, StepPlaced
<1> QED BY <1>1, <1>2, StagingSound, ReserveSound, CommitSound, RestoreSound, EndsSound

LEMMA IStep ==
  ASSUME ~ Overlap, IInv, [Next]_vars
  PROVE  IInv'
<1>1. CASE UNCHANGED vars
  BY <1>1 DEF vars, IInv, TypeInv, Alone, OriginalKept
<1>2. CASE Next
  <2>1. PICK p \in Invocation :
          /\ Active(invocation[p]) \/ \A q \in Invocation : ~ Active(invocation[q])
          /\ Sound(p, invocation[p], invocation'[p], directory, directory')
          /\ Alters(p) /\ Placed(p, invocation'[p])
    BY <1>2, StepSound DEF Next
  <2>2. TypeInv'
    BY <2>1, TypeKept DEF IInv, Alters
  <2>3. \A q \in Invocation : q # p => /\ ~ Active(invocation[q])
                                       /\ invocation'[q] = invocation[q]
    BY <2>1 DEF IInv, Alone, Alters
  <2>4. Alone'
    BY <2>3 DEF Alone
  <2>5. Sorted(directory')
    BY <2>1 DEF Sound, Undisturbed
  <2>6. ASSUME NEW q \in Invocation
        PROVE  Work(q, invocation'[q], directory')
    <3>1. CASE q = p
      BY <2>1, <3>1 DEF Sound
    <3>2. CASE q # p
      <4>1. Work(q, invocation[q], directory)
        BY DEF IInv
      <4>2. Undisturbed(p, directory, directory')
        BY <2>1 DEF Sound
      <4>3. Work(q, invocation[q], directory')
        BY <2>3, <3>2, <4>1, <4>2, OthersWork
      <4> QED BY <2>3, <3>2, <4>3
    <3> QED BY <3>1, <3>2
  <2>7. OriginalKept'
    <3> SUFFICES ASSUME \A q \in Invocation : ~ invocation'[q].committed, NEW f \in existing
                 PROVE  \E n \in DOMAIN directory' : directory'[n] = Earlier(f)
      BY <2>1 DEF OriginalKept, Alters
    <3>1. \A q \in Invocation : ~ invocation[q].committed
      BY <2>1, <2>3 DEF Sound
    <3>2. PICK n \in DOMAIN directory : directory[n] = Earlier(f)
      BY <3>1 DEF IInv, OriginalKept
    <3> QED BY <2>1, <3>2 DEF Sound, Preserved, Earlier
  <2> QED BY <2>2, <2>4, <2>5, <2>6, <2>7 DEF IInv
<1> QED BY <1>1, <1>2

-----------------------------------------------------------------------------
(* What follows for the directory.                                         *)

(***************************************************************************)
(* The invariant is inductive: every system call of f2c_cli_write_artifacts*)
(* preserves it, as does one that fails or a kill between two of them.     *)
(***************************************************************************)
THEOREM InvariantHolds ==
  ASSUME ~ Overlap
  PROVE  Spec => []IInv
<1>1. IInv /\ [Next]_vars => IInv'
  BY IStep
<1> QED BY IInit, <1>1, PTL DEF Spec

(***************************************************************************)
(* Invocations that follow one another never leave part of an output under *)
(* the name of an output file, wherever they fail or are killed: what is   *)
(* staged is renamed when it is whole.                                     *)
(***************************************************************************)
THEOREM OutputsNeverPartial ==
  ASSUME ~ Overlap
  PROVE  Spec => []NoPartialOutput
<1>1. IInv => NoPartialOutput
  BY DEF IInv, Sorted, NoPartialOutput, IsPartial, Exists, Path
<1> QED BY <1>1, InvariantHolds, PTL

(***************************************************************************)
(* Nor do they lose a file that was there to begin with, under its own     *)
(* name or a backup name, before an invocation has everything in place.    *)
(***************************************************************************)
THEOREM OriginalsSurvive ==
  ASSUME ~ Overlap
  PROVE  Spec => []OriginalKept
<1>1. IInv => OriginalKept
  BY DEF IInv
<1> QED BY <1>1, InvariantHolds, PTL

(***************************************************************************)
(* An invocation reports its result when it cannot begin, or at its end.   *)
(***************************************************************************)
LEMMA Endings ==
  ASSUME TypeInv, [Next]_vars, NEW p \in Invocation,
         invocation'[p].pc # invocation[p].pc, invocation'[p].pc \in {"done", "failed"}
  PROVE  Begin(p) \/ End(p)
<1> DEFINE s == invocation[p]
           t == invocation'[p]
<1>1. Next
  BY DEF vars
<1>2. PICK q \in Invocation :
        \/ Begin(q) \/ Crash(q) \/ Open(q) \/ Write(q) \/ Unlink(q)
        \/ Reserve(q) \/ Probe(q) \/ Move(q) \/ Install(q) \/ WriteStream(q)
        \/ RemoveBackup(q) \/ Withdraw(q) \/ PutBack(q) \/ Discard(q) \/ End(q)
  BY <1>1 DEF Next
<1>3. q = p
  BY <1>2, StepPlaced DEF Alters
<1>4. \A label, k, others : Goes(s, t, label, k, others) => t.pc = label
  BY DEF Goes
<1>5. \A others : Keeps(s, t, others) /\ "pc" \notin others => t.pc = s.pc
  BY FieldsKept
<1>6. /\ \A n, others : Restores(s, t, n, others) => t.pc \in {"discard", "withdraw"}
      /\ \A label, exit, others : Loops(p, s, t, label, exit, others) => t.pc \in {label, exit}
  BY <1>4 DEF Restores, Loops
<1>7. ~ Crash(p)
  BY <1>4, CrashOutcome
<1>8. ~ Open(p) /\ ~ Write(p) /\ ~ Unlink(p)
  <2>1. ~ Open(p)
    BY <1>4, <1>5, OpenOutcome
  <2>2. ~ Write(p)
    BY <1>4, <1>6, WriteOutcome
  <2>3. ~ Unlink(p)
    BY <1>4, UnlinkOutcome
  <2> QED BY <2>1, <2>2, <2>3
<1>9. ~ Reserve(p) /\ ~ Probe(p) /\ ~ Move(p)
  BY <1>4, <1>6, ReserveOutcome, ProbeOutcome, MoveOutcome
<1>10. ~ Install(p) /\ ~ WriteStream(p) /\ ~ RemoveBackup(p)
  <2>1. ~ Install(p)
    BY <1>6, InstallOutcome
  <2>2. ~ WriteStream(p)
    BY <1>4, <1>6, StreamOutcome
  <2>3. ~ RemoveBackup(p)
    <3> SUFFICES ASSUME RemoveBackup(p) PROVE FALSE
      OBVIOUS
    <3>1. PICK others : Loops(p, s, t, "unbackup", "discard", others)
      BY RemoveBackupOutcome
    <3> QED BY <1>6, <3>1
  <2> QED BY <2>1, <2>2, <2>3
<1>11. ~ Withdraw(p) /\ ~ PutBack(p) /\ ~ Discard(p)
  BY <1>4, <1>6, WithdrawOutcome, PutBackOutcome, DiscardOutcome
<1> QED BY <1>2, <1>3, <1>7, <1>8, <1>9, <1>10, <1>11

(***************************************************************************)
(* Directories that agree on the output names of p hold the same there.    *)
(***************************************************************************)
LEMMA HeldAlike ==
  ASSUME NEW p, NEW d, NEW b, \A j \in 1 .. Count(p) : Agree(Destination(p, j), d, b)
  PROVE  Held(d, p) = Held(b, p)
BY DEF Held, Agree

(***************************************************************************)
(* An invocation that fails leaves every output file as it found it, if    *)
(* the calls that restore and clean up do not fail: restore_artifacts puts *)
(* back what reserve_backups has moved and withdraws what was installed.   *)
(***************************************************************************)
THEOREM FailuresAreUndone ==
  ASSUME ~ Overlap
  PROVE  Spec => FailureIsUndone
<1>1. ASSUME IInv, [Next]_vars, NEW p \in Invocation, invocation[p].tidy, Ends(p, "failed")
      PROVE  Held(directory', p) = Held(invocation'[p].before, p)
  <2> DEFINE s == invocation[p]
             t == invocation'[p]
  <2>1. Begin(p) \/ End(p)
    BY <1>1, Endings DEF IInv, Ends, At
  <2>2. CASE Begin(p)
    BY <1>1, <2>2, BeginOutcome DEF IInv
  <2>3. CASE End(p)
    <3>1. /\ s.pc = "discard" /\ directory' = directory
          /\ t.before = s.before /\ ~ s.committed
      BY <1>1, <2>3, EndOutcome, GoesPlain DEF IInv, Ends
    <3>2. \A j \in 1 .. Count(p) : Agree(Destination(p, j), directory, s.before)
      BY <1>1, <3>1 DEF IInv, Work, Restorable, Active, Pending, Exposed
    <3> QED BY <3>1, <3>2, HeldAlike
  <2> QED BY <2>1, <2>2, <2>3
<1>2. IInv /\ [Next]_vars => [\A p \in Invocation : invocation[p].tidy => LeavesOutputs(p)]_vars
  BY <1>1 DEF LeavesOutputs
<1> QED BY <1>2, InvariantHolds, PTL DEF Spec, FailureIsUndone

(***************************************************************************)
(* An invocation that succeeds has every output in full in its file, if no *)
(* two of its outputs name the same file.                                  *)
(***************************************************************************)
THEOREM SuccessIsComplete ==
  ASSUME ~ Overlap,
         \A p \in Invocation : \A i, j \in 1 .. Count(p) :
           Outputs[p].files[i] = Outputs[p].files[j] => i = j
  PROVE  Spec => SuccessWritesAll
<1>1. ASSUME IInv, [Next]_vars, NEW p \in Invocation, Ends(p, "done")
      PROVE  Held(directory', p) = [k \in 1 .. Count(p) |-> Whole(p, k)]
  <2> DEFINE s == invocation[p]
             t == invocation'[p]
  <2>1. End(p)
    <3>1. Begin(p) \/ End(p)
      BY <1>1, Endings DEF IInv, Ends, At
    <3>2. ASSUME Begin(p) PROVE FALSE
      BY <1>1, <3>2, BeginOutcome DEF IInv, Ends, Goes
    <3> QED BY <3>1, <3>2
  <2>2. s.pc = "discard" /\ directory' = directory /\ s.committed
    BY <1>1, <2>1, EndOutcome, GoesPlain DEF IInv, Ends
  <2>3. \A j \in 1 .. Count(p) : j \in InPlace(p, s)
    BY <2>2 DEF InPlace
  <2>4. \A i, j \in 1 .. Count(p) : Destination(p, i) = Destination(p, j) => i = j
    BY DEF Destination, Path
  <2>5. \A j \in 1 .. Count(p) : /\ Destination(p, j) \in DOMAIN directory
                                 /\ directory[Destination(p, j)] = Whole(p, j)
    BY <1>1, <2>3, <2>4 DEF IInv, Work, Installed
  <2> QED BY <2>2, <2>5 DEF Held
<1>2. IInv /\ [Next]_vars =>
        [\A p \in Invocation : Ends(p, "done") =>
           Held(directory', p) = [k \in 1 .. Count(p) |-> Whole(p, k)]]_vars
  BY <1>1
<1> QED BY <1>2, InvariantHolds, PTL DEF Spec, SuccessWritesAll

(***************************************************************************)
(* And an invocation that ends, either way, leaves no temporary file with  *)
(* what it has written and none of its backups, if the calls that restore  *)
(* and clean up do not fail.                                               *)
(***************************************************************************)
THEOREM NothingIsLeftBehind ==
  ASSUME ~ Overlap
  PROVE  Spec => LeavesNothingBehind
<1>1. ASSUME IInv, [Next]_vars, NEW p \in Invocation, invocation[p].tidy,
             Ends(p, "done") \/ Ends(p, "failed")
      PROVE  Tidied(p, directory')
  <2> DEFINE s == invocation[p]
  <2>1. Begin(p) \/ End(p)
    BY <1>1, Endings DEF IInv, Ends, At
  <2>2. /\ directory' = directory /\ Placed(p, s)
        /\ \/ s.pc = "idle"
           \/ s.pc = "discard" /\ s.k > s.staged
    BY <1>1, <2>1, BeginOutcome, EndOutcome DEF IInv, TypeInv
  <2>3. Littering(p, s) = {}
    BY <2>2, CountFacts DEF Littering, Placed
  <2>4. \A n \in DOMAIN directory : directory[n] \in Written(p) => n[1] # "tmp"
    BY <1>1, <2>2, <2>3 DEF IInv, Work, OwnTemps, Active
  <2>5. \A k \in s.original : Old(p, s, k) \notin DOMAIN directory
    <3>1. CASE s.pc = "idle"
      BY <2>2, <3>1 DEF Placed
    <3>2. CASE s.pc = "discard"
      BY <1>1, <3>2 DEF IInv, Work, ClearedGone, Cleared
    <3> QED BY <2>2, <3>1, <3>2
  <2> QED BY <2>2, <2>4, <2>5 DEF Tidied, Saved, Old
<1>2. IInv /\ [Next]_vars =>
        [\A p \in Invocation :
           (Ends(p, "done") \/ Ends(p, "failed")) /\ invocation[p].tidy =>
             Tidied(p, directory')]_vars
  BY <1>1
<1> QED BY <1>2, InvariantHolds, PTL DEF Spec, LeavesNothingBehind
=============================================================================

----------------------------- MODULE FileUnits -----------------------------
(***************************************************************************)
(* The external units of a translated program: what f2c_open_unit_full,    *)
(* f2c_close_unit_with_status, the implicit OPEN of f2c_unit_stream and    *)
(* the positioning statements, emitted by src/core/generated/io.c, do to   *)
(* the table of connected units and to the files.                          *)
(*                                                                         *)
(* A file is a sequence of cells.  In an unformatted file a cell is eight  *)
(* bytes, a word or a length marker; in a formatted file it is a           *)
(* character, 0 the newline.  A file is always used with the same form.    *)
(* Calls of the C library that open, close, create, remove or write a file *)
(* may fail, and so may the seeks of BACKSPACE, ENDFILE and INQUIRE and    *)
(* any seek that has output to write; MaxFaults bounds how many do.  Reads *)
(* do not, nor the seeks of a READ that have nothing to write, and a       *)
(* failure that changes nothing but a status is left out.                  *)
(*                                                                         *)
(* Formatted output stays in the buffer of its FILE until a call positions *)
(* or reads or closes that, or the buffer is full.  The call that writes   *)
(* the buffer out may fail, long after the WRITE was reported complete.    *)
(***************************************************************************)
EXTENDS Integers, FiniteSets, Sequences, SequencesExt

CONSTANTS
  Unit,         \* units of the program
  Name,         \* names of files
  DefaultName,  \* DefaultName[u]: "fort.u"
  FormOf,       \* the form a file, or a scratch file of a unit, is used with
  Recl,         \* RECL of direct connections, in cells
  MaxCells,     \* bound: cells of all files
  MaxFaults     \* bound: calls of the C library that fail

\* The scratch file of a unit has no name: it is known by the unit.
File == Name \union Unit

ASSUME FileAssumption ==
  /\ Name \intersect Unit = {}
  /\ DefaultName \in [Unit -> Name]
  /\ FormOf \in [File -> {"formatted", "unformatted"}]
  /\ \A u \in Unit : FormOf[DefaultName[u]] = "formatted"
ASSUME BoundsAssumption ==
  /\ Recl \in Nat \ {0} /\ MaxCells \in Nat /\ MaxFaults \in Nat

VARIABLES
  disk,       \* the cells of every file that exists, what is buffered included
  unit,       \* f2c_unit_list: the entry of every connected unit
  transfer,   \* the WRITE a unit is in the middle of
  buffer,     \* formatted output that may not have left the stdio buffer
  faults,     \* library calls that failed so far
  records,    \* history: the records written, from the start of the file
  clean,      \* history: was nothing written but those records?
  direct      \* history: what was last written to each direct record

history == << records, clean, direct >>
vars == << disk, unit, transfer, buffer, faults, history >>

-----------------------------------------------------------------------------
(* Cells, records and positions.                                           *)

Newline == 0

\* A record in its file: a line, or a payload between two length markers.
Encoded(f, record) ==
  IF FormOf[f] = "formatted"
  THEN Append(record, Newline)
  ELSE << Len(record) >> \o record \o << Len(record) >>

Bytes(f, log) == FlattenSeq([i \in 1 .. Len(log) |-> Encoded(f, log[i])])

Upto(log, k) == SubSeq(log, 1, k)

\* Where each record of the history ends.
Size(f, record) == Len(record) + (IF FormOf[f] = "formatted" THEN 1 ELSE 2)
Ends(f) ==
  LET end[k \in 0 .. Len(records[f])] ==
        IF k = 0 THEN 0 ELSE end[k - 1] + Size(f, records[f][k])
  IN end
EndOf(f, k) == Ends(f)[k]

\* The records of the history that end at or before a position.
Kept(f, pos) ==
  LET ends == Ends(f) IN
  Upto(records[f], Cardinality({k \in 1 .. Len(records[f]) : ends[k] <= pos}))

\* Writing one cell; a position behind the end leaves a hole of zeros.
Put(cells, pos, cell) ==
  [i \in 1 .. (IF pos < Len(cells) THEN Len(cells) ELSE pos + 1) |->
     IF i = pos + 1 THEN cell ELSE IF i <= Len(cells) THEN cells[i] ELSE 0]

\* Is there room, within the bound, to write up to position pos of f?
Fits(f, pos) ==
  pos + MapThenSumSet(LAMBDA g : Len(disk[g]), DOMAIN disk \ {f}) <= MaxCells

-----------------------------------------------------------------------------
(* The unit table.                                                         *)

Connected(u) == u \in DOMAIN unit
Busy(u) == u \in DOMAIN transfer
FileOf(u) == unit[u].file
Cells(u) == disk[FileOf(u)]
With(function, key, value) ==
  [k \in DOMAIN function \union {key} |-> IF k = key THEN value ELSE function[k]]
Without(function, key) == Restrict(function, DOMAIN function \ {key})

\* The program connects no file to two units.
Unshared(u, f) == \A v \in DOMAIN unit \ {u} : FileOf(v) # f

Entry(f, access, action, pos) ==
  [file   |-> f, access |-> access, action |-> action, pos |-> pos,
   handle |-> "open",    \* entry->file
   stream |-> "open"]    \* the file behind entry->stream

\* A closed scratch file is gone.
Released(u) == IF Connected(u) /\ FileOf(u) = u THEN Without(disk, u) ELSE disk

\* The history of a file that is gone or empty starts anew, unless a unit
\* other than u is connected to it.
Settle(u) ==
  LET Fresh(f) == (f \notin DOMAIN disk' \/ disk'[f] = << >>) /\ Unshared(u, f) IN
  /\ records' = [f \in File |-> IF Fresh(f) THEN << >> ELSE records[f]]
  /\ clean' = [f \in File |-> Fresh(f) \/ clean[f]]
  /\ direct' = [f \in File |-> IF Fresh(f) THEN << >> ELSE direct[f]]

Fault == faults < MaxFaults /\ faults' = faults + 1
NoFault == UNCHANGED faults

Position(u, pos) == unit' = [unit EXCEPT ![u].pos = pos]

\* What is left of the history if n cells are left of a file.
Cut(f, n, whole) ==
  /\ records' = [records EXCEPT ![f] = Kept(f, n)]
  /\ clean' = [clean EXCEPT ![f] = whole]
  /\ direct' = [direct EXCEPT ![f] = << >>]

Init ==
  /\ disk = << >> /\ unit = << >> /\ transfer = << >> /\ buffer = << >>
  /\ faults = 0
  /\ records = [f \in File |-> << >>]
  /\ clean = [f \in File |-> TRUE]
  /\ direct = [f \in File |-> << >>]

-----------------------------------------------------------------------------
(* The buffer of a unit: where the output in it starts, and the cells the  *)
(* file has without it.                                                    *)

Buffered(pos, cells) == [from |-> pos, under |-> cells]

\* The output is in the file, or gone.
Emptied(u) == buffer' = Without(buffer, u)

\* The cells of the file if the output before position m has left the
\* buffer and no more does.
Through(u, m) ==
  LET under == buffer[u].under IN
  IF m = buffer[u].from THEN under
  ELSE [i \in 1 .. (IF m < Len(under) THEN Len(under) ELSE m) |->
          IF i <= m THEN Cells(u)[i] ELSE under[i]]

\* Writing the buffer out fails at m: the C library drops the rest of it.
Drop(u, m) ==
  /\ m \in buffer[u].from .. unit[u].pos
  /\ disk' = [disk EXCEPT ![FileOf(u)] = Through(u, m)]
  /\ Cut(FileOf(u), m, FALSE)

\* Then the unit is there, and what it writes next is buffered from there.
DropTo(u, m) ==
  /\ Drop(u, m)
  /\ Position(u, m)
  /\ buffer' = [buffer EXCEPT ![u] = Buffered(m, Through(u, m))]

\* The first seek of REWIND, BACKSPACE and ENDFILE, or a READ, fails because
\* the buffer cannot be written out, and the statement goes no further.
FlushFails(u) ==
  /\ u \in DOMAIN buffer /\ Fault
  /\ \E m \in 0 .. unit[u].pos : DropTo(u, m)
  /\ UNCHANGED transfer

-----------------------------------------------------------------------------
(* OPEN and CLOSE.                                                         *)

\* fclose cannot write the buffer out.  The connection is gone all the same.
\* What a scratch file loses then is of no interest.
CloseLoses(u) ==
  /\ u \in DOMAIN buffer /\ FileOf(u) # u /\ Fault
  /\ \E m \in 0 .. unit[u].pos : Drop(u, m)
  /\ unit' = Without(unit, u)
  /\ Emptied(u)

\* Is a connection with STATUS= and ACTION= to a named file refused?  A
\* refused OPEN leaves everything as it is, the old connection too.
Refused(f, status, action) ==
  LET exists == f \in DOMAIN disk IN
  \/ status = "old" /\ ~ exists
  \/ status = "new" /\ exists
  \/ action = "read" /\ (~ exists \/ status \in {"new", "replace"})

\* The unit is connected to f; old is what closing its connection leaves.
\* If a call fails the old connection is gone and there is no new one: the
\* file may have been created or emptied by then.
Connect(u, f, empties, access, action, append, old) ==
  LET cells == IF empties THEN << >> ELSE old[f]
      opened == With(old, f, cells) IN
  \/ /\ disk' = opened
     /\ unit' = With(unit, u, Entry(f, access, action, IF append THEN Len(cells) ELSE 0))
     /\ NoFault
  \/ /\ Fault
     /\ unit' = Without(unit, u)
     /\ disk' \in {old, opened}

\* f2c_open_unit_full for a named file.  f2c_file_exists is asked before the
\* old connection is closed.
Open(u, f, status, access, action, append) ==
  /\ ~ Busy(u) /\ Unshared(u, f)
  /\ access = "direct" => FormOf[f] = "unformatted"
  /\ ~ Refused(f, status, action)
  /\ Connected(u) => unit[u].handle = "open"
  /\ \/ /\ Connect(u, f, status = "replace" \/ f \notin DOMAIN disk,
                   access, action, append, Released(u))
        /\ Settle(u) /\ Emptied(u)
     \/ CloseLoses(u)
  /\ UNCHANGED transfer

\* STATUS='SCRATCH'
OpenScratch(u, access, action) ==
  /\ ~ Busy(u)
  /\ access = "direct" => FormOf[u] = "unformatted"
  /\ Connected(u) => unit[u].handle = "open"
  /\ \/ /\ \/ Connect(u, u, TRUE, access, action, FALSE, Released(u)) /\ u \in DOMAIN disk'
           \/ Fault /\ unit' = Without(unit, u) /\ disk' = Released(u)
        /\ Settle(u) /\ Emptied(u)
     \/ CloseLoses(u)
  /\ UNCHANGED transfer

\* f2c_close_unit_with_status of a connected unit.  Whatever fails, the
\* connection is gone.
Close(u, delete) ==
  /\ ~ Busy(u) /\ Connected(u)
  /\ unit[u].handle = "open"
  /\ LET removed == IF delete THEN Without(Released(u), FileOf(u)) ELSE Released(u) IN
     \/ /\ \/ disk' = removed /\ NoFault
           \/ disk' \in {removed, Released(u)} /\ Fault
        /\ unit' = Without(unit, u)
        /\ Settle(u) /\ Emptied(u)
     \/ CloseLoses(u)
  /\ UNCHANGED transfer

\* f2c_unit_stream of a unit that is not connected opens fort.u, to read or
\* to write and nothing else.
ImplicitOpen(u, action) ==
  /\ ~ Connected(u) /\ Unshared(u, DefaultName[u])
  /\ ~ Refused(DefaultName[u], "unknown", action)

\* So do REWIND and BACKSPACE, which are at the start then, and a transfer
\* that is refused once the unit is open: it is unformatted or has REC=.
OpenImplicitly(u, action) ==
  LET f == DefaultName[u] IN
  /\ ImplicitOpen(u, action)
  /\ Connect(u, f, f \notin DOMAIN disk, "sequential", action, FALSE, disk)
  /\ Settle(u)
  /\ UNCHANGED << transfer, buffer >>

-----------------------------------------------------------------------------
(* REWIND, BACKSPACE and ENDFILE of a sequential connection.               *)

Sequential(u) == Connected(u) /\ unit[u].access = "sequential"

\* The file behind entry->stream is not entry->file but one ENDFILE has
\* closed: the behaviour of a program that uses it is undefined, and not
\* followed any further.
Stale(u) == unit[u].stream = "closed"

Rewind(u) ==
  /\ ~ Busy(u) /\ Sequential(u)
  /\ ~ Stale(u)
  /\ \/ /\ Position(u, 0) /\ Emptied(u)
        /\ UNCHANGED << disk, transfer, faults, history >>
     \/ FlushFails(u)

\* Mutant: the newline before the position is not passed.
LineStartAtNewline(cells, pos) ==
  LET newlines == {i \in 1 .. pos : cells[i] = Newline} IN
  IF newlines = {} THEN 0 ELSE Max(newlines)

\* f2c_backspace_unit of a formatted file: over a newline, unless that is
\* the first character of the file, and back to the one before.
LineStart(cells, pos) ==
  IF pos = 0 THEN 0
  ELSE LET last == IF cells[pos] = Newline /\ pos > 1 THEN pos - 1 ELSE pos
           newlines == {i \in 1 .. last : cells[i] = Newline} IN
       IF newlines = {} THEN 0 ELSE Max(newlines)

\* f2c_backspace_unformatted: over a trailing marker, the payload and the
\* leading marker.  Where the markers disagree it fails, wherever it is.
MarkerStart(cells, pos) ==
  IF pos < 2 THEN pos
  ELSE IF pos > Len(cells) THEN pos - 1
  ELSE LET length == cells[pos]
           start == pos - 2 - length IN
       IF length > pos - 2 THEN pos
       ELSE IF cells[start + 1] = length THEN start ELSE start + 1

\* A later seek fails: between the position and the start of the line, or
\* behind the leading marker.
LineAstray(cells, pos) ==
  IF pos = 0 THEN {} ELSE LineStart(cells, pos) .. pos
MarkerAstray(cells, pos) ==
  {p \in 1 .. (IF pos > Len(cells) THEN 0 ELSE pos - 1) :
     cells[p] = cells[pos] /\ p + cells[pos] + 1 = pos}

BackspaceReady(u) ==
  /\ ~ Busy(u) /\ Sequential(u)
  /\ IF FormOf[FileOf(u)] = "formatted" THEN ~ Stale(u) ELSE unit[u].handle = "open"

Backspace(u) ==
  LET pos == unit[u].pos
      formatted == FormOf[FileOf(u)] = "formatted" IN
  /\ BackspaceReady(u)
  /\ Position(u, IF formatted THEN LineStart(Cells(u), pos) ELSE MarkerStart(Cells(u), pos))
  /\ Emptied(u)
  /\ UNCHANGED << disk, transfer, faults, history >>

BackspaceFails(u) ==
  LET pos == unit[u].pos
      formatted == FormOf[FileOf(u)] = "formatted" IN
  /\ BackspaceReady(u)
  /\ \/ pos # 0 /\ FlushFails(u)
     \/ /\ Fault /\ Emptied(u)
        /\ \E p \in IF formatted THEN LineAstray(Cells(u), pos) ELSE MarkerAstray(Cells(u), pos) :
             Position(u, p)
        /\ UNCHANGED << disk, transfer, history >>

\* The file is cut at the position: f2c_endfile_unit copies what is before
\* it to a temporary file, empties the file and copies it back.
EndfileReady(u) ==
  /\ ~ Busy(u) /\ Sequential(u)
  /\ unit[u].action # "read" /\ unit[u].handle = "open"

Endfile(u) ==
  LET f == FileOf(u)
      pos == unit[u].pos IN
  /\ EndfileReady(u) /\ pos <= Len(Cells(u))
  /\ disk' = [disk EXCEPT ![f] = Upto(@, pos)]
  /\ unit' = [unit EXCEPT ![u].stream = "open"]
  /\ Cut(f, pos, EndOf(f, Len(Kept(f, pos))) = pos)
  /\ Emptied(u)
  /\ UNCHANGED << transfer, faults >>

\* Before the file is emptied: the buffer cannot be written out, behind the
\* end of the file there is nothing to copy, or the copy fails.
EndfileAbandoned(u) ==
  LET pos == unit[u].pos IN
  /\ EndfileReady(u)
  /\ \/ FlushFails(u)
     \/ /\ \/ pos > Len(Cells(u)) /\ NoFault /\ Position(u, Len(Cells(u)))
           \/ Fault /\ \E p \in 0 .. pos : Position(u, p)
        /\ Emptied(u)
        /\ UNCHANGED << disk, transfer, history >>

\* The empty file cannot be opened: the old contents are opened instead, but
\* entry->stream keeps the file that was closed; or not even that.
EndfileDetached(u) ==
  LET f == FileOf(u) IN
  /\ EndfileReady(u) /\ f # u /\ unit[u].pos <= Len(Cells(u))
  /\ \/ Fault /\ unit' = [unit EXCEPT ![u].pos = 0, ![u].stream = "closed"]
     \/ /\ faults + 1 < MaxFaults /\ faults' = faults + 2
        /\ unit' = [unit EXCEPT ![u].handle = "none", ![u].stream = "closed"]
  /\ Emptied(u)
  /\ UNCHANGED << disk, transfer, history >>

\* Copying back fails after n cells: the rest of the file is lost.
EndfileLoses(u) ==
  LET f == FileOf(u) IN
  /\ EndfileReady(u) /\ unit[u].pos <= Len(Cells(u)) /\ Fault
  /\ \E n \in 0 .. unit[u].pos - 1 :
       /\ disk' = [disk EXCEPT ![f] = Upto(@, n)]
       /\ unit' = [unit EXCEPT ![u].pos = n, ![u].stream = "open"]
       /\ Cut(f, n, FALSE)
  /\ Emptied(u)
  /\ UNCHANGED transfer

\* INQUIRE asks where the end of the file is, and goes there and back.
Inquire(u) ==
  /\ ~ Busy(u) /\ Sequential(u) /\ ~ Stale(u)
  /\ \/ FlushFails(u)
     \/ /\ \/ NoFault /\ UNCHANGED unit
           \/ Fault /\ Position(u, Len(Cells(u)))
        /\ Emptied(u)
        /\ UNCHANGED << disk, transfer, history >>
=============================================================================

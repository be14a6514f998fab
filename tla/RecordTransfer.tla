--------------------------- MODULE RecordTransfer ---------------------------
(***************************************************************************)
(* READ and WRITE of external units: f2c_transfer_begin, the items, and    *)
(* f2c_transfer_end, emitted by src/core/generated/record.c, on the units  *)
(* of FileUnits.  A WRITE goes on item by item, because each may fail and  *)
(* the program may look at the unit between them; a READ, which changes    *)
(* nothing but the position, is one step.  A formatted READ takes one      *)
(* record, a formatted WRITE makes one.                                    *)
(*                                                                         *)
(* An unformatted or direct WRITE begins and ends with a seek, so only its *)
(* own output can be in the buffer.  Where writing that out fails and      *)
(* takes items that were accepted before, the file is as if the first of   *)
(* them had failed; no buffer is needed to say so.                         *)
(***************************************************************************)
EXTENDS FileUnits

CONSTANTS
  Word,     \* what an item writes; to a formatted file, unless it is 0
  Record,   \* record numbers of direct transfers
  Options,  \* the specifiers an OPEN of a named file is used with
  Scratch,  \* and those of an OPEN with STATUS='SCRATCH'
  MaxItems  \* bound: items of an unformatted READ

ASSUME TransferAssumption ==
  /\ Word \subseteq Nat /\ Record \subseteq Nat \ {0}
  /\ Options \subseteq [status : {"old", "new", "replace", "unknown"},
                         access : {"sequential", "direct"},
                         action : {"read", "write", "readwrite"},
                         append : BOOLEAN]
  /\ Scratch \subseteq [access : {"sequential", "direct"},
                         action : {"read", "write", "readwrite"}]
  /\ MaxItems \in Nat

-----------------------------------------------------------------------------
(* READ.                                                                   *)

\* Mutant: ACTION= is not looked at.
ReadyForAnything(u, mode, action) ==
  /\ Connected(u) /\ ~ Busy(u)
  /\ mode = (IF unit[u].access = "direct" THEN "direct" ELSE FormOf[FileOf(u)])

\* f2c_transfer_begin of a unit between two transfers.  What it refuses
\* changes nothing.
Ready(u, mode, action) ==
  /\ Connected(u) /\ ~ Busy(u)
  /\ unit[u].action \in {action, "readwrite"}
  /\ mode = (IF unit[u].access = "direct" THEN "direct" ELSE FormOf[FileOf(u)])

\* What a READ of these cells makes of them: the position it ends at, its
\* status and what its list gets.
Reading(pos, status, data) == [pos |-> pos, status |-> status, data |-> data]

\* Mutant: the newline counts as part of the record.
ReadLineWithNewline(cells, pos) ==
  LET newlines == {i \in pos + 1 .. Len(cells) : cells[i] = Newline}
      end == IF newlines = {} THEN Len(cells) ELSE Min(newlines) IN
  IF pos >= Len(cells) THEN Reading(pos, "end", << >>)
  ELSE Reading(end, "ok", SubSeq(cells, pos + 1, end))

\* A formatted READ, of the characters before the next newline.
ReadLine(cells, pos) ==
  LET newlines == {i \in pos + 1 .. Len(cells) : cells[i] = Newline}
      end == IF newlines = {} THEN Len(cells) ELSE Min(newlines) IN
  IF pos >= Len(cells) THEN Reading(pos, "end", << >>)
  ELSE Reading(end, "ok", SubSeq(cells, pos + 1, IF newlines = {} THEN end ELSE end - 1))

\* Mutant: the end of the transfer does not go to the end of the payload.
ReadPayloadStays(cells, pos, n) ==
  LET start == pos + 1
      length == cells[start]
      after == start + (IF n < length THEN n ELSE length) IN
  IF start > Len(cells) THEN Reading(pos, "end", << >>)
  ELSE IF after < Len(cells) /\ cells[after + 1] = length
  THEN IF n <= length
       THEN Reading(after + 1, "ok", SubSeq(cells, start + 1, start + n))
       ELSE Reading(after + 1, "record", << >>)
  ELSE Reading(IF after < Len(cells) THEN after + 1 ELSE after, "corrupt", << >>)

\* An unformatted READ of n items: header, items and the trailer, which
\* f2c_transfer_end seeks behind the payload, however much of that the list
\* took.
ReadPayload(cells, pos, n) ==
  LET start == pos + 1
      length == cells[start]
      after == start + length IN
  IF start > Len(cells) THEN Reading(pos, "end", << >>)
  ELSE IF after < Len(cells) /\ cells[after + 1] = length
  THEN IF n <= length
       THEN Reading(after + 1, "ok", SubSeq(cells, start + 1, start + n))
       ELSE Reading(after + 1, "record", << >>)
  ELSE Reading(IF after < Len(cells) THEN after + 1 ELSE after, "corrupt", << >>)

\* What is buffered is written out first.
ReadFormatted(u) ==
  /\ Ready(u, "formatted", "read") /\ ~ Stale(u)
  /\ Position(u, ReadLine(Cells(u), unit[u].pos).pos)
  /\ Emptied(u)
  /\ UNCHANGED << disk, transfer, faults, history >>

ReadFormattedFails(u) ==
  /\ Ready(u, "formatted", "read") /\ ~ Stale(u)
  /\ FlushFails(u)

\* READ of a unit that is not connected, from the start of fort.u.
ReadImplicitly(u) ==
  LET f == DefaultName[u] IN
  /\ ImplicitOpen(u, "read")
  /\ unit' = With(unit, u, Entry(f, "sequential", "read", ReadLine(disk[f], 0).pos))
  /\ UNCHANGED << disk, transfer, buffer, faults, history >>

ReadUnformatted(u, n) ==
  /\ Ready(u, "unformatted", "read") /\ unit[u].handle = "open"
  /\ Position(u, ReadPayload(Cells(u), unit[u].pos, n).pos)
  /\ UNCHANGED << disk, transfer, buffer, faults, history >>

Offset(record) == (record - 1) * Recl

ReadDirect(u, record) ==
  LET after == Offset(record) + Recl IN
  /\ Ready(u, "direct", "read") /\ unit[u].handle = "open"
  /\ after <= Len(Cells(u))
  /\ Position(u, after)
  /\ UNCHANGED << disk, transfer, buffer, faults, history >>

-----------------------------------------------------------------------------
(* WRITE.                                                                  *)

\* A transfer whose payload starts at start, of direct record number record;
\* in order says whether it follows the records of the history.
Started(mode, start, record, inOrder) ==
  [mode |-> mode, start |-> start, record |-> record, ok |-> TRUE, inOrder |-> inOrder]

\* What is written at pos and beyond is no longer history.
Overwrite(f, pos) ==
  Cut(f, pos, clean[f] /\ pos = Len(disk[f]))

Begin(u, mode, start, pos) ==
  LET f == FileOf(u) IN
  /\ unit' = [unit EXCEPT ![u].pos = start]
  /\ transfer' = With(transfer, u, Started(mode, start, 0, pos = EndOf(f, Len(Kept(f, pos)))))
  /\ Overwrite(f, pos)
  /\ UNCHANGED faults

BeginFormatted(u) ==
  LET pos == unit[u].pos IN
  /\ Ready(u, "formatted", "write") /\ Fits(FileOf(u), pos + 1)
  /\ ~ Stale(u)
  /\ Begin(u, "formatted", pos, pos) /\ UNCHANGED disk
  /\ buffer' = IF u \in DOMAIN buffer THEN buffer ELSE With(buffer, u, Buffered(pos, Cells(u)))

\* WRITE of a unit that is not connected, at the start of fort.u.
BeginImplicitly(u) ==
  LET f == DefaultName[u]
      cells == IF f \in DOMAIN disk THEN disk[f] ELSE << >> IN
  /\ ImplicitOpen(u, "write")
  /\ disk' = With(disk, f, cells)
  /\ unit' = With(unit, u, Entry(f, "sequential", "write", 0))
  /\ transfer' = With(transfer, u, Started("formatted", 0, 0, TRUE))
  /\ buffer' = With(buffer, u, Buffered(0, cells))
  /\ Cut(f, 0, cells = << >>)
  /\ UNCHANGED faults

\* A header of zero stands in for the length.
BeginUnformatted(u) ==
  LET pos == unit[u].pos IN
  /\ Ready(u, "unformatted", "write") /\ unit[u].handle = "open"
  /\ Fits(FileOf(u), pos + 2)
  /\ \/ /\ disk' = [disk EXCEPT ![FileOf(u)] = Put(@, pos, 0)]
        /\ Begin(u, "unformatted", pos + 1, pos)
     \/ Fault /\ UNCHANGED << disk, unit, transfer, history >>
  /\ UNCHANGED buffer

BeginDirect(u, record) ==
  LET f == FileOf(u)
      start == Offset(record) IN
  /\ Ready(u, "direct", "write") /\ unit[u].handle = "open"
  /\ Fits(f, start + Recl)
  /\ unit' = [unit EXCEPT ![u].pos = start]
  /\ transfer' = With(transfer, u, Started("direct", start, record, FALSE))
  /\ records' = [records EXCEPT ![f] = Kept(f, start)]
  /\ clean' = [clean EXCEPT ![f] = FALSE]
  /\ direct' = [direct EXCEPT ![f] = Without(@, record)]
  /\ UNCHANGED << disk, buffer, faults >>

Writing(u, mode) == Busy(u) /\ transfer[u].mode = mode

\* Mutant: the stream of a direct record ends one cell too late.
FullLate(u) ==
  transfer[u].mode = "direct" /\ unit[u].pos = transfer[u].start + Recl + 1

\* The stream of a direct record is bounded by the record.
Full(u) == transfer[u].mode = "direct" /\ unit[u].pos = transfer[u].start + Recl

\* f2c_binary_write, or the characters of a formatted item.  Unformatted
\* items are not written after one that failed; formatted items are.
WriteItem(u, w) ==
  LET f == FileOf(u)
      pos == unit[u].pos IN
  /\ Busy(u) /\ (transfer[u].ok \/ transfer[u].mode = "formatted")
  /\ FormOf[f] = "formatted" => w # Newline
  /\ \/ /\ ~ Full(u) /\ NoFault
        /\ Fits(f, pos + (IF transfer[u].mode = "direct" THEN 1 ELSE 2))
        /\ disk' = [disk EXCEPT ![f] = Put(@, pos, w)]
        /\ Position(u, pos + 1)
        /\ UNCHANGED << transfer, clean >>
     \/ /\ IF Full(u) THEN NoFault ELSE Fault
        /\ transfer' = [transfer EXCEPT ![u].ok = FALSE]
        /\ clean' = [clean EXCEPT ![f] = @ /\ transfer[u].mode = "unformatted"]
        /\ UNCHANGED << disk, unit >>
  /\ UNCHANGED << buffer, records, direct >>

\* An item or the newline of a formatted WRITE finds the buffer full, and
\* writing it out fails: lines before this one may be lost.
OutputLost(u) ==
  /\ Writing(u, "formatted") /\ u \in DOMAIN buffer /\ Fault
  /\ \E m \in 0 .. unit[u].pos :
       /\ DropTo(u, m)
       /\ transfer' \in {Without(transfer, u),
                        [transfer EXCEPT ![u].ok = FALSE, ![u].inOrder = FALSE,
                                         ![u].start = IF m < @ THEN m ELSE @]}

\* A WRITE ends at pos with these cells in its file.
Finish(u, pos, cells) ==
  /\ disk' = [disk EXCEPT ![FileOf(u)] = cells]
  /\ unit' = [unit EXCEPT ![u].pos = pos]
  /\ transfer' = Without(transfer, u)
  /\ UNCHANGED buffer

\* It made a record of the payload, or failed to.
Recorded(u) ==
  /\ records' = [records EXCEPT ![FileOf(u)] =
                   IF transfer[u].inOrder
                   THEN Append(@, SubSeq(Cells(u), transfer[u].start + 1, unit[u].pos))
                   ELSE @]
  /\ NoFault /\ UNCHANGED << clean, direct >>
Unrecorded(u) ==
  /\ clean' = [clean EXCEPT ![FileOf(u)] = FALSE]
  /\ UNCHANGED << records, direct >>

\* The newline is written whatever came of the items.
EndFormatted(u) ==
  LET pos == unit[u].pos IN
  /\ Writing(u, "formatted")
  /\ \/ /\ Finish(u, pos + 1, Put(Cells(u), pos, Newline))
        /\ IF transfer[u].ok THEN Recorded(u) ELSE NoFault /\ Unrecorded(u)
     \/ /\ Fault
        /\ Finish(u, pos, Cells(u))
        /\ Unrecorded(u)

\* Mutant: the header is not replaced.
EndUnformattedUnpatched(u) ==
  LET pos == unit[u].pos IN
  /\ Writing(u, "unformatted")
  /\ Finish(u, pos + 1, Put(Cells(u), pos, pos - transfer[u].start))
  /\ Recorded(u)

\* Mutant: a record with a failed item gets no trailer.
EndUnformattedIfOk(u) ==
  LET pos == unit[u].pos
      start == transfer[u].start
      trailed == Put(Cells(u), pos, pos - start) IN
  /\ Writing(u, "unformatted")
  /\ IF transfer[u].ok
     THEN Finish(u, pos + 1, Put(trailed, start - 1, pos - start)) /\ Recorded(u)
     ELSE Finish(u, pos, Cells(u)) /\ UNCHANGED << faults, history >>

\* The trailer is written and the header replaced by the length, of a
\* record cut short by a failed item too.
EndUnformatted(u) ==
  LET pos == unit[u].pos
      start == transfer[u].start
      length == pos - start
      trailed == Put(Cells(u), pos, length) IN
  /\ Writing(u, "unformatted")
  /\ \/ /\ Finish(u, pos + 1, Put(trailed, start - 1, length))
        /\ Recorded(u)
     \/ /\ Fault
        /\ \/ Finish(u, pos, Cells(u))
           \/ Finish(u, start - 1, trailed)
        /\ Unrecorded(u)

\* f2c_transfer_fill: zeros from the position to cell n.
Fill(cells, pos, n) ==
  [i \in 1 .. (IF n > pos /\ n > Len(cells) THEN n ELSE Len(cells)) |->
     IF i <= Len(cells) /\ (i <= pos \/ i > n) THEN cells[i] ELSE 0]

\* What a direct record has then.
Padded(cells, start, pos) ==
  [i \in 1 .. Recl |-> IF start + i <= pos THEN cells[start + i] ELSE 0]

\* The rest of a direct record is filled, unless an item failed.
EndDirect(u) ==
  LET f == FileOf(u)
      pos == unit[u].pos
      start == transfer[u].start IN
  /\ Writing(u, "direct")
  /\ \/ /\ transfer[u].ok /\ NoFault
        /\ Finish(u, start + Recl, Fill(Cells(u), pos, start + Recl))
        /\ direct' = [direct EXCEPT ![f] = With(@, transfer[u].record, Padded(Cells(u), start, pos))]
     \/ /\ IF transfer[u].ok THEN Fault ELSE NoFault
        /\ \E n \in pos .. start + Recl :
             /\ ~ transfer[u].ok => n = pos
             /\ Finish(u, start + Recl, Fill(Cells(u), pos, n))
        /\ UNCHANGED direct
  /\ UNCHANGED << records, clean >>

-----------------------------------------------------------------------------
Control(u) ==
  \/ \E f \in Name, o \in Options : Open(u, f, o.status, o.access, o.action, o.append)
  \/ \E o \in Scratch : OpenScratch(u, o.access, o.action)
  \/ \E delete \in BOOLEAN : Close(u, delete)
  \/ \E action \in {"read", "write"} : OpenImplicitly(u, action)
  \/ Rewind(u) \/ Backspace(u) \/ BackspaceFails(u) \/ Inquire(u)
  \/ Endfile(u) \/ EndfileAbandoned(u) \/ EndfileDetached(u) \/ EndfileLoses(u)

Read(u) ==
  \/ ReadFormatted(u) \/ ReadFormattedFails(u) \/ ReadImplicitly(u)
  \/ \E n \in 0 .. MaxItems : ReadUnformatted(u, n)
  \/ \E record \in Record : ReadDirect(u, record)

Write(u) ==
  \/ BeginFormatted(u) \/ BeginImplicitly(u) \/ BeginUnformatted(u)
  \/ \E record \in Record : BeginDirect(u, record)
  \/ (\E w \in Word : WriteItem(u, w)) \/ OutputLost(u)
  \/ EndFormatted(u) \/ EndUnformatted(u) \/ EndDirect(u)

Next == \E u \in Unit : Control(u) \/ Read(u) \/ Write(u)

Spec == Init /\ [][Next]_vars

-----------------------------------------------------------------------------
(***************************************************************************)
(* What the runtime promises of files.                                     *)
(***************************************************************************)

(***************************************************************************)
(* The unit table is sound: every entry names a file that exists and no    *)
(* other entry uses, a WRITE in progress is of a connected unit that may   *)
(* write, and only the failed ENDFILE of a named file leaves an entry      *)
(* whose stream is not the stream of its file.                             *)
(***************************************************************************)
TypeOK ==
  /\ \A f \in DOMAIN disk : f \in File /\ disk[f] \in Seq(Nat)
  /\ \A u \in DOMAIN unit :
       /\ u \in Unit /\ FileOf(u) \in DOMAIN disk /\ Unshared(u, FileOf(u))
       /\ unit[u].pos \in Nat
       /\ unit[u].stream = "open" => unit[u].handle = "open"
       /\ unit[u].stream = "closed" =>
            FileOf(u) \in Name /\ unit[u].access = "sequential" /\ faults > 0
  /\ DOMAIN buffer \subseteq DOMAIN unit
  /\ \A u \in DOMAIN transfer :
       /\ Connected(u) /\ unit[u].action # "read"
       /\ transfer[u].start <= unit[u].pos

(***************************************************************************)
(* The records written to a file stay at its start, as they were written,  *)
(* through every sequence of OPEN, CLOSE, READ, WRITE and positioning,     *)
(* until one of them is overwritten or cut off, or a statement fails that  *)
(* had to write a buffer out: that may take lines written since the unit   *)
(* was last positioned, read or connected.  The records before those are   *)
(* in the file without what is in the buffer.                              *)
(***************************************************************************)
RecordsOnDisk ==
  /\ \A f \in DOMAIN disk : IsPrefix(Bytes(f, records[f]), disk[f])
  /\ \A u \in DOMAIN buffer :
       IsPrefix(Bytes(FileOf(u), Kept(FileOf(u), buffer[u].from)), buffer[u].under)

InTransfer(f) == \E u \in DOMAIN transfer : FileOf(u) = f

(***************************************************************************)
(* A file no record of which was overwritten, no line, trailer or header   *)
(* of which failed and no buffer of which was lost holds its records and   *)
(* nothing else: a WRITE whose items fail still leaves a record that can   *)
(* be read.                                                                *)
(***************************************************************************)
CleanFileIsItsRecords ==
  \A f \in DOMAIN disk :
    clean[f] /\ ~ InTransfer(f) => disk[f] = Bytes(f, records[f])

(***************************************************************************)
(* What was last written to a direct record is where REC= finds it, padded *)
(* to RECL, whatever is written to other records, before or behind it.     *)
(***************************************************************************)
DirectRecordsKept ==
  \A f \in DOMAIN disk : \A record \in DOMAIN direct[f] :
    SubSeq(disk[f], Offset(record) + 1, Offset(record) + Recl) = direct[f][record]

\* The number of records before the position of a unit, -1 where it is not
\* at a record of the history, and -2 in the middle of writing one.
PlaceOf(u) ==
  LET f == FileOf(u)
      ends == Ends(f)
      at == {k \in DOMAIN ends : ends[k] = unit[u].pos} IN
  IF Busy(u)
  THEN IF transfer[u].inOrder /\ (transfer[u].ok \/ transfer[u].mode = "unformatted")
       THEN -2 ELSE -1
  ELSE IF at = {} \/ unit[u].handle = "none" THEN -1 ELSE CHOOSE k \in at : TRUE

(***************************************************************************)
(* A READ at a record of the history gets that record, whatever was done   *)
(* to the file and lost of it before, and goes to the next; behind the     *)
(* last record of a clean file it meets the end of the file.               *)
(***************************************************************************)
ReadsWhatWasWritten ==
  \A u \in DOMAIN unit :
    LET f == FileOf(u)
        k == PlaceOf(u)
        Read1(n) == IF FormOf[f] = "formatted" THEN ReadLine(disk[f], unit[u].pos)
                                               ELSE ReadPayload(disk[f], unit[u].pos, n) IN
    Sequential(u) /\ k >= 0 =>
      /\ k < Len(records[f]) =>
           Read1(Len(records[f][k + 1])) =
             Reading(EndOf(f, k + 1), "ok", records[f][k + 1])
      /\ k = Len(records[f]) /\ clean[f] => Read1(1).status = "end"

(***************************************************************************)
(* Bytes, markers and positions implement files of records: see            *)
(* SequentialFile for what READ, WRITE, BACKSPACE and ENDFILE promise.     *)
(***************************************************************************)
Files == INSTANCE SequentialFile WITH
  place <- [u \in {v \in DOMAIN unit : Sequential(v)} |->
              [file |-> FileOf(u), at |-> PlaceOf(u)]],
  whole <- clean, failures <- faults,
  fragile <- [u \in DOMAIN buffer |-> Len(Kept(FileOf(u), buffer[u].from))]

ImplementsSequentialFile == Files!Spec

(***************************************************************************)
(* In particular a BACKSPACE goes back by one record and a READ, however   *)
(* little of the record it takes, forward by one.                          *)
(***************************************************************************)
StatementsMoveByRecords ==
  [][\A u \in DOMAIN unit :
       Sequential(u) =>
         /\ Backspace(u) => Files!Backspace(u)
         /\ ReadFormatted(u) \/ (\E n \in 0 .. MaxItems : ReadUnformatted(u, n))
              => Files!Read(u)]_vars
=============================================================================

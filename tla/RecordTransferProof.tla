------------------------ MODULE RecordTransferProof ------------------------
(***************************************************************************)
(* Proofs about the generated I/O runtime, for any number of units, files  *)
(* and records, any OPEN specifiers and any failing library calls:         *)
(*   - the unit table is sound;                                            *)
(*   - direct records are what was last written to them;                   *)
(*   - the sequential records of a file stay at its start, and a clean     *)
(*     file is its records;                                                *)
(*   - a READ at a record gets what was written there;                     *)
(*   - BACKSPACE and READ move by one record;                              *)
(*   - bytes, markers and positions implement the records and places of    *)
(*     SequentialFile.                                                     *)
(***************************************************************************)
EXTENDS RecordTransfer, RecursionLemmas, SequenceTheorems, WellFoundedInduction, TLAPS

Entries == [file : File, access : {"sequential", "direct"},
            action : {"read", "write", "readwrite"}, pos : Nat,
            handle : {"open", "none"}, stream : {"open", "closed"}]
Transfers == [mode : {"formatted", "unformatted", "direct"}, start : Nat,
              record : Nat, ok : BOOLEAN, inOrder : BOOLEAN]

\* The direct records known of a file are in its cells.
DirectIn(cells, known) ==
  \A record \in DOMAIN known :
    /\ record \in Nat \ {0} /\ Offset(record) + Recl <= Len(cells)
    /\ SubSeq(cells, Offset(record) + 1, Offset(record) + Recl) = known[record]

FileSound(f) == disk[f] \in Seq(Nat) /\ DirectIn(disk[f], direct[f])

EntrySound(u) ==
  /\ unit[u] \in Entries /\ FileOf(u) \in DOMAIN disk
  /\ FileOf(u) \in Unit => FileOf(u) = u
  /\ unit[u].stream = "open" => unit[u].handle = "open"
  /\ unit[u].stream = "closed" =>
       FileOf(u) \in Name /\ unit[u].access = "sequential" /\ faults > 0

\* A WRITE has the form its unit is used with.  A direct WRITE is within its
\* record, which is not known meanwhile; any other WRITE is to a file without
\* known direct records.
TransferSound(u) ==
  LET t == transfer[u]
      pos == unit[u].pos IN
  /\ t \in Transfers /\ Connected(u) /\ unit[u].action # "read"
  /\ t.mode = (IF unit[u].access = "direct" THEN "direct" ELSE FormOf[FileOf(u)])
  /\ t.start <= pos
  /\ t.mode = "unformatted" => t.start >= 1
  /\ IF t.mode = "direct"
     THEN /\ t.record \in Nat \ {0} /\ t.start = Offset(t.record)
          /\ pos <= t.start + Recl /\ (pos > t.start => pos <= Len(Cells(u)))
          /\ t.record \notin DOMAIN direct[FileOf(u)]
     ELSE DOMAIN direct[FileOf(u)] = {}

\* A buffer is that of a formatted sequential file, and holds cells up to the
\* position of its unit.
BufferSound(u) ==
  /\ Connected(u) /\ unit[u].access = "sequential" /\ FormOf[FileOf(u)] = "formatted"
  /\ buffer[u] \in [from : Nat, under : Seq(Nat)]
  /\ buffer[u].from <= unit[u].pos
  /\ buffer[u].from < unit[u].pos => unit[u].pos <= Len(Cells(u))

\* The inductive invariant.
IInv ==
  /\ DOMAIN disk \subseteq File /\ DOMAIN unit \subseteq Unit
  /\ DOMAIN direct = File /\ faults \in Nat
  /\ \A f \in DOMAIN disk : FileSound(f)
  /\ \A u \in DOMAIN unit : EntrySound(u) /\ Unshared(u, FileOf(u))
  /\ \A u \in DOMAIN transfer : TransferSound(u)
  /\ \A u \in DOMAIN buffer : BufferSound(u)

-----------------------------------------------------------------------------
(* Numbers, sequences and functions.                                       *)

(***************************************************************************)
(* A set of natural numbers that is not empty has a least element, such as *)
(* the next newline of a formatted file.                                   *)
(***************************************************************************)
LEMMA MinFacts ==
  ASSUME NEW S \in SUBSET Nat, S # {}
  PROVE  Min(S) \in S /\ \A k \in S : Min(S) <= k
<1>1. PICK x \in S : \A y \in S : << y, x >> \notin OpToRel(<, Nat)
  BY NatLessThanWellFounded, WFMin
<1>2. \A y \in S : ~ (y < x)
  BY <1>1 DEF OpToRel
<1>3. \A y \in S : x <= y
  BY <1>2
<1> QED BY <1>3 DEF Min

(***************************************************************************)
(* So has one with an upper bound a greatest, such as the last newline.    *)
(***************************************************************************)
LEMMA MaxFacts ==
  ASSUME NEW S \in SUBSET Nat, S # {}, NEW n \in Nat, \A k \in S : k <= n
  PROVE  Max(S) \in S /\ \A k \in S : k <= Max(S)
<1> DEFINE T == {n - k : k \in S}
<1>1. T \in SUBSET Nat /\ T # {}
  <2>1. \A k \in S : n - k \in Nat
    OBVIOUS
  <2> QED BY <2>1
<1>2. PICK t \in T : \A k \in T : t <= k
  BY <1>1, MinFacts
<1>3. PICK x \in S : t = n - x
  BY <1>2
<1>4. \A k \in S : k <= x
  <2> TAKE k \in S
  <2>1. n - k \in T
    OBVIOUS
  <2> HIDE DEF T
  <2>2. n - x <= n - k
    BY <2>1, <1>2, <1>3
  <2>3. k \in Nat /\ x \in Nat
    OBVIOUS
  <2> QED BY <2>2, <2>3
<1> QED BY <1>4 DEF Max

(***************************************************************************)
(* Two direct records do not overlap.                                      *)
(***************************************************************************)
LEMMA RecordsApart ==
  ASSUME NEW r \in Nat \ {0}, NEW s \in Nat \ {0}, r # s
  PROVE  /\ Offset(r) \in Nat
         /\ Offset(r) + Recl <= Offset(s) \/ Offset(s) + Recl <= Offset(r)
<1>1. Recl \in Nat
  BY BoundsAssumption
<1>2. \A a, b \in Nat : a + 1 <= b => a * Recl + Recl <= b * Recl
  <2> SUFFICES ASSUME NEW a \in Nat, NEW b \in Nat, a + 1 <= b
               PROVE  a * Recl + Recl <= b * Recl
    OBVIOUS
  <2> DEFINE d == b - (a + 1)
  <2>1. d \in Nat /\ b = a + 1 + d
    OBVIOUS
  <2> HIDE DEF d
  <2>2. b * Recl = a * Recl + Recl + d * Recl
    <3>1. \A x, y \in Nat : (x + y) * Recl = x * Recl + y * Recl
      BY <1>1
    <3>2. b * Recl = (a + 1) * Recl + d * Recl /\ (a + 1) * Recl = a * Recl + 1 * Recl
      BY <2>1, <3>1
    <3> QED BY <3>2, <1>1
  <2>3. d * Recl \in Nat /\ a * Recl \in Nat
    BY <1>1, <2>1
  <2> QED BY <2>2, <2>3, <1>1
<1>3. r - 1 \in Nat /\ s - 1 \in Nat
  OBVIOUS
<1>4. (r - 1) + 1 <= s - 1 \/ (s - 1) + 1 <= r - 1
  OBVIOUS
<1>5. (r - 1) * Recl \in Nat
  BY <1>1, <1>3
<1> QED BY <1>2, <1>3, <1>4, <1>5 DEF Offset

(***************************************************************************)
(* Writing a cell at a position makes the file no shorter and changes no   *)
(* other cell of it.                                                       *)
(***************************************************************************)
LEMMA PutFacts ==
  ASSUME NEW cells \in Seq(Nat), NEW pos \in Nat, NEW cell \in Nat
  PROVE  /\ Put(cells, pos, cell) \in Seq(Nat)
         /\ Len(Put(cells, pos, cell)) = IF pos < Len(cells) THEN Len(cells) ELSE pos + 1
         /\ \A i \in 1 .. Len(cells) :
              i # pos + 1 => Put(cells, pos, cell)[i] = cells[i]
<1> DEFINE n == IF pos < Len(cells) THEN Len(cells) ELSE pos + 1
           e(i) == IF i = pos + 1 THEN cell ELSE IF i <= Len(cells) THEN cells[i] ELSE 0
           put == [i \in 1 .. n |-> e(i)]
<1>1. Len(cells) \in Nat /\ \A i \in 1 .. Len(cells) : cells[i] \in Nat
  BY LenProperties
<1>2. n \in Nat /\ Len(cells) <= n
  BY <1>1
<1>3. \A i \in 1 .. n : e(i) \in Nat
  BY <1>1
<1>4. put \in Seq(Nat) /\ Len(put) = n
  <2> HIDE DEF n, e
  <2>1. put \in [1 .. n -> Nat] /\ DOMAIN put = 1 .. n
    BY <1>3
  <2> QED BY <1>2, <2>1
<1>5. put = Put(cells, pos, cell)
  BY DEF Put
<1>6. \A i \in 1 .. Len(cells) : i # pos + 1 => put[i] = cells[i]
  BY <1>2, <1>1
<1> QED BY <1>4, <1>5, <1>6

(***************************************************************************)
(* A direct record that no written cell belongs to is still there.         *)
(***************************************************************************)
LEMMA DirectKeptIf ==
  ASSUME NEW old \in Seq(Nat), NEW new \in Seq(Nat), NEW known, DirectIn(old, known),
         Len(old) <= Len(new),
         \A record \in DOMAIN known : \A i \in 1 .. Recl :
           new[Offset(record) + i] = old[Offset(record) + i]
  PROVE  DirectIn(new, known)
<1> SUFFICES ASSUME NEW record \in DOMAIN known
             PROVE  /\ Offset(record) + Recl <= Len(new)
                    /\ SubSeq(new, Offset(record) + 1, Offset(record) + Recl) = known[record]
  BY DEF DirectIn
<1> DEFINE o == Offset(record)
<1>1. record \in Nat \ {0} /\ o + Recl <= Len(old) /\ SubSeq(old, o + 1, o + Recl) = known[record]
  BY DEF DirectIn
<1>2. Recl \in Nat \ {0} /\ o \in Nat
  <2>1. Recl \in Nat \ {0}
    BY BoundsAssumption
  <2>2. record + 1 \in Nat \ {0} /\ record + 1 # record
    BY <1>1
  <2> QED BY <2>1, <2>2, <1>1, RecordsApart
<1>3. Len(old) \in Nat /\ Len(new) \in Nat
  BY LenProperties
<1>6. \A i \in 1 .. Recl : new[o + i] = old[o + i]
  OBVIOUS
<1> HIDE DEF o
<1>4. \A i \in 1 .. Recl : new[o + i] = old[o + i] /\ old[o + i] \in Nat
  <2> TAKE i \in 1 .. Recl
  <2>1. o + i \in 1 .. Len(old)
    BY <1>1, <1>2, <1>3
  <2>2. old[o + i] \in Nat
    BY <2>1, ElementOfSeq
  <2> QED BY <2>2, <1>6
<1>5. SubSeq(new, o + 1, o + Recl) = SubSeq(old, o + 1, o + Recl)
  <2>1. \A k \in o + 1 .. o + Recl : new[k] \in Nat /\ old[k] \in Nat /\ new[k] = old[k]
    <3> TAKE k \in o + 1 .. o + Recl
    <3>1. k - o \in 1 .. Recl /\ k = o + (k - o)
      BY <1>2
    <3> QED BY <3>1, <1>4
  <2> DEFINE a == SubSeq(new, o + 1, o + Recl)
             b == SubSeq(old, o + 1, o + Recl)
  <2>2. /\ a \in Seq(Nat) /\ Len(a) = Recl /\ \A i \in 1 .. Recl : a[i] = new[o + i]
    <3>1. /\ a \in Seq(Nat) /\ Len(a) = (IF o + 1 <= o + Recl THEN (o + Recl) - (o + 1) + 1 ELSE 0)
          /\ \A i \in 1 .. (o + Recl) - (o + 1) + 1 : a[i] = new[(o + 1) + i - 1]
      BY <1>2, <2>1, SubSeqProperties
    <3> HIDE DEF a
    <3> QED BY <3>1, <1>2
  <2>3. /\ b \in Seq(Nat) /\ Len(b) = Recl /\ \A i \in 1 .. Recl : b[i] = old[o + i]
    <3>1. /\ b \in Seq(Nat) /\ Len(b) = (IF o + 1 <= o + Recl THEN (o + Recl) - (o + 1) + 1 ELSE 0)
          /\ \A i \in 1 .. (o + Recl) - (o + 1) + 1 : b[i] = old[(o + 1) + i - 1]
      BY <1>2, <2>1, SubSeqProperties
    <3> HIDE DEF b
    <3> QED BY <3>1, <1>2
  <2> HIDE DEF a, b
  <2>4. \A i \in 1 .. Len(a) : a[i] = b[i]
    BY <2>2, <2>3, <1>4
  <2>5. a = b
    BY <2>2, <2>3, <2>4, SeqEqual
  <2> QED BY <2>5 DEF a, b
<1>7. SubSeq(new, o + 1, o + Recl) = known[record]
  BY <1>1, <1>5
<1>8. o + Recl <= Len(new)
  <2>1. o + Recl <= Len(old) /\ Len(old) <= Len(new)
    BY <1>1
  <2> QED BY <2>1, <1>2, <1>3
<1> QED BY <1>7, <1>8 DEF o

-----------------------------------------------------------------------------
(* Steps of a unit.                                                        *)

OthersBuffers(u) ==
  /\ \A v \in DOMAIN buffer : v # u => v \in DOMAIN buffer'
  /\ \A v \in DOMAIN buffer' : v # u => v \in DOMAIN buffer /\ buffer'[v] = buffer[v]

\* Nothing is in the buffer of u, those of the other units are as they were.
Drained(u) == u \notin DOMAIN buffer' /\ OthersBuffers(u)

\* Unit u uses no file but those of F, and no other unit uses them.  Direct
\* records of other files may be forgotten: the file may be empty.
Within(u, F) ==
  /\ \A v \in DOMAIN unit : v # u =>
       FileOf(v) \notin F /\ v \in DOMAIN unit' /\ unit'[v] = unit[v]
  /\ \A v \in DOMAIN unit' : v # u => v \in DOMAIN unit
  /\ \A v \in DOMAIN transfer' : v # u => v \in DOMAIN transfer /\ transfer'[v] = transfer[v]
  /\ OthersBuffers(u)
  /\ \A f \in DOMAIN disk : f \notin F => f \in DOMAIN disk' /\ disk'[f] = disk[f]
  /\ \A f \in DOMAIN disk' : f \in File /\ (f \notin F => f \in DOMAIN disk)
  /\ DOMAIN direct' = File
  /\ \A f \in File : f \notin F => direct'[f] = direct[f] \/ direct'[f] = << >>
  /\ faults' \in Nat /\ faults' >= faults

(***************************************************************************)
(* Such a step keeps the invariant if its own entry, transfer, buffer and  *)
(* files are sound.                                                        *)
(***************************************************************************)
LEMMA StepSound ==
  ASSUME IInv, NEW u \in Unit, NEW F, Within(u, F),
         \A f \in DOMAIN disk' : f \in F => FileSound(f)',
         u \in DOMAIN unit' => EntrySound(u)' /\ Unshared(u, FileOf(u)'),
         u \in DOMAIN transfer' => TransferSound(u)',
         u \in DOMAIN buffer' => BufferSound(u)'
  PROVE  IInv'
<1>1. /\ DOMAIN disk' \subseteq File /\ DOMAIN unit' \subseteq Unit
      /\ DOMAIN direct' = File /\ faults' \in Nat
  BY DEF IInv, Within
<1>2. ASSUME NEW f \in DOMAIN disk' PROVE FileSound(f)'
  <2>1. CASE f \in F
    BY <2>1
  <2>2. CASE f \notin F
    <3>1. f \in File /\ f \in DOMAIN disk /\ disk'[f] = disk[f]
      BY <2>2 DEF Within
    <3>2. direct'[f] = direct[f] \/ direct'[f] = << >>
      BY <2>2, <3>1 DEF Within
    <3>3. disk[f] \in Seq(Nat) /\ DirectIn(disk[f], direct[f])
      BY <3>1 DEF IInv, FileSound
    <3>4. DirectIn(disk[f], << >>)
      BY DEF DirectIn
    <3> QED BY <3>1, <3>2, <3>3, <3>4 DEF FileSound, DirectIn, Offset
  <2> QED BY <2>1, <2>2
<1>3. ASSUME NEW v \in DOMAIN unit', v # u
      PROVE  /\ v \in DOMAIN unit /\ unit'[v] = unit[v] /\ FileOf(v) \notin F
             /\ FileOf(v) \in DOMAIN disk /\ FileOf(v) \in DOMAIN disk'
             /\ disk'[FileOf(v)] = disk[FileOf(v)] /\ FileOf(v) \in File
             /\ direct'[FileOf(v)] = direct[FileOf(v)] \/ direct'[FileOf(v)] = << >>
  <2>1. v \in DOMAIN unit /\ unit'[v] = unit[v] /\ FileOf(v) \notin F
    BY <1>3 DEF Within
  <2>2. FileOf(v) \in DOMAIN disk /\ FileOf(v) \in File
    BY <2>1 DEF IInv, EntrySound
  <2> QED BY <2>1, <2>2 DEF Within
<1>4. ASSUME NEW v \in DOMAIN unit' PROVE EntrySound(v)' /\ Unshared(v, FileOf(v))'
  <2>1. CASE v = u
    <3>1. EntrySound(u)' /\ Unshared(u, FileOf(u)')
      BY <2>1
    <3>2. ASSUME NEW w \in DOMAIN unit' \ {u} PROVE FileOf(w)' # FileOf(u)'
      <4>1. w \in DOMAIN unit /\ unit'[w] = unit[w]
        BY <1>3
      <4> QED BY <3>1, <4>1 DEF Unshared, FileOf
    <3> QED BY <2>1, <3>1, <3>2 DEF Unshared
  <2>2. CASE v # u
    <3>1. v \in DOMAIN unit /\ unit'[v] = unit[v] /\ FileOf(v)' = FileOf(v) /\ FileOf(v) \in DOMAIN disk'
      BY <1>3, <2>2 DEF FileOf
    <3>2. EntrySound(v) /\ Unshared(v, FileOf(v))
      BY <3>1 DEF IInv
    <3>3. EntrySound(v)'
      <4>1. faults > 0 => faults' > 0
        BY DEF IInv, Within
      <4> QED BY <3>1, <3>2, <4>1 DEF EntrySound
    <3>4. ASSUME NEW w \in DOMAIN unit' \ {v} PROVE FileOf(w)' # FileOf(v)'
      <4>1. CASE w = u
        <5>1. FileOf(v) # FileOf(u)'
          BY <4>1, <3>1, <2>2 DEF Unshared
        <5> QED BY <4>1, <5>1, <3>1
      <4>2. CASE w # u
        <5>1. w \in DOMAIN unit /\ FileOf(w)' = FileOf(w)
          BY <1>3, <4>2 DEF FileOf
        <5> QED BY <5>1, <3>1, <3>2 DEF Unshared
      <4> QED BY <4>1, <4>2
    <3> QED BY <3>3, <3>4 DEF Unshared
  <2> QED BY <2>1, <2>2
<1>5. ASSUME NEW v \in DOMAIN transfer' PROVE TransferSound(v)'
  <2>1. CASE v = u
    BY <2>1
  <2>2. CASE v # u
    <3>1. v \in DOMAIN transfer /\ transfer'[v] = transfer[v]
      BY <2>2 DEF Within
    <3>2. TransferSound(v) /\ v \in DOMAIN unit
      BY <3>1 DEF IInv, TransferSound, Connected
    <3>3. v \in DOMAIN unit'
      BY <3>2, <2>2 DEF Within
    <3>4. /\ unit'[v] = unit[v] /\ FileOf(v)' = FileOf(v) /\ Cells(v)' = Cells(v)
          /\ direct'[FileOf(v)] = direct[FileOf(v)] \/ direct'[FileOf(v)] = << >>
      BY <1>3, <3>3, <2>2 DEF FileOf, Cells
    <3>5. DOMAIN (direct'[FileOf(v)]) \subseteq DOMAIN (direct[FileOf(v)])
      BY <3>4
    <3> QED BY <3>1, <3>2, <3>3, <3>4, <3>5 DEF TransferSound, Connected
  <2> QED BY <2>1, <2>2
<1>6. ASSUME NEW v \in DOMAIN buffer' PROVE BufferSound(v)'
  <2>1. CASE v = u
    BY <2>1
  <2>2. CASE v # u
    <3>1. v \in DOMAIN buffer /\ buffer'[v] = buffer[v]
      BY <2>2 DEF Within, OthersBuffers
    <3>2. BufferSound(v) /\ v \in DOMAIN unit
      BY <3>1 DEF IInv, BufferSound, Connected
    <3>3. v \in DOMAIN unit'
      BY <3>2, <2>2 DEF Within
    <3>4. unit'[v] = unit[v] /\ FileOf(v)' = FileOf(v) /\ Cells(v)' = Cells(v)
      BY <1>3, <3>3, <2>2 DEF FileOf, Cells
    <3> QED BY <3>1, <3>2, <3>3, <3>4 DEF BufferSound, Connected
  <2> QED BY <2>1, <2>2
<1> QED BY <1>1, <1>2, <1>4, <1>5, <1>6 DEF IInv

(***************************************************************************)
(* A buffer that is written out is gone, and only that of a formatted      *)
(* sequential unit is there before.                                        *)
(***************************************************************************)
LEMMA DrainedIf ==
  ASSUME NEW u
  PROVE  /\ Emptied(u) => Drained(u)
         /\ u \notin DOMAIN buffer /\ UNCHANGED buffer => Drained(u)
BY DEF Emptied, Without, Restrict, Drained, OthersBuffers

LEMMA Unbuffered ==
  ASSUME IInv, NEW u,
         \/ u \notin DOMAIN unit \/ unit[u].access = "direct"
         \/ FormOf[FileOf(u)] = "unformatted"
  PROVE  u \notin DOMAIN buffer
BY DEF IInv, BufferSound, Connected

(***************************************************************************)
(* A connected unit between two transfers has an entry, and its file has   *)
(* cells.                                                                  *)
(***************************************************************************)
LEMMA UnitFacts ==
  ASSUME IInv, NEW u \in DOMAIN unit
  PROVE  /\ u \in Unit /\ unit[u] \in Entries /\ FileOf(u) \in File
         /\ FileOf(u) \in DOMAIN disk /\ unit[u].pos \in Nat
         /\ Cells(u) \in Seq(Nat) /\ Len(Cells(u)) \in Nat
         /\ \A i \in 1 .. Len(Cells(u)) : Cells(u)[i] \in Nat
         /\ DirectIn(Cells(u), direct[FileOf(u)])
         /\ \A v \in DOMAIN unit : v # u => FileOf(v) # FileOf(u)
<1>1. /\ u \in Unit /\ unit[u] \in Entries /\ FileOf(u) \in DOMAIN disk
      /\ Unshared(u, FileOf(u)) /\ FileSound(FileOf(u)) /\ DOMAIN disk \subseteq File
  BY DEF IInv, EntrySound
<1>2. unit[u].pos \in Nat
  BY <1>1 DEF Entries
<1>3. Cells(u) \in Seq(Nat) /\ DirectIn(Cells(u), direct[FileOf(u)])
  BY <1>1 DEF FileSound, Cells
<1>4. Len(Cells(u)) \in Nat /\ \A i \in 1 .. Len(Cells(u)) : Cells(u)[i] \in Nat
  BY <1>3, LenProperties, ElementOfSeq
<1> QED BY <1>1, <1>2, <1>3, <1>4 DEF Unshared

(***************************************************************************)
(* A step that changes nothing but an entry, as positioning and READ do.   *)
(***************************************************************************)
LEMMA EntryChanges ==
  ASSUME IInv, NEW u \in DOMAIN unit, u \notin DOMAIN transfer,
         NEW entry \in Entries, entry.file = FileOf(u),
         entry.stream = "open" => entry.handle = "open",
         entry.stream = "closed" =>
           FileOf(u) \in Name /\ entry.access = "sequential" /\ faults' > 0,
         unit' = [unit EXCEPT ![u] = entry],
         UNCHANGED << disk, transfer, direct >>, Drained(u),
         faults' \in Nat, faults' >= faults
  PROVE  IInv'
<1>1. /\ DOMAIN unit' = DOMAIN unit /\ unit'[u] = entry /\ FileOf(u)' = FileOf(u)
      /\ \A v \in DOMAIN unit : v # u => unit'[v] = unit[v]
  BY DEF FileOf
<1>2. Within(u, {}) /\ u \notin DOMAIN buffer'
  BY <1>1 DEF Within, IInv, Drained
<1>3. EntrySound(u)
  BY DEF IInv
<1>4. EntrySound(u)' /\ Unshared(u, FileOf(u)')
  BY <1>1, <1>3, UnitFacts DEF EntrySound, Unshared
<1> QED BY <1>1, <1>2, <1>4, StepSound, UnitFacts

LEMMA PositionChanges ==
  ASSUME IInv, NEW u \in DOMAIN unit, u \notin DOMAIN transfer,
         NEW pos \in Nat, Position(u, pos),
         UNCHANGED << disk, transfer, direct >>, Drained(u),
         faults' \in Nat, faults' >= faults
  PROVE  IInv'
<1> DEFINE entry == [unit[u] EXCEPT !.pos = pos]
<1>1. entry \in Entries /\ entry.file = unit[u].file /\ entry.stream = unit[u].stream
      /\ entry.handle = unit[u].handle /\ entry.access = unit[u].access
  BY UnitFacts DEF Entries
<1>2. unit' = [unit EXCEPT ![u] = entry]
  BY DEF Position
<1>3. EntrySound(u) /\ faults \in Nat
  BY DEF IInv
<1> HIDE DEF entry
<1>4. entry.file = FileOf(u)
  BY <1>1 DEF FileOf
<1>5. /\ entry.stream = "open" => entry.handle = "open"
      /\ entry.stream = "closed" =>
           FileOf(u) \in Name /\ entry.access = "sequential" /\ faults' > 0
  BY <1>1, <1>3 DEF EntrySound
<1> QED BY <1>1, <1>2, <1>4, <1>5, EntryChanges

(***************************************************************************)
(* Calls that fail are counted.                                            *)
(***************************************************************************)
LEMMA FaultFacts ==
  ASSUME IInv
  PROVE  /\ Fault => faults' \in Nat /\ faults' >= faults /\ faults' > 0
         /\ NoFault => faults' \in Nat /\ faults' >= faults
         /\ faults \in Nat /\ faults >= faults
BY DEF IInv, Fault, NoFault

-----------------------------------------------------------------------------
(* Positions.                                                              *)

(***************************************************************************)
(* BACKSPACE and READ end at a position of the file, or where they were.   *)
(***************************************************************************)
LEMMA PositionFacts ==
  ASSUME NEW cells \in Seq(Nat), NEW pos \in Nat, NEW n \in Nat
  PROVE  /\ LineStart(cells, pos) \in Nat /\ MarkerStart(cells, pos) \in Nat
         /\ ReadLine(cells, pos).pos \in Nat /\ ReadPayload(cells, pos, n).pos \in Nat
<1>1. Len(cells) \in Nat /\ \A i \in 1 .. Len(cells) : cells[i] \in Nat
  BY LenProperties, ElementOfSeq
<1>2. LineStart(cells, pos) \in Nat
  <2> DEFINE last == IF cells[pos] = Newline /\ pos > 1 THEN pos - 1 ELSE pos
             newlines == {i \in 1 .. last : cells[i] = Newline}
  <2>1. last \in Nat
    OBVIOUS
  <2>2. newlines \in SUBSET Nat /\ \A k \in newlines : k <= last
    BY <2>1
  <2>3. newlines # {} => Max(newlines) \in Nat
    <3> HIDE DEF newlines, last
    <3> QED BY <2>1, <2>2, MaxFacts
  <2>4. LineStart(cells, pos) =
          IF pos = 0 THEN 0 ELSE IF newlines = {} THEN 0 ELSE Max(newlines)
    BY DEF LineStart
  <2> HIDE DEF newlines
  <2> QED BY <2>3, <2>4
<1>3. MarkerStart(cells, pos) \in Nat
  BY <1>1 DEF MarkerStart
<1>4. ReadLine(cells, pos).pos \in Nat
  <2> DEFINE newlines == {i \in pos + 1 .. Len(cells) : cells[i] = Newline}
             end == IF newlines = {} THEN Len(cells) ELSE Min(newlines)
  <2>1. newlines \in SUBSET Nat
    BY <1>1
  <2>2. end \in Nat
    <3> HIDE DEF newlines
    <3> QED BY <2>1, <1>1, MinFacts
  <2>3. ReadLine(cells, pos).pos = IF pos >= Len(cells) THEN pos ELSE end
    BY DEF ReadLine, Reading
  <2> HIDE DEF end
  <2> QED BY <2>2, <2>3
<1>5. ReadPayload(cells, pos, n).pos \in Nat
  <2> DEFINE start == pos + 1
             length == cells[start]
             after == start + length
  <2>1. ReadPayload(cells, pos, n).pos =
          IF start > Len(cells) THEN pos
          ELSE IF after < Len(cells) /\ cells[after + 1] = length THEN after + 1
          ELSE IF after < Len(cells) THEN after + 1 ELSE after
    BY DEF ReadPayload, Reading
  <2>2. start <= Len(cells) => length \in Nat
    BY <1>1
  <2> HIDE DEF length
  <2> QED BY <1>1, <2>1, <2>2
<1> QED BY <1>2, <1>3, <1>4, <1>5

-----------------------------------------------------------------------------
(* The statements.                                                         *)

LEMMA RewindSound == ASSUME IInv, NEW u \in Unit, Rewind(u), ~ FlushFails(u) PROVE IInv'
<1>1. u \in DOMAIN unit /\ u \notin DOMAIN transfer
  BY DEF Rewind, Sequential, Connected, Busy
<1> QED BY <1>1, FaultFacts, DrainedIf, PositionChanges DEF Rewind, history

LEMMA BackspaceSound == ASSUME IInv, NEW u \in Unit, Backspace(u) PROVE IInv'
<1>1. u \in DOMAIN unit /\ u \notin DOMAIN transfer
  BY DEF Backspace, BackspaceReady, Sequential, Connected, Busy
<1>2. /\ LineStart(Cells(u), unit[u].pos) \in Nat
      /\ MarkerStart(Cells(u), unit[u].pos) \in Nat
  BY <1>1, UnitFacts, PositionFacts
<1>3. \E pos \in Nat : Position(u, pos)
  BY <1>2 DEF Backspace
<1> QED BY <1>1, <1>3, FaultFacts, DrainedIf, PositionChanges DEF Backspace, history

\* Where a later seek of BACKSPACE fails, and that of INQUIRE.
LEMMA AstrayFacts ==
  ASSUME IInv, NEW u \in DOMAIN unit
  PROVE  /\ LineAstray(Cells(u), unit[u].pos) \subseteq Nat
         /\ MarkerAstray(Cells(u), unit[u].pos) \subseteq Nat
<1>1. Cells(u) \in Seq(Nat) /\ Len(Cells(u)) \in Nat /\ unit[u].pos \in Nat
  BY UnitFacts
<1>2. LineStart(Cells(u), unit[u].pos) \in Nat
  BY <1>1, PositionFacts
<1> QED BY <1>1, <1>2 DEF LineAstray, MarkerAstray

LEMMA AstraySound ==
  ASSUME IInv, NEW u \in Unit, BackspaceFails(u) \/ Inquire(u), ~ FlushFails(u) PROVE IInv'
<1>1. /\ u \in DOMAIN unit /\ u \notin DOMAIN transfer
      /\ Emptied(u) /\ UNCHANGED << disk, transfer, direct >> /\ (Fault \/ NoFault)
  BY DEF BackspaceFails, BackspaceReady, Inquire, Sequential, Connected, Busy, history
<1>2. CASE BackspaceFails(u)
  <2>1. PICK p \in Nat : Position(u, p)
    BY <1>1, <1>2, AstrayFacts DEF BackspaceFails
  <2> QED BY <1>1, <2>1, FaultFacts, DrainedIf, PositionChanges
<1>3. CASE Inquire(u)
  <2>1. CASE Position(u, Len(Cells(u)))
    BY <1>1, <2>1, UnitFacts, FaultFacts, DrainedIf, PositionChanges
  <2>2. CASE UNCHANGED unit
    <3>1. Within(u, {}) /\ u \notin DOMAIN buffer'
      BY <1>1, <2>2, FaultFacts, DrainedIf DEF Within, IInv, Drained
    <3>2. EntrySound(u)' /\ Unshared(u, FileOf(u)')
      <4>1. EntrySound(u) /\ Unshared(u, FileOf(u)) /\ faults' >= faults /\ faults' \in Nat /\ faults \in Nat
        BY <1>1, FaultFacts DEF IInv
      <4> QED BY <1>1, <2>2, <4>1 DEF EntrySound, Unshared, FileOf
    <3> QED BY <1>1, <3>1, <3>2, StepSound
  <2> QED BY <1>3, <2>1, <2>2 DEF Inquire
<1> QED BY <1>2, <1>3

LEMMA ReadSound ==
  ASSUME IInv, NEW u \in Unit, Read(u), ~ ReadImplicitly(u), ~ FlushFails(u) PROVE IInv'
<1> USE DEF Ready, Connected, Busy
<1>1. CASE ReadFormatted(u)
  <2>1. u \in DOMAIN unit /\ u \notin DOMAIN transfer
    BY <1>1 DEF ReadFormatted
  <2>2. ReadLine(Cells(u), unit[u].pos).pos \in Nat
    BY <2>1, UnitFacts, PositionFacts
  <2> QED BY <1>1, <2>1, <2>2, FaultFacts, DrainedIf, PositionChanges DEF ReadFormatted, history
<1>2. CASE \E n \in 0 .. MaxItems : ReadUnformatted(u, n)
  <2>1. PICK n \in 0 .. MaxItems : ReadUnformatted(u, n)
    BY <1>2
  <2>2. n \in Nat
    BY TransferAssumption
  <2>3. u \in DOMAIN unit /\ u \notin DOMAIN transfer
    BY <2>1 DEF ReadUnformatted
  <2>4. ReadPayload(Cells(u), unit[u].pos, n).pos \in Nat
    BY <2>2, <2>3, UnitFacts, PositionFacts
  <2>5. Drained(u)
    BY <2>1, <2>3, Unbuffered, DrainedIf DEF ReadUnformatted
  <2> QED BY <2>1, <2>3, <2>4, <2>5, FaultFacts, PositionChanges DEF ReadUnformatted, history
<1>3. CASE \E record \in Record : ReadDirect(u, record)
  <2>1. PICK record \in Record : ReadDirect(u, record)
    BY <1>3
  <2>2. Offset(record) + Recl \in Nat
    <3>1. record \in Nat \ {0} /\ record + 1 \in Nat \ {0} /\ record + 1 # record /\ Recl \in Nat
      BY TransferAssumption, BoundsAssumption
    <3> QED BY <3>1, RecordsApart
  <2>3. u \in DOMAIN unit /\ u \notin DOMAIN transfer
    BY <2>1 DEF ReadDirect
  <2>4. Drained(u)
    <3>1. unit[u].access = "direct"
      BY <2>1, <2>3, UnitFacts, FileAssumption DEF ReadDirect
    <3> QED BY <2>1, <3>1, Unbuffered, DrainedIf DEF ReadDirect
  <2> QED BY <2>1, <2>2, <2>3, <2>4, FaultFacts, PositionChanges DEF ReadDirect, history
<1> QED BY <1>1, <1>2, <1>3 DEF Read, ReadFormattedFails

-----------------------------------------------------------------------------
(* OPEN and CLOSE.                                                         *)

\* The old connection of u is gone, and if there is a new one, it is to the
\* start or to the end of f.
Reconnected(u, f) ==
  /\ \A v \in DOMAIN unit : v # u => v \in DOMAIN unit' /\ unit'[v] = unit[v]
  /\ \A v \in DOMAIN unit' : v # u => v \in DOMAIN unit
  /\ u \in DOMAIN unit' =>
       /\ f \in DOMAIN disk' /\ unit'[u] \in Entries /\ unit'[u].file = f
       /\ unit'[u].handle = "open" /\ unit'[u].stream = "open"
       /\ unit'[u].pos \in {0, Len(disk'[f])}

\* The files are left when the connection of u is closed.
Leaves(u, files) ==
  /\ \A g \in DOMAIN files : g \in DOMAIN disk /\ files[g] = disk[g]
  /\ \A g \in DOMAIN disk : g \in DOMAIN files \/ (u \in DOMAIN unit /\ g = FileOf(u))

\* They are left, except that f may be new or empty.
Renewed(u, f) ==
  /\ \A g \in DOMAIN disk' :
       (g \in DOMAIN disk /\ disk'[g] = disk[g]) \/ (g = f /\ disk'[g] = << >>)
  /\ \A g \in DOMAIN disk : g \in DOMAIN disk' \/ (u \in DOMAIN unit /\ g = FileOf(u))

\* What OPEN and CLOSE do.
Settles(u) ==
  \E f \in File :
    /\ u \notin DOMAIN transfer /\ UNCHANGED transfer
    /\ f \in Unit => f = u
    /\ \A v \in DOMAIN unit : v # u => FileOf(v) # f
    /\ Reconnected(u, f) /\ Renewed(u, f) /\ Settle(u) /\ Drained(u)
    /\ faults' \in Nat /\ faults' >= faults

\* What they do if fclose cannot write the buffer out.
Severs(u) == u \notin DOMAIN transfer /\ UNCHANGED transfer /\ CloseLoses(u)

(***************************************************************************)
(* The file of another unit stays as it is: no OPEN or CLOSE touches it.   *)
(***************************************************************************)
LEMMA OthersStay ==
  ASSUME IInv, NEW u \in Unit, NEW f \in File,
         \A v \in DOMAIN unit : v # u => FileOf(v) # f,
         Renewed(u, f), NEW v \in DOMAIN unit, v # u
  PROVE  /\ FileOf(v) # f /\ FileOf(v) \in File
         /\ FileOf(v) \in DOMAIN disk /\ FileOf(v) \in DOMAIN disk'
         /\ disk'[FileOf(v)] = disk[FileOf(v)]
<1>1. FileOf(v) # f /\ FileOf(v) \in DOMAIN disk /\ FileOf(v) \in File
  BY DEF IInv, EntrySound
<1>2. u \in DOMAIN unit => FileOf(v) # FileOf(u)
  BY UnitFacts
<1> QED BY <1>1, <1>2 DEF Renewed

LEMMA ReconnectSound == ASSUME IInv, NEW u \in Unit, Settles(u) PROVE IInv'
<1>0. PICK f \in File :
        /\ u \notin DOMAIN transfer /\ UNCHANGED transfer
        /\ f \in Unit => f = u
        /\ \A v \in DOMAIN unit : v # u => FileOf(v) # f
        /\ Reconnected(u, f) /\ Renewed(u, f) /\ Settle(u) /\ Drained(u)
        /\ faults' \in Nat /\ faults' >= faults
  BY DEF Settles
<1> DEFINE F == {g \in File : g = f \/ (u \in DOMAIN unit /\ g = FileOf(u))}
<1>1. /\ DOMAIN direct' = File
      /\ \A g \in File :
           \/ direct'[g] = << >>
           \/ direct'[g] = direct[g] /\ g \in DOMAIN disk' /\ disk'[g] # << >>
           \/ direct'[g] = direct[g] /\ \E v \in DOMAIN unit : v # u /\ FileOf(v) = g
  BY <1>0 DEF Settle, Unshared
<1>2. \A v \in DOMAIN unit : v # u => FileOf(v) \notin F
  BY <1>0, UnitFacts
<1>3. \A g \in DOMAIN disk' : g \in File
  BY <1>0 DEF IInv, Renewed
<1>4. \A g \in DOMAIN disk : g \notin F => g \in DOMAIN disk' /\ disk'[g] = disk[g]
  BY <1>0 DEF IInv, Renewed
<1>5. \A g \in DOMAIN disk' : g \notin F => g \in DOMAIN disk
  BY <1>0 DEF Renewed
<1>6. Within(u, F)
  <2> HIDE DEF F
  <2> QED BY <1>0, <1>1, <1>2, <1>3, <1>4, <1>5 DEF Within, Reconnected, Drained
<1>7. ASSUME NEW g \in DOMAIN disk' PROVE FileSound(g)'
  <2>1. disk'[g] \in Seq(Nat)
    <3>1. \A h \in DOMAIN disk : disk[h] \in Seq(Nat)
      BY DEF IInv, FileSound
    <3>2. << >> \in Seq(Nat)
      OBVIOUS
    <3> QED BY <1>0, <3>1, <3>2 DEF Renewed
  <2>2. CASE direct'[g] = << >>
    <3>1. DOMAIN (direct'[g]) = {}
      BY <2>2
    <3> QED BY <2>1, <3>1 DEF FileSound, DirectIn
  <2>3. CASE direct'[g] # << >>
    <3>1. /\ direct'[g] = direct[g]
          /\ disk'[g] # << >> \/ \E v \in DOMAIN unit : v # u /\ FileOf(v) = g
      BY <1>1, <1>3, <2>3
    <3>2. g \in DOMAIN disk /\ disk'[g] = disk[g]
      <4>1. CASE disk'[g] # << >>
        BY <1>0, <4>1 DEF Renewed
      <4>2. CASE \E v \in DOMAIN unit : v # u /\ FileOf(v) = g
        BY <1>0, <4>2, OthersStay
      <4> QED BY <3>1, <4>1, <4>2
    <3>3. FileSound(g)
      BY <3>2 DEF IInv
    <3> QED BY <3>1, <3>2, <3>3 DEF FileSound, DirectIn, Offset
  <2> QED BY <2>2, <2>3
<1>8. u \in DOMAIN unit' => EntrySound(u)' /\ Unshared(u, FileOf(u)')
  <2> SUFFICES ASSUME u \in DOMAIN unit' PROVE EntrySound(u)' /\ Unshared(u, FileOf(u)')
    OBVIOUS
  <2>1. FileOf(u)' = f /\ f \in DOMAIN disk'
    BY <1>0 DEF Reconnected, FileOf
  <2>2. Unshared(u, f)
    BY <1>0 DEF Unshared
  <2>3. EntrySound(u)'
    BY <1>0, <2>1 DEF EntrySound, Reconnected
  <2> QED BY <2>1, <2>2, <2>3
<1>9. u \notin DOMAIN transfer' /\ u \notin DOMAIN buffer'
  BY <1>0 DEF Drained
<1> QED BY <1>6, <1>7, <1>8, <1>9, StepSound

LEMMA ReleasedFacts ==
  ASSUME NEW u
  PROVE  /\ Leaves(u, Released(u)) /\ Leaves(u, disk)
         /\ u \in DOMAIN unit => Leaves(u, Without(Released(u), FileOf(u)))
         /\ \A f \in DOMAIN disk : f # u => f \in DOMAIN Released(u)
<1>1. /\ Leaves(u, Released(u)) /\ Leaves(u, disk)
      /\ \A f \in DOMAIN disk : f # u => f \in DOMAIN Released(u)
  BY DEF Leaves, Released, Connected, Without, Restrict
<1>2. u \in DOMAIN unit => Leaves(u, Without(Released(u), FileOf(u)))
  BY <1>1 DEF Leaves, Without, Restrict
<1> QED BY <1>1, <1>2

LEMMA ConnectSettles ==
  ASSUME IInv, NEW u \in Unit, u \notin DOMAIN transfer, NEW f \in File,
         f \in Unit => f = u,
         \A v \in DOMAIN unit : v # u => FileOf(v) # f,
         NEW empties \in BOOLEAN, NEW access \in {"sequential", "direct"},
         NEW action \in {"read", "write", "readwrite"}, NEW append,
         NEW old, Leaves(u, old), ~ empties => f \in DOMAIN old,
         Connect(u, f, empties, access, action, append, old), Settle(u), UNCHANGED transfer,
         Drained(u)
  PROVE  Settles(u)
<1> DEFINE cells == IF empties THEN << >> ELSE old[f]
           opened == With(old, f, cells)
           entry == Entry(f, access, action, IF append THEN Len(cells) ELSE 0)
<1>1. cells \in Seq(Nat) /\ (cells = << >> \/ (f \in DOMAIN disk /\ cells = disk[f]))
  <2>1. \A h \in DOMAIN disk : disk[h] \in Seq(Nat)
    BY DEF IInv, FileSound
  <2>2. ~ empties => f \in DOMAIN disk /\ old[f] = disk[f]
    BY DEF Leaves
  <2>3. << >> \in Seq(Nat)
    OBVIOUS
  <2>4. CASE empties
    <3>1. cells = << >>
      BY <2>4
    <3> HIDE DEF cells
    <3> QED BY <3>1
  <2>5. CASE ~ empties
    <3>1. cells = old[f]
      BY <2>5
    <3> QED BY <2>1, <2>2, <2>5, <3>1
  <2> QED BY <2>4, <2>5
<1>2. /\ f \in DOMAIN opened /\ opened[f] = cells
      /\ \A g \in DOMAIN opened : g = f \/ (g \in DOMAIN old /\ opened[g] = old[g])
      /\ \A g \in DOMAIN old : g \in DOMAIN opened
  BY DEF With
<1>3. /\ entry \in Entries /\ entry.file = f /\ entry.handle = "open" /\ entry.stream = "open"
      /\ entry.pos \in {0, Len(cells)}
  <2>1. Len(cells) \in Nat
    BY <1>1, LenProperties
  <2> HIDE DEF cells
  <2> QED BY <2>1 DEF Entry, Entries
<1> HIDE DEF cells, entry
<1>4. \/ disk' = opened /\ unit' = With(unit, u, entry) /\ NoFault
      \/ Fault /\ unit' = Without(unit, u) /\ disk' \in {old, opened}
  BY DEF Connect, cells, entry
<1> HIDE DEF opened
<1>5. Renewed(u, f)
  <2>1. disk' = old => Renewed(u, f)
    BY DEF Leaves, Renewed
  <2>2. disk' = opened => Renewed(u, f)
    BY <1>1, <1>2 DEF Leaves, Renewed
  <2> QED BY <1>4, <2>1, <2>2
<1>6. Reconnected(u, f)
  <2>1. CASE disk' = opened /\ unit' = With(unit, u, entry)
    BY <2>1, <1>2, <1>3 DEF Reconnected, With
  <2>2. CASE unit' = Without(unit, u)
    BY <2>2 DEF Reconnected, Without, Restrict
  <2> QED BY <1>4, <2>1, <2>2
<1> QED BY <1>4, <1>5, <1>6, FaultFacts DEF Settles

LEMMA OpenSettles ==
  ASSUME IInv, NEW u \in Unit, NEW f \in Name, NEW o \in Options,
         Open(u, f, o.status, o.access, o.action, o.append), ~ Severs(u)
  PROVE  Settles(u)
<1>1. /\ u \notin DOMAIN transfer /\ Unshared(u, f) /\ UNCHANGED transfer /\ Settle(u)
      /\ Drained(u)
      /\ Connect(u, f, o.status = "replace" \/ f \notin DOMAIN disk,
                 o.access, o.action, o.append, Released(u))
  BY DrainedIf DEF Open, Busy, Severs
<1>2. f \in File /\ f \notin Unit /\ f # u
  BY FileAssumption DEF File
<1>3. o.access \in {"sequential", "direct"} /\ o.action \in {"read", "write", "readwrite"}
  BY TransferAssumption
<1>4. ~ (o.status = "replace" \/ f \notin DOMAIN disk) => f \in DOMAIN Released(u)
  BY <1>2, ReleasedFacts
<1>5. \A v \in DOMAIN unit : v # u => FileOf(v) # f
  BY <1>1 DEF Unshared
<1> DEFINE empties == o.status = "replace" \/ f \notin DOMAIN disk
<1>6. /\ empties \in BOOLEAN /\ (~ empties => f \in DOMAIN Released(u))
      /\ Connect(u, f, empties, o.access, o.action, o.append, Released(u))
  BY <1>1, <1>4
<1>7. Leaves(u, Released(u))
  BY ReleasedFacts
<1> HIDE DEF empties
<1> QED BY <1>1, <1>2, <1>3, <1>5, <1>6, <1>7, ConnectSettles

LEMMA OpenScratchSettles ==
  ASSUME IInv, NEW u \in Unit, NEW o \in Scratch, OpenScratch(u, o.access, o.action),
         ~ Severs(u)
  PROVE  Settles(u)
<1>1. /\ u \notin DOMAIN transfer /\ UNCHANGED transfer /\ Settle(u) /\ Drained(u)
      /\ \/ Connect(u, u, TRUE, o.access, o.action, FALSE, Released(u))
         \/ Fault /\ unit' = Without(unit, u) /\ disk' = Released(u)
  BY DrainedIf DEF OpenScratch, Busy, Severs
<1>2. u \in File /\ \A v \in DOMAIN unit : v # u => FileOf(v) # u
  BY DEF File, IInv, EntrySound
<1>3. CASE Connect(u, u, TRUE, o.access, o.action, FALSE, Released(u))
  <2>1. o.access \in {"sequential", "direct"} /\ o.action \in {"read", "write", "readwrite"}
    BY TransferAssumption
  <2>2. Leaves(u, Released(u)) /\ TRUE \in BOOLEAN
    BY ReleasedFacts
  <2> QED BY <1>1, <1>2, <1>3, <2>1, <2>2, ConnectSettles
<1>4. CASE Fault /\ unit' = Without(unit, u) /\ disk' = Released(u)
  <2>1. Reconnected(u, u)
    BY <1>4 DEF Reconnected, Without, Restrict
  <2>2. Renewed(u, u)
    BY <1>4, ReleasedFacts DEF Leaves, Renewed
  <2> QED BY <1>1, <1>2, <1>4, <2>1, <2>2, FaultFacts DEF Settles
<1> QED BY <1>1, <1>3, <1>4

LEMMA CloseSettles ==
  ASSUME IInv, NEW u \in Unit, NEW delete, Close(u, delete), ~ Severs(u)
  PROVE  Settles(u)
<1> DEFINE f == FileOf(u)
<1>1. /\ u \in DOMAIN unit /\ u \notin DOMAIN transfer /\ UNCHANGED transfer /\ Settle(u)
      /\ Drained(u)
      /\ unit' = Without(unit, u) /\ (NoFault \/ Fault)
      /\ disk' \in {Released(u), Without(Released(u), f)}
  BY DrainedIf DEF Close, Busy, Connected, Severs
<1>2. f \in File /\ (f \in Unit => f = u) /\ \A v \in DOMAIN unit : v # u => FileOf(v) # f
  BY <1>1, UnitFacts DEF IInv, EntrySound
<1>3. Reconnected(u, f)
  BY <1>1 DEF Reconnected, Without, Restrict
<1>4. Leaves(u, disk')
  BY <1>1, ReleasedFacts
<1>5. Renewed(u, f)
  BY <1>4 DEF Leaves, Renewed
<1> HIDE DEF f
<1> QED BY <1>1, <1>2, <1>3, <1>5, FaultFacts DEF Settles

LEMMA OpenImplicitlySettles ==
  ASSUME IInv, NEW u \in Unit, NEW action \in {"read", "write"}, OpenImplicitly(u, action)
  PROVE  Settles(u)
<1> DEFINE f == DefaultName[u]
<1>1. u \notin DOMAIN unit /\ Unshared(u, f) /\ UNCHANGED transfer /\ Settle(u) /\ Drained(u)
  BY Unbuffered, DrainedIf DEF OpenImplicitly, ImplicitOpen, Connected
<1>2. Connect(u, f, f \notin DOMAIN disk, "sequential", action, FALSE, disk)
  BY DEF OpenImplicitly
<1>3. f \in Name /\ f \in File /\ f \notin Unit
  BY FileAssumption DEF File
<1>4. u \notin DOMAIN transfer
  BY <1>1 DEF IInv, TransferSound, Connected
<1>5. \A v \in DOMAIN unit : v # u => FileOf(v) # f
  BY <1>1 DEF Unshared
<1> DEFINE empties == f \notin DOMAIN disk
<1>6. /\ empties \in BOOLEAN /\ (~ empties => f \in DOMAIN disk)
      /\ Connect(u, f, empties, "sequential", action, FALSE, disk)
  BY <1>2
<1>7. Leaves(u, disk)
  BY ReleasedFacts
<1> HIDE DEF f, empties
<1> QED BY <1>1, <1>3, <1>4, <1>5, <1>6, <1>7, ConnectSettles

LEMMA ControlSettles ==
  ASSUME IInv, NEW u \in Unit, Control(u),
         ~ (\/ Rewind(u) \/ Backspace(u) \/ BackspaceFails(u) \/ Inquire(u)
            \/ Endfile(u) \/ EndfileAbandoned(u) \/ EndfileDetached(u) \/ EndfileLoses(u))
  PROVE  Settles(u) \/ Severs(u)
BY OpenSettles, OpenScratchSettles, CloseSettles, OpenImplicitlySettles DEF Control

LEMMA ReadImplicitlySound == ASSUME IInv, NEW u \in Unit, ReadImplicitly(u) PROVE IInv'
<1> DEFINE f == DefaultName[u]
           pos == ReadLine(disk[f], 0).pos
           entry == Entry(f, "sequential", "read", pos)
<1>1. u \notin DOMAIN unit /\ Unshared(u, f) /\ f \in DOMAIN disk
  BY DEF ReadImplicitly, ImplicitOpen, Connected, Refused
<1>2. /\ unit' = With(unit, u, entry) /\ UNCHANGED << disk, transfer, faults, direct >>
      /\ Drained(u)
  BY <1>1, Unbuffered, DrainedIf DEF ReadImplicitly, history
<1>3. f \in File /\ f \notin Unit
  BY FileAssumption DEF File
<1>4. pos \in Nat
  <2>1. disk[f] \in Seq(Nat)
    BY <1>1 DEF IInv, FileSound
  <2> QED BY <2>1, PositionFacts
<1> HIDE DEF pos
<1>5. entry \in Entries /\ entry.file = f /\ entry.handle = "open" /\ entry.stream = "open"
  BY <1>3, <1>4 DEF Entry, Entries
<1> HIDE DEF entry
<1>6. /\ DOMAIN unit' = DOMAIN unit \union {u} /\ unit'[u] = entry
      /\ \A v \in DOMAIN unit : v # u => unit'[v] = unit[v]
  BY <1>2 DEF With
<1>7. u \notin DOMAIN transfer
  BY <1>1 DEF IInv, TransferSound, Connected
<1>8. Within(u, {}) /\ u \notin DOMAIN buffer'
  BY <1>2, <1>6, FaultFacts DEF Within, IInv, Drained
<1>9. FileOf(u)' = f
  BY <1>5, <1>6 DEF FileOf
<1>10. EntrySound(u)'
  BY <1>1, <1>2, <1>3, <1>5, <1>6, <1>9 DEF EntrySound
<1>11. transfer' = transfer
  BY <1>2
<1> HIDE DEF f
<1> QED BY <1>1, <1>7, <1>8, <1>9, <1>10, <1>11, StepSound

-----------------------------------------------------------------------------
(* ENDFILE and WRITE.                                                      *)

\* The step changes nothing of other units and of files but f.
OwnStep(u, f) ==
  /\ DOMAIN disk' = DOMAIN disk /\ \A g \in DOMAIN disk : g # f => disk'[g] = disk[g]
  /\ DOMAIN direct' = File /\ \A g \in File : g # f => direct'[g] = direct[g]
  /\ DOMAIN unit' = DOMAIN unit /\ \A v \in DOMAIN unit : v # u => unit'[v] = unit[v]
  /\ \A v \in DOMAIN transfer' : v # u => v \in DOMAIN transfer /\ transfer'[v] = transfer[v]
  /\ OthersBuffers(u)

LEMMA OwnStepSound ==
  ASSUME IInv, NEW u \in DOMAIN unit, NEW f, f = FileOf(u), OwnStep(u, f),
         FileSound(f)',
         unit'[u] \in Entries, unit'[u].file = f,
         unit'[u].stream = unit[u].stream \/ unit'[u].stream = "open",
         unit'[u].stream = "open" => unit'[u].handle = "open",
         unit'[u].access = unit[u].access,
         u \in DOMAIN transfer' => TransferSound(u)',
         u \in DOMAIN buffer' => BufferSound(u)',
         faults' \in Nat, faults' >= faults
  PROVE  IInv'
<1>1. u \in Unit /\ f \in File /\ f \in DOMAIN disk /\ EntrySound(u) /\ faults \in Nat
  BY UnitFacts DEF IInv
<1>2. \A v \in DOMAIN unit : v # u => FileOf(v) # f
  BY UnitFacts
<1>3. Within(u, {f})
  <2>1. DOMAIN disk \subseteq File
    BY DEF IInv
  <2> QED BY <1>1, <1>2, <2>1 DEF Within, OwnStep
<1>4. FileOf(u)' = f /\ Unshared(u, f)
  BY <1>2 DEF FileOf, Unshared
<1>5. f \in DOMAIN disk'
  BY <1>1 DEF OwnStep
<1>6. EntrySound(u)'
  <2>1. faults > 0 => faults' > 0
    BY <1>1
  <2> QED BY <1>1, <1>4, <1>5, <2>1 DEF EntrySound
<1> QED BY <1>1, <1>3, <1>4, <1>6, StepSound

(***************************************************************************)
(* What is known of a file without known direct records is in its cells.   *)
(***************************************************************************)
LEMMA NothingKnown ==
  ASSUME NEW cells, NEW known, DOMAIN known = {}
  PROVE  DirectIn(cells, known)
BY DEF DirectIn

LEMMA UptoFacts ==
  ASSUME NEW cells \in Seq(Nat), NEW n \in 0 .. Len(cells)
  PROVE  /\ Upto(cells, n) \in Seq(Nat) /\ Len(Upto(cells, n)) = n
         /\ \A i \in 1 .. n : Upto(cells, n)[i] = cells[i]
<1>1. Len(cells) \in Nat /\ \A i \in 1 .. Len(cells) : cells[i] \in Nat
  BY LenProperties, ElementOfSeq
<1>2. n \in Nat /\ \A i \in 1 .. n : cells[i] \in Nat
  BY <1>1
<1> DEFINE s == SubSeq(cells, 1, n)
<1>3. /\ s \in Seq(Nat) /\ Len(s) = (IF 1 <= n THEN n - 1 + 1 ELSE 0)
      /\ \A i \in 1 .. n - 1 + 1 : s[i] = cells[1 + i - 1]
  BY <1>2, SubSeqProperties
<1> HIDE DEF s
<1>4. Len(s) = n /\ \A i \in 1 .. n : s[i] = cells[i]
  BY <1>2, <1>3
<1> QED BY <1>3, <1>4 DEF Upto, s

\* The step leaves no known direct record of f, and these cells in it.
Forgets(f, cells) ==
  /\ f \in DOMAIN disk' /\ disk'[f] = cells /\ cells \in Seq(Nat)
  /\ direct' = [direct EXCEPT ![f] = << >>]

LEMMA ForgetsSound ==
  ASSUME IInv, NEW f \in File, NEW cells, Forgets(f, cells)
  PROVE  /\ FileSound(f)' /\ DOMAIN (direct'[f]) = {}
         /\ DOMAIN direct' = File /\ \A g \in File : g # f => direct'[g] = direct[g]
<1>1. /\ DOMAIN direct' = File /\ direct'[f] = << >>
      /\ \A g \in File : g # f => direct'[g] = direct[g]
  BY DEF IInv, Forgets
<1>2. DOMAIN (direct'[f]) = {}
  BY <1>1
<1>3. DirectIn(disk'[f], direct'[f])
  BY <1>2, NothingKnown
<1> QED BY <1>1, <1>2, <1>3 DEF Forgets, FileSound

\* ENDFILE leaves n cells of the file.
LEMMA CutSound ==
  ASSUME IInv, NEW u \in DOMAIN unit, u \notin DOMAIN transfer, NEW f, f = FileOf(u),
         NEW n \in 0 .. Len(Cells(u)), disk' = [disk EXCEPT ![f] = Upto(@, n)],
         direct' = [direct EXCEPT ![f] = << >>],
         NEW pos \in Nat, unit[u].handle = "open",
         unit' = [unit EXCEPT ![u].pos = pos, ![u].stream = "open"],
         UNCHANGED transfer, Drained(u), faults' \in Nat, faults' >= faults
  PROVE  IInv'
<1>1. /\ f \in File /\ f \in DOMAIN disk /\ unit[u] \in Entries
      /\ disk[f] \in Seq(Nat) /\ n \in 0 .. Len(disk[f])
  BY UnitFacts DEF Cells
<1>2. Upto(disk[f], n) \in Seq(Nat)
  BY <1>1, UptoFacts
<1>3. Forgets(f, Upto(disk[f], n))
  BY <1>1, <1>2 DEF Forgets
<1>4. FileSound(f)' /\ DOMAIN direct' = File /\ \A g \in File : g # f => direct'[g] = direct[g]
  BY <1>1, <1>3, ForgetsSound
<1>5. /\ unit'[u] \in Entries /\ unit'[u].file = f /\ unit'[u].stream = "open"
      /\ unit'[u].handle = "open" /\ unit'[u].access = unit[u].access
      /\ DOMAIN unit' = DOMAIN unit /\ \A v \in DOMAIN unit : v # u => unit'[v] = unit[v]
  BY <1>1 DEF Entries, FileOf
<1>6. OwnStep(u, f) /\ u \notin DOMAIN buffer'
  BY <1>4, <1>5 DEF OwnStep, Drained
<1> QED BY <1>4, <1>5, <1>6, OwnStepSound

(***************************************************************************)
(* What a file has after only the output before position m has left the    *)
(* buffer: what the unit wrote up to there, and the file behind that as it *)
(* was without the buffer.                                                 *)
(***************************************************************************)
LEMMA ThroughFacts ==
  ASSUME IInv, NEW u \in DOMAIN buffer, NEW m \in buffer[u].from .. unit[u].pos
  PROVE  /\ u \in DOMAIN unit /\ m \in Nat /\ buffer[u].from \in Nat
         /\ buffer[u].from <= m /\ m <= unit[u].pos
         /\ buffer[u].under \in Seq(Nat) /\ Through(u, m) \in Seq(Nat)
         /\ m = buffer[u].from => Through(u, m) = buffer[u].under
         /\ m # buffer[u].from =>
              /\ m <= Len(Through(u, m)) /\ m <= Len(Cells(u))
              /\ \A i \in 1 .. m : Through(u, m)[i] = Cells(u)[i]
<1> DEFINE under == buffer[u].under
           from == buffer[u].from
           n == IF m < Len(under) THEN Len(under) ELSE m
           e(i) == IF i <= m THEN Cells(u)[i] ELSE under[i]
           through == [i \in 1 .. n |-> e(i)]
<1>1. /\ u \in DOMAIN unit /\ from \in Nat /\ under \in Seq(Nat) /\ from <= unit[u].pos
      /\ from < unit[u].pos => unit[u].pos <= Len(Cells(u))
  BY DEF IInv, BufferSound, Connected
<1>2. /\ unit[u].pos \in Nat /\ Len(Cells(u)) \in Nat
      /\ \A i \in 1 .. Len(Cells(u)) : Cells(u)[i] \in Nat
  BY <1>1, UnitFacts
<1>3. Len(under) \in Nat /\ \A i \in 1 .. Len(under) : under[i] \in Nat
  BY <1>1, LenProperties, ElementOfSeq
<1>4. m \in Nat /\ from <= m /\ m <= unit[u].pos
  BY <1>1, <1>2
<1>5. Through(u, m) = IF m = from THEN under ELSE through
  BY DEF Through
<1> HIDE DEF under, from
<1>6. CASE m = from
  BY <1>1, <1>4, <1>5, <1>6 DEF under, from
<1>7. CASE m # from
  <2>1. m <= Len(Cells(u))
    BY <1>1, <1>2, <1>4, <1>7
  <2>2. n \in Nat /\ m <= n
    BY <1>3, <1>4
  <2>3. \A i \in 1 .. n : e(i) \in Nat
    BY <2>1, <1>2, <1>3, <1>4
  <2>4. through \in Seq(Nat) /\ Len(through) = n
    <3> HIDE DEF n, e
    <3>1. through \in [1 .. n -> Nat] /\ DOMAIN through = 1 .. n
      BY <2>3
    <3> QED BY <2>2, <3>1
  <2>5. \A i \in 1 .. m : through[i] = Cells(u)[i]
    BY <2>2, <1>4
  <2> HIDE DEF through
  <2> QED BY <1>1, <1>4, <1>5, <1>7, <2>1, <2>2, <2>4, <2>5 DEF under, from
<1> QED BY <1>6, <1>7

(***************************************************************************)
(* A buffer that cannot be written out leaves a sound file and no direct   *)
(* record that is known.                                                   *)
(***************************************************************************)
LEMMA DropFacts ==
  ASSUME IInv, NEW u \in DOMAIN buffer, NEW m, Drop(u, m), NEW f, f = FileOf(u)
  PROVE  /\ u \in DOMAIN unit /\ u \in Unit /\ m \in Nat /\ m \in buffer[u].from .. unit[u].pos
         /\ f \in File /\ FileSound(f)' /\ DOMAIN (direct'[f]) = {}
         /\ DOMAIN direct' = File
         /\ \A g \in File : g # f => direct'[g] = direct[g]
         /\ DOMAIN disk' = DOMAIN disk /\ disk'[f] = Through(u, m)
         /\ \A g \in DOMAIN disk : g # f => disk'[g] = disk[g]
<1>1. m \in buffer[u].from .. unit[u].pos
  BY DEF Drop
<1>2. u \in DOMAIN unit /\ m \in Nat /\ Through(u, m) \in Seq(Nat)
  BY <1>1, ThroughFacts
<1>3. u \in Unit /\ f \in File /\ f \in DOMAIN disk
  BY <1>2, UnitFacts
<1>4. disk' = [disk EXCEPT ![f] = Through(u, m)] /\ direct' = [direct EXCEPT ![f] = << >>]
  BY DEF Drop, Cut
<1>5. Forgets(f, Through(u, m))
  BY <1>2, <1>3, <1>4 DEF Forgets
<1>6. /\ FileSound(f)' /\ DOMAIN (direct'[f]) = {}
      /\ DOMAIN direct' = File /\ \A g \in File : g # f => direct'[g] = direct[g]
  BY <1>3, <1>5, ForgetsSound
<1>7. /\ DOMAIN disk' = DOMAIN disk /\ disk'[f] = Through(u, m)
      /\ \A g \in DOMAIN disk : g # f => disk'[g] = disk[g]
  BY <1>3, <1>4
<1> QED BY <1>1, <1>2, <1>3, <1>6, <1>7

LEMMA DropToSound ==
  ASSUME IInv, NEW u \in DOMAIN buffer, NEW m, DropTo(u, m), Fault,
         \A v \in DOMAIN transfer' : v # u => v \in DOMAIN transfer /\ transfer'[v] = transfer[v],
         u \in DOMAIN transfer' => TransferSound(u)'
  PROVE  IInv'
<1> SUFFICES ASSUME NEW f, f = FileOf(u) PROVE IInv'
  OBVIOUS
<1>1. /\ Drop(u, m) /\ unit' = [unit EXCEPT ![u].pos = m]
      /\ buffer' = [buffer EXCEPT ![u] = Buffered(m, Through(u, m))]
  BY DEF DropTo, Position
<1>2. /\ u \in DOMAIN unit /\ m \in Nat /\ m \in buffer[u].from .. unit[u].pos
      /\ f \in File /\ FileSound(f)'
      /\ DOMAIN direct' = File /\ \A g \in File : g # f => direct'[g] = direct[g]
      /\ DOMAIN disk' = DOMAIN disk /\ \A g \in DOMAIN disk : g # f => disk'[g] = disk[g]
  BY <1>1, DropFacts
<1>3. /\ unit[u] \in Entries /\ EntrySound(u)
  BY <1>2 DEF IInv, EntrySound
<1>4. /\ unit'[u] \in Entries /\ unit'[u].file = f /\ unit'[u].pos = m
      /\ unit'[u].stream = unit[u].stream /\ unit'[u].handle = unit[u].handle
      /\ unit'[u].access = unit[u].access
      /\ DOMAIN unit' = DOMAIN unit /\ \A v \in DOMAIN unit : v # u => unit'[v] = unit[v]
  BY <1>1, <1>2, <1>3 DEF Entries, FileOf
<1>5. /\ OthersBuffers(u) /\ u \in DOMAIN buffer'
      /\ buffer'[u] = [from |-> m, under |-> Through(u, m)]
  BY <1>1 DEF OthersBuffers, Buffered
<1>6. BufferSound(u)'
  <2>1. BufferSound(u) /\ Through(u, m) \in Seq(Nat)
    BY <1>2, ThroughFacts DEF IInv
  <2>2. FileOf(u)' = FileOf(u)
    BY <1>4 DEF FileOf
  <2> QED BY <1>2, <1>4, <1>5, <2>1, <2>2 DEF BufferSound, Connected
<1>7. faults' \in Nat /\ faults' >= faults
  BY FaultFacts
<1>8. OwnStep(u, f)
  BY <1>2, <1>4, <1>5 DEF OwnStep
<1>9. unit'[u].stream = "open" => unit'[u].handle = "open"
  BY <1>3, <1>4 DEF EntrySound
<1> QED BY <1>2, <1>4, <1>6, <1>7, <1>8, <1>9, OwnStepSound

(***************************************************************************)
(* A statement that fails when it writes the buffer out.                   *)
(***************************************************************************)
LEMMA FlushSound ==
  ASSUME IInv, NEW u, u \notin DOMAIN transfer, FlushFails(u) PROVE IInv'
<1>1. u \in DOMAIN buffer /\ Fault /\ UNCHANGED transfer
  BY DEF FlushFails
<1>2. PICK m : DropTo(u, m)
  BY DEF FlushFails
<1> QED BY <1>1, <1>2, DropToSound

LEMMA SeversSound == ASSUME IInv, NEW u \in Unit, Severs(u) PROVE IInv'
<1> SUFFICES ASSUME NEW f, f = FileOf(u) PROVE IInv'
  OBVIOUS
<1>1. /\ u \in DOMAIN buffer /\ Fault /\ u \notin DOMAIN transfer /\ UNCHANGED transfer
      /\ unit' = Without(unit, u) /\ Drained(u)
  BY DrainedIf DEF Severs, CloseLoses
<1>2. PICK m : Drop(u, m)
  BY DEF Severs, CloseLoses
<1>3. /\ u \in DOMAIN unit /\ f \in File /\ FileSound(f)'
      /\ DOMAIN direct' = File /\ \A g \in File : g # f => direct'[g] = direct[g]
      /\ DOMAIN disk' = DOMAIN disk /\ \A g \in DOMAIN disk : g # f => disk'[g] = disk[g]
  BY <1>1, <1>2, DropFacts
<1>4. /\ u \notin DOMAIN unit' /\ \A v \in DOMAIN unit' : v # u => v \in DOMAIN unit
      /\ \A v \in DOMAIN unit : v # u => v \in DOMAIN unit' /\ unit'[v] = unit[v]
  BY <1>1 DEF Without, Restrict
<1>5. \A v \in DOMAIN unit : v # u => FileOf(v) # f
  BY <1>3, UnitFacts
<1>6. faults' \in Nat /\ faults' >= faults /\ DOMAIN disk \subseteq File
  BY <1>1, FaultFacts DEF IInv
<1>7. Within(u, {f})
  BY <1>1, <1>3, <1>4, <1>5, <1>6 DEF Within, Drained
<1> QED BY <1>1, <1>3, <1>4, <1>7, StepSound DEF Drained

LEMMA EndfileSound ==
  ASSUME IInv, NEW u \in Unit, ~ FlushFails(u),
         Endfile(u) \/ EndfileAbandoned(u) \/ EndfileDetached(u) \/ EndfileLoses(u)
  PROVE  IInv'
<1>1. EndfileReady(u)
  BY DEF Endfile, EndfileAbandoned, EndfileDetached, EndfileLoses
<1>2. /\ u \in DOMAIN unit /\ u \notin DOMAIN transfer
      /\ unit[u].handle = "open" /\ unit[u].access = "sequential"
      /\ Drained(u)
  BY <1>1, DrainedIf DEF EndfileReady, Sequential, Connected, Busy,
       Endfile, EndfileAbandoned, EndfileDetached, EndfileLoses
<1>3. unit[u].pos \in Nat /\ Len(Cells(u)) \in Nat /\ unit[u] \in Entries
  BY <1>2, UnitFacts
<1>4. CASE Endfile(u)
  <2>1. /\ unit[u].pos \in 0 .. Len(Cells(u))
        /\ disk' = [disk EXCEPT ![FileOf(u)] = Upto(@, unit[u].pos)]
        /\ direct' = [direct EXCEPT ![FileOf(u)] = << >>]
        /\ unit' = [unit EXCEPT ![u].stream = "open"]
        /\ UNCHANGED << transfer, faults >>
    BY <1>3, <1>4 DEF Endfile, Cut
  <2>2. unit' = [unit EXCEPT ![u].pos = unit[u].pos, ![u].stream = "open"]
    BY <2>1, <1>3 DEF Entries
  <2> QED BY <1>2, <1>3, <2>1, <2>2, FaultFacts, CutSound
<1>5. CASE EndfileAbandoned(u)
  <2>1. /\ \E p \in Nat : Position(u, p)
        /\ UNCHANGED << disk, transfer, direct >> /\ (NoFault \/ Fault)
    BY <1>3, <1>5 DEF EndfileAbandoned, history
  <2> QED BY <1>2, <2>1, FaultFacts, PositionChanges
<1>6. CASE EndfileDetached(u)
  <2>1. /\ UNCHANGED << disk, transfer, direct >> /\ FileOf(u) # u
        /\ \/ Fault /\ unit' = [unit EXCEPT ![u].pos = 0, ![u].stream = "closed"]
           \/ /\ faults' = faults + 2
              /\ unit' = [unit EXCEPT ![u].handle = "none", ![u].stream = "closed"]
    BY <1>6 DEF EndfileDetached, history
  <2>2. FileOf(u) \in Name
    BY <1>2, <2>1, UnitFacts DEF File, IInv, EntrySound
  <2>3. CASE Fault /\ unit' = [unit EXCEPT ![u].pos = 0, ![u].stream = "closed"]
    <3> DEFINE entry == [unit[u] EXCEPT !.pos = 0, !.stream = "closed"]
    <3>1. /\ entry \in Entries /\ entry.file = FileOf(u) /\ entry.stream = "closed"
          /\ entry.access = "sequential" /\ unit' = [unit EXCEPT ![u] = entry]
      BY <1>2, <1>3, <2>3 DEF Entries, FileOf
    <3>2. faults' \in Nat /\ faults' >= faults /\ faults' > 0
      BY <2>3, FaultFacts
    <3> HIDE DEF entry
    <3> QED BY <1>2, <2>1, <2>2, <3>1, <3>2, EntryChanges
  <2>4. CASE /\ faults' = faults + 2
             /\ unit' = [unit EXCEPT ![u].handle = "none", ![u].stream = "closed"]
    <3> DEFINE entry == [unit[u] EXCEPT !.handle = "none", !.stream = "closed"]
    <3>1. /\ entry \in Entries /\ entry.file = FileOf(u) /\ entry.stream = "closed"
          /\ entry.access = "sequential" /\ unit' = [unit EXCEPT ![u] = entry]
      BY <1>2, <1>3, <2>4 DEF Entries, FileOf
    <3>2. faults' \in Nat /\ faults' >= faults /\ faults' > 0
      BY <2>4, FaultFacts
    <3> HIDE DEF entry
    <3> QED BY <1>2, <2>1, <2>2, <3>1, <3>2, EntryChanges
  <2> QED BY <2>1, <2>3, <2>4
<1>7. CASE EndfileLoses(u)
  <2>1. PICK n \in 0 .. unit[u].pos - 1 :
          /\ disk' = [disk EXCEPT ![FileOf(u)] = Upto(@, n)]
          /\ unit' = [unit EXCEPT ![u].pos = n, ![u].stream = "open"]
          /\ direct' = [direct EXCEPT ![FileOf(u)] = << >>]
    BY <1>7 DEF EndfileLoses, Cut
  <2>2. unit[u].pos <= Len(Cells(u)) /\ Fault /\ UNCHANGED transfer
    BY <1>7 DEF EndfileLoses
  <2>3. n \in 0 .. Len(Cells(u)) /\ n \in Nat
    BY <1>3, <2>2
  <2>4. faults' \in Nat /\ faults' >= faults
    BY <2>2, FaultFacts
  <2> QED BY <1>2, <2>1, <2>2, <2>3, <2>4, CutSound
<1> QED BY <1>4, <1>5, <1>6, <1>7

LEMMA BeginSound ==
  ASSUME IInv, NEW u \in DOMAIN unit, NEW f, f = FileOf(u),
         NEW mode \in {"formatted", "unformatted"}, NEW start \in Nat, NEW pos,
         mode = "unformatted" => start >= 1,
         unit[u].action # "read", unit[u].handle = "open",
         NEW cells \in Seq(Nat), f \in DOMAIN disk', disk'[f] = cells,
         DOMAIN disk' = DOMAIN disk, \A g \in DOMAIN disk : g # f => disk'[g] = disk[g],
         Begin(u, mode, start, pos), unit[u].access # "direct", FormOf[f] = mode,
         OthersBuffers(u), u \in DOMAIN buffer' => BufferSound(u)'
  PROVE  IInv'
<1> DEFINE inOrder == pos = EndOf(f, Len(Kept(f, pos)))
           t == Started(mode, start, 0, inOrder)
<1>1. f \in File /\ unit[u] \in Entries
  BY UnitFacts
<1>2. inOrder \in BOOLEAN
  OBVIOUS
<1>3. /\ unit' = [unit EXCEPT ![u].pos = start]
      /\ transfer' = With(transfer, u, t)
      /\ direct' = [direct EXCEPT ![f] = << >>] /\ UNCHANGED faults
  BY DEF Begin, Overwrite, Cut
<1> HIDE DEF inOrder
<1>4. t \in Transfers /\ t.mode = mode /\ t.start = start
  BY <1>2 DEF Started, Transfers
<1> HIDE DEF t
<1>5. Forgets(f, cells)
  BY <1>3 DEF Forgets
<1>6. /\ FileSound(f)' /\ DOMAIN (direct'[f]) = {}
      /\ DOMAIN direct' = File /\ \A g \in File : g # f => direct'[g] = direct[g]
  BY <1>1, <1>5, ForgetsSound
<1>7. /\ unit'[u] \in Entries /\ unit'[u].file = f /\ unit'[u].pos = start
      /\ unit'[u].stream = unit[u].stream /\ unit'[u].handle = "open"
      /\ unit'[u].access = unit[u].access /\ unit'[u].action = unit[u].action
      /\ DOMAIN unit' = DOMAIN unit /\ \A v \in DOMAIN unit : v # u => unit'[v] = unit[v]
  BY <1>1, <1>3 DEF Entries, FileOf
<1>8. /\ transfer'[u] = t
      /\ \A v \in DOMAIN transfer' : v # u => v \in DOMAIN transfer /\ transfer'[v] = transfer[v]
  BY <1>3 DEF With
<1>9. TransferSound(u)'
  <2>1. FileOf(u)' = f /\ Connected(u)'
    BY <1>7 DEF FileOf, Connected
  <2>2. (IF unit'[u].access = "direct" THEN "direct" ELSE FormOf[FileOf(u)']) = mode
    BY <1>7, <2>1
  <2> QED BY <1>4, <1>6, <1>7, <1>8, <2>1, <2>2 DEF TransferSound
<1>10. OwnStep(u, f)
  BY <1>6, <1>7, <1>8 DEF OwnStep
<1> QED BY <1>3, <1>6, <1>7, <1>9, <1>10, FaultFacts, OwnStepSound DEF NoFault

LEMMA BeginFormattedSound == ASSUME IInv, NEW u \in Unit, BeginFormatted(u) PROVE IInv'
<1> SUFFICES ASSUME NEW f, f = FileOf(u), NEW pos, pos = unit[u].pos PROVE IInv'
  OBVIOUS
<1>1. /\ u \in DOMAIN unit /\ unit[u].action # "read" /\ unit[u].stream # "closed"
      /\ Begin(u, "formatted", pos, pos) /\ UNCHANGED disk
      /\ "formatted" = (IF unit[u].access = "direct" THEN "direct" ELSE FormOf[f])
      /\ buffer' = IF u \in DOMAIN buffer THEN buffer ELSE With(buffer, u, Buffered(pos, Cells(u)))
  BY DEF BeginFormatted, Ready, Connected, Stale
<1>2. /\ f \in DOMAIN disk /\ disk[f] \in Seq(Nat) /\ pos \in Nat
      /\ unit[u] \in Entries /\ EntrySound(u) /\ Cells(u) \in Seq(Nat)
  BY <1>1, UnitFacts DEF Cells, IInv
<1>3. unit[u].handle = "open"
  BY <1>1, <1>2 DEF EntrySound, Entries
<1>4. unit[u].access = "sequential" /\ FormOf[f] = "formatted"
  BY <1>1, <1>2 DEF Entries
<1>5. OthersBuffers(u)
  BY <1>1 DEF OthersBuffers, With
<1>6. BufferSound(u)'
  <2>1. /\ Connected(u)' /\ unit'[u].access = "sequential" /\ unit'[u].pos = pos
        /\ FileOf(u)' = f /\ Cells(u)' = Cells(u)
    <3>1. unit' = [unit EXCEPT ![u].pos = pos]
      BY <1>1 DEF Begin
    <3> QED BY <1>1, <1>2, <1>4, <3>1 DEF Entries, FileOf, Cells, Connected
  <2>2. CASE u \in DOMAIN buffer
    <3>1. buffer' = buffer /\ BufferSound(u)
      BY <1>1, <2>2 DEF IInv
    <3> QED BY <1>4, <2>1, <3>1 DEF BufferSound
  <2>3. CASE u \notin DOMAIN buffer
    <3>1. buffer'[u] = [from |-> pos, under |-> Cells(u)]
      BY <1>1, <2>3 DEF With, Buffered
    <3> QED BY <1>2, <1>4, <2>1, <3>1 DEF BufferSound
  <2> QED BY <2>2, <2>3
<1> QED BY <1>1, <1>2, <1>3, <1>4, <1>5, <1>6, BeginSound

LEMMA BeginUnformattedSound == ASSUME IInv, NEW u \in Unit, BeginUnformatted(u) PROVE IInv'
<1> DEFINE f == FileOf(u)
           pos == unit[u].pos
<1>1. /\ u \in DOMAIN unit /\ u \notin DOMAIN transfer
      /\ unit[u].action # "read" /\ unit[u].handle = "open"
      /\ "unformatted" = (IF unit[u].access = "direct" THEN "direct" ELSE FormOf[f])
      /\ \/ disk' = [disk EXCEPT ![f] = Put(@, pos, 0)] /\ Begin(u, "unformatted", pos + 1, pos)
         \/ Fault /\ UNCHANGED << disk, unit, transfer, direct >>
      /\ UNCHANGED buffer
  BY DEF BeginUnformatted, Ready, Connected, Busy, history
<1>2. f \in DOMAIN disk /\ disk[f] \in Seq(Nat) /\ pos \in Nat
  BY <1>1, UnitFacts DEF Cells
<1>3. Put(disk[f], pos, 0) \in Seq(Nat)
  BY <1>2, PutFacts
<1>6. unit[u].access # "direct" /\ FormOf[f] = "unformatted" /\ Drained(u)
  BY <1>1, Unbuffered, DrainedIf
<1>7. OthersBuffers(u) /\ u \notin DOMAIN buffer'
  BY <1>6 DEF Drained
<1>4. CASE disk' = [disk EXCEPT ![f] = Put(@, pos, 0)] /\ Begin(u, "unformatted", pos + 1, pos)
  <2>1. /\ f \in DOMAIN disk' /\ disk'[f] = Put(disk[f], pos, 0)
        /\ DOMAIN disk' = DOMAIN disk /\ \A g \in DOMAIN disk : g # f => disk'[g] = disk[g]
    BY <1>2, <1>4
  <2>2. pos + 1 \in Nat /\ pos + 1 >= 1
    BY <1>2
  <2> HIDE DEF pos
  <2> QED BY <1>1, <1>3, <1>4, <1>6, <1>7, <2>1, <2>2, BeginSound
<1>5. CASE Fault /\ UNCHANGED << disk, unit, transfer, direct >>
  <2>1. /\ EntrySound(u)' /\ Unshared(u, FileOf(u)') /\ u \notin DOMAIN transfer'
        /\ u \in Unit
    <3>1. EntrySound(u) /\ Unshared(u, FileOf(u)) /\ u \in Unit
      BY <1>1 DEF IInv
    <3> QED BY <1>1, <1>5, <3>1, FaultFacts DEF EntrySound, FileOf, Unshared
  <2>2. Within(u, {})
    BY <1>5, <1>7, FaultFacts DEF Within, IInv
  <2> QED BY <1>7, <2>1, <2>2, StepSound
<1> QED BY <1>1, <1>4, <1>5

LEMMA BeginImplicitlySound == ASSUME IInv, NEW u \in Unit, BeginImplicitly(u) PROVE IInv'
<1> DEFINE f == DefaultName[u]
           cells == IF f \in DOMAIN disk THEN disk[f] ELSE << >>
           entry == Entry(f, "sequential", "write", 0)
           t == Started("formatted", 0, 0, TRUE)
<1>1. u \notin DOMAIN unit /\ Unshared(u, f)
  BY DEF BeginImplicitly, ImplicitOpen, Connected
<1>2. /\ disk' = With(disk, f, cells) /\ unit' = With(unit, u, entry)
      /\ transfer' = With(transfer, u, t)
      /\ direct' = [direct EXCEPT ![f] = << >>] /\ UNCHANGED faults
      /\ buffer' = With(buffer, u, Buffered(0, cells))
  BY DEF BeginImplicitly, Cut
<1>3. f \in File /\ f \notin Unit /\ FormOf[f] = "formatted"
  BY FileAssumption DEF File
<1>4. cells \in Seq(Nat)
  <2>1. \A h \in DOMAIN disk : disk[h] \in Seq(Nat)
    BY DEF IInv, FileSound
  <2>2. CASE f \in DOMAIN disk
    BY <2>1, <2>2
  <2>3. CASE f \notin DOMAIN disk
    <3>1. cells = << >>
      BY <2>3
    <3> HIDE DEF cells
    <3> QED BY <3>1
  <2> QED BY <2>2, <2>3
<1> HIDE DEF cells
<1>5. /\ entry \in Entries /\ entry.file = f /\ entry.pos = 0 /\ entry.action = "write"
      /\ entry.access = "sequential"
      /\ entry.handle = "open" /\ entry.stream = "open"
  BY <1>3 DEF Entry, Entries
<1>6. t \in Transfers /\ t.mode = "formatted" /\ t.start = 0
  BY DEF Started, Transfers
<1> HIDE DEF entry, t
<1>7. /\ DOMAIN unit' = DOMAIN unit \union {u} /\ unit'[u] = entry
      /\ \A v \in DOMAIN unit : v # u => unit'[v] = unit[v]
  BY <1>2 DEF With
<1>8. /\ transfer'[u] = t
      /\ \A v \in DOMAIN transfer' : v # u => v \in DOMAIN transfer /\ transfer'[v] = transfer[v]
  BY <1>2 DEF With
<1>9. /\ DOMAIN disk' = DOMAIN disk \union {f} /\ disk'[f] = cells
      /\ \A g \in DOMAIN disk : g # f => disk'[g] = disk[g]
  BY <1>2 DEF With
<1>10. Forgets(f, cells)
  BY <1>2, <1>4, <1>9 DEF Forgets
<1> HIDE DEF f
<1>11. /\ FileSound(f)' /\ DOMAIN (direct'[f]) = {}
       /\ DOMAIN direct' = File /\ \A g \in File : g # f => direct'[g] = direct[g]
  BY <1>3, <1>10, ForgetsSound
<1>12. Within(u, {f})
  <2>1. DOMAIN disk \subseteq File
    BY DEF IInv
  <2>2. \A v \in DOMAIN unit : v # u => FileOf(v) # f
    BY <1>1 DEF Unshared
  <2>3. faults' \in Nat /\ faults' >= faults
    BY <1>2, FaultFacts DEF NoFault
  <2>4. OthersBuffers(u)
    BY <1>2 DEF OthersBuffers, With
  <2> QED BY <1>3, <1>7, <1>8, <1>9, <1>11, <2>1, <2>2, <2>3, <2>4 DEF Within
<1>13. FileOf(u)' = f /\ Connected(u)'
  BY <1>5, <1>7 DEF FileOf, Connected
<1>14. EntrySound(u)'
  BY <1>3, <1>5, <1>7, <1>9, <1>13 DEF EntrySound
<1>15. TransferSound(u)'
  BY <1>3, <1>5, <1>6, <1>7, <1>8, <1>11, <1>13 DEF TransferSound
<1>16. BufferSound(u)'
  <2>1. buffer'[u] = [from |-> 0, under |-> cells]
    BY <1>2 DEF With, Buffered
  <2> QED BY <1>3, <1>4, <1>5, <1>7, <1>13, <2>1 DEF BufferSound
<1> QED BY <1>1, <1>11, <1>12, <1>13, <1>14, <1>15, <1>16, StepSound

LEMMA BeginDirectSound ==
  ASSUME IInv, NEW u \in Unit, NEW record \in Record, BeginDirect(u, record)
  PROVE  IInv'
<1>1. PICK f : f = FileOf(u)
  OBVIOUS
<1> DEFINE start == Offset(record)
           t == Started("direct", start, record, FALSE)
<1>2. /\ u \in DOMAIN unit /\ unit[u].action # "read" /\ unit[u].handle = "open"
      /\ unit' = [unit EXCEPT ![u].pos = start]
      /\ transfer' = With(transfer, u, t)
      /\ direct' = [direct EXCEPT ![f] = Without(@, record)] /\ UNCHANGED << disk, buffer, faults >>
      /\ "direct" = (IF unit[u].access = "direct" THEN "direct" ELSE FormOf[f])
  BY <1>1 DEF BeginDirect, Ready, Connected
<1>3. /\ f \in File /\ f \in DOMAIN disk /\ unit[u] \in Entries /\ DOMAIN direct = File
      /\ disk[f] \in Seq(Nat) /\ DirectIn(disk[f], direct[f])
  BY <1>2, <1>1, UnitFacts DEF Cells, IInv
<1>13. unit[u].access = "direct" /\ OthersBuffers(u) /\ u \notin DOMAIN buffer'
  <2>1. FormOf[f] # "direct"
    BY <1>3, FileAssumption
  <2>2. unit[u].access = "direct"
    BY <1>2, <2>1
  <2>3. Drained(u)
    BY <1>2, <2>2, Unbuffered, DrainedIf
  <2> QED BY <2>2, <2>3 DEF Drained
<1>4. record \in Nat \ {0} /\ start \in Nat
  <2>1. record \in Nat \ {0} /\ record + 1 \in Nat \ {0} /\ record + 1 # record
    BY TransferAssumption
  <2> QED BY <2>1, RecordsApart
<1>5. t \in Transfers /\ t.mode = "direct" /\ t.start = start /\ t.record = record
  BY <1>4 DEF Started, Transfers
<1> HIDE DEF t
<1>6. /\ unit'[u] \in Entries /\ unit'[u].file = f /\ unit'[u].pos = start
      /\ unit'[u].stream = unit[u].stream /\ unit'[u].handle = "open"
      /\ unit'[u].access = unit[u].access /\ unit'[u].action = unit[u].action
      /\ DOMAIN unit' = DOMAIN unit /\ \A v \in DOMAIN unit : v # u => unit'[v] = unit[v]
  BY <1>2, <1>3, <1>4, <1>1 DEF Entries, FileOf
<1>7. /\ transfer'[u] = t
      /\ \A v \in DOMAIN transfer' : v # u => v \in DOMAIN transfer /\ transfer'[v] = transfer[v]
  BY <1>2 DEF With
<1>8. /\ DOMAIN direct' = File /\ \A g \in File : g # f => direct'[g] = direct[g]
      /\ DOMAIN (direct'[f]) = DOMAIN (direct[f]) \ {record}
      /\ \A r \in DOMAIN (direct'[f]) : direct'[f][r] = direct[f][r]
  BY <1>2, <1>3 DEF Without, Restrict
<1>9. FileSound(f)'
  <2>1. disk'[f] = disk[f]
    BY <1>2
  <2> QED BY <1>3, <1>8, <2>1 DEF FileSound, DirectIn, Offset
<1>10. TransferSound(u)'
  <2>1. FileOf(u)' = f /\ Connected(u)'
    BY <1>2, <1>6 DEF FileOf, Connected
  <2>2. /\ unit'[u].pos = Offset(record) /\ transfer'[u] \in Transfers
        /\ transfer'[u].mode = "direct" /\ transfer'[u].start = Offset(record)
        /\ transfer'[u].record = record /\ Offset(record) \in Nat /\ Recl \in Nat
    BY <1>4, <1>5, <1>6, <1>7, BoundsAssumption
  <2>3. record \notin DOMAIN direct'[FileOf(u)']
    BY <1>8, <2>1
  <2>4. unit'[u].action # "read" /\ unit'[u].access = "direct"
    BY <1>2, <1>6, <1>13
  <2> HIDE DEF start
  <2> QED BY <1>4, <2>1, <2>2, <2>3, <2>4 DEF TransferSound
<1>11. OwnStep(u, f)
  BY <1>2, <1>6, <1>7, <1>8, <1>13 DEF OwnStep
<1>12. faults' \in Nat /\ faults' >= faults
  BY <1>2, FaultFacts DEF NoFault
<1> HIDE DEF start
<1> QED BY <1>2, <1>6, <1>9, <1>10, <1>11, <1>12, <1>13, <1>1, OwnStepSound

-----------------------------------------------------------------------------
(* Items and the end of a WRITE.                                           *)

(***************************************************************************)
(* What is known of the transfer of a unit.                                *)
(***************************************************************************)
LEMMA TransferFacts ==
  ASSUME IInv, NEW u \in DOMAIN transfer
  PROVE  /\ u \in DOMAIN unit /\ unit[u].action # "read"
         /\ transfer[u] \in Transfers /\ transfer[u].start \in Nat
         /\ transfer[u].record \in Nat /\ transfer[u].start <= unit[u].pos
         /\ transfer[u].mode = "unformatted" => transfer[u].start >= 1
         /\ transfer[u].mode # "direct" => DOMAIN (direct[FileOf(u)]) = {}
         /\ transfer[u].mode = (IF unit[u].access = "direct" THEN "direct" ELSE FormOf[FileOf(u)])
         /\ transfer[u].mode # "formatted" => u \notin DOMAIN buffer
         /\ transfer[u].mode = "direct" =>
              /\ transfer[u].record \in Nat \ {0}
              /\ transfer[u].start = Offset(transfer[u].record)
              /\ unit[u].pos <= transfer[u].start + Recl
              /\ unit[u].pos > transfer[u].start => unit[u].pos <= Len(Cells(u))
              /\ transfer[u].record \notin DOMAIN (direct[FileOf(u)])
<1>1. TransferSound(u)
  BY DEF IInv
<1>2. transfer[u] \in Transfers
  BY <1>1 DEF TransferSound
<1>3. transfer[u].start \in Nat /\ transfer[u].record \in Nat
  BY <1>2 DEF Transfers
<1>4. u \in DOMAIN buffer => unit[u].access = "sequential" /\ FormOf[FileOf(u)] = "formatted"
  BY DEF IInv, BufferSound
<1>5. transfer[u].mode # "formatted" => u \notin DOMAIN buffer
  BY <1>1, <1>4 DEF TransferSound
<1> QED BY <1>1, <1>2, <1>3, <1>5 DEF TransferSound, Connected

\* What a WRITE adds to a buffered file, it adds at its end or over cells of it.
Grows(u, pos, cells) ==
  /\ unit[u].pos <= pos /\ Len(Cells(u)) <= Len(cells)
  /\ unit[u].pos < pos => pos <= Len(cells)

LEMMA BufferStays ==
  ASSUME IInv, NEW u \in DOMAIN unit, UNCHANGED buffer, NEW f, f = FileOf(u),
         u \in DOMAIN unit', unit'[u].file = f, unit'[u].access = unit[u].access,
         NEW pos \in Nat, unit'[u].pos = pos, NEW cells \in Seq(Nat), disk'[f] = cells,
         u \in DOMAIN buffer => Grows(u, pos, cells)
  PROVE  OthersBuffers(u) /\ (u \in DOMAIN buffer' => BufferSound(u)')
<1>1. OthersBuffers(u)
  BY DEF OthersBuffers
<1> SUFFICES ASSUME u \in DOMAIN buffer PROVE BufferSound(u)'
  BY <1>1
<1>2. BufferSound(u) /\ buffer'[u] = buffer[u] /\ Grows(u, pos, cells)
  BY DEF IInv
<1>3. FileOf(u)' = f /\ Connected(u)' /\ Cells(u)' = cells
  BY DEF FileOf, Cells, Connected
<1>4. /\ unit[u].pos \in Nat /\ Len(Cells(u)) \in Nat /\ Len(cells) \in Nat
      /\ buffer[u].from \in Nat
  BY <1>2, UnitFacts, LenProperties DEF BufferSound
<1>5. buffer[u].from <= pos /\ (buffer[u].from < pos => pos <= Len(cells))
  BY <1>2, <1>4 DEF BufferSound, Grows
<1> QED BY <1>2, <1>3, <1>5 DEF BufferSound

LEMMA WriteItemSound ==
  ASSUME IInv, NEW u \in Unit, NEW w \in Word, WriteItem(u, w)
  PROVE  IInv'
<1>1. u \in DOMAIN transfer /\ u \in DOMAIN unit /\ w \in Nat
  BY TransferAssumption, TransferFacts DEF WriteItem, Busy
<1>2. PICK f : f = FileOf(u)
  OBVIOUS
<1>3. PICK t : t = transfer[u]
  OBVIOUS
<1>4. PICK pos : pos = unit[u].pos
  OBVIOUS
<1>5. PICK cells : cells = disk[f]
  OBVIOUS
<1>6. /\ f \in File /\ f \in DOMAIN disk /\ unit[u] \in Entries /\ pos \in Nat
      /\ cells \in Seq(Nat) /\ Len(cells) \in Nat /\ DirectIn(cells, direct[f])
      /\ EntrySound(u) /\ DOMAIN direct = File
  BY <1>1, <1>2, <1>4, <1>5, UnitFacts DEF Cells, IInv
<1>7. /\ t \in Transfers /\ t.start \in Nat /\ t.start <= pos /\ unit[u].action # "read"
      /\ t.mode = "unformatted" => t.start >= 1
      /\ t.mode # "direct" => DOMAIN (direct[f]) = {}
      /\ t.mode = "direct" =>
           /\ t.record \in Nat \ {0} /\ t.start = Offset(t.record)
           /\ pos <= t.start + Recl /\ (pos > t.start => pos <= Len(cells))
           /\ t.record \notin DOMAIN (direct[f])
  BY <1>1, <1>2, <1>3, <1>4, <1>5, TransferFacts DEF Cells
<1>8. UNCHANGED direct
  BY DEF WriteItem
<1>9. CASE /\ ~ Full(u) /\ NoFault
           /\ disk' = [disk EXCEPT ![f] = Put(@, pos, w)]
           /\ Position(u, pos + 1) /\ UNCHANGED transfer
  <2>1. PICK new : new = Put(cells, pos, w)
    OBVIOUS
  <2>2. /\ new \in Seq(Nat) /\ Len(new) \in Nat
        /\ Len(new) = IF pos < Len(cells) THEN Len(cells) ELSE pos + 1
        /\ \A i \in 1 .. Len(cells) : i # pos + 1 => new[i] = cells[i]
    BY <1>1, <1>6, <2>1, PutFacts, LenProperties
  <2>3. t.mode = "direct" => pos < t.start + Recl
    <3> SUFFICES ASSUME t.mode = "direct" PROVE pos < t.start + Recl
      OBVIOUS
    <3>1. pos # t.start + Recl
      BY <1>3, <1>4, <1>9 DEF Full
    <3>2. pos <= t.start + Recl
      BY <1>7
    <3>3. pos \in Nat /\ t.start \in Nat /\ Recl \in Nat
      BY <1>6, <1>7, BoundsAssumption
    <3> QED BY <3>1, <3>2, <3>3
  <2>4. DirectIn(new, direct[f])
    <3>1. CASE t.mode # "direct"
      BY <1>7, <3>1, NothingKnown
    <3>2. CASE t.mode = "direct"
      <4>1. ASSUME NEW record \in DOMAIN (direct[f]), NEW i \in 1 .. Recl
            PROVE  new[Offset(record) + i] = cells[Offset(record) + i]
        <5>1. /\ record \in Nat \ {0} /\ Offset(record) + Recl <= Len(cells)
              /\ record # t.record /\ Recl \in Nat
          BY <1>6, <1>7, <3>2, BoundsAssumption DEF DirectIn
        <5>2. /\ Offset(record) \in Nat
              /\ Offset(record) + Recl <= t.start \/ t.start + Recl <= Offset(record)
          BY <1>7, <3>2, <5>1, RecordsApart
        <5>3. Offset(record) + i \in 1 .. Len(cells) /\ Offset(record) + i # pos + 1
          <6>1. /\ t.start \in Nat /\ t.start <= pos /\ pos < t.start + Recl
                /\ pos \in Nat /\ Len(cells) \in Nat
            BY <1>6, <1>7, <2>3, <3>2
          <6>2. Offset(record) + i \in 1 .. Len(cells)
            BY <5>1, <5>2, <6>1
          <6>3. CASE Offset(record) + Recl <= t.start
            BY <5>1, <5>2, <6>1, <6>2, <6>3
          <6>4. CASE t.start + Recl <= Offset(record)
            BY <5>1, <5>2, <6>1, <6>2, <6>4
          <6> QED BY <5>2, <6>3, <6>4
        <5> QED BY <2>2, <5>3
      <4>2. Len(cells) <= Len(new)
        BY <1>6, <2>2
      <4> QED BY <1>6, <2>2, <4>1, <4>2, DirectKeptIf
    <3> QED BY <3>1, <3>2
  <2>5. /\ DOMAIN disk' = DOMAIN disk /\ disk'[f] = new
        /\ \A g \in DOMAIN disk : g # f => disk'[g] = disk[g]
    BY <1>5, <1>6, <1>9, <2>1
  <2>6. FileSound(f)'
    BY <1>8, <2>2, <2>4, <2>5 DEF FileSound, DirectIn, Offset
  <2>7. /\ unit'[u] \in Entries /\ unit'[u].file = f /\ unit'[u].pos = pos + 1
        /\ unit'[u].stream = unit[u].stream /\ unit'[u].handle = unit[u].handle
        /\ unit'[u].access = unit[u].access /\ unit'[u].action = unit[u].action
        /\ DOMAIN unit' = DOMAIN unit /\ \A v \in DOMAIN unit : v # u => unit'[v] = unit[v]
    <3>1. unit' = [unit EXCEPT ![u].pos = pos + 1] /\ unit[u] \in Entries /\ pos + 1 \in Nat
      BY <1>6, <1>9 DEF Position
    <3> QED BY <1>1, <1>2, <3>1 DEF Entries, FileOf
  <2>11. OthersBuffers(u) /\ (u \in DOMAIN buffer' => BufferSound(u)')
    <3>1. Grows(u, pos + 1, new) /\ pos + 1 \in Nat /\ u \in DOMAIN unit'
      BY <1>1, <1>2, <1>4, <1>5, <1>6, <2>2, <2>7 DEF Grows, Cells
    <3>2. UNCHANGED buffer
      BY DEF WriteItem
    <3> QED BY <1>1, <1>2, <2>2, <2>5, <2>7, <3>1, <3>2, BufferStays
  <2>8. OwnStep(u, f)
    BY <1>6, <1>8, <1>9, <2>5, <2>7, <2>11 DEF OwnStep
  <2>9. TransferSound(u)'
    <3>1. FileOf(u)' = f /\ Connected(u)' /\ Cells(u)' = new /\ transfer'[u] = t
      BY <1>1, <1>3, <1>9, <2>5, <2>7 DEF FileOf, Connected, Cells
    <3>2. t.start <= pos + 1 /\ (t.mode = "direct" => pos + 1 <= t.start + Recl)
          /\ pos + 1 <= Len(new)
      BY <1>6, <1>7, <2>2, <2>3, BoundsAssumption
    <3>3. t.mode = (IF unit'[u].access = "direct" THEN "direct" ELSE FormOf[f])
      BY <1>1, <1>2, <1>3, <2>7, TransferFacts
    <3> QED BY <1>7, <1>8, <2>7, <3>1, <3>2, <3>3 DEF TransferSound
  <2>10. unit'[u].stream = "open" => unit'[u].handle = "open"
    BY <1>6, <2>7 DEF EntrySound
  <2> QED BY <1>1, <1>2, <1>9, <2>6, <2>7, <2>8, <2>9, <2>10, <2>11, FaultFacts, OwnStepSound
<1>10. CASE /\ transfer' = [transfer EXCEPT ![u].ok = FALSE] /\ (NoFault \/ Fault)
            /\ UNCHANGED << disk, unit >>
  <2>1. /\ DOMAIN transfer' = DOMAIN transfer
        /\ \A v \in DOMAIN transfer : v # u => transfer'[v] = transfer[v]
        /\ transfer'[u] \in Transfers /\ transfer'[u].mode = t.mode
        /\ transfer'[u].start = t.start /\ transfer'[u].record = t.record
    BY <1>1, <1>3, <1>7, <1>10 DEF Transfers
  <2>2. FileOf(u)' = f /\ Connected(u)' /\ Cells(u)' = cells /\ unit'[u] = unit[u]
    BY <1>1, <1>2, <1>5, <1>10 DEF FileOf, Connected, Cells
  <2>3. TransferSound(u)'
    <3>1. t.mode = (IF unit'[u].access = "direct" THEN "direct" ELSE FormOf[f])
      BY <1>1, <1>2, <1>3, <2>2, TransferFacts
    <3> QED BY <1>4, <1>7, <1>8, <2>1, <2>2, <3>1 DEF TransferSound
  <2>4. FileSound(f)'
    BY <1>5, <1>6, <1>8, <1>10 DEF FileSound, DirectIn, Offset
  <2>8. OthersBuffers(u) /\ (u \in DOMAIN buffer' => BufferSound(u)')
    <3>1. UNCHANGED buffer /\ (u \in DOMAIN buffer => BufferSound(u))
      BY DEF WriteItem, IInv
    <3> QED BY <1>10, <2>2, <3>1 DEF OthersBuffers, BufferSound, FileOf, Cells
  <2>5. OwnStep(u, f)
    BY <1>6, <1>8, <1>10, <2>1, <2>8 DEF OwnStep
  <2>6. /\ unit'[u] \in Entries /\ unit'[u].file = f /\ unit'[u].access = unit[u].access
        /\ unit'[u].stream = unit[u].stream
        /\ unit'[u].stream = "open" => unit'[u].handle = "open"
    BY <1>2, <1>6, <2>2 DEF EntrySound, FileOf
  <2>7. faults' \in Nat /\ faults' >= faults
    BY <1>10, FaultFacts
  <2> QED BY <1>1, <1>2, <2>3, <2>4, <2>5, <2>6, <2>7, <2>8, OwnStepSound
<1> QED BY <1>2, <1>4, <1>9, <1>10 DEF WriteItem

(***************************************************************************)
(* An item or newline of a formatted WRITE that cannot be written because  *)
(* the buffer is full and stays so.                                        *)
(***************************************************************************)
LEMMA OutputLostFacts ==
  ASSUME IInv, NEW u \in Unit, OutputLost(u), NEW f, f = FileOf(u), NEW t, t = transfer[u]
  PROVE  /\ u \in DOMAIN transfer /\ u \in DOMAIN buffer /\ u \in DOMAIN unit /\ Fault
         /\ t \in Transfers /\ t.mode = "formatted" /\ t.start \in Nat
         /\ \A v \in DOMAIN transfer : v # u => v \in DOMAIN transfer' /\ transfer'[v] = transfer[v]
         /\ \A v \in DOMAIN transfer' : v # u => v \in DOMAIN transfer /\ transfer'[v] = transfer[v]
         /\ \E m \in Nat :
              /\ DropTo(u, m) /\ Drop(u, m)
              /\ unit'[u] \in Entries /\ unit'[u] = [unit[u] EXCEPT !.pos = m]
              /\ FileOf(u)' = f /\ u \in DOMAIN unit'
              /\ \A v \in DOMAIN unit : v # u => unit'[v] = unit[v]
              /\ u \in DOMAIN transfer' =>
                   /\ transfer'[u] \in Transfers /\ transfer'[u].mode = "formatted"
                   /\ ~ transfer'[u].ok /\ ~ transfer'[u].inOrder
                   /\ transfer'[u].start <= m
                   /\ transfer'[u].start = IF m < t.start THEN m ELSE t.start
<1>1. /\ u \in DOMAIN transfer /\ t.mode = "formatted" /\ Fault /\ u \in DOMAIN buffer
  BY DEF OutputLost, Writing, Busy
<1>2. PICK m :
        /\ DropTo(u, m)
        /\ transfer' \in {Without(transfer, u),
                         [transfer EXCEPT ![u].ok = FALSE, ![u].inOrder = FALSE,
                                          ![u].start = IF m < @ THEN m ELSE @]}
  BY DEF OutputLost
<1>3. t \in Transfers /\ t.start \in Nat /\ u \in DOMAIN unit
  BY <1>1, TransferFacts
<1>4. /\ m \in Nat /\ Drop(u, m) /\ unit' = [unit EXCEPT ![u].pos = m] /\ unit[u] \in Entries
  BY <1>1, <1>2, <1>3, DropFacts, UnitFacts DEF DropTo, Position
<1>5. /\ \A v \in DOMAIN transfer : v # u => v \in DOMAIN transfer' /\ transfer'[v] = transfer[v]
      /\ \A v \in DOMAIN transfer' : v # u => v \in DOMAIN transfer /\ transfer'[v] = transfer[v]
  BY <1>2 DEF Without, Restrict
<1>6. ASSUME u \in DOMAIN transfer'
      PROVE  /\ transfer'[u] \in Transfers /\ transfer'[u].mode = "formatted"
             /\ ~ transfer'[u].ok /\ ~ transfer'[u].inOrder
             /\ transfer'[u].start <= m
             /\ transfer'[u].start = IF m < t.start THEN m ELSE t.start
  <2>1. transfer' = [transfer EXCEPT ![u].ok = FALSE, ![u].inOrder = FALSE,
                                     ![u].start = IF m < @ THEN m ELSE @]
    BY <1>2, <1>6 DEF Without, Restrict
  <2>2. PICK start : start = IF m < t.start THEN m ELSE t.start
    OBVIOUS
  <2>3. start \in Nat /\ start <= m
    BY <1>3, <1>4, <2>2
  <2>4. transfer'[u] = [t EXCEPT !.ok = FALSE, !.inOrder = FALSE, !.start = start]
    BY <1>1, <2>1, <2>2
  <2> QED BY <1>1, <1>3, <2>2, <2>3, <2>4 DEF Transfers
<1>7. /\ unit'[u] \in Entries /\ unit'[u] = [unit[u] EXCEPT !.pos = m]
      /\ FileOf(u)' = f /\ u \in DOMAIN unit'
      /\ \A v \in DOMAIN unit : v # u => unit'[v] = unit[v]
  BY <1>3, <1>4 DEF Entries, FileOf
<1> QED BY <1>1, <1>2, <1>3, <1>4, <1>5, <1>6, <1>7

LEMMA OutputLostSound == ASSUME IInv, NEW u \in Unit, OutputLost(u) PROVE IInv'
<1> SUFFICES ASSUME NEW f, f = FileOf(u), NEW t, t = transfer[u] PROVE IInv'
  OBVIOUS
<1>1. /\ u \in DOMAIN transfer /\ u \in DOMAIN buffer /\ u \in DOMAIN unit /\ Fault
      /\ t.mode = "formatted"
      /\ \A v \in DOMAIN transfer' : v # u => v \in DOMAIN transfer /\ transfer'[v] = transfer[v]
  BY OutputLostFacts
<1>2. PICK m \in Nat :
        /\ DropTo(u, m) /\ Drop(u, m)
        /\ unit'[u] \in Entries /\ unit'[u] = [unit[u] EXCEPT !.pos = m]
        /\ FileOf(u)' = f /\ u \in DOMAIN unit'
        /\ u \in DOMAIN transfer' =>
             /\ transfer'[u] \in Transfers /\ transfer'[u].mode = "formatted"
             /\ transfer'[u].start <= m
  BY OutputLostFacts
<1>3. /\ unit[u].action # "read" /\ unit[u] \in Entries
      /\ t.mode = (IF unit[u].access = "direct" THEN "direct" ELSE FormOf[f])
  BY <1>1, TransferFacts, UnitFacts
<1>4. DOMAIN (direct'[f]) = {}
  BY <1>1, <1>2, DropFacts
<1>5. ASSUME u \in DOMAIN transfer' PROVE TransferSound(u)'
  <2>1. /\ unit'[u].pos = m /\ unit'[u].action = unit[u].action
        /\ unit'[u].access = unit[u].access /\ Connected(u)'
    BY <1>2, <1>3 DEF Connected, Entries
  <2> QED BY <1>1, <1>2, <1>3, <1>4, <1>5, <2>1 DEF TransferSound
<1> QED BY <1>1, <1>2, <1>5, DropToSound

(***************************************************************************)
(* The end of a WRITE keeps the invariant if what is known of direct       *)
(* records then is in the file.                                            *)
(***************************************************************************)
LEMMA FinishSound ==
  ASSUME IInv, NEW u \in DOMAIN transfer, NEW f, f = FileOf(u),
         NEW pos \in Nat, NEW cells \in Seq(Nat), Finish(u, pos, cells),
         DOMAIN direct' = File, \A g \in File : g # f => direct'[g] = direct[g],
         NEW known, direct'[f] = known, DirectIn(cells, known),
         u \in DOMAIN buffer => Grows(u, pos, cells),
         faults' \in Nat, faults' >= faults
  PROVE  IInv'
<1>1. /\ u \in DOMAIN unit /\ f \in File /\ f \in DOMAIN disk /\ unit[u] \in Entries
      /\ EntrySound(u)
  BY TransferFacts, UnitFacts DEF IInv
<1>2. /\ DOMAIN disk' = DOMAIN disk /\ disk'[f] = cells
      /\ \A g \in DOMAIN disk : g # f => disk'[g] = disk[g]
      /\ transfer' = Without(transfer, u) /\ unit' = [unit EXCEPT ![u].pos = pos]
  BY <1>1 DEF Finish
<1>3. FileSound(f)'
  BY <1>2 DEF FileSound, DirectIn, Offset
<1>4. /\ unit'[u] \in Entries /\ unit'[u].file = f
      /\ unit'[u].stream = unit[u].stream /\ unit'[u].handle = unit[u].handle
      /\ unit'[u].access = unit[u].access
      /\ DOMAIN unit' = DOMAIN unit /\ \A v \in DOMAIN unit : v # u => unit'[v] = unit[v]
  BY <1>1, <1>2 DEF Entries, FileOf
<1>5. /\ u \notin DOMAIN transfer'
      /\ \A v \in DOMAIN transfer' : v \in DOMAIN transfer /\ transfer'[v] = transfer[v]
  BY <1>2 DEF Without, Restrict
<1>8. OthersBuffers(u) /\ (u \in DOMAIN buffer' => BufferSound(u)')
  <2>1. UNCHANGED buffer /\ u \in DOMAIN unit' /\ unit'[u].pos = pos
    BY <1>1, <1>2, <1>4 DEF Finish, Entries
  <2> QED BY <1>1, <1>2, <1>4, <2>1, BufferStays
<1>6. OwnStep(u, f)
  BY <1>2, <1>4, <1>5, <1>8 DEF OwnStep
<1>7. unit'[u].stream = "open" => unit'[u].handle = "open"
  BY <1>1, <1>4 DEF EntrySound
<1> QED BY <1>1, <1>3, <1>4, <1>5, <1>6, <1>7, <1>8, OwnStepSound

(***************************************************************************)
(* No direct record is known of a file with a sequential WRITE.            *)
(***************************************************************************)
LEMMA SequentialFinishSound ==
  ASSUME IInv, NEW u \in DOMAIN transfer, transfer[u].mode # "direct",
         NEW pos \in Nat, NEW cells \in Seq(Nat), Finish(u, pos, cells),
         u \in DOMAIN buffer => Grows(u, pos, cells),
         UNCHANGED direct, faults' \in Nat, faults' >= faults
  PROVE  IInv'
<1>1. PICK f : f = FileOf(u)
  OBVIOUS
<1>2. DOMAIN (direct[f]) = {} /\ DOMAIN direct = File
  BY <1>1, TransferFacts DEF IInv
<1>3. PICK known : known = direct[f]
  OBVIOUS
<1>4. DirectIn(cells, known)
  BY <1>2, <1>3, NothingKnown
<1>5. direct'[f] = known /\ DOMAIN direct' = File /\ \A g \in File : g # f => direct'[g] = direct[g]
  BY <1>2, <1>3
<1> QED BY <1>1, <1>4, <1>5, FinishSound

LEMMA EndFormattedSound == ASSUME IInv, NEW u \in Unit, EndFormatted(u) PROVE IInv'
<1> DEFINE pos == unit[u].pos
<1>1. u \in DOMAIN transfer /\ transfer[u].mode # "direct"
  BY DEF EndFormatted, Writing, Busy
<1>2. pos \in Nat /\ Cells(u) \in Seq(Nat)
  BY <1>1, TransferFacts, UnitFacts
<1>3. /\ UNCHANGED direct /\ (NoFault \/ Fault)
      /\ Finish(u, pos + 1, Put(Cells(u), pos, Newline)) \/ Finish(u, pos, Cells(u))
  BY DEF EndFormatted, Recorded, Unrecorded
<1>4. Put(Cells(u), pos, Newline) \in Seq(Nat) /\ pos + 1 \in Nat
  BY <1>2, PutFacts DEF Newline
<1>5. faults' \in Nat /\ faults' >= faults
  BY <1>3, FaultFacts
<1>6. Grows(u, pos + 1, Put(Cells(u), pos, Newline)) /\ Grows(u, pos, Cells(u))
  <2>1. /\ Len(Put(Cells(u), pos, Newline)) = IF pos < Len(Cells(u)) THEN Len(Cells(u)) ELSE pos + 1
        /\ Len(Cells(u)) \in Nat
    BY <1>2, PutFacts, LenProperties DEF Newline
  <2> QED BY <1>2, <2>1 DEF Grows
<1> HIDE DEF pos
<1> QED BY <1>1, <1>2, <1>3, <1>4, <1>5, <1>6, SequentialFinishSound

LEMMA EndUnformattedSound == ASSUME IInv, NEW u \in Unit, EndUnformatted(u) PROVE IInv'
<1> DEFINE pos == unit[u].pos
           start == transfer[u].start
           length == pos - start
           trailed == Put(Cells(u), pos, length)
<1>1. u \in DOMAIN transfer /\ transfer[u].mode = "unformatted"
  BY DEF EndUnformatted, Writing, Busy
<1>2. /\ pos \in Nat /\ Cells(u) \in Seq(Nat)
      /\ start \in Nat /\ start <= pos /\ start >= 1
  BY <1>1, TransferFacts, UnitFacts
<1>3. /\ UNCHANGED direct /\ (NoFault \/ Fault)
      /\ \/ Finish(u, pos + 1, Put(trailed, start - 1, length))
         \/ Finish(u, pos, Cells(u))
         \/ Finish(u, start - 1, trailed)
  BY DEF EndUnformatted, Recorded, Unrecorded
<1> HIDE DEF pos, start
<1>4. length \in Nat /\ start - 1 \in Nat /\ pos + 1 \in Nat
  BY <1>2
<1> HIDE DEF length
<1>5. trailed \in Seq(Nat)
  BY <1>2, <1>4, PutFacts
<1> HIDE DEF trailed
<1>6. Put(trailed, start - 1, length) \in Seq(Nat)
  BY <1>4, <1>5, PutFacts
<1>7. faults' \in Nat /\ faults' >= faults
  BY <1>3, FaultFacts
<1>8. transfer[u].mode # "direct" /\ u \notin DOMAIN buffer
  BY <1>1, TransferFacts
<1> QED BY <1>1, <1>2, <1>3, <1>4, <1>5, <1>6, <1>7, <1>8, SequentialFinishSound

(***************************************************************************)
(* Filling the rest of a direct record, f2c_transfer_fill, up to cell n of *)
(* the file changes no cell outside of the record.                         *)
(***************************************************************************)
LEMMA FilledFacts ==
  ASSUME NEW cells \in Seq(Nat), NEW pos \in Nat, NEW n \in Nat, pos <= n,
         NEW filled, filled = Fill(cells, pos, n)
  PROVE  /\ filled \in Seq(Nat) /\ Len(filled) \in Nat /\ Len(filled) >= Len(cells)
         /\ Len(filled) >= n \/ (n = pos /\ Len(filled) = Len(cells))
         /\ \A i \in 1 .. Len(cells) : i <= pos \/ i > n => filled[i] = cells[i]
         /\ \A i \in 1 .. Len(filled) : i > pos /\ i <= n => filled[i] = 0
<1> DEFINE size == IF n > pos /\ n > Len(cells) THEN n ELSE Len(cells)
           e(i) == IF i <= Len(cells) /\ (i <= pos \/ i > n) THEN cells[i] ELSE 0
           new == [i \in 1 .. size |-> e(i)]
<1>1. Len(cells) \in Nat /\ \A i \in 1 .. Len(cells) : cells[i] \in Nat
  BY LenProperties, ElementOfSeq
<1>2. /\ size \in Nat /\ size >= Len(cells)
      /\ size >= n \/ (n = pos /\ size = Len(cells))
  BY <1>1
<1>3. \A i \in 1 .. size : e(i) \in Nat
  BY <1>1, <1>2
<1>4. new \in Seq(Nat) /\ Len(new) = size
  <2> HIDE DEF size, e
  <2>1. new \in [1 .. size -> Nat] /\ DOMAIN new = 1 .. size
    BY <1>3
  <2> QED BY <1>2, <2>1
<1>5. \A i \in 1 .. Len(cells) : i <= pos \/ i > n => new[i] = cells[i]
  <2> TAKE i \in 1 .. Len(cells)
  <2>1. i \in 1 .. size
    BY <1>1, <1>2
  <2>2. new[i] = e(i)
    <3> HIDE DEF size, e
    <3> QED BY <2>1
  <2> HIDE DEF size, new
  <2> QED BY <2>2
<1>6. \A i \in 1 .. size : i > pos /\ i <= n => new[i] = 0
  <2> TAKE i \in 1 .. size
  <2>1. new[i] = e(i)
    <3> HIDE DEF size, e
    <3> QED OBVIOUS
  <2>2. i \in Nat
    BY <1>2
  <2>3. i > pos /\ i <= n => e(i) = 0
    BY <2>2
  <2> HIDE DEF e, new
  <2> QED BY <2>1, <2>3
<1> QED
  <2>1. /\ new \in Seq(Nat) /\ Len(new) \in Nat /\ Len(new) >= Len(cells)
        /\ Len(new) >= n \/ (n = pos /\ Len(new) = Len(cells))
        /\ \A i \in 1 .. Len(cells) : i <= pos \/ i > n => new[i] = cells[i]
        /\ \A i \in 1 .. Len(new) : i > pos /\ i <= n => new[i] = 0
    <3> HIDE DEF size, new
    <3> QED BY <1>2, <1>4, <1>5, <1>6
  <2>2. filled = new
    BY DEF Fill
  <2> HIDE DEF new
  <2> QED BY <2>1, <2>2

LEMMA EndDirectSound == ASSUME IInv, NEW u \in Unit, EndDirect(u) PROVE IInv'
<1>1. u \in DOMAIN transfer /\ transfer[u].mode = "direct"
  BY DEF EndDirect, Writing, Busy
<1>2. PICK f : f = FileOf(u)
  OBVIOUS
<1>3. PICK record : record = transfer[u].record
  OBVIOUS
<1>4. PICK start : start = transfer[u].start
  OBVIOUS
<1>5. PICK pos : pos = unit[u].pos
  OBVIOUS
<1>6. PICK cells : cells = Cells(u)
  OBVIOUS
<1>7. PICK known : known = direct[f]
  OBVIOUS
<1>8. /\ f \in File /\ DOMAIN direct = File /\ pos \in Nat
      /\ cells \in Seq(Nat) /\ Len(cells) \in Nat /\ DirectIn(cells, known)
      /\ start \in Nat /\ start <= pos /\ record \in Nat \ {0} /\ start = Offset(record)
      /\ pos <= start + Recl /\ (pos > start => pos <= Len(cells))
      /\ record \notin DOMAIN known
      /\ \A i \in 1 .. Len(cells) : cells[i] \in Nat
  BY <1>1, <1>2, <1>3, <1>4, <1>5, <1>6, <1>7, TransferFacts, UnitFacts DEF IInv
<1>9. Recl \in Nat /\ start + Recl \in Nat /\ u \notin DOMAIN buffer
  BY <1>1, <1>8, TransferFacts, BoundsAssumption
<1>10. ASSUME NEW n \in pos .. start + Recl
       PROVE  Fill(cells, pos, n) \in Seq(Nat) /\ DirectIn(Fill(cells, pos, n), known)
  <2>1. n \in Nat /\ pos <= n /\ n <= start + Recl
    BY <1>8, <1>9
  <2>2. PICK filled : filled = Fill(cells, pos, n)
    OBVIOUS
  <2>3. /\ filled \in Seq(Nat) /\ Len(cells) <= Len(filled)
        /\ \A i \in 1 .. Len(cells) : i <= pos \/ i > n => filled[i] = cells[i]
    <3>1. pos \in Nat /\ cells \in Seq(Nat) /\ Len(cells) \in Nat
      BY <1>8
    <3> QED BY <2>1, <2>2, <3>1, FilledFacts
  <2>4. ASSUME NEW r \in DOMAIN known, NEW i \in 1 .. Recl
        PROVE  filled[Offset(r) + i] = cells[Offset(r) + i]
    <3>1. r \in Nat \ {0} /\ Offset(r) + Recl <= Len(cells) /\ r # record
      BY <1>8 DEF DirectIn
    <3>2. /\ Offset(r) \in Nat
          /\ Offset(r) + Recl <= start \/ start + Recl <= Offset(r)
      BY <1>8, <3>1, RecordsApart
    <3>3. /\ Offset(r) + i \in 1 .. Len(cells)
          /\ Offset(r) + i <= pos \/ Offset(r) + i > n
      <4>1. /\ Offset(r) \in Nat /\ Len(cells) \in Nat /\ start \in Nat /\ Recl \in Nat
            /\ n \in Nat /\ n <= start + Recl /\ start <= pos /\ pos \in Nat
            /\ Offset(r) + Recl <= Len(cells)
        BY <1>8, <1>9, <2>1, <3>1, <3>2
      <4>2. Offset(r) + i \in 1 .. Len(cells)
        BY <4>1
      <4>3. CASE Offset(r) + Recl <= start
        BY <4>1, <4>2, <4>3
      <4>4. CASE start + Recl <= Offset(r)
        BY <4>1, <4>2, <4>4
      <4> QED BY <3>2, <4>3, <4>4
    <3> QED BY <2>3, <3>3
  <2>5. DirectIn(filled, known)
    BY <1>8, <2>3, <2>4, DirectKeptIf
  <2> QED BY <2>2, <2>3, <2>5
<1>11. CASE /\ NoFault /\ Finish(u, start + Recl, Fill(cells, pos, start + Recl))
            /\ direct' = [direct EXCEPT ![f] = With(@, record, Padded(cells, start, pos))]
  <2>1. PICK filled : filled = Fill(cells, pos, start + Recl)
    OBVIOUS
  <2>2. PICK payload : payload = Padded(cells, start, pos)
    OBVIOUS
  <2>3. PICK all : all = With(known, record, payload)
    OBVIOUS
  <2>4. /\ filled \in Seq(Nat) /\ Len(filled) \in Nat /\ Len(filled) >= Len(cells)
        /\ Len(filled) >= start + Recl \/ (start + Recl = pos /\ Len(filled) = Len(cells))
        /\ \A i \in 1 .. Len(cells) : i <= pos \/ i > start + Recl => filled[i] = cells[i]
        /\ \A i \in 1 .. Len(filled) : i > pos /\ i <= start + Recl => filled[i] = 0
    <3>1. pos \in Nat /\ cells \in Seq(Nat) /\ start + Recl \in Nat /\ pos <= start + Recl
      BY <1>8, <1>9
    <3> QED BY <2>1, <3>1, FilledFacts
  <2>5. start + Recl <= Len(filled)
    <3>1. Recl > 0
      BY BoundsAssumption
    <3> QED BY <1>8, <1>9, <2>4, <3>1
  <2>6. \A i \in 1 .. Recl : filled[start + i] = payload[i] /\ payload[i] \in Nat
    <3> TAKE i \in 1 .. Recl
    <3>1. payload[i] = IF start + i <= pos THEN cells[start + i] ELSE 0
      BY <2>2 DEF Padded
    <3>2. CASE start + i <= pos
      <4>1. start + i \in 1 .. Len(cells)
        BY <1>8, <1>9, <3>2
      <4>2. filled[start + i] = cells[start + i] /\ cells[start + i] \in Nat
        BY <1>8, <2>4, <3>2, <4>1
      <4> QED BY <3>1, <3>2, <4>2
    <3>3. CASE ~ (start + i <= pos)
      <4>1. start + i \in 1 .. Len(filled) /\ start + i > pos /\ start + i <= start + Recl
        <5>1. /\ start \in Nat /\ pos \in Nat /\ Recl \in Nat /\ Len(filled) \in Nat
              /\ start + Recl <= Len(filled)
          BY <1>8, <1>9, <2>4, <2>5
        <5> QED BY <3>3, <5>1
      <4>2. filled[start + i] = 0
        BY <2>4, <4>1
      <4> QED BY <3>1, <3>3, <4>2
    <3> QED BY <3>2, <3>3
  <2>7. payload \in Seq(Nat) /\ Len(payload) = Recl
    <3>1. payload \in [1 .. Recl -> Nat] /\ DOMAIN payload = 1 .. Recl
      BY <2>2, <2>6 DEF Padded
    <3> QED BY <1>9, <3>1
  <2>8. SubSeq(filled, start + 1, start + Recl) = payload
    <3>1. PICK sub : sub = SubSeq(filled, start + 1, start + Recl)
      OBVIOUS
    <3>2. \A k \in start + 1 .. start + Recl : filled[k] \in Nat
      <4> TAKE k \in start + 1 .. start + Recl
      <4>1. k \in 1 .. Len(filled)
        BY <1>8, <1>9, <2>4, <2>5
      <4> QED BY <2>4, <4>1, ElementOfSeq
    <3>3. /\ sub \in Seq(Nat)
          /\ Len(sub) = (IF start + 1 <= start + Recl THEN (start + Recl) - (start + 1) + 1 ELSE 0)
          /\ \A i \in 1 .. (start + Recl) - (start + 1) + 1 : sub[i] = filled[(start + 1) + i - 1]
      <4>1. start + 1 \in Int /\ start + Recl \in Int
        BY <1>8, <1>9
      <4> QED BY <3>1, <3>2, <4>1, SubSeqProperties
    <3>4. Len(sub) = Recl /\ \A i \in 1 .. Recl : sub[i] = filled[start + i]
      <4>1. start + 1 <= start + Recl /\ (start + Recl) - (start + 1) + 1 = Recl
        BY <1>8, <1>9, BoundsAssumption
      <4>2. \A i \in 1 .. Recl : (start + 1) + i - 1 = start + i
        BY <1>8
      <4> QED BY <3>3, <4>1, <4>2
    <3>5. \A i \in 1 .. Len(sub) : sub[i] = payload[i]
      BY <3>4, <2>6
    <3> QED BY <3>1, <3>3, <3>4, <3>5, <2>7, SeqEqual
  <2>9. DirectIn(filled, known)
    <3>1. start + Recl \in pos .. start + Recl
      BY <1>8, <1>9
    <3> QED BY <1>10, <2>1, <3>1
  <2>10. /\ DOMAIN all = DOMAIN known \union {record} /\ all[record] = payload
         /\ \A r \in DOMAIN known : r # record => all[r] = known[r]
    BY <2>3 DEF With
  <2>11. DirectIn(filled, all)
    <3> SUFFICES ASSUME NEW r \in DOMAIN all
                 PROVE  /\ r \in Nat \ {0} /\ Offset(r) + Recl <= Len(filled)
                        /\ SubSeq(filled, Offset(r) + 1, Offset(r) + Recl) = all[r]
      BY DEF DirectIn
    <3>1. CASE r = record
      BY <1>8, <2>5, <2>8, <2>10, <3>1
    <3>2. CASE r # record
      BY <2>9, <2>10, <3>2 DEF DirectIn
    <3> QED BY <3>1, <3>2
  <2>12. /\ direct'[f] = all /\ DOMAIN direct' = File
         /\ \A g \in File : g # f => direct'[g] = direct[g]
    BY <1>7, <1>8, <1>11, <2>2, <2>3
  <2>13. faults' \in Nat /\ faults' >= faults
    BY <1>11, FaultFacts
  <2> QED BY <1>1, <1>2, <1>9, <1>11, <2>1, <2>4, <2>11, <2>12, <2>13, FinishSound
<1>12. CASE /\ UNCHANGED direct /\ (NoFault \/ Fault)
            /\ \E n \in pos .. start + Recl : Finish(u, start + Recl, Fill(cells, pos, n))
  <2>1. PICK n \in pos .. start + Recl : Finish(u, start + Recl, Fill(cells, pos, n))
    BY <1>12
  <2>2. PICK filled : filled = Fill(cells, pos, n)
    OBVIOUS
  <2>3. filled \in Seq(Nat) /\ DirectIn(filled, known) /\ Finish(u, start + Recl, filled)
    BY <1>10, <2>1, <2>2
  <2>4. /\ direct'[f] = known /\ DOMAIN direct' = File
        /\ \A g \in File : g # f => direct'[g] = direct[g]
    BY <1>7, <1>8, <1>12
  <2>5. faults' \in Nat /\ faults' >= faults
    BY <1>12, FaultFacts
  <2> QED BY <1>1, <1>2, <1>9, <2>3, <2>4, <2>5, FinishSound
<1> QED BY <1>2, <1>3, <1>4, <1>5, <1>6, <1>11, <1>12 DEF EndDirect

-----------------------------------------------------------------------------
(* The invariant.                                                          *)

LEMMA InitHolds == Init => IInv
<1> SUFFICES ASSUME Init PROVE IInv
  OBVIOUS
<1>1. /\ DOMAIN disk = {} /\ DOMAIN unit = {} /\ DOMAIN transfer = {} /\ DOMAIN buffer = {}
      /\ faults = 0
  BY DEF Init
<1>2. DOMAIN direct = File
  BY DEF Init
<1> QED BY <1>1, <1>2 DEF IInv

\* A unit with a WRITE in progress is in no other statement.
LEMMA Idle ==
  ASSUME IInv, NEW u \in Unit, Control(u) \/ Read(u)
  PROVE  u \notin DOMAIN transfer
<1>1. u \notin DOMAIN unit => u \notin DOMAIN transfer
  BY DEF IInv, TransferSound, Connected
<1>2. CASE Control(u)
  BY <1>1, <1>2 DEF Control, Open, OpenScratch, Close, OpenImplicitly, ImplicitOpen, Rewind,
    Backspace, BackspaceFails, BackspaceReady, Inquire, Endfile, EndfileAbandoned,
    EndfileDetached, EndfileLoses, EndfileReady, Connected, Busy
<1>3. CASE Read(u)
  BY <1>1, <1>3 DEF Read, ReadFormatted, ReadFormattedFails, ReadImplicitly, ReadUnformatted,
    ReadDirect, Ready, ImplicitOpen, Connected, Busy
<1> QED BY <1>2, <1>3

LEMMA StepHolds == IInv /\ [Next]_vars => IInv'
<1> SUFFICES ASSUME IInv, [Next]_vars PROVE IInv'
  OBVIOUS
<1>1. CASE UNCHANGED vars
  <2>1. UNCHANGED << disk, unit, transfer, buffer, faults, direct >>
    BY <1>1 DEF vars, history
  <2>2. \A f \in DOMAIN disk : FileSound(f)'
    BY <2>1 DEF IInv, FileSound, DirectIn, Offset
  <2>3. \A u \in DOMAIN unit : EntrySound(u)' /\ Unshared(u, FileOf(u))'
    BY <2>1 DEF IInv, EntrySound, Unshared, FileOf
  <2>4. \A u \in DOMAIN transfer : TransferSound(u)'
    BY <2>1 DEF IInv, TransferSound, Connected, FileOf, Cells
  <2>5. \A u \in DOMAIN buffer : BufferSound(u)'
    BY <2>1 DEF IInv, BufferSound, Connected, FileOf, Cells
  <2> QED BY <2>1, <2>2, <2>3, <2>4, <2>5 DEF IInv
<1>2. CASE Next
  <2>1. PICK u \in Unit : Control(u) \/ Read(u) \/ Write(u)
    BY <1>2 DEF Next
  <2>5. CASE FlushFails(u) /\ u \notin DOMAIN transfer
    BY <2>5, FlushSound
  <2>2. CASE Control(u) /\ ~ FlushFails(u)
    <3>1. CASE Settles(u) \/ Severs(u)
      BY <3>1, ReconnectSound, SeversSound
    <3>2. CASE ~ (Settles(u) \/ Severs(u))
      BY <2>2, <3>2, ControlSettles, RewindSound, BackspaceSound, AstraySound, EndfileSound
         DEF Control
    <3> QED BY <3>1, <3>2
  <2>3. CASE Read(u) /\ ~ FlushFails(u)
    BY <2>3, ReadSound, ReadImplicitlySound
  <2>4. CASE Write(u)
    BY <2>4, BeginFormattedSound, BeginImplicitlySound, BeginUnformattedSound, BeginDirectSound,
       WriteItemSound, OutputLostSound, EndFormattedSound, EndUnformattedSound, EndDirectSound
       DEF Write
  <2>6. FlushFails(u) /\ (Control(u) \/ Read(u)) => u \notin DOMAIN transfer
    BY <2>1, Idle
  <2> QED BY <2>1, <2>2, <2>3, <2>4, <2>5, <2>6
<1> QED BY <1>1, <1>2

-----------------------------------------------------------------------------
(***************************************************************************)
(* The unit table stays sound, whatever fails.                             *)
(***************************************************************************)
THEOREM TypeCorrect == Spec => []TypeOK
<1>1. Spec => []IInv
  BY InitHolds, StepHolds, PTL DEF Spec
<1>2. IInv => TypeOK
  <2> SUFFICES ASSUME IInv PROVE TypeOK
    OBVIOUS
  <2>1. \A f \in DOMAIN disk : f \in File /\ disk[f] \in Seq(Nat)
    BY DEF IInv, FileSound
  <2>2. ASSUME NEW u \in DOMAIN unit
        PROVE  /\ u \in Unit /\ FileOf(u) \in DOMAIN disk /\ Unshared(u, FileOf(u))
               /\ unit[u].pos \in Nat
               /\ unit[u].stream = "open" => unit[u].handle = "open"
               /\ unit[u].stream = "closed" =>
                    FileOf(u) \in Name /\ unit[u].access = "sequential" /\ faults > 0
    BY UnitFacts DEF IInv, EntrySound
  <2>3. ASSUME NEW u \in DOMAIN transfer
        PROVE  /\ Connected(u) /\ unit[u].action # "read"
               /\ transfer[u].start <= unit[u].pos
    BY TransferFacts DEF Connected
  <2>4. DOMAIN buffer \subseteq DOMAIN unit
    BY DEF IInv, BufferSound, Connected
  <2> QED BY <2>1, <2>2, <2>3, <2>4 DEF TypeOK
<1> QED BY <1>1, <1>2, PTL

(***************************************************************************)
(* What was last written to a direct record, padded to RECL, is where REC= *)
(* finds it, whatever is written to other records in any order.            *)
(***************************************************************************)
THEOREM DirectKept == Spec => []DirectRecordsKept
<1>1. Spec => []IInv
  BY InitHolds, StepHolds, PTL DEF Spec
<1>2. IInv => DirectRecordsKept
  BY DEF IInv, FileSound, DirectIn, DirectRecordsKept
<1> QED BY <1>1, <1>2, PTL
-----------------------------------------------------------------------------
(* Records in the cells of a file.                                         *)

Logs == Seq(Seq(Nat))

\* Where the records of a log end in a file with nothing before them.
EndsOf(f, log) ==
  LET end[k \in 0 .. Len(log)] ==
        IF k = 0 THEN 0 ELSE end[k - 1] + Size(f, log[k])
  IN end
LogEnd(f, log) == EndsOf(f, log)[Len(log)]

\* The records of a log that end at or before a position.
KeptOf(f, log, pos) ==
  Upto(log, Cardinality({k \in 1 .. Len(log) : EndsOf(f, log)[k] <= pos}))

\* Record number k of the log is in the cells behind position pos.
Holds(f, record, cells, pos) ==
  /\ pos + Size(f, record) <= Len(cells)
  /\ \A i \in 1 .. Size(f, record) : cells[pos + i] = Encoded(f, record)[i]

\* The records of the log are in the cells, one behind the other.
LaidOut(f, log, cells) ==
  \A k \in 1 .. Len(log) : Holds(f, log[k], cells, EndsOf(f, log)[k - 1])

(***************************************************************************)
(* A record takes its size of a file, and at least one cell.               *)
(***************************************************************************)
LEMMA EncodedFacts ==
  ASSUME NEW f, NEW record \in Seq(Nat)
  PROVE  /\ Size(f, record) \in Nat \ {0} /\ Encoded(f, record) \in Seq(Nat)
         /\ Len(Encoded(f, record)) = Size(f, record)
         /\ FormOf[f] = "formatted" =>
              /\ Size(f, record) = Len(record) + 1
              /\ \A i \in 1 .. Len(record) : Encoded(f, record)[i] = record[i]
              /\ Encoded(f, record)[Len(record) + 1] = Newline
         /\ FormOf[f] # "formatted" =>
              /\ Size(f, record) = Len(record) + 2
              /\ Encoded(f, record)[1] = Len(record)
              /\ \A i \in 1 .. Len(record) : Encoded(f, record)[i + 1] = record[i]
              /\ Encoded(f, record)[Len(record) + 2] = Len(record)
<1>1. PICK n \in Nat : n = Len(record)
  BY LenProperties
<1>2. \A i \in 1 .. n : record[i] \in Nat
  BY <1>1, ElementOfSeq
<1>3. CASE FormOf[f] = "formatted"
  <2>1. Encoded(f, record) = Append(record, 0) /\ Size(f, record) = n + 1
    BY <1>1, <1>3 DEF Encoded, Size, Newline
  <2>2. /\ Append(record, 0) \in Seq(Nat) /\ Len(Append(record, 0)) = n + 1
        /\ \A i \in 1 .. n : Append(record, 0)[i] = record[i]
        /\ Append(record, 0)[n + 1] = 0
    BY <1>1, AppendProperties
  <2> QED BY <1>1, <1>3, <2>1, <2>2 DEF Newline
<1>4. CASE FormOf[f] # "formatted"
  <2> DEFINE a == << n >> \o record
             e == a \o << n >>
  <2>1. Encoded(f, record) = e /\ Size(f, record) = n + 2
    BY <1>1, <1>4 DEF Encoded, Size
  <2>2. /\ a \in Seq(Nat) /\ Len(a) = n + 1 /\ a[1] = n
        /\ \A i \in 1 .. n : a[i + 1] = record[i]
    <3>1. << n >> \in Seq(Nat) /\ Len(<< n >>) = 1 /\ << n >>[1] = n
      OBVIOUS
    <3>2. /\ a \in Seq(Nat) /\ Len(a) = 1 + n
          /\ \A i \in 1 .. 1 + n : a[i] = IF i <= 1 THEN << n >>[i] ELSE record[i - 1]
      BY <1>1, <3>1, ConcatProperties
    <3> HIDE DEF a
    <3>3. a[1] = n
      BY <3>1, <3>2
    <3>4. ASSUME NEW i \in 1 .. n PROVE a[i + 1] = record[i]
      <4>1. i + 1 \in 1 .. 1 + n /\ ~ (i + 1 <= 1) /\ (i + 1) - 1 = i
        OBVIOUS
      <4> QED BY <3>2, <4>1
    <3> QED BY <3>2, <3>3, <3>4
  <2> HIDE DEF a
  <2>3. /\ e \in Seq(Nat) /\ Len(e) = n + 2 /\ e[n + 2] = n
        /\ \A i \in 1 .. n + 1 : e[i] = a[i]
    <3>1. << n >> \in Seq(Nat) /\ Len(<< n >>) = 1 /\ << n >>[1] = n
      OBVIOUS
    <3>2. /\ e \in Seq(Nat) /\ Len(e) = (n + 1) + 1
          /\ \A i \in 1 .. (n + 1) + 1 : e[i] = IF i <= n + 1 THEN a[i] ELSE << n >>[i - (n + 1)]
      BY <2>2, <3>1, ConcatProperties
    <3> HIDE DEF e
    <3>3. e[n + 2] = << n >>[1]
      <4>1. n + 2 \in 1 .. (n + 1) + 1 /\ ~ (n + 2 <= n + 1) /\ (n + 2) - (n + 1) = 1
        OBVIOUS
      <4> QED BY <3>2, <4>1
    <3> QED BY <3>1, <3>2, <3>3
  <2> HIDE DEF e
  <2>4. \A i \in 1 .. n : e[i + 1] = record[i]
    <3> TAKE i \in 1 .. n
    <3>1. i + 1 \in 1 .. n + 1
      OBVIOUS
    <3> QED BY <2>2, <2>3, <3>1
  <2>5. e[1] = n
    BY <2>2, <2>3
  <2> QED BY <1>1, <1>4, <2>1, <2>3, <2>4, <2>5
<1> QED BY <1>3, <1>4

(***************************************************************************)
(* The positions the records of a log end at.                              *)
(***************************************************************************)
LEMMA EndsFacts ==
  ASSUME NEW f, NEW log \in Logs
  PROVE  /\ Len(log) \in Nat /\ \A k \in 1 .. Len(log) : log[k] \in Seq(Nat)
         /\ EndsOf(f, log) \in [0 .. Len(log) -> Nat]
         /\ EndsOf(f, log)[0] = 0
         /\ \A k \in 1 .. Len(log) :
              /\ k - 1 \in 0 .. Len(log)
              /\ EndsOf(f, log)[k] = EndsOf(f, log)[k - 1] + Size(f, log[k])
<1>1. PICK n \in Nat : n = Len(log)
  BY LenProperties DEF Logs
<1>2. \A k \in 1 .. n : log[k] \in Seq(Nat)
  BY <1>1, ElementOfSeq DEF Logs
<1> DEFINE step == [p \in Nat \X (1 .. n) |-> p[1] + Size(f, log[p[2]])]
           Is(h) == h = [k \in 0 .. n |-> IF k = 0 THEN 0 ELSE h[k - 1] + Size(f, log[k])]
           e == CHOOSE h : Is(h)
<1>3. \A k \in 1 .. n : Size(f, log[k]) \in Nat
  BY <1>2, EncodedFacts
<1>4. Is(e)
  <2>1. step \in [Nat \X (1 .. n) -> Nat]
    <3>1. \A p \in Nat \X (1 .. n) : p[1] + Size(f, log[p[2]]) \in Nat
      BY <1>3
    <3> QED BY <3>1
  <2>2. \A v \in Nat, k \in 1 .. n : step[<< v, k >>] = v + Size(f, log[k])
    OBVIOUS
  <2> HIDE DEF step
  <2>3. PICK h \in [0 .. n -> Nat] : Iterates(h, 0, n, step)
    BY <2>1, RecursionExists
  <2>4. \A k \in 1 .. n : h[k] = h[k - 1] + Size(f, log[k])
    <3> TAKE k \in 1 .. n
    <3>1. k - 1 \in 0 .. n
      OBVIOUS
    <3> QED BY <2>2, <2>3, <3>1 DEF Iterates
  <2>5. \A k \in 0 .. n : h[k] = IF k = 0 THEN 0 ELSE h[k - 1] + Size(f, log[k])
    BY <2>3, <2>4 DEF Iterates
  <2>6. Is(h)
    BY <2>3, <2>5
  <2> HIDE DEF Is
  <2> QED BY <2>6
<1>5. EndsOf(f, log) = e
  BY <1>1 DEF EndsOf
<1>6. \A k \in 0 .. n : e[k] = IF k = 0 THEN 0 ELSE e[k - 1] + Size(f, log[k])
  BY <1>4
<1>7. DOMAIN e = 0 .. n /\ e = [k \in 0 .. n |-> e[k]]
  BY <1>4
<1> HIDE DEF e
<1> DEFINE T == {k \in 0 .. n : e[k] \in Nat}
<1>8. 0 \in T
  BY <1>6
<1>9. ASSUME NEW k \in 0 .. n - 1, k \in T PROVE k + 1 \in T
  <2>1. k + 1 \in 1 .. n /\ k + 1 \in 0 .. n /\ k + 1 # 0 /\ (k + 1) - 1 = k
    OBVIOUS
  <2>2. e[k + 1] = e[k] + Size(f, log[k + 1])
    BY <1>6, <2>1
  <2>3. Size(f, log[k + 1]) \in Nat /\ e[k] \in Nat
    BY <1>3, <1>9, <2>1
  <2> QED BY <2>1, <2>2, <2>3
<1>10. \A k \in 0 .. n : e[k] \in Nat
  <2> HIDE DEF T
  <2>1. 0 .. n \subseteq T
    BY <1>8, <1>9, BoundedInduction
  <2> QED BY <2>1 DEF T
<1>11. e \in [0 .. n -> Nat]
  BY <1>7, <1>10
<1>12. e[0] = 0 /\ \A k \in 1 .. n : k - 1 \in 0 .. n /\ e[k] = e[k - 1] + Size(f, log[k])
  BY <1>6
<1> QED BY <1>1, <1>2, <1>5, <1>11, <1>12

(***************************************************************************)
(* Every record ends behind those before it.                               *)
(***************************************************************************)
LEMMA EndsGrow ==
  ASSUME NEW f, NEW log \in Logs
  PROVE  \A j, k \in 0 .. Len(log) : j < k => EndsOf(f, log)[j] < EndsOf(f, log)[k]
<1>1. PICK n \in Nat : n = Len(log)
  BY EndsFacts
<1>2. PICK e : e = EndsOf(f, log)
  OBVIOUS
<1>3. /\ e \in [0 .. n -> Nat] /\ \A k \in 1 .. n : log[k] \in Seq(Nat)
      /\ \A k \in 1 .. n : k - 1 \in 0 .. n /\ e[k] = e[k - 1] + Size(f, log[k])
  BY <1>1, <1>2, EndsFacts
<1> DEFINE T == {k \in 0 .. n : \A j \in 0 .. n : j < k => e[j] < e[k]}
<1>4. 0 \in T
  OBVIOUS
<1>5. ASSUME NEW k \in 0 .. n - 1, k \in T PROVE k + 1 \in T
  <2>1. k + 1 \in 1 .. n /\ k + 1 \in 0 .. n /\ (k + 1) - 1 = k /\ k \in 0 .. n
    OBVIOUS
  <2>2. e[k + 1] = e[k] + Size(f, log[k + 1]) /\ Size(f, log[k + 1]) \in Nat \ {0}
    <3>1. log[k + 1] \in Seq(Nat)
      BY <1>3, <2>1
    <3>2. e[k + 1] = e[(k + 1) - 1] + Size(f, log[k + 1])
      BY <1>3, <2>1
    <3>3. Size(f, log[k + 1]) \in Nat \ {0}
      BY <3>1, EncodedFacts
    <3> QED BY <2>1, <3>2, <3>3
  <2>3. ASSUME NEW j \in 0 .. n, j < k + 1 PROVE e[j] < e[k + 1]
    <3>1. e[j] \in Nat /\ e[k] \in Nat /\ e[k + 1] \in Nat
      BY <1>3, <2>1
    <3>2. j = k \/ j < k
      BY <2>3
    <3>3. j < k => e[j] < e[k]
      BY <1>5
    <3> QED BY <2>2, <3>1, <3>2, <3>3
  <2> QED BY <2>1, <2>3
<1>6. 0 .. n \subseteq T
  <2> HIDE DEF T
  <2> QED BY <1>4, <1>5, BoundedInduction
<1> QED BY <1>1, <1>2, <1>6

(***************************************************************************)
(* Where a record ends depends on the records up to it.                    *)
(***************************************************************************)
LEMMA EndsSame ==
  ASSUME NEW f, NEW a \in Logs, NEW b \in Logs, NEW m \in Nat, m <= Len(a), m <= Len(b),
         \A k \in 1 .. m : a[k] = b[k]
  PROVE  \A k \in 0 .. m : EndsOf(f, a)[k] = EndsOf(f, b)[k]
<1>1. PICK p : p = EndsOf(f, a)
  OBVIOUS
<1>2. PICK q : q = EndsOf(f, b)
  OBVIOUS
<1>3. Len(a) \in Nat /\ Len(b) \in Nat /\ p[0] = 0 /\ q[0] = 0
  BY <1>1, <1>2, EndsFacts
<1>4. \A k \in 1 .. m : p[k] = p[k - 1] + Size(f, a[k]) /\ q[k] = q[k - 1] + Size(f, b[k])
  <2> TAKE k \in 1 .. m
  <2>1. k \in 1 .. Len(a) /\ k \in 1 .. Len(b)
    BY <1>3
  <2> QED BY <1>1, <1>2, <2>1, EndsFacts
<1> DEFINE T == {k \in 0 .. m : p[k] = q[k]}
<1>5. 0 \in T
  BY <1>3
<1>6. ASSUME NEW k \in 0 .. m - 1, k \in T PROVE k + 1 \in T
  <2>1. k + 1 \in 1 .. m /\ k + 1 \in 0 .. m /\ (k + 1) - 1 = k
    OBVIOUS
  <2>2. p[k + 1] = p[k] + Size(f, a[k + 1]) /\ q[k + 1] = q[k] + Size(f, b[k + 1])
    BY <1>4, <2>1
  <2> QED BY <1>6, <2>1, <2>2
<1>7. 0 .. m \subseteq T
  <2> HIDE DEF T
  <2> QED BY <1>5, <1>6, BoundedInduction
<1> QED BY <1>1, <1>2, <1>7

(***************************************************************************)
(* Every record ends at or before the last.                                *)
(***************************************************************************)
LEMMA LogEndFacts ==
  ASSUME NEW f, NEW log \in Logs
  PROVE  /\ LogEnd(f, log) \in Nat
         /\ Len(log) = 0 => LogEnd(f, log) = 0
         /\ \A k \in 0 .. Len(log) :
              EndsOf(f, log)[k] \in Nat /\ EndsOf(f, log)[k] <= LogEnd(f, log)
<1>1. PICK e : e = EndsOf(f, log)
  OBVIOUS
<1>2. PICK n \in Nat : n = Len(log)
  BY EndsFacts
<1>3. LogEnd(f, log) = e[n] /\ e \in [0 .. n -> Nat] /\ e[0] = 0
  BY <1>1, <1>2, EndsFacts DEF LogEnd
<1>4. n \in 0 .. n
  OBVIOUS
<1>5. ASSUME NEW k \in 0 .. n PROVE e[k] \in Nat /\ e[k] <= e[n]
  <2>1. e[k] \in Nat /\ e[n] \in Nat
    BY <1>3, <1>4
  <2>2. k = n \/ k < n
    OBVIOUS
  <2>3. k < n => e[k] < e[n]
    BY <1>1, <1>2, <1>4, EndsGrow
  <2> QED BY <2>1, <2>2, <2>3
<1> QED BY <1>1, <1>2, <1>3, <1>4, <1>5

\* The first n cells are the same.
Agree(old, new, n) == n <= Len(new) /\ \A i \in 1 .. n : new[i] = old[i]

(***************************************************************************)
(* The cells of record number k are those from its start to its end.       *)
(***************************************************************************)
LEMMA RecordCells ==
  ASSUME NEW f, NEW log \in Logs, NEW k \in 1 .. Len(log)
  PROVE  LET start == EndsOf(f, log)[k - 1]
             end == EndsOf(f, log)[k] IN
         /\ log[k] \in Seq(Nat) /\ Size(f, log[k]) \in Nat \ {0}
         /\ start \in Nat /\ end \in Nat /\ end = start + Size(f, log[k])
         /\ end <= LogEnd(f, log)
<1>1. /\ k - 1 \in 0 .. Len(log) /\ k \in 0 .. Len(log) /\ log[k] \in Seq(Nat)
      /\ EndsOf(f, log)[k] = EndsOf(f, log)[k - 1] + Size(f, log[k])
  BY EndsFacts
<1>2. Size(f, log[k]) \in Nat \ {0}
  BY <1>1, EncodedFacts
<1> QED BY <1>1, <1>2, LogEndFacts

(***************************************************************************)
(* Records laid out in a file end in it, and stay laid out whatever is     *)
(* written behind the last.                                                *)
(***************************************************************************)
LEMMA LaidOutSame ==
  ASSUME NEW f, NEW log \in Logs, NEW old, LaidOut(f, log, old),
         NEW new, Agree(old, new, LogEnd(f, log))
  PROVE  LaidOut(f, log, new)
<1> SUFFICES ASSUME NEW k \in 1 .. Len(log)
             PROVE  Holds(f, log[k], new, EndsOf(f, log)[k - 1])
  BY DEF LaidOut
<1>1. PICK last : last = LogEnd(f, log)
  OBVIOUS
<1>2. PICK start : start = EndsOf(f, log)[k - 1]
  OBVIOUS
<1>3. PICK size : size = Size(f, log[k])
  OBVIOUS
<1>4. start \in Nat /\ size \in Nat /\ start + size <= last
  BY <1>1, <1>2, <1>3, RecordCells
<1>5. last \in Nat /\ last <= Len(new) /\ \A i \in 1 .. last : new[i] = old[i]
  BY <1>1, LogEndFacts DEF Agree
<1>6. Holds(f, log[k], old, start)
  BY <1>2 DEF LaidOut
<1>7. \A i \in 1 .. size : new[start + i] = Encoded(f, log[k])[i]
  <2> TAKE i \in 1 .. size
  <2>1. start + i \in 1 .. last
    BY <1>4, <1>5
  <2> QED BY <1>3, <1>5, <1>6, <2>1 DEF Holds
<1>8. start + size <= Len(new)
  <2>1. Len(new) \in Int \/ Len(new) \notin Int
    OBVIOUS
  <2> QED BY <1>4, <1>5
<1> QED BY <1>2, <1>3, <1>7, <1>8 DEF Holds

LEMMA LaidOutEnds ==
  ASSUME NEW f, NEW log \in Logs, NEW cells \in Seq(Nat), LaidOut(f, log, cells)
  PROVE  LogEnd(f, log) <= Len(cells)
<1>1. PICK n \in Nat : n = Len(log)
  BY EndsFacts
<1>2. CASE n = 0
  <2>1. LogEnd(f, log) = 0 /\ Len(cells) \in Nat
    BY <1>1, <1>2, LogEndFacts, LenProperties
  <2> QED BY <2>1
<1>3. CASE n # 0
  <2>1. n \in 1 .. n
    BY <1>3
  <2>2. Holds(f, log[n], cells, EndsOf(f, log)[n - 1])
    BY <1>1, <2>1 DEF LaidOut
  <2>3. EndsOf(f, log)[n] = EndsOf(f, log)[n - 1] + Size(f, log[n])
    BY <1>1, <2>1, RecordCells
  <2> QED BY <1>1, <2>2, <2>3 DEF Holds, LogEnd
<1> QED BY <1>2, <1>3

\* The records of the log up to number m are kept: those that end at or
\* before a position.
KeptAt(f, log, kept, m, pos) ==
  LET ends == EndsOf(f, log) IN
  /\ m \in 0 .. Len(log) /\ kept \in Logs /\ Len(kept) = m
  /\ \A k \in 1 .. m : kept[k] = log[k]
  /\ ends[m] <= pos /\ LogEnd(f, kept) = ends[m]
  /\ \A k \in 0 .. m : EndsOf(f, kept)[k] = ends[k]
  /\ \A k \in m + 1 .. Len(log) : ends[k] > pos

LEMMA KeptFacts ==
  ASSUME NEW f, NEW log \in Logs, NEW pos \in Nat
  PROVE  \E m \in 0 .. Len(log) :
           KeptAt(f, log, KeptOf(f, log, pos), m, pos) /\ KeptOf(f, log, pos) = Upto(log, m)
<1>1. PICK n \in Nat : n = Len(log)
  BY EndsFacts
<1>2. PICK e : e = EndsOf(f, log)
  OBVIOUS
<1>3. e \in [0 .. n -> Nat] /\ e[0] = 0 /\ \A k \in 1 .. n : log[k] \in Seq(Nat)
  BY <1>1, <1>2, EndsFacts
<1> DEFINE S == {k \in 0 .. n : e[k] <= pos}
<1>4. PICK m \in S : \A k \in S : k <= m
  <2>1. 0 \in S
    BY <1>3
  <2>2. S \in SUBSET Nat /\ S # {} /\ \A k \in S : k <= n
    BY <2>1
  <2> HIDE DEF S
  <2> QED BY <2>2, MaxFacts
<1>5. m \in 0 .. n /\ m \in Nat /\ e[m] <= pos
  BY <1>4
<1>6. \A k \in 0 .. m : e[k] <= pos
  <2> TAKE k \in 0 .. m
  <2>1. k \in 0 .. n /\ (k = m \/ k < m)
    BY <1>5
  <2>2. k < m => e[k] < e[m]
    BY <1>1, <1>2, <1>5, <2>1, EndsGrow
  <2>3. e[k] \in Nat /\ e[m] \in Nat
    BY <1>3, <1>5, <2>1
  <2> QED BY <1>5, <2>1, <2>2, <2>3
<1>7. \A k \in m + 1 .. n : e[k] > pos
  <2> SUFFICES ASSUME NEW k \in m + 1 .. n PROVE e[k] > pos
    OBVIOUS
  <2>1. k \in 0 .. n /\ ~ (k <= m)
    BY <1>5
  <2>2. k \notin S
    <3> HIDE DEF S
    <3> QED BY <1>4, <2>1
  <2>3. e[k] \in Nat
    BY <1>3, <2>1
  <2> QED BY <2>1, <2>2, <2>3
<1>8. {k \in 1 .. n : e[k] <= pos} = 1 .. m
  <2>1. ASSUME NEW k \in 1 .. n, e[k] <= pos PROVE k \in 1 .. m
    <3>1. k \in S
      BY <2>1
    <3> HIDE DEF S
    <3> QED BY <1>4, <1>5, <3>1
  <2>2. ASSUME NEW k \in 1 .. m PROVE k \in 1 .. n /\ e[k] <= pos
    BY <1>5, <1>6
  <2> QED BY <2>1, <2>2
<1>9. Cardinality(1 .. m) = m
  <2>1. Cardinality(1 .. m) = IF 1 > m THEN 0 ELSE m - 1 + 1
    BY <1>5, FS_Interval
  <2> QED BY <1>5, <2>1
<1>10. PICK kept : kept = Upto(log, m)
  OBVIOUS
<1>11. KeptOf(f, log, pos) = kept
  BY <1>1, <1>2, <1>8, <1>9, <1>10 DEF KeptOf
<1>12. kept \in Logs /\ Len(kept) = m /\ \A k \in 1 .. m : kept[k] = log[k]
  <2>1. \A k \in 1 .. m : log[k] \in Seq(Nat)
    BY <1>3, <1>5
  <2>2. /\ kept \in Seq(Seq(Nat)) /\ Len(kept) = IF 1 <= m THEN m - 1 + 1 ELSE 0
        /\ \A k \in 1 .. m - 1 + 1 : kept[k] = log[1 + k - 1]
    BY <1>5, <1>10, <2>1, SubSeqProperties DEF Upto
  <2>3. Len(kept) = m
    BY <1>5, <2>2
  <2>4. \A k \in 1 .. m : kept[k] = log[k]
    BY <1>5, <2>2
  <2> QED BY <2>2, <2>3, <2>4 DEF Logs
<1>13. \A k \in 0 .. m : EndsOf(f, kept)[k] = e[k]
  <2>1. m <= Len(kept) /\ m <= Len(log)
    BY <1>1, <1>5, <1>12
  <2> QED BY <1>2, <1>5, <1>12, <2>1, EndsSame
<1>14. LogEnd(f, kept) = e[m]
  BY <1>5, <1>12, <1>13 DEF LogEnd
<1>15. KeptAt(f, log, kept, m, pos)
  <2> HIDE DEF S
  <2> QED BY <1>1, <1>2, <1>5, <1>7, <1>12, <1>13, <1>14 DEF KeptAt
<1> QED BY <1>1, <1>5, <1>10, <1>11, <1>15

(***************************************************************************)
(* The first records of a log are laid out in as much of the file as they  *)
(* take.                                                                   *)
(***************************************************************************)
LEMMA KeptLaidOut ==
  ASSUME NEW f, NEW log \in Logs, NEW kept, NEW m, NEW pos, KeptAt(f, log, kept, m, pos),
         NEW old, LaidOut(f, log, old), NEW new, Agree(old, new, LogEnd(f, kept))
  PROVE  LaidOut(f, kept, new)
<1>1. kept \in Logs /\ Len(kept) = m /\ m \in 0 .. Len(log) /\ Len(log) \in Nat
  BY EndsFacts DEF KeptAt
<1>2. LaidOut(f, kept, old)
  <2> SUFFICES ASSUME NEW k \in 1 .. m
               PROVE  Holds(f, kept[k], old, EndsOf(f, kept)[k - 1])
    BY <1>1 DEF LaidOut
  <2>1. k \in 1 .. Len(log) /\ k - 1 \in 0 .. m
    BY <1>1
  <2>2. kept[k] = log[k] /\ EndsOf(f, kept)[k - 1] = EndsOf(f, log)[k - 1]
    BY <2>1 DEF KeptAt
  <2> QED BY <2>1, <2>2 DEF LaidOut
<1> QED BY <1>1, <1>2, LaidOutSame

(***************************************************************************)
(* A change of the log behind a position keeps the same records before it. *)
(***************************************************************************)
LEMMA SameKept ==
  ASSUME NEW f, NEW a \in Logs, NEW b \in Logs, NEW pos \in Nat,
         NEW n \in Nat, n <= Len(a), n <= Len(b), \A k \in 1 .. n : a[k] = b[k],
         \A k \in n + 1 .. Len(a) : EndsOf(f, a)[k] > pos,
         \A k \in n + 1 .. Len(b) : EndsOf(f, b)[k] > pos
  PROVE  KeptOf(f, a, pos) = KeptOf(f, b, pos)
<1>1. PICK p : p = EndsOf(f, a)
  OBVIOUS
<1>2. PICK q : q = EndsOf(f, b)
  OBVIOUS
<1>3. PICK x : x = KeptOf(f, a, pos)
  OBVIOUS
<1>4. PICK y : y = KeptOf(f, b, pos)
  OBVIOUS
<1>5. PICK i \in 0 .. Len(a) : KeptAt(f, a, x, i, pos)
  BY <1>3, KeptFacts
<1>6. PICK j \in 0 .. Len(b) : KeptAt(f, b, y, j, pos)
  BY <1>4, KeptFacts
<1>7. /\ Len(a) \in Nat /\ Len(b) \in Nat /\ p \in [0 .. Len(a) -> Nat] /\ q \in [0 .. Len(b) -> Nat]
      /\ \A k \in 0 .. n : p[k] = q[k]
  BY <1>1, <1>2, EndsFacts, EndsSame
<1>8. /\ x \in Logs /\ Len(x) = i /\ (\A k \in 1 .. i : x[k] = a[k]) /\ p[i] <= pos
      /\ \A k \in i + 1 .. Len(a) : p[k] > pos
  BY <1>1, <1>5 DEF KeptAt
<1>9. /\ y \in Logs /\ Len(y) = j /\ (\A k \in 1 .. j : y[k] = b[k]) /\ q[j] <= pos
      /\ \A k \in j + 1 .. Len(b) : q[k] > pos
  BY <1>2, <1>6 DEF KeptAt
<1>10. i <= n
  <2>1. SUFFICES ASSUME i > n PROVE FALSE
    BY <1>7
  <2>2. p[i] > pos /\ p[i] \in Nat
    BY <1>1, <1>7, <2>1
  <2> QED BY <1>8, <2>2
<1>11. j <= n
  <2>1. SUFFICES ASSUME j > n PROVE FALSE
    BY <1>7
  <2>2. q[j] > pos /\ q[j] \in Nat
    BY <1>2, <1>7, <2>1
  <2> QED BY <1>9, <2>2
<1>12. i = j
  <2>1. p[i] \in Nat /\ p[i] = q[i] /\ p[j] = q[j] /\ q[j] \in Nat
    BY <1>7, <1>10, <1>11
  <2>2. CASE i < j
    <3>1. j \in i + 1 .. Len(a)
      BY <1>7, <1>11, <2>2
    <3> QED BY <1>8, <1>9, <2>1, <3>1
  <2>3. CASE j < i
    <3>1. i \in j + 1 .. Len(b)
      BY <1>7, <1>10, <2>3
    <3> QED BY <1>8, <1>9, <2>1, <3>1
  <2> QED BY <2>2, <2>3
<1>13. \A k \in 1 .. i : x[k] = y[k]
  <2> TAKE k \in 1 .. i
  <2>1. k \in 1 .. n /\ k \in 1 .. j
    BY <1>10, <1>12
  <2> QED BY <1>8, <1>9, <2>1
<1>14. x = y
  BY <1>8, <1>9, <1>12, <1>13, SeqEqual DEF Logs
<1> QED BY <1>3, <1>4, <1>14

(***************************************************************************)
(* A record written behind the last one makes a longer log.                *)
(***************************************************************************)
Appended(log, n, record, more) == n = Len(log) /\ more = Append(log, record)

LEMMA AppendEnds ==
  ASSUME NEW f, NEW log \in Logs, NEW record \in Seq(Nat), NEW n, NEW more,
         Appended(log, n, record, more)
  PROVE  /\ n \in Nat /\ more \in Logs /\ Len(more) = n + 1 /\ more[n + 1] = record
         /\ \A k \in 1 .. n : more[k] = log[k]
         /\ \A k \in 0 .. n : EndsOf(f, more)[k] = EndsOf(f, log)[k]
         /\ EndsOf(f, more)[n] = LogEnd(f, log)
         /\ LogEnd(f, more) = EndsOf(f, more)[n + 1]
         /\ LogEnd(f, more) = LogEnd(f, log) + Size(f, record)
<1>1. n \in Nat /\ n = Len(log)
  BY EndsFacts DEF Appended
<1>3. /\ more \in Logs /\ Len(more) = n + 1 /\ more[n + 1] = record
      /\ \A k \in 1 .. n : more[k] = log[k]
  BY <1>1, AppendProperties DEF Logs, Appended
<1>4. \A k \in 0 .. n : EndsOf(f, more)[k] = EndsOf(f, log)[k]
  <2>1. n <= Len(more) /\ n <= Len(log)
    BY <1>1, <1>3
  <2>2. \A k \in 1 .. n : more[k] = log[k]
    BY <1>3
  <2> QED BY <1>1, <1>3, <2>1, <2>2, EndsSame
<1>5. EndsOf(f, more)[n] = LogEnd(f, log)
  BY <1>1, <1>4 DEF LogEnd
<1>6. LogEnd(f, more) = LogEnd(f, log) + Size(f, record)
  <2>1. n + 1 \in 1 .. Len(more) /\ (n + 1) - 1 = n
    BY <1>1, <1>3
  <2>2. EndsOf(f, more)[n + 1] = EndsOf(f, more)[(n + 1) - 1] + Size(f, more[n + 1])
    BY <1>3, <2>1, EndsFacts
  <2> QED BY <1>3, <1>5, <2>1, <2>2 DEF LogEnd
<1>7. LogEnd(f, more) = EndsOf(f, more)[n + 1]
  BY <1>3 DEF LogEnd
<1> QED BY <1>1, <1>3, <1>4, <1>5, <1>6, <1>7

LEMMA AppendLaidOut ==
  ASSUME NEW f, NEW log \in Logs, NEW record \in Seq(Nat),
         NEW cells, LaidOut(f, log, cells), Holds(f, record, cells, LogEnd(f, log))
  PROVE  /\ Append(log, record) \in Logs /\ LaidOut(f, Append(log, record), cells)
         /\ LogEnd(f, Append(log, record)) = LogEnd(f, log) + Size(f, record)
         /\ \A k \in 0 .. Len(log) : EndsOf(f, Append(log, record))[k] = EndsOf(f, log)[k]
<1>1. PICK n \in Nat : n = Len(log)
  BY EndsFacts
<1>2. PICK more : more = Append(log, record)
  OBVIOUS
<1>3. /\ more \in Logs /\ Len(more) = n + 1 /\ more[n + 1] = record
      /\ \A k \in 1 .. n : more[k] = log[k]
      /\ \A k \in 0 .. n : EndsOf(f, more)[k] = EndsOf(f, log)[k]
      /\ EndsOf(f, more)[n] = LogEnd(f, log)
      /\ LogEnd(f, more) = LogEnd(f, log) + Size(f, record)
  <2>1. Appended(log, n, record, more)
    BY <1>1, <1>2 DEF Appended
  <2> QED BY <2>1, AppendEnds
<1>4. LaidOut(f, more, cells)
  <2> SUFFICES ASSUME NEW k \in 1 .. n + 1
               PROVE  Holds(f, more[k], cells, EndsOf(f, more)[k - 1])
    BY <1>3 DEF LaidOut
  <2>1. CASE k = n + 1
    <3>1. k - 1 = n
      BY <2>1
    <3> QED BY <1>3, <2>1, <3>1
  <2>2. CASE k # n + 1
    <3>1. k \in 1 .. n /\ k - 1 \in 0 .. n
      BY <2>2
    <3>2. Holds(f, log[k], cells, EndsOf(f, log)[k - 1])
      BY <1>1, <3>1 DEF LaidOut
    <3> QED BY <1>3, <3>1, <3>2
  <2> QED BY <2>1, <2>2
<1> QED BY <1>1, <1>2, <1>3, <1>4

(***************************************************************************)
(* The cells of records that are laid out are their bytes.                 *)
(***************************************************************************)
LEMMA BytesFacts ==
  ASSUME NEW f, NEW log \in Logs, NEW cells \in Seq(Nat), LaidOut(f, log, cells)
  PROVE  /\ Bytes(f, log) \in Seq(Nat) /\ Len(Bytes(f, log)) = LogEnd(f, log)
         /\ LogEnd(f, log) <= Len(cells)
         /\ \A i \in 1 .. LogEnd(f, log) : Bytes(f, log)[i] = cells[i]
<1>1. PICK n \in Nat : n = Len(log)
  BY EndsFacts
<1>2. PICK e : e = EndsOf(f, log)
  OBVIOUS
<1>3. PICK seqs : seqs = [i \in 1 .. n |-> Encoded(f, log[i])]
  OBVIOUS
<1>4. \A i \in 1 .. n : /\ seqs[i] = Encoded(f, log[i]) /\ seqs[i] \in Seq(Nat)
                        /\ Len(seqs[i]) = Size(f, log[i]) /\ Size(f, log[i]) \in Nat
  <2> TAKE i \in 1 .. n
  <2>1. log[i] \in Seq(Nat) /\ seqs[i] = Encoded(f, log[i])
    BY <1>1, <1>3, EndsFacts
  <2> QED BY <2>1, EncodedFacts
<1>5. Len(seqs) = n /\ Bytes(f, log) = FlattenSeq(seqs) /\ seqs \in Seq(Seq(Nat))
  <2>1. seqs \in [1 .. n -> Seq(Nat)]
    BY <1>3, <1>4
  <2> QED BY <1>1, <1>3, <2>1 DEF Bytes
<1>6. LogEnd(f, log) <= Len(cells)
  BY LaidOutEnds
<1>7. CASE n = 0
  <2>1. seqs = << >> /\ FlattenSeq(seqs) = seqs
    BY <1>5, <1>7 DEF FlattenSeq
  <2>2. LogEnd(f, log) = 0
    BY <1>1, <1>7, LogEndFacts
  <2>3. Bytes(f, log) = << >>
    BY <1>5, <2>1
  <2>4. << >> \in Seq(Nat) /\ Len(<< >>) = 0
    OBVIOUS
  <2> QED BY <1>6, <2>2, <2>3, <2>4
<1>8. CASE n # 0
  <2> DEFINE Is(g) == g = [i \in 1 .. n |-> IF i = 1 THEN seqs[i] ELSE g[i - 1] \o seqs[i]]
             b == CHOOSE g : Is(g)
             step == [p \in Seq(Nat) \X (1 .. n) |->
                        IF p[2] = 1 THEN seqs[p[2]] ELSE p[1] \o seqs[p[2]]]
  <2>1. Is(b)
    <3>1. step \in [Seq(Nat) \X (1 .. n) -> Seq(Nat)] /\ << >> \in Seq(Nat)
      <4>1. \A p \in Seq(Nat) \X (1 .. n) :
              (IF p[2] = 1 THEN seqs[p[2]] ELSE p[1] \o seqs[p[2]]) \in Seq(Nat)
        BY <1>4, ConcatProperties
      <4> QED BY <4>1
    <3>2. \A v \in Seq(Nat), i \in 1 .. n :
            step[<< v, i >>] = IF i = 1 THEN seqs[i] ELSE v \o seqs[i]
      OBVIOUS
    <3> HIDE DEF step
    <3>3. PICK h \in [0 .. n -> Seq(Nat)] : Iterates(h, << >>, n, step)
      BY <3>1, RecursionExists
    <3> DEFINE g == [i \in 1 .. n |-> h[i]]
    <3>4. \A i \in 1 .. n : g[i] = IF i = 1 THEN seqs[i] ELSE g[i - 1] \o seqs[i]
      <4> TAKE i \in 1 .. n
      <4>1. i - 1 \in 0 .. n /\ (i # 1 => i - 1 \in 1 .. n)
        OBVIOUS
      <4>2. h[i] = step[<< h[i - 1], i >>] /\ h[i - 1] \in Seq(Nat)
        BY <3>3, <4>1 DEF Iterates
      <4>3. h[i] = IF i = 1 THEN seqs[i] ELSE h[i - 1] \o seqs[i]
        BY <3>2, <4>2
      <4> QED BY <4>1, <4>3
    <3>5. g = [i \in 1 .. n |-> g[i]]
      OBVIOUS
    <3> HIDE DEF g
    <3>6. Is(g)
      BY <3>4, <3>5
    <3> HIDE DEF Is
    <3> QED BY <3>6
  <2>2. FlattenSeq(seqs) = b[n]
    BY <1>5, <1>8 DEF FlattenSeq
  <2>3. \A i \in 1 .. n : b[i] = IF i = 1 THEN seqs[i] ELSE b[i - 1] \o seqs[i]
    BY <2>1
  <2> HIDE DEF b
  <2>4. /\ e \in [0 .. n -> Nat] /\ e[0] = 0 /\ e[n] = LogEnd(f, log)
        /\ \A k \in 1 .. n : e[k] = e[k - 1] + Size(f, log[k])
    BY <1>1, <1>2, EndsFacts DEF LogEnd
  <2>5. \A k \in 1 .. n : \A i \in 1 .. Size(f, log[k]) : cells[e[k - 1] + i] = seqs[k][i]
    BY <1>1, <1>2, <1>4 DEF LaidOut, Holds
  <2> DEFINE Good(k) == /\ b[k] \in Seq(Nat) /\ Len(b[k]) = e[k]
                        /\ \A i \in 1 .. e[k] : b[k][i] = cells[i]
             T == {k \in 0 .. n : k = 0 \/ Good(k)}
  <2>6. 0 \in T
    OBVIOUS
  <2>7. ASSUME NEW k \in 0 .. n - 1, k \in T PROVE k + 1 \in T
    <3>1. k + 1 \in 1 .. n /\ k + 1 \in 0 .. n /\ (k + 1) - 1 = k /\ k \in 0 .. n
      OBVIOUS
    <3>2. PICK s : s = seqs[k + 1]
      OBVIOUS
    <3>3. /\ s \in Seq(Nat) /\ Len(s) \in Nat /\ e[k] \in Nat /\ e[k + 1] = e[k] + Len(s)
          /\ \A i \in 1 .. Len(s) : cells[e[k] + i] = s[i]
      BY <1>4, <2>4, <2>5, <3>1, <3>2
    <3>4. CASE k = 0
      <4>1. b[1] = s /\ e[0] = 0 /\ e[1] = Len(s)
        BY <2>3, <2>4, <3>1, <3>2, <3>3, <3>4
      <4>2. \A i \in 1 .. e[1] : b[1][i] = cells[i]
        <5> TAKE i \in 1 .. e[1]
        <5>1. i \in 1 .. Len(s) /\ e[k] + i = i
          BY <3>3, <3>4, <4>1
        <5>2. cells[e[k] + i] = s[i]
          BY <3>3, <5>1
        <5> QED BY <4>1, <5>1, <5>2
      <4> QED BY <3>1, <3>3, <3>4, <4>1, <4>2
    <3>5. CASE k # 0
      <4>1. Good(k)
        BY <2>7, <3>5
      <4>2. b[k + 1] = b[k] \o s
        <5>1. k + 1 # 1
          BY <3>5
        <5>2. b[k + 1] = b[(k + 1) - 1] \o seqs[k + 1]
          BY <2>3, <3>1, <5>1
        <5> QED BY <3>1, <3>2, <5>2
      <4>3. PICK old : old = b[k]
        OBVIOUS
      <4>4. PICK new : new = old \o s
        OBVIOUS
      <4>5. old \in Seq(Nat) /\ Len(old) = e[k] /\ \A i \in 1 .. e[k] : old[i] = cells[i]
        BY <4>1, <4>3
      <4>6. /\ new \in Seq(Nat) /\ Len(new) = e[k + 1]
            /\ \A i \in 1 .. e[k + 1] : new[i] = IF i <= e[k] THEN old[i] ELSE s[i - e[k]]
        <5>1. /\ new \in Seq(Nat) /\ Len(new) = Len(old) + Len(s)
              /\ \A i \in 1 .. Len(old) + Len(s) :
                   new[i] = IF i <= Len(old) THEN old[i] ELSE s[i - Len(old)]
          BY <3>3, <4>4, <4>5, ConcatProperties
        <5>2. Len(old) + Len(s) = e[k + 1]
          BY <3>3, <4>5
        <5> QED BY <4>5, <5>1, <5>2
      <4>7. ASSUME NEW i \in 1 .. e[k + 1] PROVE new[i] = cells[i]
        <5>1. CASE i <= e[k]
          <6>1. i \in 1 .. e[k]
            BY <3>3, <5>1
          <6> QED BY <4>5, <4>6, <5>1, <6>1
        <5>2. CASE ~ (i <= e[k])
          <6>1. i - e[k] \in 1 .. Len(s) /\ e[k] + (i - e[k]) = i
            BY <3>3, <5>2
          <6>2. cells[e[k] + (i - e[k])] = s[i - e[k]]
            BY <3>3, <6>1
          <6> QED BY <4>6, <5>2, <6>1, <6>2
        <5> QED BY <5>1, <5>2
      <4>8. b[k + 1] = new
        BY <4>2, <4>3, <4>4
      <4>9. Good(k + 1)
        BY <4>6, <4>7, <4>8
      <4> HIDE DEF Good
      <4> QED BY <3>1, <4>9
    <3> QED BY <3>4, <3>5
  <2>8. Good(n)
    <3> HIDE DEF Good
    <3>1. n \in T
      <4> HIDE DEF T
      <4>1. 0 .. n \subseteq T
        BY <2>6, <2>7, BoundedInduction
      <4> QED BY <4>1
    <3> QED BY <1>8, <3>1
  <2> QED BY <1>5, <1>6, <2>2, <2>4, <2>8
<1> QED BY <1>7, <1>8

(***************************************************************************)
(* So they are a prefix of the file, and if it holds nothing else, all of  *)
(* it.                                                                     *)
(***************************************************************************)
LEMMA LaidOutIsPrefix ==
  ASSUME NEW f, NEW log \in Logs, NEW cells \in Seq(Nat), LaidOut(f, log, cells)
  PROVE  /\ IsPrefix(Bytes(f, log), cells)
         /\ Len(cells) = LogEnd(f, log) => cells = Bytes(f, log)
<1>1. PICK b : b = Bytes(f, log)
  OBVIOUS
<1>2. PICK n \in Nat : n = LogEnd(f, log)
  BY LogEndFacts
<1>3. /\ b \in Seq(Nat) /\ Len(b) = n /\ n <= Len(cells)
      /\ \A i \in 1 .. n : b[i] = cells[i]
  BY <1>1, <1>2, BytesFacts
<1>4. \A i \in 1 .. n : b[i] \in Nat /\ cells[i] \in Nat
  BY <1>3, ElementOfSeq
<1> DEFINE s == SubSeq(b, 1, n)
           t == SubSeq(cells, 1, n)
<1>5. s = t
  <2>1. /\ s \in Seq(Nat) /\ Len(s) = (IF 1 <= n THEN n - 1 + 1 ELSE 0)
        /\ \A i \in 1 .. n - 1 + 1 : s[i] = b[1 + i - 1]
    BY <1>4, SubSeqProperties
  <2>2. /\ t \in Seq(Nat) /\ Len(t) = (IF 1 <= n THEN n - 1 + 1 ELSE 0)
        /\ \A i \in 1 .. n - 1 + 1 : t[i] = cells[1 + i - 1]
    BY <1>4, SubSeqProperties
  <2> HIDE DEF s, t
  <2>3. Len(s) = n /\ Len(t) = n /\ \A i \in 1 .. n : s[i] = b[i] /\ t[i] = cells[i]
    BY <2>1, <2>2
  <2>4. \A i \in 1 .. Len(s) : s[i] = t[i]
    BY <1>3, <2>3
  <2> QED BY <2>1, <2>2, <2>3, <2>4, SeqEqual
<1>6. IsPrefix(b, cells)
  BY <1>3, <1>5 DEF IsPrefix
<1>7. Len(cells) = n => cells = b
  BY <1>3, SeqEqual
<1> QED BY <1>1, <1>2, <1>6, <1>7

\* No record of a formatted file has a newline in it.
Unbroken(f, log) ==
  FormOf[f] = "formatted" => \A k \in DOMAIN log : \A i \in DOMAIN log[k] : log[k][i] # Newline

\* What the history says of a file is true of its cells.
HistoryIn(f) ==
  /\ LaidOut(f, records[f], disk[f])
  /\ clean[f] /\ ~ InTransfer(f) => Len(disk[f]) = LogEnd(f, records[f])

\* A WRITE is behind the records of the history: right behind the last if
\* it is in order, and at the end of a clean file.
WriteSound(u) ==
  LET f == FileOf(u)
      t == transfer[u]
      pos == unit[u].pos
      base == IF t.mode = "unformatted" THEN t.start - 1 ELSE t.start
      end == LogEnd(f, records[f]) IN
  /\ end <= base
  /\ t.mode = "direct" => ~ clean[f]
  /\ t.mode # "direct" =>
       /\ t.mode = FormOf[f]
       /\ clean[f] => t.inOrder /\ pos = Len(Cells(u))
       /\ t.inOrder => end = base /\ pos <= Len(Cells(u))
       /\ t.mode = "formatted" /\ t.inOrder =>
            \A i \in t.start + 1 .. pos : Cells(u)[i] # Newline

\* The strengthening for the history.
RInv ==
  /\ records \in [File -> Logs] /\ clean \in [File -> BOOLEAN]
  /\ \A f \in File : Unbroken(f, records[f])
  /\ \A f \in DOMAIN disk : HistoryIn(f)
  /\ \A u \in DOMAIN transfer : WriteSound(u)

\* The records before a buffer are in the file without what is in it.
BackedBy(u) ==
  LET f == FileOf(u) IN LaidOut(f, KeptOf(f, records[f], buffer[u].from), buffer[u].under)
Backed == \A u \in DOMAIN buffer : BackedBy(u)

(***************************************************************************)
(* The history of a file, in terms of its records.                         *)
(***************************************************************************)
LEMMA HistoryFacts ==
  ASSUME IInv, RInv, NEW f \in File
  PROVE  /\ records[f] \in Logs /\ clean[f] \in BOOLEAN /\ Unbroken(f, records[f])
         /\ \A k : EndOf(f, k) = EndsOf(f, records[f])[k]
         /\ \A pos : Kept(f, pos) = KeptOf(f, records[f], pos)
         /\ f \in DOMAIN disk => disk[f] \in Seq(Nat) /\ LaidOut(f, records[f], disk[f])
<1>1. records[f] \in Logs /\ clean[f] \in BOOLEAN /\ Unbroken(f, records[f])
  BY DEF RInv
<1>2. \A k : EndOf(f, k) = EndsOf(f, records[f])[k]
  BY DEF EndOf, Ends, EndsOf
<1>3. \A pos : Kept(f, pos) = KeptOf(f, records[f], pos)
  BY DEF Kept, KeptOf, Ends, EndsOf
<1>4. f \in DOMAIN disk => disk[f] \in Seq(Nat) /\ LaidOut(f, records[f], disk[f])
  BY DEF RInv, IInv, FileSound, HistoryIn
<1> QED BY <1>1, <1>2, <1>3, <1>4

\* Nothing but file f and the WRITE of unit u to it changes.
FileStep(u, f) ==
  /\ \A v \in DOMAIN transfer : v # u =>
       /\ v \in DOMAIN transfer' /\ transfer'[v] = transfer[v]
       /\ unit'[v] = unit[v] /\ FileOf(v) # f
  /\ \A v \in DOMAIN transfer' : v # u => v \in DOMAIN transfer
  /\ u \in DOMAIN transfer => FileOf(u) = f
  /\ u \in DOMAIN transfer' => FileOf(u)' = f
  /\ \A g \in DOMAIN disk : g # f => g \in DOMAIN disk' /\ disk'[g] = disk[g]
  /\ \A g \in DOMAIN disk' : g # f => g \in DOMAIN disk

(***************************************************************************)
(* Such a step keeps the history true if that of the file is.              *)
(***************************************************************************)
LEMMA FileStepKept ==
  ASSUME IInv, RInv, NEW u \in Unit, NEW f \in File, FileStep(u, f),
         NEW log \in Logs, NEW whole \in BOOLEAN, Unbroken(f, log),
         records' = [records EXCEPT ![f] = log], clean' = [clean EXCEPT ![f] = whole],
         f \in DOMAIN disk' => LaidOut(f, log, disk'[f]),
         u \notin DOMAIN transfer' /\ f \in DOMAIN disk' /\ whole =>
           Len(disk'[f]) = LogEnd(f, log),
         u \in DOMAIN transfer' => WriteSound(u)'
  PROVE  RInv'
<1>1. records \in [File -> Logs] /\ clean \in [File -> BOOLEAN]
  BY DEF RInv
<1>2. /\ records' \in [File -> Logs] /\ clean' \in [File -> BOOLEAN]
      /\ records'[f] = log /\ clean'[f] = whole
      /\ \A g \in File : g # f => records'[g] = records[g] /\ clean'[g] = clean[g]
  BY <1>1
<1>3. ASSUME NEW g \in File PROVE Unbroken(g, records'[g])
  BY <1>2, HistoryFacts
<1>4. ASSUME NEW v \in DOMAIN transfer, v # u
      PROVE  /\ v \in DOMAIN transfer' /\ transfer'[v] = transfer[v] /\ unit'[v] = unit[v]
             /\ FileOf(v)' = FileOf(v) /\ FileOf(v) # f /\ FileOf(v) \in File
             /\ FileOf(v) \in DOMAIN disk /\ disk'[FileOf(v)] = disk[FileOf(v)]
  <2>1. v \in DOMAIN transfer' /\ transfer'[v] = transfer[v] /\ unit'[v] = unit[v] /\ FileOf(v) # f
    BY <1>4 DEF FileStep
  <2>2. FileOf(v) \in File /\ FileOf(v) \in DOMAIN disk
    BY TransferFacts, UnitFacts
  <2> QED BY <2>1, <2>2 DEF FileStep, FileOf
<1>5. ASSUME NEW g \in DOMAIN disk', g # f PROVE HistoryIn(g)'
  <2>1. g \in DOMAIN disk /\ disk'[g] = disk[g] /\ g \in File
    BY <1>5 DEF FileStep, IInv
  <2>2. records'[g] = records[g] /\ clean'[g] = clean[g]
    BY <1>2, <1>5, <2>1
  <2>3. HistoryIn(g)
    BY <2>1 DEF RInv
  <2>4. ~ InTransfer(g)' => ~ InTransfer(g)
    <3> SUFFICES ASSUME NEW v \in DOMAIN transfer, FileOf(v) = g PROVE InTransfer(g)'
      BY DEF InTransfer
    <3>1. v # u
      BY <1>5 DEF FileStep
    <3>2. v \in DOMAIN transfer' /\ FileOf(v)' = g
      BY <1>4, <3>1
    <3> QED BY <3>2 DEF InTransfer
  <2> QED BY <2>1, <2>2, <2>3, <2>4 DEF HistoryIn
<1>6. ASSUME f \in DOMAIN disk' PROVE HistoryIn(f)'
  <2>1. u \in DOMAIN transfer' => InTransfer(f)'
    BY DEF FileStep, InTransfer
  <2> QED BY <1>2, <1>6, <2>1 DEF HistoryIn
<1>7. ASSUME NEW v \in DOMAIN transfer' PROVE WriteSound(v)'
  <2>1. CASE v = u
    BY <1>7, <2>1
  <2>2. CASE v # u
    <3>1. v \in DOMAIN transfer
      BY <2>2 DEF FileStep
    <3>2. /\ transfer'[v] = transfer[v] /\ unit'[v] = unit[v] /\ FileOf(v)' = FileOf(v)
          /\ disk'[FileOf(v)] = disk[FileOf(v)] /\ FileOf(v) # f /\ FileOf(v) \in File
      BY <1>4, <2>2, <3>1
    <3>3. records'[FileOf(v)] = records[FileOf(v)] /\ clean'[FileOf(v)] = clean[FileOf(v)]
      BY <1>2, <3>2
    <3>4. WriteSound(v)
      BY <3>1 DEF RInv
    <3> QED BY <3>2, <3>3, <3>4 DEF WriteSound, Cells
  <2> QED BY <2>1, <2>2
<1> QED BY <1>2, <1>3, <1>5, <1>6, <1>7 DEF RInv

(***************************************************************************)
(* Nothing changes but what a unit between two transfers is at.            *)
(***************************************************************************)
Quiet(u) ==
  /\ u \notin DOMAIN transfer
  /\ UNCHANGED << disk, transfer, records, clean >>
  /\ \A v \in DOMAIN unit : v # u => unit'[v] = unit[v]

LEMMA QuietKept == ASSUME IInv, RInv, NEW u, Quiet(u) PROVE RInv'
<1>1. ASSUME NEW v \in DOMAIN transfer PROVE unit'[v] = unit[v]
  BY TransferFacts DEF Quiet
<1>2. /\ disk' = disk /\ transfer' = transfer /\ records' = records /\ clean' = clean
      /\ \A v \in DOMAIN transfer : FileOf(v)' = FileOf(v)
  BY <1>1 DEF Quiet, FileOf
<1>3. ASSUME NEW f \in DOMAIN disk PROVE HistoryIn(f)'
  <2>1. HistoryIn(f)
    BY DEF RInv
  <2>2. InTransfer(f)' = InTransfer(f)
    BY <1>2 DEF InTransfer
  <2> QED BY <1>2, <2>1, <2>2 DEF HistoryIn
<1>4. ASSUME NEW v \in DOMAIN transfer PROVE WriteSound(v)'
  <2>1. WriteSound(v)
    BY DEF RInv
  <2> QED BY <1>1, <1>2, <2>1 DEF WriteSound, Cells
<1>5. /\ records' \in [File -> Logs] /\ clean' \in [File -> BOOLEAN]
      /\ \A f \in File : Unbroken(f, records'[f])
  BY <1>2 DEF RInv
<1> QED BY <1>2, <1>3, <1>4, <1>5 DEF RInv

LEMMA PositioningIsQuiet ==
  ASSUME IInv, NEW u \in Unit,
         \/ Rewind(u) \/ Backspace(u) \/ BackspaceFails(u) \/ Inquire(u)
         \/ EndfileAbandoned(u) \/ EndfileDetached(u),
         ~ FlushFails(u)
  PROVE  Quiet(u)
<1>1. u \notin DOMAIN transfer /\ UNCHANGED << disk, transfer, records, clean >>
  BY DEF Rewind, Backspace, BackspaceFails, BackspaceReady, Inquire, EndfileAbandoned,
         EndfileDetached, EndfileReady, Busy, history
<1>2. \A v \in DOMAIN unit : v # u => unit'[v] = unit[v]
  BY DEF Rewind, Backspace, BackspaceFails, Inquire, EndfileAbandoned, EndfileDetached, Position
<1> QED BY <1>1, <1>2 DEF Quiet

LEMMA ReadIsQuiet == ASSUME IInv, NEW u \in Unit, Read(u), ~ FlushFails(u) PROVE Quiet(u)
<1>1. UNCHANGED << disk, transfer, records, clean >>
  BY DEF Read, ReadFormatted, ReadFormattedFails, ReadImplicitly, ReadUnformatted, ReadDirect,
         history
<1>2. u \notin DOMAIN transfer
  BY Idle
<1>3. \A v \in DOMAIN unit : v # u => unit'[v] = unit[v]
  BY DEF Read, ReadFormatted, ReadFormattedFails, ReadImplicitly, ReadUnformatted, ReadDirect,
         Position, With
<1> QED BY <1>1, <1>2, <1>3 DEF Quiet

(***************************************************************************)
(* The empty log is laid out in every file.                                *)
(***************************************************************************)
LEMMA NoRecords ==
  ASSUME NEW f
  PROVE  /\ << >> \in Logs /\ LogEnd(f, << >>) = 0 /\ Unbroken(f, << >>)
         /\ \A cells : LaidOut(f, << >>, cells)
<1>1. << >> \in Logs /\ Len(<< >>) = 0
  BY DEF Logs
<1>2. LogEnd(f, << >>) = 0
  BY <1>1, LogEndFacts
<1>3. Unbroken(f, << >>)
  BY DEF Unbroken
<1>4. \A cells : LaidOut(f, << >>, cells)
  BY <1>1 DEF LaidOut
<1> QED BY <1>1, <1>2, <1>3, <1>4

(***************************************************************************)
(* OPEN and CLOSE forget the history of a file they leave empty, if no     *)
(* other unit is connected to it.                                          *)
(***************************************************************************)
LEMMA SettlesKept == ASSUME IInv, RInv, NEW u \in Unit, Settles(u) PROVE RInv'
<1>0. PICK f \in File :
        /\ u \notin DOMAIN transfer /\ UNCHANGED transfer
        /\ \A v \in DOMAIN unit : v # u => FileOf(v) # f
        /\ Reconnected(u, f) /\ Renewed(u, f) /\ Settle(u)
  BY DEF Settles
<1> DEFINE Fresh(g) == (g \notin DOMAIN disk' \/ disk'[g] = << >>) /\ Unshared(u, g)
<1>1. /\ records' = [g \in File |-> IF Fresh(g) THEN << >> ELSE records[g]]
      /\ clean' = [g \in File |-> Fresh(g) \/ clean[g]]
  BY <1>0 DEF Settle
<1>2. records \in [File -> Logs] /\ clean \in [File -> BOOLEAN]
  BY DEF RInv
<1>3. /\ \A g \in File : Fresh(g) => records'[g] = << >>
      /\ \A g \in File : ~ Fresh(g) => records'[g] = records[g] /\ clean'[g] = clean[g]
  BY <1>1, <1>2
<1>4. records' \in [File -> Logs] /\ clean' \in [File -> BOOLEAN]
  BY <1>1, <1>2, NoRecords
<1>5. \A g \in File : Unbroken(g, records'[g])
  BY <1>3, HistoryFacts, NoRecords
<1>6. ASSUME NEW v \in DOMAIN transfer
      PROVE  /\ unit'[v] = unit[v] /\ FileOf(v)' = FileOf(v) /\ FileOf(v) \in File
             /\ disk'[FileOf(v)] = disk[FileOf(v)] /\ ~ Fresh(FileOf(v))
  <2>1. v \in DOMAIN unit /\ v # u
    BY <1>0 DEF IInv, TransferSound, Connected
  <2>2. FileOf(v) \in File /\ disk'[FileOf(v)] = disk[FileOf(v)]
    BY <1>0, <2>1, OthersStay
  <2>3. unit'[v] = unit[v]
    BY <1>0, <2>1 DEF Reconnected
  <2>4. ~ Unshared(u, FileOf(v))
    BY <2>1 DEF Unshared
  <2> QED BY <2>2, <2>3, <2>4 DEF FileOf
<1>7. ASSUME NEW v \in DOMAIN transfer' PROVE WriteSound(v)'
  <2>1. v \in DOMAIN transfer /\ transfer'[v] = transfer[v]
    BY <1>0
  <2>2. /\ unit'[v] = unit[v] /\ FileOf(v)' = FileOf(v)
        /\ disk'[FileOf(v)] = disk[FileOf(v)]
        /\ records'[FileOf(v)] = records[FileOf(v)] /\ clean'[FileOf(v)] = clean[FileOf(v)]
    BY <1>3, <1>6, <2>1
  <2>3. WriteSound(v)
    BY <2>1 DEF RInv
  <2> QED BY <2>1, <2>2, <2>3 DEF WriteSound, Cells
<1>8. ASSUME NEW g \in DOMAIN disk' PROVE HistoryIn(g)'
  <2>0. g \in File
    BY <1>0 DEF Renewed, IInv
  <2>1. CASE Fresh(g)
    <3>1. records'[g] = << >> /\ Len(disk'[g]) = 0
      BY <1>3, <2>0, <2>1
    <3> QED BY <3>1, NoRecords DEF HistoryIn
  <2>2. CASE ~ Fresh(g)
    <3>1. g \in DOMAIN disk /\ disk'[g] = disk[g]
      <4>1. CASE disk'[g] # << >>
        BY <1>0, <4>1 DEF Renewed
      <4>2. CASE disk'[g] = << >>
        <5>1. PICK v \in DOMAIN unit : v # u /\ FileOf(v) = g
          BY <2>2, <4>2 DEF Unshared
        <5> QED BY <1>0, <5>1, OthersStay
      <4> QED BY <4>1, <4>2
    <3>2. records'[g] = records[g] /\ clean'[g] = clean[g]
      BY <1>3, <2>0, <2>2
    <3>3. InTransfer(g)' = InTransfer(g)
      BY <1>0, <1>6 DEF InTransfer
    <3>4. HistoryIn(g)
      BY <3>1 DEF RInv
    <3> QED BY <3>1, <3>2, <3>3, <3>4 DEF HistoryIn
  <2> QED BY <2>1, <2>2
<1> QED BY <1>4, <1>5, <1>7, <1>8 DEF RInv

(***************************************************************************)
(* What is kept of the history of a file when it is written or cut at a    *)
(* position.                                                               *)
(***************************************************************************)
LEMMA KeptHistory ==
  ASSUME IInv, RInv, NEW f \in File, NEW pos \in Nat
  PROVE  /\ Kept(f, pos) \in Logs /\ Unbroken(f, Kept(f, pos))
         /\ LogEnd(f, Kept(f, pos)) \in Nat /\ LogEnd(f, Kept(f, pos)) <= pos
         /\ EndOf(f, Len(Kept(f, pos))) = LogEnd(f, Kept(f, pos))
         /\ LogEnd(f, Kept(f, pos)) <= LogEnd(f, records[f])
         /\ pos = LogEnd(f, records[f]) => LogEnd(f, Kept(f, pos)) = pos
         /\ f \in DOMAIN disk =>
              \A new : Agree(disk[f], new, LogEnd(f, Kept(f, pos))) =>
                         LaidOut(f, Kept(f, pos), new)
<1>1. PICK log : log = records[f]
  OBVIOUS
<1>2. PICK kept : kept = Kept(f, pos)
  OBVIOUS
<1>3. /\ log \in Logs /\ Unbroken(f, log) /\ kept = KeptOf(f, log, pos)
      /\ EndOf(f, Len(kept)) = EndsOf(f, log)[Len(kept)]
      /\ f \in DOMAIN disk => LaidOut(f, log, disk[f])
  BY <1>1, <1>2, HistoryFacts
<1>4. PICK m \in 0 .. Len(log) : KeptAt(f, log, kept, m, pos)
  BY <1>3, KeptFacts
<1>5. /\ kept \in Logs /\ Len(kept) = m /\ LogEnd(f, kept) = EndsOf(f, log)[m]
      /\ LogEnd(f, kept) <= pos /\ \A k \in 1 .. m : kept[k] = log[k]
      /\ \A k \in m + 1 .. Len(log) : EndsOf(f, log)[k] > pos
  BY <1>4 DEF KeptAt
<1>6. LogEnd(f, kept) \in Nat /\ LogEnd(f, kept) <= LogEnd(f, log) /\ Len(log) \in Nat
  BY <1>3, <1>5, LogEndFacts, EndsFacts
<1>7. Unbroken(f, kept)
  <2>1. DOMAIN kept = 1 .. m /\ DOMAIN log = 1 .. Len(log) /\ 1 .. m \subseteq 1 .. Len(log)
    BY <1>3, <1>5, <1>6 DEF Logs
  <2> QED BY <1>3, <1>5, <2>1 DEF Unbroken
<1>8. pos = LogEnd(f, log) => LogEnd(f, kept) = pos
  <2> SUFFICES ASSUME pos = LogEnd(f, log) PROVE m = Len(log)
    BY <1>5 DEF LogEnd
  <2>1. SUFFICES ASSUME m # Len(log) PROVE FALSE
    OBVIOUS
  <2>2. Len(log) \in m + 1 .. Len(log)
    BY <1>6, <2>1
  <2>3. LogEnd(f, log) > pos
    BY <1>5, <2>2 DEF LogEnd
  <2> QED BY <2>3
<1>9. f \in DOMAIN disk =>
        \A new : Agree(disk[f], new, LogEnd(f, kept)) => LaidOut(f, kept, new)
  BY <1>3, <1>4, KeptLaidOut
<1> QED BY <1>1, <1>2, <1>3, <1>5, <1>6, <1>7, <1>8, <1>9

(***************************************************************************)
(* A buffer that cannot be written out leaves the records before the place *)
(* where that fails.                                                       *)
(***************************************************************************)
LEMMA DropLaidOut ==
  ASSUME IInv, RInv, Backed, NEW u \in DOMAIN buffer,
         NEW m \in buffer[u].from .. unit[u].pos, NEW f, f = FileOf(u)
  PROVE  LaidOut(f, Kept(f, m), Through(u, m))
<1>1. PICK new : new = Through(u, m)
  OBVIOUS
<1>2. PICK old : old = Cells(u)
  OBVIOUS
<1>3. /\ u \in DOMAIN unit /\ m \in Nat /\ new \in Seq(Nat)
      /\ m = buffer[u].from => new = buffer[u].under
      /\ m # buffer[u].from => m <= Len(new) /\ \A i \in 1 .. m : new[i] = old[i]
  BY <1>1, <1>2, ThroughFacts
<1>4. f \in File /\ f \in DOMAIN disk /\ disk[f] = old
  BY <1>2, <1>3, UnitFacts DEF Cells
<1>5. CASE m = buffer[u].from
  <2>1. BackedBy(u) /\ Kept(f, m) = KeptOf(f, records[f], m)
    BY <1>4, HistoryFacts DEF Backed
  <2> QED BY <1>1, <1>3, <1>5, <2>1 DEF BackedBy
<1>6. CASE m # buffer[u].from
  <2>1. PICK end \in Nat : end = LogEnd(f, Kept(f, m))
    BY <1>3, <1>4, KeptHistory
  <2>2. end <= m /\ (Agree(old, new, end) => LaidOut(f, Kept(f, m), new))
    BY <1>3, <1>4, <2>1, KeptHistory
  <2>3. Len(new) \in Nat
    BY <1>3, LenProperties
  <2>4. Agree(old, new, end)
    BY <1>3, <1>6, <2>2, <2>3 DEF Agree
  <2> QED BY <1>1, <2>2, <2>4
<1> QED BY <1>5, <1>6

LEMMA DropKept ==
  ASSUME IInv, RInv, Backed, NEW u \in DOMAIN buffer, NEW m, Drop(u, m), NEW f, f = FileOf(u),
         \A v \in DOMAIN unit : v # u => unit'[v] = unit[v],
         \A v \in DOMAIN transfer : v # u => v \in DOMAIN transfer' /\ transfer'[v] = transfer[v],
         \A v \in DOMAIN transfer' : v # u => v \in DOMAIN transfer,
         u \in DOMAIN transfer' => FileOf(u)' = f /\ WriteSound(u)'
  PROVE  RInv'
<1>1. /\ u \in DOMAIN unit /\ u \in Unit /\ f \in File /\ m \in Nat
      /\ m \in buffer[u].from .. unit[u].pos
      /\ DOMAIN disk' = DOMAIN disk /\ disk'[f] = Through(u, m)
      /\ \A g \in DOMAIN disk : g # f => disk'[g] = disk[g]
  BY DropFacts
<1>2. \A v \in DOMAIN unit : v # u => FileOf(v) # f
  BY <1>1, UnitFacts
<1>3. PICK log : log = Kept(f, m)
  OBVIOUS
<1>4. /\ log \in Logs /\ Unbroken(f, log)
      /\ records' = [records EXCEPT ![f] = log] /\ clean' = [clean EXCEPT ![f] = FALSE]
  BY <1>1, <1>3, KeptHistory DEF Drop, Cut
<1>5. LaidOut(f, log, disk'[f])
  BY <1>1, <1>3, DropLaidOut
<1>6. FileStep(u, f)
  <2>1. \A v \in DOMAIN transfer : v \in DOMAIN unit
    BY TransferFacts
  <2> QED BY <1>1, <1>2, <2>1 DEF FileStep
<1>7. FALSE \in BOOLEAN
  OBVIOUS
<1> QED BY <1>1, <1>4, <1>5, <1>6, <1>7, FileStepKept

LEMMA FlushKept ==
  ASSUME IInv, RInv, Backed, NEW u, u \notin DOMAIN transfer, FlushFails(u)
  PROVE  RInv'
<1>1. u \in DOMAIN buffer /\ UNCHANGED transfer
  BY DEF FlushFails
<1>2. PICK m : DropTo(u, m)
  BY DEF FlushFails
<1>3. Drop(u, m) /\ \A v \in DOMAIN unit : v # u => unit'[v] = unit[v]
  BY <1>2 DEF DropTo, Position
<1> QED BY <1>1, <1>3, DropKept

LEMMA SeversKept ==
  ASSUME IInv, RInv, Backed, NEW u \in Unit, Severs(u)
  PROVE  RInv'
<1>1. u \in DOMAIN buffer /\ UNCHANGED transfer /\ u \notin DOMAIN transfer
  BY DEF Severs, CloseLoses
<1>2. PICK m : Drop(u, m)
  BY DEF Severs, CloseLoses
<1>3. \A v \in DOMAIN unit : v # u => unit'[v] = unit[v]
  BY DEF Severs, CloseLoses, Without, Restrict
<1> QED BY <1>1, <1>2, <1>3, DropKept

(***************************************************************************)
(* ENDFILE leaves the records before its position.                         *)
(***************************************************************************)
LEMMA CutKept ==
  ASSUME IInv, RInv, NEW u \in DOMAIN unit, u \notin DOMAIN transfer, UNCHANGED transfer,
         NEW f, f = FileOf(u), NEW n \in 0 .. Len(Cells(u)), NEW whole \in BOOLEAN,
         whole => EndOf(f, Len(Kept(f, n))) = n,
         disk' = [disk EXCEPT ![f] = Upto(@, n)], Cut(f, n, whole),
         \A v \in DOMAIN unit : v # u => unit'[v] = unit[v]
  PROVE  RInv'
<1>1. /\ u \in Unit /\ f \in File /\ f \in DOMAIN disk /\ disk[f] \in Seq(Nat)
      /\ n \in 0 .. Len(disk[f]) /\ n \in Nat /\ \A v \in DOMAIN unit : v # u => FileOf(v) # f
  BY UnitFacts DEF Cells
<1>2. /\ f \in DOMAIN disk' /\ disk'[f] = Upto(disk[f], n)
      /\ DOMAIN disk' = DOMAIN disk /\ \A g \in DOMAIN disk : g # f => disk'[g] = disk[g]
  BY <1>1
<1>3. PICK log : log = Kept(f, n)
  OBVIOUS
<1>4. /\ log \in Logs /\ Unbroken(f, log) /\ LogEnd(f, log) \in Nat /\ LogEnd(f, log) <= n
      /\ EndOf(f, Len(log)) = LogEnd(f, log)
      /\ \A new : Agree(disk[f], new, LogEnd(f, log)) => LaidOut(f, log, new)
  BY <1>1, <1>3, KeptHistory
<1>5. Len(disk'[f]) = n /\ \A i \in 1 .. n : disk'[f][i] = disk[f][i]
  BY <1>1, <1>2, UptoFacts
<1>6. LaidOut(f, log, disk'[f])
  <2>1. Agree(disk[f], disk'[f], LogEnd(f, log))
    BY <1>1, <1>4, <1>5 DEF Agree
  <2> QED BY <1>4, <2>1
<1>7. records' = [records EXCEPT ![f] = log] /\ clean' = [clean EXCEPT ![f] = whole]
  BY <1>3 DEF Cut
<1>8. whole => Len(disk'[f]) = LogEnd(f, log)
  BY <1>3, <1>4, <1>5
<1>9. FileStep(u, f)
  <2>1. \A v \in DOMAIN transfer : v \in DOMAIN unit /\ v # u
    BY TransferFacts
  <2> QED BY <1>1, <1>2, <2>1 DEF FileStep
<1>10. u \notin DOMAIN transfer'
  OBVIOUS
<1> QED BY <1>1, <1>4, <1>6, <1>7, <1>8, <1>9, <1>10, FileStepKept

LEMMA EndfileKept ==
  ASSUME IInv, RInv, NEW u \in Unit, Endfile(u) \/ EndfileLoses(u)
  PROVE  RInv'
<1>1. PICK f : f = FileOf(u)
  OBVIOUS
<1>2. EndfileReady(u)
  BY DEF Endfile, EndfileLoses
<1>3. u \in DOMAIN unit /\ u \notin DOMAIN transfer
  BY <1>2 DEF EndfileReady, Sequential, Connected, Busy
<1>4. unit[u].pos \in Nat /\ Len(Cells(u)) \in Nat
  BY <1>3, UnitFacts
<1>5. CASE Endfile(u)
  <2>1. PICK pos : pos = unit[u].pos
    OBVIOUS
  <2>2. PICK whole \in BOOLEAN : whole <=> EndOf(f, Len(Kept(f, pos))) = pos
    OBVIOUS
  <2>3. /\ pos <= Len(Cells(u)) /\ UNCHANGED transfer
        /\ disk' = [disk EXCEPT ![f] = Upto(@, pos)]
        /\ unit' = [unit EXCEPT ![u].stream = "open"]
        /\ Cut(f, pos, EndOf(f, Len(Kept(f, pos))) = pos)
    BY <1>1, <1>5, <2>1 DEF Endfile
  <2>4. pos \in 0 .. Len(Cells(u))
    BY <1>4, <2>1, <2>3
  <2>5. Cut(f, pos, whole)
    BY <2>2, <2>3 DEF Cut
  <2>6. \A v \in DOMAIN unit : v # u => unit'[v] = unit[v]
    BY <2>3
  <2> QED BY <1>1, <1>3, <2>2, <2>3, <2>4, <2>5, <2>6, CutKept
<1>6. CASE EndfileLoses(u)
  <2>1. PICK n \in 0 .. unit[u].pos - 1 :
          /\ disk' = [disk EXCEPT ![f] = Upto(@, n)]
          /\ unit' = [unit EXCEPT ![u].pos = n, ![u].stream = "open"]
          /\ Cut(f, n, FALSE)
    BY <1>1, <1>6 DEF EndfileLoses
  <2>2. unit[u].pos <= Len(Cells(u)) /\ UNCHANGED transfer
    BY <1>6 DEF EndfileLoses
  <2>3. n \in 0 .. Len(Cells(u))
    BY <1>4, <2>2
  <2>4. \A v \in DOMAIN unit : v # u => unit'[v] = unit[v]
    BY <2>1
  <2> QED BY <1>1, <1>3, <2>1, <2>2, <2>3, <2>4, CutKept
<1> QED BY <1>5, <1>6

(***************************************************************************)
(* The beginning of a sequential WRITE at a position.                      *)
(***************************************************************************)
LEMMA BeginKept ==
  ASSUME IInv, RInv, NEW u \in Unit, NEW f \in File, FileStep(u, f),
         NEW pos \in Nat, NEW start \in Nat, NEW mode \in {"formatted", "unformatted"},
         mode = FormOf[f], start = IF mode = "unformatted" THEN pos + 1 ELSE pos,
         NEW inOrder \in BOOLEAN, NEW whole \in BOOLEAN, Cut(f, pos, whole),
         u \in DOMAIN transfer', transfer'[u].mode = mode, transfer'[u].start = start,
         transfer'[u].inOrder = inOrder, unit'[u].pos = start, FileOf(u)' = f,
         NEW cells \in Seq(Nat), disk'[f] = cells, LaidOut(f, Kept(f, pos), cells),
         inOrder => LogEnd(f, Kept(f, pos)) = pos /\ start <= Len(cells),
         whole => inOrder /\ start = Len(cells)
  PROVE  RInv'
<1>1. PICK log : log = Kept(f, pos)
  OBVIOUS
<1>2. /\ log \in Logs /\ Unbroken(f, log) /\ LogEnd(f, log) \in Nat /\ LogEnd(f, log) <= pos
  BY <1>1, KeptHistory
<1>3. records' = [records EXCEPT ![f] = log] /\ clean' = [clean EXCEPT ![f] = whole]
  BY <1>1 DEF Cut
<1>4. records'[f] = log /\ clean'[f] = whole
  BY <1>3 DEF RInv
<1>5. WriteSound(u)'
  <2> DEFINE base == IF transfer'[u].mode = "unformatted" THEN transfer'[u].start - 1
                                                         ELSE transfer'[u].start
  <2>1. base = pos
    OBVIOUS
  <2>2. Cells(u)' = cells
    BY DEF Cells
  <2>3. \A i \in start + 1 .. start : FALSE
    OBVIOUS
  <2> HIDE DEF base
  <2>4. LogEnd(FileOf(u)', records'[FileOf(u)']) <= base
    BY <1>2, <1>4, <2>1
  <2>5. /\ transfer'[u].mode # "direct" /\ transfer'[u].mode = FormOf[FileOf(u)']
        /\ clean'[FileOf(u)'] => transfer'[u].inOrder /\ unit'[u].pos = Len(Cells(u)')
        /\ transfer'[u].inOrder => /\ LogEnd(FileOf(u)', records'[FileOf(u)']) = base
                                   /\ unit'[u].pos <= Len(Cells(u)')
    BY <1>1, <1>4, <2>1, <2>2
  <2>6. \A i \in transfer'[u].start + 1 .. unit'[u].pos : FALSE
    BY <2>3
  <2> QED BY <2>4, <2>5, <2>6 DEF WriteSound, base
<1>6. LaidOut(f, log, disk'[f])
  BY <1>1
<1> QED BY <1>2, <1>3, <1>5, <1>6, FileStepKept

(***************************************************************************)
(* A clean file that no unit writes to ends with its records.              *)
(***************************************************************************)
LEMMA CleanFacts ==
  ASSUME IInv, RInv, NEW u \in DOMAIN unit, u \notin DOMAIN transfer
  PROVE  /\ ~ InTransfer(FileOf(u))
         /\ clean[FileOf(u)] => Len(Cells(u)) = LogEnd(FileOf(u), records[FileOf(u)])
<1>1. ~ InTransfer(FileOf(u))
  BY UnitFacts, TransferFacts DEF InTransfer
<1>2. HistoryIn(FileOf(u))
  BY UnitFacts DEF RInv
<1> QED BY <1>1, <1>2 DEF HistoryIn, Cells

\* The step leaves these cells in file f, and every other file as it is.
Rewrites(f, cells) ==
  /\ f \in DOMAIN disk' /\ disk'[f] = cells /\ cells \in Seq(Nat)
  /\ DOMAIN disk' = DOMAIN disk /\ \A g \in DOMAIN disk : g # f => disk'[g] = disk[g]

\* The header of a record at a position, if any, changes no cell before it.
Headed(old, cells, pos, start) ==
  /\ Len(old) <= Len(cells) /\ \A i \in 1 .. Len(old) : i <= pos => cells[i] = old[i]
  /\ pos <= Len(old) => start <= Len(cells)
  /\ pos = Len(old) => start = Len(cells)

(***************************************************************************)
(* Of a connected unit.                                                    *)
(***************************************************************************)
LEMMA ConnectedBeginKept ==
  ASSUME IInv, RInv, NEW u \in DOMAIN unit, u \notin DOMAIN transfer, NEW f, f = FileOf(u),
         NEW pos, pos = unit[u].pos, NEW start \in Nat,
         NEW mode \in {"formatted", "unformatted"}, mode = FormOf[f],
         start = IF mode = "unformatted" THEN pos + 1 ELSE pos,
         NEW cells, Rewrites(f, cells), Headed(Cells(u), cells, pos, start),
         Begin(u, mode, start, pos)
  PROVE  RInv'
<1>0. /\ cells \in Seq(Nat) /\ f \in DOMAIN disk' /\ disk'[f] = cells
      /\ DOMAIN disk' = DOMAIN disk /\ \A g \in DOMAIN disk : g # f => disk'[g] = disk[g]
      /\ Len(Cells(u)) <= Len(cells)
      /\ \A i \in 1 .. Len(Cells(u)) : i <= pos => cells[i] = Cells(u)[i]
      /\ pos <= Len(Cells(u)) => start <= Len(cells)
      /\ pos = Len(Cells(u)) => start = Len(cells)
  BY DEF Rewrites, Headed
<1>1. PICK old : old = Cells(u)
  OBVIOUS
<1>2. /\ u \in Unit /\ f \in File /\ f \in DOMAIN disk /\ pos \in Nat /\ old = disk[f]
      /\ old \in Seq(Nat) /\ Len(old) \in Nat /\ unit[u] \in Entries
      /\ \A v \in DOMAIN unit : v # u => FileOf(v) # f
  BY <1>1, UnitFacts DEF Cells
<1>3. PICK kept : kept = Kept(f, pos)
  OBVIOUS
<1>4. PICK end \in Nat : end = LogEnd(f, kept)
  BY <1>2, <1>3, KeptHistory
<1>5. PICK inOrder \in BOOLEAN : inOrder <=> pos = end
  OBVIOUS
<1>6. PICK whole \in BOOLEAN : whole <=> clean[f] /\ pos = Len(disk[f])
  OBVIOUS
<1>7. /\ end <= pos /\ EndOf(f, Len(kept)) = end
      /\ end <= LogEnd(f, records[f]) /\ (pos = LogEnd(f, records[f]) => end = pos)
      /\ \A new : Agree(old, new, end) => LaidOut(f, kept, new)
  BY <1>2, <1>3, <1>4, KeptHistory
<1>8. LogEnd(f, records[f]) \in Nat /\ LogEnd(f, records[f]) <= Len(old)
  BY <1>2, HistoryFacts, LogEndFacts, LaidOutEnds
<1>9. LaidOut(f, kept, cells)
  <2>1. Agree(old, cells, end)
    <3>1. end <= Len(old) /\ Len(cells) \in Nat
      BY <1>0, <1>7, <1>8, LenProperties
    <3>2. \A i \in 1 .. end : cells[i] = old[i]
      <4> TAKE i \in 1 .. end
      <4>1. i \in 1 .. Len(Cells(u)) /\ i <= pos
        BY <1>1, <1>2, <1>7, <3>1
      <4> QED BY <1>0, <1>1, <4>1
    <3> QED BY <1>0, <1>1, <1>2, <3>1, <3>2 DEF Agree
  <2> QED BY <1>7, <2>1
<1>10. whole => inOrder
  BY <1>1, <1>2, <1>5, <1>6, <1>7, CleanFacts
<1>11. /\ transfer' = With(transfer, u, Started(mode, start, 0, pos = EndOf(f, Len(Kept(f, pos)))))
       /\ unit' = [unit EXCEPT ![u].pos = start]
       /\ Cut(f, pos, clean[f] /\ pos = Len(disk[f]))
  BY DEF Begin, Overwrite
<1>12. /\ u \in DOMAIN transfer' /\ transfer'[u].mode = mode /\ transfer'[u].start = start
       /\ transfer'[u].inOrder = inOrder
       /\ \A v \in DOMAIN transfer : v \in DOMAIN transfer' /\ (v # u => transfer'[v] = transfer[v])
       /\ \A v \in DOMAIN transfer' : v # u => v \in DOMAIN transfer
  <2>1. inOrder = (pos = EndOf(f, Len(Kept(f, pos))))
    BY <1>3, <1>5, <1>7
  <2> QED BY <1>11, <2>1 DEF With, Started
<1>13. Cut(f, pos, whole)
  BY <1>6, <1>11 DEF Cut
<1>14. /\ unit'[u].pos = start /\ FileOf(u)' = f
       /\ \A v \in DOMAIN unit : v # u => unit'[v] = unit[v]
  BY <1>2, <1>11 DEF FileOf, Entries
<1>15. FileStep(u, f)
  <2>1. \A v \in DOMAIN transfer : v \in DOMAIN unit /\ v # u
    BY TransferFacts
  <2> QED BY <1>0, <1>2, <1>12, <1>14, <2>1 DEF FileStep
<1>16. inOrder => LogEnd(f, Kept(f, pos)) = pos /\ start <= Len(cells)
  BY <1>0, <1>1, <1>3, <1>4, <1>5, <1>7, <1>8
<1>17. whole => inOrder /\ start = Len(cells)
  BY <1>0, <1>1, <1>2, <1>6, <1>10
<1>18. LaidOut(f, Kept(f, pos), cells)
  BY <1>3, <1>9
<1>19. /\ u \in Unit /\ f \in File /\ pos \in Nat /\ cells \in Seq(Nat) /\ disk'[f] = cells
       /\ u \in DOMAIN transfer' /\ transfer'[u].mode = mode /\ transfer'[u].start = start
       /\ transfer'[u].inOrder = inOrder /\ unit'[u].pos = start /\ FileOf(u)' = f
  BY <1>0, <1>2, <1>12, <1>14
<1> QED BY <1>13, <1>15, <1>16, <1>17, <1>18, <1>19, BeginKept, SMTT(60)

LEMMA BeginFormattedKept ==
  ASSUME IInv, RInv, NEW u \in Unit, BeginFormatted(u)
  PROVE  RInv'
<1>1. PICK f : f = FileOf(u)
  OBVIOUS
<1>2. PICK pos : pos = unit[u].pos
  OBVIOUS
<1>3. /\ u \in DOMAIN unit /\ u \notin DOMAIN transfer /\ FormOf[f] = "formatted"
      /\ Begin(u, "formatted", pos, pos) /\ UNCHANGED disk
  BY <1>1, <1>2 DEF BeginFormatted, Ready, Connected, Busy
<1>4. /\ pos \in Nat /\ f \in DOMAIN disk /\ disk[f] = Cells(u) /\ Cells(u) \in Seq(Nat)
      /\ Len(Cells(u)) \in Nat
  BY <1>1, <1>2, <1>3, UnitFacts DEF Cells
<1>5. PICK cells : cells = Cells(u)
  OBVIOUS
<1>6. Rewrites(f, cells) /\ Headed(Cells(u), cells, pos, pos)
  BY <1>3, <1>4, <1>5 DEF Rewrites, Headed
<1> QED BY <1>1, <1>2, <1>3, <1>4, <1>6, ConnectedBeginKept

LEMMA BeginUnformattedKept ==
  ASSUME IInv, RInv, NEW u \in Unit, BeginUnformatted(u)
  PROVE  RInv'
<1>1. PICK f : f = FileOf(u)
  OBVIOUS
<1>2. PICK pos : pos = unit[u].pos
  OBVIOUS
<1>3. /\ u \in DOMAIN unit /\ u \notin DOMAIN transfer /\ FormOf[f] = "unformatted"
      /\ \/ disk' = [disk EXCEPT ![f] = Put(@, pos, 0)] /\ Begin(u, "unformatted", pos + 1, pos)
         \/ UNCHANGED << disk, unit, transfer, records, clean >>
  BY <1>1, <1>2 DEF BeginUnformatted, Ready, Connected, Busy, history
<1>4. /\ pos \in Nat /\ f \in DOMAIN disk /\ disk[f] = Cells(u) /\ Cells(u) \in Seq(Nat)
      /\ Len(Cells(u)) \in Nat
  BY <1>1, <1>2, <1>3, UnitFacts DEF Cells
<1>5. CASE disk' = [disk EXCEPT ![f] = Put(@, pos, 0)] /\ Begin(u, "unformatted", pos + 1, pos)
  <2>1. PICK cells : cells = Put(Cells(u), pos, 0)
    OBVIOUS
  <2>2. /\ cells \in Seq(Nat)
        /\ Len(cells) = IF pos < Len(Cells(u)) THEN Len(Cells(u)) ELSE pos + 1
        /\ \A i \in 1 .. Len(Cells(u)) : i # pos + 1 => cells[i] = Cells(u)[i]
    BY <1>4, <2>1, PutFacts
  <2>3. Rewrites(f, cells)
    BY <1>4, <1>5, <2>1, <2>2 DEF Rewrites
  <2>4. PICK start \in Nat : start = pos + 1
    BY <1>4
  <2>5. Headed(Cells(u), cells, pos, start)
    BY <1>4, <2>2, <2>4 DEF Headed
  <2>6. PICK mode \in {"formatted", "unformatted"} : mode = "unformatted"
    OBVIOUS
  <2>7. /\ start = (IF mode = "unformatted" THEN pos + 1 ELSE pos) /\ mode = FormOf[f]
        /\ Begin(u, mode, start, pos)
    BY <1>3, <1>5, <2>4, <2>6
  <2> QED BY <1>1, <1>2, <1>3, <2>3, <2>5, <2>7, ConnectedBeginKept
<1>6. CASE UNCHANGED << disk, unit, transfer, records, clean >>
  <2>1. Quiet(u)
    BY <1>3, <1>6 DEF Quiet
  <2> QED BY <2>1, QuietKept
<1> QED BY <1>3, <1>5, <1>6

(***************************************************************************)
(* Nothing is in front of the start of a file.                             *)
(***************************************************************************)
LEMMA NothingBefore ==
  ASSUME NEW f, NEW log \in Logs, LogEnd(f, log) <= 0
  PROVE  \A cells : LaidOut(f, log, cells)
<1>1. Len(log) = 0
  <2>1. SUFFICES ASSUME Len(log) # 0 PROVE FALSE
    OBVIOUS
  <2>2. Len(log) \in Nat /\ EndsOf(f, log)[0] = 0
    BY EndsFacts
  <2>3. 0 \in 0 .. Len(log) /\ Len(log) \in 0 .. Len(log) /\ 0 < Len(log)
    BY <2>1, <2>2
  <2>4. 0 < LogEnd(f, log)
    BY <2>2, <2>3, EndsGrow DEF LogEnd
  <2>5. LogEnd(f, log) \in Nat
    BY LogEndFacts
  <2> QED BY <2>4, <2>5
<1> QED BY <1>1 DEF LaidOut

LEMMA BeginImplicitlyKept ==
  ASSUME IInv, RInv, NEW u \in Unit, BeginImplicitly(u)
  PROVE  RInv'
<1>1. PICK f : f = DefaultName[u]
  OBVIOUS
<1>2. PICK cells : cells = IF f \in DOMAIN disk THEN disk[f] ELSE << >>
  OBVIOUS
<1>3. PICK whole \in BOOLEAN : whole <=> cells = << >>
  OBVIOUS
<1>4. /\ u \notin DOMAIN unit /\ Unshared(u, f) /\ disk' = With(disk, f, cells)
      /\ unit' = With(unit, u, Entry(f, "sequential", "write", 0))
      /\ transfer' = With(transfer, u, Started("formatted", 0, 0, TRUE))
      /\ Cut(f, 0, cells = << >>)
  BY <1>1, <1>2 DEF BeginImplicitly, ImplicitOpen, Connected
<1>5. f \in File /\ FormOf[f] = "formatted"
  BY <1>1, FileAssumption DEF File
<1>6. cells \in Seq(Nat) /\ Len(cells) \in Nat
  <2>1. f \in DOMAIN disk => disk[f] \in Seq(Nat)
    BY DEF IInv, FileSound
  <2>2. << >> \in Seq(Nat)
    OBVIOUS
  <2> QED BY <1>2, <2>1, <2>2, LenProperties
<1>7. /\ Kept(f, 0) \in Logs /\ LogEnd(f, Kept(f, 0)) \in Nat /\ LogEnd(f, Kept(f, 0)) <= 0
  BY <1>5, KeptHistory
<1>8. LaidOut(f, Kept(f, 0), cells) /\ LogEnd(f, Kept(f, 0)) = 0
  BY <1>7, NothingBefore
<1>9. /\ u \in DOMAIN transfer' /\ transfer'[u].mode = "formatted" /\ transfer'[u].start = 0
      /\ transfer'[u].inOrder = TRUE
      /\ \A v \in DOMAIN transfer : v \in DOMAIN transfer' /\ (v # u => transfer'[v] = transfer[v])
      /\ \A v \in DOMAIN transfer' : v # u => v \in DOMAIN transfer
  BY <1>4 DEF With, Started
<1>10. /\ unit'[u].pos = 0 /\ FileOf(u)' = f
       /\ \A v \in DOMAIN unit : v # u => unit'[v] = unit[v]
  BY <1>4 DEF With, Entry, FileOf
<1>11. /\ disk'[f] = cells /\ f \in DOMAIN disk'
       /\ \A g \in DOMAIN disk : g # f => g \in DOMAIN disk' /\ disk'[g] = disk[g]
       /\ \A g \in DOMAIN disk' : g # f => g \in DOMAIN disk
  BY <1>4 DEF With
<1>12. FileStep(u, f)
  <2>1. \A v \in DOMAIN transfer : v \in DOMAIN unit /\ v # u
    BY <1>4, TransferFacts
  <2>2. \A v \in DOMAIN unit : v # u => FileOf(v) # f
    BY <1>4 DEF Unshared
  <2> QED BY <1>9, <1>10, <1>11, <2>1, <2>2 DEF FileStep
<1>13. Cut(f, 0, whole)
  BY <1>3, <1>4 DEF Cut
<1>14. whole => 0 = Len(cells)
  BY <1>3
<1>15. PICK pos \in Nat : pos = 0
  OBVIOUS
<1>16. PICK mode \in {"formatted", "unformatted"} : mode = "formatted"
  OBVIOUS
<1>17. PICK inOrder \in BOOLEAN : inOrder
  OBVIOUS
<1>18. /\ mode = FormOf[f] /\ pos = (IF mode = "unformatted" THEN pos + 1 ELSE pos)
       /\ u \in DOMAIN transfer' /\ transfer'[u].mode = mode /\ transfer'[u].start = pos
       /\ transfer'[u].inOrder = inOrder /\ unit'[u].pos = pos /\ FileOf(u)' = f
       /\ cells \in Seq(Nat) /\ disk'[f] = cells /\ f \in File
  BY <1>5, <1>6, <1>9, <1>10, <1>11, <1>15, <1>16, <1>17
<1>19. /\ inOrder => LogEnd(f, Kept(f, pos)) = pos /\ pos <= Len(cells)
       /\ whole => inOrder /\ pos = Len(cells)
       /\ LaidOut(f, Kept(f, pos), cells) /\ Cut(f, pos, whole)
  BY <1>6, <1>8, <1>13, <1>14, <1>15, <1>17
<1> QED BY <1>12, <1>18, <1>19, BeginKept, SMTT(60)

LEMMA BeginDirectKept ==
  ASSUME IInv, RInv, NEW u \in Unit, NEW record \in Record, BeginDirect(u, record)
  PROVE  RInv'
<1>1. PICK f : f = FileOf(u)
  OBVIOUS
<1>2. PICK start : start = Offset(record)
  OBVIOUS
<1>3. /\ u \in DOMAIN unit /\ u \notin DOMAIN transfer
      /\ unit' = [unit EXCEPT ![u].pos = start]
      /\ transfer' = With(transfer, u, Started("direct", start, record, FALSE))
      /\ records' = [records EXCEPT ![f] = Kept(f, start)]
      /\ clean' = [clean EXCEPT ![f] = FALSE] /\ UNCHANGED disk
  BY <1>1, <1>2 DEF BeginDirect, Ready, Connected, Busy
<1>4. /\ f \in File /\ f \in DOMAIN disk /\ disk[f] \in Seq(Nat) /\ unit[u] \in Entries
      /\ \A v \in DOMAIN unit : v # u => FileOf(v) # f
  BY <1>1, <1>3, UnitFacts DEF Cells
<1>5. start \in Nat
  <2>1. record \in Nat \ {0} /\ record + 1 \in Nat \ {0} /\ record + 1 # record
    BY TransferAssumption
  <2> QED BY <1>2, <2>1, RecordsApart
<1>6. PICK log : log = Kept(f, start)
  OBVIOUS
<1>7. /\ log \in Logs /\ Unbroken(f, log) /\ LogEnd(f, log) \in Nat /\ LogEnd(f, log) <= start
      /\ LogEnd(f, log) <= LogEnd(f, records[f])
      /\ \A new : Agree(disk[f], new, LogEnd(f, log)) => LaidOut(f, log, new)
  BY <1>4, <1>5, <1>6, KeptHistory
<1>8. LaidOut(f, log, disk[f])
  <2>1. LogEnd(f, records[f]) \in Nat /\ LogEnd(f, records[f]) <= Len(disk[f])
    BY <1>4, HistoryFacts, LogEndFacts, LaidOutEnds
  <2>2. Len(disk[f]) \in Nat
    BY <1>4, LenProperties
  <2>3. Agree(disk[f], disk[f], LogEnd(f, log))
    BY <1>7, <2>1, <2>2 DEF Agree
  <2> QED BY <1>7, <2>3
<1>9. /\ u \in DOMAIN transfer' /\ transfer'[u].mode = "direct" /\ transfer'[u].start = start
      /\ \A v \in DOMAIN transfer : v \in DOMAIN transfer' /\ (v # u => transfer'[v] = transfer[v])
      /\ \A v \in DOMAIN transfer' : v # u => v \in DOMAIN transfer
  BY <1>3 DEF With, Started
<1>10. /\ unit'[u].pos = start /\ FileOf(u)' = f
       /\ \A v \in DOMAIN unit : v # u => unit'[v] = unit[v]
  BY <1>1, <1>3, <1>4 DEF FileOf, Entries
<1>11. FileStep(u, f)
  <2>1. \A v \in DOMAIN transfer : v \in DOMAIN unit /\ v # u
    BY <1>3, TransferFacts
  <2> QED BY <1>3, <1>4, <1>9, <1>10, <2>1 DEF FileStep
<1>12. records' = [records EXCEPT ![f] = log] /\ records'[f] = log /\ clean'[f] = FALSE
  BY <1>3, <1>4, <1>6 DEF RInv
<1>13. WriteSound(u)'
  BY <1>7, <1>9, <1>10, <1>12 DEF WriteSound
<1>14. f \in DOMAIN disk' => LaidOut(f, log, disk'[f])
  BY <1>3, <1>8
<1> QED BY <1>3, <1>4, <1>7, <1>11, <1>12, <1>13, <1>14, FileStepKept

-----------------------------------------------------------------------------
(* The history in the middle and at the end of a WRITE.                    *)

\* Where the record of a WRITE starts, its header included.
Base(u) == IF transfer[u].mode = "unformatted" THEN transfer[u].start - 1 ELSE transfer[u].start

\* Nothing in front of cell number n of the file is written over.
Behind(old, new, n) ==
  /\ new \in Seq(Nat) /\ Len(old) <= Len(new)
  /\ \A i \in 1 .. Len(old) : i <= n => new[i] = old[i]

LEMMA WriteFacts ==
  ASSUME IInv, RInv, NEW u \in DOMAIN transfer, NEW f, f = FileOf(u)
  PROVE  LET pos == unit[u].pos
             start == transfer[u].start
             old == Cells(u)
             end == LogEnd(f, records[f]) IN
         /\ u \in DOMAIN unit /\ u \in Unit /\ f \in File /\ f \in DOMAIN disk
         /\ unit[u] \in Entries /\ transfer[u] \in Transfers
         /\ old = disk[f] /\ old \in Seq(Nat) /\ Len(old) \in Nat
         /\ records[f] \in Logs /\ clean[f] \in BOOLEAN /\ Unbroken(f, records[f])
         /\ end \in Nat /\ start \in Nat /\ pos \in Nat
         /\ end <= Base(u) /\ Base(u) <= start /\ start <= pos /\ Base(u) \in Nat
         /\ end <= Len(old)
         /\ \A new : Behind(old, new, Base(u)) => LaidOut(f, records[f], new)
<1>1. /\ u \in DOMAIN unit /\ u \in Unit /\ f \in File /\ f \in DOMAIN disk
      /\ unit[u] \in Entries /\ transfer[u] \in Transfers
      /\ Cells(u) = disk[f] /\ Cells(u) \in Seq(Nat) /\ Len(Cells(u)) \in Nat
      /\ transfer[u].start \in Nat /\ unit[u].pos \in Nat
      /\ transfer[u].start <= unit[u].pos
      /\ transfer[u].mode = "unformatted" => transfer[u].start >= 1
  BY TransferFacts, UnitFacts DEF Cells
<1>2. /\ records[f] \in Logs /\ clean[f] \in BOOLEAN /\ Unbroken(f, records[f])
      /\ LaidOut(f, records[f], Cells(u))
  BY <1>1, HistoryFacts
<1>3. LogEnd(f, records[f]) \in Nat /\ LogEnd(f, records[f]) <= Len(Cells(u))
  BY <1>1, <1>2, LogEndFacts, LaidOutEnds
<1>4. Base(u) \in Nat /\ Base(u) <= transfer[u].start
  BY <1>1 DEF Base
<1>5. LogEnd(f, records[f]) <= Base(u)
  BY DEF RInv, WriteSound, Base
<1>6. ASSUME NEW new, Behind(Cells(u), new, Base(u)) PROVE LaidOut(f, records[f], new)
  <2>1. PICK end \in Nat : end = LogEnd(f, records[f])
    BY <1>3
  <2>2. PICK old : old = Cells(u)
    OBVIOUS
  <2>3. Len(new) \in Nat
    BY <1>6, LenProperties DEF Behind
  <2>4. Agree(old, new, end)
    BY <1>1, <1>3, <1>4, <1>5, <1>6, <2>1, <2>2, <2>3, SMTT(60) DEF Agree, Behind
  <2> QED BY <1>2, <2>1, <2>2, <2>4, LaidOutSame
<1> QED BY <1>1, <1>2, <1>3, <1>4, <1>5, <1>6

(***************************************************************************)
(* What is written goes where it is written.                               *)
(***************************************************************************)
LEMMA PutBehind ==
  ASSUME NEW old \in Seq(Nat), NEW pos \in Nat, NEW cell \in Nat, NEW n \in Nat, n <= pos
  PROVE  Behind(old, Put(old, pos, cell), n) /\ Put(old, pos, cell)[pos + 1] = cell
<1>1. Len(old) \in Nat
  BY LenProperties
<1>2. PICK new : new = Put(old, pos, cell)
  OBVIOUS
<1>3. /\ new \in Seq(Nat) /\ Len(new) = IF pos < Len(old) THEN Len(old) ELSE pos + 1
      /\ \A i \in 1 .. Len(old) : i # pos + 1 => new[i] = old[i]
  BY <1>2, PutFacts
<1>4. new[pos + 1] = cell
  <2>1. pos + 1 \in 1 .. (IF pos < Len(old) THEN Len(old) ELSE pos + 1)
    BY <1>1
  <2> QED BY <1>2, <2>1 DEF Put
<1>5. Behind(old, new, n)
  BY <1>1, <1>3 DEF Behind
<1> QED BY <1>2, <1>4, <1>5

\* The end of a WRITE, or a step of one, changes nothing but its unit.
LEMMA OwnFileStep ==
  ASSUME IInv, NEW u \in DOMAIN transfer, NEW f, f = FileOf(u), NEW cells, Rewrites(f, cells),
         DOMAIN unit' = DOMAIN unit, FileOf(u)' = f,
         \A v \in DOMAIN unit : v # u => unit'[v] = unit[v],
         \A v \in DOMAIN transfer : v # u => v \in DOMAIN transfer' /\ transfer'[v] = transfer[v],
         \A v \in DOMAIN transfer' : v \in DOMAIN transfer
  PROVE  FileStep(u, f)
<1>1. \A v \in DOMAIN transfer : v \in DOMAIN unit
  BY TransferFacts
<1>2. \A v \in DOMAIN unit : v # u => FileOf(v) # f
  BY <1>1, UnitFacts
<1> QED BY <1>1, <1>2 DEF FileStep, Rewrites

\* An item is written.
LEMMA CellKept ==
  ASSUME IInv, RInv, NEW u \in DOMAIN transfer, NEW f, f = FileOf(u), NEW w \in Nat,
         FormOf[f] = "formatted" => w # Newline,
         NEW pos, pos = unit[u].pos, disk' = [disk EXCEPT ![f] = Put(@, pos, w)],
         Position(u, pos + 1), UNCHANGED << transfer, records, clean >>
  PROVE  RInv'
<1>1. PICK start : start = transfer[u].start
  OBVIOUS
<1>2. PICK old : old = Cells(u)
  OBVIOUS
<1>3. PICK log : log = records[f]
  OBVIOUS
<1>4. /\ u \in DOMAIN unit /\ u \in Unit /\ f \in File /\ f \in DOMAIN disk /\ unit[u] \in Entries
      /\ old = disk[f] /\ old \in Seq(Nat) /\ Len(old) \in Nat
      /\ log \in Logs /\ clean[f] \in BOOLEAN /\ Unbroken(f, log)
      /\ start \in Nat /\ pos \in Nat /\ Base(u) \in Nat /\ Base(u) <= start /\ start <= pos
      /\ \A new : Behind(old, new, Base(u)) => LaidOut(f, log, new)
  BY <1>1, <1>2, <1>3, WriteFacts
<1>5. PICK new : new = Put(old, pos, w)
  OBVIOUS
<1>6. /\ Behind(old, new, pos) /\ Behind(old, new, Base(u)) /\ new[pos + 1] = w
      /\ new \in Seq(Nat) /\ Len(new) = IF pos < Len(old) THEN Len(old) ELSE pos + 1
  <2>1. PICK base \in Nat : base = Base(u)
    BY <1>4
  <2>2. base <= pos /\ pos <= pos
    BY <1>4, <2>1
  <2>3. Behind(old, Put(old, pos, w), base) /\ Put(old, pos, w)[pos + 1] = w
    BY <1>4, <2>2, PutBehind
  <2>4. Behind(old, Put(old, pos, w), pos)
    BY <1>4, <2>2, PutBehind
  <2>5. /\ Put(old, pos, w) \in Seq(Nat)
        /\ Len(Put(old, pos, w)) = IF pos < Len(old) THEN Len(old) ELSE pos + 1
    BY <1>4, PutFacts
  <2> QED BY <1>5, <2>1, <2>3, <2>4, <2>5
<1>7. Rewrites(f, new)
  BY <1>4, <1>5, <1>6 DEF Rewrites
<1>8. /\ unit'[u].pos = pos + 1 /\ FileOf(u)' = f /\ DOMAIN unit' = DOMAIN unit
      /\ \A v \in DOMAIN unit : v # u => unit'[v] = unit[v]
  BY <1>4 DEF Position, Entries, FileOf
<1>9. FileStep(u, f)
  BY <1>7, <1>8, OwnFileStep
<1>10. Cells(u)' = new /\ LaidOut(f, log, disk'[f])
  BY <1>4, <1>6, <1>7, <1>8 DEF Cells, Rewrites
<1>11. WriteSound(u)'
  <2>1. PICK end : end = LogEnd(f, log)
    OBVIOUS
  <2>2. PICK t : t = transfer[u]
    OBVIOUS
  <2>3. WriteSound(u)
    BY DEF RInv
  <2>4. /\ end <= Base(u) /\ (t.mode = "direct" => ~ clean[f])
        /\ t.mode # "direct" =>
             /\ t.mode = FormOf[f]
             /\ clean[f] => t.inOrder /\ pos = Len(old)
             /\ t.inOrder => end = Base(u) /\ pos <= Len(old)
             /\ t.mode = "formatted" /\ t.inOrder =>
                  \A i \in start + 1 .. pos : old[i] # Newline
    BY <1>1, <1>2, <1>3, <2>1, <2>2, <2>3 DEF WriteSound, Base
  <2>5. clean[f] /\ pos = Len(old) => pos + 1 = Len(new)
    BY <1>4, <1>6
  <2>6. pos <= Len(old) => pos + 1 <= Len(new)
    BY <1>4, <1>6
  <2>7. t.mode = "formatted" /\ t.inOrder => \A i \in start + 1 .. pos + 1 : new[i] # Newline
    <3> SUFFICES ASSUME t.mode = "formatted", t.inOrder, NEW i \in start + 1 .. pos + 1
                 PROVE  new[i] # Newline
      OBVIOUS
    <3>1. CASE i = pos + 1
      <4>1. FormOf[f] = "formatted"
        BY <2>4
      <4> QED BY <1>6, <3>1, <4>1
    <3>2. CASE i # pos + 1
      <4>1. i \in start + 1 .. pos /\ i \in 1 .. pos
        BY <1>4, <3>2
      <4>2. pos <= Len(old) /\ old[i] # Newline
        BY <2>4, <4>1
      <4>3. i \in 1 .. Len(old) /\ i <= pos
        BY <1>4, <4>1, <4>2
      <4> QED BY <1>6, <4>2, <4>3 DEF Behind
    <3> QED BY <3>1, <3>2
  <2>8. /\ FileOf(u)' = f /\ transfer'[u] = t /\ unit'[u].pos = pos + 1 /\ Cells(u)' = new
        /\ records'[f] = log /\ clean'[f] = clean[f]
    BY <1>3, <1>8, <1>10, <2>2
  <2>9. PICK base : base = Base(u)
    OBVIOUS
  <2>10. base = IF t.mode = "unformatted" THEN t.start - 1 ELSE t.start
    BY <2>2, <2>9 DEF Base
  <2>11. start = t.start
    BY <1>1, <2>2
  <2>12. /\ t.mode # "direct" => (clean[f] => t.inOrder /\ pos + 1 = Len(new))
         /\ t.mode # "direct" => (t.inOrder => end = base /\ pos + 1 <= Len(new))
    BY <2>4, <2>5, <2>6, <2>9
  <2> QED BY <2>1, <2>4, <2>7, <2>8, <2>9, <2>10, <2>11, <2>12 DEF WriteSound
<1>12. records' = [records EXCEPT ![f] = log] /\ clean' = [clean EXCEPT ![f] = clean[f]]
  BY <1>3, <1>4 DEF RInv
<1>13. u \in DOMAIN transfer'
  OBVIOUS
<1>14. PICK whole \in BOOLEAN : whole = clean[f]
  BY <1>4
<1>15. clean' = [clean EXCEPT ![f] = whole]
  BY <1>12, <1>14
<1>16. records' = [records EXCEPT ![f] = log] /\ (f \in DOMAIN disk' => LaidOut(f, log, disk'[f]))
  BY <1>10, <1>12
<1> QED BY <1>4, <1>9, <1>11, <1>13, <1>15, <1>16, FileStepKept

\* An item fails.
LEMMA FailedItemKept ==
  ASSUME IInv, RInv, NEW u \in DOMAIN transfer, NEW f, f = FileOf(u),
         transfer' = [transfer EXCEPT ![u].ok = FALSE],
         clean' = [clean EXCEPT ![f] = @ /\ transfer[u].mode = "unformatted"],
         UNCHANGED << disk, unit, records >>
  PROVE  RInv'
<1>1. PICK old : old = Cells(u)
  OBVIOUS
<1>2. PICK log : log = records[f]
  OBVIOUS
<1>3. /\ u \in DOMAIN unit /\ u \in Unit /\ f \in File /\ f \in DOMAIN disk
      /\ transfer[u] \in Transfers /\ old = disk[f] /\ old \in Seq(Nat)
      /\ log \in Logs /\ clean[f] \in BOOLEAN /\ Unbroken(f, log) /\ LaidOut(f, log, old)
  BY <1>1, <1>2, WriteFacts, HistoryFacts
<1>4. PICK whole \in BOOLEAN : whole <=> clean[f] /\ transfer[u].mode = "unformatted"
  OBVIOUS
<1>5. records' = [records EXCEPT ![f] = log] /\ clean' = [clean EXCEPT ![f] = whole]
  BY <1>2, <1>3, <1>4 DEF RInv
<1>6. Rewrites(f, old) /\ FileOf(u)' = f /\ LaidOut(f, log, disk'[f])
  BY <1>3 DEF Rewrites, FileOf
<1>7. /\ u \in DOMAIN transfer' /\ transfer'[u].mode = transfer[u].mode
      /\ transfer'[u].start = transfer[u].start /\ transfer'[u].inOrder = transfer[u].inOrder
      /\ \A v \in DOMAIN transfer : v # u => v \in DOMAIN transfer' /\ transfer'[v] = transfer[v]
      /\ \A v \in DOMAIN transfer' : v \in DOMAIN transfer
  BY <1>3 DEF Transfers
<1>8. FileStep(u, f)
  BY <1>6, <1>7, OwnFileStep
<1>9. WriteSound(u)'
  <2>1. WriteSound(u)
    BY DEF RInv
  <2>2. /\ Cells(u)' = Cells(u) /\ records'[f] = records[f] /\ unit'[u] = unit[u]
        /\ clean'[f] = whole
    BY <1>3, <1>5, <1>6 DEF Cells, RInv
  <2> QED BY <1>4, <1>6, <1>7, <2>1, <2>2 DEF WriteSound
<1> QED BY <1>3, <1>5, <1>6, <1>7, <1>8, <1>9, FileStepKept

LEMMA WriteItemKept ==
  ASSUME IInv, RInv, NEW u \in Unit, NEW w \in Word, WriteItem(u, w)
  PROVE  RInv'
<1>1. PICK f : f = FileOf(u)
  OBVIOUS
<1>2. PICK pos : pos = unit[u].pos
  OBVIOUS
<1>3. /\ u \in DOMAIN transfer /\ w \in Nat /\ (FormOf[f] = "formatted" => w # Newline)
      /\ UNCHANGED records
      /\ \/ /\ disk' = [disk EXCEPT ![f] = Put(@, pos, w)] /\ Position(u, pos + 1)
            /\ UNCHANGED << transfer, clean >>
         \/ /\ transfer' = [transfer EXCEPT ![u].ok = FALSE]
            /\ clean' = [clean EXCEPT ![f] = @ /\ transfer[u].mode = "unformatted"]
            /\ UNCHANGED << disk, unit >>
  BY <1>1, <1>2, TransferAssumption DEF WriteItem, Busy
<1>4. CASE /\ disk' = [disk EXCEPT ![f] = Put(@, pos, w)] /\ Position(u, pos + 1)
           /\ UNCHANGED << transfer, clean >>
  BY <1>1, <1>2, <1>3, <1>4, CellKept
<1>5. CASE /\ transfer' = [transfer EXCEPT ![u].ok = FALSE]
           /\ clean' = [clean EXCEPT ![f] = @ /\ transfer[u].mode = "unformatted"]
           /\ UNCHANGED << disk, unit >>
  BY <1>1, <1>3, <1>5, FailedItemKept
<1> QED BY <1>3, <1>4, <1>5

LEMMA OutputLostKept ==
  ASSUME IInv, RInv, Backed, NEW u \in Unit, OutputLost(u)
  PROVE  RInv'
<1> SUFFICES ASSUME NEW f, f = FileOf(u), NEW t, t = transfer[u] PROVE RInv'
  OBVIOUS
<1>1. /\ u \in DOMAIN transfer /\ u \in DOMAIN buffer /\ u \in DOMAIN unit
      /\ t.mode = "formatted" /\ t.start \in Nat
      /\ \A v \in DOMAIN transfer : v # u => v \in DOMAIN transfer' /\ transfer'[v] = transfer[v]
      /\ \A v \in DOMAIN transfer' : v # u => v \in DOMAIN transfer
  BY OutputLostFacts
<1>2. PICK m \in Nat :
        /\ DropTo(u, m) /\ Drop(u, m)
        /\ unit'[u] \in Entries /\ unit'[u] = [unit[u] EXCEPT !.pos = m]
        /\ FileOf(u)' = f /\ u \in DOMAIN unit'
        /\ \A v \in DOMAIN unit : v # u => unit'[v] = unit[v]
        /\ u \in DOMAIN transfer' =>
             /\ transfer'[u] \in Transfers /\ transfer'[u].mode = "formatted"
             /\ ~ transfer'[u].ok /\ ~ transfer'[u].inOrder
             /\ transfer'[u].start <= m
             /\ transfer'[u].start = IF m < t.start THEN m ELSE t.start
  BY OutputLostFacts
<1>3. ASSUME u \in DOMAIN transfer' PROVE WriteSound(u)'
  <2>1. f \in File /\ LogEnd(f, records[f]) \in Nat /\ LogEnd(f, records[f]) <= t.start
    BY <1>1, WriteFacts DEF Base
  <2>2. PICK end \in Nat : end = LogEnd(f, Kept(f, m))
    BY <2>1, KeptHistory
  <2>3. end <= m /\ end <= t.start
    <3>1. end <= m /\ end <= LogEnd(f, records[f])
      BY <2>1, <2>2, KeptHistory
    <3> QED BY <1>1, <2>1, <3>1
  <2>4. records'[f] = Kept(f, m) /\ clean'[f] = FALSE
    BY <1>2, <2>1 DEF Drop, Cut, RInv
  <2>5. FormOf[f] = "formatted"
    BY <1>1 DEF RInv, WriteSound
  <2>6. LogEnd(f, records'[f]) <= transfer'[u].start
    BY <1>2, <1>3, <2>2, <2>3, <2>4
  <2> QED BY <1>2, <1>3, <2>4, <2>5, <2>6 DEF WriteSound
<1> QED BY <1>1, <1>2, <1>3, DropKept

(***************************************************************************)
(* The end of a WRITE keeps the history true if the log it leaves is in    *)
(* the file then.                                                          *)
(***************************************************************************)
LEMMA FinishKept ==
  ASSUME IInv, RInv, NEW u \in DOMAIN transfer, NEW f, f = FileOf(u),
         NEW pos, NEW cells \in Seq(Nat), Finish(u, pos, cells),
         NEW log \in Logs, Unbroken(f, log), LaidOut(f, log, cells),
         NEW whole \in BOOLEAN, whole => Len(cells) = LogEnd(f, log),
         records' = [records EXCEPT ![f] = log], clean' = [clean EXCEPT ![f] = whole]
  PROVE  RInv'
<1>1. u \in DOMAIN unit /\ u \in Unit /\ f \in File /\ f \in DOMAIN disk /\ unit[u] \in Entries
  BY WriteFacts
<1>2. Rewrites(f, cells)
  BY <1>1 DEF Finish, Rewrites
<1>3. /\ DOMAIN unit' = DOMAIN unit /\ FileOf(u)' = f
      /\ \A v \in DOMAIN unit : v # u => unit'[v] = unit[v]
  BY <1>1 DEF Finish, FileOf, Entries
<1>4. /\ u \notin DOMAIN transfer'
      /\ \A v \in DOMAIN transfer : v # u => v \in DOMAIN transfer' /\ transfer'[v] = transfer[v]
      /\ \A v \in DOMAIN transfer' : v \in DOMAIN transfer
  BY DEF Finish, Without, Restrict
<1>5. FileStep(u, f)
  BY <1>2, <1>3, <1>4, OwnFileStep
<1>6. disk'[f] = cells
  BY <1>2 DEF Rewrites
<1> QED BY <1>1, <1>4, <1>5, <1>6, FileStepKept

(***************************************************************************)
(* If it left no record, the file is no longer clean, or was not.          *)
(***************************************************************************)
LEMMA UnrecordedKept ==
  ASSUME IInv, RInv, NEW u \in DOMAIN transfer, NEW f, f = FileOf(u),
         NEW pos, NEW cells, Finish(u, pos, cells), Behind(Cells(u), cells, Base(u)),
         UNCHANGED records,
         clean' = [clean EXCEPT ![f] = FALSE]
  PROVE  RInv'
<1>1. PICK log : log = records[f]
  OBVIOUS
<1>2. log \in Logs /\ Unbroken(f, log) /\ LaidOut(f, log, cells)
  BY <1>1, WriteFacts
<1>3. records' = [records EXCEPT ![f] = log]
  BY <1>1 DEF RInv
<1>4. cells \in Seq(Nat)
  BY DEF Behind
<1>5. FALSE \in BOOLEAN /\ (FALSE => Len(cells) = LogEnd(f, log))
  OBVIOUS
<1> QED BY <1>2, <1>3, <1>4, <1>5, FinishKept

LEMMA LongerLog ==
  ASSUME NEW log \in Logs, NEW record \in Seq(Nat)
  PROVE  /\ Len(log) \in Nat /\ DOMAIN log = 1 .. Len(log)
         /\ DOMAIN Append(log, record) = 1 .. Len(log) + 1
         /\ Append(log, record)[Len(log) + 1] = record
         /\ \A j \in 1 .. Len(log) : Append(log, record)[j] = log[j]
<1>0. PICK more : more = Append(log, record)
  OBVIOUS
<1>1. PICK n \in Nat : n = Len(log)
  BY EndsFacts
<1>2. /\ more \in Logs /\ Len(more) = n + 1 /\ more[n + 1] = record
      /\ \A k \in 1 .. n : more[k] = log[k]
  BY <1>0, <1>1, AppendProperties DEF Logs
<1>3. DOMAIN log = 1 .. n /\ DOMAIN more = 1 .. n + 1
  BY <1>1, <1>2, LenProperties DEF Logs
<1> QED BY <1>0, <1>1, <1>2, <1>3

(***************************************************************************)
(* If it left one and was in order, the record is behind the others.       *)
(***************************************************************************)
LEMMA RecordedKept ==
  ASSUME IInv, RInv, NEW u \in DOMAIN transfer, NEW f, f = FileOf(u),
         transfer[u].mode # "direct", Recorded(u),
         NEW pos, NEW cells, Finish(u, pos, cells), Behind(Cells(u), cells, Base(u)),
         NEW record, record = SubSeq(Cells(u), transfer[u].start + 1, unit[u].pos),
         transfer[u].inOrder =>
           /\ record \in Seq(Nat) /\ Holds(f, record, cells, Base(u))
           /\ FormOf[f] = "formatted" => \A i \in 1 .. Len(record) : record[i] # Newline
           /\ unit[u].pos = Len(Cells(u)) => Len(cells) = Base(u) + Size(f, record)
  PROVE  RInv'
<1>1. PICK old : old = records[f]
  OBVIOUS
<1>2. /\ old \in Logs /\ Unbroken(f, old) /\ LaidOut(f, old, cells)
      /\ transfer[u] \in Transfers /\ f \in File /\ clean[f] \in BOOLEAN
  BY <1>1, WriteFacts
<1>3. /\ clean[f] => transfer[u].inOrder /\ unit[u].pos = Len(Cells(u))
      /\ transfer[u].inOrder => LogEnd(f, old) = Base(u)
  BY <1>1 DEF RInv, WriteSound, Base
<1>4. cells \in Seq(Nat)
  BY DEF Behind
<1>5. PICK whole \in BOOLEAN : whole = clean[f]
  BY <1>2
<1>6. clean' = [clean EXCEPT ![f] = whole]
  BY <1>5 DEF RInv, Recorded
<1>7. CASE transfer[u].inOrder
  <2>1. PICK log : log = Append(old, record)
    OBVIOUS
  <2>2. LogEnd(f, old) = Base(u) /\ record \in Seq(Nat) /\ Holds(f, record, cells, LogEnd(f, old))
    BY <1>3, <1>7
  <2>3. /\ log \in Logs /\ LaidOut(f, log, cells) /\ LogEnd(f, log) = Base(u) + Size(f, record)
    <3>1. /\ Append(old, record) \in Logs /\ LaidOut(f, Append(old, record), cells)
          /\ LogEnd(f, Append(old, record)) = LogEnd(f, old) + Size(f, record)
      BY <1>2, <2>2, AppendLaidOut
    <3> QED BY <2>1, <2>2, <3>1
  <2>4. Unbroken(f, log)
    <3> SUFFICES ASSUME FormOf[f] = "formatted", NEW k \in DOMAIN log, NEW i \in DOMAIN log[k]
                 PROVE  log[k][i] # Newline
      BY DEF Unbroken
    <3>1. /\ Len(old) \in Nat /\ DOMAIN old = 1 .. Len(old)
          /\ DOMAIN log = 1 .. Len(old) + 1 /\ log[Len(old) + 1] = record
          /\ \A j \in 1 .. Len(old) : log[j] = old[j]
      <4>1. old \in Logs /\ record \in Seq(Nat)
        BY <1>2, <2>2
      <4>2. /\ Len(old) \in Nat /\ DOMAIN old = 1 .. Len(old)
            /\ DOMAIN Append(old, record) = 1 .. Len(old) + 1
            /\ Append(old, record)[Len(old) + 1] = record
            /\ \A j \in 1 .. Len(old) : Append(old, record)[j] = old[j]
        BY <4>1, LongerLog
      <4> QED BY <2>1, <4>2
    <3>2. CASE k = Len(old) + 1
      <4>1. log[k] = record /\ DOMAIN record = 1 .. Len(record)
        BY <2>2, <3>1, <3>2, LenProperties
      <4> QED BY <1>7, <4>1
    <3>3. CASE k # Len(old) + 1
      <4>1. k \in DOMAIN old /\ log[k] = old[k]
        BY <3>1, <3>3
      <4> QED BY <1>2, <4>1 DEF Unbroken
    <3> QED BY <3>2, <3>3
  <2>5. records' = [records EXCEPT ![f] = log]
    BY <1>1, <1>7, <2>1 DEF Recorded
  <2>6. whole => Len(cells) = LogEnd(f, log)
    BY <1>3, <1>5, <1>7, <2>3
  <2> QED BY <1>4, <1>6, <2>3, <2>4, <2>5, <2>6, FinishKept
<1>8. CASE ~ transfer[u].inOrder
  <2>1. records' = [records EXCEPT ![f] = old]
    BY <1>1, <1>8 DEF Recorded
  <2>2. whole => Len(cells) = LogEnd(f, old)
    BY <1>3, <1>5, <1>8
  <2> QED BY <1>2, <1>4, <1>6, <2>1, <2>2, FinishKept
<1> QED BY <1>7, <1>8

(***************************************************************************)
(* The payload of a WRITE in order, the cells from its start to the        *)
(* position.                                                               *)
(***************************************************************************)
LEMMA PayloadFacts ==
  ASSUME IInv, RInv, NEW u \in DOMAIN transfer, NEW f, f = FileOf(u), transfer[u].inOrder,
         transfer[u].mode # "direct",
         NEW record, record = SubSeq(Cells(u), transfer[u].start + 1, unit[u].pos)
  PROVE  /\ record \in Seq(Nat) /\ Len(record) = unit[u].pos - transfer[u].start
         /\ \A i \in 1 .. Len(record) : record[i] = Cells(u)[transfer[u].start + i]
         /\ transfer[u].start + Len(record) <= Len(Cells(u)) /\ unit[u].pos <= Len(Cells(u))
         /\ transfer[u].mode = "formatted" =>
              \A i \in 1 .. Len(record) : record[i] # Newline
<1>1. PICK start : start = transfer[u].start
  OBVIOUS
<1>2. PICK pos : pos = unit[u].pos
  OBVIOUS
<1>3. PICK old : old = Cells(u)
  OBVIOUS
<1>4. start \in Nat /\ pos \in Nat /\ start <= pos /\ old \in Seq(Nat) /\ Len(old) \in Nat
  BY <1>1, <1>2, <1>3, WriteFacts
<1>5. /\ pos <= Len(old)
      /\ transfer[u].mode = "formatted" => \A i \in start + 1 .. pos : old[i] # Newline
  BY <1>1, <1>2, <1>3 DEF RInv, WriteSound
<1>6. \A k \in start + 1 .. pos : old[k] \in Nat
  <2> TAKE k \in start + 1 .. pos
  <2>1. k \in 1 .. Len(old)
    BY <1>4, <1>5
  <2> QED BY <1>4, <2>1, ElementOfSeq
<1>7. /\ record \in Seq(Nat)
      /\ Len(record) = (IF start + 1 <= pos THEN pos - (start + 1) + 1 ELSE 0)
      /\ \A i \in 1 .. pos - (start + 1) + 1 : record[i] = old[(start + 1) + i - 1]
  <2>1. start + 1 \in Int /\ pos \in Int
    BY <1>4
  <2> QED BY <1>1, <1>2, <1>3, <1>6, <2>1, SubSeqProperties
<1>8. Len(record) = pos - start
  <2>1. start + 1 <= pos => pos - (start + 1) + 1 = pos - start
    BY <1>4
  <2>2. ~ (start + 1 <= pos) => 0 = pos - start
    BY <1>4
  <2> QED BY <1>7, <2>1, <2>2
<1>9. \A i \in 1 .. pos - start : record[i] = old[start + i]
  <2> TAKE i \in 1 .. pos - start
  <2>1. i \in 1 .. pos - (start + 1) + 1 /\ (start + 1) + i - 1 = start + i
    BY <1>4
  <2>2. record[i] = old[(start + 1) + i - 1]
    BY <1>7, <2>1
  <2> QED BY <2>1, <2>2
<1>10. transfer[u].mode = "formatted" => \A i \in 1 .. pos - start : record[i] # Newline
  <2> SUFFICES ASSUME transfer[u].mode = "formatted", NEW i \in 1 .. pos - start
               PROVE  record[i] # Newline
    OBVIOUS
  <2>1. start + i \in start + 1 .. pos
    BY <1>4
  <2> QED BY <1>5, <1>9, <2>1
<1>11. start + (pos - start) = pos
  BY <1>4
<1> QED BY <1>1, <1>2, <1>3, <1>5, <1>7, <1>8, <1>9, <1>10, <1>11

LEMMA EndFormattedKept == ASSUME IInv, RInv, NEW u \in Unit, EndFormatted(u) PROVE RInv'
<1>1. PICK f : f = FileOf(u)
  OBVIOUS
<1>2. PICK pos : pos = unit[u].pos
  OBVIOUS
<1>3. PICK start : start = transfer[u].start
  OBVIOUS
<1>4. PICK old : old = Cells(u)
  OBVIOUS
<1>5. u \in DOMAIN transfer /\ transfer[u].mode = "formatted" /\ transfer[u].mode # "direct"
  BY DEF EndFormatted, Writing, Busy
<1>6. /\ start \in Nat /\ pos \in Nat /\ start <= pos /\ Base(u) = start
      /\ old \in Seq(Nat) /\ Len(old) \in Nat
  BY <1>1, <1>2, <1>3, <1>4, <1>5, WriteFacts DEF Base
<1>7. PICK new : new = Put(old, pos, Newline)
  OBVIOUS
<1>8. /\ Behind(old, new, start) /\ new[pos + 1] = Newline /\ new \in Seq(Nat)
      /\ Len(new) = IF pos < Len(old) THEN Len(old) ELSE pos + 1
  <2>1. Newline \in Nat
    BY DEF Newline
  <2>2. Behind(old, new, start) /\ new[pos + 1] = Newline
    BY <1>6, <1>7, <2>1, PutBehind
  <2> QED BY <1>6, <1>7, <2>1, <2>2, PutFacts
<1>9. \/ Finish(u, pos + 1, new) /\ Recorded(u)
      \/ Finish(u, pos + 1, new) /\ Unrecorded(u)
      \/ Finish(u, pos, old) /\ Unrecorded(u)
  BY <1>2, <1>4, <1>7 DEF EndFormatted
<1>10. CASE Finish(u, pos + 1, new) /\ Recorded(u)
  <2>1. PICK record : record = SubSeq(Cells(u), transfer[u].start + 1, unit[u].pos)
    OBVIOUS
  <2>2. ASSUME transfer[u].inOrder
        PROVE  /\ record \in Seq(Nat) /\ Holds(f, record, new, Base(u))
               /\ FormOf[f] = "formatted" => \A i \in 1 .. Len(record) : record[i] # Newline
               /\ unit[u].pos = Len(Cells(u)) => Len(new) = Base(u) + Size(f, record)
    <3>1. FormOf[f] = "formatted"
      BY <1>1, <1>5 DEF RInv, WriteSound
    <3>2. PICK n : n = Len(record)
      OBVIOUS
    <3>3. /\ record \in Seq(Nat) /\ n = pos - start /\ pos <= Len(old)
          /\ \A i \in 1 .. n : record[i] = old[start + i]
          /\ \A i \in 1 .. n : record[i] # Newline
      BY <1>2, <1>3, <1>4, <1>5, <2>1, <2>2, <3>2, PayloadFacts
    <3>4. /\ Size(f, record) = n + 1
          /\ \A i \in 1 .. n : Encoded(f, record)[i] = record[i]
          /\ Encoded(f, record)[n + 1] = Newline
      <4>1. record \in Seq(Nat)
        BY <3>3
      <4> QED BY <3>1, <3>2, <4>1, EncodedFacts
    <3>5. \A i \in 1 .. n + 1 : new[start + i] = Encoded(f, record)[i]
      <4> TAKE i \in 1 .. n + 1
      <4>1. CASE i = n + 1
        <5>1. start + i = pos + 1
          BY <1>6, <3>3, <4>1
        <5> QED BY <1>8, <3>4, <4>1, <5>1
      <4>2. CASE i # n + 1
        <5>1. i \in 1 .. n
          BY <1>6, <3>3, <4>2
        <5>2. start + i \in 1 .. Len(old) /\ start + i # pos + 1
          BY <1>6, <3>3, <5>1
        <5>3. new[start + i] = old[start + i]
          BY <1>6, <1>7, <5>2, PutFacts DEF Newline
        <5> QED BY <3>3, <3>4, <5>1, <5>3
      <4> QED BY <4>1, <4>2
    <3>6. start + (n + 1) = pos + 1 /\ pos + 1 <= Len(new) /\ (pos = Len(old) => Len(new) = pos + 1)
      BY <1>6, <1>8, <3>3
    <3>7. Holds(f, record, new, start)
      BY <3>4, <3>5, <3>6 DEF Holds
    <3> QED BY <1>2, <1>4, <1>6, <3>2, <3>3, <3>4, <3>6, <3>7
  <2> QED BY <1>1, <1>4, <1>5, <1>6, <1>8, <1>10, <2>1, <2>2, RecordedKept
<1>11. CASE Unrecorded(u)
  <2>1. UNCHANGED records /\ clean' = [clean EXCEPT ![f] = FALSE]
    BY <1>1, <1>11 DEF Unrecorded
  <2>2. Behind(old, old, start)
    BY <1>6 DEF Behind
  <2> QED BY <1>1, <1>4, <1>5, <1>6, <1>8, <1>9, <1>10, <2>1, <2>2, UnrecordedKept
<1> QED BY <1>9, <1>10, <1>11

LEMMA EndUnformattedKept == ASSUME IInv, RInv, NEW u \in Unit, EndUnformatted(u) PROVE RInv'
<1>1. PICK f : f = FileOf(u)
  OBVIOUS
<1>2. PICK pos : pos = unit[u].pos
  OBVIOUS
<1>3. PICK start : start = transfer[u].start
  OBVIOUS
<1>4. PICK old : old = Cells(u)
  OBVIOUS
<1>5. u \in DOMAIN transfer /\ transfer[u].mode = "unformatted" /\ transfer[u].mode # "direct"
  BY DEF EndUnformatted, Writing, Busy
<1>6. /\ start \in Nat \ {0} /\ pos \in Nat /\ start <= pos
      /\ old \in Seq(Nat) /\ Len(old) \in Nat
  BY <1>1, <1>2, <1>3, <1>4, <1>5, WriteFacts, TransferFacts
<1>7. PICK base \in Nat : base = start - 1
  BY <1>6
<1>8. Base(u) = base /\ base + 1 = start /\ base <= pos
  BY <1>3, <1>5, <1>6, <1>7 DEF Base
<1>9. PICK length \in Nat : length = pos - start
  BY <1>6
<1>10. PICK trailed : trailed = Put(old, pos, length)
  OBVIOUS
<1>11. PICK new : new = Put(trailed, base, length)
  OBVIOUS
<1>12. /\ Behind(old, trailed, base) /\ trailed[pos + 1] = length /\ trailed \in Seq(Nat)
       /\ Len(trailed) = IF pos < Len(old) THEN Len(old) ELSE pos + 1
       /\ \A i \in 1 .. Len(old) : i # pos + 1 => trailed[i] = old[i]
  <2>1. Behind(old, trailed, base) /\ trailed[pos + 1] = length
    BY <1>6, <1>8, <1>10, PutBehind
  <2>2. /\ trailed \in Seq(Nat)
        /\ Len(trailed) = IF pos < Len(old) THEN Len(old) ELSE pos + 1
        /\ \A i \in 1 .. Len(old) : i # pos + 1 => trailed[i] = old[i]
    BY <1>6, <1>10, PutFacts
  <2> QED BY <2>1, <2>2
<1>13. Len(trailed) \in Nat /\ pos + 1 <= Len(trailed) /\ Len(old) <= Len(trailed)
  BY <1>6, <1>12
<1>14. /\ new \in Seq(Nat) /\ new[base + 1] = length /\ Len(new) = Len(trailed)
       /\ \A i \in 1 .. Len(trailed) : i # base + 1 => new[i] = trailed[i]
  <2>1. base < Len(trailed)
    BY <1>6, <1>8, <1>13
  <2>2. new[base + 1] = length
    <3>1. base <= base
      OBVIOUS
    <3> QED BY <1>11, <1>12, <3>1, PutBehind
  <2> QED BY <1>11, <1>12, <2>1, <2>2, PutFacts
<1>15. Behind(old, new, base)
  <2>1. ASSUME NEW i \in 1 .. Len(old), i <= base PROVE new[i] = old[i]
    <3>1. i \in 1 .. Len(trailed) /\ i # base + 1 /\ i # pos + 1
      BY <1>6, <1>8, <1>13, <2>1
    <3> QED BY <1>12, <1>14, <3>1
  <2> QED BY <1>13, <1>14, <2>1 DEF Behind
<1>16. \/ Finish(u, pos + 1, new) /\ Recorded(u)
       \/ Finish(u, pos, old) /\ Unrecorded(u)
       \/ Finish(u, base, trailed) /\ Unrecorded(u)
  BY <1>2, <1>3, <1>4, <1>7, <1>9, <1>10, <1>11 DEF EndUnformatted
<1>17. CASE Finish(u, pos + 1, new) /\ Recorded(u)
  <2>1. PICK record : record = SubSeq(Cells(u), transfer[u].start + 1, unit[u].pos)
    OBVIOUS
  <2>2. ASSUME transfer[u].inOrder
        PROVE  /\ record \in Seq(Nat) /\ Holds(f, record, new, base)
               /\ FormOf[f] = "formatted" => \A i \in 1 .. Len(record) : record[i] # Newline
               /\ unit[u].pos = Len(Cells(u)) => Len(new) = base + Size(f, record)
    <3>1. FormOf[f] # "formatted"
      BY <1>1, <1>5 DEF RInv, WriteSound
    <3>2. /\ record \in Seq(Nat) /\ Len(record) = length /\ pos <= Len(old)
          /\ \A i \in 1 .. length : record[i] = old[start + i]
      <4>1. /\ record \in Seq(Nat) /\ Len(record) = unit[u].pos - transfer[u].start
            /\ \A i \in 1 .. Len(record) : record[i] = Cells(u)[transfer[u].start + i]
            /\ unit[u].pos <= Len(Cells(u))
        BY <1>1, <1>5, <2>1, <2>2, PayloadFacts
      <4>2. Len(record) = length
        BY <1>2, <1>3, <1>9, <4>1
      <4> QED BY <1>2, <1>3, <1>4, <4>1, <4>2
    <3>3. /\ Size(f, record) = length + 2
          /\ Encoded(f, record)[1] = length
          /\ \A i \in 1 .. length : Encoded(f, record)[i + 1] = record[i]
          /\ Encoded(f, record)[length + 2] = length
      <4>1. record \in Seq(Nat) /\ Len(record) = length
        BY <3>2
      <4> QED BY <3>1, <4>1, EncodedFacts
    <3>4. \A i \in 1 .. length + 2 : new[base + i] = Encoded(f, record)[i]
      <4> TAKE i \in 1 .. length + 2
      <4>1. CASE i = 1
        BY <1>14, <3>3, <4>1
      <4>2. CASE i = length + 2
        <5>1. base + i = pos + 1 /\ pos + 1 \in 1 .. Len(trailed) /\ pos + 1 # base + 1
          BY <1>6, <1>8, <1>9, <1>13, <4>2
        <5> QED BY <1>12, <1>14, <3>3, <4>2, <5>1
      <4>3. CASE i # 1 /\ i # length + 2
        <5>1. PICK j \in 1 .. length : i = j + 1
          <6>1. i - 1 \in 1 .. length /\ i = (i - 1) + 1
            BY <4>3
          <6> QED BY <6>1
        <5>2. /\ base + i = start + j /\ start + j \in 1 .. Len(old) /\ start + j \in 1 .. Len(trailed)
              /\ start + j # base + 1 /\ start + j # pos + 1
          <6>1. start + j \in Nat /\ start + j > start /\ start + j <= pos
            BY <1>6, <1>9
          <6>2. start + j \in 1 .. Len(old) /\ start + j \in 1 .. Len(trailed)
            BY <1>6, <1>13, <3>2, <6>1, SMTT(60)
          <6> QED BY <1>6, <1>8, <5>1, <6>1, <6>2
        <5>3. new[start + j] = trailed[start + j] /\ trailed[start + j] = old[start + j]
          BY <1>12, <1>14, <5>2
        <5> QED BY <3>2, <3>3, <5>1, <5>2, <5>3
      <4> QED BY <4>1, <4>2, <4>3
    <3>5. /\ base + (length + 2) = pos + 1 /\ pos + 1 <= Len(new)
          /\ pos = Len(old) => Len(new) = pos + 1
      BY <1>6, <1>8, <1>9, <1>12, <1>13, <1>14
    <3>6. Holds(f, record, new, base)
      BY <3>3, <3>4, <3>5 DEF Holds
    <3> QED BY <1>2, <1>4, <3>1, <3>2, <3>3, <3>5, <3>6
  <2> QED BY <1>1, <1>4, <1>5, <1>8, <1>15, <1>17, <2>1, <2>2, RecordedKept
<1>18. CASE Unrecorded(u)
  <2>1. UNCHANGED records /\ clean' = [clean EXCEPT ![f] = FALSE]
    BY <1>1, <1>18 DEF Unrecorded
  <2>2. Behind(old, old, base)
    BY <1>6 DEF Behind
  <2> QED BY <1>1, <1>4, <1>5, <1>8, <1>12, <1>16, <1>17, <2>1, <2>2, UnrecordedKept
<1> QED BY <1>16, <1>17, <1>18

LEMMA EndDirectKept == ASSUME IInv, RInv, NEW u \in Unit, EndDirect(u) PROVE RInv'
<1>1. PICK f : f = FileOf(u)
  OBVIOUS
<1>2. PICK pos : pos = unit[u].pos
  OBVIOUS
<1>3. PICK start : start = transfer[u].start
  OBVIOUS
<1>4. PICK old : old = Cells(u)
  OBVIOUS
<1>5. u \in DOMAIN transfer /\ transfer[u].mode = "direct" /\ UNCHANGED << records, clean >>
  BY DEF EndDirect, Writing, Busy
<1>6. /\ start \in Nat /\ pos \in Nat /\ start <= pos /\ Base(u) = start
      /\ old \in Seq(Nat) /\ Len(old) \in Nat /\ pos <= start + Recl /\ Recl \in Nat
      /\ f \in File
  BY <1>1, <1>2, <1>3, <1>4, <1>5, WriteFacts, TransferFacts, BoundsAssumption DEF Base
<1>7. PICK n \in pos .. start + Recl : Finish(u, start + Recl, Fill(old, pos, n))
  <2>1. start + Recl \in pos .. start + Recl
    BY <1>6
  <2> QED BY <1>2, <1>3, <1>4, <2>1 DEF EndDirect
<1>8. PICK new : new = Fill(old, pos, n)
  OBVIOUS
<1>9. Behind(old, new, start)
  <2>1. n \in Nat /\ pos <= n
    BY <1>6
  <2>2. /\ new \in Seq(Nat) /\ Len(new) \in Nat /\ Len(new) >= Len(old)
        /\ \A i \in 1 .. Len(old) : i <= pos \/ i > n => new[i] = old[i]
    BY <1>6, <1>8, <2>1, FilledFacts
  <2> QED BY <1>6, <2>2 DEF Behind
<1>10. clean' = [clean EXCEPT ![f] = FALSE]
  <2>1. clean \in [File -> BOOLEAN] /\ clean[f] = FALSE
    BY <1>1, <1>5, <1>6 DEF RInv, WriteSound
  <2> QED BY <1>5, <2>1
<1>11. Finish(u, start + Recl, new) /\ Behind(Cells(u), new, Base(u))
  BY <1>4, <1>6, <1>7, <1>8, <1>9
<1> QED BY <1>1, <1>5, <1>10, <1>11, UnrecordedKept

-----------------------------------------------------------------------------
(* The history is true.                                                    *)

LEMMA HistoryInit == Init => RInv /\ Backed
<1> SUFFICES ASSUME Init PROVE RInv /\ Backed
  OBVIOUS
<1>1. /\ DOMAIN disk = {} /\ DOMAIN transfer = {} /\ DOMAIN buffer = {}
      /\ records = [f \in File |-> << >>] /\ clean = [f \in File |-> TRUE]
  BY DEF Init
<1>2. records \in [File -> Logs] /\ \A f \in File : Unbroken(f, records[f])
  BY <1>1, NoRecords
<1> QED BY <1>1, <1>2 DEF RInv, Backed

LEMMA RecordsStep == IInv /\ RInv /\ Backed /\ [Next]_vars => RInv'
<1> SUFFICES ASSUME IInv, RInv, Backed, [Next]_vars PROVE RInv'
  OBVIOUS
<1>1. CASE UNCHANGED vars
  <2>1. UNCHANGED << disk, unit, transfer, records, clean >>
    BY <1>1 DEF vars, history
  <2>2. \A f \in DOMAIN disk : HistoryIn(f)'
    BY <2>1 DEF RInv, HistoryIn, InTransfer, FileOf
  <2>3. \A u \in DOMAIN transfer : WriteSound(u)'
    BY <2>1 DEF RInv, WriteSound, FileOf, Cells
  <2> QED BY <2>1, <2>2, <2>3 DEF RInv
<1>2. CASE Next
  <2>1. PICK u \in Unit : Control(u) \/ Read(u) \/ Write(u)
    BY <1>2 DEF Next
  <2>2. CASE FlushFails(u) /\ u \notin DOMAIN transfer
    BY <2>2, FlushKept
  <2>3. CASE Control(u) /\ ~ FlushFails(u)
    <3>1. CASE Settles(u) \/ Severs(u)
      BY <3>1, SettlesKept, SeversKept
    <3>2. CASE ~ (Settles(u) \/ Severs(u))
      <4>1. \/ Rewind(u) \/ Backspace(u) \/ BackspaceFails(u) \/ Inquire(u)
            \/ EndfileAbandoned(u) \/ EndfileDetached(u) \/ Endfile(u) \/ EndfileLoses(u)
        BY <2>3, <3>2, ControlSettles
      <4> QED BY <2>3, <4>1, PositioningIsQuiet, QuietKept, EndfileKept
    <3> QED BY <3>1, <3>2
  <2>4. CASE Read(u) /\ ~ FlushFails(u)
    BY <2>4, ReadIsQuiet, QuietKept
  <2>5. CASE Write(u)
    BY <2>5, BeginFormattedKept, BeginImplicitlyKept, BeginUnformattedKept, BeginDirectKept,
       WriteItemKept, OutputLostKept, EndFormattedKept, EndUnformattedKept, EndDirectKept
       DEF Write
  <2>6. Control(u) \/ Read(u) => u \notin DOMAIN transfer
    BY Idle
  <2> QED BY <2>1, <2>2, <2>3, <2>4, <2>5, <2>6
<1> QED BY <1>1, <1>2

-----------------------------------------------------------------------------
(* What a step leaves of other units and their files.                      *)

\* Nothing but unit u, its WRITE, its buffer and the history of its file
\* changes.
Apart(u) ==
  /\ \A v \in DOMAIN unit : v # u => v \in DOMAIN unit' /\ unit'[v] = unit[v]
  /\ \A v \in DOMAIN unit' : v # u => v \in DOMAIN unit
  /\ \A v \in DOMAIN unit : v # u =>
       /\ records'[FileOf(v)] = records[FileOf(v)] /\ clean'[FileOf(v)] = clean[FileOf(v)]
       /\ v \in DOMAIN transfer <=> v \in DOMAIN transfer'
       /\ v \in DOMAIN transfer => transfer'[v] = transfer[v]
  /\ OthersBuffers(u)

\* The unit stays connected to its file, as it was connected.
Connects(u) ==
  /\ u \in DOMAIN unit /\ u \in DOMAIN unit'
  /\ unit'[u].file = unit[u].file /\ unit'[u].access = unit[u].access

OwnEntry(u) ==
  /\ \A v \in DOMAIN unit : v # u => v \in DOMAIN unit' /\ unit'[v] = unit[v]
  /\ \A v \in DOMAIN unit' : v # u => v \in DOMAIN unit
OwnTransfer(u) ==
  \A v : v # u => /\ v \in DOMAIN transfer <=> v \in DOMAIN transfer'
                  /\ v \in DOMAIN transfer => transfer'[v] = transfer[v]
OwnHistory(f) == \A g \in File : g # f => records'[g] = records[g] /\ clean'[g] = clean[g]

LEMMA ApartIf ==
  ASSUME IInv, NEW u, OwnEntry(u), OwnTransfer(u), OthersBuffers(u), NEW f, OwnHistory(f),
         \A v \in DOMAIN unit : v # u => FileOf(v) # f
  PROVE  Apart(u)
<1>1. \A v \in DOMAIN unit : FileOf(v) \in File
  BY UnitFacts
<1>2. ASSUME NEW v \in DOMAIN unit, v # u
      PROVE  records'[FileOf(v)] = records[FileOf(v)] /\ clean'[FileOf(v)] = clean[FileOf(v)]
  BY <1>1, <1>2 DEF OwnHistory
<1> QED BY <1>2 DEF Apart, OwnEntry, OwnTransfer

LEMMA OwnBuffer ==
  ASSUME NEW u
  PROVE  /\ UNCHANGED buffer => OthersBuffers(u)
         /\ \A b : buffer' = With(buffer, u, b) => OthersBuffers(u)
         /\ \A b : buffer' = [buffer EXCEPT ![u] = b] => OthersBuffers(u)
         /\ Emptied(u) => OthersBuffers(u)
<1>1. ASSUME NEW b, buffer' = With(buffer, u, b) PROVE OthersBuffers(u)
  BY <1>1 DEF With, OthersBuffers
<1>2. ASSUME NEW b, buffer' = [buffer EXCEPT ![u] = b] PROVE OthersBuffers(u)
  BY <1>2 DEF OthersBuffers
<1> QED BY <1>1, <1>2, DrainedIf DEF OthersBuffers, Drained

(***************************************************************************)
(* Every statement leaves the other units, and the history of their files, *)
(* alone.                                                                  *)
(***************************************************************************)
LEMMA SettlesApart == ASSUME IInv, RInv, NEW u \in Unit, Settles(u) PROVE Apart(u)
<1>1. PICK f \in File :
        UNCHANGED transfer /\ Reconnected(u, f) /\ Settle(u) /\ Drained(u)
  BY DEF Settles
<1>2. OwnEntry(u) /\ OthersBuffers(u)
  BY <1>1 DEF Reconnected, OwnEntry, Drained
<1>3. ASSUME NEW v \in DOMAIN unit, v # u
      PROVE  records'[FileOf(v)] = records[FileOf(v)] /\ clean'[FileOf(v)] = clean[FileOf(v)]
  <2>1. FileOf(v) \in File /\ clean[FileOf(v)] \in BOOLEAN
    BY UnitFacts, HistoryFacts
  <2>2. ~ Unshared(u, FileOf(v))
    BY <1>3 DEF Unshared
  <2> QED BY <1>1, <2>1, <2>2 DEF Settle
<1> QED BY <1>1, <1>2, <1>3 DEF Apart, OwnEntry

LEMMA QuietApart ==
  ASSUME IInv, NEW u, Quiet(u), OwnEntry(u), OthersBuffers(u)
  PROVE  Apart(u)
BY DEF Quiet, Apart, OwnEntry

LEMMA ConnectedApart ==
  ASSUME IInv, RInv, NEW u \in DOMAIN unit, OwnEntry(u), OwnTransfer(u), OthersBuffers(u),
         OwnHistory(FileOf(u))
  PROVE  Apart(u)
<1>1. \A v \in DOMAIN unit : v # u => FileOf(v) # FileOf(u)
  BY UnitFacts
<1> QED BY <1>1, ApartIf

LEMMA SeversApart == ASSUME IInv, RInv, NEW u \in Unit, Severs(u) PROVE Apart(u)
<1>1. /\ u \in DOMAIN buffer /\ UNCHANGED transfer /\ unit' = Without(unit, u)
      /\ OthersBuffers(u)
  BY OwnBuffer DEF Severs, CloseLoses
<1>2. PICK m : Drop(u, m)
  BY DEF Severs, CloseLoses
<1>3. u \in DOMAIN unit
  BY <1>1, <1>2, DropFacts
<1>4. OwnEntry(u) /\ OwnTransfer(u)
  BY <1>1 DEF OwnEntry, OwnTransfer, Without, Restrict
<1>5. OwnHistory(FileOf(u))
  BY <1>2 DEF Drop, Cut, OwnHistory, RInv
<1> QED BY <1>1, <1>3, <1>4, <1>5, ConnectedApart

LEMMA DropToApart ==
  ASSUME IInv, RInv, NEW u \in DOMAIN buffer, NEW m, DropTo(u, m), OwnTransfer(u)
  PROVE  Apart(u) /\ Connects(u)
<1>1. /\ Drop(u, m) /\ unit' = [unit EXCEPT ![u].pos = m] /\ OthersBuffers(u)
  BY OwnBuffer DEF DropTo, Position
<1>2. u \in DOMAIN unit /\ unit[u] \in Entries
  BY <1>1, DropFacts, UnitFacts
<1>3. OwnEntry(u) /\ Connects(u)
  BY <1>1, <1>2 DEF OwnEntry, Connects, Entries
<1>4. OwnHistory(FileOf(u))
  BY <1>1 DEF Drop, Cut, OwnHistory, RInv
<1> QED BY <1>1, <1>2, <1>3, <1>4, ConnectedApart

LEMMA FlushApart ==
  ASSUME IInv, RInv, NEW u, FlushFails(u)
  PROVE  Apart(u) /\ Connects(u)
<1>1. u \in DOMAIN buffer /\ OwnTransfer(u)
  BY DEF FlushFails, OwnTransfer
<1>2. PICK m : DropTo(u, m)
  BY DEF FlushFails
<1> QED BY <1>1, <1>2, DropToApart

LEMMA OutputLostApart ==
  ASSUME IInv, RInv, NEW u \in Unit, OutputLost(u)
  PROVE  Apart(u) /\ Connects(u)
<1>1. u \in DOMAIN buffer
  BY DEF OutputLost
<1>2. PICK m : DropTo(u, m)
  BY DEF OutputLost
<1>3. OwnTransfer(u)
  BY DEF OutputLost, OwnTransfer, Without, Restrict
<1> QED BY <1>1, <1>2, <1>3, DropToApart

LEMMA EndfileApart ==
  ASSUME IInv, RInv, NEW u \in Unit, Endfile(u) \/ EndfileLoses(u)
  PROVE  Apart(u) /\ Connects(u)
<1>1. u \in DOMAIN unit
  BY DEF Endfile, EndfileLoses, EndfileReady, Sequential, Connected
<1>2. unit[u] \in Entries
  BY <1>1, UnitFacts
<1>3. OwnEntry(u) /\ OwnTransfer(u)
  BY DEF Endfile, EndfileLoses, OwnEntry, OwnTransfer
<1>4. OwnHistory(FileOf(u))
  BY DEF Endfile, EndfileLoses, Cut, OwnHistory, RInv
<1>5. Connects(u)
  BY <1>1, <1>2 DEF Endfile, EndfileLoses, Connects, Entries
<1>6. OthersBuffers(u)
  BY OwnBuffer DEF Endfile, EndfileLoses
<1> QED BY <1>1, <1>3, <1>4, <1>5, <1>6, ConnectedApart

LEMMA WithOwn ==
  ASSUME NEW u
  PROVE  /\ \A entry : unit' = With(unit, u, entry) => OwnEntry(u)
         /\ \A t : transfer' = With(transfer, u, t) => OwnTransfer(u)
         /\ transfer' = transfer => OwnTransfer(u)
<1>1. ASSUME NEW entry, unit' = With(unit, u, entry) PROVE OwnEntry(u)
  BY <1>1 DEF With, OwnEntry
<1>2. ASSUME NEW t, transfer' = With(transfer, u, t) PROVE OwnTransfer(u)
  BY <1>2 DEF With, OwnTransfer
<1> QED BY <1>1, <1>2 DEF OwnTransfer

LEMMA BeginApart ==
  ASSUME IInv, RInv, NEW u \in Unit,
         \/ BeginFormatted(u) \/ BeginUnformatted(u)
         \/ \E record \in Record : BeginDirect(u, record)
  PROVE  Apart(u) /\ Connects(u)
<1>1. u \in DOMAIN unit
  BY DEF BeginFormatted, BeginUnformatted, BeginDirect, Ready, Connected
<1>2. unit[u] \in Entries
  BY <1>1, UnitFacts
<1>3. OwnEntry(u) /\ OwnTransfer(u) /\ Connects(u)
  <2>1. \/ \E start : unit' = [unit EXCEPT ![u].pos = start]
        \/ unit' = unit
    BY DEF BeginFormatted, BeginUnformatted, BeginDirect, Begin
  <2>2. \/ \E t : transfer' = With(transfer, u, t)
        \/ transfer' = transfer
    BY DEF BeginFormatted, BeginUnformatted, BeginDirect, Begin
  <2>3. OwnEntry(u) /\ Connects(u)
    BY <1>1, <1>2, <2>1 DEF OwnEntry, Connects, Entries
  <2>4. OwnTransfer(u)
    BY <2>2, WithOwn
  <2> QED BY <2>3, <2>4
<1>4. OwnHistory(FileOf(u))
  BY DEF BeginFormatted, BeginUnformatted, BeginDirect, Begin, Overwrite, Cut, OwnHistory,
         RInv, history
<1>5. OthersBuffers(u)
  BY OwnBuffer DEF BeginFormatted, BeginUnformatted, BeginDirect
<1> QED BY <1>1, <1>3, <1>4, <1>5, ConnectedApart

LEMMA WriteApart ==
  ASSUME IInv, RInv, NEW u \in Unit,
         \/ \E w \in Word : WriteItem(u, w)
         \/ EndFormatted(u) \/ EndUnformatted(u) \/ EndDirect(u)
  PROVE  Apart(u) /\ Connects(u) /\ UNCHANGED buffer
<1>1. u \in DOMAIN unit
  BY TransferFacts DEF WriteItem, EndFormatted, EndUnformatted, EndDirect, Writing, Busy
<1>2. unit[u] \in Entries
  BY <1>1, UnitFacts
<1>3. OwnEntry(u) /\ Connects(u)
  <2>1. \/ \E start : unit' = [unit EXCEPT ![u].pos = start]
        \/ unit' = unit
    BY DEF WriteItem, EndFormatted, EndUnformatted, EndDirect, Finish, Position
  <2> QED BY <1>1, <1>2, <2>1 DEF OwnEntry, Connects, Entries
<1>4. OwnTransfer(u)
  <2>1. \/ transfer' = [transfer EXCEPT ![u].ok = FALSE]
        \/ transfer' = transfer
        \/ transfer' = Without(transfer, u)
    BY DEF WriteItem, EndFormatted, EndUnformatted, EndDirect, Finish
  <2> QED BY <2>1 DEF OwnTransfer, Without, Restrict
<1>5. OwnHistory(FileOf(u))
  BY DEF WriteItem, EndFormatted, EndUnformatted, EndDirect, Recorded, Unrecorded,
         OwnHistory, RInv
<1>6. UNCHANGED buffer
  BY DEF WriteItem, EndFormatted, EndUnformatted, EndDirect, Finish
<1> QED BY <1>1, <1>3, <1>4, <1>5, <1>6, OwnBuffer, ConnectedApart

LEMMA ImplicitApart ==
  ASSUME IInv, RInv, NEW u \in Unit, ReadImplicitly(u) \/ BeginImplicitly(u)
  PROVE  Apart(u) /\ u \notin DOMAIN unit /\ OwnHistory(DefaultName[u])
<1>1. /\ u \notin DOMAIN unit
      /\ \A v \in DOMAIN unit : v # u => FileOf(v) # DefaultName[u]
  BY DEF ReadImplicitly, BeginImplicitly, ImplicitOpen, Connected, Unshared
<1>2. OwnEntry(u)
  <2>1. \E entry : unit' = With(unit, u, entry)
    BY DEF ReadImplicitly, BeginImplicitly
  <2> QED BY <2>1, WithOwn
<1>3. OwnTransfer(u)
  <2>1. transfer' = transfer \/ \E t : transfer' = With(transfer, u, t)
    BY DEF ReadImplicitly, BeginImplicitly
  <2> QED BY <2>1, WithOwn
<1>4. OwnHistory(DefaultName[u])
  BY DEF ReadImplicitly, BeginImplicitly, Cut, OwnHistory, RInv, history
<1>5. OthersBuffers(u)
  <2>1. buffer' = buffer \/ \E b : buffer' = With(buffer, u, b)
    BY DEF ReadImplicitly, BeginImplicitly
  <2> QED BY <2>1, OwnBuffer
<1> QED BY <1>1, <1>2, <1>3, <1>4, <1>5, ApartIf

\* The positioning statements, INQUIRE and the READs of connected units.
Positioning(u) ==
  \/ Rewind(u) \/ Backspace(u) \/ BackspaceFails(u) \/ Inquire(u)
  \/ EndfileAbandoned(u) \/ EndfileDetached(u)
  \/ ReadFormatted(u) \/ ReadFormattedFails(u)
  \/ (\E n \in 0 .. MaxItems : ReadUnformatted(u, n))
  \/ \E record \in Record : ReadDirect(u, record)

LEMMA PositioningApart ==
  ASSUME IInv, NEW u \in Unit, Positioning(u), ~ FlushFails(u)
  PROVE  Apart(u) /\ Connects(u) /\ u \notin DOMAIN transfer' /\ Files!Keep /\ Drained(u)
<1>1. u \in DOMAIN unit
  BY DEF Positioning, Rewind, Backspace, BackspaceFails, BackspaceReady, Inquire,
         EndfileAbandoned, EndfileDetached, EndfileReady, Sequential,
         ReadFormatted, ReadFormattedFails, ReadUnformatted, ReadDirect, Ready, Connected
<1>2. unit[u] \in Entries
  BY <1>1, UnitFacts
<1>3. Quiet(u)
  <2>1. CASE \/ Rewind(u) \/ Backspace(u) \/ BackspaceFails(u) \/ Inquire(u)
             \/ EndfileAbandoned(u) \/ EndfileDetached(u)
    BY <2>1, PositioningIsQuiet
  <2>2. CASE Read(u)
    BY <2>2, ReadIsQuiet
  <2> QED BY <2>1, <2>2 DEF Positioning, Read
<1>4. OwnEntry(u) /\ Connects(u)
  <2>1. \/ \E pos : unit' = [unit EXCEPT ![u].pos = pos]
        \/ unit' = [unit EXCEPT ![u].pos = 0, ![u].stream = "closed"]
        \/ unit' = [unit EXCEPT ![u].handle = "none", ![u].stream = "closed"]
        \/ unit' = unit
    BY DEF Positioning, Rewind, Backspace, BackspaceFails, Inquire, EndfileAbandoned,
           EndfileDetached, Position, ReadFormatted, ReadFormattedFails, ReadUnformatted,
           ReadDirect
  <2> QED BY <1>1, <1>2, <2>1 DEF OwnEntry, Connects, Entries
<1>5. u \notin DOMAIN transfer' /\ Files!Keep
  BY <1>3 DEF Quiet, Files!Keep
<1>6. Drained(u)
  <2>1. CASE \/ \E n \in 0 .. MaxItems : ReadUnformatted(u, n)
             \/ \E record \in Record : ReadDirect(u, record)
    <3>1. UNCHANGED buffer /\ (unit[u].access = "direct" \/ FormOf[FileOf(u)] = "unformatted")
      BY <1>1, <2>1, UnitFacts, FileAssumption DEF ReadUnformatted, ReadDirect, Ready
    <3> QED BY <3>1, Unbuffered, DrainedIf
  <2>2. CASE ~ (\/ \E n \in 0 .. MaxItems : ReadUnformatted(u, n)
                \/ \E record \in Record : ReadDirect(u, record))
    <3>1. Emptied(u)
      BY <2>2 DEF Positioning, Rewind, Backspace, BackspaceFails, Inquire, EndfileAbandoned,
                  EndfileDetached, ReadFormatted, ReadFormattedFails
    <3> QED BY <3>1, DrainedIf
  <2> QED BY <2>1, <2>2
<1> QED BY <1>3, <1>4, <1>5, <1>6, QuietApart DEF Drained

LEMMA StepApart ==
  ASSUME IInv, RInv, NEW u \in Unit, Control(u) \/ Read(u) \/ Write(u)
  PROVE  Apart(u)
<1>1. CASE FlushFails(u)
  BY <1>1, FlushApart
<1>2. CASE Control(u) /\ ~ FlushFails(u)
  BY <1>2, ControlSettles, SettlesApart, SeversApart, PositioningApart, EndfileApart
     DEF Positioning
<1>3. CASE Read(u) /\ ~ FlushFails(u)
  BY <1>3, ImplicitApart, PositioningApart DEF Read, Positioning
<1>4. CASE Write(u)
  BY <1>4, ImplicitApart, BeginApart, WriteApart, OutputLostApart DEF Write
<1> QED BY <1>1, <1>2, <1>3, <1>4

-----------------------------------------------------------------------------
(* The records before the buffers stay.                                    *)

LEMMA BackedIf ==
  ASSUME IInv, RInv, Backed, NEW u, Apart(u), u \in DOMAIN buffer' => BackedBy(u)'
  PROVE  Backed'
<1> SUFFICES ASSUME NEW v \in DOMAIN buffer', v # u PROVE BackedBy(v)'
  BY DEF Backed
<1>1. v \in DOMAIN buffer /\ buffer'[v] = buffer[v]
  BY DEF Apart, OthersBuffers
<1>2. v \in DOMAIN unit
  BY <1>1 DEF IInv, BufferSound, Connected
<1>3. unit'[v] = unit[v] /\ records'[FileOf(v)] = records[FileOf(v)]
  BY <1>2 DEF Apart
<1>4. BackedBy(v)
  BY <1>1 DEF Backed
<1> QED BY <1>1, <1>3, <1>4 DEF BackedBy, FileOf

LEMMA BackedSame ==
  ASSUME IInv, RInv, Backed, NEW u \in DOMAIN buffer, NEW f, f = FileOf(u), FileOf(u)' = f,
         buffer'[u] = buffer[u],
         KeptOf(f, records'[f], buffer[u].from) = Kept(f, buffer[u].from)
  PROVE  BackedBy(u)'
<1>1. BackedBy(u) /\ f \in File
  BY UnitFacts DEF Backed, IInv, BufferSound, Connected
<1>2. Kept(f, buffer[u].from) = KeptOf(f, records[f], buffer[u].from)
  BY <1>1, HistoryFacts
<1> QED BY <1>1, <1>2 DEF BackedBy

(***************************************************************************)
(* Cutting the history at a position, or making it longer, keeps what is   *)
(* before an earlier one.                                                  *)
(***************************************************************************)
LEMMA KeptKept ==
  ASSUME IInv, RInv, NEW f \in File, NEW pos \in Nat, NEW from \in Nat, from <= pos
  PROVE  KeptOf(f, Kept(f, pos), from) = Kept(f, from)
<1>1. PICK log : log = records[f]
  OBVIOUS
<1>2. PICK kept : kept = Kept(f, pos)
  OBVIOUS
<1>3. log \in Logs /\ kept = KeptOf(f, log, pos) /\ Kept(f, from) = KeptOf(f, log, from)
  BY <1>1, <1>2, HistoryFacts
<1>4. PICK m \in 0 .. Len(log) : KeptAt(f, log, kept, m, pos)
  BY <1>3, KeptFacts
<1>5. /\ kept \in Logs /\ Len(kept) = m /\ \A k \in 1 .. m : kept[k] = log[k]
      /\ \A k \in m + 1 .. Len(log) : EndsOf(f, log)[k] > pos
  BY <1>4 DEF KeptAt
<1>6. Len(log) \in Nat /\ m \in Nat /\ m <= Len(log) /\ EndsOf(f, log) \in [0 .. Len(log) -> Nat]
  BY <1>3, EndsFacts
<1>7. \A k \in m + 1 .. Len(log) : EndsOf(f, log)[k] > from
  <2> TAKE k \in m + 1 .. Len(log)
  <2>1. EndsOf(f, log)[k] \in Nat
    BY <1>6
  <2> QED BY <1>5, <2>1
<1>8. m <= Len(kept) /\ \A k \in m + 1 .. Len(kept) : EndsOf(f, kept)[k] > from
  BY <1>5, <1>6
<1>9. KeptOf(f, kept, from) = KeptOf(f, log, from)
  BY <1>3, <1>5, <1>6, <1>7, <1>8, SameKept
<1> QED BY <1>2, <1>3, <1>9

LEMMA KeptMore ==
  ASSUME IInv, RInv, NEW f \in File, NEW record \in Seq(Nat), NEW from \in Nat,
         from < LogEnd(f, records[f]) + Size(f, record)
  PROVE  KeptOf(f, Append(records[f], record), from) = Kept(f, from)
<1>1. PICK log : log = records[f]
  OBVIOUS
<1>2. PICK more : more = Append(log, record)
  OBVIOUS
<1>3. log \in Logs /\ Kept(f, from) = KeptOf(f, log, from)
  BY <1>1, HistoryFacts
<1>4. PICK n : n = Len(log)
  OBVIOUS
<1>5. /\ n \in Nat /\ more \in Logs /\ Len(more) = n + 1
      /\ \A k \in 1 .. n : more[k] = log[k]
      /\ EndsOf(f, more)[n + 1] = LogEnd(f, log) + Size(f, record)
  <2>1. Appended(log, n, record, more)
    BY <1>2, <1>4 DEF Appended
  <2> QED BY <1>3, <2>1, AppendEnds
<1>6. \A k \in n + 1 .. Len(more) : EndsOf(f, more)[k] > from
  <2> TAKE k \in n + 1 .. Len(more)
  <2>1. k = n + 1
    BY <1>5
  <2>2. EndsOf(f, more)[n + 1] \in Nat
    BY <1>5, EndsFacts
  <2> QED BY <1>1, <1>5, <2>1, <2>2
<1>7. n <= Len(more) /\ n <= Len(log) /\ \A k \in n + 1 .. Len(log) : EndsOf(f, log)[k] > from
  BY <1>4, <1>5
<1>8. KeptOf(f, more, from) = KeptOf(f, log, from)
  BY <1>3, <1>5, <1>6, <1>7, SameKept
<1> QED BY <1>1, <1>2, <1>3, <1>8

LEMMA DropToBacked ==
  ASSUME IInv, RInv, Backed, NEW u \in DOMAIN buffer, NEW m, DropTo(u, m)
  PROVE  BackedBy(u)'
<1> SUFFICES ASSUME NEW f, f = FileOf(u) PROVE BackedBy(u)'
  OBVIOUS
<1>1. /\ Drop(u, m) /\ unit' = [unit EXCEPT ![u].pos = m]
      /\ buffer'[u] = [from |-> m, under |-> Through(u, m)]
  BY DEF DropTo, Position, Buffered
<1>2. /\ u \in DOMAIN unit /\ unit[u] \in Entries /\ f \in File /\ m \in Nat
      /\ m \in buffer[u].from .. unit[u].pos
  BY <1>1, DropFacts, UnitFacts
<1>3. FileOf(u)' = f
  BY <1>1, <1>2 DEF FileOf, Entries
<1>4. records'[f] = Kept(f, m)
  BY <1>1, <1>2 DEF Drop, Cut, RInv
<1>5. KeptOf(f, Kept(f, m), m) = Kept(f, m)
  BY <1>2, KeptKept
<1>6. LaidOut(f, Kept(f, m), Through(u, m))
  BY <1>2, DropLaidOut
<1> QED BY <1>1, <1>3, <1>4, <1>5, <1>6 DEF BackedBy

LEMMA BeginFormattedBacked ==
  ASSUME IInv, RInv, Backed, NEW u \in Unit, BeginFormatted(u)
  PROVE  BackedBy(u)'
<1> SUFFICES ASSUME NEW f, f = FileOf(u), NEW pos, pos = unit[u].pos PROVE BackedBy(u)'
  OBVIOUS
<1>1. /\ u \in DOMAIN unit /\ Begin(u, "formatted", pos, pos)
      /\ buffer' = IF u \in DOMAIN buffer THEN buffer ELSE With(buffer, u, Buffered(pos, Cells(u)))
  BY DEF BeginFormatted, Ready, Connected
<1>2. /\ f \in File /\ f \in DOMAIN disk /\ disk[f] = Cells(u) /\ pos \in Nat
      /\ unit[u] \in Entries /\ Len(Cells(u)) \in Nat
  BY <1>1, UnitFacts DEF Cells
<1>3. FileOf(u)' = f /\ records'[f] = Kept(f, pos)
  BY <1>1, <1>2 DEF Begin, Overwrite, Cut, FileOf, Entries, RInv
<1>4. CASE u \in DOMAIN buffer
  <2>1. buffer[u].from \in Nat /\ buffer[u].from <= pos
    BY <1>4 DEF IInv, BufferSound
  <2>2. KeptOf(f, records'[f], buffer[u].from) = Kept(f, buffer[u].from)
    BY <1>2, <1>3, <2>1, KeptKept
  <2>3. buffer'[u] = buffer[u]
    BY <1>1, <1>4
  <2> QED BY <1>3, <1>4, <2>2, <2>3, BackedSame
<1>5. CASE u \notin DOMAIN buffer
  <2>1. buffer'[u] = [from |-> pos, under |-> Cells(u)]
    BY <1>1, <1>5 DEF With, Buffered
  <2>2. KeptOf(f, records'[f], pos) = Kept(f, pos)
    BY <1>2, <1>3, KeptKept
  <2>3. LaidOut(f, Kept(f, pos), Cells(u))
    <3>1. PICK end \in Nat : end = LogEnd(f, Kept(f, pos))
      BY <1>2, KeptHistory
    <3>2. /\ end <= LogEnd(f, records[f])
          /\ \A new : Agree(disk[f], new, end) => LaidOut(f, Kept(f, pos), new)
      BY <1>2, <3>1, KeptHistory
    <3>3. LogEnd(f, records[f]) \in Nat /\ LogEnd(f, records[f]) <= Len(Cells(u))
      BY <1>2, HistoryFacts, LogEndFacts, LaidOutEnds
    <3>4. Agree(disk[f], Cells(u), end)
      BY <1>2, <3>2, <3>3 DEF Agree
    <3> QED BY <3>2, <3>4
  <2> QED BY <1>3, <2>1, <2>2, <2>3 DEF BackedBy
<1> QED BY <1>4, <1>5

LEMMA BeginImplicitlyBacked ==
  ASSUME IInv, RInv, Backed, NEW u \in Unit, BeginImplicitly(u)
  PROVE  BackedBy(u)'
<1> SUFFICES ASSUME NEW f, f = DefaultName[u] PROVE BackedBy(u)'
  OBVIOUS
<1>1. PICK cells :
        /\ unit' = With(unit, u, Entry(f, "sequential", "write", 0))
        /\ buffer' = With(buffer, u, Buffered(0, cells))
        /\ records' = [records EXCEPT ![f] = Kept(f, 0)]
  BY DEF BeginImplicitly, Cut
<1>2. f \in File
  BY FileAssumption DEF File
<1>3. /\ FileOf(u)' = f /\ buffer'[u] = [from |-> 0, under |-> cells]
      /\ records'[f] = Kept(f, 0)
  BY <1>1, <1>2 DEF With, Entry, FileOf, Buffered, RInv
<1>4. KeptOf(f, Kept(f, 0), 0) = Kept(f, 0)
  BY <1>2, KeptKept
<1>5. Kept(f, 0) \in Logs /\ LogEnd(f, Kept(f, 0)) <= 0
  BY <1>2, KeptHistory
<1>6. LaidOut(f, Kept(f, 0), cells)
  BY <1>5, NothingBefore
<1> QED BY <1>3, <1>4, <1>6 DEF BackedBy

LEMMA WriteItemBacked ==
  ASSUME IInv, RInv, Backed, NEW u \in DOMAIN buffer, NEW w \in Word, WriteItem(u, w)
  PROVE  BackedBy(u)'
<1>1. u \in DOMAIN transfer /\ UNCHANGED << buffer, records >>
  BY DEF WriteItem, Busy
<1>2. u \in DOMAIN unit /\ u \in Unit /\ unit[u] \in Entries /\ FileOf(u) \in File
  BY <1>1, TransferFacts, UnitFacts
<1>3. FileOf(u)' = FileOf(u)
  <2>1. unit' = unit \/ unit' = [unit EXCEPT ![u].pos = unit[u].pos + 1]
    BY DEF WriteItem, Position
  <2> QED BY <1>2, <2>1 DEF FileOf, Entries
<1>4. KeptOf(FileOf(u), records'[FileOf(u)], buffer[u].from) = Kept(FileOf(u), buffer[u].from)
  BY <1>1, <1>2, HistoryFacts
<1> QED BY <1>1, <1>3, <1>4, BackedSame

LEMMA EndFormattedSteady ==
  ASSUME IInv, RInv, NEW u \in DOMAIN buffer, EndFormatted(u),
         NEW f, f = FileOf(u), NEW from, from = buffer[u].from
  PROVE  FileOf(u)' = f /\ KeptOf(f, records'[f], from) = Kept(f, from)
<1>1. u \in DOMAIN transfer /\ transfer[u].mode = "formatted" /\ UNCHANGED buffer
  BY DEF EndFormatted, Writing, Busy, Finish
<1>2. /\ u \in DOMAIN unit /\ unit[u] \in Entries /\ f \in File /\ transfer[u].start \in Nat
      /\ unit[u].pos \in Nat /\ transfer[u].start <= unit[u].pos
  BY <1>1, TransferFacts, UnitFacts
<1>3. FileOf(u)' = f
  <2>1. \E pos : unit' = [unit EXCEPT ![u].pos = pos]
    BY DEF EndFormatted, Finish
  <2> QED BY <1>2, <2>1 DEF FileOf, Entries
<1>4. from \in Nat /\ from <= unit[u].pos
  BY DEF IInv, BufferSound
<1>5. PICK record : record = SubSeq(Cells(u), transfer[u].start + 1, unit[u].pos)
  OBVIOUS
<1>6. CASE records' = [records EXCEPT ![f] = Append(@, record)] /\ transfer[u].inOrder
  <2>1. record \in Seq(Nat) /\ Len(record) = unit[u].pos - transfer[u].start
    BY <1>1, <1>5, <1>6, PayloadFacts
  <2>2. LogEnd(f, records[f]) = transfer[u].start /\ FormOf[f] = "formatted"
    BY <1>1, <1>6 DEF RInv, WriteSound
  <2>3. Size(f, record) = Len(record) + 1
    BY <2>1, <2>2, EncodedFacts
  <2>4. from < LogEnd(f, records[f]) + Size(f, record)
    BY <1>2, <1>4, <2>1, <2>2, <2>3
  <2>5. records'[f] = Append(records[f], record)
    BY <1>2, <1>6 DEF RInv
  <2> QED BY <1>2, <1>3, <1>4, <2>1, <2>4, <2>5, KeptMore
<1>7. CASE records'[f] = records[f]
  BY <1>2, <1>3, <1>7, HistoryFacts
<1>8. \/ records' = [records EXCEPT ![f] = Append(@, record)] /\ transfer[u].inOrder
      \/ records'[f] = records[f]
  BY <1>2, <1>5 DEF EndFormatted, Recorded, Unrecorded, RInv
<1> QED BY <1>6, <1>7, <1>8

LEMMA EndFormattedBacked ==
  ASSUME IInv, RInv, Backed, NEW u \in DOMAIN buffer, EndFormatted(u)
  PROVE  BackedBy(u)'
<1> SUFFICES ASSUME NEW f, f = FileOf(u) PROVE BackedBy(u)'
  OBVIOUS
<1>1. FileOf(u)' = f /\ KeptOf(f, records'[f], buffer[u].from) = Kept(f, buffer[u].from)
  BY EndFormattedSteady
<1>2. buffer'[u] = buffer[u]
  BY DEF EndFormatted, Finish
<1> QED BY <1>1, <1>2, BackedSame

LEMMA BackedStep == IInv /\ RInv /\ Backed /\ [Next]_vars => Backed'
<1> SUFFICES ASSUME IInv, RInv, Backed, [Next]_vars PROVE Backed'
  OBVIOUS
<1>1. CASE UNCHANGED vars
  BY <1>1 DEF vars, history, Backed, BackedBy, FileOf
<1>2. CASE Next
  <2>1. PICK u \in Unit : Control(u) \/ Read(u) \/ Write(u)
    BY <1>2 DEF Next
  <2>2. Apart(u)
    BY <2>1, StepApart
  <2>3. ASSUME u \in DOMAIN buffer' PROVE BackedBy(u)'
    <3>1. CASE FlushFails(u)
      BY <3>1, DropToBacked DEF FlushFails
    <3>2. CASE Control(u) /\ ~ FlushFails(u)
      <4>1. Settles(u) \/ Severs(u) => Drained(u)
        BY DrainedIf DEF Settles, Severs, CloseLoses
      <4>2. Endfile(u) \/ EndfileLoses(u) => Drained(u)
        BY DrainedIf DEF Endfile, EndfileLoses
      <4>3. Positioning(u) => Drained(u)
        BY <3>2, PositioningApart
      <4> QED BY <2>3, <3>2, <4>1, <4>2, <4>3, ControlSettles DEF Drained, Positioning
    <3>3. CASE Read(u) /\ ~ FlushFails(u)
      <4>1. ReadImplicitly(u) => u \notin DOMAIN buffer'
        <5>1. ReadImplicitly(u) => UNCHANGED buffer
          BY DEF ReadImplicitly
        <5> QED BY <5>1, ImplicitApart, Unbuffered
      <4> QED BY <2>3, <3>3, <4>1, PositioningApart DEF Read, Drained, Positioning
    <3>4. CASE BeginFormatted(u) \/ BeginImplicitly(u)
      BY <3>4, BeginFormattedBacked, BeginImplicitlyBacked
    <3>5. CASE BeginUnformatted(u) \/ \E record \in Record : BeginDirect(u, record)
      <4>1. UNCHANGED buffer /\ (unit[u].access = "direct" \/ FormOf[FileOf(u)] = "unformatted")
        <5>1. PICK mode \in {"unformatted", "direct"} : Ready(u, mode, "write")
          BY <3>5 DEF BeginUnformatted, BeginDirect
        <5>2. u \in DOMAIN unit /\ FileOf(u) \in File
          BY <5>1, UnitFacts DEF Ready, Connected
        <5> QED BY <3>5, <5>1, <5>2, FileAssumption DEF BeginUnformatted, BeginDirect, Ready
      <4> QED BY <2>3, <4>1, Unbuffered
    <3>6. CASE OutputLost(u)
      BY <3>6, DropToBacked DEF OutputLost
    <3>7. CASE \/ \E w \in Word : WriteItem(u, w)
               \/ EndFormatted(u) \/ EndUnformatted(u) \/ EndDirect(u)
      <4>1. u \in DOMAIN buffer
        BY <2>3, <3>7, WriteApart
      <4>2. ~ (EndUnformatted(u) \/ EndDirect(u))
        BY <4>1, TransferFacts DEF EndUnformatted, EndDirect, Writing, Busy
      <4> QED BY <3>7, <4>1, <4>2, WriteItemBacked, EndFormattedBacked
    <3> QED BY <2>1, <3>1, <3>2, <3>3, <3>4, <3>5, <3>6, <3>7 DEF Write
  <2> QED BY <2>2, <2>3, BackedIf
<1> QED BY <1>1, <1>2

LEMMA Histories == Spec => [](IInv /\ RInv /\ Backed)
BY InitHolds, StepHolds, HistoryInit, RecordsStep, BackedStep, PTL DEF Spec

-----------------------------------------------------------------------------
(***************************************************************************)
(* The records written to a file stay at its start, as they were written,  *)
(* through every sequence of statements, until one of them is overwritten  *)
(* or cut off, or a statement fails that had to write a buffer out; and    *)
(* what is on the disk under a buffer has the records before it.           *)
(***************************************************************************)
THEOREM RecordsStay == Spec => []RecordsOnDisk
<1>1. Spec => [](IInv /\ RInv /\ Backed)
  BY Histories
<1>2. IInv /\ RInv /\ Backed => RecordsOnDisk
  <2> SUFFICES ASSUME IInv, RInv, Backed PROVE RecordsOnDisk
    OBVIOUS
  <2>1. ASSUME NEW f \in DOMAIN disk PROVE IsPrefix(Bytes(f, records[f]), disk[f])
    <3>1. f \in File
      BY DEF IInv
    <3> QED BY <3>1, HistoryFacts, LaidOutIsPrefix
  <2>2. ASSUME NEW u \in DOMAIN buffer, NEW f, f = FileOf(u), NEW log, log = Kept(f, buffer[u].from)
        PROVE  IsPrefix(Bytes(f, log), buffer[u].under)
    <3>1. u \in DOMAIN unit /\ buffer[u].from \in Nat /\ buffer[u].under \in Seq(Nat)
      BY DEF IInv, BufferSound, Connected
    <3>2. f \in File
      BY <2>2, <3>1, UnitFacts
    <3>3. log \in Logs /\ LaidOut(f, log, buffer[u].under)
      BY <2>2, <3>1, <3>2, KeptHistory, HistoryFacts DEF Backed, BackedBy
    <3> QED BY <3>1, <3>3, LaidOutIsPrefix
  <2> QED BY <2>1, <2>2 DEF RecordsOnDisk
<1> QED BY <1>1, <1>2, PTL

(***************************************************************************)
(* A clean file that is not being written is its records and nothing else: *)
(* a WRITE whose items failed has left a whole record too.                 *)
(***************************************************************************)
THEOREM CleanFilesHoldTheirRecords == Spec => []CleanFileIsItsRecords
<1>1. Spec => [](IInv /\ RInv /\ Backed)
  BY Histories
<1>2. IInv /\ RInv => CleanFileIsItsRecords
  <2> SUFFICES ASSUME IInv, RInv, NEW f \in DOMAIN disk, clean[f], ~ InTransfer(f)
               PROVE  disk[f] = Bytes(f, records[f])
    BY DEF CleanFileIsItsRecords
  <2>1. f \in File /\ HistoryIn(f)
    BY DEF IInv, RInv
  <2>2. Len(disk[f]) = LogEnd(f, records[f])
    BY <2>1 DEF HistoryIn
  <2> QED BY <2>1, <2>2, HistoryFacts, LaidOutIsPrefix
<1> QED BY <1>1, <1>2, PTL

-----------------------------------------------------------------------------
(* READ at a record.                                                       *)

(***************************************************************************)
(* A part of a sequence that is cell by cell a record is that record.      *)
(***************************************************************************)
LEMMA PartIsRecord ==
  ASSUME NEW cells \in Seq(Nat), NEW record \in Seq(Nat), NEW n \in Nat, n = Len(record),
         NEW start \in Nat, start + n <= Len(cells),
         \A i \in 1 .. n : cells[start + i] = record[i]
  PROVE  SubSeq(cells, start + 1, start + n) = record
<1>1. PICK part : part = SubSeq(cells, start + 1, start + n)
  OBVIOUS
<1>2. \A k \in start + 1 .. start + n : cells[k] \in Nat
  <2> TAKE k \in start + 1 .. start + n
  <2>1. k \in 1 .. Len(cells)
    BY LenProperties
  <2> QED BY <2>1, ElementOfSeq
<1>3. /\ part \in Seq(Nat)
      /\ Len(part) = (IF start + 1 <= start + n THEN (start + n) - (start + 1) + 1 ELSE 0)
      /\ \A i \in 1 .. (start + n) - (start + 1) + 1 : part[i] = cells[(start + 1) + i - 1]
  <2>1. start + 1 \in Int /\ start + n \in Int
    OBVIOUS
  <2> QED BY <1>1, <1>2, <2>1, SubSeqProperties
<1>4. Len(part) = n
  <2>1. start + 1 <= start + n => (start + n) - (start + 1) + 1 = n
    OBVIOUS
  <2>2. ~ (start + 1 <= start + n) => n = 0
    OBVIOUS
  <2> QED BY <1>3, <2>1, <2>2
<1>5. \A i \in 1 .. Len(part) : part[i] = record[i]
  <2> TAKE i \in 1 .. Len(part)
  <2>1. i \in 1 .. n
    BY <1>4
  <2>2. i \in 1 .. (start + n) - (start + 1) + 1 /\ (start + 1) + i - 1 = start + i
    BY <2>1, SMTT(60)
  <2>3. part[i] = cells[(start + 1) + i - 1] /\ cells[start + i] = record[i]
    BY <1>3, <2>1, <2>2
  <2> QED BY <2>2, <2>3
<1> QED BY <1>1, <1>3, <1>4, <1>5, SeqEqual

(***************************************************************************)
(* A formatted READ takes the line at the position.                        *)
(***************************************************************************)
LEMMA ReadLineReads ==
  ASSUME NEW f, FormOf[f] = "formatted", NEW record \in Seq(Nat),
         \A i \in 1 .. Len(record) : record[i] # Newline,
         NEW cells \in Seq(Nat), NEW pos \in Nat, Holds(f, record, cells, pos)
  PROVE  ReadLine(cells, pos) = Reading(pos + Size(f, record), "ok", record)
<1>1. PICK n \in Nat : n = Len(record)
  BY LenProperties
<1>2. PICK end \in Nat : end = pos + n + 1
  BY <1>1
<1>3. /\ Size(f, record) = n + 1 /\ end <= Len(cells) /\ Len(cells) \in Nat
      /\ cells[end] = Newline /\ \A i \in 1 .. n : cells[pos + i] = record[i]
  <2>1. /\ Size(f, record) = n + 1
        /\ \A i \in 1 .. n : Encoded(f, record)[i] = record[i]
        /\ Encoded(f, record)[n + 1] = Newline
    BY <1>1, EncodedFacts
  <2>2. /\ pos + (n + 1) <= Len(cells) /\ Len(cells) \in Nat
        /\ \A i \in 1 .. n + 1 : cells[pos + i] = Encoded(f, record)[i]
    BY <2>1, LenProperties DEF Holds
  <2>3. pos + (n + 1) = end /\ n + 1 \in 1 .. n + 1 /\ \A i \in 1 .. n : i \in 1 .. n + 1
    BY <1>2
  <2>4. cells[end] = Newline
    BY <2>1, <2>2, <2>3
  <2> QED BY <2>1, <2>2, <2>3, <2>4
<1> DEFINE newlines == {i \in pos + 1 .. Len(cells) : cells[i] = Newline}
<1>4. end \in newlines /\ newlines \in SUBSET Nat
  BY <1>2, <1>3
<1>5. ASSUME NEW i \in newlines PROVE end <= i
  <2>1. i \in pos + 1 .. Len(cells) /\ cells[i] = Newline
    OBVIOUS
  <2>2. SUFFICES ASSUME i < end PROVE FALSE
    BY <1>2, <2>1
  <2>3. PICK j \in 1 .. n : i = pos + j
    <3>1. i \in Nat /\ pos + 1 <= i
      BY <1>3, <2>1
    <3>2. i - pos \in 1 .. n /\ i = pos + (i - pos)
      BY <1>2, <2>2, <3>1
    <3> QED BY <3>2
  <2> QED BY <1>1, <1>3, <2>1, <2>3
<1>6. Min(newlines) = end
  <2> HIDE DEF newlines
  <2>1. newlines # {}
    BY <1>4
  <2>2. Min(newlines) \in newlines /\ \A k \in newlines : Min(newlines) <= k
    BY <1>4, <2>1, MinFacts
  <2>3. Min(newlines) <= end /\ end <= Min(newlines) /\ Min(newlines) \in Nat
    BY <1>4, <1>5, <2>2
  <2> QED BY <2>3
<1>7. ~ (pos >= Len(cells)) /\ newlines # {}
  <2>1. newlines # {}
    BY <1>4
  <2> HIDE DEF newlines
  <2> QED BY <1>2, <1>3, <2>1
<1>8. SubSeq(cells, pos + 1, end - 1) = record
  <2>1. pos + n <= Len(cells) /\ end - 1 = pos + n
    BY <1>2, <1>3
  <2>2. SubSeq(cells, pos + 1, pos + n) = record
    BY <1>1, <1>3, <2>1, PartIsRecord
  <2> QED BY <2>1, <2>2
<1>9. ReadLine(cells, pos) = Reading(end, "ok", record)
  BY <1>6, <1>7, <1>8 DEF ReadLine
<1>10. pos + Size(f, record) = end
  BY <1>2, <1>3
<1> QED BY <1>9, <1>10

(***************************************************************************)
(* An unformatted READ takes the payload between the markers.              *)
(***************************************************************************)
LEMMA ReadPayloadReads ==
  ASSUME NEW f, FormOf[f] # "formatted", NEW record \in Seq(Nat),
         NEW cells \in Seq(Nat), NEW pos \in Nat, Holds(f, record, cells, pos),
         NEW n \in Nat, n = Len(record)
  PROVE  ReadPayload(cells, pos, n) = Reading(pos + Size(f, record), "ok", record)
<1>1. PICK start \in Nat : start = pos + 1
  OBVIOUS
<1>2. PICK after \in Nat : after = start + n
  OBVIOUS
<1>3. /\ Size(f, record) = n + 2 /\ after + 1 <= Len(cells) /\ Len(cells) \in Nat
      /\ cells[start] = n /\ cells[after + 1] = n
      /\ \A i \in 1 .. n : cells[start + i] = record[i]
  <2>1. /\ Size(f, record) = n + 2 /\ Encoded(f, record)[1] = n
        /\ \A i \in 1 .. n : Encoded(f, record)[i + 1] = record[i]
        /\ Encoded(f, record)[n + 2] = n
    BY EncodedFacts
  <2>2. /\ pos + (n + 2) <= Len(cells) /\ Len(cells) \in Nat
        /\ \A i \in 1 .. n + 2 : cells[pos + i] = Encoded(f, record)[i]
    BY <2>1, LenProperties DEF Holds
  <2>3. pos + (n + 2) = after + 1 /\ n + 2 \in 1 .. n + 2 /\ 1 \in 1 .. n + 2
    BY <1>1, <1>2
  <2>4. ASSUME NEW i \in 1 .. n PROVE cells[start + i] = record[i]
    <3>1. i + 1 \in 1 .. n + 2 /\ pos + (i + 1) = start + i
      BY <1>1
    <3>2. cells[pos + (i + 1)] = Encoded(f, record)[i + 1]
      BY <2>2, <3>1
    <3> QED BY <2>1, <3>1, <3>2
  <2>5. cells[after + 1] = n
    BY <2>1, <2>2, <2>3
  <2>6. cells[start] = n
    BY <1>1, <2>1, <2>2, <2>3
  <2> QED BY <2>1, <2>2, <2>3, <2>4, <2>5, <2>6
<1>4. ~ (start > Len(cells)) /\ after < Len(cells) /\ n <= n
  BY <1>2, <1>3
<1>5. SubSeq(cells, start + 1, start + n) = record
  <2>1. start + n <= Len(cells)
    BY <1>2, <1>3
  <2> QED BY <1>3, <2>1, PartIsRecord
<1>6. ReadPayload(cells, pos, n) = Reading(after + 1, "ok", record)
  BY <1>1, <1>2, <1>3, <1>4, <1>5 DEF ReadPayload
<1>7. pos + Size(f, record) = after + 1
  BY <1>1, <1>2, <1>3
<1> QED BY <1>6, <1>7

(***************************************************************************)
(* The place of a unit at a record.                                        *)
(***************************************************************************)
LEMMA PlaceFacts ==
  ASSUME IInv, RInv, NEW u \in DOMAIN unit, NEW k, k = PlaceOf(u)
  PROVE  /\ k \in Int
         /\ k >= 0 =>
              /\ k \in 0 .. Len(records[FileOf(u)]) /\ u \notin DOMAIN transfer
              /\ EndsOf(FileOf(u), records[FileOf(u)])[k] = unit[u].pos
              /\ unit[u].handle # "none"
<1>1. PICK f \in File : f = FileOf(u)
  BY UnitFacts
<1>2. PICK n \in Nat : n = Len(records[f])
  BY HistoryFacts, EndsFacts
<1>3. DOMAIN Ends(f) = 0 .. n /\ \A j : Ends(f)[j] = EndsOf(f, records[f])[j]
  <2>1. EndsOf(f, records[f]) \in [0 .. n -> Nat]
    BY <1>2, HistoryFacts, EndsFacts
  <2>2. Ends(f) = EndsOf(f, records[f])
    BY DEF Ends, EndsOf
  <2> QED BY <2>1, <2>2
<1> DEFINE at == {j \in DOMAIN Ends(f) : Ends(f)[j] = unit[u].pos}
<1>4. k = IF Busy(u)
          THEN IF transfer[u].inOrder /\ (transfer[u].ok \/ transfer[u].mode = "unformatted")
               THEN -2 ELSE -1
          ELSE IF at = {} \/ unit[u].handle = "none" THEN -1 ELSE CHOOSE j \in at : TRUE
  BY <1>1 DEF PlaceOf
<1>5. at # {} => (CHOOSE j \in at : TRUE) \in at
  <2> HIDE DEF at
  <2> QED OBVIOUS
<1>6. \/ k = -1 \/ k = -2
      \/ k \in at /\ ~ Busy(u) /\ unit[u].handle # "none"
  <2> HIDE DEF at
  <2> QED BY <1>4, <1>5
<1>7. k \in at => k \in 0 .. n /\ EndsOf(f, records[f])[k] = unit[u].pos
  BY <1>3
<1> HIDE DEF at
<1>8. k \in at => k \in Int
  BY <1>7
<1> QED BY <1>1, <1>2, <1>6, <1>7, <1>8 DEF Busy

\* A READ at the place of a record gets that record and goes to the next.
LEMMA ReadsRecord ==
  ASSUME IInv, RInv, NEW u \in DOMAIN unit, NEW f, f = FileOf(u),
         NEW k, k = PlaceOf(u), k >= 0, k < Len(records[f])
  PROVE  LET record == records[f][k + 1] IN
         /\ record \in Seq(Nat)
         /\ FormOf[f] = "formatted" =>
              ReadLine(disk[f], unit[u].pos) = Reading(EndOf(f, k + 1), "ok", record)
         /\ FormOf[f] # "formatted" =>
              ReadPayload(disk[f], unit[u].pos, Len(record)) =
                Reading(EndOf(f, k + 1), "ok", record)
<1>1. f \in File /\ f \in DOMAIN disk /\ disk[f] \in Seq(Nat) /\ unit[u].pos \in Nat
  BY UnitFacts DEF Cells
<1>2. PICK log \in Logs : log = records[f]
  BY <1>1, HistoryFacts
<1>3. Len(log) \in Nat /\ k \in 0 .. Len(log) /\ EndsOf(f, log)[k] = unit[u].pos
  BY <1>2, EndsFacts, PlaceFacts
<1>4. k + 1 \in 1 .. Len(log) /\ (k + 1) - 1 = k
  BY <1>2, <1>3
<1>5. PICK record : record = log[k + 1]
  OBVIOUS
<1>6. record \in Seq(Nat) /\ EndOf(f, k + 1) = unit[u].pos + Size(f, record)
  <2>1. /\ record \in Seq(Nat) /\ EndsOf(f, log)[k + 1] = EndsOf(f, log)[(k + 1) - 1] + Size(f, record)
    BY <1>4, <1>5, RecordCells
  <2>2. EndOf(f, k + 1) = EndsOf(f, log)[k + 1]
    BY <1>1, <1>2, HistoryFacts
  <2> QED BY <1>3, <1>4, <2>1, <2>2
<1>7. Holds(f, record, disk[f], unit[u].pos)
  <2>1. LaidOut(f, log, disk[f])
    BY <1>1, <1>2, HistoryFacts
  <2>2. Holds(f, log[k + 1], disk[f], EndsOf(f, log)[(k + 1) - 1])
    BY <1>4, <2>1 DEF LaidOut
  <2> QED BY <1>3, <1>4, <1>5, <2>2
<1>8. CASE FormOf[f] = "formatted"
  <2>1. \A i \in 1 .. Len(record) : record[i] # Newline
    <3>1. Unbroken(f, log) /\ k + 1 \in DOMAIN log /\ DOMAIN record = 1 .. Len(record)
      BY <1>1, <1>2, <1>4, <1>6, HistoryFacts, LenProperties DEF Logs
    <3> QED BY <1>5, <1>8, <3>1 DEF Unbroken
  <2>2. ReadLine(disk[f], unit[u].pos) = Reading(unit[u].pos + Size(f, record), "ok", record)
    BY <1>1, <1>6, <1>7, <1>8, <2>1, ReadLineReads
  <2> QED BY <1>2, <1>5, <1>6, <1>8, <2>2
<1>9. CASE FormOf[f] # "formatted"
  <2>1. PICK n \in Nat : n = Len(record)
    BY <1>6, LenProperties
  <2>2. ReadPayload(disk[f], unit[u].pos, n) = Reading(unit[u].pos + Size(f, record), "ok", record)
    BY <1>1, <1>6, <1>7, <1>9, <2>1, ReadPayloadReads
  <2> QED BY <1>2, <1>5, <1>6, <1>9, <2>1, <2>2
<1> QED BY <1>8, <1>9

LEMMA ReadsEnd ==
  ASSUME IInv, RInv, NEW u \in DOMAIN unit, NEW f, f = FileOf(u),
         NEW k, k = PlaceOf(u), k >= 0, k = Len(records[f]), clean[f]
  PROVE  /\ ReadLine(disk[f], unit[u].pos).status = "end"
         /\ \A n : ReadPayload(disk[f], unit[u].pos, n).status = "end"
<1>1. f \in File /\ Cells(u) = disk[f] /\ Len(disk[f]) \in Nat /\ unit[u].pos \in Nat
  BY UnitFacts DEF Cells
<1>2. u \notin DOMAIN transfer /\ EndsOf(f, records[f])[k] = unit[u].pos
  BY PlaceFacts
<1>3. Len(disk[f]) = unit[u].pos
  BY <1>1, <1>2, CleanFacts DEF LogEnd
<1>4. unit[u].pos >= Len(disk[f]) /\ unit[u].pos + 1 > Len(disk[f])
  BY <1>1, <1>3
<1> QED BY <1>4 DEF ReadLine, ReadPayload, Reading

(***************************************************************************)
(* A READ at a record gets that record and goes to the next, and behind    *)
(* the last of a clean file it meets the end, whatever was done to the     *)
(* file before.                                                            *)
(***************************************************************************)
THEOREM ReadGetsWhatWasWritten == Spec => []ReadsWhatWasWritten
<1>1. Spec => [](IInv /\ RInv /\ Backed)
  BY Histories
<1>2. IInv /\ RInv => ReadsWhatWasWritten
  <2> SUFFICES ASSUME IInv, RInv PROVE ReadsWhatWasWritten
    OBVIOUS
  <2>1. ASSUME NEW u \in DOMAIN unit, NEW f, f = FileOf(u), NEW k, k = PlaceOf(u), k >= 0
        PROVE  LET Read1(n) == IF FormOf[f] = "formatted" THEN ReadLine(disk[f], unit[u].pos)
                                                          ELSE ReadPayload(disk[f], unit[u].pos, n) IN
               /\ k < Len(records[f]) =>
                    Read1(Len(records[f][k + 1])) =
                      Reading(EndOf(f, k + 1), "ok", records[f][k + 1])
               /\ k = Len(records[f]) /\ clean[f] => Read1(1).status = "end"
    <3>1. CASE FormOf[f] = "formatted"
      BY <2>1, <3>1, ReadsRecord, ReadsEnd
    <3>2. CASE FormOf[f] # "formatted"
      BY <2>1, <3>2, ReadsRecord, ReadsEnd
    <3> QED BY <3>1, <3>2
  <2> QED BY <2>1 DEF ReadsWhatWasWritten
<1> QED BY <1>1, <1>2, PTL

-----------------------------------------------------------------------------
(* The places of units between the records.                                *)

\* How many records are before a position, -1 in the middle of one.
IndexAt(ends, pos) ==
  LET at == {k \in DOMAIN ends : ends[k] = pos} IN
  IF at = {} THEN -1 ELSE CHOOSE k \in at : TRUE
Spot(f, log, pos) == IndexAt(EndsOf(f, log), pos)

(***************************************************************************)
(* Records end at different positions, so that a place is one number.      *)
(***************************************************************************)
LEMMA SpotFacts ==
  ASSUME NEW f, NEW log \in Logs, NEW pos
  PROVE  /\ Spot(f, log, pos) \in {-1} \union 0 .. Len(log)
         /\ Spot(f, log, pos) # -1 => EndsOf(f, log)[Spot(f, log, pos)] = pos
         /\ \A k \in 0 .. Len(log) : EndsOf(f, log)[k] = pos => Spot(f, log, pos) = k
<1>1. PICK n \in Nat : n = Len(log)
  BY EndsFacts
<1>2. PICK e : e = EndsOf(f, log)
  OBVIOUS
<1>3. e \in [0 .. n -> Nat] /\ \A j, k \in 0 .. n : j < k => e[j] < e[k]
  BY <1>1, <1>2, EndsFacts, EndsGrow
<1> DEFINE at == {k \in DOMAIN e : e[k] = pos}
<1>4. Spot(f, log, pos) = IF at = {} THEN -1 ELSE CHOOSE k \in at : TRUE
  BY <1>2 DEF Spot, IndexAt
<1>5. \A j, k \in at : j = k
  <2> TAKE j \in at, k \in at
  <2>1. j \in 0 .. n /\ k \in 0 .. n /\ e[j] = e[k] /\ e[j] \in Nat
    BY <1>3
  <2>2. ~ (j < k) /\ ~ (k < j)
    BY <1>3, <2>1
  <2> QED BY <2>1, <2>2
<1>6. \A k \in at : k \in 0 .. n /\ e[k] = pos /\ k # -1
  BY <1>3
<1>7. \A k \in 0 .. n : e[k] = pos => k \in at
  BY <1>3
<1> HIDE DEF at
<1>8. at # {} => (CHOOSE k \in at : TRUE) \in at
  OBVIOUS
<1>9. at = {} \/ Spot(f, log, pos) \in at
  BY <1>4, <1>8
<1>10. Spot(f, log, pos) \in {-1} \union 0 .. n
  BY <1>4, <1>6, <1>9
<1>11. Spot(f, log, pos) # -1 => e[Spot(f, log, pos)] = pos
  BY <1>4, <1>6, <1>9
<1>12. \A k \in 0 .. n : e[k] = pos => Spot(f, log, pos) = k
  BY <1>5, <1>7, <1>9
<1> QED BY <1>1, <1>2, <1>10, <1>11, <1>12

SpotOf(u) == Spot(FileOf(u), records[FileOf(u)], unit[u].pos)

\* A WRITE that is going to make a new last record.
Extends(u) ==
  transfer[u].inOrder /\ (transfer[u].ok \/ transfer[u].mode = "unformatted")

PlaceKnown ==
  \A u : /\ u \in DOMAIN transfer => PlaceOf(u) = IF Extends(u) THEN -2 ELSE -1
         /\ u \notin DOMAIN transfer =>
              PlaceOf(u) = IF unit[u].handle = "none" THEN -1 ELSE SpotOf(u)

(***************************************************************************)
(* The place of a unit in terms of its file, of the history and of the     *)
(* position, before a step and after it.                                   *)
(***************************************************************************)
LEMMA PlaceHolds == PlaceKnown
<1> SUFFICES ASSUME NEW u
             PROVE  /\ Busy(u) => PlaceOf(u) = IF Extends(u) THEN -2 ELSE -1
                    /\ ~ Busy(u) =>
                         PlaceOf(u) = IF unit[u].handle = "none" THEN -1 ELSE SpotOf(u)
  BY DEF PlaceKnown, Busy
<1>1. Ends(FileOf(u)) = EndsOf(FileOf(u), records[FileOf(u)])
  BY DEF Ends, EndsOf
<1>2. Busy(u) => PlaceOf(u) = IF Extends(u) THEN -2 ELSE -1
  BY DEF PlaceOf, Extends
<1>3. ~ Busy(u) => PlaceOf(u) = IF unit[u].handle = "none" THEN -1 ELSE SpotOf(u)
  <2> SUFFICES ASSUME ~ Busy(u)
               PROVE  PlaceOf(u) = IF unit[u].handle = "none" THEN -1 ELSE SpotOf(u)
    OBVIOUS
  <2> DEFINE at == {k \in DOMAIN Ends(FileOf(u)) : Ends(FileOf(u))[k] = unit[u].pos}
  <2>1. PlaceOf(u) = IF at = {} \/ unit[u].handle = "none" THEN -1 ELSE CHOOSE k \in at : TRUE
    BY DEF PlaceOf
  <2>2. SpotOf(u) = IF at = {} THEN -1 ELSE CHOOSE k \in at : TRUE
    BY <1>1 DEF SpotOf, Spot, IndexAt
  <2> HIDE DEF at
  <2> QED BY <2>1, <2>2
<1> QED BY <1>2, <1>3

LEMMA PlaceNext == PlaceKnown'
BY PlaceHolds, PTL

\* What the program may know of its sequential units.
Places ==
  [u \in {v \in DOMAIN unit : Sequential(v)} |-> [file |-> FileOf(u), at |-> PlaceOf(u)]]

(***************************************************************************)
(* The abstract state of a sequential unit.                                *)
(***************************************************************************)
LEMMA AbstractUnit ==
  ASSUME NEW u \in DOMAIN unit, Sequential(u)
  PROVE  /\ Files!At(u) = PlaceOf(u)
         /\ Files!Log(u) = records[FileOf(u)] /\ Files!Whole(u) = clean[FileOf(u)]
         /\ Places[u] = [file |-> FileOf(u), at |-> PlaceOf(u)]
         /\ \A k : Files!Go(u, k) <=> Places' = [Places EXCEPT ![u].at = k]
         /\ \A log, whole : Files!Become(u, log, whole) <=>
              /\ records' = [records EXCEPT ![FileOf(u)] = log]
              /\ clean' = [clean EXCEPT ![FileOf(u)] = whole]
<1>1. u \in {v \in DOMAIN unit : Sequential(v)}
  OBVIOUS
<1> QED BY <1>1 DEF Files!At, Files!Log, Files!Whole, Files!Go, Files!Become, Places

(***************************************************************************)
(* The places of the other units stay.                                     *)
(***************************************************************************)
LEMMA OtherPlaces ==
  ASSUME NEW u, Apart(u)
  PROVE  /\ \A v \in DOMAIN Places : v # u => v \in DOMAIN Places' /\ Places'[v] = Places[v]
         /\ \A v \in DOMAIN Places' : v # u => v \in DOMAIN Places
<1>1. ASSUME NEW v \in DOMAIN unit, v # u
      PROVE  /\ v \in DOMAIN unit' /\ FileOf(v)' = FileOf(v) /\ PlaceOf(v)' = PlaceOf(v)
             /\ Sequential(v)' = Sequential(v)
  <2>1. v \in DOMAIN unit' /\ unit'[v] = unit[v]
    BY <1>1 DEF Apart
  <2>2. FileOf(v)' = FileOf(v) /\ Sequential(v)' = Sequential(v)
    BY <2>1 DEF FileOf, Sequential, Connected
  <2>3. SpotOf(v)' = SpotOf(v)
    BY <1>1, <2>1, <2>2 DEF SpotOf, Apart
  <2>4. CASE v \in DOMAIN transfer
    <3>1. v \in DOMAIN transfer' /\ transfer'[v] = transfer[v]
      BY <1>1, <2>4 DEF Apart
    <3>2. Extends(v)' = Extends(v)
      BY <3>1 DEF Extends
    <3>3. PlaceOf(v) = IF Extends(v) THEN -2 ELSE -1
      BY <2>4, PlaceHolds DEF PlaceKnown
    <3>4. PlaceOf(v)' = IF Extends(v)' THEN -2 ELSE -1
      BY <3>1, PlaceNext DEF PlaceKnown
    <3> QED BY <2>1, <2>2, <3>2, <3>3, <3>4
  <2>5. CASE v \notin DOMAIN transfer
    <3>1. v \notin DOMAIN transfer'
      BY <1>1, <2>5 DEF Apart
    <3>2. PlaceOf(v) = IF unit[v].handle = "none" THEN -1 ELSE SpotOf(v)
      BY <2>5, PlaceHolds DEF PlaceKnown
    <3>3. PlaceOf(v)' = IF unit'[v].handle = "none" THEN -1 ELSE SpotOf(v)'
      BY <3>1, PlaceNext DEF PlaceKnown
    <3> QED BY <2>1, <2>2, <2>3, <3>2, <3>3
  <2> QED BY <2>4, <2>5
<1>2. ASSUME NEW v \in DOMAIN Places, v # u PROVE v \in DOMAIN Places' /\ Places'[v] = Places[v]
  <2>1. v \in DOMAIN unit /\ Sequential(v) /\ Places[v] = [file |-> FileOf(v), at |-> PlaceOf(v)]
    BY DEF Places
  <2>2. /\ v \in DOMAIN unit' /\ FileOf(v)' = FileOf(v) /\ PlaceOf(v)' = PlaceOf(v)
        /\ Sequential(v)'
    BY <1>1, <1>2, <2>1
  <2>3. v \in DOMAIN Places' /\ Places'[v] = [file |-> FileOf(v)', at |-> PlaceOf(v)']
    BY <2>2 DEF Places
  <2> QED BY <2>1, <2>2, <2>3
<1>3. ASSUME NEW v \in DOMAIN Places', v # u PROVE v \in DOMAIN Places
  <2>1. v \in DOMAIN unit' /\ Sequential(v)'
    BY DEF Places
  <2>2. v \in DOMAIN unit
    BY <1>3, <2>1 DEF Apart
  <2> QED BY <1>1, <1>3, <2>1, <2>2 DEF Places
<1> QED BY <1>2, <1>3

(***************************************************************************)
(* A sequential unit goes where it then is; a direct one has no place.     *)
(***************************************************************************)
LEMMA UnitGoes ==
  ASSUME NEW u, Apart(u), Connects(u)
  PROVE  /\ Sequential(u) => Sequential(u)' /\ \A k : k = PlaceOf(u)' => Files!Go(u, k)
         /\ ~ Sequential(u) => Places' = Places
         /\ Sequential(u) /\ PlaceOf(u)' = PlaceOf(u) => Places' = Places
<1>1. FileOf(u)' = FileOf(u) /\ Sequential(u)' = Sequential(u)
  BY DEF Connects, FileOf, Sequential, Connected
<1>2. u \in DOMAIN Places <=> Sequential(u)
  BY DEF Places, Connects
<1>3. u \in DOMAIN Places' <=> Sequential(u)
  BY <1>1 DEF Places, Connects
<1>4. /\ Places = [v \in DOMAIN Places |-> Places[v]]
      /\ Places' = [v \in DOMAIN Places' |-> Places'[v]]
  BY DEF Places
<1>5. DOMAIN Places' = DOMAIN Places
  BY <1>2, <1>3, OtherPlaces
<1>6. ~ Sequential(u) => Places' = Places
  <2> SUFFICES ASSUME ~ Sequential(u) PROVE Places' = Places
    OBVIOUS
  <2>1. \A v \in DOMAIN Places : Places'[v] = Places[v]
    BY <1>2, OtherPlaces
  <2> QED BY <1>4, <1>5, <2>1
<1>7. ASSUME Sequential(u) PROVE Places' = [Places EXCEPT ![u].at = PlaceOf(u)']
  <2>1. Places[u] = [file |-> FileOf(u), at |-> PlaceOf(u)]
    BY <1>7 DEF Places, Connects
  <2>2. Places'[u] = [file |-> FileOf(u), at |-> PlaceOf(u)']
    BY <1>1, <1>7 DEF Places, Connects
  <2>3. Places'[u] = [Places[u] EXCEPT !.at = PlaceOf(u)']
    BY <2>1, <2>2
  <2>4. \A v \in DOMAIN Places : v # u => Places'[v] = Places[v]
    BY OtherPlaces
  <2>5. Places' = [v \in DOMAIN Places |-> IF v = u THEN Places'[u] ELSE Places[v]]
    BY <1>4, <1>5, <2>4
  <2>6. Places' = [Places EXCEPT ![u] = Places'[u]]
    BY <1>4, <2>5
  <2> QED BY <2>3, <2>6
<1>8. ASSUME Sequential(u), PlaceOf(u)' = PlaceOf(u) PROVE Places' = Places
  <2>1. Places[u] = [file |-> FileOf(u), at |-> PlaceOf(u)]
    BY <1>8 DEF Places, Connects
  <2>2. Places'[u] = [file |-> FileOf(u), at |-> PlaceOf(u)]
    BY <1>1, <1>8 DEF Places, Connects
  <2>3. \A v \in DOMAIN Places : Places'[v] = Places[v]
    BY <2>1, <2>2, OtherPlaces
  <2> QED BY <1>4, <1>5, <2>3
<1>9. Sequential(u) => Sequential(u)' /\ \A k : k = PlaceOf(u)' => Files!Go(u, k)
  BY <1>1, <1>7, AbstractUnit DEF Connects
<1> QED BY <1>6, <1>8, <1>9

-----------------------------------------------------------------------------
(* The records of each unit that a failure cannot take.                    *)

Fragiles == [u \in DOMAIN buffer |-> Len(Kept(FileOf(u), buffer[u].from))]

FragilesKnown ==
  /\ DOMAIN Fragiles = DOMAIN buffer /\ Fragiles = [v \in DOMAIN Fragiles |-> Fragiles[v]]
  /\ \A u \in DOMAIN buffer :
       Fragiles[u] = Len(KeptOf(FileOf(u), records[FileOf(u)], buffer[u].from))

LEMMA FragilesHold == FragilesKnown
<1>1. \A f, pos : Kept(f, pos) = KeptOf(f, records[f], pos)
  BY DEF Kept, KeptOf, Ends, EndsOf
<1> QED BY <1>1 DEF FragilesKnown, Fragiles

LEMMA FragilesNext == FragilesKnown'
BY FragilesHold, PTL

(***************************************************************************)
(* A step leaves the buffers of the other units alone.  That of its own    *)
(* unit is empty then, or starts where it starts.                          *)
(***************************************************************************)
LEMMA OtherFragiles ==
  ASSUME IInv, NEW u, Apart(u)
  PROVE  /\ \A v \in DOMAIN Fragiles : v # u => v \in DOMAIN Fragiles' /\ Fragiles'[v] = Fragiles[v]
         /\ \A v \in DOMAIN Fragiles' : v # u => v \in DOMAIN Fragiles
<1>1. ASSUME NEW v \in DOMAIN buffer, v # u
      PROVE  v \in DOMAIN buffer' /\ Fragiles'[v] = Fragiles[v]
  <2>1. v \in DOMAIN unit
    BY DEF IInv, BufferSound, Connected
  <2>2. v \in DOMAIN buffer' /\ buffer'[v] = buffer[v] /\ unit'[v] = unit[v]
    BY <1>1, <2>1 DEF Apart, OthersBuffers
  <2>3. FileOf(v)' = FileOf(v) /\ records'[FileOf(v)] = records[FileOf(v)]
    BY <1>1, <2>1, <2>2 DEF Apart, FileOf
  <2> QED BY <2>2, <2>3, FragilesHold, FragilesNext DEF FragilesKnown
<1>2. \A v \in DOMAIN buffer' : v # u => v \in DOMAIN buffer
  BY DEF Apart, OthersBuffers
<1> QED BY <1>1, <1>2, FragilesHold, FragilesNext DEF FragilesKnown

LEMMA FragileGoes ==
  ASSUME IInv, NEW u, Apart(u)
  PROVE  /\ Drained(u) => Files!Secured(u)
         /\ u \in DOMAIN buffer' => \A n : n = Fragiles'[u] => Files!Fragile(u, n)
         /\ u \notin DOMAIN buffer /\ u \notin DOMAIN buffer' => Fragiles' = Fragiles
<1>1. /\ DOMAIN Fragiles = DOMAIN buffer /\ DOMAIN Fragiles' = DOMAIN buffer'
      /\ Fragiles = [v \in DOMAIN Fragiles |-> Fragiles[v]]
      /\ Fragiles' = [v \in DOMAIN Fragiles' |-> Fragiles'[v]]
  BY FragilesHold, FragilesNext DEF FragilesKnown
<1>2. PICK old : old = Fragiles
  OBVIOUS
<1>3. PICK new : new = Fragiles'
  OBVIOUS
<1>4. /\ \A v \in DOMAIN old : v # u => v \in DOMAIN new /\ new[v] = old[v]
      /\ \A v \in DOMAIN new : v # u => v \in DOMAIN old
  BY <1>2, <1>3, OtherFragiles
<1>5. /\ old = [v \in DOMAIN old |-> old[v]] /\ new = [v \in DOMAIN new |-> new[v]]
      /\ DOMAIN old = DOMAIN buffer /\ DOMAIN new = DOMAIN buffer'
  BY <1>1, <1>2, <1>3
<1>6. ASSUME Drained(u) PROVE Files!Secured(u)
  <2>1. u \notin DOMAIN new
    BY <1>5, <1>6 DEF Drained
  <2>2. new = [v \in DOMAIN old \ {u} |-> old[v]]
    BY <1>4, <1>5, <2>1
  <2> QED BY <1>2, <1>3, <2>2 DEF Files!Secured, Fragiles
<1>7. ASSUME u \in DOMAIN buffer', NEW n, n = Fragiles'[u] PROVE Files!Fragile(u, n)
  <2>1. u \in DOMAIN new /\ new[u] = n
    BY <1>3, <1>5, <1>7
  <2>2. new = [v \in DOMAIN old \union {u} |-> IF v = u THEN n ELSE old[v]]
    BY <1>4, <1>5, <2>1
  <2> QED BY <1>2, <1>3, <2>2 DEF Files!Fragile, Fragiles
<1>8. ASSUME u \notin DOMAIN buffer, u \notin DOMAIN buffer' PROVE new = old
  BY <1>4, <1>5, <1>8
<1> QED BY <1>2, <1>3, <1>6, <1>7, <1>8

LEMMA FragileStays ==
  ASSUME IInv, RInv, NEW u, Apart(u), UNCHANGED buffer,
         NEW f, f = FileOf(u), u \in DOMAIN buffer => FileOf(u)' = f,
         u \in DOMAIN buffer =>
           KeptOf(f, records'[f], buffer[u].from) = Kept(f, buffer[u].from)
  PROVE  Fragiles' = Fragiles
<1>1. CASE u \notin DOMAIN buffer
  BY <1>1, FragileGoes
<1>2. CASE u \in DOMAIN buffer
  <2>1. f \in File
    BY <1>2, UnitFacts DEF IInv, BufferSound, Connected
  <2>2. Kept(f, buffer[u].from) = KeptOf(f, records[f], buffer[u].from)
    BY <2>1, HistoryFacts
  <2>3. Fragiles'[u] = Fragiles[u]
    BY <1>2, <2>2, FragilesHold, FragilesNext DEF FragilesKnown
  <2>4. /\ DOMAIN Fragiles' = DOMAIN Fragiles
        /\ Fragiles = [v \in DOMAIN Fragiles |-> Fragiles[v]]
        /\ Fragiles' = [v \in DOMAIN Fragiles' |-> Fragiles'[v]]
    BY FragilesHold, FragilesNext DEF FragilesKnown
  <2>5. \A v \in DOMAIN Fragiles : Fragiles'[v] = Fragiles[v]
    BY <2>3, OtherFragiles
  <2> QED BY <2>4, <2>5
<1> QED BY <1>1, <1>2

-----------------------------------------------------------------------------
(* BACKSPACE and READ from a place.                                        *)

\* Record number k of a log starts at start, and has n cells.
LineIn(f, log, cells, k, start, n) ==
  /\ start = EndsOf(f, log)[k - 1] /\ n = Len(log[k])
  /\ EndsOf(f, log)[k] = start + n + 1
  /\ start + n + 1 <= Len(cells) /\ cells[start + n + 1] = Newline
  /\ \A i \in 1 .. n : cells[start + i] # Newline
PayloadIn(f, log, cells, k, start, n) ==
  /\ start = EndsOf(f, log)[k - 1] /\ EndsOf(f, log)[k] = start + n + 2
  /\ start + n + 2 <= Len(cells)
  /\ cells[start + 1] = n /\ cells[start + n + 2] = n

(***************************************************************************)
(* A line is followed by the only newline in it, a payload is between      *)
(* markers that agree.                                                     *)
(***************************************************************************)
LEMMA LineFacts ==
  ASSUME NEW f, FormOf[f] = "formatted", NEW log \in Logs, Unbroken(f, log),
         NEW cells \in Seq(Nat), LaidOut(f, log, cells), NEW k \in 1 .. Len(log)
  PROVE  \E start, n \in Nat : LineIn(f, log, cells, k, start, n)
<1>1. PICK record \in Seq(Nat) : record = log[k]
  BY RecordCells
<1>2. PICK n \in Nat : n = Len(record)
  BY LenProperties
<1>3. PICK start \in Nat : start = EndsOf(f, log)[k - 1]
  BY RecordCells
<1>4. /\ Size(f, record) = n + 1
      /\ \A i \in 1 .. n : Encoded(f, record)[i] = record[i]
      /\ Encoded(f, record)[n + 1] = Newline
  BY <1>2, EncodedFacts
<1>5. EndsOf(f, log)[k] = start + (n + 1)
  BY <1>1, <1>3, <1>4, RecordCells
<1>6. Holds(f, record, cells, start)
  BY <1>1, <1>3 DEF LaidOut
<1>7. start + (n + 1) <= Len(cells) /\ \A i \in 1 .. n + 1 : cells[start + i] = Encoded(f, record)[i]
  BY <1>4, <1>6 DEF Holds
<1>8. \A i \in 1 .. n : record[i] # Newline
  <2>1. k \in DOMAIN log /\ DOMAIN record = 1 .. n
    BY <1>2, LenProperties DEF Logs
  <2> QED BY <1>1, <2>1 DEF Unbroken
<1>9. cells[start + (n + 1)] = Newline
  <2>1. n + 1 \in 1 .. n + 1
    OBVIOUS
  <2> QED BY <1>4, <1>7, <2>1
<1>10. \A i \in 1 .. n : cells[start + i] # Newline
  <2>1. \A i \in 1 .. n : i \in 1 .. n + 1
    OBVIOUS
  <2> QED BY <1>4, <1>7, <1>8, <2>1
<1>11. start + (n + 1) = start + n + 1
  OBVIOUS
<1>12. LineIn(f, log, cells, k, start, n)
  BY <1>1, <1>2, <1>3, <1>5, <1>7, <1>9, <1>10, <1>11 DEF LineIn
<1> QED BY <1>12

LEMMA PayloadMarkers ==
  ASSUME NEW f, FormOf[f] # "formatted", NEW log \in Logs,
         NEW cells \in Seq(Nat), LaidOut(f, log, cells), NEW k \in 1 .. Len(log)
  PROVE  \E start, n \in Nat : PayloadIn(f, log, cells, k, start, n)
<1>1. PICK record \in Seq(Nat) : record = log[k]
  BY RecordCells
<1>2. PICK n \in Nat : n = Len(record)
  BY LenProperties
<1>3. PICK start \in Nat : start = EndsOf(f, log)[k - 1]
  BY RecordCells
<1>4. Size(f, record) = n + 2 /\ Encoded(f, record)[1] = n /\ Encoded(f, record)[n + 2] = n
  BY <1>2, EncodedFacts
<1>5. EndsOf(f, log)[k] = start + (n + 2)
  BY <1>1, <1>3, <1>4, RecordCells
<1>6. Holds(f, record, cells, start)
  BY <1>1, <1>3 DEF LaidOut
<1>7. start + (n + 2) <= Len(cells) /\ \A i \in 1 .. n + 2 : cells[start + i] = Encoded(f, record)[i]
  BY <1>4, <1>6 DEF Holds
<1>8. cells[start + 1] = n /\ cells[start + (n + 2)] = n
  <2>1. 1 \in 1 .. n + 2 /\ n + 2 \in 1 .. n + 2
    OBVIOUS
  <2> QED BY <1>4, <1>7, <2>1
<1>9. start + (n + 2) = start + n + 2
  OBVIOUS
<1>10. PayloadIn(f, log, cells, k, start, n)
  BY <1>3, <1>5, <1>7, <1>8, <1>9 DEF PayloadIn
<1> QED BY <1>10

(***************************************************************************)
(* BACKSPACE behind record number k goes to where it starts, except that a *)
(* formatted file is not backspaced over an empty first record.            *)
(***************************************************************************)
LEMMA LineStartBack ==
  ASSUME NEW f, FormOf[f] = "formatted", NEW log \in Logs, Unbroken(f, log),
         NEW cells \in Seq(Nat), LaidOut(f, log, cells), NEW k \in 1 .. Len(log)
  PROVE  \/ LineStart(cells, EndsOf(f, log)[k]) = EndsOf(f, log)[k - 1]
         \/ k = 1 /\ Len(log[1]) = 0 /\ LineStart(cells, EndsOf(f, log)[k]) = EndsOf(f, log)[k]
<1>0. PICK start \in Nat, n \in Nat : LineIn(f, log, cells, k, start, n)
  BY LineFacts
<1>1. /\ start = EndsOf(f, log)[k - 1] /\ n = Len(log[k])
      /\ EndsOf(f, log)[k] = start + n + 1
      /\ start + n + 1 <= Len(cells) /\ cells[start + n + 1] = Newline
      /\ \A i \in 1 .. n : cells[start + i] # Newline
  BY <1>0 DEF LineIn
<1>2. PICK pos \in Nat : pos = EndsOf(f, log)[k] /\ pos = start + n + 1
  BY <1>1
<1>3. Len(log) \in Nat
  BY EndsFacts
<1>4. k = 1 => start = 0
  BY <1>1, EndsFacts
<1>5. k # 1 => start >= 1 /\ cells[start] = Newline
  <2> SUFFICES ASSUME k # 1 PROVE start >= 1 /\ cells[start] = Newline
    OBVIOUS
  <2>1. PICK j \in 1 .. Len(log) : j = k - 1
    BY <1>3
  <2>2. PICK before \in Nat, m \in Nat : LineIn(f, log, cells, j, before, m)
    BY LineFacts
  <2>3. start = before + m + 1 /\ cells[before + m + 1] = Newline
    BY <1>1, <2>1, <2>2 DEF LineIn
  <2> QED BY <2>3
<1> DEFINE last == IF cells[pos] = Newline /\ pos > 1 THEN pos - 1 ELSE pos
           newlines == {i \in 1 .. last : cells[i] = Newline}
<1>6. LineStart(cells, pos) = IF newlines = {} THEN 0 ELSE Max(newlines)
  <2>1. pos # 0
    BY <1>2
  <2> QED BY <2>1 DEF LineStart
<1>7. cells[pos] = Newline
  BY <1>1, <1>2
<1>8. CASE pos = 1
  <2>1. start = 0 /\ n = 0
    BY <1>2, <1>8
  <2>2. k = 1
    BY <1>5, <2>1
  <2>3. last = 1
    BY <1>8
  <2>4. 1 \in newlines /\ newlines \in SUBSET Nat /\ \A i \in newlines : i = 1
    BY <1>7, <1>8, <2>3
  <2> HIDE DEF newlines
  <2>5. Max(newlines) = 1
    <3>1. newlines # {} /\ 1 \in Nat /\ \A i \in newlines : i <= 1
      BY <2>4
    <3>2. Max(newlines) \in newlines
      BY <2>4, <3>1, MaxFacts
    <3> QED BY <2>4, <3>2
  <2>6. LineStart(cells, pos) = pos
    BY <1>6, <1>8, <2>4, <2>5
  <2>7. Len(log[1]) = 0
    BY <1>1, <2>1, <2>2
  <2> QED BY <1>2, <2>2, <2>6, <2>7
<1>9. CASE pos # 1
  <2>1. last = start + n
    BY <1>2, <1>7, <1>9
  <2>2. \A i \in newlines : i \in 1 .. start + n /\ cells[i] = Newline
    BY <2>1
  <2>3. \A i \in 1 .. start + n : cells[i] = Newline => i \in newlines
    BY <2>1
  <2> HIDE DEF newlines
  <2>4. ASSUME NEW i \in newlines PROVE i <= start
    <3>1. SUFFICES ASSUME ~ (i <= start) PROVE FALSE
      OBVIOUS
    <3>2. i \in 1 .. start + n
      BY <2>2
    <3>3. PICK j \in 1 .. n : i = start + j
      <4>1. i - start \in 1 .. n /\ i = start + (i - start)
        BY <3>1, <3>2
      <4> QED BY <4>1
    <3> QED BY <1>1, <2>2, <3>3
  <2>5. CASE k = 1
    <3>1. newlines = {}
      BY <1>4, <2>2, <2>4, <2>5
    <3> QED BY <1>1, <1>2, <1>4, <1>6, <2>5, <3>1
  <2>6. CASE k # 1
    <3>1. start \in newlines
      <4>1. start \in 1 .. start + n
        BY <1>5, <2>6
      <4> QED BY <1>5, <2>3, <2>6, <4>1
    <3>2. newlines \in SUBSET Nat /\ newlines # {} /\ \A i \in newlines : i <= start
      BY <2>2, <2>4, <3>1
    <3>3. Max(newlines) \in newlines /\ \A i \in newlines : i <= Max(newlines)
      BY <3>2, MaxFacts
    <3>4. start <= Max(newlines) /\ Max(newlines) <= start /\ Max(newlines) \in Nat
      BY <3>1, <3>2, <3>3
    <3>5. Max(newlines) = start
      BY <3>4
    <3> QED BY <1>1, <1>2, <1>6, <3>2, <3>5
  <2> QED BY <2>5, <2>6
<1> QED BY <1>8, <1>9

LEMMA MarkerStartBack ==
  ASSUME NEW f, FormOf[f] # "formatted", NEW log \in Logs,
         NEW cells \in Seq(Nat), LaidOut(f, log, cells), NEW k \in 1 .. Len(log)
  PROVE  MarkerStart(cells, EndsOf(f, log)[k]) = EndsOf(f, log)[k - 1]
<1>0. PICK start \in Nat, n \in Nat : PayloadIn(f, log, cells, k, start, n)
  BY PayloadMarkers
<1>1. /\ start = EndsOf(f, log)[k - 1] /\ EndsOf(f, log)[k] = start + n + 2
      /\ start + n + 2 <= Len(cells)
      /\ cells[start + 1] = n /\ cells[start + n + 2] = n
  BY <1>0 DEF PayloadIn
<1>2. PICK pos \in Nat : pos = EndsOf(f, log)[k] /\ pos = start + n + 2
  BY <1>1
<1>3. Len(cells) \in Nat
  BY LenProperties
<1>4. ~ (pos < 2) /\ ~ (pos > Len(cells)) /\ pos - 2 - n = start /\ ~ (n > pos - 2)
  <2>1. pos = start + n + 2 /\ pos <= Len(cells)
    BY <1>1, <1>2
  <2> QED BY <1>3, <2>1
<1>6. cells[pos] = n /\ cells[start + 1] = n
  BY <1>1, <1>2
<1>5. MarkerStart(cells, pos) = start
  BY <1>4, <1>6 DEF MarkerStart
<1> QED BY <1>1, <1>2, <1>5

(***************************************************************************)
(* READ of an unformatted record goes behind it, however many items it     *)
(* reads, and no READ goes back.                                           *)
(***************************************************************************)
LEMMA PayloadPasses ==
  ASSUME NEW f, FormOf[f] # "formatted", NEW log \in Logs,
         NEW cells \in Seq(Nat), LaidOut(f, log, cells), NEW k \in 1 .. Len(log), NEW n
  PROVE  ReadPayload(cells, EndsOf(f, log)[k - 1], n).pos = EndsOf(f, log)[k]
<1>0. PICK pos \in Nat, length \in Nat : PayloadIn(f, log, cells, k, pos, length)
  BY PayloadMarkers
<1>1. /\ pos = EndsOf(f, log)[k - 1] /\ EndsOf(f, log)[k] = pos + length + 2
      /\ pos + length + 2 <= Len(cells)
      /\ cells[pos + 1] = length /\ cells[pos + length + 2] = length
  BY <1>0 DEF PayloadIn
<1>2. PICK start \in Nat : start = pos + 1
  OBVIOUS
<1>3. PICK after \in Nat : after = start + length
  OBVIOUS
<1>4. Len(cells) \in Nat
  BY LenProperties
<1>5. ~ (start > Len(cells)) /\ after < Len(cells) /\ after + 1 = pos + length + 2
  <2>1. pos + length + 2 <= Len(cells)
    BY <1>1
  <2> QED BY <1>2, <1>3, <1>4, <2>1
<1>6. cells[start] = length /\ cells[after + 1] = length
  BY <1>1, <1>2, <1>5
<1>7. ReadPayload(cells, pos, n).pos = after + 1
  BY <1>2, <1>3, <1>5, <1>6 DEF ReadPayload, Reading
<1> QED BY <1>1, <1>5, <1>7

LEMMA ReadsForward ==
  ASSUME NEW cells \in Seq(Nat), NEW pos \in Nat, NEW n
  PROVE  ReadLine(cells, pos).pos >= pos /\ ReadPayload(cells, pos, n).pos >= pos
<1>1. Len(cells) \in Nat /\ \A i \in 1 .. Len(cells) : cells[i] \in Nat
  BY LenProperties, ElementOfSeq
<1>2. ReadLine(cells, pos).pos >= pos
  <2> DEFINE newlines == {i \in pos + 1 .. Len(cells) : cells[i] = Newline}
             end == IF newlines = {} THEN Len(cells) ELSE Min(newlines)
  <2>1. newlines \in SUBSET Nat /\ \A i \in newlines : i >= pos
    BY <1>1
  <2>2. ~ (pos >= Len(cells)) => end \in Nat /\ end >= pos
    <3> HIDE DEF newlines
    <3>1. CASE newlines = {}
      BY <1>1, <3>1
    <3>2. CASE newlines # {}
      <4>1. Min(newlines) \in newlines
        BY <2>1, <3>2, MinFacts
      <4> QED BY <2>1, <3>2, <4>1
    <3> QED BY <3>1, <3>2
  <2>3. ReadLine(cells, pos).pos = IF pos >= Len(cells) THEN pos ELSE end
    BY DEF ReadLine, Reading
  <2> HIDE DEF end
  <2> QED BY <2>2, <2>3
<1>3. ReadPayload(cells, pos, n).pos >= pos
  <2> DEFINE start == pos + 1
             length == cells[start]
             after == start + length
  <2>1. ReadPayload(cells, pos, n).pos =
          IF start > Len(cells) THEN pos
          ELSE IF after < Len(cells) /\ cells[after + 1] = length THEN after + 1
          ELSE IF after < Len(cells) THEN after + 1 ELSE after
    BY DEF ReadPayload, Reading
  <2>2. start <= Len(cells) => length \in Nat
    BY <1>1
  <2> HIDE DEF length
  <2> QED BY <1>1, <2>1, <2>2
<1> QED BY <1>2, <1>3

(***************************************************************************)
(* A unit between two transfers that goes to another position is at the    *)
(* place there.                                                            *)
(***************************************************************************)
LEMMA MovesTo ==
  ASSUME IInv, NEW u \in DOMAIN unit, Sequential(u), ~ Busy(u), unit[u].handle = "open",
         NEW pos, Position(u, pos), UNCHANGED << disk, transfer, faults, history >>, Drained(u),
         NEW f, f = FileOf(u), NEW k, k = Spot(f, records[f], pos)
  PROVE  /\ Files!Go(u, k) /\ Files!Keep /\ Files!Succeeds /\ Files!Secured(u)
<1>1. /\ records' = records /\ clean' = clean /\ faults' = faults /\ transfer' = transfer
      /\ unit' = [unit EXCEPT ![u].pos = pos]
  BY DEF history, Position
<1>2. unit[u] \in Entries
  BY UnitFacts
<1>3. /\ unit'[u].file = unit[u].file /\ unit'[u].access = unit[u].access
      /\ unit'[u].handle = "open" /\ unit'[u].pos = pos
  BY <1>1, <1>2 DEF Entries
<1>4. Apart(u) /\ Connects(u)
  BY <1>1, <1>3 DEF Apart, Connects, Drained
<1>5. PlaceOf(u)' = Spot(f, records[f], pos)
  <2>1. u \notin DOMAIN transfer'
    BY <1>1 DEF Busy
  <2>2. PlaceOf(u)' = SpotOf(u)'
    BY <1>3, <2>1, PlaceNext DEF PlaceKnown
  <2>3. FileOf(u)' = f
    BY <1>3 DEF FileOf
  <2> QED BY <1>1, <1>3, <2>2, <2>3 DEF SpotOf
<1>6. Files!Go(u, k)
  BY <1>4, <1>5, UnitGoes
<1>7. Files!Keep /\ Files!Succeeds
  BY <1>1 DEF Files!Keep, Files!Succeeds
<1> QED BY <1>4, <1>6, <1>7, FragileGoes

\* What the history says of a unit between two transfers.
LEMMA PlacedFacts ==
  ASSUME IInv, RInv, NEW u \in DOMAIN unit, ~ Busy(u), unit[u].handle = "open",
         NEW f, f = FileOf(u)
  PROVE  /\ f \in File /\ f \in DOMAIN disk /\ Cells(u) = disk[f] /\ disk[f] \in Seq(Nat)
         /\ records[f] \in Logs /\ LaidOut(f, records[f], disk[f]) /\ Unbroken(f, records[f])
         /\ clean[f] \in BOOLEAN
         /\ unit[u].pos \in Nat /\ PlaceOf(u) = Spot(f, records[f], unit[u].pos)
<1>1. f \in File /\ f \in DOMAIN disk /\ Cells(u) = disk[f] /\ unit[u].pos \in Nat
  BY UnitFacts DEF Cells
<1>2. PlaceOf(u) = SpotOf(u)
  BY PlaceHolds DEF PlaceKnown, Busy
<1> QED BY <1>1, <1>2, HistoryFacts DEF SpotOf

(***************************************************************************)
(* BACKSPACE is that of a file of records.                                 *)
(***************************************************************************)
LEMMA BackspaceMoves ==
  ASSUME IInv, RInv, NEW u \in DOMAIN unit, Backspace(u)
  PROVE  Files!Backspace(u) /\ Sequential(u)
<1>1. PICK f : f = FileOf(u)
  OBVIOUS
<1>2. PICK pos : pos = IF FormOf[f] = "formatted" THEN LineStart(Cells(u), unit[u].pos)
                                             ELSE MarkerStart(Cells(u), unit[u].pos)
  OBVIOUS
<1>3. /\ ~ Busy(u) /\ Sequential(u) /\ Position(u, pos)
      /\ UNCHANGED << disk, transfer, faults, history >> /\ Drained(u)
      /\ Stale(u) => unit[u].handle = "open"
  BY <1>1, <1>2, DrainedIf DEF Backspace, BackspaceReady
<1>4. unit[u].handle = "open"
  <2>1. EntrySound(u) /\ unit[u] \in Entries
    BY UnitFacts DEF IInv
  <2> QED BY <1>3, <2>1 DEF EntrySound, Stale, Entries
<1>5. PICK log : log = records[f]
  OBVIOUS
<1>6. PICK cells : cells = disk[f]
  OBVIOUS
<1>7. /\ cells \in Seq(Nat) /\ log \in Logs /\ LaidOut(f, log, cells) /\ Unbroken(f, log)
      /\ Cells(u) = cells /\ unit[u].pos \in Nat /\ PlaceOf(u) = Spot(f, log, unit[u].pos)
  BY <1>1, <1>3, <1>4, <1>5, <1>6, PlacedFacts
<1>8. PICK from : from = PlaceOf(u)
  OBVIOUS
<1>9. PICK to : to = Spot(f, log, pos)
  OBVIOUS
<1>10. PICK n \in Nat : n = Len(log)
  BY <1>7, EndsFacts
<1>11. /\ from \in {-1} \union 0 .. n /\ to \in {-1} \union 0 .. n
       /\ from # -1 => EndsOf(f, log)[from] = unit[u].pos
       /\ \A k \in 0 .. n : EndsOf(f, log)[k] = pos => to = k
  <2>1. from = Spot(f, log, unit[u].pos)
    BY <1>7, <1>8
  <2>2. from \in {-1} \union 0 .. n /\ (from # -1 => EndsOf(f, log)[from] = unit[u].pos)
    BY <1>7, <1>10, <2>1, SpotFacts
  <2>3. to \in {-1} \union 0 .. n /\ \A k \in 0 .. n : EndsOf(f, log)[k] = pos => to = k
    BY <1>7, <1>9, <1>10, SpotFacts
  <2> QED BY <2>2, <2>3
<1>12. from = 0 => to = 0
  <2> SUFFICES ASSUME from = 0 PROVE to = 0
    OBVIOUS
  <2>1. EndsOf(f, log)[0] = 0 /\ unit[u].pos = 0
    BY <1>7, <1>11, EndsFacts
  <2>2. pos = 0
    BY <1>2, <2>1 DEF LineStart, MarkerStart
  <2> QED BY <1>11, <2>1, <2>2
<1>13. from > 0 => \/ to = from - 1
                   \/ from = 1 /\ Len(log[1]) = 0 /\ FormOf[f] = "formatted" /\ to = 1
  <2> SUFFICES ASSUME from > 0
               PROVE \/ to = from - 1
                     \/ from = 1 /\ Len(log[1]) = 0 /\ FormOf[f] = "formatted" /\ to = 1
    OBVIOUS
  <2>1. from \in 1 .. Len(log) /\ EndsOf(f, log)[from] = unit[u].pos /\ from - 1 \in 0 .. n
        /\ from \in 0 .. n
    BY <1>10, <1>11
  <2>2. CASE FormOf[f] = "formatted"
    <3>1. \/ pos = EndsOf(f, log)[from - 1]
          \/ from = 1 /\ Len(log[1]) = 0 /\ pos = EndsOf(f, log)[from]
      BY <1>2, <1>7, <2>1, <2>2, LineStartBack
    <3> QED BY <1>11, <2>1, <2>2, <3>1
  <2>3. CASE FormOf[f] # "formatted"
    <3>1. pos = EndsOf(f, log)[from - 1]
      BY <1>2, <1>7, <2>1, <2>3, MarkerStartBack
    <3> QED BY <1>11, <2>1, <3>1
  <2> QED BY <2>2, <2>3
<1>14. Files!Go(u, to) /\ Files!Keep /\ Files!Succeeds /\ Files!Secured(u)
  BY <1>1, <1>3, <1>4, <1>5, <1>9, MovesTo
<1>15. Files!At(u) = from /\ Files!Log(u) = log /\ Places[u].file = f
  <2>1. Places[u] = [file |-> f, at |-> from]
    BY <1>1, <1>3, <1>8, AbstractUnit
  <2>2. Files!At(u) = from /\ Files!Log(u) = log
    BY <1>1, <1>3, <1>5, <1>8, AbstractUnit
  <2> QED BY <2>1, <2>2
<1>16. \/ from = 0 /\ to = 0
       \/ from > 0 /\ to = from - 1
       \/ from = 1 /\ log[1] = << >> /\ FormOf[f] = "formatted" /\ to = 1
       \/ from = -1 /\ to \in {-1} \union 0 .. n
  <2>1. from = 1 /\ Len(log[1]) = 0 => log[1] = << >>
    <3>1. from = 1 => log[1] \in Seq(Nat)
      BY <1>7, <1>10, <1>11, EndsFacts
    <3> QED BY <3>1, EmptySeq
  <2>2. from = 0 \/ from > 0 \/ from = -1
    BY <1>11
  <2> QED BY <1>11, <1>12, <1>13, <2>1, <2>2
<1>17. Files!Backspace(u)
  BY <1>10, <1>11, <1>14, <1>15, <1>16
     DEF Files!Backspace, Files!Anywhere, Files!Lost, Files!Writing, Places
<1> QED BY <1>3, <1>17

(***************************************************************************)
(* A READ goes on by one record, stays at the end of a clean file, and is  *)
(* astray behind the records of another one.                               *)
(***************************************************************************)
LEMMA ReadFollows ==
  ASSUME NEW f, NEW log \in Logs, Unbroken(f, log),
         NEW cells \in Seq(Nat), LaidOut(f, log, cells),
         NEW whole \in BOOLEAN, whole => Len(cells) = LogEnd(f, log),
         NEW pos \in Nat, NEW n, NEW next,
         next = IF FormOf[f] = "formatted" THEN ReadLine(cells, pos).pos
                                           ELSE ReadPayload(cells, pos, n).pos,
         NEW from, from = Spot(f, log, pos), NEW to, to = Spot(f, log, next)
  PROVE  to \in Files!Following(log, whole, from)
<1>1. PICK size \in Nat : size = Len(log)
  BY EndsFacts
<1>2. PICK e : e = EndsOf(f, log)
  OBVIOUS
<1>3. e \in [0 .. size -> Nat] /\ \A j, k \in 0 .. size : j < k => e[j] < e[k]
  BY <1>1, <1>2, EndsFacts, EndsGrow
<1>4. from \in {-1} \union 0 .. size /\ (from # -1 => e[from] = pos)
  BY <1>1, <1>2, SpotFacts
<1>5. /\ to \in {-1} \union 0 .. size /\ (to # -1 => e[to] = next)
      /\ \A k \in 0 .. size : e[k] = next => to = k
  BY <1>1, <1>2, SpotFacts
<1>6. next >= pos
  BY ReadsForward
<1>7. CASE from = -1
  BY <1>1, <1>5, <1>7 DEF Files!Following, Files!Lost
<1>8. CASE from # -1 /\ from < size
  <2>1. PICK k \in 1 .. Len(log) : k = from + 1
    BY <1>1, <1>4, <1>8
  <2>2. pos = EndsOf(f, log)[k - 1] /\ k \in 0 .. size
    BY <1>1, <1>2, <1>4, <1>8, <2>1
  <2>3. ASSUME FormOf[f] = "formatted" PROVE next = e[k]
    <3>1. PICK record \in Seq(Nat) : record = log[k]
      BY RecordCells
    <3>2. \A i \in 1 .. Len(record) : record[i] # Newline
      <4>1. k \in DOMAIN log /\ DOMAIN record = 1 .. Len(record)
        BY LenProperties DEF Logs
      <4> QED BY <2>3, <3>1, <4>1 DEF Unbroken
    <3>3. Holds(f, record, cells, pos)
      BY <2>2, <3>1 DEF LaidOut
    <3>4. ReadLine(cells, pos) = Reading(pos + Size(f, record), "ok", record)
      BY <2>3, <3>2, <3>3, ReadLineReads
    <3>5. next = pos + Size(f, record)
      BY <2>3, <3>4 DEF Reading
    <3>6. EndsOf(f, log)[k] = pos + Size(f, record)
      BY <2>2, <3>1, RecordCells
    <3> QED BY <1>2, <3>5, <3>6
  <2>4. ASSUME FormOf[f] # "formatted" PROVE next = e[k]
    <3>1. ReadPayload(cells, EndsOf(f, log)[k - 1], n).pos = EndsOf(f, log)[k]
      BY <2>4, PayloadPasses
    <3> QED BY <1>2, <2>2, <2>4, <3>1
  <2>5. to = from + 1
    <3>1. next = e[k]
      BY <2>3, <2>4
    <3> QED BY <1>5, <2>1, <2>2, <3>1
  <2>6. from \in 0 .. size - 1
    BY <1>4, <1>8
  <2> QED BY <1>1, <2>5, <2>6 DEF Files!Following
<1>9. CASE from # -1 /\ from = size
  <2>1. e[size] = pos /\ size \in 0 .. size
    BY <1>4, <1>9
  <2>2. to = -1 \/ to = size
    <3> SUFFICES ASSUME to # -1, to # size PROVE FALSE
      OBVIOUS
    <3>1. to \in 0 .. size /\ to < size /\ e[to] = next
      BY <1>5
    <3>2. e[to] < e[size] /\ e[to] \in Nat
      BY <1>3, <2>1, <3>1
    <3> QED BY <1>6, <2>1, <3>1, <3>2
  <2>3. whole => to = size
    <3> SUFFICES ASSUME whole PROVE to = size
      OBVIOUS
    <3>1. Len(cells) = pos
      BY <1>1, <1>2, <2>1 DEF LogEnd
    <3>2. pos >= Len(cells) /\ pos + 1 > Len(cells)
      BY <3>1
    <3>3. next = pos
      BY <3>2 DEF ReadLine, ReadPayload, Reading
    <3> QED BY <1>5, <2>1, <3>3
  <2>4. ~ (from \in 0 .. size - 1)
    BY <1>9
  <2> QED BY <1>1, <1>9, <2>2, <2>3, <2>4 DEF Files!Following, Files!Lost
<1> QED BY <1>4, <1>7, <1>8, <1>9

(***************************************************************************)
(* READ is that of a file of records.                                      *)
(***************************************************************************)
LEMMA ReadMoves ==
  ASSUME IInv, RInv, NEW u \in DOMAIN unit, Sequential(u), NEW n,
         ReadFormatted(u) \/ ReadUnformatted(u, n)
  PROVE  Files!Read(u)
<1>1. PICK f : f = FileOf(u)
  OBVIOUS
<1>2. PICK pos : pos = IF FormOf[f] = "formatted" THEN ReadLine(Cells(u), unit[u].pos).pos
                                             ELSE ReadPayload(Cells(u), unit[u].pos, n).pos
  OBVIOUS
<1>3. /\ ~ Busy(u) /\ Position(u, pos)
      /\ UNCHANGED << disk, transfer, faults, history >> /\ Drained(u)
      /\ Stale(u) => unit[u].handle = "open"
  <2>1. CASE ReadFormatted(u)
    <3>1. FormOf[f] = "formatted"
      BY <1>1, <2>1 DEF ReadFormatted, Ready, Sequential
    <3> QED BY <1>2, <2>1, <3>1, DrainedIf DEF ReadFormatted, Ready
  <2>2. CASE ReadUnformatted(u, n)
    <3>1. FormOf[f] # "formatted" /\ f \in File
      BY <1>1, <2>2, UnitFacts DEF ReadUnformatted, Ready, Sequential
    <3>2. Drained(u)
      <4>1. FormOf[FileOf(u)] = "unformatted" /\ UNCHANGED buffer
        BY <1>1, <2>2, <3>1, FileAssumption DEF ReadUnformatted
      <4> QED BY <4>1, Unbuffered, DrainedIf
    <3> QED BY <1>2, <2>2, <3>1, <3>2 DEF ReadUnformatted, Ready
  <2> QED BY <2>1, <2>2
<1>4. unit[u].handle = "open"
  <2>1. EntrySound(u) /\ unit[u] \in Entries
    BY UnitFacts DEF IInv
  <2> QED BY <1>3, <2>1 DEF EntrySound, Stale, Entries
<1>5. PICK log : log = records[f]
  OBVIOUS
<1>6. PICK cells : cells = disk[f]
  OBVIOUS
<1>7. /\ cells \in Seq(Nat) /\ log \in Logs /\ LaidOut(f, log, cells) /\ Unbroken(f, log)
      /\ Cells(u) = cells /\ unit[u].pos \in Nat /\ PlaceOf(u) = Spot(f, log, unit[u].pos)
  BY <1>1, <1>3, <1>4, <1>5, <1>6, PlacedFacts
<1>8. PICK whole \in BOOLEAN : whole = clean[f]
  BY <1>1, <1>3, <1>4, PlacedFacts
<1>9. whole => Len(cells) = LogEnd(f, log)
  <2>1. clean[FileOf(u)] => Len(Cells(u)) = LogEnd(FileOf(u), records[FileOf(u)])
    BY <1>3, CleanFacts DEF Busy
  <2> QED BY <1>1, <1>5, <1>7, <1>8, <2>1
<1>10. PICK from : from = PlaceOf(u)
  OBVIOUS
<1>11. PICK to : to = Spot(f, log, pos)
  OBVIOUS
<1>12. to \in Files!Following(log, whole, from)
  BY <1>2, <1>7, <1>9, <1>10, <1>11, ReadFollows
<1>13. Files!Go(u, to) /\ Files!Keep /\ Files!Succeeds /\ Files!Secured(u)
  BY <1>1, <1>3, <1>4, <1>5, <1>11, MovesTo
<1>14. Files!At(u) = from /\ Files!Log(u) = log /\ Files!Whole(u) = whole
  BY <1>1, <1>5, <1>8, <1>10, AbstractUnit
<1>15. from # -2
  <2>1. PICK size \in Nat : size = Len(log)
    BY <1>7, EndsFacts
  <2>2. from = Spot(f, log, unit[u].pos)
    BY <1>7, <1>10
  <2>3. from \in {-1} \union 0 .. size
    BY <1>7, <2>1, <2>2, SpotFacts
  <2> QED BY <2>3
<1> QED BY <1>12, <1>13, <1>14, <1>15 DEF Files!Read, Files!Writing

(***************************************************************************)
(* A BACKSPACE goes back by one record and a READ forward by one, whatever *)
(* the position, the file and the number of items.                         *)
(***************************************************************************)
THEOREM MovesByRecords == Spec => StatementsMoveByRecords
<1> DEFINE Moves ==
      \A u \in DOMAIN unit :
        Sequential(u) =>
          /\ Backspace(u) => Files!Backspace(u)
          /\ ReadFormatted(u) \/ (\E n \in 0 .. MaxItems : ReadUnformatted(u, n))
               => Files!Read(u)
<1>1. Spec => [](IInv /\ RInv /\ Backed)
  BY Histories
<1>2. IInv /\ RInv => Moves
  <2> SUFFICES ASSUME IInv, RInv, NEW u \in DOMAIN unit, Sequential(u)
               PROVE  /\ Backspace(u) => Files!Backspace(u)
                      /\ ReadFormatted(u) \/ (\E n \in 0 .. MaxItems : ReadUnformatted(u, n))
                           => Files!Read(u)
    OBVIOUS
  <2>1. Backspace(u) => Files!Backspace(u)
    BY BackspaceMoves
  <2>2. ReadFormatted(u) => Files!Read(u)
    BY ReadMoves
  <2>3. (\E n \in 0 .. MaxItems : ReadUnformatted(u, n)) => Files!Read(u)
    BY ReadMoves
  <2> QED BY <2>1, <2>2, <2>3
<1>3. StatementsMoveByRecords <=> [][Moves]_vars
  BY DEF StatementsMoveByRecords
<1> HIDE DEF Moves
<1> QED BY <1>1, <1>2, <1>3, PTL

-----------------------------------------------------------------------------
(* Transfers and the clean files they are of.                              *)

\* A unit that has its stream has its file.
LEMMA OpenHandle ==
  ASSUME IInv, NEW u \in DOMAIN unit, ~ Stale(u) \/ unit[u].handle = "open"
  PROVE  unit[u].handle = "open"
<1>1. EntrySound(u) /\ unit[u] \in Entries
  BY UnitFacts DEF IInv
<1> QED BY <1>1 DEF EntrySound, Stale, Entries

\* A unit that is ready for a transfer of the form of its file is sequential.
LEMMA ReadyFacts ==
  ASSUME IInv, NEW u, NEW mode, NEW action, Ready(u, mode, action)
  PROVE  /\ u \in DOMAIN unit /\ u \notin DOMAIN transfer
         /\ mode # "direct" => Sequential(u)
         /\ mode = "direct" => ~ Sequential(u)
<1>1. /\ u \in DOMAIN unit /\ u \notin DOMAIN transfer
      /\ mode = IF unit[u].access = "direct" THEN "direct" ELSE FormOf[FileOf(u)]
  BY DEF Ready, Connected, Busy
<1>2. unit[u] \in Entries /\ FormOf[FileOf(u)] \in {"formatted", "unformatted"}
  BY <1>1, UnitFacts, FileAssumption
<1>3. unit[u].access \in {"sequential", "direct"}
  BY <1>2 DEF Entries
<1> QED BY <1>1, <1>2, <1>3 DEF Sequential, Connected

\* A WRITE is of an open file; it has the form its unit is used with; and the
\* file is not clean once a line of it has failed.
TransferKnown(u) ==
  /\ unit[u].handle = "open"
  /\ unit[u].access = "sequential" <=> transfer[u].mode # "direct"
  /\ transfer[u].mode = "formatted" /\ ~ transfer[u].ok => ~ clean[FileOf(u)]
TransfersKnown == \A u \in DOMAIN transfer : TransferKnown(u)

LEMMA TransfersInit == Init => TransfersKnown
BY DEF Init, TransfersKnown

LEMMA StartedKnown ==
  ASSUME NEW u, u \in DOMAIN unit',
         unit'[u].handle = "open", unit'[u].access \in {"sequential", "direct"},
         NEW mode, mode = "direct" <=> unit'[u].access = "direct",
         NEW t, transfer' = With(transfer, u, t), t.mode = mode, t.ok
  PROVE  TransferKnown(u)'
<1>1. transfer'[u] = t
  BY DEF With
<1> QED BY <1>1 DEF TransferKnown

LEMMA BeginKnown ==
  ASSUME IInv, NEW u \in Unit, u \in DOMAIN transfer',
         \/ BeginFormatted(u) \/ BeginImplicitly(u) \/ BeginUnformatted(u)
         \/ \E record \in Record : BeginDirect(u, record)
  PROVE  TransferKnown(u)'
<1>1. ASSUME NEW mode, NEW start, NEW t, Ready(u, mode, "write"),
             ~ Stale(u) \/ unit[u].handle = "open",
             unit' = [unit EXCEPT ![u].pos = start], transfer' = With(transfer, u, t),
             t.mode = mode, t.ok
      PROVE  TransferKnown(u)'
  <2>1. /\ u \in DOMAIN unit
        /\ mode # "direct" => Sequential(u)
        /\ mode = "direct" => ~ Sequential(u)
    BY <1>1, ReadyFacts
  <2>2. unit[u] \in Entries /\ unit[u].handle = "open"
    BY <1>1, <2>1, UnitFacts, OpenHandle
  <2>3. u \in DOMAIN unit /\ (mode = "direct" <=> unit[u].access = "direct")
    BY <2>1, <2>2 DEF Sequential, Connected, Entries
  <2>4. /\ u \in DOMAIN unit' /\ unit'[u].handle = "open" /\ unit'[u].access = unit[u].access
        /\ unit[u].access \in {"sequential", "direct"}
    BY <1>1, <2>3, <2>2 DEF Entries
  <2>5. mode = "direct" <=> unit'[u].access = "direct"
    BY <2>3, <2>4
  <2> QED BY <1>1, <2>4, <2>5, StartedKnown
<1>2. CASE BeginImplicitly(u)
  <2>1. /\ unit' = With(unit, u, Entry(DefaultName[u], "sequential", "write", 0))
        /\ transfer' = With(transfer, u, Started("formatted", 0, 0, TRUE))
    BY <1>2 DEF BeginImplicitly
  <2>2. PICK t : t = Started("formatted", 0, 0, TRUE)
    OBVIOUS
  <2>3. transfer' = With(transfer, u, t) /\ t.mode = "formatted" /\ t.ok
    BY <2>1, <2>2 DEF Started
  <2>4. u \in DOMAIN unit' /\ unit'[u].handle = "open" /\ unit'[u].access = "sequential"
    BY <2>1 DEF With, Entry
  <2>5. PICK mode : mode = "formatted"
    OBVIOUS
  <2>6. mode = "direct" <=> unit'[u].access = "direct"
    BY <2>4, <2>5
  <2> QED BY <2>3, <2>4, <2>5, <2>6, StartedKnown
<1>3. ASSUME NEW mode, NEW start, NEW pos, Ready(u, mode, "write"),
             ~ Stale(u) \/ unit[u].handle = "open", Begin(u, mode, start, pos)
      PROVE  TransferKnown(u)'
  <2>1. PICK inOrder : transfer' = With(transfer, u, Started(mode, start, 0, inOrder))
    BY <1>3 DEF Begin
  <2>2. PICK t : t = Started(mode, start, 0, inOrder)
    OBVIOUS
  <2>3. transfer' = With(transfer, u, t) /\ t.mode = mode /\ t.ok
    BY <2>1, <2>2 DEF Started
  <2>4. unit' = [unit EXCEPT ![u].pos = start]
    BY <1>3 DEF Begin
  <2> QED BY <1>1, <1>3, <2>3, <2>4
<1>4. BeginFormatted(u) => TransferKnown(u)'
  BY <1>3 DEF BeginFormatted
<1>5. BeginUnformatted(u) => TransferKnown(u)'
  <2> SUFFICES ASSUME BeginUnformatted(u) PROVE TransferKnown(u)'
    OBVIOUS
  <2>1. Ready(u, "unformatted", "write") /\ unit[u].handle = "open"
    BY DEF BeginUnformatted
  <2>2. Begin(u, "unformatted", unit[u].pos + 1, unit[u].pos) \/ UNCHANGED transfer
    BY DEF BeginUnformatted
  <2>3. ~ UNCHANGED transfer
    BY <2>1 DEF Ready, Busy
  <2> QED BY <1>3, <2>1, <2>2, <2>3
<1>6. ASSUME NEW record, BeginDirect(u, record) PROVE TransferKnown(u)'
  <2>1. PICK t : t = Started("direct", Offset(record), record, FALSE)
    OBVIOUS
  <2>2. t.mode = "direct" /\ t.ok
    BY <2>1 DEF Started
  <2>3. /\ Ready(u, "direct", "write") /\ unit[u].handle = "open"
        /\ unit' = [unit EXCEPT ![u].pos = Offset(record)]
        /\ transfer' = With(transfer, u, t)
    BY <1>6, <2>1 DEF BeginDirect
  <2> QED BY <1>1, <2>2, <2>3
<1> QED BY <1>2, <1>4, <1>5, <1>6

LEMMA WriteItemKnown ==
  ASSUME IInv, RInv, TransfersKnown, NEW u \in Unit, NEW w \in Word, WriteItem(u, w)
  PROVE  TransferKnown(u)'
<1>1. u \in DOMAIN transfer /\ transfer[u] \in Transfers /\ TransferKnown(u)
  BY TransferFacts DEF WriteItem, Busy, TransfersKnown
<1>2. u \in DOMAIN unit /\ unit[u] \in Entries /\ FileOf(u) \in File
  BY <1>1, WriteFacts
<1>3. /\ unit'[u].handle = unit[u].handle /\ unit'[u].access = unit[u].access
      /\ FileOf(u)' = FileOf(u)
  <2>1. unit' = unit \/ unit' = [unit EXCEPT ![u].pos = unit[u].pos + 1]
    BY DEF WriteItem, Position
  <2> QED BY <1>2, <2>1 DEF FileOf, Entries
<1>4. CASE transfer' = transfer /\ clean' = clean
  BY <1>1, <1>3, <1>4 DEF TransferKnown
<1>5. CASE /\ transfer' = [transfer EXCEPT ![u].ok = FALSE]
           /\ clean' = [clean EXCEPT ![FileOf(u)] = @ /\ transfer[u].mode = "unformatted"]
  <2>1. transfer'[u].mode = transfer[u].mode
    BY <1>1, <1>5 DEF Transfers
  <2>2. transfer[u].mode = "formatted" => ~ clean'[FileOf(u)]
    BY <1>2, <1>5 DEF RInv
  <2> QED BY <1>1, <1>3, <2>1, <2>2 DEF TransferKnown
<1> QED BY <1>4, <1>5 DEF WriteItem

LEMMA OutputLostKnown ==
  ASSUME IInv, RInv, TransfersKnown, NEW u \in Unit, OutputLost(u), u \in DOMAIN transfer'
  PROVE  TransferKnown(u)'
<1> SUFFICES ASSUME NEW f, f = FileOf(u), NEW t, t = transfer[u] PROVE TransferKnown(u)'
  OBVIOUS
<1>1. PICK m :
        /\ Drop(u, m) /\ unit' = [unit EXCEPT ![u].pos = m]
        /\ transfer' \in {Without(transfer, u),
                         [transfer EXCEPT ![u].ok = FALSE, ![u].inOrder = FALSE,
                                          ![u].start = IF m < @ THEN m ELSE @]}
  BY DEF OutputLost, DropTo, Position
<1>2. u \in DOMAIN transfer /\ u \in DOMAIN unit /\ t \in Transfers /\ t.mode = "formatted"
  BY TransferFacts DEF OutputLost, Writing, Busy
<1>3. TransferKnown(u) /\ unit[u] \in Entries /\ f \in File
  BY <1>2, UnitFacts DEF TransfersKnown
<1>4. /\ unit'[u].handle = unit[u].handle /\ unit'[u].access = unit[u].access
      /\ FileOf(u)' = f
  BY <1>1, <1>2, <1>3 DEF Entries, FileOf
<1>5. clean'[f] = FALSE
  BY <1>1, <1>3 DEF Drop, Cut, RInv
<1>6. transfer'[u].mode = "formatted"
  <2>1. transfer' = [transfer EXCEPT ![u].ok = FALSE, ![u].inOrder = FALSE,
                                     ![u].start = IF m < @ THEN m ELSE @]
    BY <1>1 DEF Without, Restrict
  <2>2. PICK start : start = IF m < t.start THEN m ELSE t.start
    OBVIOUS
  <2>3. transfer'[u] = [t EXCEPT !.ok = FALSE, !.inOrder = FALSE, !.start = start]
    BY <1>2, <2>1, <2>2
  <2> QED BY <1>2, <2>3 DEF Transfers
<1> QED BY <1>2, <1>3, <1>4, <1>5, <1>6 DEF TransferKnown

(***************************************************************************)
(* So a line that is not going to be a record is never of a clean file.    *)
(***************************************************************************)
LEMMA TransfersStep == IInv /\ RInv /\ TransfersKnown /\ [Next]_vars => TransfersKnown'
<1> SUFFICES ASSUME IInv, RInv, TransfersKnown, [Next]_vars PROVE TransfersKnown'
  OBVIOUS
<1>1. CASE UNCHANGED vars
  BY <1>1 DEF vars, history, TransfersKnown, TransferKnown, FileOf
<1>2. CASE Next
  <2>1. PICK u \in Unit : Control(u) \/ Read(u) \/ Write(u)
    BY <1>2 DEF Next
  <2>2. Apart(u)
    BY <2>1, StepApart
  <2>3. ASSUME u \in DOMAIN transfer' PROVE TransferKnown(u)'
    <3>1. CASE Control(u) \/ Read(u)
      <4>1. u \notin DOMAIN transfer
        BY <3>1, Idle
      <4>2. FlushFails(u) \/ Settles(u) \/ Severs(u) => UNCHANGED transfer
        BY DEF FlushFails, Settles, Severs
      <4>3. Endfile(u) \/ EndfileLoses(u) \/ ReadImplicitly(u) => UNCHANGED transfer
        BY DEF Endfile, EndfileLoses, ReadImplicitly
      <4>4. Positioning(u) /\ ~ FlushFails(u) => u \notin DOMAIN transfer'
        BY PositioningApart
      <4> QED BY <2>3, <3>1, <4>1, <4>2, <4>3, <4>4, ControlSettles DEF Positioning, Read
    <3>2. CASE Write(u)
      <4>1. CASE EndFormatted(u) \/ EndUnformatted(u) \/ EndDirect(u)
        <5>1. transfer' = Without(transfer, u)
          BY <4>1 DEF EndFormatted, EndUnformatted, EndDirect, Finish
        <5> QED BY <2>3, <5>1 DEF Without, Restrict
      <4> QED BY <2>3, <3>2, <4>1, BeginKnown, WriteItemKnown, OutputLostKnown DEF Write
    <3> QED BY <2>1, <3>1, <3>2
  <2>4. ASSUME NEW v \in DOMAIN transfer', v # u PROVE TransferKnown(v)'
    <3>1. CASE v \in DOMAIN unit
      <4>1. /\ unit'[v] = unit[v] /\ v \in DOMAIN transfer /\ transfer'[v] = transfer[v]
            /\ clean'[FileOf(v)] = clean[FileOf(v)]
        BY <2>2, <2>4, <3>1 DEF Apart
      <4>2. FileOf(v)' = FileOf(v)
        BY <4>1 DEF FileOf
      <4> QED BY <2>4, <4>1, <4>2 DEF TransfersKnown, TransferKnown
    <3>2. CASE v \notin DOMAIN unit
      <4>1. IInv'
        BY StepHolds
      <4>2. v \in DOMAIN unit'
        BY <2>4, <4>1 DEF IInv, TransferSound, Connected
      <4> QED BY <2>2, <2>4, <3>2, <4>2 DEF Apart
    <3> QED BY <3>1, <3>2
  <2> QED BY <2>3, <2>4 DEF TransfersKnown
<1> QED BY <1>1, <1>2

-----------------------------------------------------------------------------
(* Every step is one of the abstract specification, or none.               *)

Simulated ==
  \/ Files!Next
  \/ /\ records' = records /\ clean' = clean /\ faults' = faults
     /\ Places' = Places /\ Fragiles' = Fragiles

LEMMA AbstractSteps ==
  /\ \A u \in DOMAIN unit :
       /\ Sequential(u)
       /\ \/ Files!Rewind(u) \/ Files!Backspace(u) \/ Files!Endfile(u) \/ Files!Inquire(u)
          \/ Files!Lose(u) \/ Files!Disconnect(u) \/ Files!Stray(u)
          \/ Files!Read(u) \/ Files!BeginWrite(u) \/ Files!EndWrite(u)
       => Simulated
  /\ \A u \in Unit : Files!Reconnect(u) \/ Files!OpenAndRead(u) => Simulated
  /\ \A f \in File : Files!Overwrite(f) => Simulated
  /\ Files!Fail => Simulated
<1>1. ASSUME NEW u \in DOMAIN unit, Sequential(u),
             \/ Files!Rewind(u) \/ Files!Backspace(u) \/ Files!Endfile(u) \/ Files!Inquire(u)
             \/ Files!Lose(u) \/ Files!Disconnect(u) \/ Files!Stray(u)
             \/ Files!Read(u) \/ Files!BeginWrite(u) \/ Files!EndWrite(u)
      PROVE  Files!Next
  BY <1>1 DEF Files!Next
<1>2. ASSUME NEW u \in Unit, Files!Reconnect(u) \/ Files!OpenAndRead(u) PROVE Files!Next
  BY <1>2 DEF Files!Next
<1>3. ASSUME NEW f \in File, Files!Overwrite(f) PROVE Files!Next
  BY <1>3 DEF Files!Next
<1>4. Files!Fail => Files!Next
  BY DEF Files!Next
<1> QED BY <1>1, <1>2, <1>3, <1>4 DEF Simulated

(***************************************************************************)
(* A step of a direct unit that leaves the records alone, and any step     *)
(* that leaves the places and buffers too, is nothing but perhaps a        *)
(* failure.                                                                *)
(***************************************************************************)
LEMMA UnseenSimulated ==
  ASSUME IInv, Places' = Places, Fragiles' = Fragiles, Files!Keep, NoFault \/ Fault
  PROVE  Simulated
<1>1. CASE NoFault
  BY <1>1 DEF Simulated, Files!Keep, NoFault
<1>2. CASE Fault
  <2>1. Files!Fails
    BY <1>2 DEF Files!Fails, Fault, IInv
  <2>2. Files!Fail
    BY <2>1 DEF Files!Fail, Places, Fragiles
  <2> QED BY <2>2, AbstractSteps
<1> QED BY <1>1, <1>2

LEMMA SamePlaces == UNCHANGED << unit, transfer, records >> => Places' = Places
BY DEF Places, PlaceOf, Ends, FileOf, Busy, Sequential, Connected

(***************************************************************************)
(* Between two transfers a unit is somewhere, or lost.                     *)
(***************************************************************************)
LEMMA PlaceRange ==
  ASSUME IInv, RInv, NEW u \in DOMAIN unit
  PROVE  /\ u \notin DOMAIN transfer => PlaceOf(u) \in {-1} \union 0 .. Len(records[FileOf(u)])
         /\ u \in DOMAIN transfer => PlaceOf(u) \in {-1, -2}
<1>1. records[FileOf(u)] \in Logs
  BY UnitFacts, HistoryFacts
<1>2. SpotOf(u) \in {-1} \union 0 .. Len(records[FileOf(u)])
  BY <1>1, SpotFacts DEF SpotOf
<1> QED BY <1>2, PlaceHolds DEF PlaceKnown

LEMMA PlaceRangeNext ==
  ASSUME IInv, RInv, NEW u, Connects(u), u \notin DOMAIN transfer', Files!Keep
  PROVE  PlaceOf(u)' \in {-1} \union 0 .. Len(records[FileOf(u)])
<1>1. records[FileOf(u)] \in Logs /\ FileOf(u)' = FileOf(u) /\ records' = records
  BY UnitFacts, HistoryFacts DEF Connects, FileOf, Files!Keep
<1>2. SpotOf(u)' \in {-1} \union 0 .. Len(records[FileOf(u)])
  BY <1>1, SpotFacts DEF SpotOf
<1> QED BY <1>2, PlaceNext DEF PlaceKnown

(***************************************************************************)
(* A statement that leaves the file alone goes somewhere, and nothing is   *)
(* in the buffer then.                                                     *)
(***************************************************************************)
LEMMA GoesAnywhere ==
  ASSUME IInv, RInv, NEW u, Apart(u), Connects(u), Sequential(u), Files!Keep, Drained(u),
         u \notin DOMAIN transfer, u \notin DOMAIN transfer'
  PROVE  /\ Files!Fails => Files!Stray(u)
         /\ Files!Succeeds /\ PlaceOf(u) = -1 => Files!Endfile(u)
         /\ Files!Succeeds /\ Places' = Places => Files!Inquire(u)
<1>1. u \in DOMAIN unit
  BY DEF Connects
<1>2. PICK k : k = PlaceOf(u)'
  OBVIOUS
<1>3. k \in {-1} \union 0 .. Len(records[FileOf(u)])
  BY <1>2, PlaceRangeNext
<1>4. Files!Go(u, k) /\ Files!Secured(u)
  BY <1>2, UnitGoes, FragileGoes
<1>5. Files!At(u) = PlaceOf(u) /\ Files!Log(u) = records[FileOf(u)]
  BY <1>1, AbstractUnit
<1>6. k \in Files!Anywhere(u)
  BY <1>3, <1>5 DEF Files!Anywhere, Files!Lost
<1>7. PlaceOf(u) # -2
  <2>1. PICK n \in Nat : n = Len(records[FileOf(u)])
    BY <1>1, UnitFacts, HistoryFacts, EndsFacts
  <2>2. PlaceOf(u) \in {-1} \union 0 .. n
    BY <1>1, <2>1, PlaceRange
  <2> QED BY <2>2
<1>8. Files!Fails => Files!Stray(u)
  BY <1>4, <1>5, <1>6, <1>7 DEF Files!Stray, Files!Writing
<1>9. Files!Succeeds /\ PlaceOf(u) = -1 => Files!Endfile(u)
  BY <1>4, <1>5, <1>6 DEF Files!Endfile, Files!Lost
<1>10. Files!Succeeds /\ Places' = Places => Files!Inquire(u)
  BY <1>4, <1>5, <1>7 DEF Files!Inquire, Files!Writing, Places
<1> QED BY <1>8, <1>9, <1>10

LEMMA RewindSimulated ==
  ASSUME IInv, RInv, NEW u \in Unit, Rewind(u), ~ FlushFails(u)
  PROVE  Simulated
<1>1. /\ u \in DOMAIN unit /\ Sequential(u) /\ ~ Busy(u) /\ ~ Stale(u) /\ Drained(u)
      /\ Position(u, 0) /\ UNCHANGED << disk, transfer, faults, history >>
  BY DrainedIf DEF Rewind, Sequential, Connected
<1>2. unit[u].handle = "open"
  BY <1>1, OpenHandle
<1>3. PICK f : f = FileOf(u)
  OBVIOUS
<1>4. records[f] \in Logs
  BY <1>1, <1>2, <1>3, PlacedFacts
<1>5. Spot(f, records[f], 0) = 0
  <2>1. EndsOf(f, records[f])[0] = 0 /\ 0 \in 0 .. Len(records[f])
    BY <1>4, EndsFacts
  <2> QED BY <1>4, <2>1, SpotFacts
<1>6. Files!Go(u, 0) /\ Files!Keep /\ Files!Succeeds /\ Files!Secured(u)
  BY <1>1, <1>2, <1>3, <1>5, MovesTo
<1>7. Files!At(u) # -2
  <2>1. PICK n \in Nat : n = Len(records[FileOf(u)])
    BY <1>3, <1>4, EndsFacts
  <2>2. PlaceOf(u) \in {-1} \union 0 .. n
    BY <1>1, <2>1, PlaceRange DEF Busy
  <2>3. Files!At(u) = PlaceOf(u)
    BY <1>1, AbstractUnit
  <2> QED BY <2>2, <2>3
<1>8. Files!Rewind(u)
  BY <1>6, <1>7 DEF Files!Rewind, Files!Writing
<1> QED BY <1>1, <1>8, AbstractSteps

LEMMA BackspaceSimulated == ASSUME IInv, RInv, NEW u \in Unit, Backspace(u) PROVE Simulated
<1>1. u \in DOMAIN unit
  BY DEF Backspace, BackspaceReady, Sequential, Connected
<1> QED BY <1>1, BackspaceMoves, AbstractSteps

LEMMA StraysSimulated ==
  ASSUME IInv, RInv, NEW u \in Unit, ~ FlushFails(u),
         BackspaceFails(u) \/ Inquire(u) \/ EndfileAbandoned(u) \/ EndfileDetached(u)
  PROVE  Simulated
<1>1. Apart(u) /\ Connects(u) /\ u \notin DOMAIN transfer' /\ Files!Keep /\ Drained(u)
  BY PositioningApart DEF Positioning
<1>2. u \in DOMAIN unit /\ u \notin DOMAIN transfer /\ Sequential(u)
  BY DEF BackspaceFails, BackspaceReady, Inquire, EndfileAbandoned, EndfileDetached,
         EndfileReady, Sequential, Connected, Busy
<1>3. CASE Files!Fails
  <2>1. Files!Stray(u)
    BY <1>1, <1>2, <1>3, GoesAnywhere
  <2> QED BY <1>2, <2>1, AbstractSteps
<1>4. CASE EndfileAbandoned(u) /\ NoFault /\ unit[u].pos > Len(Cells(u))
  <2>1. PICK f : f = FileOf(u)
    OBVIOUS
  <2>2. PICK log \in Logs : log = records[f]
    BY <1>2, <2>1, UnitFacts, HistoryFacts
  <2>3. PICK cells \in Seq(Nat) : cells = Cells(u)
    BY <1>2, UnitFacts
  <2>4. /\ LaidOut(f, log, cells) /\ PlaceOf(u) = Spot(f, log, unit[u].pos)
        /\ unit[u].pos \in Nat /\ Len(cells) \in Nat
    BY <1>2, <1>4, <2>1, <2>2, <2>3, PlacedFacts, LenProperties
       DEF Busy, EndfileAbandoned, EndfileReady
  <2>5. LogEnd(f, log) <= Len(cells)
    BY <2>4, LaidOutEnds
  <2>6. PlaceOf(u) = -1
    <3> SUFFICES ASSUME PlaceOf(u) # -1 PROVE FALSE
      OBVIOUS
    <3>1. PICK k : k = PlaceOf(u)
      OBVIOUS
    <3>2. k \in 0 .. Len(log) /\ EndsOf(f, log)[k] = unit[u].pos
      BY <2>4, <3>1, SpotFacts
    <3>3. EndsOf(f, log)[k] <= LogEnd(f, log) /\ LogEnd(f, log) \in Nat
      BY <3>2, LogEndFacts
    <3>4. unit[u].pos > Len(cells)
      BY <1>4, <2>3
    <3> QED BY <2>4, <2>5, <3>2, <3>3, <3>4
  <2>7. Files!Succeeds
    BY <1>4 DEF NoFault, Files!Succeeds
  <2>8. Files!Endfile(u)
    BY <1>1, <1>2, <2>6, <2>7, GoesAnywhere
  <2> QED BY <1>2, <2>8, AbstractSteps
<1>5. CASE Inquire(u) /\ NoFault /\ UNCHANGED unit
  <2>1. Places' = Places /\ Files!Succeeds
    BY <1>5, SamePlaces DEF Inquire, FlushFails, history, NoFault, Files!Succeeds
  <2>2. Files!Inquire(u)
    BY <1>1, <1>2, <2>1, GoesAnywhere
  <2> QED BY <1>2, <2>2, AbstractSteps
<1>6. \/ Files!Fails
      \/ EndfileAbandoned(u) /\ NoFault /\ unit[u].pos > Len(Cells(u))
      \/ Inquire(u) /\ NoFault /\ UNCHANGED unit
  BY DEF BackspaceFails, Inquire, EndfileAbandoned, EndfileDetached, Fault, Files!Fails, IInv
<1> QED BY <1>3, <1>4, <1>5, <1>6

(***************************************************************************)
(* READ of a connected unit.                                               *)
(***************************************************************************)
LEMMA ReadSimulated ==
  ASSUME IInv, RInv, NEW u \in Unit, Read(u), ~ ReadImplicitly(u), ~ FlushFails(u)
  PROVE  Simulated
<1>1. CASE ReadFormatted(u) \/ \E n \in 0 .. MaxItems : ReadUnformatted(u, n)
  <2>1. u \in DOMAIN unit /\ unit[u].access # "direct"
    <3>1. u \in DOMAIN unit /\ FileOf(u) \in File
      BY <1>1, UnitFacts DEF ReadFormatted, ReadUnformatted, Ready, Connected
    <3> QED BY <1>1, <3>1 DEF ReadFormatted, ReadUnformatted, Ready
  <2>2. Sequential(u)
    <3>1. unit[u] \in Entries
      BY <2>1, UnitFacts
    <3> QED BY <2>1, <3>1 DEF Sequential, Connected, Entries
  <2>3. Files!Read(u)
    BY <1>1, <2>1, <2>2, ReadMoves
  <2> QED BY <2>1, <2>2, <2>3, AbstractSteps
<1>2. CASE \E record \in Record : ReadDirect(u, record)
  <2>1. Apart(u) /\ Connects(u) /\ Files!Keep
    BY <1>2, PositioningApart DEF Positioning
  <2>2. ~ Sequential(u) /\ NoFault
    <3>1. FormOf[FileOf(u)] # "direct"
      <4>1. FileOf(u) \in File
        BY <2>1, UnitFacts DEF Connects
      <4>2. FormOf[FileOf(u)] \in {"formatted", "unformatted"}
        BY <4>1, FileAssumption
      <4> QED BY <4>2
    <3>2. "direct" = IF unit[u].access = "direct" THEN "direct" ELSE FormOf[FileOf(u)]
      BY <1>2 DEF ReadDirect, Ready
    <3>3. NoFault
      BY <1>2 DEF ReadDirect, NoFault
    <3> QED BY <3>1, <3>2, <3>3 DEF Sequential
  <2>3. Places' = Places
    BY <2>1, <2>2, UnitGoes
  <2>4. Fragiles' = Fragiles
    <3>1. unit[u].access = "direct"
      <4>1. unit[u] \in Entries
        BY <2>1, UnitFacts DEF Connects
      <4> QED BY <2>1, <2>2, <4>1 DEF Entries, Sequential, Connected, Connects
    <3>2. u \notin DOMAIN buffer /\ UNCHANGED buffer
      BY <1>2, <3>1, Unbuffered DEF ReadDirect
    <3> QED BY <2>1, <3>2, FragileGoes DEF Drained
  <2> QED BY <2>1, <2>2, <2>3, <2>4, UnseenSimulated
<1> QED BY <1>1, <1>2 DEF Read, ReadFormattedFails

(***************************************************************************)
(* The history kept when a file is cut or written at a position: if a      *)
(* record ends there it is the last, and otherwise none ends there either. *)
(***************************************************************************)
LEMMA KeptSpot ==
  ASSUME NEW f, NEW log \in Logs, NEW pos \in Nat
  PROVE  \E m \in 0 .. Len(log) :
           /\ KeptOf(f, log, pos) = SubSeq(log, 1, m) /\ Len(KeptOf(f, log, pos)) = m
           /\ KeptOf(f, log, pos) \in Logs
           /\ Spot(f, log, pos) \in {-1, m} /\ Spot(f, KeptOf(f, log, pos), pos) = Spot(f, log, pos)
           /\ EndsOf(f, log)[m] = pos <=> Spot(f, log, pos) = m
<1>1. PICK n \in Nat : n = Len(log)
  BY EndsFacts
<1>2. PICK e : e = EndsOf(f, log)
  OBVIOUS
<1>3. e \in [0 .. n -> Nat] /\ \A j, k \in 0 .. n : j < k => e[j] < e[k]
  BY <1>1, <1>2, EndsFacts, EndsGrow
<1>4. PICK kept : kept = KeptOf(f, log, pos)
  OBVIOUS
<1>5. PICK m \in 0 .. n : KeptAt(f, log, kept, m, pos) /\ kept = Upto(log, m)
  BY <1>1, <1>4, KeptFacts
<1>6. PICK h : h = EndsOf(f, kept)
  OBVIOUS
<1>7. /\ kept \in Logs /\ Len(kept) = m /\ e[m] <= pos
      /\ \A k \in 0 .. m : h[k] = e[k]
      /\ \A k \in m + 1 .. n : e[k] > pos
  BY <1>1, <1>2, <1>5, <1>6 DEF KeptAt
<1>8. PICK from : from = Spot(f, log, pos)
  OBVIOUS
<1>9. /\ from \in {-1} \union 0 .. n /\ (from # -1 => e[from] = pos)
      /\ \A k \in 0 .. n : e[k] = pos => from = k
  BY <1>1, <1>2, <1>8, SpotFacts
<1>10. PICK to : to = Spot(f, kept, pos)
  OBVIOUS
<1>11. /\ to \in {-1} \union 0 .. m /\ (to # -1 => h[to] = pos)
       /\ \A k \in 0 .. m : h[k] = pos => to = k
  BY <1>6, <1>7, <1>10, SpotFacts
<1>12. from # -1 => from = m
  <2> SUFFICES ASSUME from # -1 PROVE from = m
    OBVIOUS
  <2>1. from \in 0 .. n /\ e[from] = pos /\ e[m] \in Nat /\ m \in 0 .. n
    BY <1>3, <1>9
  <2>2. ~ (m < from)
    <3> SUFFICES ASSUME m < from PROVE FALSE
      OBVIOUS
    <3>1. from \in m + 1 .. n
      BY <2>1
    <3> QED BY <1>7, <2>1, <3>1
  <2>3. ~ (from < m)
    BY <1>3, <1>7, <2>1
  <2> QED BY <2>1, <2>2, <2>3
<1>13. to = from
  <2>1. CASE from = -1
    <3>1. to # -1 => e[to] = pos /\ to \in 0 .. n
      BY <1>7, <1>11
    <3> QED BY <1>9, <2>1, <3>1
  <2>2. CASE from # -1
    <3>1. m \in 0 .. m /\ h[m] = pos
      BY <1>7, <1>9, <1>12, <2>2
    <3> QED BY <1>11, <1>12, <2>2, <3>1
  <2> QED BY <2>1, <2>2
<1>14. from \in {-1, m}
  BY <1>12
<1>15. e[m] = pos <=> from = m
  BY <1>9, <1>12
<1>16. kept = SubSeq(log, 1, m)
  BY <1>5 DEF Upto
<1> QED BY <1>1, <1>2, <1>4, <1>7, <1>8, <1>10, <1>13, <1>14, <1>15, <1>16

(***************************************************************************)
(* What is left of the history of file f is the first m records of it, and *)
(* a unit at the position is at the end of them or lost.                   *)
(***************************************************************************)
CutAt(f, pos, m) ==
  LET log == records[f] IN
  /\ m \in 0 .. Len(log) /\ Kept(f, pos) = SubSeq(log, 1, m) /\ Len(Kept(f, pos)) = m
  /\ Kept(f, pos) \in Logs
  /\ Spot(f, log, pos) \in {-1, m} /\ Spot(f, Kept(f, pos), pos) = Spot(f, log, pos)
  /\ EndOf(f, m) = pos <=> Spot(f, log, pos) = m

LEMMA CutPlace ==
  ASSUME IInv, RInv, NEW f \in File, NEW pos \in Nat
  PROVE  \E m \in Nat : CutAt(f, pos, m)
<1>1. PICK log \in Logs : log = records[f]
  BY HistoryFacts
<1>2. PICK kept : kept = KeptOf(f, log, pos) /\ kept = Kept(f, pos)
  BY <1>1, HistoryFacts
<1>3. PICK m \in 0 .. Len(log) :
        /\ KeptOf(f, log, pos) = SubSeq(log, 1, m) /\ Len(KeptOf(f, log, pos)) = m
        /\ KeptOf(f, log, pos) \in Logs
        /\ Spot(f, log, pos) \in {-1, m}
        /\ Spot(f, KeptOf(f, log, pos), pos) = Spot(f, log, pos)
        /\ EndsOf(f, log)[m] = pos <=> Spot(f, log, pos) = m
  BY KeptSpot
<1>4. EndOf(f, m) = EndsOf(f, log)[m]
  BY <1>1, HistoryFacts
<1>5. CutAt(f, pos, m)
  BY <1>1, <1>2, <1>3, <1>4 DEF CutAt
<1>6. m \in Nat
  BY <1>1, EndsFacts
<1> QED BY <1>5, <1>6

(***************************************************************************)
(* ENDFILE.                                                                *)
(***************************************************************************)
LEMMA CutSteps ==
  ASSUME IInv, RInv, NEW u \in Unit, Endfile(u) \/ EndfileLoses(u)
  PROVE  /\ u \in DOMAIN unit /\ Sequential(u) /\ unit[u].handle = "open"
         /\ u \notin DOMAIN transfer /\ u \notin DOMAIN transfer'
         /\ unit'[u].handle = "open"
         /\ \E pos \in Nat, whole \in BOOLEAN :
              /\ unit'[u].pos = pos /\ Cut(FileOf(u), pos, whole)
              /\ Endfile(u) => /\ pos = unit[u].pos /\ NoFault
                               /\ whole <=> EndOf(FileOf(u), Len(Kept(FileOf(u), pos))) = pos
              /\ ~ Endfile(u) => ~ whole /\ Fault
<1>1. /\ u \in DOMAIN unit /\ Sequential(u) /\ unit[u].handle = "open" /\ u \notin DOMAIN transfer
      /\ transfer' = transfer
  BY DEF Endfile, EndfileLoses, EndfileReady, Sequential, Connected, Busy
<1>2. unit[u] \in Entries /\ unit[u].pos \in Nat
  BY <1>1, UnitFacts
<1>3. CASE Endfile(u)
  <2>1. PICK isEnd : isEnd = (EndOf(FileOf(u), Len(Kept(FileOf(u), unit[u].pos))) = unit[u].pos)
    OBVIOUS
  <2>2. Cut(FileOf(u), unit[u].pos, isEnd)
    BY <1>3, <2>1 DEF Endfile
  <2>3. isEnd \in BOOLEAN
    BY <2>1
  <2>4. unit'[u].pos = unit[u].pos /\ unit'[u].handle = "open" /\ NoFault
    BY <1>1, <1>2, <1>3 DEF Endfile, NoFault, Entries
  <2> QED BY <1>1, <1>2, <1>3, <2>1, <2>2, <2>3, <2>4
<1>4. CASE ~ Endfile(u) /\ EndfileLoses(u)
  <2>1. PICK pos \in 0 .. unit[u].pos - 1 :
          /\ unit' = [unit EXCEPT ![u].pos = pos, ![u].stream = "open"]
          /\ Cut(FileOf(u), pos, FALSE)
    BY <1>4 DEF EndfileLoses
  <2>2. unit'[u].pos = pos /\ unit'[u].handle = "open" /\ pos \in Nat /\ FALSE \in BOOLEAN
    BY <1>1, <1>2, <2>1 DEF Entries
  <2>3. Fault
    BY <1>4 DEF EndfileLoses
  <2> QED BY <1>1, <1>4, <2>1, <2>2, <2>3
<1> QED BY <1>3, <1>4

LEMMA EndfileSimulated ==
  ASSUME IInv, RInv, NEW u \in Unit, Endfile(u) \/ EndfileLoses(u)
  PROVE  Simulated
<1>1. /\ u \in DOMAIN unit /\ Sequential(u) /\ unit[u].handle = "open"
      /\ u \notin DOMAIN transfer /\ u \notin DOMAIN transfer' /\ unit'[u].handle = "open"
  BY CutSteps
<1>2. PICK f \in File : f = FileOf(u)
  BY <1>1, UnitFacts
<1>3. PICK pos \in Nat, whole \in BOOLEAN :
        /\ unit'[u].pos = pos /\ Cut(f, pos, whole)
        /\ Endfile(u) => /\ pos = unit[u].pos /\ NoFault
                         /\ whole <=> EndOf(f, Len(Kept(f, pos))) = pos
        /\ ~ Endfile(u) => ~ whole /\ Fault
  BY <1>2, CutSteps
<1>4. Apart(u) /\ Connects(u) /\ Files!Secured(u)
  BY EndfileApart, FragileGoes, DrainedIf DEF Endfile, EndfileLoses
<1>5. PICK m \in Nat : CutAt(f, pos, m)
  BY CutPlace
<1>6. PICK log \in Logs : log = records[f]
  BY <1>2, HistoryFacts
<1>7. PICK kept : kept = Kept(f, pos)
  OBVIOUS
<1>8. PICK at : at = Spot(f, log, pos)
  OBVIOUS
<1>9. /\ m \in 0 .. Len(log) /\ kept = SubSeq(log, 1, m) /\ Len(kept) = m
      /\ at \in {-1, m} /\ Spot(f, kept, pos) = at /\ (EndOf(f, m) = pos <=> at = m)
  BY <1>5, <1>6, <1>7, <1>8 DEF CutAt
<1>10. PlaceOf(u)' = at
  <2>1. FileOf(u)' = f
    BY <1>2, <1>4 DEF Connects, FileOf
  <2>2. records'[f] = kept
    BY <1>3, <1>7 DEF Cut, RInv
  <2>3. SpotOf(u)' = at
    BY <1>3, <1>9, <2>1, <2>2 DEF SpotOf
  <2> QED BY <1>1, <2>3, PlaceNext DEF PlaceKnown
<1>11. Files!Go(u, at)
  BY <1>4, <1>1, <1>10, UnitGoes
<1>12. /\ whole => Files!Become(u, SubSeq(Files!Log(u), 1, m), TRUE)
       /\ ~ whole => Files!Become(u, SubSeq(Files!Log(u), 1, m), FALSE)
  <2>1. Files!Log(u) = log
    BY <1>1, <1>2, <1>6, AbstractUnit
  <2>2. /\ records' = [records EXCEPT ![f] = kept]
        /\ whole => clean' = [clean EXCEPT ![f] = TRUE]
        /\ ~ whole => clean' = [clean EXCEPT ![f] = FALSE]
    BY <1>3, <1>7 DEF Cut
  <2>3. kept = SubSeq(Files!Log(u), 1, m)
    BY <1>9, <2>1
  <2> QED BY <1>1, <1>2, <2>2, <2>3, AbstractUnit
<1>13. PICK from : from = PlaceOf(u) /\ from = Spot(f, log, unit[u].pos)
  BY <1>1, <1>2, <1>6, PlacedFacts DEF Busy
<1>14. Files!At(u) = from /\ Files!Log(u) = log
  BY <1>1, <1>2, <1>6, <1>13, AbstractUnit
<1>15. CASE Endfile(u)
  <2>1. from = at /\ (whole <=> at = m) /\ NoFault
    BY <1>3, <1>7, <1>8, <1>9, <1>13, <1>15
  <2>2. Places' = Places
    BY <1>1, <1>4, <1>10, <1>13, <2>1, UnitGoes
  <2>3. Files!Succeeds
    BY <2>1 DEF NoFault, Files!Succeeds
  <2>4. CASE at = m
    <3>1. Files!Become(u, SubSeq(Files!Log(u), 1, Files!At(u)), TRUE) /\ Files!At(u) >= 0
      <4>1. whole /\ Files!At(u) = m
        BY <1>14, <2>1, <2>4
      <4>2. m >= 0
        OBVIOUS
      <4> QED BY <1>12, <4>1, <4>2
    <3>2. Files!Endfile(u)
      BY <1>4, <2>2, <2>3, <3>1 DEF Files!Endfile, Places
    <3> QED BY <1>1, <3>2, AbstractSteps
  <2>5. CASE at = -1
    <3>1. ~ whole /\ Files!At(u) = -1
      BY <1>14, <2>1, <2>5
    <3>2. m \in 0 .. Len(Files!Log(u)) /\ Files!Become(u, SubSeq(Files!Log(u), 1, m), FALSE)
      BY <1>9, <1>12, <1>14, <3>1
    <3>3. Files!Endfile(u)
      BY <1>4, <2>2, <2>3, <3>1, <3>2 DEF Files!Endfile, Files!Lost, Places
    <3> QED BY <1>1, <3>3, AbstractSteps
  <2> QED BY <1>9, <2>4, <2>5
<1>16. CASE ~ Endfile(u)
  <2>1. ~ whole /\ Files!Fails
    BY <1>3, <1>16 DEF Fault, Files!Fails, IInv
  <2>2. m \in 0 .. Len(Files!Log(u)) /\ Files!Become(u, SubSeq(Files!Log(u), 1, m), FALSE)
    BY <1>9, <1>12, <1>14, <2>1
  <2>3. Files!At(u) # -2
    <3>1. PICK n \in Nat : n = Len(log)
      BY EndsFacts
    <3>2. from \in {-1} \union 0 .. n
      <4>1. Spot(f, log, unit[u].pos) \in {-1} \union 0 .. Len(log)
        BY SpotFacts
      <4> QED BY <1>13, <3>1, <4>1
    <3> QED BY <1>14, <3>2
  <2>4. at \in {m, Files!Lost}
    BY <1>9 DEF Files!Lost
  <2>5. Files!Endfile(u)
    BY <1>4, <1>11, <2>1, <2>2, <2>3, <2>4 DEF Files!Endfile, Files!Writing
  <2> QED BY <1>1, <2>5, AbstractSteps
<1> QED BY <1>15, <1>16

-----------------------------------------------------------------------------
(* Units that are connected.                                               *)

\* Unit u is now at place k of file f, and the others are where they were.
Appears(u, f, k) ==
  Places' = [v \in DOMAIN Places \union {u} |->
               IF v = u THEN [file |-> f, at |-> k] ELSE Places[v]]

(***************************************************************************)
(* A unit that was not connected gets a place, the others keep theirs.     *)
(***************************************************************************)
LEMMA NewPlace ==
  ASSUME NEW u, Apart(u), u \notin DOMAIN unit, u \in DOMAIN unit', unit'[u].access = "sequential",
         NEW f, f = unit'[u].file, NEW k, k = PlaceOf(u)'
  PROVE  Appears(u, f, k)
<1>1. u \in DOMAIN Places' /\ Places'[u] = [file |-> f, at |-> k]
  BY DEF Places, Sequential, Connected, FileOf
<1>2. DOMAIN Places' = DOMAIN Places \union {u}
  BY <1>1, OtherPlaces DEF Places
<1>3. u \notin DOMAIN Places
  BY DEF Places
<1>4. Places' = [v \in DOMAIN Places' |-> Places'[v]]
  BY DEF Places
<1>5. \A v \in DOMAIN Places : Places'[v] = Places[v]
  BY <1>3, OtherPlaces
<1> QED BY <1>1, <1>2, <1>4, <1>5 DEF Appears

\* The abstract files of other units.
LEMMA OtherFiles ==
  ASSUME NEW u, NEW f, \A v \in DOMAIN unit : v # u => FileOf(v) # f
  PROVE  \A v \in DOMAIN Places : v # u => Places[v].file # f
BY DEF Places

\* A file no unit is connected to is not being written.
LEMMA IdleFile ==
  ASSUME IInv, RInv, NEW u, u \notin DOMAIN transfer, NEW f \in DOMAIN disk,
         \A v \in DOMAIN unit : v # u => FileOf(v) # f
  PROVE  /\ f \in File /\ disk[f] \in Seq(Nat) /\ records[f] \in Logs /\ clean[f] \in BOOLEAN
         /\ LaidOut(f, records[f], disk[f]) /\ Unbroken(f, records[f])
         /\ clean[f] => Len(disk[f]) = LogEnd(f, records[f])
<1>1. f \in File
  BY DEF IInv
<1>2. ~ InTransfer(f)
  BY TransferFacts DEF InTransfer
<1>3. HistoryIn(f)
  BY DEF RInv
<1> QED BY <1>1, <1>2, <1>3, HistoryFacts DEF HistoryIn

LEMMA ReadImplicitlySimulated ==
  ASSUME IInv, RInv, NEW u \in Unit, ReadImplicitly(u)
  PROVE  Simulated
<1>1. PICK f \in File : f = DefaultName[u]
  BY FileAssumption DEF File
<1>2. PICK next : next = ReadLine(disk[f], 0).pos
  OBVIOUS
<1>3. /\ u \notin DOMAIN unit /\ f \in DOMAIN disk
      /\ \A v \in DOMAIN unit : v # u => FileOf(v) # f
      /\ unit' = With(unit, u, Entry(f, "sequential", "read", next))
      /\ UNCHANGED << disk, transfer, faults, history >>
  BY <1>1, <1>2 DEF ReadImplicitly, ImplicitOpen, Refused, Unshared, Connected
<1>4. Apart(u)
  BY ImplicitApart
<1>5. u \notin DOMAIN transfer
  BY <1>3, TransferFacts
<1>6. PICK log \in Logs, cells \in Seq(Nat), whole \in BOOLEAN :
        /\ log = records[f] /\ cells = disk[f] /\ whole = clean[f]
        /\ LaidOut(f, log, cells) /\ Unbroken(f, log)
        /\ whole => Len(cells) = LogEnd(f, log)
  BY <1>3, <1>5, IdleFile
<1>7. u \in DOMAIN unit' /\ unit'[u] = Entry(f, "sequential", "read", next)
  BY <1>3 DEF With
<1>8. /\ unit'[u].access = "sequential" /\ unit'[u].file = f /\ unit'[u].handle = "open"
      /\ unit'[u].pos = next
  BY <1>7 DEF Entry
<1>9. PICK to : to = Spot(f, log, next)
  OBVIOUS
<1>10. PlaceOf(u)' = to
  <2>1. records' = records /\ transfer' = transfer /\ FileOf(u)' = f
    BY <1>3, <1>8 DEF history, FileOf
  <2>2. SpotOf(u)' = to
    BY <1>6, <1>8, <1>9, <2>1 DEF SpotOf
  <2> QED BY <1>5, <1>8, <2>1, <2>2, PlaceNext DEF PlaceKnown
<1>11. to \in Files!Following(log, whole, 0)
  <2>1. FormOf[f] = "formatted" /\ 0 \in Nat
    BY <1>1, FileAssumption
  <2>2. PICK pos \in Nat : pos = 0
    OBVIOUS
  <2>3. PICK from : from = Spot(f, log, pos)
    OBVIOUS
  <2>4. from = 0
    <3>1. EndsOf(f, log)[0] = 0 /\ 0 \in 0 .. Len(log)
      BY EndsFacts
    <3> QED BY <2>2, <2>3, <3>1, SpotFacts
  <2>5. next = IF FormOf[f] = "formatted" THEN ReadLine(cells, pos).pos
                                          ELSE ReadPayload(cells, pos, 0).pos
    BY <1>2, <1>6, <2>1, <2>2
  <2>6. to \in Files!Following(log, whole, from)
    BY <1>6, <1>9, <2>3, <2>5, ReadFollows
  <2> QED BY <2>4, <2>6
<1>12. Appears(u, f, to)
  <2>1. PICK g : g = unit'[u].file
    OBVIOUS
  <2>2. PICK k : k = PlaceOf(u)'
    OBVIOUS
  <2>3. u \notin DOMAIN unit /\ u \in DOMAIN unit' /\ unit'[u].access = "sequential"
    BY <1>3, <1>7, <1>8
  <2>4. Appears(u, g, k)
    BY <1>4, <2>1, <2>2, <2>3, NewPlace
  <2>5. g = f /\ k = to
    BY <1>8, <1>10, <2>1, <2>2
  <2> QED BY <2>4, <2>5
<1>13. \A v \in DOMAIN Places : Places[v].file # f
  BY <1>3, OtherFiles DEF Places
<1>14. Files!Keep /\ Files!Succeeds
  BY <1>3 DEF history, Files!Keep, Files!Succeeds
<1>15. to \in Files!Following(records[f], clean[f], 0)
  BY <1>6, <1>11
<1>16. Fragiles' = Fragiles
  <2>1. u \notin DOMAIN buffer /\ UNCHANGED buffer
    BY <1>3, Unbuffered DEF ReadImplicitly
  <2> QED BY <1>4, <2>1, FragileGoes
<1>17. Files!OpenAndRead(u)
  BY <1>12, <1>13, <1>14, <1>15, <1>16 DEF Files!OpenAndRead, Appears, Places, Fragiles
<1> QED BY <1>17, AbstractSteps

(***************************************************************************)
(* The start of a file is before its first record.  The end of a file is   *)
(* behind the last, or the file is not clean.                              *)
(***************************************************************************)
LEMMA EdgeSpots ==
  ASSUME NEW f, NEW log \in Logs, NEW cells \in Seq(Nat), LaidOut(f, log, cells),
         NEW pos \in {0, Len(cells)}
  PROVE  /\ Spot(f, log, pos) \in {0, Len(log), -1}
         /\ Len(cells) = LogEnd(f, log) => Spot(f, log, pos) # -1
<1>1. PICK n \in Nat : n = Len(log)
  BY EndsFacts
<1>2. PICK e : e = EndsOf(f, log)
  OBVIOUS
<1>3. /\ e \in [0 .. n -> Nat] /\ e[0] = 0 /\ \A j, k \in 0 .. n : j < k => e[j] < e[k]
  BY <1>1, <1>2, EndsFacts, EndsGrow
<1>4. PICK size \in Nat : size = Len(cells)
  BY LenProperties
<1>5. e[n] <= size /\ LogEnd(f, log) = e[n]
  <2>1. LogEnd(f, log) <= Len(cells)
    BY LaidOutEnds
  <2> QED BY <1>1, <1>2, <1>4, <2>1 DEF LogEnd
<1>6. PICK at : at = Spot(f, log, pos)
  OBVIOUS
<1>7. /\ at \in {-1} \union 0 .. n /\ (at # -1 => e[at] = pos)
      /\ \A k \in 0 .. n : e[k] = pos => at = k
  BY <1>1, <1>2, <1>6, SpotFacts
<1>8. CASE pos = 0
  BY <1>3, <1>6, <1>7, <1>8
<1>9. CASE pos = size
  <2>1. at # -1 => at = n
    <3> SUFFICES ASSUME at # -1, at # n PROVE FALSE
      OBVIOUS
    <3>1. at \in 0 .. n /\ n \in 0 .. n /\ at < n /\ e[at] = size
      BY <1>7, <1>9
    <3> QED BY <1>3, <1>5, <3>1
  <2>2. e[n] = size => at = n
    BY <1>7, <1>9
  <2> QED BY <1>1, <1>4, <1>5, <1>6, <2>1, <2>2
<1> QED BY <1>4, <1>8, <1>9

(***************************************************************************)
(* OPEN and CLOSE.                                                         *)
(***************************************************************************)
LEMMA SettledPlace ==
  ASSUME IInv, RInv, NEW u \in Unit, Settles(u), u \in DOMAIN unit'
  PROVE  \E f \in File :
           /\ unit'[u].file = f /\ \A v \in DOMAIN unit : v # u => FileOf(v) # f
           /\ PlaceOf(u)' \in {0, Len(records'[f]), -1}
           /\ PlaceOf(u)' = -1 => ~ clean'[f]
<1>1. PICK f \in File :
        /\ u \notin DOMAIN transfer /\ UNCHANGED transfer
        /\ \A v \in DOMAIN unit : v # u => FileOf(v) # f
        /\ Reconnected(u, f)
  BY DEF Settles
<1>2. IInv' /\ RInv'
  BY ReconnectSound, SettlesKept
<1>3. /\ f \in DOMAIN disk' /\ unit'[u].file = f /\ unit'[u].handle = "open"
      /\ unit'[u].pos \in {0, Len(disk'[f])}
  BY <1>1 DEF Reconnected
<1>4. PICK cells \in Seq(Nat), log \in Logs, whole \in BOOLEAN :
        cells = disk'[f] /\ log = records'[f] /\ whole = clean'[f]
  BY <1>2, <1>3 DEF IInv, FileSound, RInv
<1>5. ~ InTransfer(f)'
  <2>1. \A v \in DOMAIN transfer : v # u /\ v \in DOMAIN unit /\ unit'[v] = unit[v]
    BY <1>1, TransferFacts DEF Reconnected
  <2> QED BY <1>1, <2>1 DEF InTransfer, FileOf
<1>6. LaidOut(f, log, cells) /\ (whole => Len(cells) = LogEnd(f, log))
  BY <1>2, <1>3, <1>4, <1>5 DEF RInv, HistoryIn
<1>7. PICK pos \in {0, Len(cells)} : pos = unit'[u].pos
  BY <1>3, <1>4
<1>8. PICK at : at = Spot(f, log, pos)
  OBVIOUS
<1>9. PlaceOf(u)' = at
  <2>1. SpotOf(u)' = at
    BY <1>3, <1>4, <1>7, <1>8 DEF SpotOf, FileOf
  <2> QED BY <1>1, <1>3, <2>1, PlaceNext DEF PlaceKnown
<1>10. at \in {0, Len(log), -1} /\ (whole => at # -1)
  BY <1>6, <1>8, EdgeSpots
<1> QED BY <1>1, <1>3, <1>4, <1>9, <1>10

LEMMA SettlesSimulated == ASSUME IInv, RInv, NEW u \in Unit, Settles(u) PROVE Simulated
<1>1. Apart(u)
  BY SettlesApart
<1>2. Settle(u)
  BY DEF Settles
<1>3. ASSUME NEW f \in File
      PROVE  \/ records'[f] = records[f] /\ clean'[f] = clean[f]
             \/ records'[f] = << >> /\ \A v \in Files!Others(u) : Places[v].file # f
  <2>1. clean[f] \in BOOLEAN
    BY HistoryFacts
  <2>2. \/ records'[f] = records[f] /\ clean'[f] = clean[f]
        \/ records'[f] = << >> /\ Unshared(u, f)
    BY <1>2, <2>1 DEF Settle
  <2>3. Unshared(u, f) => \A v \in Files!Others(u) : Places[v].file # f
    BY DEF Unshared, Files!Others, Places
  <2> QED BY <2>2, <2>3
<1>4. /\ Files!Others(u) \subseteq DOMAIN Places' /\ \A v \in Files!Others(u) : Places'[v] = Places[v]
      /\ DOMAIN Places' \subseteq Files!Others(u) \union {u}
  BY <1>1, OtherPlaces DEF Files!Others, Places
<1>5. ASSUME u \in DOMAIN Places'
      PROVE  \E f \in File :
               /\ Places'[u].file = f /\ \A v \in Files!Others(u) : Places[v].file # f
               /\ \/ Places'[u].at \in {0, Len(records'[f])}
                  \/ Places'[u].at = -1 /\ ~ clean'[f]
  <2>1. u \in DOMAIN unit' /\ Places'[u] = [file |-> FileOf(u)', at |-> PlaceOf(u)']
    BY <1>5 DEF Places
  <2>2. PICK f \in File :
          /\ unit'[u].file = f /\ \A v \in DOMAIN unit : v # u => FileOf(v) # f
          /\ PlaceOf(u)' \in {0, Len(records'[f]), -1}
          /\ PlaceOf(u)' = -1 => ~ clean'[f]
    BY <2>1, SettledPlace
  <2>3. \A v \in Files!Others(u) : Places[v].file # f
    BY <2>2 DEF Files!Others, Places
  <2> QED BY <2>1, <2>2, <2>3 DEF FileOf
<1>6. Files!Secured(u)
  BY <1>1, FragileGoes DEF Settles
<1>7. Files!Reconnect(u)
  BY <1>3, <1>4, <1>5, <1>6 DEF Files!Reconnect, Files!Lost, Places
<1> QED BY <1>7, AbstractSteps

(***************************************************************************)
(* A step that leaves the buffers alone, and of the history of the file    *)
(* what is before the buffer, leaves what is fragile.                      *)
(***************************************************************************)
LEMMA WriteSteady ==
  ASSUME IInv, RInv, NEW u \in Unit,
         \/ \E w \in Word : WriteItem(u, w)
         \/ EndFormatted(u) \/ EndUnformatted(u) \/ EndDirect(u)
  PROVE  Fragiles' = Fragiles
<1> SUFFICES ASSUME NEW f, f = FileOf(u) PROVE Fragiles' = Fragiles
  OBVIOUS
<1>1. Apart(u) /\ Connects(u) /\ UNCHANGED buffer
  BY WriteApart
<1>2. f \in File /\ FileOf(u)' = f
  BY <1>1, UnitFacts DEF Connects, FileOf
<1>3. CASE u \notin DOMAIN buffer
  BY <1>1, <1>3, FragileGoes
<1>4. CASE u \in DOMAIN buffer
  <2>1. ~ (EndUnformatted(u) \/ EndDirect(u))
    BY <1>4, TransferFacts DEF EndUnformatted, EndDirect, Writing, Busy
  <2>2. ASSUME EndFormatted(u)
        PROVE  KeptOf(f, records'[f], buffer[u].from) = Kept(f, buffer[u].from)
    BY <1>4, <2>2, EndFormattedSteady
  <2>3. ASSUME \E w \in Word : WriteItem(u, w)
        PROVE  KeptOf(f, records'[f], buffer[u].from) = Kept(f, buffer[u].from)
    <3>1. records' = records
      BY <2>3 DEF WriteItem
    <3> QED BY <1>2, <3>1, HistoryFacts
  <2>4. KeptOf(f, records'[f], buffer[u].from) = Kept(f, buffer[u].from)
    BY <2>1, <2>2, <2>3
  <2> QED BY <1>1, <1>2, <2>4, FragileStays
<1> QED BY <1>3, <1>4

\* A WRITE that begins leaves what is fragile, or begins the buffer.
BeginsBuffer(u) ==
  \/ Fragiles' = Fragiles
  \/ /\ u \notin DOMAIN Fragiles
     /\ \A n : n = Len(records'[FileOf(u)]) => Files!Fragile(u, n)

LEMMA BeginFragile ==
  ASSUME IInv, RInv, NEW u \in Unit, BeginFormatted(u)
  PROVE  BeginsBuffer(u)
<1> SUFFICES ASSUME NEW f, f = FileOf(u), NEW pos, pos = unit[u].pos PROVE BeginsBuffer(u)
  OBVIOUS
<1>1. Apart(u) /\ Connects(u)
  BY BeginApart
<1>2. /\ u \in DOMAIN unit /\ Begin(u, "formatted", pos, pos)
      /\ buffer' = IF u \in DOMAIN buffer THEN buffer ELSE With(buffer, u, Buffered(pos, Cells(u)))
  BY DEF BeginFormatted, Ready, Connected
<1>3. f \in File /\ pos \in Nat /\ FileOf(u)' = f
  BY <1>1, <1>2, UnitFacts DEF Connects, FileOf
<1>4. records'[f] = Kept(f, pos)
  BY <1>2, <1>3 DEF Begin, Overwrite, Cut, RInv
<1>5. CASE u \in DOMAIN buffer
  <2>1. buffer[u].from \in Nat /\ buffer[u].from <= pos
    BY <1>5 DEF IInv, BufferSound
  <2>2. KeptOf(f, records'[f], buffer[u].from) = Kept(f, buffer[u].from)
    BY <1>3, <1>4, <2>1, KeptKept
  <2>3. UNCHANGED buffer
    BY <1>2, <1>5
  <2>4. Fragiles' = Fragiles
    BY <1>1, <1>3, <2>2, <2>3, FragileStays
  <2> QED BY <2>4 DEF BeginsBuffer
<1>6. CASE u \notin DOMAIN buffer
  <2>1. u \in DOMAIN buffer' /\ buffer'[u] = [from |-> pos, under |-> Cells(u)]
    BY <1>2, <1>6 DEF With, Buffered
  <2>2. KeptOf(f, records'[f], pos) = records'[f]
    BY <1>3, <1>4, KeptKept
  <2>3. Fragiles'[u] = Len(records'[f])
    BY <1>3, <2>1, <2>2, FragilesNext DEF FragilesKnown
  <2>4. \A n : n = Len(records'[f]) => Files!Fragile(u, n)
    BY <1>1, <2>1, <2>3, FragileGoes
  <2>5. u \notin DOMAIN Fragiles
    BY <1>6, FragilesHold DEF FragilesKnown
  <2> QED BY <2>4, <2>5 DEF BeginsBuffer
<1> QED BY <1>5, <1>6

-----------------------------------------------------------------------------
(* WRITE begins.                                                           *)

(***************************************************************************)
(* A WRITE of a connected sequential unit keeps the records before its     *)
(* place.                                                                  *)
(***************************************************************************)
LEMMA SequentialBegins ==
  ASSUME IInv, RInv, NEW u \in DOMAIN unit, Sequential(u), u \notin DOMAIN transfer,
         unit[u].handle = "open", Apart(u), Connects(u),
         NEW mode, NEW start, Begin(u, mode, start, unit[u].pos), BeginsBuffer(u)
  PROVE  Simulated
<1>1. PICK f \in File : f = FileOf(u)
  BY UnitFacts
<1>2. PICK pos \in Nat : pos = unit[u].pos
  BY UnitFacts
<1>3. PICK log \in Logs : log = records[f]
  BY HistoryFacts
<1>4. PICK m \in Nat : CutAt(f, pos, m)
  BY CutPlace
<1>5. PICK kept : kept = Kept(f, pos)
  OBVIOUS
<1>6. PICK at : at = Spot(f, log, pos)
  OBVIOUS
<1>7. /\ m \in 0 .. Len(log) /\ kept = SubSeq(log, 1, m) /\ Len(kept) = m
      /\ at \in {-1, m} /\ (EndOf(f, m) = pos <=> at = m)
  BY <1>3, <1>4, <1>5, <1>6 DEF CutAt
<1>8. PICK n \in Nat : n = Len(log)
  BY EndsFacts
<1>9. PICK e : e = EndsOf(f, log)
  OBVIOUS
<1>10. /\ e \in [0 .. n -> Nat] /\ LogEnd(f, log) = e[n]
       /\ \A j, k \in 0 .. n : j < k => e[j] < e[k]
       /\ at # -1 => e[at] = pos
       /\ \A k \in 0 .. n : e[k] = pos => at = k
  BY <1>6, <1>8, <1>9, EndsFacts, EndsGrow, SpotFacts DEF LogEnd
<1>11. PICK inOrder \in BOOLEAN : inOrder = (pos = EndOf(f, Len(Kept(f, pos))))
  OBVIOUS
<1>12. PICK whole \in BOOLEAN : whole = (clean[f] /\ pos = Len(disk[f]))
  OBVIOUS
<1>13. /\ transfer' = With(transfer, u, Started(mode, start, 0, inOrder))
       /\ records' = [records EXCEPT ![f] = kept]
       /\ clean' = [clean EXCEPT ![f] = whole]
       /\ faults' = faults
  BY <1>1, <1>2, <1>5, <1>11, <1>12 DEF Begin, Overwrite, Cut
<1>14. inOrder <=> at = m
  BY <1>5, <1>7, <1>11
<1>15. whole <=> clean[f] /\ at = n
  <2>1. clean[f] => Len(disk[f]) = e[n]
    BY <1>1, <1>3, <1>10, CleanFacts DEF Cells
  <2>2. e[n] = pos <=> at = n
    BY <1>10
  <2> QED BY <1>12, <2>1, <2>2
<1>16. PlaceOf(u)' = IF inOrder THEN -2 ELSE -1
  <2>1. u \in DOMAIN transfer' /\ transfer'[u] = Started(mode, start, 0, inOrder)
    BY <1>13 DEF With
  <2>2. Extends(u)' = inOrder
    BY <2>1 DEF Extends, Started
  <2> QED BY <2>1, <2>2, PlaceNext DEF PlaceKnown
<1>17. Files!At(u) = at /\ Files!Log(u) = log /\ Files!Whole(u) = clean[f]
  <2>1. PlaceOf(u) = at
    BY <1>1, <1>2, <1>3, <1>6, PlacedFacts DEF Busy
  <2> QED BY <1>1, <1>3, <2>1, AbstractUnit
<1>18. Files!Become(u, kept, whole)
  BY <1>1, <1>13, AbstractUnit
<1>19. Files!Succeeds
  BY <1>13 DEF Files!Succeeds
<1>20. clean[f] \in BOOLEAN
  BY HistoryFacts
<1>21. PICK length : length = Len(records'[f])
  OBVIOUS
<1>22. Fragiles' = Fragiles \/ (u \notin DOMAIN Fragiles /\ Files!Fragile(u, length))
  BY <1>1, <1>21 DEF BeginsBuffer
<1>23. Places[u].file = f
  <2>1. Places[u] = [file |-> FileOf(u), at |-> PlaceOf(u)]
    BY AbstractUnit
  <2> QED BY <1>1, <2>1
<1>24. \/ Fragiles' = Fragiles
       \/ u \notin DOMAIN Fragiles /\ Files!Fragile(u, Len(records'[Places[u].file]))
  BY <1>21, <1>22, <1>23
<1>25. CASE at = m
  <2>1. PlaceOf(u)' = -2
    BY <1>14, <1>16, <1>25
  <2>2. Files!Go(u, -2)
    BY <2>1, UnitGoes
  <2>3. kept = SubSeq(Files!Log(u), 1, Files!At(u)) /\ Files!At(u) >= 0
    BY <1>7, <1>17, <1>25
  <2>4. whole = (Files!Whole(u) /\ Files!At(u) = Len(Files!Log(u)))
    BY <1>8, <1>15, <1>17, <1>20
  <2>5. Files!BeginWrite(u)
    BY <1>18, <1>19, <1>24, <2>2, <2>3, <2>4
       DEF Files!BeginWrite, Files!Writing, Files!Become, Places, Fragiles
  <2> QED BY <2>5, AbstractSteps
<1>26. CASE at # m
  <2>1. at = -1 /\ PlaceOf(u)' = -1 /\ ~ whole
    BY <1>7, <1>8, <1>14, <1>15, <1>16, <1>26
  <2>2. Files!At(u) = -1 /\ PlaceOf(u) = -1
    BY <1>17, <2>1, AbstractUnit
  <2>3. Places' = Places
    BY <2>1, <2>2, UnitGoes
  <2>4. Files!Become(u, SubSeq(Files!Log(u), 1, m), FALSE) /\ m \in 0 .. Len(Files!Log(u))
    BY <1>7, <1>17, <1>18, <2>1
  <2>5. Files!BeginWrite(u)
    BY <1>19, <1>24, <2>2, <2>3, <2>4 DEF Files!BeginWrite, Files!Lost, Places, Fragiles
  <2> QED BY <2>5, AbstractSteps
<1> QED BY <1>25, <1>26

LEMMA BeginSimulated ==
  ASSUME IInv, RInv, NEW u \in Unit, BeginFormatted(u) \/ BeginUnformatted(u)
  PROVE  Simulated
<1>1. Apart(u) /\ Connects(u)
  BY BeginApart
<1>2. \E mode : mode \in {"formatted", "unformatted"} /\ Ready(u, mode, "write")
  BY DEF BeginFormatted, BeginUnformatted
<1>3. u \in DOMAIN unit /\ u \notin DOMAIN transfer /\ Sequential(u)
  BY <1>2, ReadyFacts
<1>4. unit[u].handle = "open"
  BY <1>3, OpenHandle DEF BeginFormatted, BeginUnformatted
<1>5. BeginUnformatted(u) => Fragiles' = Fragiles
  <2> SUFFICES ASSUME BeginUnformatted(u) PROVE Fragiles' = Fragiles
    OBVIOUS
  <2>1. FormOf[FileOf(u)] = "unformatted"
    BY <1>3 DEF BeginUnformatted, Ready, Sequential
  <2>2. u \notin DOMAIN buffer /\ UNCHANGED buffer
    BY <2>1, Unbuffered DEF BeginUnformatted
  <2> QED BY <1>1, <2>2, FragileGoes
<1>6. BeginsBuffer(u)
  BY <1>5, BeginFragile DEF BeginsBuffer
<1>7. CASE \E mode, start : Begin(u, mode, start, unit[u].pos)
  BY <1>1, <1>3, <1>4, <1>7, <1>6, SequentialBegins
<1>8. CASE BeginUnformatted(u) /\ Fault /\ UNCHANGED << disk, unit, transfer, history >>
  <2>1. Places' = Places /\ Files!Keep
    BY <1>8, SamePlaces DEF history, Files!Keep
  <2> QED BY <1>8, <1>5, <2>1, UnseenSimulated
<1> QED BY <1>7, <1>8 DEF BeginFormatted, BeginUnformatted

LEMMA BeginDirectSimulated ==
  ASSUME IInv, RInv, NEW u \in Unit, NEW record \in Record, BeginDirect(u, record)
  PROVE  Simulated
<1>1. Apart(u) /\ Connects(u)
  BY BeginApart
<1>2. u \in DOMAIN unit /\ ~ Sequential(u)
  BY ReadyFacts DEF BeginDirect
<1>3. PICK f \in File : f = FileOf(u)
  BY <1>2, UnitFacts
<1>4. PICK start \in Nat : start = Offset(record)
  BY TransferAssumption, BoundsAssumption DEF Offset
<1>5. PICK m \in Nat : CutAt(f, start, m)
  BY CutPlace
<1>6. /\ records' = [records EXCEPT ![f] = Kept(f, start)]
      /\ clean' = [clean EXCEPT ![f] = FALSE]
  BY <1>3, <1>4 DEF BeginDirect
<1>7. m \in 0 .. Len(records[f]) /\ Kept(f, start) = SubSeq(records[f], 1, m)
  BY <1>5 DEF CutAt
<1>8. \A v \in DOMAIN Places : Places[v].file # f
  BY <1>2, <1>3, UnitFacts DEF Places
<1>9. Places' = Places
  BY <1>1, <1>2, UnitGoes
<1>10. Fragiles' = Fragiles
  <2>1. unit[u].access = "direct"
    <3>1. unit[u] \in Entries
      BY <1>2, UnitFacts
    <3> QED BY <1>2, <3>1 DEF Entries, Sequential, Connected
  <2>2. u \notin DOMAIN buffer /\ UNCHANGED buffer
    BY <2>1, Unbuffered DEF BeginDirect
  <2> QED BY <1>1, <2>2, FragileGoes
<1>11. Files!Overwrite(f)
  BY <1>6, <1>7, <1>8, <1>9, <1>10 DEF Files!Overwrite, Places, Fragiles
<1> QED BY <1>11, AbstractSteps

(***************************************************************************)
(* A WRITE that connects its unit empties the history of the file.         *)
(***************************************************************************)
LEMMA BeginImplicitlySimulated ==
  ASSUME IInv, RInv, NEW u \in Unit, BeginImplicitly(u)
  PROVE  Simulated
<1>1. PICK f \in File : f = DefaultName[u]
  BY FileAssumption DEF File
<1>2. Apart(u) /\ u \notin DOMAIN unit /\ OwnHistory(f)
  BY <1>1, ImplicitApart
<1>3. /\ \A v \in DOMAIN unit : v # u => FileOf(v) # f
      /\ unit' = With(unit, u, Entry(f, "sequential", "write", 0))
      /\ transfer' = With(transfer, u, Started("formatted", 0, 0, TRUE))
      /\ records' = [records EXCEPT ![f] = Kept(f, 0)]
  BY <1>1 DEF BeginImplicitly, ImplicitOpen, Unshared, Cut
<1>4. Kept(f, 0) = << >>
  <2>1. PICK m \in Nat : CutAt(f, 0, m)
    BY CutPlace
  <2>2. PICK log \in Logs : log = records[f]
    BY HistoryFacts
  <2>3. Spot(f, log, 0) = 0
    <3>1. EndsOf(f, log)[0] = 0 /\ 0 \in 0 .. Len(log)
      BY EndsFacts
    <3> QED BY <3>1, SpotFacts
  <2>4. Kept(f, 0) \in Logs /\ Len(Kept(f, 0)) = 0
    BY <2>1, <2>2, <2>3 DEF CutAt
  <2> QED BY <2>4, EmptySeq DEF Logs
<1>5. records'[f] = << >>
  BY <1>3, <1>4 DEF RInv
<1>6. u \in DOMAIN unit' /\ unit'[u].access = "sequential" /\ unit'[u].file = f
  BY <1>3 DEF With, Entry
<1>7. PlaceOf(u)' = -2
  <2>1. u \in DOMAIN transfer' /\ transfer'[u] = Started("formatted", 0, 0, TRUE)
    BY <1>3 DEF With
  <2>2. Extends(u)'
    BY <2>1 DEF Extends, Started
  <2> QED BY <2>1, <2>2, PlaceNext DEF PlaceKnown
<1>8. Places'[u] = [file |-> f, at |-> -2]
  BY <1>6, <1>7 DEF Places, Sequential, Connected, FileOf
<1>9. \A v \in Files!Others(u) : Places[v].file # f
  BY <1>3 DEF Files!Others, Places
<1>10. /\ Files!Others(u) \subseteq DOMAIN Places'
       /\ \A v \in Files!Others(u) : Places'[v] = Places[v]
       /\ DOMAIN Places' \subseteq Files!Others(u) \union {u}
  BY <1>2, OtherPlaces DEF Files!Others, Places
<1>11. \A g \in File : g # f => records'[g] = records[g] /\ clean'[g] = clean[g]
  BY <1>2 DEF OwnHistory
<1>12. Files!Fragile(u, 0)
  <2>1. PICK cells : buffer' = With(buffer, u, Buffered(0, cells))
    BY DEF BeginImplicitly
  <2>2. u \in DOMAIN buffer' /\ buffer'[u].from = 0
    BY <2>1 DEF With, Buffered
  <2>3. KeptOf(f, << >>, 0) = << >>
    <3>1. KeptOf(f, Kept(f, 0), 0) = Kept(f, 0)
      BY KeptKept
    <3> QED BY <1>4, <3>1
  <2>4. FileOf(u)' = f
    BY <1>6 DEF FileOf
  <2>5. Fragiles'[u] = 0
    BY <1>5, <2>2, <2>3, <2>4, FragilesNext, EmptySeq DEF FragilesKnown
  <2> QED BY <1>2, <2>2, <2>5, FragileGoes
<1>13. u \in DOMAIN Places' /\ Places'[u].at = -2
  BY <1>6, <1>8 DEF Places, Sequential, Connected
<1>14. Files!Reconnect(u)
  BY <1>5, <1>8, <1>9, <1>10, <1>11, <1>12, <1>13
     DEF Files!Reconnect, Files!Writing, Places, Fragiles
<1> QED BY <1>14, AbstractSteps

-----------------------------------------------------------------------------
(* WRITE goes on and ends.                                                 *)

(***************************************************************************)
(* A unit behind the records is at the end of the last, or at none.        *)
(***************************************************************************)
LEMMA SpotBehind ==
  ASSUME NEW f, NEW log \in Logs, NEW pos \in Nat, LogEnd(f, log) <= pos
  PROVE  /\ Spot(f, log, pos) \in {-1, Len(log)}
         /\ LogEnd(f, log) < pos => Spot(f, log, pos) = -1
         /\ LogEnd(f, log) = pos => Spot(f, log, pos) = Len(log)
<1>1. PICK n \in Nat : n = Len(log)
  BY EndsFacts
<1>2. PICK e : e = EndsOf(f, log)
  OBVIOUS
<1>3. /\ e \in [0 .. n -> Nat] /\ LogEnd(f, log) = e[n]
      /\ \A j, k \in 0 .. n : j < k => e[j] < e[k]
  BY <1>1, <1>2, EndsFacts, EndsGrow DEF LogEnd
<1>4. PICK at : at = Spot(f, log, pos)
  OBVIOUS
<1>5. /\ at \in {-1} \union 0 .. n /\ (at # -1 => e[at] = pos)
      /\ \A k \in 0 .. n : e[k] = pos => at = k
  BY <1>1, <1>2, <1>4, SpotFacts
<1>6. at # -1 => at = n
  <2> SUFFICES ASSUME at # -1, at # n PROVE FALSE
    OBVIOUS
  <2>1. at \in 0 .. n /\ n \in 0 .. n /\ at < n /\ e[at] = pos
    BY <1>5
  <2>2. e[at] < e[n] /\ e[n] \in Nat
    BY <1>3, <2>1
  <2> QED BY <1>3, <2>1, <2>2
<1>7. n \in 0 .. n /\ e[n] \in Nat
  BY <1>3
<1> QED BY <1>1, <1>3, <1>4, <1>5, <1>6, <1>7

\* The WRITE of a clean file is going to make a record.
LEMMA DoomedWrite ==
  ASSUME IInv, RInv, TransfersKnown, NEW u \in DOMAIN transfer, ~ Extends(u)
  PROVE  ~ clean[FileOf(u)]
<1>1. transfer[u] \in Transfers /\ WriteSound(u) /\ TransferKnown(u)
  BY TransferFacts DEF RInv, TransfersKnown
<1> QED BY <1>1 DEF Extends, WriteSound, TransferKnown, Transfers

LEMMA BusyPlace ==
  ASSUME IInv, RInv, TransfersKnown, NEW u \in DOMAIN transfer, transfer[u].mode # "direct"
  PROVE  /\ u \in DOMAIN unit /\ Sequential(u)
         /\ Files!At(u) = PlaceOf(u) /\ Files!Log(u) = records[FileOf(u)]
         /\ Files!Whole(u) = clean[FileOf(u)]
         /\ Extends(u) => PlaceOf(u) = -2
         /\ ~ Extends(u) => PlaceOf(u) = -1
<1>1. u \in DOMAIN unit /\ unit[u].access = "sequential"
  BY TransferFacts DEF TransfersKnown, TransferKnown
<1>2. Sequential(u)
  BY <1>1 DEF Sequential, Connected
<1> QED BY <1>1, <1>2, AbstractUnit, PlaceHolds DEF PlaceKnown

(***************************************************************************)
(* WRITE of an item.                                                       *)
(***************************************************************************)
LEMMA ItemSimulated ==
  ASSUME IInv, RInv, TransfersKnown, NEW u \in Unit, NEW w \in Word, WriteItem(u, w)
  PROVE  Simulated
<1>1. u \in DOMAIN transfer
  BY DEF WriteItem, Busy
<1>2. PICK f \in File : f = FileOf(u)
  BY <1>1, WriteFacts
<1>3. Apart(u) /\ Connects(u)
  BY WriteApart
<1>4. /\ transfer[u] \in Transfers /\ clean \in [File -> BOOLEAN] /\ records' = records
      /\ Fragiles' = Fragiles
  BY <1>1, TransferFacts, WriteSteady DEF RInv, WriteItem
<1>5. u \in DOMAIN transfer' => PlaceOf(u)' = IF Extends(u)' THEN -2 ELSE -1
  BY PlaceNext DEF PlaceKnown
<1>6. PlaceOf(u) = IF Extends(u) THEN -2 ELSE -1
  BY <1>1, PlaceHolds DEF PlaceKnown
<1>7. ASSUME u \in DOMAIN transfer', Extends(u)' = Extends(u), clean' = clean, NoFault \/ Fault
      PROVE  Simulated
  <2>1. PlaceOf(u)' = PlaceOf(u)
    BY <1>5, <1>6, <1>7
  <2>2. Places' = Places
    BY <1>3, <2>1, UnitGoes
  <2>3. Files!Keep
    BY <1>4, <1>7 DEF Files!Keep
  <2> QED BY <1>4, <1>7, <2>2, <2>3, UnseenSimulated
<1>8. CASE NoFault /\ UNCHANGED << transfer, clean >>
  <2>1. Extends(u)' = Extends(u)
    BY <1>8 DEF Extends
  <2> QED BY <1>1, <1>7, <1>8, <2>1
<1>9. CASE /\ IF Full(u) THEN NoFault ELSE Fault
           /\ transfer' = [transfer EXCEPT ![u].ok = FALSE]
           /\ clean' = [clean EXCEPT ![f] = @ /\ transfer[u].mode = "unformatted"]
  <2>1. /\ u \in DOMAIN transfer' /\ transfer'[u].mode = transfer[u].mode
        /\ transfer'[u].inOrder = transfer[u].inOrder /\ transfer'[u].ok = FALSE
    BY <1>1, <1>4, <1>9 DEF Transfers
  <2>2. NoFault \/ Fault
    BY <1>9
  <2>3. CASE transfer[u].mode = "unformatted"
    <3>1. Extends(u)' = Extends(u)
      BY <2>1, <2>3 DEF Extends
    <3>2. clean' = clean
      BY <1>4, <1>9, <2>3
    <3> QED BY <1>7, <2>1, <2>2, <3>1, <3>2
  <2>4. CASE transfer[u].mode = "direct"
    <3>1. Places' = Places
      <4>1. ~ Sequential(u)
        BY <1>1, <2>4 DEF TransfersKnown, TransferKnown, Sequential
      <4> QED BY <1>3, <4>1, UnitGoes
    <3>2. ~ clean[f]
      BY <1>1, <1>2, <2>4 DEF RInv, WriteSound
    <3>3. clean' = clean
      BY <1>4, <1>9, <3>2
    <3>4. Files!Keep
      BY <1>4, <3>3 DEF Files!Keep
    <3> QED BY <1>4, <2>2, <3>1, <3>4, UnseenSimulated
  <2>5. CASE transfer[u].mode = "formatted"
    <3>1. Fault /\ clean' = [clean EXCEPT ![f] = FALSE]
      BY <1>9, <2>5 DEF Full
    <3>2. ~ Extends(u)'
      BY <2>1, <2>5 DEF Extends
    <3>3. CASE ~ Extends(u)
      <4>1. ~ clean[f]
        BY <1>1, <1>2, <3>3, DoomedWrite
      <4>2. clean' = clean
        BY <1>4, <3>1, <4>1
      <4>3. Extends(u)' = Extends(u)
        BY <3>2, <3>3 DEF Extends
      <4> QED BY <1>7, <2>1, <2>2, <4>2, <4>3
    <3>4. CASE Extends(u)
      <4>1. /\ u \in DOMAIN unit /\ Sequential(u) /\ Files!At(u) = -2
            /\ Files!Log(u) = records[f]
        BY <1>1, <1>2, <2>5, <3>4, BusyPlace
      <4>2. PlaceOf(u)' = -1
        BY <1>5, <2>1, <3>2
      <4>3. Files!Go(u, -1)
        BY <1>3, <4>1, <4>2, UnitGoes
      <4>4. records' = [records EXCEPT ![f] = records[f]]
        BY <1>4 DEF RInv
      <4>5. Files!Become(u, Files!Log(u), FALSE)
        BY <1>2, <3>1, <4>1, <4>4, AbstractUnit
      <4>6. Files!Fails
        BY <3>1 DEF Fault, Files!Fails, IInv
      <4>7. Files!EndWrite(u)
        BY <1>4, <4>1, <4>3, <4>5, <4>6 DEF Files!EndWrite, Files!Writing, Files!Lost, Fragiles
      <4> QED BY <4>1, <4>7, AbstractSteps
    <3> QED BY <3>3, <3>4
  <2> QED BY <1>4, <2>3, <2>4, <2>5 DEF Transfers
<1>10. \/ NoFault /\ UNCHANGED << transfer, clean >>
       \/ /\ IF Full(u) THEN NoFault ELSE Fault
          /\ transfer' = [transfer EXCEPT ![u].ok = FALSE]
          /\ clean' = [clean EXCEPT ![f] = @ /\ transfer[u].mode = "unformatted"]
  BY <1>2 DEF WriteItem
<1> QED BY <1>8, <1>9, <1>10

\* Where a unit is when its WRITE has ended.
LEMMA FinishedPlace ==
  ASSUME IInv, RInv, TransfersKnown, NEW u \in DOMAIN transfer, NEW f, f = FileOf(u),
         NEW pos, NEW cells, Finish(u, pos, cells), NEW log, log = records'[f]
  PROVE  PlaceOf(u)' = Spot(f, log, pos)
<1>1. u \in DOMAIN unit /\ unit[u] \in Entries /\ unit[u].handle = "open"
  BY WriteFacts DEF TransfersKnown, TransferKnown
<1>2. /\ unit'[u].pos = pos /\ unit'[u].handle = "open" /\ FileOf(u)' = f
      /\ u \notin DOMAIN transfer'
  BY <1>1 DEF Finish, Entries, FileOf, Without, Restrict
<1>3. SpotOf(u)' = Spot(f, log, pos)
  BY <1>2 DEF SpotOf
<1> QED BY <1>2, <1>3, PlaceNext DEF PlaceKnown

(***************************************************************************)
(* A record more at the end.                                               *)
(***************************************************************************)
LEMMA LongerEnd ==
  ASSUME NEW f, NEW log \in Logs, NEW record \in Seq(Nat)
  PROVE  /\ Append(log, record) \in Logs /\ Len(Append(log, record)) = Len(log) + 1
         /\ SubSeq(Append(log, record), 1, Len(log)) = log
         /\ LogEnd(f, Append(log, record)) = LogEnd(f, log) + Size(f, record)
<1>1. PICK n \in Nat : n = Len(log)
  BY EndsFacts
<1>2. PICK more : more = Append(log, record)
  OBVIOUS
<1>3. /\ more \in Logs /\ Len(more) = n + 1 /\ more[n + 1] = record
      /\ \A k \in 1 .. n : more[k] = log[k]
  BY <1>1, <1>2, AppendProperties DEF Logs
<1>4. SubSeq(more, 1, n) = log
  <2>1. PICK cut : cut = SubSeq(more, 1, n)
    OBVIOUS
  <2>2. \A k \in 1 .. n : more[k] \in Seq(Nat)
    BY <1>1, <1>3, ElementOfSeq DEF Logs
  <2>3. /\ cut \in Logs /\ Len(cut) = (IF 1 <= n THEN n - 1 + 1 ELSE 0)
        /\ \A k \in 1 .. n - 1 + 1 : cut[k] = more[1 + k - 1]
    BY <2>1, <2>2, SubSeqProperties DEF Logs
  <2>4. Len(cut) = n /\ \A k \in 1 .. n : cut[k] = more[k]
    BY <2>3
  <2>5. \A k \in 1 .. Len(cut) : cut[k] = log[k]
    BY <1>3, <2>4
  <2> QED BY <1>1, <2>1, <2>3, <2>4, <2>5, SeqEqual DEF Logs
<1>5. LogEnd(f, more) = LogEnd(f, log) + Size(f, record)
  <2>1. \A k \in 0 .. n : EndsOf(f, more)[k] = EndsOf(f, log)[k]
    <3>1. n <= Len(more) /\ n <= Len(log) /\ \A k \in 1 .. n : more[k] = log[k]
      BY <1>1, <1>3
    <3> QED BY <1>3, <3>1, EndsSame
  <2>2. EndsOf(f, more)[n + 1] = EndsOf(f, more)[n] + Size(f, more[n + 1])
    <3>1. n + 1 \in 1 .. Len(more) /\ (n + 1) - 1 = n
      BY <1>3
    <3>2. EndsOf(f, more)[n + 1] = EndsOf(f, more)[(n + 1) - 1] + Size(f, more[n + 1])
      BY <1>3, <3>1, EndsFacts
    <3> QED BY <3>1, <3>2
  <2>3. n \in 0 .. n
    OBVIOUS
  <2> QED BY <1>1, <1>3, <2>1, <2>2, <2>3 DEF LogEnd
<1> QED BY <1>1, <1>2, <1>3, <1>4, <1>5

(***************************************************************************)
(* The end of a WRITE that left no record.                                 *)
(***************************************************************************)
LEMMA UnrecordedSimulated ==
  ASSUME IInv, RInv, TransfersKnown, NEW u \in DOMAIN transfer, transfer[u].mode # "direct",
         Apart(u), Connects(u), Unrecorded(u), Fragiles' = Fragiles,
         NEW pos \in Nat, NEW cells, Finish(u, pos, cells), Base(u) <= pos,
         Fault \/ (NoFault /\ ~ Extends(u) /\ Base(u) < pos)
  PROVE  Simulated
<1>1. PICK f \in File : f = FileOf(u)
  BY WriteFacts
<1>2. PICK log \in Logs : log = records[f]
  BY HistoryFacts
<1>3. records' = records /\ clean' = [clean EXCEPT ![f] = FALSE]
  BY <1>1 DEF Unrecorded
<1>4. PICK end \in Nat : end = LogEnd(f, log)
  BY LogEndFacts
<1>5. PICK base \in Nat : base = Base(u)
  BY <1>1, WriteFacts
<1>6. end <= base
  BY <1>1, <1>2, <1>4, <1>5 DEF RInv, WriteSound, Base
<1>7. PICK n \in Nat : n = Len(log)
  BY EndsFacts
<1>8. PICK at : at = Spot(f, log, pos)
  OBVIOUS
<1>9. at \in {-1, n} /\ (end < pos => at = -1)
  <2>1. LogEnd(f, log) <= pos
    BY <1>4, <1>5, <1>6
  <2> QED BY <1>4, <1>7, <1>8, <2>1, SpotBehind
<1>10. PlaceOf(u)' = at
  <2>1. records'[f] = log
    BY <1>2, <1>3
  <2> QED BY <1>1, <1>8, <2>1, FinishedPlace
<1>11. /\ u \in DOMAIN unit /\ Sequential(u)
       /\ Files!At(u) = PlaceOf(u) /\ Files!Log(u) = log
       /\ Extends(u) => PlaceOf(u) = -2
       /\ ~ Extends(u) => PlaceOf(u) = -1
  BY <1>1, <1>2, BusyPlace
<1>12. Files!Go(u, at)
  BY <1>10, <1>11, UnitGoes
<1>13. Fault => Files!Fails
  BY DEF Fault, Files!Fails, IInv
<1>14. CASE Extends(u)
  <2>1. records' = [records EXCEPT ![f] = log]
    BY <1>2, <1>3 DEF RInv
  <2>2. Files!Become(u, Files!Log(u), FALSE)
    BY <1>1, <1>3, <1>11, <2>1, AbstractUnit
  <2>3. Files!At(u) = -2 /\ Files!Fails /\ at \in {-1, Len(Files!Log(u))}
    BY <1>7, <1>9, <1>11, <1>13, <1>14
  <2>4. Files!EndWrite(u)
    BY <1>12, <2>2, <2>3 DEF Files!EndWrite, Files!Writing, Files!Lost, Fragiles
  <2> QED BY <1>11, <2>4, AbstractSteps
<1>15. CASE ~ Extends(u)
  <2>1. ~ clean[f]
    BY <1>1, <1>15, DoomedWrite
  <2>2. clean' = clean
    BY <1>3, <2>1 DEF RInv
  <2>3. Files!Keep
    BY <1>3, <2>2 DEF Files!Keep
  <2>4. CASE Fault
    <3>1. at \in {-1} \union (0 .. Len(Files!Log(u))) /\ Files!At(u) = -1 /\ Files!Fails
      BY <1>7, <1>9, <1>11, <1>13, <1>15, <2>4
    <3>2. Files!At(u) # -2 /\ Files!Fails
      BY <3>1
    <3>3. at \in Files!Anywhere(u)
      BY <3>1 DEF Files!Anywhere, Files!Lost
    <3>4. Files!Stray(u)
      BY <1>12, <2>3, <3>1, <3>2, <3>3 DEF Files!Stray, Files!Writing, Files!Lost, Fragiles
    <3> QED BY <1>11, <3>4, AbstractSteps
  <2>5. CASE NoFault /\ Base(u) < pos
    <3>1. at = -1
      BY <1>5, <1>6, <1>9, <2>5
    <3>2. PlaceOf(u)' = PlaceOf(u)
      BY <1>10, <1>11, <1>15, <3>1
    <3>3. Places' = Places
      BY <1>11, <3>2, UnitGoes
    <3> QED BY <2>3, <2>5, <3>3, UnseenSimulated
  <2> QED BY <2>4, <2>5
<1> QED BY <1>14, <1>15

(***************************************************************************)
(* The end of a WRITE that left one, if it was in order.                   *)
(***************************************************************************)
LEMMA RecordedSimulated ==
  ASSUME IInv, RInv, TransfersKnown, NEW u \in DOMAIN transfer, transfer[u].mode # "direct",
         Apart(u), Connects(u), Recorded(u), Fragiles' = Fragiles, transfer[u].mode = "formatted" => transfer[u].ok,
         NEW cells, Finish(u, unit[u].pos + 1, cells)
  PROVE  Simulated
<1>1. PICK f \in File : f = FileOf(u)
  BY WriteFacts
<1>2. PICK log \in Logs : log = records[f]
  BY HistoryFacts
<1>3. PICK pos \in Nat : pos = unit[u].pos
  BY <1>1, WriteFacts
<1>4. PICK start \in Nat : start = transfer[u].start /\ start <= pos
  BY <1>1, <1>3, WriteFacts
<1>5. PICK end \in Nat : end = LogEnd(f, log)
  BY LogEndFacts
<1>6. PICK base \in Nat : base = Base(u) /\ base <= start
  BY <1>1, <1>4, WriteFacts
<1>7. end <= base /\ (transfer[u].inOrder => end = base)
  BY <1>1, <1>2, <1>5, <1>6 DEF RInv, WriteSound, Base
<1>8. PICK n \in Nat : n = Len(log)
  BY EndsFacts
<1>9. /\ u \in DOMAIN unit /\ Sequential(u)
      /\ Files!At(u) = PlaceOf(u) /\ Files!Log(u) = log
      /\ Files!Whole(u) = clean[f]
      /\ Extends(u) => PlaceOf(u) = -2
      /\ ~ Extends(u) => PlaceOf(u) = -1
  BY <1>1, <1>2, BusyPlace
<1>10. Extends(u) <=> transfer[u].inOrder
  <2>1. transfer[u] \in Transfers
    BY TransferFacts
  <2> QED BY <2>1 DEF Extends, Transfers
<1>11. clean' = clean /\ NoFault
  BY DEF Recorded
<1>12. CASE ~ transfer[u].inOrder
  <2>1. records' = records
    BY <1>1, <1>12 DEF Recorded, RInv
  <2>2. PICK next \in Nat : next = pos + 1
    OBVIOUS
  <2>3. Spot(f, log, next) = -1
    <3>1. LogEnd(f, log) <= next /\ LogEnd(f, log) < next
      BY <1>4, <1>5, <1>6, <1>7, <2>2
    <3> QED BY <3>1, SpotBehind
  <2>4. PlaceOf(u)' = Spot(f, log, next)
    <3>1. log = records'[f] /\ Finish(u, next, cells)
      BY <1>2, <1>3, <2>1, <2>2
    <3> QED BY <1>1, <3>1, FinishedPlace
  <2>5. PlaceOf(u)' = PlaceOf(u)
    BY <1>9, <1>10, <1>12, <2>3, <2>4
  <2>6. Places' = Places
    BY <1>9, <2>5, UnitGoes
  <2>7. Files!Keep
    BY <1>11, <2>1 DEF Files!Keep
  <2> QED BY <1>11, <2>6, <2>7, UnseenSimulated
<1>13. CASE transfer[u].inOrder
  <2>1. PICK record : record = SubSeq(Cells(u), transfer[u].start + 1, unit[u].pos)
    OBVIOUS
  <2>2. record \in Seq(Nat) /\ Len(record) = pos - start
    BY <1>1, <1>3, <1>4, <1>13, <2>1, PayloadFacts
  <2>3. PICK more : more = Append(log, record)
    OBVIOUS
  <2>4. /\ more \in Logs /\ Len(more) = n + 1 /\ SubSeq(more, 1, n) = log
        /\ LogEnd(f, more) = end + Size(f, record)
    BY <1>5, <1>8, <2>2, <2>3, LongerEnd
  <2>5. records' = [records EXCEPT ![f] = more]
    BY <1>1, <1>2, <1>13, <2>1, <2>3 DEF Recorded
  <2>6. PICK next \in Nat : next = pos + 1
    OBVIOUS
  <2>7. LogEnd(f, more) = next
    <3>1. transfer[u].mode = FormOf[f] /\ transfer[u].mode \in {"formatted", "unformatted"}
      <4>1. transfer[u] \in Transfers
        BY TransferFacts
      <4> QED BY <1>1, <4>1 DEF RInv, WriteSound, Transfers
    <3>2. CASE FormOf[f] = "formatted"
      BY <1>4, <1>6, <1>7, <1>13, <2>2, <2>4, <2>6, <3>1, <3>2 DEF Size, Base
    <3>3. CASE FormOf[f] # "formatted"
      <4>1. base = start - 1
        BY <1>4, <1>6, <3>1, <3>3 DEF Base
      <4>2. Size(f, record) = (pos - start) + 2
        BY <2>2, <3>3 DEF Size
      <4> QED BY <1>4, <1>7, <1>13, <2>4, <2>6, <4>1, <4>2
    <3> QED BY <3>2, <3>3
  <2>8. Spot(f, more, next) = n + 1
    BY <2>4, <2>7, SpotBehind
  <2>9. PlaceOf(u)' = Spot(f, more, next)
    <3>1. more = records'[f]
      BY <2>5 DEF RInv
    <3>2. Finish(u, next, cells)
      BY <1>3, <2>6
    <3> QED BY <1>1, <3>1, <3>2, FinishedPlace
  <2>10. Files!Go(u, Len(Files!Log(u)) + 1)
    <3>1. PlaceOf(u)' = Len(Files!Log(u)) + 1
      BY <1>8, <1>9, <2>8, <2>9
    <3> QED BY <1>9, <3>1, UnitGoes
  <2>11. Places[u].file = f
    <3>1. Places[u] = [file |-> FileOf(u), at |-> PlaceOf(u)]
      BY <1>9 DEF Places
    <3> QED BY <1>1, <3>1
  <2>12. PICK whole \in BOOLEAN : whole = clean[f]
    BY HistoryFacts
  <2>13. clean' = [clean EXCEPT ![f] = whole]
    BY <1>11, <2>12 DEF RInv
  <2>14. Files!Become(u, more, whole)
    BY <1>1, <1>9, <2>5, <2>13, AbstractUnit
  <2>15. Files!Succeeds
    BY <1>11 DEF NoFault, Files!Succeeds
  <2>16. records'[f] = more
    BY <2>5 DEF RInv
  <2>17. whole = Files!Whole(u) /\ Files!At(u) = -2
    BY <1>9, <1>10, <1>13, <2>12
  <2>18. Files!EndWrite(u)
    BY <1>8, <1>9, <2>4, <2>10, <2>11, <2>14, <2>15, <2>16, <2>17
       DEF Files!EndWrite, Files!Writing, Places, Fragiles
  <2> QED BY <1>9, <2>18, AbstractSteps
<1> QED BY <1>12, <1>13

(***************************************************************************)
(* The end of a WRITE.                                                     *)
(***************************************************************************)
LEMMA EndFormattedSimulated ==
  ASSUME IInv, RInv, TransfersKnown, NEW u \in Unit, EndFormatted(u)
  PROVE  Simulated
<1>1. u \in DOMAIN transfer /\ transfer[u].mode = "formatted" /\ transfer[u].mode # "direct"
  BY DEF EndFormatted, Writing, Busy
<1>2. Apart(u) /\ Connects(u)
  BY WriteApart
<1>3. Fragiles' = Fragiles
  BY WriteSteady
<1>4. PICK pos \in Nat : pos = unit[u].pos
  BY <1>1, WriteFacts
<1>5. PICK base \in Nat : base = Base(u) /\ base <= pos
  BY <1>1, <1>4, WriteFacts
<1>6. CASE Recorded(u) /\ transfer[u].ok /\ \E cells : Finish(u, unit[u].pos + 1, cells)
  <2>1. PICK cells : Finish(u, unit[u].pos + 1, cells)
    BY <1>6
  <2> QED BY <1>1, <1>2, <1>6, <2>1, <1>3, RecordedSimulated
<1>7. CASE NoFault /\ ~ transfer[u].ok /\ Unrecorded(u)
           /\ \E cells : Finish(u, unit[u].pos + 1, cells)
  <2>1. PICK cells : Finish(u, unit[u].pos + 1, cells)
    BY <1>7
  <2>2. PICK next \in Nat : next = pos + 1
    OBVIOUS
  <2>3. Finish(u, next, cells) /\ Base(u) <= next /\ Base(u) < next
    BY <1>4, <1>5, <2>1, <2>2
  <2>4. ~ Extends(u)
    BY <1>1, <1>7 DEF Extends
  <2> QED BY <1>1, <1>2, <1>7, <2>3, <2>4, <1>3, UnrecordedSimulated
<1>8. CASE Fault /\ Unrecorded(u) /\ \E cells : Finish(u, unit[u].pos, cells)
  <2>1. PICK cells : Finish(u, pos, cells)
    BY <1>4, <1>8
  <2>2. Base(u) <= pos
    BY <1>5
  <2> QED BY <1>1, <1>2, <1>8, <2>1, <2>2, <1>3, UnrecordedSimulated
<1> QED BY <1>6, <1>7, <1>8 DEF EndFormatted

LEMMA EndUnformattedSimulated ==
  ASSUME IInv, RInv, TransfersKnown, NEW u \in Unit, EndUnformatted(u)
  PROVE  Simulated
<1>1. u \in DOMAIN transfer /\ transfer[u].mode = "unformatted"
  BY DEF EndUnformatted, Writing, Busy
<1>2. transfer[u].mode # "direct" /\ (transfer[u].mode = "formatted" => transfer[u].ok)
  BY <1>1
<1>3. Apart(u) /\ Connects(u)
  BY WriteApart
<1>4. Fragiles' = Fragiles
  BY WriteSteady
<1>5. PICK base \in Nat : base = Base(u) /\ base <= unit[u].pos
  BY <1>1, WriteFacts
<1>6. PICK pos \in Nat : pos = unit[u].pos
  BY <1>1, WriteFacts
<1>7. CASE Recorded(u) /\ \E cells : Finish(u, unit[u].pos + 1, cells)
  <2>1. PICK cells : Finish(u, unit[u].pos + 1, cells)
    BY <1>7
  <2> QED BY <1>1, <1>2, <1>3, <1>7, <2>1, <1>4, RecordedSimulated
<1>8. CASE /\ Fault /\ Unrecorded(u)
           /\ \E cells : Finish(u, unit[u].pos, cells) \/ Finish(u, transfer[u].start - 1, cells)
  <2>1. PICK cells : Finish(u, unit[u].pos, cells) \/ Finish(u, transfer[u].start - 1, cells)
    BY <1>8
  <2>2. CASE Finish(u, unit[u].pos, cells)
    <3>1. Finish(u, pos, cells) /\ Base(u) <= pos
      BY <1>5, <1>6, <2>2
    <3> QED BY <1>1, <1>2, <1>3, <1>8, <3>1, <1>4, UnrecordedSimulated
  <2>3. CASE Finish(u, transfer[u].start - 1, cells)
    <3>1. Finish(u, base, cells) /\ Base(u) <= base
      BY <1>1, <1>5, <2>3 DEF Base
    <3> QED BY <1>1, <1>2, <1>3, <1>8, <3>1, <1>4, UnrecordedSimulated
  <2> QED BY <2>1, <2>2, <2>3
<1> QED BY <1>7, <1>8 DEF EndUnformatted

LEMMA EndDirectSimulated ==
  ASSUME IInv, RInv, TransfersKnown, NEW u \in Unit, EndDirect(u)
  PROVE  Simulated
<1>1. u \in DOMAIN transfer /\ transfer[u].mode = "direct"
  BY DEF EndDirect, Writing, Busy
<1>2. Apart(u) /\ Connects(u)
  BY WriteApart
<1>3. Fragiles' = Fragiles
  BY WriteSteady
<1>4. ~ Sequential(u)
  BY <1>1 DEF TransfersKnown, TransferKnown, Sequential
<1>5. Places' = Places
  BY <1>2, <1>4, UnitGoes
<1>6. Files!Keep /\ (NoFault \/ Fault)
  BY DEF EndDirect, Files!Keep
<1> QED BY <1>5, <1>6, <1>3, UnseenSimulated

-----------------------------------------------------------------------------
(* The buffer is lost.                                                     *)

(***************************************************************************)
(* A buffer that cannot be written out takes records from the end of the   *)
(* file, and none that is before the buffer.                               *)
(***************************************************************************)
LEMMA DropLoses ==
  ASSUME IInv, RInv, NEW u \in DOMAIN buffer, NEW m, Drop(u, m), Fault,
         NEW f, f = FileOf(u)
  PROVE  /\ u \in DOMAIN unit /\ Sequential(u) /\ f \in File /\ m \in Nat
         /\ \E n \in Nat : /\ CutAt(f, m, n) /\ n \in 0 .. Len(Files!Log(u))
                          /\ Files!Loses(u, n)
<1>1. /\ u \in DOMAIN unit /\ f \in File /\ m \in Nat
      /\ m \in buffer[u].from .. unit[u].pos
  BY DropFacts
<1>2. Sequential(u) /\ buffer[u].from \in Nat /\ buffer[u].from <= m
  BY <1>1 DEF IInv, BufferSound, Sequential
<1>3. PICK n \in Nat : CutAt(f, m, n)
  BY <1>1, CutPlace
<1>4. PICK kept : kept = Kept(f, m)
  OBVIOUS
<1>5. PICK log \in Logs : log = records[f]
  BY <1>1, HistoryFacts
<1>6. n \in 0 .. Len(log) /\ kept = SubSeq(log, 1, n) /\ Len(kept) = n /\ kept \in Logs
  BY <1>3, <1>4, <1>5 DEF CutAt
<1>7. PICK first : first = Fragiles[u]
  OBVIOUS
<1>8. u \in DOMAIN Fragiles /\ first = Len(KeptOf(f, log, buffer[u].from))
  BY <1>1, <1>5, <1>7, FragilesHold DEF FragilesKnown
<1>9. first \in 0 .. n
  <2>1. KeptOf(f, kept, buffer[u].from) = KeptOf(f, log, buffer[u].from)
    <3>1. KeptOf(f, kept, buffer[u].from) = Kept(f, buffer[u].from)
      BY <1>1, <1>2, <1>4, KeptKept
    <3>2. Kept(f, buffer[u].from) = KeptOf(f, log, buffer[u].from)
      BY <1>1, <1>5, HistoryFacts
    <3> QED BY <3>1, <3>2
  <2>2. PICK k \in 0 .. Len(kept) :
          KeptAt(f, kept, KeptOf(f, kept, buffer[u].from), k, buffer[u].from)
    BY <1>2, <1>6, KeptFacts
  <2>3. Len(KeptOf(f, kept, buffer[u].from)) = k
    BY <2>2 DEF KeptAt
  <2> QED BY <1>6, <1>8, <2>1, <2>2, <2>3
<1>10. Files!Log(u) = log
  BY <1>1, <1>2, <1>5, AbstractUnit
<1>11. Files!Become(u, kept, FALSE)
  BY <1>1, <1>2, <1>4, AbstractUnit DEF Drop, Cut
<1>12. Files!Fails
  BY DEF Fault, Files!Fails, IInv
<1>13. n \in first .. Len(log)
  BY <1>6, <1>9
<1>14. Files!Loses(u, n)
  BY <1>6, <1>7, <1>8, <1>10, <1>11, <1>12, <1>13 DEF Files!Loses, Fragiles
<1> QED BY <1>1, <1>2, <1>3, <1>5, <1>6, <1>10, <1>14

LEMMA LoseSimulated ==
  ASSUME IInv, RInv, NEW u \in DOMAIN buffer, NEW m, DropTo(u, m), Fault, OwnTransfer(u),
         u \in DOMAIN transfer' => ~ Extends(u)'
  PROVE  Simulated
<1>1. PICK f : f = FileOf(u)
  OBVIOUS
<1>2. Drop(u, m) /\ Apart(u) /\ Connects(u)
  BY DropToApart DEF DropTo
<1>3. u \in DOMAIN unit /\ Sequential(u) /\ f \in File /\ m \in Nat
  BY <1>1, <1>2, DropLoses
<1>4. PICK n \in Nat : CutAt(f, m, n) /\ n \in 0 .. Len(Files!Log(u)) /\ Files!Loses(u, n)
  BY <1>1, <1>2, DropLoses
<1>5. PICK log : log = records[f]
  OBVIOUS
<1>6. PICK kept : kept = Kept(f, m)
  OBVIOUS
<1>7. Len(kept) = n /\ Spot(f, kept, m) \in {-1, n}
  BY <1>4, <1>6 DEF CutAt
<1>8. FileOf(u)' = f /\ records'[f] = kept
  BY <1>1, <1>2, <1>3, <1>6 DEF Connects, FileOf, Drop, Cut, RInv
<1>9. unit'[u].pos = m /\ u \in DOMAIN buffer' /\ buffer'[u].from = m
  <2>1. unit[u] \in Entries
    BY <1>3, UnitFacts
  <2> QED BY <1>3, <2>1 DEF DropTo, Position, Buffered, Entries
<1>10. PICK k : k = PlaceOf(u)'
  OBVIOUS
<1>11. k \in {-1, n}
  <2>1. SpotOf(u)' \in {-1, n}
    BY <1>7, <1>8, <1>9 DEF SpotOf
  <2> QED BY <1>10, <2>1, PlaceNext DEF PlaceKnown
<1>12. Files!Go(u, k)
  BY <1>2, <1>3, <1>10, UnitGoes
<1>13. Files!Fragile(u, n)
  <2>1. KeptOf(f, kept, m) = kept
    BY <1>3, <1>6, KeptKept
  <2>2. Fragiles'[u] = n
    BY <1>7, <1>8, <1>9, <2>1, FragilesNext DEF FragilesKnown
  <2> QED BY <1>2, <1>9, <2>2, FragileGoes
<1>14. Files!Lose(u)
  BY <1>4, <1>11, <1>12, <1>13 DEF Files!Lose, Files!Lost
<1> QED BY <1>3, <1>14, AbstractSteps

LEMMA FlushSimulated ==
  ASSUME IInv, RInv, NEW u, FlushFails(u), u \notin DOMAIN transfer
  PROVE  Simulated
<1>1. PICK m : DropTo(u, m)
  BY DEF FlushFails
<1>2. u \in DOMAIN buffer /\ Fault /\ OwnTransfer(u) /\ u \notin DOMAIN transfer'
  BY DEF FlushFails, OwnTransfer
<1> QED BY <1>1, <1>2, LoseSimulated

LEMMA OutputLostSimulated ==
  ASSUME IInv, RInv, NEW u \in Unit, OutputLost(u)
  PROVE  Simulated
<1>1. PICK m :
        /\ DropTo(u, m)
        /\ transfer' \in {Without(transfer, u),
                         [transfer EXCEPT ![u].ok = FALSE, ![u].inOrder = FALSE,
                                          ![u].start = IF m < @ THEN m ELSE @]}
  BY DEF OutputLost
<1>2. u \in DOMAIN buffer /\ Fault /\ u \in DOMAIN transfer /\ transfer[u] \in Transfers
  BY TransferFacts DEF OutputLost, Writing, Busy
<1>3. OwnTransfer(u)
  BY <1>1 DEF OwnTransfer, Without, Restrict
<1>4. u \in DOMAIN transfer' => ~ Extends(u)'
  <2>1. CASE transfer' = Without(transfer, u)
    BY <2>1 DEF Without, Restrict
  <2>2. CASE transfer' = [transfer EXCEPT ![u].ok = FALSE, ![u].inOrder = FALSE,
                                          ![u].start = IF m < @ THEN m ELSE @]
    <3>1. transfer'[u].inOrder = FALSE
      BY <1>2, <2>2 DEF Transfers
    <3> QED BY <3>1 DEF Extends
  <2> QED BY <1>1, <2>1, <2>2
<1> QED BY <1>1, <1>2, <1>3, <1>4, LoseSimulated

LEMMA SeversSimulated ==
  ASSUME IInv, RInv, NEW u \in Unit, Severs(u)
  PROVE  Simulated
<1>1. PICK f : f = FileOf(u)
  OBVIOUS
<1>2. PICK m : Drop(u, m)
  BY DEF Severs, CloseLoses
<1>3. u \in DOMAIN buffer /\ Fault /\ unit' = Without(unit, u) /\ Drained(u)
  BY DrainedIf DEF Severs, CloseLoses
<1>4. u \in DOMAIN unit /\ Sequential(u)
  BY <1>1, <1>2, <1>3, DropLoses
<1>5. PICK n \in Nat : n \in 0 .. Len(Files!Log(u)) /\ Files!Loses(u, n)
  BY <1>1, <1>2, <1>3, DropLoses
<1>6. Apart(u)
  BY SeversApart
<1>7. Places' = [v \in Files!Others(u) |-> Places[v]]
  <2>1. u \notin DOMAIN Places'
    BY <1>3 DEF Places, Without, Restrict
  <2>2. DOMAIN Places' = DOMAIN Places \ {u}
    BY <1>6, <2>1, OtherPlaces
  <2>3. Places' = [v \in DOMAIN Places' |-> Places'[v]]
    BY DEF Places
  <2>4. \A v \in DOMAIN Places \ {u} : Places'[v] = Places[v]
    BY <1>6, OtherPlaces
  <2>5. Places' = [v \in DOMAIN Places \ {u} |-> Places[v]]
    BY <2>2, <2>3, <2>4
  <2>6. Files!Others(u) = DOMAIN Places \ {u}
    BY DEF Files!Others, Places
  <2> QED BY <2>5, <2>6
<1>8. Files!Secured(u)
  BY <1>3, <1>6, FragileGoes
<1>9. Files!Disconnect(u)
  BY <1>5, <1>7, <1>8 DEF Files!Disconnect, Places
<1> QED BY <1>4, <1>9, AbstractSteps

-----------------------------------------------------------------------------
(* The runtime implements files of records.                                *)

LEMMA PlacesInit == Init => Files!Init
<1> SUFFICES ASSUME Init PROVE Files!Init
  OBVIOUS
<1>1. DOMAIN unit = {}
  BY DEF Init
<1>2. DOMAIN Places = {}
  BY <1>1 DEF Places
<1>3. Places = << >>
  <2>1. Places = [v \in DOMAIN Places |-> Places[v]]
    BY DEF Places
  <2> QED BY <1>2, <2>1
<1>4. Fragiles = << >>
  <2>1. DOMAIN Fragiles = {} /\ Fragiles = [v \in DOMAIN Fragiles |-> Fragiles[v]]
    BY FragilesHold DEF Init, FragilesKnown
  <2> QED BY <2>1
<1> QED BY <1>3, <1>4 DEF Init, Files!Init, Places, Fragiles

LEMMA StepSimulated == IInv /\ RInv /\ TransfersKnown /\ [Next]_vars => Simulated
<1> SUFFICES ASSUME IInv, RInv, TransfersKnown, [Next]_vars PROVE Simulated
  OBVIOUS
<1>1. CASE UNCHANGED vars
  <2>1. UNCHANGED << unit, transfer, buffer, records, clean, faults >>
    BY <1>1 DEF vars, history
  <2>2. Fragiles' = Fragiles
    BY <2>1 DEF Fragiles, Kept, Ends, FileOf
  <2> QED BY <2>1, <2>2, SamePlaces DEF Simulated
<1>2. CASE Next
  <2>1. PICK u \in Unit : Control(u) \/ Read(u) \/ Write(u)
    BY <1>2 DEF Next
  <2>2. CASE FlushFails(u) /\ u \notin DOMAIN transfer
    BY <2>2, FlushSimulated
  <2>3. CASE Control(u) /\ ~ FlushFails(u)
    <3>1. CASE Settles(u) \/ Severs(u)
      BY <3>1, SettlesSimulated, SeversSimulated
    <3>2. CASE ~ (Settles(u) \/ Severs(u))
      <4>1. \/ Rewind(u) \/ Backspace(u) \/ BackspaceFails(u) \/ Inquire(u)
            \/ EndfileAbandoned(u) \/ EndfileDetached(u) \/ Endfile(u) \/ EndfileLoses(u)
        BY <2>3, <3>2, ControlSettles
      <4> QED BY <2>3, <4>1, RewindSimulated, BackspaceSimulated, StraysSimulated,
                 EndfileSimulated
    <3> QED BY <3>1, <3>2
  <2>4. CASE Read(u) /\ ~ FlushFails(u)
    BY <2>4, ReadSimulated, ReadImplicitlySimulated
  <2>5. CASE Write(u)
    BY <2>5, BeginSimulated, BeginImplicitlySimulated, BeginDirectSimulated, ItemSimulated,
       OutputLostSimulated, EndFormattedSimulated, EndUnformattedSimulated, EndDirectSimulated
       DEF Write
  <2>6. Control(u) \/ Read(u) => u \notin DOMAIN transfer
    BY Idle
  <2> QED BY <2>1, <2>2, <2>3, <2>4, <2>5, <2>6
<1> QED BY <1>1, <1>2

(***************************************************************************)
(* The runtime, with its bytes, markers, positions and buffers and with    *)
(* any calls that fail, implements files of records: every statement and   *)
(* every part of a WRITE does to the records, and to the place of each     *)
(* unit between them, what the program may expect of it.  But for that of  *)
(* an ENDFILE, a failure takes no record that was complete when its unit   *)
(* was last positioned, read or connected.                                 *)
(***************************************************************************)
THEOREM FilesImplemented == Spec => ImplementsSequentialFile
<1>1. Spec => [](IInv /\ RInv /\ TransfersKnown)
  BY Histories, TransfersInit, TransfersStep, PTL DEF Spec
<1>2. Simulated => [Files!Next]_(Files!vars)
  BY DEF Simulated, Files!vars, Places, Fragiles
<1> QED BY <1>1, <1>2, PlacesInit, StepSimulated, PTL
        DEF Spec, ImplementsSequentialFile, Files!Spec
=============================================================================

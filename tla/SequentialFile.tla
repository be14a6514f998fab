--------------------------- MODULE SequentialFile ---------------------------
(***************************************************************************)
(* What a program may rely on when it uses sequential files: a file is a   *)
(* sequence of records, a connected unit is between two of them.  There    *)
(* are no bytes here, no markers and no newlines.                          *)
(*                                                                         *)
(* A WRITE that follows records which are not the last makes the rest of   *)
(* the file unspecified: the file is no longer whole.  So do failures.  In *)
(* a file that is not whole a unit may be lost, at no record the program   *)
(* knows of, until it is rewound.                                          *)
(*                                                                         *)
(* A failing statement may take records from the end of a file, but of the *)
(* complete ones only those that were written since the unit was last      *)
(* positioned, read or connected: the unit is fragile until it is again.   *)
(* Only an ENDFILE that fails may take any.                                *)
(***************************************************************************)
EXTENDS Integers, Sequences

CONSTANTS Unit, File, FormOf

VARIABLES
  records,  \* the records a file starts with
  whole,    \* does the file hold nothing else?
  place,    \* the file of each connected unit, and the records before it
  fragile,  \* of each fragile unit, how many records a failure cannot take
  failures  \* library calls that failed

vars == << records, whole, place, fragile, failures >>

Lost == -1     \* place[u].at: at no known record
Writing == -2  \* place[u].at: in the middle of a new last record

At(u) == place[u].at
Log(u) == records[place[u].file]
Whole(u) == whole[place[u].file]

Go(u, k) == place' = [place EXCEPT ![u].at = k]
Keep == UNCHANGED << records, whole >>
Secured(u) == fragile' = [v \in DOMAIN fragile \ {u} |-> fragile[v]]
Fragile(u, n) ==
  fragile' = [v \in DOMAIN fragile \union {u} |-> IF v = u THEN n ELSE fragile[v]]
Fails == failures' > failures
Succeeds == UNCHANGED failures
Become(u, log, isWhole) ==
  /\ records' = [records EXCEPT ![place[u].file] = log]
  /\ whole' = [whole EXCEPT ![place[u].file] = isWhole]

Init ==
  /\ records = [f \in File |-> << >>]
  /\ whole = [f \in File |-> TRUE]
  /\ place = << >> /\ fragile = << >>
  /\ failures = 0

-----------------------------------------------------------------------------
\* OPEN and CLOSE: units come and go, files stay as they are or are emptied.
Others(u) == DOMAIN place \ {u}
Reconnect(u) ==
  /\ \A f \in File :
       \/ records'[f] = records[f] /\ whole'[f] = whole[f]
       \/ records'[f] = << >> /\ \A v \in Others(u) : place[v].file # f
  /\ LET now == place' IN
     /\ Others(u) \subseteq DOMAIN now /\ \A v \in Others(u) : now[v] = place[v]
     /\ DOMAIN now \subseteq Others(u) \union {u}
     /\ u \in DOMAIN now =>
          LET f == now[u].file
              k == now[u].at IN
          /\ \A v \in Others(u) : place[v].file # f
          /\ \/ k \in {0, Len(records'[f])}
             \/ k = Lost /\ ~ whole'[f]
             \/ k = Writing /\ records'[f] = << >>
  /\ \/ Secured(u)
     \/ u \in DOMAIN place' /\ place'[u].at = Writing /\ Fragile(u, 0)

\* A direct connection writes to the file: some records are overwritten.
Overwrite(f) ==
  /\ \A u \in DOMAIN place : place[u].file # f
  /\ \E n \in 0 .. Len(records[f]) :
       records' = [records EXCEPT ![f] = SubSeq(@, 1, n)]
  /\ whole' = [whole EXCEPT ![f] = FALSE]
  /\ UNCHANGED << place, fragile >>

\* A call fails and nothing comes of it.
Fail == Fails /\ Keep /\ UNCHANGED << place, fragile >>

\* A call fails and takes the last records: of a statement that goes no
\* further, or of the one that closes the unit.
Loses(u, n) ==
  /\ u \in DOMAIN fragile /\ n \in fragile[u] .. Len(Log(u)) /\ Fails
  /\ Become(u, SubSeq(Log(u), 1, n), FALSE)
Lose(u) ==
  \E n \in 0 .. Len(Log(u)) :
    /\ Loses(u, n)
    /\ \E k \in {n, Lost} : Go(u, k)
    /\ Fragile(u, n)
Disconnect(u) ==
  /\ \E n \in 0 .. Len(Log(u)) : Loses(u, n)
  /\ place' = [v \in Others(u) |-> place[v]]
  /\ Secured(u)

Anywhere(u) == {Lost} \union (0 .. Len(Log(u)))

\* A statement that moves the unit fails on the way, or a lost one writes.
Stray(u) ==
  /\ At(u) # Writing /\ Keep
  /\ \E k \in Anywhere(u) : Go(u, k)
  /\ \/ Fails /\ Secured(u)
     \/ At(u) = Lost /\ (Fails \/ Succeeds) /\ UNCHANGED fragile

Rewind(u) == At(u) # Writing /\ Go(u, 0) /\ Keep /\ Succeeds /\ Secured(u)

Inquire(u) == At(u) # Writing /\ UNCHANGED place /\ Keep /\ Succeeds /\ Secured(u)

\* Back by one record.  A formatted file that starts with an empty record
\* cannot be backspaced over it.
Backspace(u) ==
  /\ At(u) # Writing
  /\ \/ At(u) = 0 /\ Go(u, 0)
     \/ At(u) > 0 /\ Go(u, At(u) - 1)
     \/ /\ At(u) = 1 /\ Log(u)[1] = << >> /\ FormOf[place[u].file] = "formatted"
        /\ Go(u, 1)
     \/ At(u) = Lost /\ \E k \in Anywhere(u) : Go(u, k)
  /\ Keep /\ Succeeds /\ Secured(u)

\* The file ends here.  If that fails, records may be lost from its end.
Endfile(u) ==
  LET Ends(n, isWhole) == Become(u, SubSeq(Log(u), 1, n), isWhole) IN
  /\ Secured(u)
  /\ \/ At(u) >= 0 /\ Ends(At(u), TRUE) /\ UNCHANGED place /\ Succeeds
     \/ /\ At(u) = Lost /\ Succeeds
        /\ \/ UNCHANGED place /\ \E n \in 0 .. Len(Log(u)) : Ends(n, FALSE)
           \/ Keep /\ \E k \in Anywhere(u) : Go(u, k)
     \/ /\ At(u) # Writing /\ Fails
        /\ \E n \in 0 .. Len(Log(u)) : Ends(n, FALSE) /\ \E k \in {n, Lost} : Go(u, k)

-----------------------------------------------------------------------------
\* Where a READ at place k of a file may go: to the next record, nowhere at
\* the end of the file, astray behind the records the file starts with.
Following(log, isWhole, k) ==
  CASE k \in 0 .. Len(log) - 1 -> {k + 1}
    [] k = Len(log) -> IF isWhole THEN {k} ELSE {k, Lost}
    [] k = Lost -> {Lost} \union (0 .. Len(log))

Read(u) ==
  /\ At(u) # Writing /\ Keep /\ Succeeds /\ Secured(u)
  /\ \E k \in Following(Log(u), Whole(u), At(u)) : Go(u, k)

\* One that connects the unit first.
OpenAndRead(u) ==
  /\ Keep /\ Succeeds /\ UNCHANGED fragile
  /\ \E f \in File : \E k \in Following(records[f], whole[f], 0) :
       /\ \A v \in DOMAIN place : place[v].file # f
       /\ place' = [v \in DOMAIN place \union {u} |->
                      IF v = u THEN [file |-> f, at |-> k] ELSE place[v]]

\* A new last record follows the place.
BeginWrite(u) ==
  /\ Succeeds
  /\ \/ /\ At(u) >= 0 /\ Go(u, Writing)
        /\ Become(u, SubSeq(Log(u), 1, At(u)), Whole(u) /\ At(u) = Len(Log(u)))
     \/ /\ At(u) = Lost /\ UNCHANGED place
        /\ \E n \in 0 .. Len(Log(u)) : Become(u, SubSeq(Log(u), 1, n), FALSE)
  /\ \/ UNCHANGED fragile
     \/ u \notin DOMAIN fragile /\ Fragile(u, Len(records'[place[u].file]))

EndWrite(u) ==
  /\ At(u) = Writing /\ UNCHANGED fragile
  /\ \/ /\ Go(u, Len(Log(u)) + 1) /\ Succeeds
        /\ LET log == records'[place[u].file] IN
           /\ Len(log) = Len(Log(u)) + 1 /\ SubSeq(log, 1, Len(Log(u))) = Log(u)
           /\ Become(u, log, Whole(u))
     \/ /\ Become(u, Log(u), FALSE) /\ Fails
        /\ \E k \in {Lost, Len(Log(u))} : Go(u, k)

Next ==
  \/ \E u \in Unit : Reconnect(u) \/ OpenAndRead(u)
  \/ Fail \/ \E f \in File : Overwrite(f)
  \/ \E u \in DOMAIN place :
       \/ Rewind(u) \/ Backspace(u) \/ Endfile(u) \/ Inquire(u)
       \/ Lose(u) \/ Disconnect(u) \/ Stray(u)
       \/ Read(u) \/ BeginWrite(u) \/ EndWrite(u)

Spec == Init /\ [][Next]_vars
=============================================================================

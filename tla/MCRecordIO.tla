----------------------------- MODULE MCRecordIO -----------------------------
(***************************************************************************)
(* RecordTransfer on one unit, its formatted default file, an unformatted  *)
(* named file and an unformatted scratch file.                             *)
(***************************************************************************)
EXTENDS RecordTransfer, TLC

CONSTANTS u1, fort1, named

MCDefaultName == u1 :> fort1
MCFormOf == fort1 :> "formatted" @@ named :> "unformatted" @@ u1 :> "unformatted"

\* Every STATUS=, ACCESS=, ACTION= and POSITION= in one OPEN at least.
Opening(status, access, action, append) ==
  [status |-> status, access |-> access, action |-> action, append |-> append]
MCOptions == {Opening("new", "sequential", "write", FALSE),
              Opening("replace", "sequential", "readwrite", FALSE),
              Opening("old", "sequential", "readwrite", TRUE),
              Opening("unknown", "sequential", "read", FALSE),
              Opening("unknown", "direct", "readwrite", FALSE)}
MCScratch == {[access |-> "sequential", action |-> "readwrite"]}
=============================================================================

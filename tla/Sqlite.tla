------------------------------- MODULE Sqlite -------------------------------
(***************************************************************************)
(* The SQLite connector: every two seconds recv() compares                 *)
(* (COUNT, MAX(rowid)) with what it saw last, and reads all rows when they *)
(* differ.  The two queries are separate transactions, so another process  *)
(* may write in between.                                                   *)
(*                                                                         *)
(* A row is its rowid and the write that made it.  Each write is posted as *)
(* a "message"; a snapshot is the number of writes it has, and the window  *)
(* holds that number.  The connector's own intents write like anyone else. *)
(* This is generic mode, for a table somebody else made.                   *)
(***************************************************************************)
EXTENDS RoomTask

VARIABLES
  rows,       \* rowid -> write
  poll,       \* sleeping or idle; signing: about to compare; reading: the rows
  signature,  \* what this poll found
  last,       \* last_signature
  sawRows,    \* the rows of the last snapshot
  onlyInserts

sqliteVars == <<rows, poll, signature, last, sawRows, onlyInserts>>
vars == <<taskVars, feedVars, sqliteVars>>

MaxRowid(t) == CHOOSE m \in DOMAIN t \cup {0} : \A i \in DOMAIN t : i <= m

\* read_signature.  A view has no rowid and always gets (0, 0): of it only the
\* first snapshot is ever shown, and it is not modelled further.
Signature(t) == <<Cardinality(DOMAIN t), MaxRowid(t)>>

\* The snapshot of table t goes to the daemon.
ShowRows(t) == Show(<<Len(posted)>>) /\ sawRows' = t

LastShown == IF window = <<>> THEN 0 ELSE window[1]

Init ==
  /\ RoomInit
  /\ rows = <<>>
  /\ poll = "sleeping"
  /\ signature = <<0, 0>>
  /\ last = <<0, 0>>
  /\ sawRows = <<>>
  /\ onlyInserts = TRUE

-----------------------------------------------------------------------------
\* A new row gets the largest rowid plus one.
Insert ==
  /\ Post("message")
  /\ rows' = [i \in DOMAIN rows \cup {MaxRowid(rows) + 1} |->
                IF i \in DOMAIN rows THEN rows[i] ELSE Len(posted) + 1]
  /\ UNCHANGED <<poll, signature, last, sawRows, onlyInserts>>

Delete(i) ==
  /\ Post("message")
  /\ i \in DOMAIN rows
  /\ rows' = [j \in DOMAIN rows \ {i} |-> rows[j]]
  /\ onlyInserts' = FALSE
  /\ UNCHANGED <<poll, signature, last, sawRows>>

Update(i) ==
  /\ Post("message")
  /\ i \in DOMAIN rows
  /\ rows' = [rows EXCEPT ![i] = Len(posted) + 1]
  /\ onlyInserts' = FALSE
  /\ UNCHANGED <<poll, signature, last, sawRows>>

-----------------------------------------------------------------------------
ConnectSigns ==
  /\ task = "connecting"
  /\ poll = "sleeping"
  /\ signature' = Signature(rows)
  /\ poll' = "reading"
  /\ UNCHANGED <<taskVars, feedVars, rows, last, sawRows, onlyInserts>>

ConnectReads ==
  /\ task = "connecting"
  /\ poll = "reading"
  /\ task' = "receiving"
  /\ ShowRows(rows)
  /\ last' = signature
  /\ poll' = "sleeping"
  /\ UNCHANGED <<queued, posted, rows, signature, onlyInserts>>

\* The two seconds are over.
Wake ==
  /\ task = "receiving"
  /\ poll = "sleeping"
  /\ poll' = "signing"
  /\ UNCHANGED <<taskVars, feedVars, rows, signature, last, sawRows, onlyInserts>>

\* Mutant: last_signature is set as soon as it is known.
SignsAndRemembers ==
  /\ task = "receiving"
  /\ poll = "signing"
  /\ signature' = Signature(rows)
  /\ last' = Signature(rows)
  /\ poll' = IF Signature(rows) = last THEN "sleeping" ELSE "reading"
  /\ UNCHANGED <<taskVars, feedVars, rows, sawRows, onlyInserts>>

\* No change: sleep again.
Signs ==
  /\ task = "receiving"
  /\ poll = "signing"
  /\ signature' = Signature(rows)
  /\ poll' = IF Signature(rows) = last THEN "sleeping" ELSE "reading"
  /\ UNCHANGED <<taskVars, feedVars, rows, last, sawRows, onlyInserts>>

Reads ==
  /\ task = "receiving"
  /\ poll = "reading"
  /\ ShowRows(rows)
  /\ last' = signature
  /\ poll' = "sleeping"
  /\ UNCHANGED <<taskVars, posted, rows, signature, onlyInserts>>

\* The sleep starts over; what a blocking thread still finds is dropped.
Cancel ==
  /\ TakeIntent
  /\ poll' = "sleeping"
  /\ UNCHANGED <<rows, signature, last, sawRows, onlyInserts>>

Next ==
  \/ Insert
  \/ \E i \in 1 .. MaxPosted : Delete(i) \/ Update(i)
  \/ ConnectSigns
  \/ ConnectReads
  \/ Wake
  \/ Signs
  \/ Reads
  \/ Cancel
  \/ (SubmitIntent \/ SendReturns \/ TaskEnds) /\ UNCHANGED sqliteVars

Spec == Init /\ [][Next]_vars

-----------------------------------------------------------------------------
\* Every variable has its type; the poll sleeps while an intent is sent.
TypeOK ==
  /\ RoomTypes
  /\ rows \in UNION {[D -> 1 .. MaxPosted] : D \in SUBSET (1 .. MaxPosted)}
  /\ poll \in {"sleeping", "signing", "reading"}
  /\ {signature, last} \subseteq Nat \X Nat
  /\ task = "sending" => poll = "sleeping"

\* In a table that is only inserted into, an unchanged signature means unchanged rows:
\* neither a write between the two queries nor a dropped poll hides a row.
GrowthIsNeverHidden ==
  (Live /\ onlyInserts /\ Signature(rows) = last) => rows = sawRows

=============================================================================

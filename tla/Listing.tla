------------------------------ MODULE Listing -------------------------------
(***************************************************************************)
(* What the GitHub and mailing list connectors share: every 30 seconds     *)
(* recv() asks for the first page of a listing and shows it when it looks  *)
(* different from the one it saw last.                                     *)
(*                                                                         *)
(* What is posted are entries added ("message") and writes to those that   *)
(* are there ("other").  An entry is the number of its post, and a row of  *)
(* the listing is an entry and the write it has its text from.  What an    *)
(* intent posts is posted like anything else.                              *)
(***************************************************************************)
EXTENDS RoomTask

VARIABLES
  rows,        \* entry -> write
  poll,        \* sleeping, or reading: the request is under way
  sawRows,     \* the rows of the last page shown
  onlyInserts

listVars == <<rows, poll, sawRows, onlyInserts>>
vars == <<taskVars, feedVars, listVars>>

Restricted(t, D) == [i \in D |-> t[i]]

Count(t) == Cardinality(DOMAIN t)

\* The first or last Cap entries, or all there are.
OldestPage(t) == Restricted(t, {i \in DOMAIN t : Cardinality({j \in DOMAIN t : j < i}) < Cap})
NewestPage(t) == Restricted(t, {i \in DOMAIN t : Cardinality({j \in DOMAIN t : j > i}) < Cap})

\* Page t goes to the daemon.
ShowPage(t) == Show(Sorted(DOMAIN t)) /\ sawRows' = t

ListInit ==
  /\ RoomInit
  /\ rows = <<>>
  /\ poll = "sleeping"
  /\ sawRows = <<>>
  /\ onlyInserts = TRUE

-----------------------------------------------------------------------------
Add ==
  /\ Post("message")
  /\ rows' = [i \in DOMAIN rows \cup {Len(posted) + 1} |->
                IF i \in DOMAIN rows THEN rows[i] ELSE Len(posted) + 1]
  /\ UNCHANGED <<poll, sawRows, onlyInserts>>

Withdraw(i) ==
  /\ Post("other")
  /\ i \in DOMAIN rows
  /\ rows' = Restricted(rows, DOMAIN rows \ {i})
  /\ onlyInserts' = FALSE
  /\ UNCHANGED <<poll, sawRows>>

Edit(i) ==
  /\ Post("other")
  /\ i \in DOMAIN rows
  /\ rows' = [rows EXCEPT ![i] = Len(posted) + 1]
  /\ onlyInserts' = FALSE
  /\ UNCHANGED <<poll, sawRows>>

-----------------------------------------------------------------------------
\* connect() has page t.
ListConnected(t) ==
  /\ task = "connecting"
  /\ task' = "receiving"
  /\ ShowPage(t)
  /\ UNCHANGED <<queued, posted, rows, poll, onlyInserts>>

\* The 30 seconds are over.
Wake ==
  /\ task = "receiving"
  /\ poll = "sleeping"
  /\ poll' = "reading"
  /\ UNCHANGED <<taskVars, feedVars, rows, sawRows, onlyInserts>>

\* The answer is page t.
Fetched(t, changed) ==
  /\ task = "receiving"
  /\ poll = "reading"
  /\ poll' = "sleeping"
  /\ IF changed THEN ShowPage(t) ELSE UNCHANGED <<window, shown, sawRows>>
  /\ UNCHANGED <<taskVars, posted, rows, onlyInserts>>

\* The sleep starts over.
Cancel ==
  /\ TakeIntent
  /\ poll' = "sleeping"
  /\ UNCHANGED <<rows, sawRows, onlyInserts>>

ListStep ==
  \/ Add
  \/ \E i \in 1 .. MaxPosted : Withdraw(i) \/ Edit(i)
  \/ Wake
  \/ Cancel
  \/ (SubmitIntent \/ SendReturns \/ TaskEnds) /\ UNCHANGED listVars

-----------------------------------------------------------------------------
\* Every variable has its type; the poll sleeps while an intent is sent.
TypeOK ==
  /\ RoomTypes
  /\ {rows, sawRows} \subseteq UNION {[D -> 1 .. MaxPosted] : D \in SUBSET (1 .. MaxPosted)}
  /\ poll \in {"sleeping", "reading"}
  /\ Count(sawRows) <= Cap
  /\ task = "sending" => poll = "sleeping"

\* What the last page had, if it was not full.
SawAll == rows = sawRows \/ Count(sawRows) = Cap

=============================================================================

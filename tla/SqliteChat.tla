----------------------------- MODULE SqliteChat -----------------------------
(***************************************************************************)
(* The SQLite connector's chat mode: a table `messages` that connect()     *)
(* makes with the columns of the configuration, and inserts that replace   *)
(* the row with the same key.  It is polled as in generic mode.            *)
(***************************************************************************)
EXTENDS Sqlite

CONSTANT MaxWrites   \* bound: what is ever written to `messages`

VARIABLES
  primaryKey,  \* SQL types of the key columns
  exists,      \* there is a table `messages`
  inPlace      \* history: writes that replaced a row under its own rowid

chatVars == <<primaryKey, exists, inPlace>>

\* ChatLogConfig::chat_default: PRIMARY KEY (platform, id).
ChatDefault == <<"TEXT", "TEXT">>

\* [room.chat_log.columns] may ask for others.  One that is not a single INTEGER
\* (or Boolean) column is like the default, and with none nothing is replaced.
PrimaryKeys == {ChatDefault, <<"INTEGER">>}

\* SQLite makes a key of one INTEGER column an alias of the rowid.
KeyIsRowid == primaryKey = <<"INTEGER">>

\* spawn_sqlite_chat takes the configured columns, or the default.
ChatInit ==
  /\ Init
  /\ primaryKey \in PrimaryKeys
  /\ exists \in BOOLEAN
  /\ inPlace = {}

-----------------------------------------------------------------------------
\* CREATE TABLE IF NOT EXISTS; the rest is as in generic mode.
ChatConnect ==
  /\ \/ ConnectSigns /\ exists' = TRUE
     \/ ConnectReads /\ UNCHANGED exists
  /\ UNCHANGED <<primaryKey, inPlace>>

\* Row i gets the values of the next write.
Put(i, gone) ==
  /\ Post("message")
  /\ exists
  /\ Len(posted) < MaxWrites
  /\ rows' = [j \in (DOMAIN rows \ gone) \cup {i} |-> IF j = i THEN Len(posted) + 1 ELSE rows[j]]
  /\ UNCHANGED <<poll, signature, last, sawRows, onlyInserts, primaryKey, exists>>

\* An insert that agrees with no row in all key columns.  These may be NULL,
\* which agrees with nothing; a key that is the rowid is then the next one.
InsertRow ==
  /\ \E i \in 1 .. MaxPosted : /\ i \notin DOMAIN rows
                               /\ KeyIsRowid \/ i = MaxRowid(rows) + 1
                               /\ Put(i, {})
  /\ UNCHANGED inPlace

\* INSERT OR REPLACE: row i has the new one's key, and makes way for it.
Replace(i) ==
  /\ i \in DOMAIN rows
  /\ IF KeyIsRowid
       THEN Put(i, {}) /\ inPlace' = inPlace \cup {Len(posted) + 1}
       ELSE Put(MaxRowid(rows) + 1, {i}) /\ UNCHANGED inPlace

\* Execute, or another process: any other change of the rows.
Execute(i) ==
  /\ exists
  /\ Len(posted) < MaxWrites
  /\ Delete(i) \/ Update(i)
  /\ UNCHANGED chatVars

\* recv() is that of generic mode, written out again for `messages`.
ChatPoll == (Wake \/ Signs \/ Reads) /\ UNCHANGED chatVars

ChatNext ==
  \/ InsertRow
  \/ \E i \in 1 .. MaxPosted : Replace(i) \/ Execute(i)
  \/ ChatConnect
  \/ ChatPoll
  \/ Cancel /\ UNCHANGED chatVars
  \/ (SubmitIntent \/ SendReturns \/ TaskEnds) /\ UNCHANGED <<sqliteVars, chatVars>>

-----------------------------------------------------------------------------
\* Every variable has its type; there are rows only in a table.
ChatTypeOK ==
  /\ TypeOK
  /\ primaryKey \in PrimaryKeys
  /\ exists \in BOOLEAN
  /\ inPlace \subseteq Messages
  /\ (rows # <<>> \/ Live) => exists

\* In a table that is only inserted into, an unchanged signature means unchanged
\* rows, also when inserts replace rows: unless the key is the rowid, and then
\* only the rows that were replaced since are different.
ReplacementIsHiddenOnlyInPlace ==
  (Live /\ onlyInserts /\ Signature(rows) = last) =>
    /\ DOMAIN rows = DOMAIN sawRows
    /\ \A i \in DOMAIN rows : rows[i] = sawRows[i] \/ (KeyIsRowid /\ rows[i] \in inPlace)

=============================================================================

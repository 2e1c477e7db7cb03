--------------------------------- MODULE Fs ---------------------------------
(***************************************************************************)
(* The filesystem connector: a watcher puts events on a channel, recv()    *)
(* takes one and then reads the whole directory on a blocking thread.      *)
(*                                                                         *)
(* What is posted are the directory's changes ("message") and accesses     *)
(* ("other").  A snapshot is the last change all of it has; the window     *)
(* holds that number.  The connector's own writes are changes too.         *)
(***************************************************************************)
EXTENDS RoomTask

VARIABLES
  watching,  \* the watcher is installed
  events,    \* event_rx
  trigger,   \* the change whose event recv() has taken, 0 for none
  readFrom,  \* changes made before the read under way began, or NoRead
  cancelled  \* changes whose event was taken by a recv() that was dropped

fsVars == <<watching, events, trigger, readFrom, cancelled>>
vars == <<taskVars, feedVars, fsVars>>

NoRead == MaxPosted + 1

LastShown == IF window = <<>> THEN 0 ELSE window[1]

Init ==
  /\ RoomInit
  /\ watching = FALSE
  /\ events = <<>>
  /\ trigger = 0
  /\ readFrom = NoRead
  /\ cancelled = {}

-----------------------------------------------------------------------------
FsChange(kind) ==
  /\ Post(kind)
  /\ events' = IF watching /\ task # "ended" THEN Append(events, Len(posted) + 1) ELSE events
  /\ UNCHANGED <<watching, trigger, readFrom, cancelled>>

\* FsTransport::new, and the initial read begins.
Watch ==
  /\ task = "connecting"
  /\ ~watching
  /\ watching' = TRUE
  /\ readFrom' = Len(posted)
  /\ UNCHANGED <<taskVars, feedVars, events, trigger, cancelled>>

\* Files are read one after the other: some parts may be newer than others.
FinishFirstRead ==
  /\ watching
  /\ \E v \in readFrom .. Len(posted) : Connected(<<v>>)
  /\ readFrom' = NoRead
  /\ UNCHANGED <<watching, events, trigger, cancelled>>

\* Mutant: the directory is taken as it was at the event.
TakeEventAsOfThen ==
  /\ task = "receiving"
  /\ readFrom = NoRead
  /\ events # <<>>
  /\ events' = Tail(events)
  /\ IF Head(events) \in Messages
       THEN trigger' = Head(events) /\ readFrom' = Head(events)
       ELSE UNCHANGED <<trigger, readFrom>>
  /\ UNCHANGED <<taskVars, feedVars, watching, cancelled>>

\* Mutant: of the events that wait only the newest is looked at.
TakeNewestEvent ==
  /\ task = "receiving"
  /\ readFrom = NoRead
  /\ events # <<>>
  /\ events' = <<>>
  /\ IF Last(events) \in Messages
       THEN trigger' = Last(events) /\ readFrom' = Len(posted)
       ELSE UNCHANGED <<trigger, readFrom>>
  /\ UNCHANGED <<taskVars, feedVars, watching, cancelled>>

\* A change starts a read, anything else is skipped.
TakeEvent ==
  /\ task = "receiving"
  /\ readFrom = NoRead
  /\ events # <<>>
  /\ events' = Tail(events)
  /\ IF Head(events) \in Messages
       THEN trigger' = Head(events) /\ readFrom' = Len(posted)
       ELSE UNCHANGED <<trigger, readFrom>>
  /\ UNCHANGED <<taskVars, feedVars, watching, cancelled>>

FinishRead ==
  /\ task = "receiving"
  /\ readFrom # NoRead
  /\ \E v \in readFrom .. Len(posted) : Show(<<v>>)
  /\ trigger' = 0
  /\ readFrom' = NoRead
  /\ UNCHANGED <<taskVars, posted, watching, events, cancelled>>

\* Mutant: the read goes on, and recv() takes no event while it does.
CancelKeepsReading ==
  /\ TakeIntent
  /\ UNCHANGED fsVars

\* The blocking thread goes on, but nobody takes its result.
Cancel ==
  /\ TakeIntent
  /\ cancelled' = IF trigger = 0 THEN cancelled ELSE cancelled \cup {trigger}
  /\ trigger' = 0
  /\ readFrom' = NoRead
  /\ UNCHANGED <<watching, events>>

Next ==
  \/ \E kind \in {"message", "other"} : FsChange(kind)
  \/ Watch
  \/ FinishFirstRead
  \/ TakeEvent
  \/ FinishRead
  \/ Cancel
  \/ (SubmitIntent \/ SendReturns \/ TaskEnds) /\ UNCHANGED fsVars

Spec == Init /\ [][Next]_vars

-----------------------------------------------------------------------------
\* Every variable has its type; no read is under way while an intent is sent.
TypeOK ==
  /\ RoomTypes
  /\ watching \in BOOLEAN
  /\ events \in Seq(Nat)
  /\ trigger \in Nat
  /\ readFrom \in 0 .. NoRead
  /\ cancelled \in SUBSET Nat
  /\ task = "sending" => readFrom = NoRead

\* While the task lives, a change is in the last snapshot, or its event is
\* still to be handled, or an intent dropped the recv() that had taken it.
\* None falls between the first read and the watcher.
EachChangeIsFollowedUp ==
  Live => \A n \in Messages :
    n <= LastShown \/ n \in ToSet(events) \/ n = trigger \/ n \in cancelled

\* A later snapshot never shows an older directory, also after dropped reads.
SnapshotsNeverGoBack == [][LastShown' >= LastShown]_vars

=============================================================================

------------------------------ MODULE Mailbox ------------------------------
(***************************************************************************)
(* What one room of the daemon promises its readers: an unread queue whose *)
(* messages are handed over, all of them at once and each of them to one   *)
(* reader only.  Messages are numbered 1, 2, ... in the order they were    *)
(* put.  A batch a reader holds is in the end either read by it or lost    *)
(* with it; it never returns to the queue.                                 *)
(***************************************************************************)
EXTENDS Naturals, Sequences, Functions

CONSTANT Readers

VARIABLES
  count,   \* messages put so far
  unread,  \* messages put and not yet taken, oldest first
  held,    \* the messages each reader has taken and not yet finished with
  read,    \* messages some reader finished with
  lost     \* messages whose reader went away while holding them

vars == <<count, unread, held, read, lost>>

Init ==
  /\ count = 0
  /\ unread = <<>>
  /\ held = [c \in Readers |-> {}]
  /\ read = {}
  /\ lost = {}

Put ==
  /\ count' = count + 1
  /\ unread' = Append(unread, count + 1)
  /\ UNCHANGED <<held, read, lost>>

\* A reader takes everything that is unread; there must be something.
Take(c) ==
  /\ held[c] = {}
  /\ unread # <<>>
  /\ held' = [held EXCEPT ![c] = Range(unread)]
  /\ unread' = <<>>
  /\ UNCHANGED <<count, read, lost>>

Finish(c) ==
  /\ held[c] # {}
  /\ read' = read \cup held[c]
  /\ held' = [held EXCEPT ![c] = {}]
  /\ UNCHANGED <<count, unread, lost>>

Vanish(c) ==
  /\ held[c] # {}
  /\ lost' = lost \cup held[c]
  /\ held' = [held EXCEPT ![c] = {}]
  /\ UNCHANGED <<count, unread, read>>

Next == Put \/ \E c \in Readers : Take(c) \/ Finish(c) \/ Vanish(c)

Spec == Init /\ [][Next]_vars

=============================================================================

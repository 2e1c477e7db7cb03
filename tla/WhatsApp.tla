------------------------------ MODULE WhatsApp ------------------------------
(***************************************************************************)
(* The WhatsApp connector: nothing is received, as there is no webhook for *)
(* it, and recv() returns None as soon as it is polled.                    *)
(***************************************************************************)
EXTENDS RoomTask

vars == <<taskVars, feedVars>>

Init == RoomInit

\* Nobody asks what is posted.
WhatsAppPost == Post("message")

\* connect(): the credentials are good.
Verify == Connected(<<>>)

\* recv() returns Ok(None): the loop breaks, intents on the channel or not.
RecvReturnsNone ==
  /\ task = "receiving"
  /\ TaskEnds

ConnectFails ==
  /\ task = "connecting"
  /\ TaskEnds

Next ==
  \/ WhatsAppPost
  \/ Verify
  \/ RecvReturnsNone
  \/ ConnectFails
  \/ TakeIntent
  \/ SubmitIntent
  \/ SendReturns

Spec == Init /\ [][Next]_vars

-----------------------------------------------------------------------------
\* Every variable has its type; nothing is ever shown.
TypeOK ==
  /\ RoomTypes
  /\ shown = {}

=============================================================================

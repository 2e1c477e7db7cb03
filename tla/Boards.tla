------------------------------- MODULE Boards -------------------------------
(***************************************************************************)
(* The examples that answer HTTP requests and hold no connections: the     *)
(* forum and the microblog.  `example` is the one that was started; the    *)
(* variables of the other stay as they are initially.                      *)
(***************************************************************************)
EXTENDS Forum, Microblog

VARIABLE example

vars == <<example, forumVars, microblogVars>>

Init ==
  /\ example \in {"forum", "microblog"}
  /\ ForumInit
  /\ BlogInit

Next ==
  /\ UNCHANGED example
  /\ \/ example = "forum" /\ ForumNext /\ UNCHANGED microblogVars
     \/ example = "microblog" /\ BlogNext /\ UNCHANGED forumVars

Spec == Init /\ [][Next]_vars

-----------------------------------------------------------------------------
\* Every variable of both servers has its type.
TypeOK == ForumTypeOK /\ BlogTypeOK

=============================================================================

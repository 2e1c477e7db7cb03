------------------------------ MODULE MCBoards ------------------------------
(***************************************************************************)
(* Nobody, and somebody whose name has colons in it.                       *)
(***************************************************************************)
EXTENDS Boards

Names == {<<>>, <<Colon, "a", Colon>>}

=============================================================================

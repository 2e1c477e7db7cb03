------------------------------- MODULE MCGame -------------------------------
(***************************************************************************)
(* A forest and a cave.                                                    *)
(***************************************************************************)
EXTENDS Game, TLC

\* It makes no difference which connection it is.
Symmetry == Permutations(Conns)

=============================================================================

------------------------------ MODULE MCDaemon ------------------------------
(***************************************************************************)
(* Small instances of the daemon.                                          *)
(***************************************************************************)
EXTENDS Daemon, TLC

\* CLI processes are interchangeable for safety.
ClientSymmetry == Permutations(Clients)

=============================================================================

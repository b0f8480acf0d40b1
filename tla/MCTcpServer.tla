---------------------------- MODULE MCTcpServer ----------------------------
(***************************************************************************)
(* Instances of the TCP server for TLC.                                    *)
(***************************************************************************)
EXTENDS TcpServer, TLC

Symmetry == Permutations(Fd) \cup Permutations(Client)
=============================================================================

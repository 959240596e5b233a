---------------------------- MODULE MCTcpServer ----------------------------
(* Instance of TcpServer for TLC: identities are model values, and         *)
(* permuting them changes nothing.                                         *)
EXTENDS TcpServer, TLC

IdSymmetry == Permutations(Ids)
=============================================================================

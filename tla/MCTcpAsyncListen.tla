-------------------------- MODULE MCTcpAsyncListen --------------------------
(* Instance of TcpAsyncListen for TLC.                                     *)
EXTENDS TcpAsyncListen

(* The connection does not break: what is left of the tasks' lives is the  *)
(* notification of exit and where they are when it comes.                  *)
StaysUp == up[gen]

=============================================================================

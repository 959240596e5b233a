---------------------------- MODULE MCTcpListen ----------------------------
(* Instance of TcpListen for TLC.                                          *)
EXTENDS TcpListen

(* No peer asks for a connection: read_loop is not given an Fsync, and     *)
(* what is left are the notifications between the threads.                 *)
NobodyCalls == \A g \in Gens : rl[g] \notin {"reply", "panicked"}

=============================================================================

---------------------------- MODULE TcpRendezvous ----------------------------
(***************************************************************************)
(* The TCP server together with its clients (src/src/tcp/client.rs; the    *)
(* async client runs the same protocol).                                   *)
(*                                                                         *)
(* A listening client keeps one connection to the server: write_loop and   *)
(* read_loop are two threads joined by a channel.  A connecting client     *)
(* opens a connection, sends one Isync, and its first response decides     *)
(* what connect() returns.  Processes may be killed at any moment.  An     *)
(* identity may listen and connect at the same time.                       *)
(*                                                                         *)
(* The server and the sockets are those of TcpServer: every step here is a *)
(* step of TcpServer or leaves its variables unchanged.                    *)
(***************************************************************************)
EXTENDS TcpServer

CONSTANTS
  Listeners,   \* identities that listen
  Connectors,  \* identities that connect
  PendCap      \* capacity of the client's channel; sync_channel(10) in code

ASSUME RendezvousAssumption ==
  /\ Listeners \subseteq Ids
  /\ Connectors \subseteq Ids
  /\ PendCap \in Nat \ {0}
  /\ {"Ping", "Isync", "Rsync"} \subseteq ClientCmds

VARIABLES
  phase,   \* connection -> what its client is doing
  target,  \* connection -> target_id of connect()
  pend,    \* connection -> commands in the channel from read_loop to write_loop
  reply,   \* connection -> peer that read_loop has to send an Rsync for
  tried,   \* <<i, c>>: listener i has set out to send connection c's client a
           \* packet (history)
  result   \* connection -> address connect() goes on to, NoConn before

rvars == <<phase, target, pend, reply, tried, result>>
allVars == <<vars, rvars>>

RInit ==
  /\ Init
  /\ phase = [c \in Conns |-> "unused"]
  /\ target = [c \in Conns |-> NoId]
  /\ pend = [c \in Conns |-> <<>>]
  /\ reply = [c \in Conns |-> NoId]
  /\ tried = {}
  /\ result = [c \in Conns |-> NoConn]

(* No connection of a client of identity i is in one of the phases S.      *)
NoneIn(i, S) == \A c \in Conns : who[c] = i => phase[c] \notin S

(* The commands of a client, and the request write_req makes of one.       *)
ReqCmd == [cmd : {"Ping", "Isync", "Rsync"}, peer : AnyId]

PingCmd     == [cmd |-> "Ping", peer |-> NoId]
IsyncCmd(i) == [cmd |-> "Isync", peer |-> i]
RsyncCmd(i) == [cmd |-> "Rsync", peer |-> i]

ReqOf(c, m) ==
  [cmd |-> m.cmd, id |-> who[c], peer |-> m.peer, addr |-> NoConn]

(* The server's side of the connection is gone.                            *)
ServerEnded(c) == status[c] \in {"done", "panicked"}

-----------------------------------------------------------------------------
(* The listening client.                                                   *)

(* start_background: connect to the server; the first command is a Ping.   *)
ListenerStart(i) ==
  /\ NoneIn(i, {"listening"})
  /\ Accept(i)
  /\ phase' = [phase EXCEPT ![count + 1] = "listening"]
  /\ pend' = [pend EXCEPT ![count + 1] = <<PingCmd>>]
  /\ UNCHANGED <<target, reply, tried, result>>

(* write_loop: the oldest command of the channel, under this identity.     *)
ListenerWrite(c) ==
  /\ phase[c] = "listening" /\ pend[c] # <<>>
  /\ ClientSend(c, ReqOf(c, Head(pend[c])))
  /\ pend' = [pend EXCEPT ![c] = Tail(@)]
  /\ UNCHANGED <<phase, target, reply, tried, result>>

(* write_loop: nothing in the channel for 10 seconds.                      *)
ListenerPing(c) ==
  /\ phase[c] = "listening" /\ pend[c] = <<>>
  /\ ClientSend(c, ReqOf(c, PingCmd))
  /\ UNCHANGED rvars

(* read_loop: an Fsync makes it connect to the peer with a very short      *)
(* timeout, to send one packet.  A bind or connect that fails is ignored,  *)
(* so nothing here depends on whether the packet left: `tried' is the      *)
(* attempt.  Other responses are ignored.                                  *)
ListenerRead(c) ==
  /\ phase[c] = "listening" /\ reply[c] = NoId
  /\ ClientRead(c)
  /\ LET r == Head(out[c]) IN
     \/ /\ r.cmd = "Fsync"
        /\ tried' = tried \cup {<<who[c], r.addr>>}
        /\ reply' = [reply EXCEPT ![c] = r.peer]
     \/ r.cmd # "Fsync" /\ UNCHANGED <<tried, reply>>
  /\ UNCHANGED <<phase, target, pend, result>>

(* Mutant: a channel without a bound.                                      *)
ListenerReplyUnbounded(c) ==
  /\ phase[c] = "listening" /\ reply[c] # NoId
  /\ pend' = [pend EXCEPT ![c] = Append(@, RsyncCmd(reply[c]))]
  /\ reply' = [reply EXCEPT ![c] = NoId]
  /\ UNCHANGED <<vars, phase, target, tried, result>>

(* read_loop, after that: the Rsync is sent to the channel.                *)
ListenerReply(c) ==
  /\ phase[c] = "listening" /\ reply[c] # NoId
  /\ Len(pend[c]) < PendCap
  /\ pend' = [pend EXCEPT ![c] = Append(@, RsyncCmd(reply[c]))]
  /\ reply' = [reply EXCEPT ![c] = NoId]
  /\ UNCHANGED <<vars, phase, target, tried, result>>

(* The server has closed the connection: both loops end.                   *)
ListenerBroken(c) ==
  /\ phase[c] = "listening" /\ out[c] = <<>> /\ ServerEnded(c)
  /\ phase' = [phase EXCEPT ![c] = "closed"]
  /\ pend' = [pend EXCEPT ![c] = <<>>]
  /\ reply' = [reply EXCEPT ![c] = NoId]
  /\ UNCHANGED <<vars, target, tried, result>>

-----------------------------------------------------------------------------
(* The connecting client.                                                  *)

ConnectorStart(i, t) ==
  /\ NoneIn(i, {"connecting", "waiting", "returned"})
  /\ Accept(i)
  /\ phase' = [phase EXCEPT ![count + 1] = "connecting"]
  /\ target' = [target EXCEPT ![count + 1] = t]
  /\ UNCHANGED <<pend, reply, tried, result>>

ConnectorIsync(c) ==
  /\ phase[c] = "connecting"
  /\ ClientSend(c, ReqOf(c, IsyncCmd(target[c])))
  /\ phase' = [phase EXCEPT ![c] = "waiting"]
  /\ UNCHANGED <<target, pend, reply, tried, result>>

(* read_resp: a Redirect with an address is connected to, whatever its id; *)
(* any other response is an error.                                         *)
ConnectorRead(c) ==
  /\ phase[c] = "waiting"
  /\ ClientRead(c)
  /\ phase' = [phase EXCEPT ![c] = "returned"]
  /\ result' = [result EXCEPT ![c] =
                  IF Head(out[c]).cmd = "Redirect" THEN Head(out[c]).addr
                                                   ELSE NoConn]
  /\ UNCHANGED <<target, pend, reply, tried>>

(* write_req or read_resp fails: connect() returns the error.              *)
ConnectorFails(c) ==
  /\ phase[c] \in {"connecting", "waiting"} /\ out[c] = <<>> /\ ServerEnded(c)
  /\ phase' = [phase EXCEPT ![c] = "closed"]
  /\ UNCHANGED <<vars, target, pend, reply, tried, result>>

(* connect() has returned: its connection to the server is dropped.        *)
ConnectorDrop(c) ==
  /\ phase[c] = "returned"
  /\ phase' = [phase EXCEPT ![c] = "closed"]
  /\ \/ status[c] = "running" /\ ClientClose(c)
     \/ ServerEnded(c) /\ UNCHANGED vars
  /\ UNCHANGED <<target, pend, reply, tried, result>>

(* The process is killed, or shut down.                                    *)
Killed(c) ==
  /\ phase[c] \in {"listening", "connecting", "waiting"}
  /\ ClientClose(c)
  /\ phase' = [phase EXCEPT ![c] = "closed"]
  /\ pend' = [pend EXCEPT ![c] = <<>>]
  /\ reply' = [reply EXCEPT ![c] = NoId]
  /\ UNCHANGED <<target, tried, result>>

-----------------------------------------------------------------------------
Listener(c) ==
  \/ ListenerWrite(c) \/ ListenerPing(c) \/ ListenerRead(c)
  \/ ListenerReply(c) \/ ListenerBroken(c)

Connector(c) ==
  \/ ConnectorIsync(c) \/ ConnectorRead(c) \/ ConnectorFails(c)
  \/ ConnectorDrop(c)

RNext ==
  \/ \E i \in Listeners : ListenerStart(i)
  \/ \E i \in Connectors : \E t \in Listeners : ConnectorStart(i, t)
  \/ \E c \in Conns : \/ Task(c) /\ UNCHANGED rvars
                      \/ Listener(c) \/ Connector(c) \/ Killed(c)

(* The runtime polls tasks that can go on, timers fire, and threads of a   *)
(* live client run.  Clients need not start, ping again or be killed.      *)
Progress ==
  \E c \in Conns :
    \/ Task(c) /\ UNCHANGED rvars
    \/ ListenerRead(c) \/ ListenerReply(c) \/ ListenerWrite(c)
    \/ Connector(c)

Fairness == WF_allVars(Progress)

RSpec     == RInit /\ [][RNext]_allVars
RLiveSpec == RSpec /\ Fairness

-----------------------------------------------------------------------------
(* The values of the variables; the channel between the two threads of a   *)
(* listening client stays within its capacity.                             *)
RTypeOK ==
  /\ phase \in [Conns -> {"unused", "listening", "connecting", "waiting",
                          "returned", "closed"}]
  /\ target \in [Conns -> AnyId]
  /\ pend \in [Conns -> Seq(ReqCmd)]
  /\ reply \in [Conns -> AnyId]
  /\ tried \subseteq Ids \X Conns
  /\ result \in [Conns -> Addrs]
  /\ \A c \in Conns : Len(pend[c]) <= PendCap

(* Whenever connect() goes on to an address, it is one of a peer that the  *)
(* same identity has asked for, in this call or in an earlier one, and     *)
(* that set out to send its packet to the client of that call before.      *)
(* Fsync, packet, Rsync and Redirect are steps of four processes, and      *)
(* connections are replaced on both sides meanwhile.  lib.rs promises      *)
(* more, the packet to the connecting peer and "After that" the socket:    *)
(* here the packet is only attempted, and a later call may be redirected   *)
(* because of an earlier one (see ReachesTarget), and then the packet went *)
(* to the address of the earlier call.                                     *)
AnsweredBeforeRedirect ==
  \A c \in Conns : result[c] # NoConn =>
    \E d \in 1 .. c :
      /\ who[d] = who[c] /\ target[d] = who[result[c]]
      /\ <<who[result[c]], d>> \in tried

(* No circular wait.  A task that waits for room in another task's channel *)
(* waits for one that is not waiting itself, or for one that waits for a   *)
(* task that is not.  It holds if no identity both listens and connects,   *)
(* because handle_isync registers its connection only after its own        *)
(* forward: nobody can send to a connection whose task is still waiting to *)
(* forward an Isync.                                                       *)
NoCircularWait ==
  \A c \in Conns :
    pc[c] = "forward" /\ pc[to[c]] = "forward" => pc[to[to[c]]] # "forward"

(* client.rs: connect() "will return a TcpStream with remote peer" - to    *)
(* the "target node" it was asked for.                                     *)
ReachesTarget ==
  \A c \in Conns : result[c] # NoConn => who[result[c]] = target[c]

(* connect() returns: the clients that have sent their Isync get a         *)
(* response or see the connection closed, although the target may have     *)
(* gone, an Rsync may have been discarded, or tasks may wait for each      *)
(* other's channels.  The 30-second timeout of read_reqs is what ends the  *)
(* wait.                                                                   *)
ConnectReturns == []<>(\A c \in Conns : phase[c] # "waiting")

(* lib.rs: "A listening peer will keep pinging the server and receive      *)
(* forward requests."  Never do tasks wait for each other for good: task c *)
(* for room in the channel of another one of S, its own channel full, and  *)
(* read_reqs with a request for that channel, so that its timeout is off.  *)
Stuck(c, S) ==
  /\ status[c] = "running" /\ pc[c] = "forward" /\ to[c] \in S
  /\ Len(queue[c]) = Cap /\ inbox[c] # <<>>

NoDeadlock ==
  \A S \in SUBSET Conns : S # {} => \E c \in S : ~Stuck(c, S)

-----------------------------------------------------------------------------
(* The calls of connect() of the abstract specification are the            *)
(* connections that have a target; a peer has answered a call when it has  *)
(* set out to send its packet.                                             *)
CallState(c) ==
  CASE target[c] = NoId -> "idle"
    [] result[c] # NoConn -> "connected"
    [] phase[c] \in {"connecting", "waiting"} -> "asking"
    [] OTHER -> "failed"

Abstract == INSTANCE Rendezvous WITH
  Calls    <- Conns,
  Peers    <- Ids,
  NoPeer   <- NoId,
  state    <- [c \in Conns |-> CallState(c)],
  caller   <- [c \in Conns |-> IF target[c] = NoId THEN NoId ELSE who[c]],
  wanted   <- target,
  answered <- tried,
  partner  <- [c \in Conns |-> IF result[c] = NoConn THEN NoId
                                                    ELSE who[result[c]]]

(* The TCP client and server keep what Rendezvous promises: a peer answers *)
(* only calls that ask for it, and connect() goes on only to a peer that   *)
(* has answered a call of the same identity.                               *)
ImplementsRendezvous == Abstract!Spec

=============================================================================

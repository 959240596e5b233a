---------------------------- MODULE UdpRendezvous ----------------------------
(***************************************************************************)
(* The UDP server together with its clients (src/src/udp/client.rs), over  *)
(* a network that loses, delays, reorders and duplicates datagrams.        *)
(*                                                                         *)
(* A Listener runs one thread: ping the servers, poll the sockets, answer  *)
(* every Fsync with an Rsync to the server and one to the peer.  A         *)
(* Connector's connect() asks all servers, in three rounds.  Both may use  *)
(* several servers: one is the server of UdpServer; the Others know no     *)
(* target (they answer an Isync with an empty Redirect, or not at all) and *)
(* may be unreachable, which makes recv fail.                              *)
(*                                                                         *)
(* The timers of the clients (10 to 15 seconds between pings, 5 seconds a  *)
(* round, 100 ms a poll) may expire at any moment.                         *)
(***************************************************************************)
EXTENDS UdpServer

CONSTANTS
  Listeners,   \* identities that listen; each has one address
  Connectors,  \* identities that connect, one connect() for each address
  Others,      \* servers besides the one of UdpServer
  Main,        \* the server of UdpServer
  Rounds       \* rounds of connect(), 3 in the code

Servers == Others \cup {Main}
NoId    == NoAddr

ASSUME UdpRendezvousAssumption ==
  /\ Listeners \subseteq Ids /\ Connectors \subseteq Ids
  /\ Listeners \cap Connectors = {}
  /\ Main \notin Others
  /\ Rounds \in Nat \ {0}
  /\ NoAddr \notin Ids

(* A process is named by its address.                                      *)
Listening  == {x \in Addrs : Owner[x] \in Listeners}
Connecting == {x \in Addrs : Owner[x] \in Connectors}

VARIABLES
  net,      \* requests sent to the server of UdpServer
  mail,     \* responses that server has sent
  thread,   \* listening address -> where the thread of listen() is
  exit,     \* listening address -> Listener.exit
  owes,     \* listening address -> where its second Rsync has to go
  deaf,     \* listening address -> failed_servers has the main server
  heard,    \* <<x, y>>: an Fsync told listening x of address y, and it has
            \* set out to send a packet there (history)
  holes,    \* <<x, y>>: that packet was sent (history)
  phase,    \* connecting address -> what connect() is doing
  target,   \* connecting address -> target_id
  round,    \* connecting address -> rounds begun
  failed,   \* connecting address -> failed_servers of connect()
  result    \* connecting address -> the peer address connect() returned

listenerVars  == <<thread, exit, owes, deaf, heard, holes>>
connectorVars == <<phase, target, round, failed, result>>
uvars == <<net, mail, listenerVars, connectorVars>>
allVars == <<vars, uvars>>

Req(cmd, x, peer) == [cmd |-> cmd, id |-> Owner[x], peer |-> peer, src |-> x]
PingFrom(x) == Req("Ping", x, Owner[x])

UInit ==
  /\ Init
  /\ net = {} /\ mail = {} /\ heard = {} /\ holes = {}
  /\ thread = [x \in Listening |-> "ping"]
  /\ exit = [x \in Listening |-> FALSE]
  /\ owes = [x \in Listening |-> NoAddr]
  /\ deaf = [x \in Listening |-> FALSE]
  /\ phase = [x \in Connecting |-> "idle"]
  /\ target = [x \in Connecting |-> NoId]
  /\ round = [x \in Connecting |-> 0]
  /\ failed = [x \in Connecting |-> {}]
  /\ result = [x \in Connecting |-> NoAddr]

-----------------------------------------------------------------------------
(* The server: a datagram of the network, which stays there (it may be     *)
(* delivered again), or none; what it sends goes to the network.           *)
ServerReceive ==
  /\ \E r \in net : HandleRequest(r)
  /\ mail' = mail \cup sent'
  /\ UNCHANGED <<net, listenerVars, connectorVars>>

ServerIdle == (ReceiveNothing \/ Tick) /\ UNCHANGED uvars

(* A response at the socket of address x: it is for its identity.          *)
Arrived(x) == {m \in mail : m.dst = x /\ m.id = Owner[x]}

-----------------------------------------------------------------------------
(* The thread of listen().                                                 *)

(* The top of the loop.                                                    *)
LoopExits(x) ==
  /\ thread[x] = "ping" /\ exit[x]
  /\ thread' = [thread EXCEPT ![x] = "done"]
  /\ UNCHANGED <<vars, net, mail, exit, owes, deaf, heard, holes,
                 connectorVars>>

(* A Ping to every server that is due one, failed ones too.  The first     *)
(* time all are; after that a Ping is only one more copy.                  *)
SendPings(x) ==
  /\ thread[x] = "ping" /\ ~exit[x]
  /\ thread' = [thread EXCEPT ![x] = "poll"]
  /\ net' = net \cup {PingFrom(x)}
  /\ UNCHANGED <<vars, mail, exit, owes, deaf, heard, holes,
                 connectorVars>>

(* poll_sockets finds nothing more to read.                                *)
PollEnds(x) ==
  /\ thread[x] = "poll"
  /\ thread' = [thread EXCEPT ![x] = "ping"]
  /\ UNCHANGED <<vars, net, mail, exit, owes, deaf, heard, holes,
                 connectorVars>>

(* Mutant: the Fsync is answered to the server only.                       *)
RecvFsyncServerOnly(x) ==
  /\ thread[x] = "poll" /\ ~deaf[x]
  /\ \E m \in Arrived(x) :
       /\ m.cmd = "Fsync"
       /\ net' = net \cup {Req("Rsync", x, m.peer)}
  /\ thread' = [thread EXCEPT ![x] = "ping"]
  /\ UNCHANGED <<vars, mail, exit, owes, deaf, heard, holes,
                 connectorVars>>

(* An Fsync: first the Rsync to the server.  (The server's addresses       *)
(* always parse.)                                                          *)
RecvFsync(x) ==
  /\ thread[x] = "poll" /\ ~deaf[x]
  /\ \E m \in Arrived(x) :
       /\ m.cmd = "Fsync"
       /\ net' = net \cup {Req("Rsync", x, m.peer)}
       /\ owes' = [owes EXCEPT ![x] = m.addr]
       /\ heard' = heard \cup {<<x, m.addr>>}
  /\ thread' = [thread EXCEPT ![x] = "punch"]
  /\ UNCHANGED <<vars, mail, exit, deaf, holes, connectorVars>>

(* Then the one to the peer, which opens the way for its packets; an error *)
(* of send_to is ignored.                                                  *)
Punch(x) ==
  /\ thread[x] = "punch"
  /\ \/ holes' = holes \cup {<<x, owes[x]>>}
     \/ UNCHANGED holes
  /\ owes' = [owes EXCEPT ![x] = NoAddr]
  /\ thread' = [thread EXCEPT ![x] = "ping"]
  /\ UNCHANGED <<vars, net, mail, exit, deaf, heard, connectorVars>>

(* recv fails, since the server was unreachable for a while: that server   *)
(* is never read from again.  (Another server that fails has no effect.)   *)
RecvFails(x) ==
  /\ thread[x] = "poll" /\ ~deaf[x]
  /\ deaf' = [deaf EXCEPT ![x] = TRUE]
  /\ UNCHANGED <<vars, net, mail, thread, exit, owes, heard, holes,
                 connectorVars>>

(* The Listener is dropped.  Its svr_sks were taken by listen(): no Bye.   *)
DropListener(x) ==
  /\ thread[x] # "done" /\ ~exit[x]
  /\ exit' = [exit EXCEPT ![x] = TRUE]
  /\ UNCHANGED <<vars, net, mail, thread, owes, deaf, heard, holes,
                 connectorVars>>

(* The listening process is killed, also between the two Rsyncs.           *)
ListenerKilled(x) ==
  /\ thread[x] # "done"
  /\ thread' = [thread EXCEPT ![x] = "done"]
  /\ owes' = [owes EXCEPT ![x] = NoAddr]
  /\ UNCHANGED <<vars, net, mail, exit, deaf, heard, holes, connectorVars>>

-----------------------------------------------------------------------------
(* connect().                                                              *)

(* connect() is called; an identity connects to one target at a time.      *)
Connect(x, t) ==
  /\ phase[x] = "idle"
  /\ \A y \in Connecting :
       Owner[y] = Owner[x] => phase[y] \notin {"sending", "waiting"}
  /\ phase' = [phase EXCEPT ![x] = "sending"]
  /\ target' = [target EXCEPT ![x] = t]
  /\ UNCHANGED <<vars, net, mail, listenerVars, round, failed, result>>

(* connect_multiple_servers fails: one server whose name does not resolve, *)
(* or to which no socket can be bound, is enough.  Nothing has been sent.  *)
SetUpFails(x) ==
  /\ phase[x] = "sending" /\ round[x] = 0
  /\ phase' = [phase EXCEPT ![x] = "error"]
  /\ UNCHANGED <<vars, net, mail, listenerVars, target, round, failed, result>>

(* Mutant: one round too many.                                             *)
SendIsyncOnceMore(x) ==
  /\ phase[x] = "sending" /\ round[x] <= Rounds /\ failed[x] # Servers
  /\ round' = [round EXCEPT ![x] = @ + 1]
  /\ phase' = [phase EXCEPT ![x] = "waiting"]
  /\ net' = IF Main \in failed[x] THEN net
            ELSE net \cup {Req("Isync", x, target[x])}
  /\ UNCHANGED <<vars, mail, listenerVars, target, failed, result>>

(* The start of a round: an Isync to every server that has not failed.     *)
SendIsync(x) ==
  /\ phase[x] = "sending" /\ round[x] < Rounds /\ failed[x] # Servers
  /\ round' = [round EXCEPT ![x] = @ + 1]
  /\ phase' = [phase EXCEPT ![x] = "waiting"]
  /\ net' = IF Main \in failed[x] THEN net
            ELSE net \cup {Req("Isync", x, target[x])}
  /\ UNCHANGED <<vars, mail, listenerVars, target, failed, result>>

(* After the last round, or with all servers failed, the last error.       *)
GiveUp(x) ==
  /\ phase[x] = "sending" /\ (round[x] = Rounds \/ failed[x] = Servers)
  /\ phase' = [phase EXCEPT ![x] = "error"]
  /\ UNCHANGED <<vars, net, mail, listenerVars, target, round, failed, result>>

(* The round times out, poll fails, or all servers have failed.            *)
RoundEnds(x) ==
  /\ phase[x] = "waiting"
  /\ phase' = [phase EXCEPT ![x] = "sending"]
  /\ UNCHANGED <<vars, net, mail, listenerVars, target, round, failed, result>>

(* A Redirect with an address is connected to, whatever its id; the socket *)
(* for it may fail.                                                        *)
RecvRedirect(x) ==
  /\ phase[x] = "waiting" /\ Main \notin failed[x]
  /\ \E m \in Arrived(x) :
       /\ m.cmd = "Redirect" /\ m.addr # NoAddr
       /\ \/ /\ result' = [result EXCEPT ![x] = m.addr]
             /\ phase' = [phase EXCEPT ![x] = "returned"]
          \/ /\ phase' = [phase EXCEPT ![x] = "error"]
             /\ UNCHANGED result
  /\ UNCHANGED <<vars, net, mail, listenerVars, target, round, failed>>

(* An empty Redirect, of this server or of another: it is left out of the  *)
(* rounds that follow.                                                     *)
RecvNotFound(x) ==
  /\ phase[x] = "waiting"
  /\ \E s \in Servers \ failed[x] :
       /\ s = Main =>
            \E m \in Arrived(x) : m.cmd = "Redirect" /\ m.addr = NoAddr
       /\ failed' = [failed EXCEPT ![x] = @ \cup {s}]
  /\ UNCHANGED <<vars, net, mail, listenerVars, phase, target, round, result>>

(* The connecting process is killed.                                       *)
ConnectorKilled(x) ==
  /\ phase[x] \in {"sending", "waiting"}
  /\ phase' = [phase EXCEPT ![x] = "error"]
  /\ UNCHANGED <<vars, net, mail, listenerVars, target, round, failed, result>>

-----------------------------------------------------------------------------
Thread(x) ==
  \/ LoopExits(x) \/ SendPings(x) \/ PollEnds(x) \/ RecvFsync(x) \/ Punch(x)

Connector(x) ==
  \/ SetUpFails(x) \/ SendIsync(x) \/ GiveUp(x) \/ RoundEnds(x)
  \/ RecvRedirect(x) \/ RecvNotFound(x) \/ ConnectorKilled(x)

UNext ==
  \/ ServerReceive \/ ServerIdle
  \/ \E x \in Listening : \/ Thread(x) \/ RecvFails(x)
                          \/ DropListener(x) \/ ListenerKilled(x)
  \/ \E x \in Connecting : Connector(x) \/ \E t \in Listeners : Connect(x, t)

USpec == UInit /\ [][UNext]_allVars

-----------------------------------------------------------------------------
(* The values of the variables; connect() begins no more rounds than it    *)
(* has, and packets are sent only where an Fsync said.                     *)
UTypeOK ==
  /\ net \subseteq Request
  /\ mail \subseteq Response
  /\ thread \in [Listening -> {"ping", "poll", "punch", "done"}]
  /\ exit \in [Listening -> BOOLEAN]
  /\ owes \in [Listening -> Addrs \cup {NoAddr}]
  /\ deaf \in [Listening -> BOOLEAN]
  /\ heard \subseteq Listening \X Connecting
  /\ holes \subseteq heard
  /\ phase \in [Connecting -> {"idle", "sending", "waiting", "returned",
                               "error"}]
  /\ target \in [Connecting -> Ids \cup {NoId}]
  /\ round \in [Connecting -> 0 .. Rounds]
  /\ failed \in [Connecting -> SUBSET Servers]
  /\ result \in [Connecting -> Addrs \cup {NoAddr}]

(* The address connect() returns is the address of a listening process     *)
(* that was told of this connecting peer and set out to send it a packet,  *)
(* because the peer has asked for that listener: in this call or, from     *)
(* another address, in an earlier one.  This holds although requests are   *)
(* retried, lost, delayed, reordered and delivered twice, entries expire,  *)
(* and processes die.                                                      *)
AnsweredBeforeRedirect ==
  \A x \in Connecting : result[x] # NoAddr =>
    \E y \in Connecting :
      /\ Owner[y] = Owner[x] /\ target[y] = Owner[result[x]]
      /\ <<result[x], y>> \in heard

(* What lib.rs says of the order: "the listening peer will send a dummy    *)
(* packet to the connecting peer", and "After that, we return the native   *)
(* socket types".  It does not hold: the Rsync to the server leaves first, *)
(* the packet may then fail or never be sent, and a late answer may reach  *)
(* a call from another address.                                            *)
HolePunched ==
  \A x \in Connecting : result[x] # NoAddr => <<result[x], x>> \in holes

-----------------------------------------------------------------------------
(* The calls of connect() of the abstract specification.  A listener has   *)
(* answered a call when it has been told of it and has set out to send its *)
(* packet.                                                                 *)
CallState(x) ==
  CASE phase[x] = "idle" -> "idle"
    [] phase[x] \in {"sending", "waiting"} -> "asking"
    [] phase[x] = "returned" -> "connected"
    [] phase[x] = "error" -> "failed"

Abstract == INSTANCE Rendezvous WITH
  Calls    <- Connecting,
  Peers    <- Ids,
  NoPeer   <- NoId,
  state    <- [x \in Connecting |-> CallState(x)],
  caller   <- [x \in Connecting |-> IF phase[x] = "idle" THEN NoId
                                                       ELSE Owner[x]],
  wanted   <- target,
  answered <- {<<Owner[h[1]], h[2]>> : h \in heard},
  partner  <- [x \in Connecting |-> IF result[x] = NoAddr THEN NoId
                                                         ELSE Owner[result[x]]]

(* The UDP clients and server keep what Rendezvous promises, over a        *)
(* network that loses, reorders and duplicates: a listener answers only    *)
(* calls that ask for it, and connect() returns only a socket to a peer    *)
(* that has answered a call of the same identity.                          *)
ImplementsRendezvous == Abstract!Spec

=============================================================================

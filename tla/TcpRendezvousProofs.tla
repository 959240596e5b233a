------------------------- MODULE TcpRendezvousProofs -------------------------
(***************************************************************************)
(* Theorems about TcpRendezvous, for any identities, connections, requests *)
(* and channel capacities.                                                 *)
(*                                                                         *)
(* A listener sets out to send its packet before the Rsync that tells of   *)
(* it: RInv follows that fact through the client's channel, the socket,    *)
(* the channels of two tasks and back through a socket, until connect()    *)
(* reads the Redirect.                                                     *)
(***************************************************************************)
EXTENDS TcpRendezvous, TcpServerProofs, SequenceTheorems

(* Connection d is one of connect().                                       *)
Calling(d) == target[d] # NoId

(* Connection d is one of connect(l).                                      *)
Asks(d, l) == Calling(d) /\ target[d] = l

(* Listener l has answered a client of j that called connect(l).           *)
AnsweredFor(l, j) ==
  /\ l \in Listeners
  /\ \E d \in Conns : Asks(d, l) /\ who[d] = j /\ <<l, d>> \in tried

(* What may be in the channel or in the socket of connection c: an Isync   *)
(* of a connect(), an Fsync with the address of one that asks for the      *)
(* client of c, an Rsync of a listener that has answered.                  *)
SoundReq(c) ==
  {r \in Request :
     /\ r.cmd \in {"Ping", "Isync", "Rsync", "Fsync"}
     /\ r.cmd = "Isync" => Asks(c, r.peer) /\ r.peer \in Listeners
     /\ r.cmd = "Fsync" => r.addr \in Conns /\ Asks(r.addr, who[c])
     /\ r.cmd = "Rsync" => AnsweredFor(r.id, r.peer)}

(* What may be sent to the client of connection c.                         *)
SoundResp(c) ==
  {r \in Response :
     /\ r.cmd = "Fsync" => r.addr \in Conns /\ Asks(r.addr, who[c])
     /\ r.cmd = "Redirect" /\ r.addr # NoConn => AnsweredFor(r.peer, who[c])}

(* What may be in the channel of a listening client.                       *)
SoundCmd(c) ==
  {m \in ReqCmd : \/ m = PingCmd
                  \/ m.cmd = "Rsync" /\ AnsweredFor(who[c], m.peer)}

(* The task of connection c, its channel and its socket.  Where it waits   *)
(* to send, the identity it sends to is registered.                        *)
ServedOK(c) ==
  /\ queue[c] \in Seq(SoundReq(c)) /\ inbox[c] \in Seq(SoundReq(c))
  /\ out[c] \in Seq(SoundResp(c)) /\ resp[c] \in SoundResp(c)
  /\ pc[c] \in {"forward", "register"} => cur[c] \in SoundReq(c)
  /\ pc[c] = "forward" => peer_id[to[c]] = cur[c].peer
  /\ peer_id[c] \in {NoId, who[c]}

Served == \A c \in Conns : ServedOK(c)

(* Who a connection belongs to.                                            *)
RoleOK(c) ==
  /\ c > count => phase[c] = "unused" /\ ~ Calling(c)
  /\ c <= count /\ ~ Calling(c) => who[c] \in Listeners
  /\ Calling(c) => who[c] \in Connectors /\ target[c] \in Listeners
  /\ phase[c] = "listening" => ~ Calling(c)
  /\ phase[c] \in {"connecting", "waiting", "returned"} => Calling(c)
  /\ result[c] # NoConn => Calling(c) /\ phase[c] \in {"returned", "closed"}

Roles == \A c \in Conns : RoleOK(c)

(* An identity calls connect() again only after the last call is over.     *)
LatestCall ==
  \A c, d \in Conns :
    /\ phase[c] \in {"connecting", "waiting", "returned"}
    /\ Calling(d) /\ who[d] = who[c]
    => d <= c

(* Packets go to clients that asked for who sends them.                    *)
TriedOK == \A h \in tried : Asks(h[2], h[1])

(* read_loop tells write_loop of peers it has answered.                    *)
PendOK ==
  \A c \in Conns :
    /\ pend[c] \in Seq(SoundCmd(c))
    /\ reply[c] # NoId => AnsweredFor(who[c], reply[c])

(* The inductive invariant, with that of the server.                       *)
RInv ==
  /\ RTypeOK /\ Roles /\ LatestCall /\ TriedOK /\ PendOK /\ Served
  /\ AnsweredBeforeRedirect

(* If no identity both listens and connects: a connecting client's task    *)
(* never holds more than the one Isync, which is the only thing it may     *)
(* have to forward, and it is registered only when that is done.  From     *)
(* then on its channel holds Rsyncs for this very client.                  *)
Disjoint == Listeners \cap Connectors = {}

(* Nothing was sent on connection c yet.                                   *)
Untouched(c) ==
  inbox[c] = <<>> /\ queue[c] = <<>> /\ pc[c] = "recv" /\ peer_id[c] = NoId

OneIsyncOK(c) ==
  /\ phase[c] = "connecting" => Untouched(c)
  /\ inbox[c] # <<>> =>
       /\ Len(inbox[c]) = 1 /\ queue[c] = <<>>
       /\ pc[c] = "recv" /\ peer_id[c] = NoId
  /\ queue[c] # <<>> /\ peer_id[c] = NoId =>
       Len(queue[c]) = 1 /\ pc[c] = "recv"
  /\ pc[c] \in {"forward", "register"} =>
       queue[c] = <<>> /\ peer_id[c] = NoId
  /\ peer_id[c] # NoId =>
       \A k \in 1 .. Len(queue[c]) :
         queue[c][k].cmd = "Rsync" /\ queue[c][k].peer = who[c]

Single(c) ==
  /\ c > count => Untouched(c)
  /\ Calling(c) => OneIsyncOK(c)

OneIsync == \A c \in Conns : Single(c)

-----------------------------------------------------------------------------
(* What every step does to the facts above: connections of connect() stay  *)
(* such, with their targets and their clients, and no answer is taken      *)
(* back.                                                                   *)
Grows ==
  /\ tried \subseteq tried'
  /\ \A d \in Conns : /\ Calling(d) => target'[d] = target[d]
                      /\ who'[d] = who[d] \/ who[d] = NoId

(* A client that has called connect() has an identity.                     *)
LEMMA CallerKnown ==
  ASSUME Roles, NEW d \in Conns, Calling(d)
  PROVE  who[d] \in Ids /\ who[d] # NoId /\ who[d] \in Connectors
BY ServerAssumption, RendezvousAssumption DEF Roles, RoleOK

(* A call goes on asking for whom it asks.                                 *)
LEMMA AsksKept ==
  ASSUME Grows, NEW d \in Conns
  PROVE  /\ Calling(d) => Calling(d)' /\ target'[d] = target[d]
         /\ \A l : Asks(d, l) => Calling(d)' /\ target'[d] = l
BY DEF Grows, Calling, Asks

(* An answer remains one, to the same peer.                                *)
LEMMA AnsweredForKept ==
  ASSUME Roles, Grows, NEW l, NEW j, AnsweredFor(l, j)
  PROVE  AnsweredFor(l, j)'
<1>1. PICK d \in Conns : Asks(d, l) /\ who[d] = j /\ <<l, d>> \in tried
  BY DEF AnsweredFor
<1>2. Calling(d)' /\ target'[d] = l
  BY <1>1, AsksKept
<1>3. who'[d] = who[d] /\ <<l, d>> \in tried'
  BY <1>1, CallerKnown DEF Grows, Asks
<1> QED
  BY <1>1, <1>2, <1>3 DEF AnsweredFor, Asks

(* Those who answer, and those who are answered, have an identity.         *)
LEMMA AnsweredIds ==
  ASSUME Roles, NEW l, NEW j, AnsweredFor(l, j)
  PROVE  l \in Ids /\ l # NoId /\ j \in Ids /\ j # NoId /\ j \in Connectors
BY CallerKnown, ServerAssumption, RendezvousAssumption DEF AnsweredFor, Asks

(* What is sound stays so.                                                 *)
LEMMA SoundKept ==
  ASSUME Roles, Grows, NEW c \in Conns
  PROVE  /\ SoundReq(c) \subseteq SoundReq(c)'
         /\ SoundResp(c) \subseteq SoundResp(c)'
         /\ SoundCmd(c) \subseteq SoundCmd(c)'
<1>0. ASSUME NEW d \in Conns, Asks(d, who[c]) PROVE Asks(d, who[c])'
  <2>1. Calling(d)' /\ target'[d] = who[c]
    BY <1>0, AsksKept
  <2>2. who[c] # NoId
    BY <1>0 DEF Asks, Calling
  <2>3. who'[c] = who[c]
    BY <2>2 DEF Grows
  <2> QED
    BY <2>1, <2>3 DEF Asks
<1>1. SoundReq(c) \subseteq SoundReq(c)'
  <2> SUFFICES ASSUME NEW r \in SoundReq(c) PROVE r \in SoundReq(c)'
    OBVIOUS
  <2>1. r.cmd = "Rsync" => AnsweredFor(r.id, r.peer)'
    BY AnsweredForKept DEF SoundReq
  <2>2. ASSUME r.cmd = "Isync" PROVE Calling(c)' /\ target'[c] = r.peer
    BY <2>2, AsksKept DEF SoundReq
  <2>3. ASSUME r.cmd = "Fsync" PROVE Asks(r.addr, who[c])'
    BY <1>0, <2>3 DEF SoundReq
  <2> QED
    BY <2>1, <2>2, <2>3 DEF SoundReq, Asks
<1>2. SoundResp(c) \subseteq SoundResp(c)'
  <2> SUFFICES ASSUME NEW r \in SoundResp(c) PROVE r \in SoundResp(c)'
    OBVIOUS
  <2>1. ASSUME r.cmd = "Redirect", r.addr # NoConn
        PROVE  AnsweredFor(r.peer, who[c])'
    <3>1. AnsweredFor(r.peer, who[c])
      BY <2>1 DEF SoundResp
    <3>2. who'[c] = who[c]
      BY <3>1, AnsweredIds DEF Grows
    <3> QED
      BY <3>1, <3>2, AnsweredForKept
  <2>2. ASSUME r.cmd = "Fsync" PROVE Asks(r.addr, who[c])'
    BY <1>0, <2>2 DEF SoundResp
  <2> QED
    BY <2>1, <2>2 DEF SoundResp
<1>3. SoundCmd(c) \subseteq SoundCmd(c)'
  <2> SUFFICES ASSUME NEW m \in SoundCmd(c) PROVE m \in SoundCmd(c)'
    OBVIOUS
  <2>1. ASSUME AnsweredFor(who[c], m.peer)
        PROVE  AnsweredFor(who[c], m.peer)' /\ who'[c] = who[c]
    BY <2>1, AnsweredForKept, AnsweredIds DEF Grows
  <2> QED
    BY <2>1 DEF SoundCmd, AnsweredFor
<1> QED
  BY <1>1, <1>2, <1>3

(* The task of a connection that nobody touches.                           *)
LEMMA ServedFrame ==
  ASSUME Roles, Served, Grows, NEW d \in Conns,
         queue'[d] = queue[d], inbox'[d] = inbox[d], out'[d] = out[d],
         resp'[d] = resp[d], pc'[d] = pc[d], cur'[d] = cur[d], to'[d] = to[d],
         peer_id'[d] \in {NoId, who'[d]},
         pc[d] = "forward" => peer_id'[to[d]] = peer_id[to[d]]
  PROVE  ServedOK(d)'
<1>1. ServedOK(d)
  BY DEF Served
<1>2. /\ SoundReq(d) \subseteq SoundReq(d)'
      /\ SoundResp(d) \subseteq SoundResp(d)'
  BY SoundKept
<1>3. queue'[d] \in Seq(SoundReq(d)') /\ inbox'[d] \in Seq(SoundReq(d)')
  BY <1>1, <1>2, SeqMono DEF ServedOK
<1>4. out'[d] \in Seq(SoundResp(d)')
  BY <1>1, <1>2, SeqMono DEF ServedOK
<1> QED
  BY <1>1, <1>2, <1>3, <1>4 DEF ServedOK

-----------------------------------------------------------------------------
(* The steps of the server's tasks.                                        *)

(* A connection announces the identity of its own client, for good.        *)
PeerKept ==
  \A e \in Conns : /\ peer_id'[e] \in {NoId, who[e]}
                   /\ peer_id[e] # NoId => peer_id'[e] = peer_id[e]

(* The identity a task waits to send to is registered.                     *)
LEMMA ForwardPeer ==
  ASSUME IInv, Served, NEW d \in Conns, pc[d] = "forward"
  PROVE  /\ to[d] \in Conns /\ cur[d].peer \in Ids
         /\ cur[d].cmd \in {"Isync", "Rsync"}
         /\ peer_id[to[d]] = cur[d].peer /\ who[to[d]] = cur[d].peer
         /\ peer_id[to[d]] # NoId
<1>1. /\ to[d] \in Conns /\ cur[d] \in GoodReq(d)
      /\ cur[d].cmd \in {"Isync", "Rsync"}
  BY DEF IInv, HandlersOK, HandlerOK
<1>2. cur[d].peer \in Ids
  BY <1>1 DEF GoodReq
<1>3. peer_id[to[d]] = cur[d].peer /\ peer_id[to[d]] \in {NoId, who[to[d]]}
  BY <1>1 DEF Served, ServedOK
<1> QED
  BY <1>1, <1>2, <1>3, ServerAssumption

(* Nothing that the clients know of changes in a step of a task.           *)
LEMMA TaskGrows ==
  ASSUME who' = who, UNCHANGED rvars
  PROVE  Grows /\ UNCHANGED <<phase, target, pend, reply, tried, result>>
BY DEF rvars, Grows, Calling

(* The connections that a step of a task does not touch.                   *)
LEMMA TaskFrame ==
  ASSUME IInv, Roles, Served, who' = who, UNCHANGED rvars, PeerKept,
         NEW d \in Conns,
         queue'[d] = queue[d], inbox'[d] = inbox[d], out'[d] = out[d],
         resp'[d] = resp[d], pc'[d] = pc[d], cur'[d] = cur[d], to'[d] = to[d]
  PROVE  ServedOK(d)'
<1>1. peer_id'[d] \in {NoId, who'[d]}
  BY DEF PeerKept
<1>2. pc[d] = "forward" => peer_id'[to[d]] = peer_id[to[d]]
  BY ForwardPeer DEF PeerKept
<1> QED
  BY <1>1, <1>2, ServedFrame, TaskGrows

(* A sound set stays the same where only the server moves.                 *)
LEMMA SameSound ==
  ASSUME who' = who, UNCHANGED rvars, NEW c \in Conns
  PROVE  SoundReq(c)' = SoundReq(c) /\ SoundResp(c)' = SoundResp(c)
<1>1. UNCHANGED <<who, target, tried>>
  BY DEF rvars
<1>2. \A l, j : AnsweredFor(l, j)' <=> AnsweredFor(l, j)
  BY <1>1 DEF AnsweredFor, Asks, Calling
<1> QED
  BY <1>1, <1>2 DEF SoundReq, SoundResp, Asks, Calling

(* The end of a task.                                                      *)
LEMMA DropServed ==
  ASSUME IInv, Roles, Served, NEW c \in Conns, DropTask(c), UNCHANGED rvars
  PROVE  Served' /\ UNCHANGED <<count, who, peer_id>>
<1>1. UNCHANGED <<count, peer_id, who, out>>
  BY DEF DropTask, clientVars
<1>2. PeerKept
  BY <1>1 DEF PeerKept, Served, ServedOK
<1>3. ASSUME NEW d \in Conns, d # c PROVE ServedOK(d)'
  <2>1. /\ queue'[d] = queue[d] /\ inbox'[d] = inbox[d] /\ pc'[d] = pc[d]
        /\ resp'[d] = resp[d] /\ cur'[d] = cur[d] /\ to'[d] = to[d]
        /\ out'[d] = out[d]
    BY <1>1, <1>3 DEF IInv, TypeOK, DropTask
  <2> QED
    BY <1>1, <1>2, <2>1, TaskFrame
<1>4. ServedOK(c)'
  <2>1. /\ queue'[c] = <<>> /\ inbox'[c] = <<>> /\ pc'[c] = "recv"
        /\ resp'[c] = NoResp /\ out'[c] = out[c]
    BY <1>1 DEF IInv, TypeOK, DropTask
  <2>2. NoResp \in SoundResp(c)
    BY ServerAssumption
       DEF NoResp, SoundResp, Response, AnyId, Addrs, NoConn
  <2>3. out[c] \in Seq(SoundResp(c)) /\ peer_id[c] \in {NoId, who[c]}
    BY DEF Served, ServedOK
  <2> QED
    BY <1>1, <2>1, <2>2, <2>3, SameSound DEF ServedOK
<1> QED
  BY <1>1, <1>3, <1>4 DEF Served

(* read_reqs moves a request to the channel.                               *)
LEMMA ReadServed ==
  ASSUME IInv, Roles, Served, NEW c \in Conns, ReadReq(c), UNCHANGED rvars
  PROVE  Served'
<1>1. /\ inbox[c] # <<>>
      /\ queue' = [queue EXCEPT ![c] = Append(queue[c], Head(inbox[c]))]
      /\ inbox' = [inbox EXCEPT ![c] = Tail(inbox[c])]
      /\ UNCHANGED <<peer_id, pc, cur, to, resp, who, out>>
  BY DEF ReadReq, clientVars
<1>2. PeerKept
  BY <1>1 DEF PeerKept, Served, ServedOK
<1>3. ASSUME NEW d \in Conns, d # c PROVE ServedOK(d)'
  <2>1. queue'[d] = queue[d] /\ inbox'[d] = inbox[d]
    BY <1>1, <1>3 DEF IInv, TypeOK
  <2> QED
    BY <1>1, <1>2, <2>1, TaskFrame
<1>4. ServedOK(c)'
  <2>1. ServedOK(c)
    BY DEF Served
  <2>2. queue[c] \in Seq(SoundReq(c)) /\ inbox[c] \in Seq(SoundReq(c))
    BY <2>1 DEF ServedOK
  <2>3. /\ Append(queue[c], Head(inbox[c])) \in Seq(SoundReq(c))
        /\ Tail(inbox[c]) \in Seq(SoundReq(c))
    BY <1>1, <2>2
  <2>4. /\ queue'[c] = Append(queue[c], Head(inbox[c]))
        /\ inbox'[c] = Tail(inbox[c])
    BY <1>1 DEF IInv, TypeOK
  <2> QED
    BY <1>1, <2>1, <2>3, <2>4, SameSound DEF ServedOK
<1> QED
  BY <1>3, <1>4 DEF Served

(* handle_cmds takes a request and then writes a response, forwards the    *)
(* request to an identity that is registered, or does neither.             *)
LEMMA HandleServed ==
  ASSUME IInv, Roles, Served, NEW c \in Conns, NEW cmd, CmdReady(c, cmd),
         Take(c), UNCHANGED <<who, inbox, out>>, UNCHANGED rvars, PeerKept,
         \/ \E r \in SoundResp(c) : StartWrite(c, r)
         \/ \E p \in Conns : \E q \in SoundReq(c) :
              /\ peer_id[p] = q.peer /\ q.peer \in Ids
              /\ StartForward(c, p, q)
         \/ UNCHANGED <<pc, cur, to, resp>>
  PROVE  Served'
<1>1. queue[c] # <<>> /\ pc[c] = "recv"
  BY DEF CmdReady
<1>2. /\ pc \in [Conns -> {"recv", "forward", "register", "write"}]
      /\ cur \in [Conns -> Request] /\ to \in [Conns -> Addrs]
      /\ resp \in [Conns -> Response]
      /\ queue \in [Conns -> Seq(Request)]
  BY DEF IInv, TypeOK
<1>3. queue' = [queue EXCEPT ![c] = Tail(queue[c])]
  BY DEF Take
<1>4. ASSUME NEW d \in Conns, d # c PROVE ServedOK(d)'
  <2>1. /\ queue'[d] = queue[d] /\ inbox'[d] = inbox[d] /\ pc'[d] = pc[d]
        /\ resp'[d] = resp[d] /\ cur'[d] = cur[d] /\ to'[d] = to[d]
        /\ out'[d] = out[d]
    BY <1>2, <1>3, <1>4 DEF StartWrite, StartForward
  <2> QED
    BY <2>1, TaskFrame
<1>5. ServedOK(c)'
  <2>1. ServedOK(c)
    BY DEF Served
  <2>2. SoundReq(c)' = SoundReq(c) /\ SoundResp(c)' = SoundResp(c)
    BY SameSound
  <2>3. /\ queue'[c] \in Seq(SoundReq(c)') /\ inbox'[c] \in Seq(SoundReq(c)')
        /\ out'[c] \in Seq(SoundResp(c)')
    <3>1. queue[c] \in Seq(SoundReq(c))
      BY <2>1 DEF ServedOK
    <3>2. Tail(queue[c]) \in Seq(SoundReq(c))
      BY <1>1, <3>1
    <3>3. queue'[c] = Tail(queue[c])
      BY <1>2, <1>3
    <3> QED
      BY <2>1, <2>2, <3>2, <3>3 DEF ServedOK
  <2>4. peer_id'[c] \in {NoId, who'[c]}
    BY DEF PeerKept
  <2>5. CASE \E r \in SoundResp(c) : StartWrite(c, r)
    BY <1>2, <2>2, <2>3, <2>4, <2>5 DEF ServedOK, StartWrite
  <2>6. CASE \E p \in Conns : \E q \in SoundReq(c) :
               /\ peer_id[p] = q.peer /\ q.peer \in Ids
               /\ StartForward(c, p, q)
    <3>1. PICK p \in Conns, q \in SoundReq(c) :
            /\ peer_id[p] = q.peer /\ q.peer \in Ids
            /\ StartForward(c, p, q)
      BY <2>6
    <3>2. /\ pc'[c] = "forward" /\ cur'[c] = q /\ to'[c] = p
          /\ resp'[c] = resp[c]
      BY <1>2, <3>1 DEF StartForward
    <3>3. peer_id'[p] = q.peer
      BY <3>1, ServerAssumption DEF PeerKept
    <3> QED
      BY <2>1, <2>2, <2>3, <2>4, <3>1, <3>2, <3>3 DEF ServedOK
  <2>7. CASE UNCHANGED <<pc, cur, to, resp>>
    BY <1>1, <2>1, <2>2, <2>3, <2>4, <2>7 DEF ServedOK
  <2> QED
    BY <2>5, <2>6, <2>7
<1> QED
  BY <1>4, <1>5 DEF Served

(* insert_peerstate announces the identity of the connection's client.     *)
LEMMA InsertPeer ==
  ASSUME IInv, Served, NEW c \in Conns, InsertPeerstate(c, who[c])
  PROVE  PeerKept
BY DEF InsertPeerstate, IInv, TypeOK, Served, ServedOK, PeerKept

(* The commands.  A Redirect is written to the client whose identity the   *)
(* Rsync names, with the address of the listener that sent it.             *)
LEMMA CmdServed ==
  ASSUME IInv, Roles, Served, NEW c \in Conns, UNCHANGED rvars,
         \/ HandlePing(c) \/ HandleIsync(c) \/ HandleIsyncNotFound(c)
         \/ HandleFsync(c) \/ HandleRsyncHere(c) \/ HandleRsync(c)
  PROVE  Served'
<1> USE ServerAssumption
<1> DEFINE r == Request1(c)
<1>1. /\ Take(c) /\ queue[c] # <<>> /\ UNCHANGED <<who, inbox, out>>
      /\ CmdReady(c, r.cmd)
  BY DEF HandlePing, HandleIsync, HandleIsyncNotFound, HandleFsync,
         HandleRsyncHere, HandleRsync, CmdReady, Request1, clientVars
<1>2. r \in GoodReq(c) /\ r \in Request
  BY <1>1, TakeLemma DEF GoodReq
<1>3. r \in SoundReq(c)
  <2>1. queue[c] \in Seq(SoundReq(c))
    BY DEF Served, ServedOK
  <2> QED
    BY <1>1, <2>1 DEF Request1
<1>4. peer_id' = peer_id => PeerKept
  BY DEF PeerKept, Served, ServedOK
<1>5. \A i \in Ids : peers[i] # NoConn => peers[i] \in Conns
                                          /\ peer_id[peers[i]] = i
  BY DEF IInv, TypeOK, RegistrySound, Addrs
<1>6. CASE HandlePing(c)
  <2>1. r.cmd = "Ping" /\ InsertPeerstate(c, r.id) /\ StartWrite(c, Pong)
    BY <1>6 DEF HandlePing, CmdReady, Request1
  <2>2. r.id = who[c]
    BY <1>2, <2>1 DEF GoodReq
  <2>3. Pong \in SoundResp(c)
    BY DEF Pong, SoundResp, Response, AnyId, Addrs, NoConn
  <2>4. PeerKept
    BY <2>1, <2>2, InsertPeer
  <2> QED
    BY <1>1, <2>1, <2>3, <2>4, HandleServed
<1>7. CASE HandleIsync(c)
  <2>1. /\ r.cmd = "Isync" /\ peers[r.peer] # NoConn /\ peer_id' = peer_id
        /\ StartForward(c, peers[r.peer], r)
    BY <1>7 DEF HandleIsync, CmdReady, Request1
  <2>2. r.peer \in Ids
    BY <1>2, <2>1 DEF GoodReq
  <2> QED
    BY <1>1, <1>3, <1>4, <1>5, <2>1, <2>2, HandleServed
<1>8. CASE HandleIsyncNotFound(c)
  <2>1. peer_id' = peer_id /\ StartWrite(c, Redirect(r.peer, NoConn))
    BY <1>8 DEF HandleIsyncNotFound, Request1
  <2>2. Redirect(r.peer, NoConn) \in SoundResp(c)
    BY <1>2 DEF Redirect, SoundResp, Response, Request, Addrs
  <2> QED
    BY <1>1, <1>4, <2>1, <2>2, HandleServed
<1>9. CASE HandleFsync(c)
  <2>1. /\ r.cmd = "Fsync" /\ peer_id' = peer_id
        /\ StartWrite(c, FsyncResp(r))
    BY <1>9 DEF HandleFsync, CmdReady, Request1
  <2>2. FsyncResp(r) \in SoundResp(c)
    BY <1>2, <1>3, <2>1 DEF FsyncResp, SoundReq, SoundResp, Response, Request
  <2> QED
    BY <1>1, <1>4, <2>1, <2>2, HandleServed
<1>10. CASE HandleRsyncHere(c)
  <2>1. /\ r.cmd = "Rsync" /\ peer_id' = peer_id /\ r.peer = peer_id[c]
        /\ \/ /\ peers[r.id] # NoConn
              /\ StartWrite(c, Redirect(r.id, peers[r.id]))
           \/ UNCHANGED <<pc, cur, to, resp>>
    BY <1>10 DEF HandleRsyncHere, CmdReady, Request1
  <2>2. r.peer \in Ids /\ r.id \in Ids
    BY <1>2, <2>1 DEF GoodReq
  <2>3. AnsweredFor(r.id, who[c])
    <3>1. peer_id[c] = who[c]
      BY <2>1, <2>2 DEF Served, ServedOK
    <3>2. AnsweredFor(r.id, r.peer)
      BY <1>3, <2>1 DEF SoundReq
    <3> QED
      BY <2>1, <3>1, <3>2
  <2>4. peers[r.id] # NoConn => Redirect(r.id, peers[r.id]) \in SoundResp(c)
    BY <1>5, <2>2, <2>3
       DEF Redirect, SoundResp, Response, AnyId, Addrs
  <2> QED
    BY <1>1, <1>4, <2>1, <2>4, HandleServed
<1>11. CASE HandleRsync(c)
  <2>1. /\ r.cmd = "Rsync" /\ peer_id' = peer_id
        /\ \/ /\ peers[r.peer] # NoConn
              /\ StartForward(c, peers[r.peer], r)
           \/ UNCHANGED <<pc, cur, to, resp>>
    BY <1>11 DEF HandleRsync, CmdReady, Request1
  <2>2. r.peer \in Ids
    BY <1>2, <2>1 DEF GoodReq
  <2> QED
    BY <1>1, <1>3, <1>4, <1>5, <2>1, <2>2, HandleServed
<1> QED
  BY <1>6, <1>7, <1>8, <1>9, <1>10, <1>11

(* A forward completes: an Isync becomes an Fsync with the address of the  *)
(* connection it came from, an Rsync is passed on as it is.                *)
LEMMA ForwardServed ==
  ASSUME IInv, Roles, Served, NEW c \in Conns, ForwardDone(c), UNCHANGED rvars
  PROVE  Served'
<1> USE ServerAssumption
<1> DEFINE t == to[c]
           m == Forwarded(c, cur[c])
<1>1. /\ pc[c] = "forward"
      /\ \/ queue' = [queue EXCEPT ![t] = Append(queue[t], m)]
         \/ queue' = queue
      /\ \/ cur[c].cmd = "Isync" /\ pc' = [pc EXCEPT ![c] = "register"]
            /\ cur' = cur
         \/ pc' = [pc EXCEPT ![c] = "recv"] /\ cur' = [cur EXCEPT ![c] = NoReq]
      /\ to' = [to EXCEPT ![c] = NoConn]
      /\ UNCHANGED <<peer_id, resp, who, inbox, out>>
  BY DEF ForwardDone, clientVars
<1>2. /\ t \in Conns /\ cur[c].cmd \in {"Isync", "Rsync"}
      /\ cur[c] \in SoundReq(c) /\ cur[c] \in Request
  BY <1>1, ForwardPeer DEF Served, ServedOK, SoundReq
<1>3. m \in SoundReq(t)
  <2>1. CASE cur[c].cmd = "Isync"
    <3>1. Asks(c, cur[c].peer) /\ cur[c].id \in AnyId
      BY <1>2, <2>1 DEF SoundReq, Request
    <3>2. Asks(c, who[t])
      BY <1>1, <3>1, ForwardPeer
    <3> QED
      BY <2>1, <3>1, <3>2
         DEF Forwarded, FsyncReq, SoundReq, Request, Cmds, AnyId, Addrs
  <2>2. CASE cur[c].cmd = "Rsync"
    BY <1>2, <2>2 DEF Forwarded, SoundReq
  <2> QED
    BY <1>2, <2>1, <2>2
<1>4. PeerKept
  BY <1>1 DEF PeerKept, Served, ServedOK
<1>5. /\ queue \in [Conns -> Seq(Request)]
      /\ pc \in [Conns -> {"recv", "forward", "register", "write"}]
      /\ cur \in [Conns -> Request] /\ to \in [Conns -> Addrs]
  BY DEF IInv, TypeOK
<1> HIDE DEF t, m
<1>6. ASSUME NEW d \in Conns
      PROVE  queue'[d] \in Seq(SoundReq(d)')
  <2>1. queue[d] \in Seq(SoundReq(d)) /\ queue[t] \in Seq(SoundReq(t))
    BY <1>2 DEF Served, ServedOK
  <2>2. Append(queue[t], m) \in Seq(SoundReq(t))
    BY <1>3, <2>1
  <2>3. queue'[d] = queue[d] \/ (d = t /\ queue'[d] = Append(queue[t], m))
    BY <1>1, <1>2, <1>5
  <2>4. SoundReq(d)' = SoundReq(d)
    BY <1>1, SameSound
  <2> QED
    BY <2>1, <2>2, <2>3, <2>4
<1>7. ASSUME NEW d \in Conns PROVE ServedOK(d)'
  <2>1. ServedOK(d) /\ SoundReq(d)' = SoundReq(d) /\ SoundResp(d)' = SoundResp(d)
    BY <1>1, SameSound DEF Served
  <2>2. CASE d = c
    <3>1. /\ pc'[c] # "forward"
          /\ pc'[c] = "register" => cur'[c] = cur[c]
      BY <1>1, <1>5
    <3> QED
      BY <1>1, <1>2, <1>6, <2>1, <2>2, <3>1 DEF ServedOK
  <2>3. CASE d # c
    <3>1. pc'[d] = pc[d] /\ cur'[d] = cur[d] /\ to'[d] = to[d]
      BY <1>1, <1>5, <2>3
    <3> QED
      BY <1>1, <1>6, <2>1, <3>1 DEF ServedOK
  <2> QED
    BY <2>2, <2>3
<1> QED
  BY <1>7 DEF Served

(* handle_isync registers its sender; a response reaches the socket.       *)
LEMMA RegisterServed ==
  ASSUME IInv, Roles, Served, NEW c \in Conns, UNCHANGED rvars,
         RegisterSource(c) \/ WriteDone(c)
  PROVE  Served'
<1> USE ServerAssumption
<1>1. UNCHANGED <<who, queue, inbox, to>>
  BY DEF RegisterSource, WriteDone, clientVars
<1>2. PeerKept
  <2>1. CASE RegisterSource(c)
    <3>1. pc[c] = "register" /\ InsertPeerstate(c, cur[c].id)
      BY <2>1 DEF RegisterSource
    <3>2. cur[c].id = who[c]
      BY <3>1 DEF IInv, HandlersOK, HandlerOK, GoodReq
    <3> QED
      BY <3>1, <3>2, InsertPeer
  <2>2. CASE WriteDone(c)
    BY <2>2 DEF WriteDone, PeerKept, Served, ServedOK
  <2> QED
    BY <2>1, <2>2
<1>3. /\ pc \in [Conns -> {"recv", "forward", "register", "write"}]
      /\ cur \in [Conns -> Request] /\ resp \in [Conns -> Response]
      /\ out \in [Conns -> Seq(Response)]
  BY DEF IInv, TypeOK
<1>4. /\ pc' = [pc EXCEPT ![c] = "recv"]
      /\ cur' = cur \/ cur' = [cur EXCEPT ![c] = NoReq]
      /\ resp' = resp \/ resp' = [resp EXCEPT ![c] = NoResp]
      /\ out' = out \/ out' = [out EXCEPT ![c] = Append(out[c], resp[c])]
  BY DEF RegisterSource, WriteDone
<1>5. ASSUME NEW d \in Conns, d # c PROVE ServedOK(d)'
  <2>1. /\ queue'[d] = queue[d] /\ inbox'[d] = inbox[d] /\ pc'[d] = pc[d]
        /\ resp'[d] = resp[d] /\ cur'[d] = cur[d] /\ to'[d] = to[d]
        /\ out'[d] = out[d]
    BY <1>1, <1>3, <1>4, <1>5
  <2> QED
    BY <1>1, <1>2, <2>1, TaskFrame
<1>6. ServedOK(c)'
  <2>1. ServedOK(c) /\ SoundReq(c)' = SoundReq(c) /\ SoundResp(c)' = SoundResp(c)
    BY <1>1, SameSound DEF Served
  <2>2. NoResp \in SoundResp(c)
    BY DEF NoResp, SoundResp, Response, AnyId, Addrs, NoConn
  <2>3. resp'[c] \in SoundResp(c)
    BY <1>3, <1>4, <2>1, <2>2 DEF ServedOK
  <2>4. out'[c] \in Seq(SoundResp(c))
    <3>1. out[c] \in Seq(SoundResp(c)) /\ resp[c] \in SoundResp(c)
      BY <2>1 DEF ServedOK
    <3>2. Append(out[c], resp[c]) \in Seq(SoundResp(c))
      BY <3>1
    <3> QED
      BY <1>3, <1>4, <3>1, <3>2
  <2>5. pc'[c] = "recv" /\ peer_id'[c] \in {NoId, who'[c]}
    BY <1>1, <1>2, <1>3, <1>4 DEF PeerKept
  <2> QED
    BY <1>1, <2>1, <2>3, <2>4, <2>5 DEF ServedOK
<1> QED
  BY <1>5, <1>6 DEF Served

(* So every step of a task keeps what is sound.                            *)
LEMMA TaskServed ==
  ASSUME IInv, Roles, Served, NEW c \in Conns, Task(c), UNCHANGED rvars
  PROVE  Served' /\ UNCHANGED <<count, who>>
<1>1. CASE \/ ReadFails(c) \/ ReadTimeout(c) \/ HandleBye(c) \/ WriteFails(c)
           \/ LockPanic(c) \/ IsyncPanic(c) \/ InsertPanic(c)
  <2>1. DropTask(c)
    BY <1>1 DEF ReadFails, ReadTimeout, HandleBye, WriteFails, LockPanic,
                IsyncPanic, InsertPanic, HandleStreamEnds, Panic
  <2> QED
    BY <2>1, DropServed
<1>2. CASE ReadReq(c)
  BY <1>2, ReadServed DEF ReadReq, clientVars
<1>3. CASE \/ HandlePing(c) \/ HandleIsync(c) \/ HandleIsyncNotFound(c)
           \/ HandleFsync(c) \/ HandleRsyncHere(c) \/ HandleRsync(c)
  <2>1. UNCHANGED <<count, who>>
    BY <1>3 DEF HandlePing, HandleIsync, HandleIsyncNotFound, HandleFsync,
                HandleRsyncHere, HandleRsync, clientVars
  <2> QED
    BY <1>3, <2>1, CmdServed
<1>4. CASE ForwardDone(c) \/ RegisterSource(c) \/ WriteDone(c)
  <2>1. UNCHANGED <<count, who>>
    BY <1>4 DEF ForwardDone, RegisterSource, WriteDone, clientVars
  <2> QED
    BY <1>4, <2>1, ForwardServed, RegisterServed
<1> QED
  BY <1>1, <1>2, <1>3, <1>4 DEF Task, ReadReqs, HandleCmds

-----------------------------------------------------------------------------
(* The steps of the clients.                                               *)

(* The clients touch the sockets only: they write sound requests and read  *)
(* responses.                                                              *)
LEMMA ClientServed ==
  ASSUME Roles, Served, Grows,
         UNCHANGED <<peer_id, queue, pc, cur, to, resp>>,
         \A c \in Conns :
           \/ inbox'[c] = inbox[c]
           \/ \E r \in SoundReq(c) : inbox'[c] = Append(inbox[c], r),
         \A c \in Conns :
           \/ out'[c] = out[c] \/ out'[c] = <<>>
           \/ out[c] # <<>> /\ out'[c] = Tail(out[c])
  PROVE  Served'
<1> SUFFICES ASSUME NEW c \in Conns PROVE ServedOK(c)'
  BY DEF Served
<1>1. ServedOK(c)
  BY DEF Served
<1>2. /\ SoundReq(c) \subseteq SoundReq(c)'
      /\ SoundResp(c) \subseteq SoundResp(c)'
  BY SoundKept
<1>3. queue[c] \in Seq(SoundReq(c)) /\ inbox'[c] \in Seq(SoundReq(c))
  <2>1. queue[c] \in Seq(SoundReq(c)) /\ inbox[c] \in Seq(SoundReq(c))
    BY <1>1 DEF ServedOK
  <2>2. ASSUME NEW r \in SoundReq(c)
        PROVE  Append(inbox[c], r) \in Seq(SoundReq(c))
    BY <2>1
  <2> QED
    BY <2>1, <2>2
<1>4. out'[c] \in Seq(SoundResp(c))
  <2>1. out[c] \in Seq(SoundResp(c))
    BY <1>1 DEF ServedOK
  <2>2. out[c] # <<>> => Tail(out[c]) \in Seq(SoundResp(c))
    BY <2>1
  <2>3. <<>> \in Seq(SoundResp(c))
    OBVIOUS
  <2> QED
    BY <2>1, <2>2, <2>3
<1>5. /\ queue'[c] \in Seq(SoundReq(c)') /\ inbox'[c] \in Seq(SoundReq(c)')
      /\ out'[c] \in Seq(SoundResp(c)')
  BY <1>2, <1>3, <1>4, SeqMono
<1>6. peer_id'[c] \in {NoId, who'[c]}
  BY <1>1 DEF ServedOK, Grows
<1> QED
  BY <1>1, <1>2, <1>5, <1>6 DEF ServedOK

(* A call that has returned an address keeps its reason.                   *)
LEMMA AnsweredKept ==
  ASSUME Roles, AnsweredBeforeRedirect, TriedOK, Grows, result' = result,
         RTypeOK
  PROVE  AnsweredBeforeRedirect'
<1> USE ServerAssumption, RendezvousAssumption
<1> SUFFICES ASSUME NEW c \in Conns, result[c] # NoConn
             PROVE  \E d \in 1 .. c :
                      /\ who'[d] = who'[c] /\ target'[d] = who'[result[c]]
                      /\ <<who'[result[c]], d>> \in tried'
  BY DEF AnsweredBeforeRedirect
<1>1. result[c] \in Conns
  BY DEF RTypeOK, Addrs
<1>2. PICK d \in 1 .. c : /\ who[d] = who[c] /\ target[d] = who[result[c]]
                         /\ <<who[result[c]], d>> \in tried
  BY DEF AnsweredBeforeRedirect
<1>3. who[c] # NoId /\ d \in Conns
  BY <1>2, CallerKnown DEF Roles, RoleOK, Conns
<1>4. d \in Conns /\ Asks(d, who[result[c]]) /\ who[result[c]] # NoId
  <2>1. <<who[result[c]], d>>[1] = who[result[c]] /\ <<who[result[c]], d>>[2] = d
    OBVIOUS
  <2> QED
    BY <1>2, <1>3, <2>1 DEF TriedOK, Asks, Calling
<1>5. who'[c] = who[c] /\ who'[d] = who[d] /\ who'[result[c]] = who[result[c]]
  BY <1>1, <1>2, <1>3, <1>4 DEF Grows
<1>6. target'[d] = who[result[c]]
  BY <1>4, AsksKept
<1> QED
  BY <1>2, <1>5, <1>6 DEF Grows

(* What read_loop and write_loop hand over stays true.                     *)
LEMMA PendKept ==
  ASSUME Roles, PendOK, Grows,
         \A c \in Conns : pend'[c] \in Seq(SoundCmd(c)),
         \A c \in Conns : \/ reply'[c] \in {NoId, reply[c]}
                          \/ AnsweredFor(who[c], reply[c])'
  PROVE  PendOK'
<1> SUFFICES ASSUME NEW c \in Conns
             PROVE  /\ pend'[c] \in Seq(SoundCmd(c)')
                    /\ reply'[c] # NoId => AnsweredFor(who[c], reply[c])'
  BY DEF PendOK
<1>1. pend'[c] \in Seq(SoundCmd(c)')
  BY SoundKept, SeqMono
<1>2. ASSUME reply'[c] # NoId, reply'[c] = reply[c]
      PROVE  AnsweredFor(who[c], reply[c])'
  <2>1. AnsweredFor(who[c], reply[c])
    BY <1>2 DEF PendOK
  <2>2. who'[c] = who[c]
    BY <2>1, AnsweredIds DEF Grows
  <2> QED
    BY <1>2, <2>1, <2>2, AnsweredForKept
<1> QED
  BY <1>1, <1>2

(* A client connects to the server, to listen or for connect(): nothing    *)
(* referred to its connection before.                                      *)
LEMMA StartStep ==
  ASSUME IInv, RInv, NEW i \in Ids, Accept(i),
         UNCHANGED <<reply, tried, result>>,
         NEW s \in {"listening", "connecting"}, NEW t \in AnyId,
         phase' = [phase EXCEPT ![count + 1] = s],
         target' = [target EXCEPT ![count + 1] = t],
         \/ /\ s = "listening" /\ t = NoId /\ i \in Listeners
            /\ pend' = [pend EXCEPT ![count + 1] = <<PingCmd>>]
         \/ /\ s = "connecting" /\ t \in Listeners /\ i \in Connectors
            /\ NoneIn(i, {"connecting", "waiting", "returned"})
            /\ pend' = pend
  PROVE  RInv'
<1> USE ServerAssumption, RendezvousAssumption
<1> DEFINE n == count + 1
<1>1. /\ n \in Conns /\ count \in Nat /\ count' = n /\ who[n] = NoId
      /\ who' = [who EXCEPT ![n] = i] /\ who \in [Conns -> AnyId]
      /\ UNCHANGED <<peer_id, queue, pc, cur, to, resp, inbox, out>>
  BY DEF IInv, TypeOK, Accepted, Accept, Conns, AnyId, handlerVars
<1>2. RTypeOK /\ Roles /\ LatestCall /\ TriedOK /\ PendOK /\ Served
      /\ AnsweredBeforeRedirect
  BY DEF RInv
<1>3. /\ ~ Calling(n) /\ phase[n] = "unused" /\ result[n] = NoConn
      /\ \A d \in Conns : Calling(d) => d <= count
  BY <1>1, <1>2 DEF Roles, RoleOK, Conns, Calling
<1>4. /\ target \in [Conns -> AnyId] /\ result \in [Conns -> Addrs]
      /\ phase \in [Conns -> {"unused", "listening", "connecting", "waiting",
                              "returned", "closed"}]
      /\ pend \in [Conns -> Seq(ReqCmd)]
      /\ \A c \in Conns : Len(pend[c]) <= PendCap
  BY <1>2 DEF RTypeOK
<1>5. /\ \A d \in Conns : d # n =>
           /\ who'[d] = who[d] /\ target'[d] = target[d]
           /\ phase'[d] = phase[d] /\ pend'[d] = pend[d]
      /\ who'[n] = i /\ target'[n] = t /\ phase'[n] = s
  BY <1>1, <1>4
<1>6. Grows
  BY <1>1, <1>3, <1>5 DEF Grows, Calling
<1>7. Served'
  BY <1>1, <1>2, <1>6, ClientServed
<1>8. AnsweredBeforeRedirect'
  BY <1>2, <1>6, AnsweredKept
<1>9. PingCmd \in ReqCmd /\ PingCmd \in SoundCmd(n)
  BY DEF PingCmd, SoundCmd, ReqCmd, AnyId
<1>10. /\ pend'[n] \in Seq(SoundCmd(n)) /\ pend'[n] \in Seq(ReqCmd)
       /\ Len(pend'[n]) <= PendCap
  <2>1. CASE pend' = [pend EXCEPT ![count + 1] = <<PingCmd>>]
    <3>1. pend'[n] = <<PingCmd>>
      BY <1>1, <1>4, <2>1
    <3>2. /\ <<PingCmd>> \in Seq(SoundCmd(n)) /\ <<PingCmd>> \in Seq(ReqCmd)
          /\ Len(<<PingCmd>>) = 1
      BY <1>9
    <3> QED
      BY <3>1, <3>2
  <2>2. CASE pend' = pend
    BY <1>1, <1>2, <1>4, <2>2 DEF PendOK
  <2> QED
    BY <2>1, <2>2
<1>11. PendOK'
  <2>1. \A c \in Conns : pend'[c] \in Seq(SoundCmd(c))
    BY <1>2, <1>5, <1>10 DEF PendOK
  <2> QED
    BY <1>2, <1>6, <2>1, PendKept
<1>12. RTypeOK'
  <2>1. pend' \in [Conns -> Seq(ReqCmd)]
    <3>1. <<PingCmd>> \in Seq(ReqCmd)
      BY <1>9
    <3> QED
      BY <1>1, <1>4, <3>1
  <2>2. \A c \in Conns : Len(pend'[c]) <= PendCap
    BY <1>4, <1>5, <1>10
  <2>3. /\ phase' \in [Conns -> {"unused", "listening", "connecting",
                                 "waiting", "returned", "closed"}]
        /\ target' \in [Conns -> AnyId]
    BY <1>1, <1>4
  <2> QED
    BY <1>2, <2>1, <2>2, <2>3 DEF RTypeOK
<1>13. TriedOK'
  <2> SUFFICES ASSUME NEW h \in tried PROVE Asks(h[2], h[1])'
    BY DEF TriedOK
  <2>1. h[2] \in Conns /\ Asks(h[2], h[1])
    BY <1>2 DEF TriedOK, RTypeOK
  <2> QED
    BY <1>6, <2>1, AsksKept DEF Asks
<1>14. Roles'
  <2> SUFFICES ASSUME NEW c \in Conns PROVE RoleOK(c)'
    BY DEF Roles
  <2>1. CASE c = n
    BY <1>1, <1>3, <1>5, <2>1 DEF RoleOK, Calling
  <2>2. CASE c # n
    <3>1. c > count' => c > count
      BY <1>1 DEF Conns
    <3>2. c <= count' => c <= count
      BY <1>1, <2>2 DEF Conns
    <3> QED
      BY <1>2, <1>5, <2>2, <3>1, <3>2 DEF Roles, RoleOK, Calling
  <2> QED
    BY <2>1, <2>2
<1>15. LatestCall'
  <2> SUFFICES ASSUME NEW c \in Conns, NEW d \in Conns,
                      phase'[c] \in {"connecting", "waiting", "returned"},
                      Calling(d)', who'[d] = who'[c]
               PROVE  d <= c
    BY DEF LatestCall
  <2>1. CASE d # n /\ c # n
    BY <1>2, <1>5, <2>1 DEF LatestCall, Calling
  <2>2. CASE c = n
    <3>1. d = n \/ d <= count
      BY <1>3, <1>5 DEF Calling
    <3> QED
      BY <1>1, <2>2, <3>1 DEF Conns
  <2>3. CASE d = n /\ c # n
    <3>1. s = "connecting"
      BY <1>5, <2>3 DEF Calling
    <3>2. who[c] = i /\ phase[c] \in {"connecting", "waiting", "returned"}
      BY <1>5, <2>3
    <3> QED
      BY <3>1, <3>2 DEF NoneIn
  <2> QED
    BY <2>1, <2>2, <2>3
<1> QED
  BY <1>7, <1>8, <1>11, <1>12, <1>13, <1>14, <1>15 DEF RInv

(* What the client of connection c is doing changes: a call is made once,  *)
(* and a new one of the same identity only when it is over.                *)
PhaseMoves(c) ==
  \/ UNCHANGED <<phase, result>>
  \/ /\ phase[c] # "unused"
     /\ phase' = [phase EXCEPT ![c] = "closed"]
     /\ UNCHANGED result
  \/ /\ phase[c] = "connecting"
     /\ phase' = [phase EXCEPT ![c] = "waiting"]
     /\ UNCHANGED result
  \/ /\ phase[c] = "waiting"
     /\ phase' = [phase EXCEPT ![c] = "returned"]
     /\ \E a \in Addrs : result' = [result EXCEPT ![c] = a]

(* Roles do not change with it.                                            *)
LEMMA RolesKept ==
  ASSUME IInv, RTypeOK, Roles, LatestCall, NEW c \in Conns,
         UNCHANGED <<count, who, target>>, PhaseMoves(c)
  PROVE  /\ Roles' /\ LatestCall'
         /\ phase' \in [Conns -> {"unused", "listening", "connecting",
                                  "waiting", "returned", "closed"}]
         /\ result' \in [Conns -> Addrs]
<1>1. /\ phase \in [Conns -> {"unused", "listening", "connecting", "waiting",
                              "returned", "closed"}]
      /\ result \in [Conns -> Addrs]
  BY DEF RTypeOK
<1>2. /\ phase' \in [Conns -> {"unused", "listening", "connecting",
                               "waiting", "returned", "closed"}]
      /\ result' \in [Conns -> Addrs]
  BY <1>1 DEF PhaseMoves
<1>3. \A d \in Conns : d # c => phase'[d] = phase[d] /\ result'[d] = result[d]
  BY <1>1 DEF PhaseMoves
<1>4. \A d \in Conns : Calling(d)' <=> Calling(d)
  BY DEF Calling
<1>5. ASSUME NEW d \in Conns PROVE RoleOK(d)'
  <2>0. RoleOK(d)
    BY DEF Roles
  <2>1. CASE d # c
    BY <1>3, <1>4, <2>0, <2>1 DEF RoleOK
  <2>2. CASE d = c
    <3>1. c <= count \/ phase' = phase
      <4>1. c \in Nat /\ count \in Nat
        BY ServerAssumption DEF IInv, TypeOK, Conns
      <4> QED
        BY <2>0, <2>2, <4>1 DEF RoleOK, PhaseMoves
    <3>2. c > count => phase'[c] = "unused"
      BY <2>0, <2>2, <3>1, ServerAssumption
         DEF RoleOK, IInv, TypeOK, Conns
    <3> QED
      BY <1>1, <1>4, <2>0, <2>2, <3>2 DEF RoleOK, PhaseMoves
  <2> QED
    BY <2>1, <2>2
<1>6. \A d \in Conns :
        phase'[d] \in {"connecting", "waiting", "returned"}
          => phase[d] \in {"connecting", "waiting", "returned"}
  BY <1>1 DEF PhaseMoves
<1> QED
  BY <1>2, <1>4, <1>5, <1>6 DEF Roles, LatestCall

(* A step of the client of connection c, its connection being there.       *)
LEMMA MoveStep ==
  ASSUME IInv, RInv, NEW c \in Conns,
         UNCHANGED <<count, who, target, peer_id, queue, pc, cur, to, resp>>,
         tried \subseteq tried', tried' \subseteq Ids \X Conns, TriedOK',
         \/ inbox' = inbox
         \/ \E r \in SoundReq(c) :
              inbox' = [inbox EXCEPT ![c] = Append(inbox[c], r)],
         \/ out' = out \/ out' = [out EXCEPT ![c] = <<>>]
         \/ out[c] # <<>> /\ out' = [out EXCEPT ![c] = Tail(out[c])],
         \/ pend' = pend
         \/ \E p \in Seq(SoundCmd(c)) :
              Len(p) <= PendCap /\ pend' = [pend EXCEPT ![c] = p],
         \/ reply' = reply \/ reply' = [reply EXCEPT ![c] = NoId]
         \/ /\ \E i \in Ids : reply' = [reply EXCEPT ![c] = i]
            /\ AnsweredFor(who[c], reply[c])',
         PhaseMoves(c),
         result' = result \/ AnsweredBeforeRedirect'
  PROVE  RInv'
<1>1. RTypeOK /\ Roles /\ LatestCall /\ TriedOK /\ PendOK /\ Served
      /\ AnsweredBeforeRedirect
  BY DEF RInv
<1>2. Grows
  BY DEF Grows, Calling
<1>3. /\ inbox \in [Conns -> Seq(Request)] /\ out \in [Conns -> Seq(Response)]
      /\ pend \in [Conns -> Seq(ReqCmd)] /\ reply \in [Conns -> AnyId]
      /\ \A d \in Conns : Len(pend[d]) <= PendCap
  BY <1>1 DEF IInv, TypeOK, RTypeOK
<1>4. Served'
  <2>1. \A d \in Conns :
          \/ inbox'[d] = inbox[d]
          \/ \E r \in SoundReq(d) : inbox'[d] = Append(inbox[d], r)
    BY <1>3
  <2>2. \A d \in Conns :
          \/ out'[d] = out[d] \/ out'[d] = <<>>
          \/ out[d] # <<>> /\ out'[d] = Tail(out[d])
    BY <1>3
  <2> QED
    BY <1>1, <1>2, <2>1, <2>2, ClientServed
<1>5. PendOK'
  <2>1. \A d \in Conns : pend'[d] \in Seq(SoundCmd(d))
    BY <1>1, <1>3 DEF PendOK
  <2>2. ASSUME NEW d \in Conns
        PROVE  \/ reply'[d] \in {NoId, reply[d]}
               \/ AnsweredFor(who[d], reply[d])'
    <3>1. d # c => reply'[d] = reply[d]
      BY <1>3
    <3> QED
      BY <1>3, <3>1
  <2> QED
    BY <1>1, <1>2, <2>1, <2>2, PendKept
<1>6. RTypeOK'
  <2>1. SoundCmd(c) \subseteq ReqCmd
    BY DEF SoundCmd
  <2>2. \A p \in Seq(SoundCmd(c)) : p \in Seq(ReqCmd)
    BY <2>1, SeqMono
  <2>3. /\ pend' \in [Conns -> Seq(ReqCmd)]
        /\ \A d \in Conns : Len(pend'[d]) <= PendCap
    BY <1>3, <2>2
  <2>4. reply' \in [Conns -> AnyId]
    BY <1>3 DEF AnyId
  <2>5. target' \in [Conns -> AnyId]
    BY <1>1 DEF RTypeOK
  <2> QED
    BY <1>1, <2>3, <2>4, <2>5, RolesKept DEF RTypeOK
<1>7. AnsweredBeforeRedirect'
  BY <1>1, <1>2, AnsweredKept
<1> QED
  BY <1>1, <1>4, <1>5, <1>6, <1>7, RolesKept DEF RInv

(* The steps of a listening client.                                        *)
LEMMA ListenerStep ==
  ASSUME IInv, RInv, NEW c \in Conns, Listener(c)
  PROVE  RInv'
<1> USE ServerAssumption, RendezvousAssumption
<1>0. /\ tried \subseteq Ids \X Conns /\ TriedOK /\ Roles
      /\ pend[c] \in Seq(SoundCmd(c)) /\ Len(pend[c]) <= PendCap
      /\ reply[c] # NoId => AnsweredFor(who[c], reply[c])
      /\ reply[c] \in AnyId /\ phase[c] = "listening"
  BY DEF RInv, RTypeOK, PendOK, Listener, ListenerWrite, ListenerPing,
         ListenerRead, ListenerReply, ListenerBroken
<1>1. c <= count /\ who[c] \in Listeners /\ who[c] \in Ids
  <2>1. c \in Nat /\ count \in Nat
    BY DEF IInv, TypeOK, Conns
  <2> QED
    BY <1>0, <2>1 DEF Roles, RoleOK
<1>2. UNCHANGED <<tried, target>> => TriedOK'
  BY <1>0 DEF TriedOK, Asks, Calling
<1>3. ASSUME NEW m \in SoundCmd(c)
      PROVE  ReqOf(c, m) \in SoundReq(c)
  BY <1>1 DEF ReqOf, SoundCmd, SoundReq, ReqCmd, PingCmd, Request, Cmds,
              AnyId, Addrs
<1>4. CASE ListenerWrite(c)
  <2>1. /\ pend[c] # <<>>
        /\ inbox' = [inbox EXCEPT ![c] =
                       Append(inbox[c], ReqOf(c, Head(pend[c])))]
        /\ pend' = [pend EXCEPT ![c] = Tail(pend[c])]
        /\ UNCHANGED <<count, who, target, peer_id, queue, pc, cur, to, resp,
                       out, phase, reply, tried, result>>
    BY <1>4 DEF ListenerWrite, ClientSend, handlerVars
  <2>2. /\ Head(pend[c]) \in SoundCmd(c) /\ Tail(pend[c]) \in Seq(SoundCmd(c))
        /\ Len(Tail(pend[c])) <= PendCap
    BY <1>0, <2>1
  <2>3. ReqOf(c, Head(pend[c])) \in SoundReq(c)
    BY <1>3, <2>2
  <2> QED
    BY <1>0, <1>2, <2>1, <2>2, <2>3, MoveStep DEF PhaseMoves
<1>5. CASE ListenerPing(c)
  <2>1. /\ inbox' = [inbox EXCEPT ![c] = Append(inbox[c], ReqOf(c, PingCmd))]
        /\ UNCHANGED <<count, who, target, peer_id, queue, pc, cur, to, resp,
                       out, phase, pend, reply, tried, result>>
    BY <1>5 DEF ListenerPing, ClientSend, handlerVars, rvars
  <2>2. PingCmd \in SoundCmd(c)
    BY DEF PingCmd, SoundCmd, ReqCmd, AnyId
  <2>3. ReqOf(c, PingCmd) \in SoundReq(c)
    BY <1>3, <2>2
  <2> QED
    BY <1>0, <1>2, <2>1, <2>3, MoveStep DEF PhaseMoves
<1>6. CASE ListenerRead(c)
  <2>0. PICK r : r = Head(out[c])
    OBVIOUS
  <2>1. /\ out[c] # <<>> /\ out' = [out EXCEPT ![c] = Tail(out[c])]
        /\ \/ /\ r.cmd = "Fsync"
              /\ tried' = tried \cup {<<who[c], r.addr>>}
              /\ reply' = [reply EXCEPT ![c] = r.peer]
           \/ UNCHANGED <<tried, reply>>
        /\ UNCHANGED <<count, who, target, peer_id, queue, pc, cur, to, resp,
                       inbox, phase, pend, result>>
    BY <1>6, <2>0 DEF ListenerRead, ClientRead, handlerVars, clientVars
  <2>2. r \in GoodResp /\ r \in SoundResp(c)
    <3>1. out[c] \in Seq(GoodResp) /\ out[c] \in Seq(SoundResp(c))
      BY DEF IInv, HandlersOK, HandlerOK, RInv, Served, ServedOK
    <3> QED
      BY <2>0, <2>1, <3>1
  <2>3. CASE UNCHANGED <<tried, reply>>
    BY <1>0, <1>2, <2>1, <2>3, MoveStep DEF PhaseMoves
  <2>4. CASE /\ r.cmd = "Fsync"
             /\ tried' = tried \cup {<<who[c], r.addr>>}
             /\ reply' = [reply EXCEPT ![c] = r.peer]
    <3>1. r.addr \in Conns /\ Asks(r.addr, who[c])
      BY <2>2, <2>4 DEF SoundResp
    <3>2. r.peer \in Ids /\ who[r.addr] = r.peer
      BY <2>2, <3>1 DEF GoodResp, Conns, NoConn
    <3>3. tried' \subseteq Ids \X Conns /\ tried \subseteq tried'
      BY <1>0, <1>1, <2>4, <3>1
    <3>4. /\ Calling(r.addr)' /\ target'[r.addr] = who[c]
          /\ who'[r.addr] = r.peer
      BY <2>1, <3>1, <3>2 DEF Asks, Calling
    <3>5. TriedOK'
      <4> SUFFICES ASSUME NEW h \in tried' PROVE Asks(h[2], h[1])'
        BY DEF TriedOK
      <4>1. CASE h \in tried
        BY <1>0, <2>1, <4>1 DEF TriedOK, Asks, Calling
      <4>2. CASE h = <<who[c], r.addr>>
        <5>1. h[1] = who[c] /\ h[2] = r.addr
          BY <4>2
        <5> QED
          BY <2>1, <3>1, <5>1 DEF Asks, Calling
      <4> QED
        BY <2>4, <4>1, <4>2
    <3>6. AnsweredFor(who[c], reply[c])'
      <4>1. reply'[c] = r.peer /\ who'[c] = who[c]
        BY <2>1, <2>4 DEF RInv, RTypeOK
      <4>2. <<who'[c], r.addr>> \in tried'
        BY <2>4, <4>1
      <4> QED
        BY <1>1, <3>1, <3>4, <4>1, <4>2 DEF AnsweredFor, Asks
    <3> QED
      BY <2>1, <2>4, <3>2, <3>3, <3>5, <3>6, MoveStep DEF PhaseMoves
  <2> QED
    BY <2>1, <2>3, <2>4
<1>7. CASE ListenerReply(c)
  <2>1. /\ reply[c] # NoId /\ Len(pend[c]) < PendCap
        /\ pend' = [pend EXCEPT ![c] = Append(pend[c], RsyncCmd(reply[c]))]
        /\ reply' = [reply EXCEPT ![c] = NoId]
        /\ UNCHANGED <<count, who, target, peer_id, queue, pc, cur, to, resp,
                       inbox, out, phase, tried, result>>
    BY <1>7 DEF ListenerReply, vars, handlerVars, clientVars
  <2>2. RsyncCmd(reply[c]) \in SoundCmd(c)
    BY <1>0, <2>1 DEF RsyncCmd, SoundCmd, ReqCmd
  <2>3. /\ Append(pend[c], RsyncCmd(reply[c])) \in Seq(SoundCmd(c))
        /\ Len(Append(pend[c], RsyncCmd(reply[c]))) <= PendCap
    BY <1>0, <2>1, <2>2
  <2> QED
    BY <1>0, <1>2, <2>1, <2>3, MoveStep DEF PhaseMoves
<1>8. CASE ListenerBroken(c)
  <2>1. /\ phase' = [phase EXCEPT ![c] = "closed"]
        /\ pend' = [pend EXCEPT ![c] = <<>>]
        /\ reply' = [reply EXCEPT ![c] = NoId]
        /\ UNCHANGED <<count, who, target, peer_id, queue, pc, cur, to, resp,
                       inbox, out, tried, result>>
    BY <1>8 DEF ListenerBroken, vars, handlerVars, clientVars
  <2>2. <<>> \in Seq(SoundCmd(c)) /\ Len(<<>>) <= PendCap
    OBVIOUS
  <2> QED
    BY <1>0, <1>2, <2>1, <2>2, MoveStep DEF PhaseMoves
<1> QED
  BY <1>4, <1>5, <1>6, <1>7, <1>8 DEF Listener

(* connect() reads its response.  A Redirect has the address of a listener *)
(* that has answered a connection of this identity; that connection is not *)
(* a later one, since this call is not over.                               *)
LEMMA RedirectAnswered ==
  ASSUME IInv, RInv, NEW c \in Conns, ConnectorRead(c)
  PROVE  AnsweredBeforeRedirect'
<1> USE ServerAssumption, RendezvousAssumption
<1>0. PICK r : r = Head(out[c])
  OBVIOUS
<1>1. /\ phase[c] = "waiting" /\ out[c] # <<>>
      /\ result' = [result EXCEPT ![c] = IF r.cmd = "Redirect" THEN r.addr
                                                              ELSE NoConn]
      /\ UNCHANGED <<who, target, tried>>
  BY <1>0 DEF ConnectorRead, ClientRead, clientVars
<1>2. r \in GoodResp /\ r \in SoundResp(c)
  <2>1. out[c] \in Seq(GoodResp) /\ out[c] \in Seq(SoundResp(c))
    BY DEF IInv, HandlersOK, HandlerOK, RInv, Served, ServedOK
  <2> QED
    BY <1>0, <1>1, <2>1
<1> SUFFICES ASSUME NEW e \in Conns, result'[e] # NoConn
             PROVE  \E d \in 1 .. e :
                      /\ who[d] = who[e] /\ target[d] = who[result'[e]]
                      /\ <<who[result'[e]], d>> \in tried
  BY <1>1 DEF AnsweredBeforeRedirect
<1>3. result \in [Conns -> Addrs]
  BY DEF RInv, RTypeOK
<1>4. CASE e # c
  <2>1. result'[e] = result[e]
    BY <1>1, <1>3, <1>4
  <2> QED
    BY <2>1 DEF RInv, AnsweredBeforeRedirect
<1>5. CASE e = c
  <2>1. r.cmd = "Redirect" /\ result'[c] = r.addr /\ r.addr # NoConn
    BY <1>1, <1>3, <1>5
  <2>2. who[r.addr] = r.peer /\ AnsweredFor(r.peer, who[c])
    BY <1>2, <2>1 DEF GoodResp, SoundResp
  <2>3. PICK d \in Conns : /\ Calling(d) /\ target[d] = r.peer
                          /\ who[d] = who[c] /\ <<r.peer, d>> \in tried
    BY <2>2 DEF AnsweredFor, Asks
  <2>4. d <= c
    BY <1>1, <2>3 DEF RInv, LatestCall
  <2>5. d \in 1 .. c
    BY <2>4 DEF Conns
  <2> QED
    BY <1>5, <2>1, <2>2, <2>3, <2>5
<1> QED
  BY <1>4, <1>5

(* The steps of connect(), and the end of a process.                       *)
LEMMA ConnectorStep ==
  ASSUME IInv, RInv, NEW c \in Conns, Connector(c) \/ Killed(c)
  PROVE  RInv'
<1> USE ServerAssumption, RendezvousAssumption
<1>0. /\ tried \subseteq Ids \X Conns /\ TriedOK /\ Roles
      /\ <<>> \in Seq(SoundCmd(c)) /\ Len(<<>>) <= PendCap
  BY DEF RInv, RTypeOK
<1>1. UNCHANGED <<tried, target>> => TriedOK'
  BY <1>0 DEF TriedOK, Asks, Calling
<1>2. CASE ConnectorIsync(c)
  <2>1. /\ phase[c] = "connecting"
        /\ inbox' = [inbox EXCEPT ![c] =
                       Append(inbox[c], ReqOf(c, IsyncCmd(target[c])))]
        /\ phase' = [phase EXCEPT ![c] = "waiting"]
        /\ UNCHANGED <<count, who, target, peer_id, queue, pc, cur, to, resp,
                       out, pend, reply, tried, result>>
    BY <1>2 DEF ConnectorIsync, ClientSend, handlerVars
  <2>2. Calling(c) /\ target[c] \in Listeners /\ who[c] \in Ids
    BY <1>0, <2>1, CallerKnown DEF Roles, RoleOK
  <2>3. ReqOf(c, IsyncCmd(target[c])) \in SoundReq(c)
    BY <2>2 DEF ReqOf, IsyncCmd, SoundReq, Asks, Request, Cmds, AnyId, Addrs
  <2> QED
    BY <1>0, <1>1, <2>1, <2>3, MoveStep DEF PhaseMoves
<1>3. CASE ConnectorRead(c)
  <2>1. /\ phase[c] = "waiting" /\ out[c] # <<>>
        /\ out' = [out EXCEPT ![c] = Tail(out[c])]
        /\ phase' = [phase EXCEPT ![c] = "returned"]
        /\ result' = [result EXCEPT ![c] =
                        IF Head(out[c]).cmd = "Redirect" THEN Head(out[c]).addr
                                                         ELSE NoConn]
        /\ UNCHANGED <<count, who, target, peer_id, queue, pc, cur, to, resp,
                       inbox, pend, reply, tried>>
    BY <1>3 DEF ConnectorRead, ClientRead, handlerVars, clientVars
  <2>2. Head(out[c]).addr \in Addrs
    <3>1. out[c] \in Seq(Response)
      BY DEF IInv, TypeOK
    <3>2. Head(out[c]) \in Response
      BY <2>1, <3>1
    <3> QED
      BY <3>2 DEF Response
  <2>3. PhaseMoves(c)
    BY <2>1, <2>2 DEF PhaseMoves, Addrs
  <2> QED
    BY <1>0, <1>1, <1>3, <2>1, <2>3, RedirectAnswered, MoveStep
<1>4. CASE ConnectorFails(c)
  <2>1. /\ phase[c] # "unused" /\ phase' = [phase EXCEPT ![c] = "closed"]
        /\ UNCHANGED <<count, who, target, peer_id, queue, pc, cur, to, resp,
                       inbox, out, pend, reply, tried, result>>
    BY <1>4 DEF ConnectorFails, vars, handlerVars, clientVars
  <2> QED
    BY <1>0, <1>1, <2>1, MoveStep DEF PhaseMoves
<1>5. CASE ConnectorDrop(c)
  <2>1. /\ phase[c] # "unused" /\ phase' = [phase EXCEPT ![c] = "closed"]
        /\ out' = out \/ out' = [out EXCEPT ![c] = <<>>]
        /\ UNCHANGED <<count, who, target, peer_id, queue, pc, cur, to, resp,
                       inbox, pend, reply, tried, result>>
    BY <1>5 DEF ConnectorDrop, ClientClose, vars, handlerVars, clientVars
  <2> QED
    BY <1>0, <1>1, <2>1, MoveStep DEF PhaseMoves
<1>6. CASE Killed(c)
  <2>1. /\ phase[c] # "unused" /\ phase' = [phase EXCEPT ![c] = "closed"]
        /\ pend' = [pend EXCEPT ![c] = <<>>]
        /\ reply' = [reply EXCEPT ![c] = NoId]
        /\ out' = [out EXCEPT ![c] = <<>>]
        /\ UNCHANGED <<count, who, target, peer_id, queue, pc, cur, to, resp,
                       inbox, tried, result>>
    BY <1>6 DEF Killed, ClientClose, handlerVars
  <2> QED
    BY <1>0, <1>1, <2>1, MoveStep DEF PhaseMoves
<1> QED
  BY <1>2, <1>3, <1>4, <1>5, <1>6 DEF Connector

-----------------------------------------------------------------------------
(* Every step of the composition is a step of the server with its clients  *)
(* as the environment: what they write is what TcpServer allows.           *)
LEMMA ServerStep ==
  ASSUME IInv, RInv, [RNext]_allVars
  PROVE  [Next]_vars
<1> USE ServerAssumption, RendezvousAssumption
<1>1. CASE UNCHANGED allVars
  BY <1>1 DEF allVars
<1>2. ASSUME NEW i \in Listeners, ListenerStart(i) PROVE Next
  BY <1>2 DEF ListenerStart, Next
<1>3. ASSUME NEW i \in Connectors, NEW t \in Listeners, ConnectorStart(i, t)
      PROVE  Next
  BY <1>3 DEF ConnectorStart, Next
<1>4. ASSUME NEW c \in Conns, Task(c) PROVE Next
  BY <1>4 DEF Next
<1>5. ASSUME NEW c \in Conns, NEW m \in ReqCmd, ClientSend(c, ReqOf(c, m)),
             m.cmd \in {"Isync", "Rsync"} <=> m.peer \in Ids
      PROVE  Next
  <2>1. ReqOf(c, m) \in ClientRequest(who[c])
    BY <1>5 DEF ReqOf, ReqCmd, ClientRequest
  <2> QED
    BY <1>5, <2>1 DEF Next, Client
<1>6. ASSUME NEW c \in Conns, Listener(c) PROVE [Next]_vars
  <2>1. CASE ListenerWrite(c)
    <3>1. pend[c] # <<>> /\ ClientSend(c, ReqOf(c, Head(pend[c])))
      BY <2>1 DEF ListenerWrite
    <3>2. pend[c] \in Seq(SoundCmd(c)) /\ Roles
      BY DEF RInv, PendOK
    <3>3. Head(pend[c]) \in SoundCmd(c)
      BY <3>1, <3>2
    <3>4. Head(pend[c]) \in ReqCmd /\
            (Head(pend[c]).cmd \in {"Isync", "Rsync"}
               <=> Head(pend[c]).peer \in Ids)
      BY <3>2, <3>3, AnsweredIds DEF SoundCmd, PingCmd
    <3> QED
      BY <1>5, <3>1, <3>4
  <2>2. CASE ListenerPing(c)
    <3>1. PingCmd \in ReqCmd /\ (PingCmd.cmd \in {"Isync", "Rsync"}
                                  <=> PingCmd.peer \in Ids)
      BY DEF PingCmd, ReqCmd, AnyId
    <3> QED
      BY <1>5, <2>2, <3>1 DEF ListenerPing
  <2>3. CASE ListenerRead(c)
    BY <2>3 DEF ListenerRead, Next, Client
  <2>4. CASE ListenerReply(c) \/ ListenerBroken(c)
    BY <2>4 DEF ListenerReply, ListenerBroken
  <2> QED
    BY <1>6, <2>1, <2>2, <2>3, <2>4 DEF Listener
<1>7. ASSUME NEW c \in Conns, Connector(c) \/ Killed(c) PROVE [Next]_vars
  <2>1. CASE ConnectorIsync(c)
    <3>1. phase[c] = "connecting" /\ ClientSend(c, ReqOf(c, IsyncCmd(target[c])))
      BY <2>1 DEF ConnectorIsync
    <3>2. target[c] \in Ids
      BY <3>1 DEF RInv, Roles, RoleOK
    <3>3. IsyncCmd(target[c]) \in ReqCmd /\
            (IsyncCmd(target[c]).cmd \in {"Isync", "Rsync"}
               <=> IsyncCmd(target[c]).peer \in Ids)
      BY <3>2 DEF IsyncCmd, ReqCmd, AnyId
    <3> QED
      BY <1>5, <3>1, <3>3
  <2>2. CASE ConnectorRead(c)
    BY <2>2 DEF ConnectorRead, Next, Client
  <2>3. CASE ConnectorFails(c)
    BY <2>3 DEF ConnectorFails
  <2>4. CASE ConnectorDrop(c) \/ Killed(c)
    BY <2>4 DEF ConnectorDrop, Killed, Next, Client
  <2> QED
    BY <1>7, <2>1, <2>2, <2>3, <2>4 DEF Connector
<1> QED
  BY <1>1, <1>2, <1>3, <1>4, <1>6, <1>7 DEF RNext

-----------------------------------------------------------------------------
(* Before the first client starts.                                         *)
LEMMA RendezvousInit == RInit => IInv /\ RInv
<1> SUFFICES ASSUME RInit PROVE IInv /\ RInv
  OBVIOUS
<1> USE ServerAssumption, RendezvousAssumption
<1>1. Init /\ IInv
  BY TcpInit DEF RInit
<1>2. RTypeOK
  <2>1. \A c \in Conns : pend[c] = <<>>
    BY DEF RInit
  <2>2. pend \in [Conns -> Seq(ReqCmd)]
    BY DEF RInit
  <2> QED
    BY <2>1, <2>2 DEF RInit, RTypeOK, AnyId, Addrs
<1>3. \A c \in Conns : ~ Calling(c) /\ phase[c] = "unused" /\ c > count
  BY <1>1 DEF RInit, Init, Calling, Conns
<1>4. Roles /\ LatestCall /\ TriedOK
  <2>1. \A c \in Conns : ~ (c <= count)
    BY <1>1 DEF Init, Conns
  <2> QED
    BY <1>3, <2>1 DEF RInit, Roles, RoleOK, LatestCall, TriedOK
<1>5. PendOK /\ AnsweredBeforeRedirect
  BY DEF RInit, PendOK, AnsweredBeforeRedirect
<1>6. Served
  <2> SUFFICES ASSUME NEW c \in Conns PROVE ServedOK(c)
    BY DEF Served
  <2>1. NoResp \in SoundResp(c)
    BY DEF NoResp, SoundResp, Response, AnyId, Addrs, NoConn
  <2> QED
    BY <1>1, <2>1 DEF Init, ServedOK
<1> QED
  BY <1>1, <1>2, <1>4, <1>5, <1>6 DEF RInv

(* A step that leaves the clients alone and serves well.                   *)
LEMMA ServerOnly ==
  ASSUME RInv, UNCHANGED rvars, UNCHANGED <<count, who>>, Served'
  PROVE  RInv'
<1>0. UNCHANGED <<phase, target, pend, reply, tried, result>>
  BY DEF rvars
<1>1. Grows /\ RTypeOK /\ Roles /\ LatestCall /\ TriedOK /\ PendOK
      /\ AnsweredBeforeRedirect
  BY <1>0 DEF RInv, Grows, Calling
<1>2. PendOK' /\ AnsweredBeforeRedirect'
  BY <1>0, <1>1, PendKept, AnsweredKept DEF PendOK
<1>3. RTypeOK' /\ Roles' /\ LatestCall' /\ TriedOK'
  BY <1>0, <1>1 DEF RTypeOK, Roles, RoleOK, LatestCall, TriedOK, Asks,
                      Calling
<1> QED
  BY <1>2, <1>3 DEF RInv

(* Every step of the server or of a client preserves the invariants.       *)
LEMMA RendezvousStep ==
  ASSUME IInv, RInv, [RNext]_allVars
  PROVE  IInv' /\ RInv'
<1> USE ServerAssumption, RendezvousAssumption
<1>1. IInv'
  BY ServerStep, TcpStep
<1>2. CASE UNCHANGED allVars
  <2>1. /\ UNCHANGED rvars /\ UNCHANGED <<count, who>>
        /\ UNCHANGED <<peer_id, queue, pc, cur, to, resp, inbox, out>>
    BY <1>2 DEF allVars, vars, handlerVars, clientVars
  <2>2. Served' /\ Roles
    BY <2>1, TaskGrows, ClientServed DEF RInv
  <2> QED
    BY <1>1, <2>1, <2>2, ServerOnly
<1>3. ASSUME NEW i \in Listeners, ListenerStart(i) PROVE RInv'
  <2>1. count + 1 \in Conns /\ target[count + 1] = NoId
    BY <1>3 DEF ListenerStart, Accept, IInv, TypeOK, RInv, Roles, RoleOK,
                Calling, Conns
  <2>2. target' = [target EXCEPT ![count + 1] = NoId]
    BY <1>3, <2>1 DEF ListenerStart, RInv, RTypeOK
  <2> QED
    BY <1>3, <2>2, StartStep DEF ListenerStart, AnyId
<1>4. ASSUME NEW i \in Connectors, NEW t \in Listeners, ConnectorStart(i, t)
      PROVE  RInv'
  BY <1>4, StartStep DEF ConnectorStart, AnyId
<1>5. ASSUME NEW c \in Conns, Task(c), UNCHANGED rvars PROVE RInv'
  BY <1>5, TaskServed, ServerOnly DEF RInv
<1> QED
  BY <1>1, <1>2, <1>3, <1>4, <1>5, ListenerStep, ConnectorStep DEF RNext

(* So they are invariants.                                                 *)
LEMMA RendezvousInvariant == RSpec => [](IInv /\ RInv)
<1>1. IInv /\ RInv /\ [RNext]_allVars => (IInv /\ RInv)'
  BY RendezvousStep
<1> QED
  BY <1>1, RendezvousInit, PTL DEF RSpec

(* The clients of src/src/tcp/client.rs keep to what TcpServer expects of  *)
(* its environment: with them, it behaves as that specification says, and  *)
(* the theorems about it hold.                                             *)
THEOREM TcpRendezvousServed == RSpec => Spec
<1>1. RInit => Init
  BY DEF RInit
<1>2. IInv /\ RInv /\ [RNext]_allVars => [Next]_vars
  BY ServerStep
<1> QED
  BY <1>1, <1>2, RendezvousInvariant, PTL DEF RSpec, Spec

(* The variables keep their types, and the channel between the threads of  *)
(* a listening client its capacity.                                        *)
THEOREM TcpRendezvousTypeCorrect == RSpec => []RTypeOK
<1>1. RInv => RTypeOK
  BY DEF RInv
<1> QED
  BY <1>1, RendezvousInvariant, PTL

(* connect() goes on only to a peer that was asked for by the same         *)
(* identity, in this call or an earlier one, and that had set out to send  *)
(* its packet to the client of that call; the attempt may have failed.     *)
THEOREM TcpAnsweredBeforeRedirect == RSpec => []AnsweredBeforeRedirect
<1>1. RInv => AnsweredBeforeRedirect
  BY DEF RInv
<1> QED
  BY <1>1, RendezvousInvariant, PTL

-----------------------------------------------------------------------------
(* Waiting for room in a channel, if no identity both listens and          *)
(* connects.                                                               *)

(* The rest of a sequence of one element.                                  *)
LEMMA TailOfOne ==
  ASSUME NEW S, NEW s \in Seq(S), Len(s) = 1
  PROVE  Tail(s) = <<>>
<1>1. Tail(s) \in Seq(S) /\ Len(Tail(s)) = 0
  <2>1. s # <<>>
    OBVIOUS
  <2> QED
    BY <2>1
<1> QED
  BY <1>1, EmptySeq

(* A connection that a step does not touch.                                *)
LEMMA SingleFrame ==
  ASSUME NEW d \in Conns, Single(d),
         inbox'[d] = inbox[d], queue'[d] = queue[d], pc'[d] = pc[d],
         peer_id'[d] = peer_id[d], who'[d] = who[d], target'[d] = target[d],
         phase'[d] = "connecting" => phase[d] = "connecting",
         d > count' => d > count
  PROVE  Single(d)'
BY DEF Single, OneIsyncOK, Untouched, Calling

(* The task of a connect() ends, reads the Isync, or completes a step.     *)
LEMMA SingleTask ==
  ASSUME IInv, RInv, OneIsync, NEW c \in Conns, status[c] = "running",
         UNCHANGED rvars, UNCHANGED <<count, who>>,
         \/ DropTask(c) \/ ReadReq(c) \/ RegisterSource(c) \/ WriteDone(c)
  PROVE  OneIsync'
<1> USE ServerAssumption
<1>0. /\ queue \in [Conns -> Seq(Request)] /\ inbox \in [Conns -> Seq(Request)]
      /\ pc \in [Conns -> {"recv", "forward", "register", "write"}]
      /\ peer_id \in [Conns -> AnyId] /\ ~ (c > count)
      /\ UNCHANGED <<phase, target>>
  BY DEF IInv, TypeOK, Accepted, Conns, rvars
<1>1. ASSUME NEW d \in Conns, d # c PROVE Single(d)'
  <2>1. /\ inbox'[d] = inbox[d] /\ queue'[d] = queue[d] /\ pc'[d] = pc[d]
        /\ peer_id'[d] = peer_id[d]
    BY <1>0, <1>1 DEF DropTask, ReadReq, RegisterSource, WriteDone,
                      InsertPeerstate
  <2> QED
    BY <1>0, <2>1, SingleFrame DEF OneIsync
<1>2. ASSUME Calling(c) PROVE OneIsyncOK(c)'
  <2>0. OneIsyncOK(c)
    BY <1>2 DEF OneIsync, Single
  <2>1. CASE DropTask(c)
    <3>1. /\ inbox'[c] = <<>> /\ queue'[c] = <<>> /\ pc'[c] = "recv"
          /\ peer_id' = peer_id
      BY <1>0, <2>1 DEF DropTask
    <3> QED
      BY <1>0, <2>0, <3>1 DEF OneIsyncOK, Untouched
  <2>2. CASE ReadReq(c)
    <3>1. /\ inbox[c] # <<>> /\ queue'[c] = Append(queue[c], Head(inbox[c]))
          /\ inbox'[c] = Tail(inbox[c]) /\ UNCHANGED <<pc, peer_id>>
      BY <1>0, <2>2 DEF ReadReq
    <3>2. /\ phase[c] # "connecting" /\ Len(inbox[c]) = 1 /\ queue[c] = <<>>
          /\ pc[c] = "recv" /\ peer_id[c] = NoId
      BY <2>0, <3>1 DEF OneIsyncOK, Untouched
    <3>3. inbox[c] \in Seq(Request)
      BY <1>0
    <3>4. inbox'[c] = <<>>
      BY <3>1, <3>2, <3>3, TailOfOne
    <3>5. Len(queue'[c]) = 1
      BY <3>1, <3>2
    <3> QED
      BY <1>0, <3>1, <3>2, <3>4, <3>5 DEF OneIsyncOK
  <2>3. CASE RegisterSource(c)
    <3>1. /\ pc[c] = "register" /\ pc'[c] = "recv"
          /\ UNCHANGED <<inbox, queue>>
      BY <1>0, <2>3 DEF RegisterSource
    <3>2. queue[c] = <<>> /\ inbox[c] = <<>> /\ phase[c] # "connecting"
      BY <2>0, <3>1 DEF OneIsyncOK, Untouched
    <3> QED
      BY <1>0, <3>1, <3>2 DEF OneIsyncOK
  <2>4. CASE WriteDone(c)
    <3>1. /\ pc[c] = "write" /\ pc'[c] = "recv"
          /\ UNCHANGED <<inbox, queue, peer_id>>
      BY <1>0, <2>4 DEF WriteDone
    <3> QED
      BY <1>0, <2>0, <3>1 DEF OneIsyncOK, Untouched
  <2> QED
    BY <2>1, <2>2, <2>3, <2>4
<1> QED
  BY <1>0, <1>1, <1>2 DEF OneIsync, Single, Calling

(* It handles a request: before it is registered, its only one; after it,  *)
(* an Rsync for its own client, which it answers and never forwards.       *)
LEMMA SingleCmd ==
  ASSUME IInv, RInv, OneIsync, NEW c \in Conns,
         UNCHANGED rvars, UNCHANGED <<count, who>>,
         \/ HandlePing(c) \/ HandleIsync(c) \/ HandleIsyncNotFound(c)
         \/ HandleFsync(c) \/ HandleRsyncHere(c) \/ HandleRsync(c)
  PROVE  OneIsync'
<1> USE ServerAssumption
<1>0. /\ queue \in [Conns -> Seq(Request)]
      /\ pc \in [Conns -> {"recv", "forward", "register", "write"}]
      /\ peer_id \in [Conns -> AnyId]
      /\ UNCHANGED <<phase, target>>
  BY DEF IInv, TypeOK, rvars
<1>1. /\ queue' = [queue EXCEPT ![c] = Tail(queue[c])] /\ UNCHANGED inbox
      /\ queue[c] # <<>> /\ pc[c] = "recv" /\ status[c] = "running"
  BY DEF HandlePing, HandleIsync, HandleIsyncNotFound, HandleFsync,
         HandleRsyncHere, HandleRsync, CmdReady, Take
<1>2. /\ pc' = pc \/ \E x \in {"write", "forward"} : pc' = [pc EXCEPT ![c] = x]
      /\ peer_id' = peer_id \/ \E i \in AnyId : peer_id' = [peer_id EXCEPT ![c] = i]
  <2>1. Head(queue[c]) \in Request
    BY <1>0, <1>1
  <2> QED
    BY <2>1 DEF HandlePing, HandleIsync, HandleIsyncNotFound, HandleFsync,
         HandleRsyncHere, HandleRsync, StartWrite, StartForward,
         InsertPeerstate, Request1, Request
<1>3. ASSUME NEW d \in Conns, d # c PROVE Single(d)'
  <2>1. /\ inbox'[d] = inbox[d] /\ queue'[d] = queue[d] /\ pc'[d] = pc[d]
        /\ peer_id'[d] = peer_id[d]
    BY <1>0, <1>1, <1>2, <1>3
  <2> QED
    BY <1>0, <2>1, SingleFrame DEF OneIsync
<1>4. ASSUME Calling(c) PROVE OneIsyncOK(c)'
  <2>0. OneIsyncOK(c) /\ queue[c] \in Seq(Request)
    BY <1>0, <1>4 DEF OneIsync, Single
  <2>1. inbox'[c] = <<>> /\ phase'[c] # "connecting" /\ queue'[c] = Tail(queue[c])
    BY <1>0, <1>1, <2>0 DEF OneIsyncOK, Untouched
  <2>2. CASE peer_id[c] = NoId
    <3>1. Len(queue[c]) = 1
      BY <1>1, <2>0, <2>2 DEF OneIsyncOK
    <3>2. queue'[c] = <<>>
      BY <2>0, <2>1, <3>1, TailOfOne
    <3>3. pc'[c] \in {"forward", "register"} => peer_id'[c] = NoId
      BY <1>0, <2>2, <1>1 DEF HandlePing, HandleIsync, HandleIsyncNotFound,
         HandleFsync, HandleRsyncHere, HandleRsync, StartWrite
    <3>4. \A k \in 1 .. Len(queue'[c]) : FALSE
      BY <3>2
    <3> QED
      BY <2>1, <3>2, <3>3, <3>4 DEF OneIsyncOK
  <2>3. CASE peer_id[c] # NoId
    <3>1. \A k \in 1 .. Len(queue[c]) :
            queue[c][k].cmd = "Rsync" /\ queue[c][k].peer = who[c]
      BY <2>0, <2>3 DEF OneIsyncOK
    <3>2. Head(queue[c]).cmd = "Rsync" /\ Head(queue[c]).peer = who[c]
      BY <1>1, <2>0, <3>1
    <3>3. peer_id[c] = who[c]
      BY <2>3 DEF RInv, Served, ServedOK
    <3>4. HandleRsyncHere(c)
      BY <3>2, <3>3 DEF HandlePing, HandleIsync, HandleIsyncNotFound,
                        HandleFsync, HandleRsync, CmdReady, Request1
    <3>5. pc'[c] \in {"recv", "write"} /\ peer_id'[c] # NoId
      BY <1>0, <1>1, <2>3, <3>4 DEF HandleRsyncHere, StartWrite
    <3>6. \A k \in 1 .. Len(Tail(queue[c])) :
            /\ Tail(queue[c])[k] = queue[c][k + 1]
            /\ k + 1 \in 1 .. Len(queue[c])
      BY <1>1, <2>0
    <3> QED
      BY <2>1, <3>1, <3>5, <3>6 DEF OneIsyncOK
  <2> QED
    BY <2>2, <2>3
<1>5. ~ (c > count)
  BY <1>1 DEF IInv, TypeOK, Accepted, Conns
<1> QED
  BY <1>0, <1>3, <1>4, <1>5 DEF OneIsync, Single, Calling

(* A forward completes.  The receiver is registered; if it is a connect(), *)
(* the request is an Rsync for its client, not an Isync for a listener.    *)
LEMMA SingleForward ==
  ASSUME IInv, RInv, OneIsync, Disjoint, NEW c \in Conns, ForwardDone(c),
         UNCHANGED rvars
  PROVE  OneIsync'
<1> USE ServerAssumption
<1>0. /\ queue \in [Conns -> Seq(Request)]
      /\ pc \in [Conns -> {"recv", "forward", "register", "write"}]
      /\ UNCHANGED <<phase, target, count, who, inbox, peer_id>>
      /\ Roles /\ Served
  BY DEF IInv, TypeOK, rvars, ForwardDone, clientVars, RInv
<1>1. PICK t, m : t = to[c] /\ m = Forwarded(c, cur[c])
  OBVIOUS
<1>2. /\ pc[c] = "forward" /\ pc' = [pc EXCEPT ![c] = pc'[c]]
      /\ pc'[c] \in {"recv", "register"}
      /\ queue' = queue \/ queue' = [queue EXCEPT ![t] = Append(queue[t], m)]
  BY <1>0, <1>1 DEF ForwardDone
<1>3. /\ t \in Conns /\ cur[c].cmd \in {"Isync", "Rsync"}
      /\ peer_id[t] # NoId /\ who[t] = cur[c].peer
  BY <1>0, <1>1, <1>2, ForwardPeer
<1>4. Calling(t) => m.cmd = "Rsync" /\ m.peer = who[t]
  <2>1. ASSUME cur[c].cmd = "Isync" PROVE ~ Calling(t)
    <3>1. cur[c].peer \in Listeners
      BY <1>0, <1>2, <2>1 DEF Served, ServedOK, SoundReq
    <3> QED
      BY <1>0, <1>3, <3>1, CallerKnown DEF Disjoint
  <2> QED
    BY <1>1, <1>3, <2>1 DEF Forwarded
<1>5. ~ (t > count)
  BY <1>3 DEF OneIsync, Single, Untouched
<1>6. ASSUME NEW d \in Conns PROVE Single(d)'
  <2>0. Single(d)
    BY DEF OneIsync
  <2>1. CASE d # c /\ d # t
    <3>1. queue'[d] = queue[d] /\ pc'[d] = pc[d]
      BY <1>0, <1>2, <2>1
    <3> QED
      BY <1>0, <3>1, SingleFrame, <2>0
  <2>2. CASE d = c /\ Calling(c)
    <3>1. OneIsyncOK(c)
      BY <2>0, <2>2 DEF Single
    <3>2. queue[c] = <<>> /\ peer_id[c] = NoId /\ inbox[c] = <<>>
          /\ phase[c] # "connecting" /\ ~ (c > count)
      BY <1>2, <2>0, <2>2, <3>1 DEF OneIsyncOK, Untouched, Single
    <3>3. queue'[c] = <<>>
      BY <1>0, <1>2, <1>3, <3>2
    <3> QED
      BY <1>0, <1>2, <2>2, <3>2, <3>3 DEF Single, OneIsyncOK
  <2>3. CASE d = c /\ ~ Calling(c)
    <3>1. ~ (c > count)
      BY <1>2, <2>0, <2>3 DEF Single, Untouched
    <3> QED
      BY <1>0, <2>3, <3>1 DEF Single, Calling
  <2>4. CASE d = t /\ d # c
    <3>1. pc'[t] = pc[t]
      BY <1>0, <1>2, <1>3, <2>4
    <3>2. ASSUME Calling(t) PROVE OneIsyncOK(t)'
      <4>1. OneIsyncOK(t)
        BY <2>0, <2>4, <3>2 DEF Single
      <4>2. /\ inbox[t] = <<>> /\ phase[t] # "connecting"
            /\ pc[t] \notin {"forward", "register"}
        BY <1>3, <4>1 DEF OneIsyncOK, Untouched
      <4>3. \A k \in 1 .. Len(queue'[t]) :
              queue'[t][k].cmd = "Rsync" /\ queue'[t][k].peer = who[t]
        <5>1. \A k \in 1 .. Len(queue[t]) :
                queue[t][k].cmd = "Rsync" /\ queue[t][k].peer = who[t]
          BY <1>3, <4>1 DEF OneIsyncOK
        <5>2. CASE queue' = queue
          BY <5>1, <5>2
        <5>3. CASE queue' = [queue EXCEPT ![t] = Append(queue[t], m)]
          <6>1. queue'[t] = Append(queue[t], m) /\ queue[t] \in Seq(Request)
            BY <1>0, <1>3, <5>3
          <6>2. /\ Len(queue'[t]) = Len(queue[t]) + 1 /\ Len(queue[t]) \in Nat
                /\ queue'[t][Len(queue[t]) + 1] = m
                /\ \A k \in 1 .. Len(queue[t]) : queue'[t][k] = queue[t][k]
            BY <6>1
          <6>3. \A k \in 1 .. Len(queue'[t]) :
                  k \in 1 .. Len(queue[t]) \/ k = Len(queue[t]) + 1
            BY <6>2
          <6> QED
            BY <1>4, <3>2, <5>1, <6>2, <6>3
        <5> QED
          BY <1>2, <5>2, <5>3
      <4> QED
        BY <1>0, <1>3, <3>1, <4>2, <4>3 DEF OneIsyncOK
    <3> QED
      BY <1>0, <1>5, <2>4, <3>2 DEF Single, Calling
  <2> QED
    BY <2>1, <2>2, <2>3, <2>4
<1> QED
  BY <1>6 DEF OneIsync

(* The clients.  connect() sends its Isync on an untouched connection; a   *)
(* listening client touches no connection of a connect().                  *)
LEMMA SingleClient ==
  ASSUME IInv, RInv, OneIsync, NEW c \in Conns,
         Listener(c) \/ Connector(c) \/ Killed(c)
  PROVE  OneIsync'
<1> USE ServerAssumption
<1>0. /\ inbox \in [Conns -> Seq(Request)] /\ RTypeOK /\ Roles
      /\ phase \in [Conns -> {"unused", "listening", "connecting", "waiting",
                              "returned", "closed"}]
  BY DEF IInv, TypeOK, RInv, RTypeOK
<1>1. UNCHANGED <<count, who, target, queue, pc, peer_id>>
  BY DEF Listener, Connector, ListenerWrite, ListenerPing, ListenerRead,
         ListenerReply, ListenerBroken, ConnectorIsync, ConnectorRead,
         ConnectorFails, ConnectorDrop, Killed, ClientSend, ClientRead,
         ClientClose, vars, handlerVars, clientVars, rvars
<1>2. \/ phase' = phase
      \/ \E x \in {"waiting", "returned", "closed"} :
           phase' = [phase EXCEPT ![c] = x]
  BY DEF Listener, Connector, ListenerWrite, ListenerPing, ListenerRead,
         ListenerReply, ListenerBroken, ConnectorIsync, ConnectorRead,
         ConnectorFails, ConnectorDrop, Killed, rvars
<1>3. \A d \in Conns : phase'[d] = "connecting" => phase[d] = "connecting"
  BY <1>0, <1>2
<1>4. CASE inbox' = inbox
  <2>1. ASSUME NEW d \in Conns PROVE Single(d)'
    BY <1>1, <1>3, <1>4, SingleFrame DEF OneIsync
  <2> QED
    BY <2>1 DEF OneIsync
<1>5. CASE ListenerWrite(c) \/ ListenerPing(c) \/ ConnectorIsync(c)
  <2>1. PICK r : /\ inbox' = [inbox EXCEPT ![c] = Append(inbox[c], r)]
                 /\ status[c] = "running"
    BY <1>5 DEF ListenerWrite, ListenerPing, ConnectorIsync, ClientSend
  <2>2. ASSUME NEW d \in Conns, d # c PROVE Single(d)'
    <3>1. inbox'[d] = inbox[d]
      BY <1>0, <2>1, <2>2
    <3> QED
      BY <1>1, <1>3, <3>1, SingleFrame DEF OneIsync
  <2>3. ~ (c > count)
    BY <2>1 DEF IInv, TypeOK, Accepted, Conns
  <2>4. ASSUME Calling(c) PROVE OneIsyncOK(c)'
    <3>1. ConnectorIsync(c)
      BY <1>0, <1>5, <2>4 DEF ListenerWrite, ListenerPing, Roles, RoleOK
    <3>2. phase[c] = "connecting" /\ phase'[c] = "waiting"
      BY <1>0, <3>1 DEF ConnectorIsync
    <3>3. Untouched(c)
      BY <2>4, <3>2 DEF OneIsync, Single, OneIsyncOK
    <3>4. inbox'[c] = Append(<<>>, r)
      BY <1>0, <2>1, <3>3 DEF Untouched
    <3>5. Len(inbox'[c]) = 1
      BY <3>4
    <3> QED
      BY <1>1, <3>2, <3>3, <3>5 DEF OneIsyncOK, Untouched
  <2> QED
    BY <1>1, <2>2, <2>3, <2>4 DEF OneIsync, Single, Calling
<1> QED
  BY <1>4, <1>5
  DEF Listener, Connector, ListenerRead, ListenerReply, ListenerBroken,
      ConnectorRead, ConnectorFails, ConnectorDrop, Killed, ClientRead,
      ClientClose, vars

(* A connection is made, for a listener or for connect().                  *)
LEMMA SingleStart ==
  ASSUME IInv, RInv, OneIsync, NEW i, Accept(i), NEW s,
         phase' = [phase EXCEPT ![count + 1] = s],
         target' = target \/ \E t : target' = [target EXCEPT ![count + 1] = t]
  PROVE  OneIsync'
<1> USE ServerAssumption
<1>a. PICK n : n = count + 1
  OBVIOUS
<1>0. /\ n \in Conns /\ count \in Nat /\ count' = n /\ n > count
      /\ who' = [who EXCEPT ![n] = i]
      /\ UNCHANGED <<inbox, queue, pc, peer_id>>
  BY <1>a DEF IInv, TypeOK, Accept, Conns, handlerVars
<1>1. /\ who \in [Conns -> AnyId] /\ target \in [Conns -> AnyId]
      /\ phase \in [Conns -> {"unused", "listening", "connecting", "waiting",
                              "returned", "closed"}]
  BY DEF IInv, TypeOK, RInv, RTypeOK
<1>2. ASSUME NEW d \in Conns, d # n PROVE Single(d)'
  <2>1. /\ who'[d] = who[d] /\ target'[d] = target[d]
        /\ phase'[d] = phase[d] /\ (d > count' => d > count)
    BY <1>a, <1>0, <1>1, <1>2 DEF Conns
  <2> QED
    BY <1>0, <2>1, SingleFrame DEF OneIsync
<1>3. Single(n)'
  <2>1. Untouched(n)
    BY <1>0 DEF OneIsync, Single
  <2>2. Untouched(n)'
    BY <1>0, <2>1 DEF Untouched
  <2>3. ~ (n > count')
    BY <1>0 DEF Conns
  <2>4. Untouched(n)' => OneIsyncOK(n)'
    <3>1. queue'[n] = <<>> => \A k \in 1 .. Len(queue'[n]) : FALSE
      OBVIOUS
    <3> QED
      BY <3>1 DEF OneIsyncOK, Untouched
  <2> QED
    BY <2>2, <2>3, <2>4 DEF Single
<1> QED
  BY <1>2, <1>3 DEF OneIsync

(* Every step keeps it.                                                    *)
LEMMA SingleStep ==
  ASSUME Disjoint, IInv, RInv, OneIsync, [RNext]_allVars
  PROVE  OneIsync'
<1>1. CASE UNCHANGED allVars
  <2>1. UNCHANGED <<inbox, queue, pc, peer_id, who, target, phase, count>>
    BY <1>1 DEF allVars, vars, handlerVars, clientVars, rvars
  <2>2. ASSUME NEW d \in Conns PROVE Single(d)'
    BY <2>1, SingleFrame DEF OneIsync
  <2> QED
    BY <2>2 DEF OneIsync
<1>2. ASSUME NEW i \in Listeners, ListenerStart(i) PROVE OneIsync'
  BY <1>2, SingleStart DEF ListenerStart
<1>3. ASSUME NEW i \in Connectors, NEW t \in Listeners, ConnectorStart(i, t)
      PROVE  OneIsync'
  BY <1>3, SingleStart DEF ConnectorStart
<1>4. ASSUME NEW c \in Conns, Task(c), UNCHANGED rvars PROVE OneIsync'
  <2>0. UNCHANGED <<count, who>>
    BY <1>4, TaskServed DEF RInv
  <2>1. CASE \/ ReadFails(c) \/ ReadTimeout(c) \/ HandleBye(c) \/ WriteFails(c)
             \/ LockPanic(c) \/ IsyncPanic(c) \/ InsertPanic(c)
    <3>1. DropTask(c) /\ status[c] = "running"
      BY <2>1 DEF ReadFails, ReadTimeout, HandleBye, WriteFails, LockPanic,
                  IsyncPanic, InsertPanic, HandleStreamEnds, Panic, AtAwait,
                  CmdReady
    <3> QED
      BY <1>4, <2>0, <3>1, SingleTask
  <2>2. CASE ReadReq(c) \/ RegisterSource(c) \/ WriteDone(c)
    BY <1>4, <2>0, <2>2, SingleTask
       DEF ReadReq, RegisterSource, WriteDone, AtAwait
  <2>3. CASE \/ HandlePing(c) \/ HandleIsync(c) \/ HandleIsyncNotFound(c)
             \/ HandleFsync(c) \/ HandleRsyncHere(c) \/ HandleRsync(c)
    BY <1>4, <2>0, <2>3, SingleCmd
  <2> QED
    BY <1>4, <2>1, <2>2, <2>3, SingleForward DEF Task, ReadReqs, HandleCmds
<1> QED
  BY <1>1, <1>2, <1>3, <1>4, SingleClient DEF RNext

(* If no identity both listens and connects, a chain of tasks that wait    *)
(* for room in each other's channels has at most two links: a task         *)
(* registered as a connect() never forwards, and only such tasks receive   *)
(* what a listener's task forwards.                                        *)
THEOREM TcpNoCircularWait == Disjoint => (RSpec => []NoCircularWait)
<1> SUFFICES ASSUME Disjoint PROVE RSpec => []NoCircularWait
  OBVIOUS
<1>1. RInit => OneIsync
  BY DEF RInit, Init, OneIsync, Single, Untouched, Calling
<1>2. IInv /\ RInv /\ OneIsync /\ [RNext]_allVars => OneIsync'
  BY SingleStep
<1>3. IInv /\ RInv /\ OneIsync => NoCircularWait
  <2> SUFFICES ASSUME IInv, RInv, OneIsync, NEW c \in Conns,
                      pc[c] = "forward", pc[to[c]] = "forward",
                      pc[to[to[c]]] = "forward"
               PROVE  FALSE
    BY DEF NoCircularWait
  <2>0. Roles /\ Served
    BY DEF RInv
  <2>1. PICK t : t = to[c] /\ t \in Conns /\ peer_id[t] # NoId
    BY <2>0, ForwardPeer
  <2>2. PICK u : /\ u = to[t] /\ u \in Conns /\ peer_id[u] # NoId
                 /\ who[u] = cur[t].peer /\ cur[t].peer \in Ids
                 /\ cur[t].cmd \in {"Isync", "Rsync"}
    BY <2>0, <2>1, ForwardPeer
  <2>3. cur[t] \in SoundReq(t)
    BY <2>0, <2>1 DEF Served, ServedOK
  <2>4. ~ Calling(t)
    BY <2>1 DEF OneIsync, Single, OneIsyncOK
  <2>5. cur[t].cmd = "Rsync" /\ AnsweredFor(cur[t].id, cur[t].peer)
    BY <2>2, <2>3, <2>4 DEF SoundReq, Asks
  <2>6. who[u] \in Connectors
    BY <2>0, <2>2, <2>5, AnsweredIds
  <2>7. u <= count
    BY <2>2 DEF IInv, Accepted
  <2>8. Calling(u)
    BY <2>0, <2>2, <2>6, <2>7 DEF Roles, RoleOK, Disjoint
  <2> QED
    BY <2>1, <2>2, <2>8 DEF OneIsync, Single, OneIsyncOK
<1> QED
  BY <1>1, <1>2, <1>3, RendezvousInvariant, PTL DEF RSpec

(* The tasks that NoDeadlock speaks of, each with its own channel full and *)
(* waiting for room in another's, would be a chain without an end.  So the *)
(* deadlock of peers that both listen and connect needs such peers.        *)
THEOREM TcpNoDeadlock == Disjoint => (RSpec => []NoDeadlock)
<1>1. IInv /\ NoCircularWait => NoDeadlock
  <2> SUFFICES ASSUME NoCircularWait, NEW S \in SUBSET Conns, S # {},
                      \A c \in S : Stuck(c, S)
               PROVE  FALSE
    BY DEF NoDeadlock
  <2>1. PICK c \in S : Stuck(c, S)
    OBVIOUS
  <2>2. to[c] \in S /\ pc[c] = "forward"
    BY <2>1 DEF Stuck
  <2>3. to[to[c]] \in S /\ pc[to[c]] = "forward"
    BY <2>2 DEF Stuck
  <2>4. pc[to[to[c]]] = "forward"
    BY <2>3 DEF Stuck
  <2> QED
    BY <2>2, <2>3, <2>4 DEF NoCircularWait
<1> QED
  BY <1>1, TcpNoCircularWait, RendezvousInvariant, PTL

-----------------------------------------------------------------------------
(* The refinement: the variables of Rendezvous, as TcpRendezvous maps      *)
(* them.                                                                   *)
StateBar   == [c \in Conns |-> CallState(c)]
CallerBar  == [c \in Conns |-> IF target[c] = NoId THEN NoId ELSE who[c]]
PartnerBar == [c \in Conns |-> IF result[c] = NoConn THEN NoId
                                                    ELSE who[result[c]]]

(* Only connections that have a client are mapped, and its identity stays. *)
LEMMA BarsKept ==
  ASSUME RInv, result' = result,
         \A d \in Conns : who[d] # NoId => who'[d] = who[d]
  PROVE  /\ PartnerBar' = PartnerBar
         /\ target' = target => CallerBar' = CallerBar
<1> USE ServerAssumption, RendezvousAssumption
<1>0. Roles /\ RTypeOK /\ TriedOK /\ AnsweredBeforeRedirect
  BY DEF RInv
<1>1. PartnerBar' = PartnerBar
  <2>1. ASSUME NEW c \in Conns, result[c] # NoConn
        PROVE  who'[result[c]] = who[result[c]]
    <3>1. result[c] \in Conns
      BY <1>0, <2>1 DEF RTypeOK, Addrs
    <3>2. PICK d \in 1 .. c : <<who[result[c]], d>> \in tried
      BY <1>0, <2>1 DEF AnsweredBeforeRedirect
    <3>3. who[result[c]] # NoId
      BY <1>0, <3>2 DEF RTypeOK
    <3> QED
      BY <3>1, <3>3
  <2> QED
    BY <2>1 DEF PartnerBar
<1>2. ASSUME target' = target PROVE CallerBar' = CallerBar
  <2>1. \A c \in Conns : Calling(c) => who'[c] = who[c]
    BY <1>0, CallerKnown
  <2> QED
    BY <1>2, <2>1 DEF CallerBar, Calling
<1> QED
  BY <1>1, <1>2

(* A step that changes no variable of Rendezvous.                          *)
LEMMA BarsStutter ==
  ASSUME UNCHANGED <<StateBar, CallerBar, target, tried, PartnerBar>>
  PROVE  [Abstract!Next]_(Abstract!vars)
BY DEF Abstract!vars, StateBar, CallerBar, PartnerBar

(* A client connects to the server: for connect(), that is a new call.     *)
LEMMA StartRefines ==
  ASSUME IInv, RInv, NEW i \in Ids, Accept(i), UNCHANGED <<tried, result>>,
         \/ target' = target /\ phase' = [phase EXCEPT ![count + 1] = "listening"]
         \/ \E t \in Ids :
              /\ target' = [target EXCEPT ![count + 1] = t]
              /\ phase' = [phase EXCEPT ![count + 1] = "connecting"]
  PROVE  [Abstract!Next]_(Abstract!vars)
<1> USE ServerAssumption
<1>a. PICK n : n = count + 1
  OBVIOUS
<1>1. /\ n = count + 1 /\ n \in Conns /\ who[n] = NoId
      /\ who' = [who EXCEPT ![n] = i]
  BY <1>a DEF IInv, TypeOK, Accepted, Accept, Conns, AnyId
<1>2. /\ who \in [Conns -> AnyId] /\ target \in [Conns -> AnyId]
      /\ phase \in [Conns -> {"unused", "listening", "connecting", "waiting",
                              "returned", "closed"}]
      /\ target[n] = NoId /\ result[n] = NoConn /\ phase[n] = "unused"
  BY <1>1 DEF IInv, TypeOK, RInv, RTypeOK, Roles, RoleOK, Calling, Conns
<1>3. \A d \in Conns : who[d] # NoId => who'[d] = who[d]
  BY <1>1, <1>2
<1>4. PartnerBar' = PartnerBar
  BY <1>3, BarsKept
<1>5. CASE target' = target /\ phase' = [phase EXCEPT ![count + 1] = "listening"]
  <2>1. CallerBar' = CallerBar
    BY <1>3, <1>5, BarsKept
  <2>2. StateBar' = StateBar
    BY <1>1, <1>2, <1>5 DEF StateBar, CallState
  <2> QED
    BY <1>4, <1>5, <2>1, <2>2, BarsStutter
<1>6. CASE \E t \in Ids :
             /\ target' = [target EXCEPT ![count + 1] = t]
             /\ phase' = [phase EXCEPT ![count + 1] = "connecting"]
  <2>1. PICK t \in Ids :
          /\ target' = [target EXCEPT ![n] = t]
          /\ phase' = [phase EXCEPT ![n] = "connecting"]
    BY <1>1, <1>6
  <2>2. StateBar[n] = "idle" /\ StateBar' = [StateBar EXCEPT ![n] = "asking"]
    <3>1. ASSUME NEW d \in Conns, d # n PROVE CallState(d)' = CallState(d)
      <4>1. /\ target'[d] = target[d] /\ phase'[d] = phase[d]
            /\ result'[d] = result[d]
        BY <1>1, <1>2, <2>1, <3>1
      <4> QED
        BY <4>1 DEF CallState
    <3>2. CallState(n) = "idle"
      BY <1>2 DEF CallState
    <3>3. target'[n] # NoId /\ result'[n] = NoConn /\ phase'[n] = "connecting"
      BY <1>1, <1>2, <2>1
    <3>4. CallState(n)' = "asking"
      BY <3>3 DEF CallState
    <3> QED
      BY <1>1, <3>1, <3>2, <3>4 DEF StateBar
  <2>3. CallerBar' = [CallerBar EXCEPT ![n] = i]
    <3>1. \A d \in Conns : d # n => who'[d] = who[d] /\ target'[d] = target[d]
      BY <1>1, <1>2, <2>1
    <3>2. who'[n] = i /\ target'[n] # NoId
      BY <1>1, <1>2, <2>1
    <3> QED
      BY <3>1, <3>2 DEF CallerBar
  <2>4. Abstract!Ask(n, i, t)
    BY <1>4, <2>1, <2>2, <2>3
       DEF Abstract!Ask, StateBar, CallerBar, PartnerBar
  <2> QED
    BY <1>1, <2>4 DEF Abstract!Next
<1> QED
  BY <1>5, <1>6

(* A listening client: an Fsync makes it answer a call that asks for it;   *)
(* nothing else does.                                                      *)
LEMMA ListenerRefines ==
  ASSUME IInv, RInv, NEW c \in Conns, Listener(c)
  PROVE  [Abstract!Next]_(Abstract!vars)
<1> USE ServerAssumption, RendezvousAssumption
<1>0. /\ UNCHANGED <<who, target, result>>
      /\ phase[c] = "listening" /\ ~ Calling(c) /\ Roles
      /\ phase' = phase \/ phase' = [phase EXCEPT ![c] = "closed"]
      /\ phase \in [Conns -> {"unused", "listening", "connecting", "waiting",
                              "returned", "closed"}]
  BY DEF Listener, ListenerWrite, ListenerPing, ListenerRead, ListenerReply,
         ListenerBroken, ClientSend, ClientRead, vars, clientVars, rvars,
         RInv, RTypeOK, Roles, RoleOK
<1>1. PartnerBar' = PartnerBar /\ CallerBar' = CallerBar
  BY <1>0, BarsKept
<1>2. StateBar' = StateBar
  BY <1>0 DEF StateBar, CallState, Calling
<1>3. CASE tried' = tried
  BY <1>0, <1>1, <1>2, <1>3, BarsStutter
<1>4. CASE tried' # tried
  <2>0. PICK r : r = Head(out[c])
    OBVIOUS
  <2>1. /\ out[c] # <<>> /\ r.cmd = "Fsync"
        /\ tried' = tried \cup {<<who[c], r.addr>>}
    BY <1>4, <2>0
       DEF Listener, ListenerWrite, ListenerPing, ListenerRead, ListenerReply,
           ListenerBroken, ClientRead, rvars
  <2>2. r.addr \in Conns /\ Asks(r.addr, who[c])
    <3>1. out[c] \in Seq(SoundResp(c))
      BY DEF RInv, Served, ServedOK
    <3>2. r \in SoundResp(c)
      BY <2>0, <2>1, <3>1
    <3> QED
      BY <2>1, <3>2 DEF SoundResp
  <2>3. PICK l \in Ids, d \in Conns : l = who[c] /\ d = r.addr
    <3>1. who[c] \in Ids
      BY <1>0 DEF IInv, TypeOK, Accepted, Roles, RoleOK, Conns
    <3> QED
      BY <2>2, <3>1
  <2>4. <<l, d>> \notin tried /\ tried' = tried \cup {<<l, d>>}
    BY <1>4, <2>1, <2>3
  <2>5. target[d] = l /\ StateBar[d] # "idle"
    BY <2>2, <2>3 DEF Asks, Calling, StateBar, CallState
  <2>6. Abstract!Answer(l, d)
    BY <1>0, <1>1, <1>2, <2>4, <2>5
       DEF Abstract!Answer, StateBar, CallerBar, PartnerBar
  <2> QED
    BY <2>6 DEF Abstract!Next
<1> QED
  BY <1>3, <1>4

(* connect(): it fails, or goes on to a peer that has answered.            *)
LEMMA ConnectorRefines ==
  ASSUME IInv, RInv, NEW c \in Conns, Connector(c) \/ Killed(c)
  PROVE  [Abstract!Next]_(Abstract!vars)
<1> USE ServerAssumption, RendezvousAssumption
<1>0. /\ UNCHANGED <<who, target, tried>>
      /\ phase \in [Conns -> {"unused", "listening", "connecting", "waiting",
                              "returned", "closed"}]
      /\ result \in [Conns -> Addrs] /\ Roles
  BY DEF Connector, ConnectorIsync, ConnectorRead, ConnectorFails,
         ConnectorDrop, Killed, ClientSend, ClientRead, ClientClose, vars,
         clientVars, RInv, RTypeOK
<1>1. CallerBar' = CallerBar
  BY <1>0 DEF CallerBar
<1>2. /\ \E x \in {"waiting", "returned", "closed"} :
           phase' = [phase EXCEPT ![c] = x]
      /\ result' = result \/ ConnectorRead(c)
  BY DEF Connector, ConnectorIsync, ConnectorRead, ConnectorFails,
         ConnectorDrop, Killed
<1>3. ASSUME NEW d \in Conns, d # c PROVE CallState(d)' = CallState(d)
  <2>1. phase'[d] = phase[d] /\ result'[d] = result[d] /\ target'[d] = target[d]
    BY <1>0, <1>2, <1>3 DEF ConnectorRead
  <2> QED
    BY <2>1 DEF CallState
<1>4. ASSUME CallState(c)' = CallState(c), result' = result
      PROVE  [Abstract!Next]_(Abstract!vars)
  <2>1. StateBar' = StateBar /\ PartnerBar' = PartnerBar
    BY <1>0, <1>3, <1>4 DEF StateBar, PartnerBar
  <2> QED
    BY <1>0, <1>1, <2>1, BarsStutter
<1>5. ASSUME CallState(c) = "asking", CallState(c)' = "failed",
             PartnerBar' = PartnerBar
      PROVE  [Abstract!Next]_(Abstract!vars)
  <2>1. StateBar[c] = "asking" /\ StateBar' = [StateBar EXCEPT ![c] = "failed"]
    BY <1>3, <1>5 DEF StateBar
  <2>2. Abstract!Fail(c)
    BY <1>0, <1>1, <1>5, <2>1
       DEF Abstract!Fail, StateBar, CallerBar, PartnerBar
  <2> QED
    BY <2>2 DEF Abstract!Next
<1>6. CASE ConnectorIsync(c)
  <2>1. /\ phase[c] = "connecting" /\ phase'[c] = "waiting" /\ result' = result
        /\ target'[c] = target[c]
    BY <1>0, <1>6 DEF ConnectorIsync
  <2>2. CallState(c)' = CallState(c)
    BY <2>1 DEF CallState
  <2> QED
    BY <1>4, <2>1, <2>2
<1>7. CASE ConnectorDrop(c)
  <2>1. /\ phase[c] = "returned" /\ phase'[c] = "closed" /\ result' = result
        /\ target'[c] = target[c]
    BY <1>0, <1>7 DEF ConnectorDrop
  <2>2. CallState(c)' = CallState(c)
    BY <2>1 DEF CallState
  <2> QED
    BY <1>4, <2>1, <2>2
<1>8. CASE ConnectorFails(c) \/ Killed(c)
  <2>1. /\ phase[c] \in {"listening", "connecting", "waiting"}
        /\ phase'[c] = "closed" /\ result' = result /\ target'[c] = target[c]
    BY <1>0, <1>8 DEF ConnectorFails, Killed
  <2>2. CASE phase[c] = "listening"
    <3>1. target[c] = NoId
      BY <1>0, <2>2 DEF Roles, RoleOK, Calling
    <3>2. CallState(c)' = CallState(c)
      BY <2>1, <3>1 DEF CallState
    <3> QED
      BY <1>4, <2>1, <3>2
  <2>3. CASE phase[c] \in {"connecting", "waiting"}
    <3>1. target[c] # NoId /\ result[c] = NoConn
      BY <1>0, <2>3 DEF Roles, RoleOK, Calling
    <3>2. CallState(c) = "asking" /\ CallState(c)' = "failed"
      BY <2>1, <2>3, <3>1 DEF CallState
    <3>3. PartnerBar' = PartnerBar
      BY <1>0, <2>1 DEF PartnerBar
    <3> QED
      BY <1>5, <3>2, <3>3
  <2> QED
    BY <2>1, <2>2, <2>3
<1>9. CASE ConnectorRead(c)
  <2>0. PICK r, a : /\ r = Head(out[c])
                    /\ a = IF r.cmd = "Redirect" THEN r.addr ELSE NoConn
    OBVIOUS
  <2>1. /\ phase[c] = "waiting" /\ phase'[c] = "returned" /\ out[c] # <<>>
        /\ result' = [result EXCEPT ![c] = a] /\ target'[c] = target[c]
    BY <1>0, <1>9, <2>0 DEF ConnectorRead, ClientRead
  <2>2. target[c] # NoId /\ result[c] = NoConn /\ result'[c] = a
    BY <1>0, <2>1 DEF Roles, RoleOK, Calling
  <2>3. CallState(c) = "asking"
    BY <2>1, <2>2 DEF CallState
  <2>4. CASE a = NoConn
    <3>1. CallState(c)' = "failed"
      BY <2>1, <2>2, <2>4 DEF CallState
    <3>2. result' = result
      BY <1>0, <2>1, <2>2, <2>4
    <3>3. PartnerBar' = PartnerBar
      BY <1>0, <3>2 DEF PartnerBar
    <3> QED
      BY <1>5, <2>3, <3>1, <3>3
  <2>5. CASE a # NoConn
    <3>1. r \in GoodResp /\ r \in SoundResp(c)
      <4>1. out[c] \in Seq(GoodResp) /\ out[c] \in Seq(SoundResp(c))
        BY DEF IInv, HandlersOK, HandlerOK, RInv, Served, ServedOK
      <4> QED
        BY <2>0, <2>1, <4>1
    <3>2. PICK l \in Ids : l = r.peer /\ who[a] = l /\ AnsweredFor(l, who[c])
      BY <2>0, <2>5, <3>1 DEF GoodResp, SoundResp
    <3>3. CallState(c)' = "connected"
      BY <2>1, <2>2, <2>5 DEF CallState
    <3>4. StateBar[c] = "asking"
          /\ StateBar' = [StateBar EXCEPT ![c] = "connected"]
      BY <1>3, <2>3, <3>3 DEF StateBar
    <3>5. PartnerBar' = [PartnerBar EXCEPT ![c] = l]
      <4>1. \A d \in Conns : d # c => result'[d] = result[d]
        BY <1>0, <2>1
      <4> QED
        BY <1>0, <2>2, <2>5, <3>2, <4>1 DEF PartnerBar
    <3>6. \E d \in Conns : CallerBar[d] = CallerBar[c] /\ <<l, d>> \in tried
      <4>1. CallerBar[c] = who[c]
        BY <2>2 DEF CallerBar
      <4>2. PICK d \in Conns : Calling(d) /\ who[d] = who[c] /\ <<l, d>> \in tried
        BY <3>2 DEF AnsweredFor, Asks
      <4>3. CallerBar[d] = who[d]
        BY <4>2 DEF CallerBar, Calling
      <4> QED
        BY <4>1, <4>2, <4>3
    <3>7. Abstract!Connect(c, l)
      BY <1>0, <1>1, <3>4, <3>5, <3>6
         DEF Abstract!Connect, StateBar, CallerBar, PartnerBar
    <3> QED
      BY <3>7 DEF Abstract!Next
  <2> QED
    BY <2>4, <2>5
<1> QED
  BY <1>6, <1>7, <1>8, <1>9 DEF Connector

(* Every step of the composition is a step of Rendezvous, or none.         *)
LEMMA RefinementStep ==
  ASSUME IInv, RInv, [RNext]_allVars
  PROVE  [Abstract!Next]_(Abstract!vars)
<1> USE RendezvousAssumption
<1>1. ASSUME UNCHANGED rvars, who' = who
      PROVE  [Abstract!Next]_(Abstract!vars)
  <2>1. UNCHANGED <<who, phase, target, tried, result>>
    BY <1>1 DEF rvars
  <2>2. UNCHANGED <<StateBar, CallerBar, target, tried, PartnerBar>>
    BY <2>1 DEF StateBar, CallerBar, PartnerBar, CallState
  <2> QED
    BY <2>2, BarsStutter
<1>2. CASE UNCHANGED allVars
  BY <1>1, <1>2 DEF allVars, vars, clientVars
<1>3. ASSUME NEW c \in Conns, Task(c), UNCHANGED rvars
      PROVE  [Abstract!Next]_(Abstract!vars)
  BY <1>1, <1>3, TaskServed DEF RInv
<1>4. ASSUME NEW i \in Listeners, ListenerStart(i)
      PROVE  [Abstract!Next]_(Abstract!vars)
  BY <1>4, StartRefines DEF ListenerStart
<1>5. ASSUME NEW i \in Connectors, NEW t \in Listeners, ConnectorStart(i, t)
      PROVE  [Abstract!Next]_(Abstract!vars)
  BY <1>5, StartRefines DEF ConnectorStart
<1> QED
  BY <1>2, <1>3, <1>4, <1>5, ListenerRefines, ConnectorRefines DEF RNext

(* The TCP server with its clients implements the abstract specification:  *)
(* whatever the interleaving, the lost connections and the processes that  *)
(* are killed, a peer sets out to send a packet only to calls that ask for *)
(* it, and connect() goes on only to a peer that has done so for a call of *)
(* the same identity.  Whether the packet left, and whether it went to the *)
(* call that goes on, is not promised.                                     *)
THEOREM TcpRendezvousRefined == RSpec => ImplementsRendezvous
<1>1. RInit => Abstract!Init
  BY DEF RInit, Abstract!Init, CallState
<1>2. IInv /\ RInv /\ [RNext]_allVars => [Abstract!Next]_(Abstract!vars)
  BY RefinementStep
<1> QED
  BY <1>1, <1>2, RendezvousInvariant, PTL
     DEF RSpec, ImplementsRendezvous, Abstract!Spec
=============================================================================

--------------------------- MODULE TcpServerProofs ---------------------------
(***************************************************************************)
(* Theorems about TcpServer, for any identities, any number of connections *)
(* and requests, any channel capacities and any commands of the clients.   *)
(***************************************************************************)
EXTENDS TcpServer, TLAPS

(* What can be in the channel or in the socket of connection c: a Ping or  *)
(* Isync comes from c's own client, the identities a handler looks up are  *)
(* identities, and an Fsync carries the address of the peer it names.      *)
GoodReq(c) ==
  {r \in Request :
     /\ r.cmd \in {"Ping", "Isync"} => r.id \in Ids /\ r.id = who[c]
     /\ r.cmd \in {"Isync", "Rsync"} => r.peer \in Ids
     /\ r.cmd = "Rsync" => r.id \in Ids
     /\ r.addr # NoConn => r.peer \in Ids /\ who[r.addr] = r.peer}

(* A response that names an address names the peer it belongs to.          *)
GoodResp ==
  {r \in Response : r.addr # NoConn => r.peer \in Ids /\ who[r.addr] = r.peer}

(* Exactly the accepted connections have a client and a task.              *)
Accepted ==
  \A c \in Conns : /\ c <= count <=> status[c] # "new"
                   /\ c <= count <=> who[c] \in Ids

(* A handler's channel, sockets and local variables.                       *)
HandlerOK(c) ==
  /\ queue[c] \in Seq(GoodReq(c)) /\ inbox[c] \in Seq(GoodReq(c))
  /\ out[c] \in Seq(GoodResp) /\ resp[c] \in GoodResp
  /\ pc[c] = "forward" => /\ to[c] \in Conns /\ cur[c] \in GoodReq(c)
                          /\ cur[c].cmd \in {"Isync", "Rsync"}
  /\ pc[c] = "register" => cur[c] \in GoodReq(c) /\ cur[c].cmd = "Isync"

HandlersOK == \A c \in Conns : HandlerOK(c)

(* The inductive invariant.                                                *)
IInv == TypeOK /\ Accepted /\ HandlersOK /\ RegistrySound

-----------------------------------------------------------------------------
(* Sequences over a set are sequences over a larger one.                   *)
LEMMA SeqMono ==
  ASSUME NEW S, NEW T, S \subseteq T, NEW s \in Seq(S)
  PROVE  s \in Seq(T)
  OBVIOUS

(* The inductive invariant holds before the first connection.              *)
LEMMA TcpInit == Init => IInv
<1> SUFFICES ASSUME Init PROVE IInv
  OBVIOUS
<1> USE ServerAssumption
<1>1. NoReq \in Request /\ NoResp \in Response /\ NoResp \in GoodResp
  BY DEF NoReq, NoResp, Request, Response, GoodResp, Cmds, AnyId, Addrs, NoConn
<1>2. \A c \in Conns : Len(queue[c]) <= Cap /\ Len(out[c]) <= OutCap
  BY DEF Init
<1>3. TypeOK
  <2>0. poisoned \in BOOLEAN
    BY DEF Init
  <2>1. count \in 0 .. MaxConns /\ sent \in 0 .. MaxReqs
    BY DEF Init
  <2>2. /\ peers \in [Ids -> Addrs] /\ to \in [Conns -> Addrs]
        /\ peer_id \in [Conns -> AnyId] /\ who \in [Conns -> AnyId]
    BY DEF Init, Addrs, AnyId, NoConn
  <2>3. /\ status \in [Conns -> {"new", "running", "done", "panicked"}]
        /\ pc \in [Conns -> {"recv", "forward", "register", "write"}]
        /\ sock \in [Conns -> {"open", "eof", "reset"}]
    BY DEF Init
  <2>4. cur \in [Conns -> Request] /\ resp \in [Conns -> Response]
    BY <1>1 DEF Init
  <2>5. /\ queue \in [Conns -> Seq(Request)] /\ inbox \in [Conns -> Seq(Request)]
        /\ out \in [Conns -> Seq(Response)]
    BY DEF Init
  <2> QED
    BY <1>2, <2>0, <2>1, <2>2, <2>3, <2>4, <2>5 DEF TypeOK
<1>4. Accepted
  BY DEF Init, Accepted, Conns
<1>5. HandlersOK
  BY <1>1 DEF Init, HandlersOK, HandlerOK
<1>6. RegistrySound
  BY DEF Init, RegistrySound
<1> QED
  BY <1>3, <1>4, <1>5, <1>6 DEF IInv

(* A connection is accepted: nothing referred to it yet.                   *)
LEMMA AcceptStep ==
  ASSUME IInv, NEW i \in Ids, Accept(i)
  PROVE  IInv'
<1> USE ServerAssumption
<1> DEFINE n == count + 1
<1>1. /\ n \in Conns /\ count \in Nat /\ who[n] \notin Ids
      /\ who' = [who EXCEPT ![n] = i] /\ who \in [Conns -> AnyId]
      /\ status' = [status EXCEPT ![n] = "running"] /\ count' = n
      /\ status \in [Conns -> {"new", "running", "done", "panicked"}]
      /\ UNCHANGED <<peers, poisoned, peer_id, queue, pc, cur, to, resp,
                     sock, sent, inbox, out>>
  BY DEF IInv, TypeOK, Accepted, Accept, Conns, handlerVars
<1>2. TypeOK'
  BY <1>1 DEF IInv, TypeOK, Conns, AnyId
<1>3. Accepted'
  BY <1>1 DEF IInv, Accepted, Conns
<1>4. \A c \in Conns : c # n => who'[c] = who[c]
  BY <1>1
<1>5. \A c \in Conns : GoodReq(c) \subseteq GoodReq(c)'
  BY <1>1, <1>4 DEF GoodReq, Request, Addrs
<1>6. GoodResp \subseteq GoodResp'
  BY <1>1, <1>4 DEF GoodResp, Response, Addrs
<1>7. HandlersOK'
  <2> SUFFICES ASSUME NEW c \in Conns
               PROVE  HandlerOK(c)'
    BY DEF HandlersOK
  <2>1. HandlerOK(c)
    BY DEF IInv, HandlersOK
  <2>2. queue'[c] \in Seq(GoodReq(c)') /\ inbox'[c] \in Seq(GoodReq(c)')
    BY <1>1, <1>5, <2>1, SeqMono DEF HandlerOK
  <2>3. out'[c] \in Seq(GoodResp')
    BY <1>1, <1>6, <2>1, SeqMono DEF HandlerOK
  <2>4. /\ resp'[c] \in GoodResp'
        /\ cur[c] \in GoodReq(c) => cur'[c] \in GoodReq(c)'
    BY <1>1, <1>5, <1>6, <2>1 DEF HandlerOK
  <2> QED
    BY <1>1, <2>1, <2>2, <2>3, <2>4 DEF HandlerOK
<1>8. RegistrySound'
  BY <1>1, <1>4 DEF IInv, TypeOK, RegistrySound, Addrs
<1> QED
  BY <1>2, <1>3, <1>7, <1>8 DEF IInv

-----------------------------------------------------------------------------
(* After it is accepted, the identity of a connection's client is fixed,   *)
(* so what is good stays good.                                             *)
LEMMA SameWho ==
  ASSUME who' = who
  PROVE  GoodResp' = GoodResp /\ \A d \in Conns : GoodReq(d)' = GoodReq(d)
  BY DEF GoodReq, GoodResp

(* The end of a task, by return or by panic, leaves good handlers.         *)
LEMMA DropStep ==
  ASSUME IInv, NEW c \in Conns, DropTask(c)
  PROVE  /\ HandlersOK'
         /\ queue' \in [Conns -> Seq(Request)]
         /\ inbox' \in [Conns -> Seq(Request)]
         /\ pc' \in [Conns -> {"recv", "forward", "register", "write"}]
         /\ cur' \in [Conns -> Request] /\ to' \in [Conns -> Addrs]
         /\ resp' \in [Conns -> Response]
         /\ \A d \in Conns : Len(queue'[d]) <= Cap
         /\ UNCHANGED <<count, peer_id, who, sock, sent, out>>
<1> USE ServerAssumption
<1>0. UNCHANGED <<count, peer_id, who, sock, sent, out>>
  BY DEF DropTask, clientVars
<1>1. NoReq \in Request /\ NoResp \in Response /\ NoResp \in GoodResp
      /\ NoConn \in Addrs
  BY DEF NoReq, NoResp, Request, Response, GoodResp, Cmds, AnyId, Addrs, NoConn
<1>2. /\ queue' \in [Conns -> Seq(Request)]
      /\ inbox' \in [Conns -> Seq(Request)]
      /\ pc' \in [Conns -> {"recv", "forward", "register", "write"}]
      /\ cur' \in [Conns -> Request] /\ to' \in [Conns -> Addrs]
      /\ resp' \in [Conns -> Response]
      /\ \A d \in Conns : Len(queue'[d]) <= Cap
  BY <1>1 DEF IInv, TypeOK, DropTask
<1>3. HandlersOK'
  <2> SUFFICES ASSUME NEW d \in Conns PROVE HandlerOK(d)'
    BY DEF HandlersOK
  <2>1. HandlerOK(d)
    BY DEF IInv, HandlersOK
  <2>2. GoodResp' = GoodResp /\ GoodReq(d)' = GoodReq(d)
    BY <1>0, SameWho
  <2>3. CASE d = c
    <3>1. /\ queue'[c] = <<>> /\ inbox'[c] = <<>> /\ pc'[c] = "recv"
          /\ resp'[c] = NoResp /\ out' = out
      BY <1>0 DEF IInv, TypeOK, DropTask
    <3> QED
      BY <1>1, <2>1, <2>2, <2>3, <3>1 DEF HandlerOK
  <2>4. CASE d # c
    <3>1. /\ queue'[d] = queue[d] /\ inbox'[d] = inbox[d] /\ pc'[d] = pc[d]
          /\ resp'[d] = resp[d] /\ cur'[d] = cur[d] /\ to'[d] = to[d]
          /\ out' = out
      BY <1>0, <2>4 DEF IInv, TypeOK, DropTask
    <3> QED
      BY <2>1, <2>2, <3>1 DEF HandlerOK
  <2> QED
    BY <2>3, <2>4
<1> QED
  BY <1>0, <1>2, <1>3

(* handle_stream ends: its clean-up removes every entry that names it.     *)
LEMMA EndStep ==
  ASSUME IInv, NEW c \in Conns, status[c] = "running", HandleStreamEnds(c)
  PROVE  IInv'
<1> USE ServerAssumption
<1>1. DropTask(c) /\ poisoned' = poisoned
  BY DEF HandleStreamEnds
<1>2. \/ peers' = Unregistered(c) /\ status' = [status EXCEPT ![c] = "done"]
      \/ peers' = peers /\ status' = [status EXCEPT ![c] = "panicked"]
  BY DEF HandleStreamEnds
<1>3. peers' \in [Ids -> Addrs]
  BY <1>2 DEF IInv, TypeOK, Unregistered, Addrs
<1>4. status' \in [Conns -> {"new", "running", "done", "panicked"}]
  BY <1>2 DEF IInv, TypeOK
<1>5. TypeOK'
  BY <1>1, <1>3, <1>4, DropStep DEF IInv, TypeOK
<1>6. Accepted'
  BY <1>1, <1>2, DropStep, SMTT(30) DEF IInv, TypeOK, Accepted
<1>7. RegistrySound'
  <2> SUFFICES ASSUME NEW i \in Ids, peers'[i] # NoConn
               PROVE  /\ who'[peers'[i]] = i /\ peer_id'[peers'[i]] = i
                      /\ status'[peers'[i]] \in {"running", "panicked"}
    BY DEF RegistrySound
  <2>1. who' = who /\ peer_id' = peer_id
    BY <1>1, DropStep
  <2>2. peers'[i] = peers[i] /\ peers[i] \in Conns
    BY <1>2 DEF IInv, TypeOK, Unregistered, Addrs
  <2>3. /\ who[peers[i]] = i /\ peer_id[peers[i]] = i
        /\ status[peers[i]] \in {"running", "panicked"}
    BY <2>2 DEF IInv, RegistrySound
  <2>4. CASE peers' = Unregistered(c) /\ status' = [status EXCEPT ![c] = "done"]
    <3>1. peers[i] # c
      BY <2>2, <2>3, <2>4 DEF Unregistered
    <3> QED
      BY <2>1, <2>2, <2>3, <2>4, <3>1
  <2>5. CASE peers' = peers /\ status' = [status EXCEPT ![c] = "panicked"]
    BY <2>1, <2>2, <2>3, <2>5 DEF IInv, TypeOK
  <2> QED
    BY <1>2, <2>4, <2>5
<1> QED
  BY <1>1, <1>5, <1>6, <1>7, DropStep DEF IInv

(* A panic leaves the entries of the task behind, all but one at most.     *)
LEMMA PanicStep ==
  ASSUME IInv, NEW c \in Conns, status[c] = "running", Panic(c),
         poisoned' \in BOOLEAN, peers' \in [Ids -> Addrs],
         \A i \in Ids : peers'[i] = peers[i] \/ peers'[i] = NoConn
  PROVE  IInv'
<1>1. DropTask(c) /\ status' = [status EXCEPT ![c] = "panicked"]
  BY DEF Panic
<1>2. TypeOK'
  BY <1>1, DropStep DEF IInv, TypeOK
<1>3. Accepted'
  BY <1>1, DropStep DEF IInv, TypeOK, Accepted
<1>4. RegistrySound'
  BY <1>1, DropStep DEF IInv, TypeOK, RegistrySound, Addrs
<1> QED
  BY <1>1, <1>2, <1>3, <1>4, DropStep DEF IInv

(* insert_peerstate, for the identity of the connection's own client.      *)
LEMMA InsertStep ==
  ASSUME IInv, NEW c \in Conns, status[c] = "running", who[c] \in Ids,
         InsertPeerstate(c, who[c]), UNCHANGED <<status, who>>
  PROVE  /\ peers' \in [Ids -> Addrs] /\ peer_id' \in [Conns -> AnyId]
         /\ RegistrySound'
<1>1. peers' \in [Ids -> Addrs] /\ peer_id' \in [Conns -> AnyId]
  BY DEF IInv, TypeOK, InsertPeerstate, Addrs, AnyId
<1>2. RegistrySound'
  BY <1>1 DEF IInv, TypeOK, RegistrySound, InsertPeerstate, Addrs
<1> QED
  BY <1>1, <1>2

-----------------------------------------------------------------------------
(* The oldest request of a channel is good, and so is the rest.            *)
LEMMA TakeLemma ==
  ASSUME IInv, NEW c \in Conns, queue[c] # <<>>, Take(c)
  PROVE  /\ Request1(c) \in GoodReq(c)
         /\ queue' \in [Conns -> Seq(Request)]
         /\ queue'[c] \in Seq(GoodReq(c))
         /\ \A d \in Conns : Len(queue'[d]) <= Cap
         /\ \A d \in Conns \ {c} : queue'[d] = queue[d]
<1> USE ServerAssumption
<1>1. /\ queue[c] \in Seq(GoodReq(c)) /\ queue[c] \in Seq(Request)
      /\ Len(queue[c]) <= Cap /\ queue \in [Conns -> Seq(Request)]
      /\ \A d \in Conns : Len(queue[d]) <= Cap
  BY DEF IInv, HandlersOK, HandlerOK, TypeOK
<1>2. queue' = [queue EXCEPT ![c] = Tail(queue[c])]
  BY DEF Take
<1>3. /\ Request1(c) \in GoodReq(c) /\ Tail(queue[c]) \in Seq(GoodReq(c))
      /\ Tail(queue[c]) \in Seq(Request)
      /\ Len(Tail(queue[c])) <= Cap
  BY <1>1 DEF Request1
<1> QED
  BY <1>1, <1>2, <1>3

(* handle_cmds takes a request and then writes a response, forwards a      *)
(* request, or does neither.                                               *)
LEMMA HandleStep ==
  ASSUME IInv, NEW c \in Conns, NEW cmd, CmdReady(c, cmd), Take(c),
         UNCHANGED <<count, poisoned, status, who, sock, sent, inbox, out>>,
         peers' \in [Ids -> Addrs], peer_id' \in [Conns -> AnyId],
         RegistrySound',
         \/ \E r \in GoodResp : StartWrite(c, r)
         \/ \E p \in Conns : \E q \in GoodReq(c) :
              q.cmd \in {"Isync", "Rsync"} /\ StartForward(c, p, q)
         \/ UNCHANGED <<pc, cur, to, resp>>
  PROVE  IInv'
<1> USE ServerAssumption
<1>1. queue[c] # <<>> /\ pc[c] = "recv"
  BY DEF CmdReady
<1>2. /\ pc \in [Conns -> {"recv", "forward", "register", "write"}]
      /\ cur \in [Conns -> Request] /\ to \in [Conns -> Addrs]
      /\ resp \in [Conns -> Response]
  BY DEF IInv, TypeOK
<1>3. GoodResp \subseteq Response /\ GoodReq(c) \subseteq Request
      /\ Conns \subseteq Addrs
  BY DEF GoodResp, GoodReq, Addrs
<1>4. /\ pc' \in [Conns -> {"recv", "forward", "register", "write"}]
      /\ cur' \in [Conns -> Request] /\ to' \in [Conns -> Addrs]
      /\ resp' \in [Conns -> Response]
  BY <1>2, <1>3 DEF StartWrite, StartForward
<1>5. TypeOK'
  BY <1>1, <1>4, TakeLemma DEF IInv, TypeOK
<1>6. Accepted'
  BY DEF IInv, Accepted
<1>7. HandlersOK'
  <2> SUFFICES ASSUME NEW d \in Conns PROVE HandlerOK(d)'
    BY DEF HandlersOK
  <2>1. HandlerOK(d)
    BY DEF IInv, HandlersOK
  <2>2. GoodResp' = GoodResp /\ GoodReq(d)' = GoodReq(d)
    BY SameWho
  <2>3. CASE d # c
    <3>1. /\ queue'[d] = queue[d] /\ inbox'[d] = inbox[d] /\ pc'[d] = pc[d]
          /\ resp'[d] = resp[d] /\ cur'[d] = cur[d] /\ to'[d] = to[d]
          /\ out'[d] = out[d]
      BY <1>1, <1>2, <2>3, TakeLemma DEF StartWrite, StartForward
    <3> QED
      BY <2>1, <2>2, <3>1 DEF HandlerOK
  <2>4. CASE d = c
    <3>1. /\ queue'[c] \in Seq(GoodReq(c)') /\ inbox'[c] \in Seq(GoodReq(c)')
          /\ out'[c] \in Seq(GoodResp')
      BY <1>1, <2>1, <2>2, <2>4, TakeLemma DEF HandlerOK
    <3>2. CASE \E r \in GoodResp : StartWrite(c, r)
      BY <1>2, <2>2, <2>4, <3>1, <3>2 DEF HandlerOK, StartWrite
    <3>3. CASE \E q \in Conns : \E r \in GoodReq(c) :
                 r.cmd \in {"Isync", "Rsync"} /\ StartForward(c, q, r)
      <4>1. PICK q \in Conns, r \in GoodReq(c) :
              r.cmd \in {"Isync", "Rsync"} /\ StartForward(c, q, r)
        BY <3>3
      <4>2. /\ pc'[c] = "forward" /\ cur'[c] = r /\ to'[c] = q
            /\ resp'[c] = resp[c]
        BY <1>2, <4>1 DEF StartForward
      <4> QED
        BY <2>1, <2>2, <2>4, <3>1, <4>1, <4>2 DEF HandlerOK
    <3>4. CASE UNCHANGED <<pc, cur, to, resp>>
      BY <1>1, <2>1, <2>2, <2>4, <3>1, <3>4 DEF HandlerOK
    <3> QED
      BY <3>2, <3>3, <3>4
  <2> QED
    BY <2>3, <2>4
<1> QED
  BY <1>5, <1>6, <1>7 DEF IInv

(* The commands.                                                           *)
LEMMA CmdSteps ==
  ASSUME IInv, NEW c \in Conns,
         \/ HandlePing(c) \/ HandleIsync(c) \/ HandleIsyncNotFound(c)
         \/ HandleFsync(c) \/ HandleRsyncHere(c) \/ HandleRsync(c)
  PROVE  IInv'
<1> USE ServerAssumption
<1>0. peers \in [Ids -> Addrs] /\ peer_id \in [Conns -> AnyId]
  BY DEF IInv, TypeOK
<1>1. ASSUME peers' = peers, peer_id' = peer_id, who' = who, status' = status
      PROVE  RegistrySound'
  BY <1>1 DEF IInv, RegistrySound
<1>2. CASE HandlePing(c)
  <2>1. /\ CmdReady(c, "Ping") /\ Take(c) /\ StartWrite(c, Pong)
        /\ InsertPeerstate(c, Request1(c).id)
        /\ UNCHANGED <<count, poisoned, status, who, sock, sent, inbox, out>>
    BY <1>2 DEF HandlePing, clientVars
  <2>2. Request1(c) \in GoodReq(c) /\ Request1(c).cmd = "Ping"
        /\ status[c] = "running"
    BY <2>1, TakeLemma DEF CmdReady, Request1
  <2>3. who[c] \in Ids /\ Request1(c).id = who[c]
    BY <2>2 DEF GoodReq
  <2>4. Pong \in GoodResp
    BY DEF Pong, GoodResp, Response, AnyId, Addrs
  <2> QED
    BY <2>1, <2>2, <2>3, <2>4, InsertStep, HandleStep
<1>3. CASE HandleIsync(c)
  <2>1. /\ CmdReady(c, "Isync") /\ Take(c)
        /\ peers[Request1(c).peer] # NoConn
        /\ StartForward(c, peers[Request1(c).peer], Request1(c))
        /\ UNCHANGED <<count, peers, poisoned, status, peer_id, who, sock,
                       sent, inbox, out>>
    BY <1>3 DEF HandleIsync, clientVars
  <2>2. Request1(c) \in GoodReq(c) /\ Request1(c).cmd = "Isync"
    BY <2>1, TakeLemma DEF CmdReady, Request1
  <2>3. peers[Request1(c).peer] \in Conns
    BY <1>0, <2>1, <2>2 DEF GoodReq, Addrs
  <2> QED
    BY <1>0, <1>1, <2>1, <2>2, <2>3, HandleStep
<1>4. CASE HandleIsyncNotFound(c)
  <2>1. /\ CmdReady(c, "Isync") /\ Take(c)
        /\ StartWrite(c, Redirect(Request1(c).peer, NoConn))
        /\ UNCHANGED <<count, peers, poisoned, status, peer_id, who, sock,
                       sent, inbox, out>>
    BY <1>4 DEF HandleIsyncNotFound, clientVars
  <2>2. Request1(c) \in GoodReq(c) /\ Request1(c).cmd = "Isync"
    BY <2>1, TakeLemma DEF CmdReady, Request1
  <2>3. Redirect(Request1(c).peer, NoConn) \in GoodResp
    BY <2>2 DEF Redirect, GoodReq, GoodResp, Response, AnyId, Addrs
  <2> QED
    BY <1>0, <1>1, <2>1, <2>3, HandleStep
<1>5. CASE HandleFsync(c)
  <2>1. /\ CmdReady(c, "Fsync") /\ Take(c)
        /\ StartWrite(c, FsyncResp(Request1(c)))
        /\ UNCHANGED <<count, peers, poisoned, status, peer_id, who, sock,
                       sent, inbox, out>>
    BY <1>5 DEF HandleFsync, clientVars
  <2>2. Request1(c) \in GoodReq(c)
    BY <2>1, TakeLemma DEF CmdReady
  <2>3. FsyncResp(Request1(c)) \in GoodResp
    BY <2>2 DEF FsyncResp, GoodReq, GoodResp, Request, Response
  <2> QED
    BY <1>0, <1>1, <2>1, <2>3, HandleStep
<1>6. CASE HandleRsyncHere(c)
  <2>1. /\ CmdReady(c, "Rsync") /\ Take(c)
        /\ \/ /\ peers[Request1(c).id] # NoConn
              /\ StartWrite(c, Redirect(Request1(c).id, peers[Request1(c).id]))
           \/ UNCHANGED <<pc, cur, to, resp>>
        /\ UNCHANGED <<count, peers, poisoned, status, peer_id, who, sock,
                       sent, inbox, out>>
    BY <1>6 DEF HandleRsyncHere, clientVars
  <2>2. Request1(c) \in GoodReq(c) /\ Request1(c).cmd = "Rsync"
    BY <2>1, TakeLemma DEF CmdReady, Request1
  <2>3. /\ Request1(c).id \in Ids /\ peers[Request1(c).id] \in Addrs
        /\ peers[Request1(c).id] # NoConn
             => who[peers[Request1(c).id]] = Request1(c).id
    BY <1>0, <2>2 DEF GoodReq, IInv, RegistrySound
  <2>4. Redirect(Request1(c).id, peers[Request1(c).id]) \in GoodResp
    BY <2>3 DEF Redirect, GoodResp, Response, AnyId
  <2> QED
    BY <1>0, <1>1, <2>1, <2>4, HandleStep
<1>7. CASE HandleRsync(c)
  <2>1. /\ CmdReady(c, "Rsync") /\ Take(c)
        /\ \/ /\ peers[Request1(c).peer] # NoConn
              /\ StartForward(c, peers[Request1(c).peer], Request1(c))
           \/ UNCHANGED <<pc, cur, to, resp>>
        /\ UNCHANGED <<count, peers, poisoned, status, peer_id, who, sock,
                       sent, inbox, out>>
    BY <1>7 DEF HandleRsync, clientVars
  <2>2. Request1(c) \in GoodReq(c) /\ Request1(c).cmd = "Rsync"
    BY <2>1, TakeLemma DEF CmdReady, Request1
  <2>3. peers[Request1(c).peer] # NoConn => peers[Request1(c).peer] \in Conns
    BY <1>0, <2>2 DEF GoodReq, Addrs
  <2> QED
    BY <1>0, <1>1, <2>1, <2>2, <2>3, HandleStep
<1> QED
  BY <1>2, <1>3, <1>4, <1>5, <1>6, <1>7

-----------------------------------------------------------------------------
(* A channel, a socket or a buffer of one connection changes; registry and *)
(* tasks do not.                                                           *)
LEMMA FrameStep ==
  ASSUME IInv, TypeOK', UNCHANGED <<count, peers, peer_id, status, who>>,
         \A d \in Conns : HandlerOK(d)'
  PROVE  IInv'
  BY DEF IInv, Accepted, HandlersOK, RegistrySound

(* read_reqs moves a request from the socket to the channel.               *)
LEMMA ReadReqStep ==
  ASSUME IInv, NEW c \in Conns, ReadReq(c)
  PROVE  IInv'
<1> USE ServerAssumption
<1>1. /\ inbox[c] # <<>> /\ Len(queue[c]) < Cap
      /\ queue' = [queue EXCEPT ![c] = Append(queue[c], Head(inbox[c]))]
      /\ inbox' = [inbox EXCEPT ![c] = Tail(inbox[c])]
      /\ UNCHANGED <<count, peers, poisoned, status, peer_id, pc, cur, to,
                     resp, who, sock, sent, out>>
  BY DEF ReadReq, clientVars
<1>2. /\ queue \in [Conns -> Seq(Request)] /\ inbox \in [Conns -> Seq(Request)]
      /\ queue[c] \in Seq(GoodReq(c)) /\ inbox[c] \in Seq(GoodReq(c))
  BY DEF IInv, TypeOK, HandlersOK, HandlerOK
<1>3. /\ Append(queue[c], Head(inbox[c])) \in Seq(GoodReq(c))
      /\ Tail(inbox[c]) \in Seq(GoodReq(c))
  BY <1>1, <1>2
<1>4. /\ Append(queue[c], Head(inbox[c])) \in Seq(Request)
      /\ Tail(inbox[c]) \in Seq(Request)
      /\ Len(Append(queue[c], Head(inbox[c]))) <= Cap
  BY <1>1, <1>2
<1>5. TypeOK'
  BY <1>1, <1>2, <1>4 DEF IInv, TypeOK
<1>6. ASSUME NEW d \in Conns PROVE HandlerOK(d)'
  <2>1. HandlerOK(d) /\ GoodResp' = GoodResp /\ GoodReq(d)' = GoodReq(d)
    BY <1>1, SameWho DEF IInv, HandlersOK
  <2>2. queue'[d] \in Seq(GoodReq(d)) /\ inbox'[d] \in Seq(GoodReq(d))
    BY <1>1, <1>2, <1>3, <2>1 DEF HandlerOK
  <2> QED
    BY <1>1, <2>1, <2>2 DEF HandlerOK
<1> QED
  BY <1>1, <1>5, <1>6, FrameStep

(* A forward is delivered to the channel of the target, or dropped.        *)
LEMMA ForwardStep ==
  ASSUME IInv, NEW c \in Conns, ForwardDone(c)
  PROVE  IInv'
<1> USE ServerAssumption
<1> DEFINE t == to[c]
           m == Forwarded(c, cur[c])
<1>1. /\ pc[c] = "forward" /\ status[c] = "running"
      /\ \/ /\ Len(queue[t]) < Cap
            /\ queue' = [queue EXCEPT ![t] = Append(queue[t], m)]
         \/ queue' = queue
      /\ \/ /\ cur[c].cmd = "Isync"
            /\ pc' = [pc EXCEPT ![c] = "register"]
            /\ cur' = cur
         \/ /\ pc' = [pc EXCEPT ![c] = "recv"]
            /\ cur' = [cur EXCEPT ![c] = NoReq]
      /\ to' = [to EXCEPT ![c] = NoConn]
      /\ UNCHANGED <<count, peers, poisoned, status, peer_id, resp, who, sock,
                     sent, inbox, out>>
  BY DEF ForwardDone, clientVars
<1>2. /\ t \in Conns /\ cur[c] \in GoodReq(c)
      /\ cur[c].cmd \in {"Isync", "Rsync"}
  BY <1>1 DEF IInv, HandlersOK, HandlerOK
<1>3. m \in GoodReq(t)
  <2>1. CASE cur[c].cmd = "Isync"
    <3>1. m = FsyncReq(cur[c].id, c) /\ cur[c].id \in Ids /\ cur[c].id = who[c]
      BY <1>2, <2>1 DEF Forwarded, GoodReq
    <3>2. m \in Request
      BY <3>1 DEF FsyncReq, Request, Cmds, AnyId, Addrs
    <3> QED
      BY <3>1, <3>2 DEF FsyncReq, GoodReq
  <2>2. CASE cur[c].cmd = "Rsync"
    BY <1>2, <2>2 DEF Forwarded, GoodReq
  <2> QED
    BY <1>2, <2>1, <2>2
<1>4. m \in Request /\ NoReq \in Request /\ NoConn \in Addrs
  BY <1>3 DEF GoodReq, NoReq, Request, Cmds, AnyId, Addrs
<1>5. /\ queue \in [Conns -> Seq(Request)] /\ queue[t] \in Seq(GoodReq(t))
      /\ pc \in [Conns -> {"recv", "forward", "register", "write"}]
      /\ cur \in [Conns -> Request] /\ to \in [Conns -> Addrs]
      /\ \A d \in Conns : Len(queue[d]) <= Cap
  BY <1>2 DEF IInv, TypeOK, HandlersOK, HandlerOK
<1> HIDE DEF t, m
<1>6. queue' \in [Conns -> Seq(Request)] /\ \A d \in Conns : Len(queue'[d]) <= Cap
  <2>1. queue[t] \in Seq(Request)
    BY <1>2, <1>5
  <2>2. /\ Append(queue[t], m) \in Seq(Request)
        /\ Len(queue[t]) < Cap => Len(Append(queue[t], m)) <= Cap
    BY <1>4, <2>1
  <2> HIDE DEF Forwarded
  <2> QED
    BY <1>1, <1>2, <1>5, <2>2, ZenonT(60)
<1>7. /\ pc' \in [Conns -> {"recv", "forward", "register", "write"}]
      /\ cur' \in [Conns -> Request] /\ to' \in [Conns -> Addrs]
  BY <1>1, <1>4, <1>5
<1>8. TypeOK'
  BY <1>1, <1>6, <1>7 DEF IInv, TypeOK
<1>9. ASSUME NEW d \in Conns PROVE HandlerOK(d)'
  <2>1. HandlerOK(d) /\ GoodResp' = GoodResp /\ GoodReq(d)' = GoodReq(d)
    BY <1>1, SameWho DEF IInv, HandlersOK
  <2>2. queue'[d] \in Seq(GoodReq(d))
    <3>1. Append(queue[t], m) \in Seq(GoodReq(t))
      BY <1>3, <1>5
    <3>2. queue[d] \in Seq(GoodReq(d))
      BY <2>1 DEF HandlerOK
    <3>3. queue'[d] = queue[d] \/ (d = t /\ queue'[d] = Append(queue[t], m))
      BY <1>1, <1>2, <1>5
    <3> QED
      BY <3>1, <3>2, <3>3
  <2>3. CASE d = c
    <3>1. /\ pc'[c] # "forward"
          /\ pc'[c] = "register" => cur'[c] = cur[c] /\ cur[c].cmd = "Isync"
      BY <1>1, <1>5
    <3> QED
      BY <1>1, <1>2, <2>1, <2>2, <2>3, <3>1 DEF HandlerOK
  <2>4. CASE d # c
    <3>1. pc'[d] = pc[d] /\ cur'[d] = cur[d] /\ to'[d] = to[d]
      BY <1>1, <1>5, <2>4
    <3> QED
      BY <1>1, <2>1, <2>2, <3>1 DEF HandlerOK
  <2> QED
    BY <2>3, <2>4
<1> QED
  BY <1>1, <1>8, <1>9, FrameStep

(* handle_isync registers its sender after the forward.                    *)
LEMMA RegisterStep ==
  ASSUME IInv, NEW c \in Conns, RegisterSource(c)
  PROVE  IInv'
<1> USE ServerAssumption
<1>1. /\ pc[c] = "register" /\ status[c] = "running"
      /\ InsertPeerstate(c, cur[c].id)
      /\ pc' = [pc EXCEPT ![c] = "recv"] /\ cur' = [cur EXCEPT ![c] = NoReq]
      /\ UNCHANGED <<count, poisoned, status, queue, to, resp, who, sock, sent,
                     inbox, out>>
  BY DEF RegisterSource, clientVars
<1>2. cur[c] \in GoodReq(c) /\ cur[c].cmd = "Isync"
  BY <1>1 DEF IInv, HandlersOK, HandlerOK
<1>3. who[c] \in Ids /\ cur[c].id = who[c]
  BY <1>2 DEF GoodReq
<1>4. /\ peers' \in [Ids -> Addrs] /\ peer_id' \in [Conns -> AnyId]
      /\ RegistrySound'
  BY <1>1, <1>3, InsertStep
<1>5. NoReq \in Request
  BY DEF NoReq, Request, Cmds, AnyId, Addrs
<1>6. TypeOK'
  BY <1>1, <1>4, <1>5 DEF IInv, TypeOK
<1>7. Accepted'
  BY <1>1 DEF IInv, Accepted
<1>8. HandlersOK'
  <2> SUFFICES ASSUME NEW d \in Conns PROVE HandlerOK(d)'
    BY DEF HandlersOK
  <2>1. HandlerOK(d) /\ GoodResp' = GoodResp /\ GoodReq(d)' = GoodReq(d)
    BY <1>1, SameWho DEF IInv, HandlersOK
  <2>2. \/ pc'[d] = "recv"
        \/ pc'[d] = pc[d] /\ cur'[d] = cur[d]
    BY <1>1 DEF IInv, TypeOK
  <2> QED
    BY <1>1, <2>1, <2>2 DEF HandlerOK
<1> QED
  BY <1>4, <1>6, <1>7, <1>8 DEF IInv

(* A response reaches the socket, or is discarded.                         *)
LEMMA WriteStep ==
  ASSUME IInv, NEW c \in Conns, WriteDone(c)
  PROVE  IInv'
<1> USE ServerAssumption
<1>1. /\ \/ /\ Len(out[c]) < OutCap
            /\ out' = [out EXCEPT ![c] = Append(out[c], resp[c])]
         \/ out' = out
      /\ pc' = [pc EXCEPT ![c] = "recv"]
      /\ resp' = [resp EXCEPT ![c] = NoResp]
      /\ UNCHANGED <<count, peers, poisoned, status, peer_id, queue, cur, to,
                     who, sock, sent, inbox>>
  BY DEF WriteDone, clientVars
<1>2. NoResp \in Response /\ NoResp \in GoodResp
  BY DEF NoResp, Response, GoodResp, AnyId, Addrs
<1>3. /\ out \in [Conns -> Seq(Response)] /\ resp \in [Conns -> Response]
      /\ pc \in [Conns -> {"recv", "forward", "register", "write"}]
      /\ out[c] \in Seq(GoodResp) /\ resp[c] \in GoodResp
      /\ \A d \in Conns : Len(out[d]) <= OutCap
  BY DEF IInv, TypeOK, HandlersOK, HandlerOK
<1>4. /\ Append(out[c], resp[c]) \in Seq(GoodResp)
      /\ Append(out[c], resp[c]) \in Seq(Response)
      /\ Len(out[c]) < OutCap => Len(Append(out[c], resp[c])) <= OutCap
  BY <1>3
<1>5. out' \in [Conns -> Seq(Response)] /\ \A d \in Conns : Len(out'[d]) <= OutCap
  BY <1>1, <1>3, <1>4
<1>6. TypeOK'
  BY <1>1, <1>2, <1>5 DEF IInv, TypeOK
<1>7. ASSUME NEW d \in Conns PROVE HandlerOK(d)'
  <2>1. HandlerOK(d) /\ GoodResp' = GoodResp /\ GoodReq(d)' = GoodReq(d)
    BY <1>1, SameWho DEF IInv, HandlersOK
  <2>2. out'[d] \in Seq(GoodResp) /\ resp'[d] \in GoodResp
    BY <1>1, <1>2, <1>3, <1>4, <2>1 DEF HandlerOK
  <2>3. pc'[d] = "recv" \/ pc'[d] = pc[d]
    BY <1>1, <1>3
  <2> QED
    BY <1>1, <2>1, <2>2, <2>3 DEF HandlerOK
<1> QED
  BY <1>1, <1>6, <1>7, FrameStep

(* The panics.                                                             *)
LEMMA PanicSteps ==
  ASSUME IInv, NEW c \in Conns,
         LockPanic(c) \/ IsyncPanic(c) \/ InsertPanic(c)
  PROVE  IInv'
<1>1. status[c] = "running" /\ Panic(c)
  BY DEF LockPanic, IsyncPanic, InsertPanic, CmdReady
<1>2. /\ peers' \in [Ids -> Addrs]
      /\ \A i \in Ids : peers'[i] = peers[i] \/ peers'[i] = NoConn
  BY DEF LockPanic, IsyncPanic, InsertPanic, IInv, TypeOK, Addrs
<1>3. poisoned' = poisoned \/ poisoned' = TRUE
  BY DEF LockPanic, IsyncPanic, InsertPanic
<1>4. poisoned \in BOOLEAN
  BY DEF IInv, TypeOK
<1>5. poisoned' \in BOOLEAN
  BY <1>3, <1>4
<1> QED
  BY <1>1, <1>2, <1>5, PanicStep

(* The clients.                                                            *)
LEMMA ClientStep ==
  ASSUME IInv, NEW c \in Conns, Client(c)
  PROVE  IInv'
<1> USE ServerAssumption
<1>1. ASSUME NEW r \in ClientRequest(who[c]), ClientSend(c, r)
      PROVE  IInv'
  <2>1. /\ status[c] = "running" /\ sent < MaxReqs /\ sent' = sent + 1
        /\ inbox' = [inbox EXCEPT ![c] = Append(inbox[c], r)]
        /\ UNCHANGED <<count, peers, poisoned, status, peer_id, queue, pc, cur,
                       to, resp, who, sock, out>>
    BY <1>1 DEF ClientSend, handlerVars
  <2>2. who[c] \in Ids
    BY <2>1 DEF IInv, Accepted
  <2>3. r \in GoodReq(c) /\ r \in Request
    BY <2>2 DEF ClientRequest, GoodReq, Request, AnyId, Addrs
  <2>4. /\ inbox \in [Conns -> Seq(Request)] /\ inbox[c] \in Seq(GoodReq(c))
        /\ sent \in Nat
    BY DEF IInv, TypeOK, HandlersOK, HandlerOK
  <2>5. /\ Append(inbox[c], r) \in Seq(GoodReq(c))
        /\ Append(inbox[c], r) \in Seq(Request)
    BY <2>3, <2>4
  <2>6. sent' \in 0 .. MaxReqs
    BY <2>1, <2>4
  <2>7. TypeOK'
    BY <2>1, <2>4, <2>5, <2>6 DEF IInv, TypeOK
  <2>8. ASSUME NEW d \in Conns PROVE HandlerOK(d)'
    <3>1. HandlerOK(d) /\ GoodResp' = GoodResp /\ GoodReq(d)' = GoodReq(d)
      BY <2>1, SameWho DEF IInv, HandlersOK
    <3>2. inbox'[d] \in Seq(GoodReq(d))
      BY <2>1, <2>4, <2>5, <3>1 DEF HandlerOK
    <3> QED
      BY <2>1, <3>1, <3>2 DEF HandlerOK
  <2> QED
    BY <2>1, <2>7, <2>8, FrameStep
<1>2. ASSUME ClientRead(c) \/ ClientClose(c)
      PROVE  IInv'
  <2>1. /\ \/ out[c] # <<>> /\ out' = [out EXCEPT ![c] = Tail(out[c])]
           \/ out' = [out EXCEPT ![c] = <<>>]
        /\ UNCHANGED <<count, peers, poisoned, status, peer_id, queue, pc, cur,
                       to, resp, who, sent, inbox>>
    BY <1>2 DEF ClientRead, ClientClose, handlerVars, clientVars
  <2>2. /\ out \in [Conns -> Seq(Response)] /\ out[c] \in Seq(GoodResp)
        /\ \A d \in Conns : Len(out[d]) <= OutCap
    BY DEF IInv, TypeOK, HandlersOK, HandlerOK
  <2>3. PICK s : /\ out' = [out EXCEPT ![c] = s]
                 /\ s \in Seq(GoodResp) /\ s \in Seq(Response)
                 /\ Len(s) <= OutCap
    <3>1. CASE out[c] # <<>> /\ out' = [out EXCEPT ![c] = Tail(out[c])]
      <4>1. /\ Tail(out[c]) \in Seq(GoodResp) /\ Tail(out[c]) \in Seq(Response)
            /\ Len(Tail(out[c])) <= OutCap
        BY <2>2, <3>1
      <4> QED
        BY <3>1, <4>1
    <3>2. CASE out' = [out EXCEPT ![c] = <<>>]
      <4>1. <<>> \in Seq(GoodResp) /\ <<>> \in Seq(Response) /\ Len(<<>>) <= OutCap
        OBVIOUS
      <4> QED
        BY <3>2, <4>1
    <3> QED
      BY <2>1, <3>1, <3>2
  <2>4. out' \in [Conns -> Seq(Response)] /\ \A d \in Conns : Len(out'[d]) <= OutCap
    BY <2>2, <2>3
  <2>5. sock' \in [Conns -> {"open", "eof", "reset"}]
    BY <1>2 DEF ClientRead, ClientClose, clientVars, IInv, TypeOK
  <2>6. TypeOK'
    BY <2>1, <2>4, <2>5 DEF IInv, TypeOK
  <2>7. ASSUME NEW d \in Conns PROVE HandlerOK(d)'
    <3>1. HandlerOK(d) /\ GoodResp' = GoodResp /\ GoodReq(d)' = GoodReq(d)
      BY <2>1, SameWho DEF IInv, HandlersOK
    <3>2. out'[d] \in Seq(GoodResp)
      BY <2>1, <2>2, <2>3, <3>1 DEF HandlerOK
    <3> QED
      BY <2>1, <3>1, <3>2 DEF HandlerOK
  <2> QED
    BY <2>1, <2>6, <2>7, FrameStep
<1> QED
  BY <1>1, <1>2 DEF Client

-----------------------------------------------------------------------------
(* Every step of a task or of a client preserves the invariant.            *)
LEMMA TcpStep == IInv /\ [Next]_vars => IInv'
<1> SUFFICES ASSUME IInv, [Next]_vars PROVE IInv'
  OBVIOUS
<1>1. ASSUME NEW c \in Conns, ReadReqs(c) PROVE IInv'
  <2>1. CASE ReadReq(c)
    BY <2>1, ReadReqStep
  <2>2. CASE ReadFails(c) \/ ReadTimeout(c)
    BY <2>2, EndStep DEF ReadFails, ReadTimeout, AtAwait
  <2> QED
    BY <1>1, <2>1, <2>2 DEF ReadReqs
<1>2. ASSUME NEW c \in Conns, HandleCmds(c) PROVE IInv'
  <2>1. CASE HandleBye(c) \/ WriteFails(c)
    BY <2>1, EndStep DEF HandleBye, WriteFails, CmdReady
  <2> QED
    BY <1>2, <2>1, CmdSteps, ForwardStep, RegisterStep, WriteStep, PanicSteps
    DEF HandleCmds
<1>3. CASE UNCHANGED vars
  <2>1. /\ UNCHANGED <<count, peers, poisoned, status, peer_id, queue, pc, cur>>
        /\ UNCHANGED <<to, resp, who, sock, sent, inbox, out>>
    BY <1>3 DEF vars, handlerVars, clientVars
  <2>2. TypeOK'
    BY <2>1 DEF IInv, TypeOK
  <2>3. ASSUME NEW d \in Conns PROVE HandlerOK(d)'
    BY <2>1, SameWho DEF IInv, HandlersOK, HandlerOK
  <2> QED
    BY <2>1, <2>2, <2>3, FrameStep
<1> QED
  BY <1>1, <1>2, <1>3, AcceptStep, ClientStep DEF Next, Task

(* So it is an invariant of the server.                                    *)
LEMMA TcpInvariant == Spec => []IInv
  BY TcpInit, TcpStep, PTL DEF Spec

(* The variables keep their types, and channels and buffers their bounds.  *)
THEOREM TcpTypeCorrect == Spec => []TypeOK
<1>1. IInv => TypeOK
  BY DEF IInv
<1> QED
  BY <1>1, TcpInvariant, PTL

(* Every entry of the registry names a connection of that identity whose   *)
(* task serves it (or panicked), under any interleaving of registrations,  *)
(* replacements and clean-ups.                                             *)
THEOREM TcpRegistrySound == Spec => []RegistrySound
<1>1. IInv => RegistrySound
  BY DEF IInv
<1> QED
  BY <1>1, TcpInvariant, PTL

(* An address in an Fsync or a Redirect is one of the peer it names.       *)
THEOREM TcpAddressOfPeer == Spec => []AddressOfPeer
<1>1. IInv => AddressOfPeer
  <2> SUFFICES ASSUME IInv, NEW c \in Conns, NEW k \in 1 .. Len(out[c]),
                      out[c][k].addr # NoConn
               PROVE  who[out[c][k].addr] = out[c][k].peer
    BY DEF AddressOfPeer
  <2>1. out[c] \in Seq(GoodResp)
    BY DEF IInv, HandlersOK, HandlerOK
  <2>2. out[c][k] \in GoodResp
    BY <2>1
  <2> QED
    BY <2>2 DEF GoodResp
<1> QED
  BY <1>1, TcpInvariant, PTL

(* Only the connection that holds a registration, or a newer one of the    *)
(* same peer, takes it away: the clean-up of handle_stream never removes   *)
(* an entry that another connection has made since.                        *)
THEOREM TcpOnlyOwnerLeaves == Spec => OnlyOwnerLeaves
<1> DEFINE Left(i) ==
      LET c == peers[i]
          d == peers'[i]
      IN  c # NoConn /\ d # c =>
            \/ d # NoConn /\ who[d] = i /\ status'[d] = "running"
            \/ d = NoConn /\ status[c] = "running" /\ status'[c] = "done"
            \/ d = NoConn /\ ~poisoned /\ poisoned'
<1>1. IInv /\ [Next]_vars => [\A i \in Ids : Left(i)]_vars
  <2> SUFFICES ASSUME IInv, Next, NEW i \in Ids, peers'[i] # peers[i]
               PROVE  Left(i)
    OBVIOUS
  <2>0. /\ peers \in [Ids -> Addrs] /\ NoConn \notin Conns
        /\ status \in [Conns -> {"new", "running", "done", "panicked"}]
    BY DEF IInv, TypeOK, Conns, NoConn
  <2>1. ASSUME NEW e \in Conns, status[e] = "running", HandleStreamEnds(e)
        PROVE  Left(i)
    BY <2>0, <2>1 DEF HandleStreamEnds, Unregistered
  <2>2. ASSUME NEW e \in Conns, status[e] = "running", who[e] \in Ids,
               InsertPeerstate(e, who[e]), status' = status
        PROVE  Left(i)
    BY <2>0, <2>2 DEF InsertPeerstate
  <2>3. ASSUME NEW e \in Conns, ReadReqs(e) PROVE Left(i)
    BY <2>1, <2>3 DEF ReadReqs, ReadReq, ReadFails, ReadTimeout, AtAwait
  <2>4. ASSUME NEW e \in Conns, HandleCmds(e) PROVE Left(i)
    <3>1. CASE HandleBye(e) \/ WriteFails(e)
      BY <2>1, <3>1 DEF HandleBye, WriteFails, CmdReady
    <3>2. CASE HandlePing(e)
      <4>1. /\ status[e] = "running" /\ queue[e] # <<>>
            /\ Request1(e).cmd = "Ping" /\ Take(e) /\ status' = status
            /\ InsertPeerstate(e, Request1(e).id)
        BY <3>2 DEF HandlePing, CmdReady, Request1
      <4>2. Request1(e) \in GoodReq(e)
        BY <4>1, TakeLemma
      <4>3. Request1(e).id = who[e] /\ who[e] \in Ids
        BY <4>1, <4>2 DEF GoodReq
      <4> QED
        BY <2>2, <4>1, <4>3
    <3>3. CASE RegisterSource(e)
      <4>1. /\ status[e] = "running" /\ pc[e] = "register"
            /\ status' = status /\ InsertPeerstate(e, cur[e].id)
        BY <3>3 DEF RegisterSource
      <4>2. cur[e] \in GoodReq(e) /\ cur[e].cmd = "Isync"
        BY <4>1 DEF IInv, HandlersOK, HandlerOK
      <4>3. cur[e].id = who[e] /\ who[e] \in Ids
        BY <4>2 DEF GoodReq
      <4> QED
        BY <2>2, <4>1, <4>3
    <3>4. CASE InsertPanic(e)
      BY <2>0, <3>4 DEF InsertPanic
    <3>5. CASE \/ HandleIsync(e) \/ HandleIsyncNotFound(e) \/ HandleFsync(e)
               \/ HandleRsyncHere(e) \/ HandleRsync(e) \/ ForwardDone(e)
               \/ WriteDone(e) \/ LockPanic(e) \/ IsyncPanic(e)
      BY <3>5 DEF HandleIsync, HandleIsyncNotFound, HandleFsync,
                  HandleRsyncHere, HandleRsync, ForwardDone, WriteDone,
                  LockPanic, IsyncPanic
    <3> QED
      BY <2>4, <3>1, <3>2, <3>3, <3>4, <3>5 DEF HandleCmds
  <2>5. ASSUME NEW j \in Ids, Accept(j) PROVE Left(i)
    BY <2>5 DEF Accept
  <2>6. ASSUME NEW e \in Conns, Client(e) PROVE Left(i)
    BY <2>6 DEF Client, ClientSend, ClientRead, ClientClose
  <2> QED
    BY <2>3, <2>4, <2>5, <2>6 DEF Next, Task
<1>2. IInv /\ [Next]_vars =>
        [\A i \in Ids :
           LET c == peers[i]
               d == peers'[i]
           IN  c # NoConn /\ d # c =>
                 \/ d # NoConn /\ who[d] = i /\ status'[d] = "running"
                 \/ d = NoConn /\ status[c] = "running" /\ status'[c] = "done"
                 \/ d = NoConn /\ ~poisoned /\ poisoned']_vars
  BY <1>1
<1> QED
  BY <1>2, TcpInvariant, PTL DEF Spec, OnlyOwnerLeaves
=============================================================================

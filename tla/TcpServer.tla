------------------------------ MODULE TcpServer ------------------------------
(***************************************************************************)
(* The TCP rendezvous server (src/src/tcp/server.rs).                      *)
(*                                                                         *)
(* run() accepts connections and spawns one task per connection.  A task   *)
(* polls two futures in one select!: read_reqs moves requests from the     *)
(* socket to the connection's bounded mpsc channel, handle_cmds takes them *)
(* out and handles them.  The tasks share the map peers, behind one mutex, *)
(* from an identity to the connection that last announced it, and forward  *)
(* requests into each other's channels.                                    *)
(*                                                                         *)
(* A step runs from one point where other tasks can interfere to the next: *)
(* an .await, or the release of the mutex before it is taken again.        *)
(*                                                                         *)
(* Clients are the environment: they send requests carrying their own      *)
(* identity, as every client in src/ does (new_req), read responses, and   *)
(* close or abort their connection at any moment.                          *)
(***************************************************************************)
EXTENDS Naturals, Sequences

CONSTANTS
  Ids,         \* peer identities
  NoId,        \* the empty string: no identity
  MaxConns,    \* bound: connections accepted during a behaviour
  MaxReqs,     \* bound: requests the clients write during a behaviour
  Cap,         \* capacity of a connection's channel; channel(10) in the code
  OutCap,      \* responses the socket buffers while the client does not read
  ClientCmds   \* the commands clients may send

Cmds == {"Ping", "Isync", "Rsync", "Fsync", "Bye", "None", "Bad"}

ASSUME ServerAssumption ==
  /\ NoId \notin Ids
  /\ MaxConns \in Nat
  /\ MaxReqs \in Nat
  /\ Cap \in Nat \ {0}
  /\ OutCap \in Nat \ {0}
  /\ ClientCmds \subseteq Cmds

-----------------------------------------------------------------------------
(* Data.  A connection is named by the number next_id() gives it.  That    *)
(* number also stands for the client address the server observes on it;    *)
(* NoConn is the empty address string.  `peer' is the id inside a command. *)

Conns  == 1 .. MaxConns
NoConn == 0
Addrs  == Conns \cup {NoConn}
AnyId  == Ids \cup {NoId}

Request  == [cmd : Cmds, id : AnyId, peer : AnyId, addr : Addrs]
Response == [cmd : {"Pong", "Redirect", "Fsync", "None"},
             peer : AnyId, addr : Addrs]

NoReq  == [cmd |-> "None", id |-> NoId, peer |-> NoId, addr |-> NoConn]
NoResp == [cmd |-> "None", peer |-> NoId, addr |-> NoConn]
Pong   == [cmd |-> "Pong", peer |-> NoId, addr |-> NoConn]
Redirect(i, a) == [cmd |-> "Redirect", peer |-> i, addr |-> a]
FsyncReq(i, a) == [cmd |-> "Fsync", id |-> NoId, peer |-> i, addr |-> a]
FsyncResp(r)   == [cmd |-> "Fsync", peer |-> r.peer, addr |-> r.addr]

(* What a client of identity i may write; only some commands name a peer.  *)
ClientRequest(i) ==
  {r \in [cmd : ClientCmds, id : {i}, peer : AnyId, addr : {NoConn}] :
     r.cmd \in {"Isync", "Rsync", "Fsync"} <=> r.peer \in Ids}

VARIABLES
  count,     \* Server.count: connections accepted so far
  peers,     \* the PeerMap: identity -> connection, NoConn when absent
  poisoned,  \* whether the mutex of the PeerMap is poisoned
  status,    \* connection -> "new", "running", "done" or "panicked" (its task)
  peer_id,   \* connection -> PeerHandler.peer_id
  queue,     \* connection -> its mpsc channel
  pc,        \* connection -> where handle_cmds is
  cur,       \* connection -> the request being handled after an .await
  to,        \* connection -> whose channel it is waiting to send cur to
  resp,      \* connection -> the response it is writing
  who,       \* connection -> identity of the client (environment)
  sock,      \* connection -> "open", "eof" or "reset", the client's side
  sent,      \* requests written by the clients so far (environment)
  inbox,     \* connection -> requests in the socket, not read yet
  out        \* connection -> responses in the socket, not read by the client

handlerVars == <<peer_id, queue, pc, cur, to, resp>>
clientVars  == <<who, sock, sent>>
vars == <<count, peers, poisoned, status, handlerVars, clientVars, inbox, out>>

-----------------------------------------------------------------------------
Init ==
  /\ count = 0
  /\ peers = [i \in Ids |-> NoConn]
  /\ poisoned = FALSE
  /\ status = [c \in Conns |-> "new"]
  /\ peer_id = [c \in Conns |-> NoId]
  /\ queue = [c \in Conns |-> <<>>]
  /\ pc = [c \in Conns |-> "recv"]
  /\ cur = [c \in Conns |-> NoReq]
  /\ to = [c \in Conns |-> NoConn]
  /\ resp = [c \in Conns |-> NoResp]
  /\ who = [c \in Conns |-> NoId]
  /\ sock = [c \in Conns |-> "open"]
  /\ sent = 0
  /\ inbox = [c \in Conns |-> <<>>]
  /\ out = [c \in Conns |-> <<>>]

(* run(): accept, next_id, spawn the task.                                 *)
Accept(i) ==
  /\ count < MaxConns
  /\ count' = count + 1
  /\ status' = [status EXCEPT ![count + 1] = "running"]
  /\ who' = [who EXCEPT ![count + 1] = i]
  /\ UNCHANGED <<peers, poisoned, handlerVars, sock, sent, inbox, out>>

-----------------------------------------------------------------------------
(* The end of a task.                                                      *)

(* The task's futures, its channel and its socket are dropped.             *)
DropTask(c) ==
  /\ queue' = [queue EXCEPT ![c] = <<>>]
  /\ inbox' = [inbox EXCEPT ![c] = <<>>]
  /\ pc' = [pc EXCEPT ![c] = "recv"]
  /\ cur' = [cur EXCEPT ![c] = NoReq]
  /\ to' = [to EXCEPT ![c] = NoConn]
  /\ resp' = [resp EXCEPT ![c] = NoResp]
  /\ UNCHANGED <<count, peer_id, clientVars, out>>

(* Mutants: the clean-up is forgotten; it does not compare p.id.           *)
UnregisteredNever(c) == peers
UnregisteredById(c) ==
  [i \in Ids |-> IF i = peer_id[c] THEN NoConn ELSE peers[i]]

(* The peers without connection c, as the tail of handle_stream leaves it: *)
(* only the entry of c's current peer_id, and only if it is still c's.     *)
Unregistered(c) ==
  [i \in Ids |-> IF i = peer_id[c] /\ peers[i] = c THEN NoConn ELSE peers[i]]

(* One future of the select! is ready: the other is dropped and the rest   *)
(* of handle_stream runs.  Its lock().unwrap() panics on a poisoned mutex. *)
HandleStreamEnds(c) ==
  /\ DropTask(c)
  /\ UNCHANGED poisoned
  /\ \/ /\ ~poisoned
        /\ peers' = Unregistered(c)
        /\ status' = [status EXCEPT ![c] = "done"]
     \/ /\ poisoned
        /\ status' = [status EXCEPT ![c] = "panicked"]
        /\ UNCHANGED peers

-----------------------------------------------------------------------------
(* read_reqs.  It and handle_cmds take turns within one task, so it runs   *)
(* only while handle_cmds is at an .await.                                 *)

AtAwait(c) == status[c] = "running" /\ pc[c] \in {"recv", "forward", "write"}

(* Mutant: a channel without a bound.                                      *)
ReadReqUnbounded(c) ==
  /\ AtAwait(c)
  /\ inbox[c] # <<>> /\ Head(inbox[c]).cmd # "Bad"
  /\ queue' = [queue EXCEPT ![c] = Append(@, Head(inbox[c]))]
  /\ inbox' = [inbox EXCEPT ![c] = Tail(@)]
  /\ UNCHANGED <<count, peers, poisoned, status, peer_id, pc, cur, to, resp,
                 clientVars, out>>

(* A request was read within the timeout; it is sent to the task's own     *)
(* channel, waiting without a timeout while the channel is full.           *)
ReadReq(c) ==
  /\ AtAwait(c)
  /\ inbox[c] # <<>> /\ Head(inbox[c]).cmd # "Bad"
  /\ Len(queue[c]) < Cap
  /\ queue' = [queue EXCEPT ![c] = Append(@, Head(inbox[c]))]
  /\ inbox' = [inbox EXCEPT ![c] = Tail(@)]
  /\ UNCHANGED <<count, peers, poisoned, status, peer_id, pc, cur, to, resp,
                 clientVars, out>>

(* read_req fails: end of stream, reset, too long or not a Request.  A Bye *)
(* is sent to the channel, once it has room, and is dropped with it when   *)
(* read_reqs then returns.                                                 *)
ReadFails(c) ==
  /\ AtAwait(c)
  /\ \/ inbox[c] = <<>> /\ sock[c] # "open"
     \/ inbox[c] # <<>> /\ Head(inbox[c]).cmd = "Bad"
  /\ Len(queue[c]) < Cap
  /\ HandleStreamEnds(c)

(* Mutant: only connections that announced no identity are timed out.      *)
ReadTimeoutUnregistered(c) ==
  /\ AtAwait(c) /\ peer_id[c] = NoId
  /\ inbox[c] = <<>> /\ sock[c] = "open"
  /\ HandleStreamEnds(c)

(* Nothing was read for 30 seconds: read_reqs returns at once.             *)
ReadTimeout(c) ==
  /\ AtAwait(c)
  /\ inbox[c] = <<>> /\ sock[c] = "open"
  /\ HandleStreamEnds(c)

-----------------------------------------------------------------------------
(* handle_cmds.                                                            *)

CmdReady(c, cmd) ==
  /\ status[c] = "running" /\ pc[c] = "recv"
  /\ queue[c] # <<>> /\ Head(queue[c]).cmd = cmd

Request1(c) == Head(queue[c])

(* recv() returned the oldest request.                                     *)
Take(c) == queue' = [queue EXCEPT ![c] = Tail(@)]

(* send_response is waiting for the socket to take the response.           *)
StartWrite(c, r) ==
  /\ pc' = [pc EXCEPT ![c] = "write"]
  /\ resp' = [resp EXCEPT ![c] = r]
  /\ UNCHANGED <<cur, to>>

(* Waiting for room in the channel of connection p, for request r.         *)
StartForward(c, p, r) ==
  /\ pc' = [pc EXCEPT ![c] = "forward"]
  /\ cur' = [cur EXCEPT ![c] = r]
  /\ to' = [to EXCEPT ![c] = p]
  /\ UNCHANGED resp

(* insert_peerstate(i): an entry of another connection is replaced, the    *)
(* entry of this one is kept.  peer_addr().unwrap(), evaluated for a new   *)
(* entry while the mutex is held, panics on a socket that was reset.       *)
InsertPanics(c, i) == peers[i] # c /\ sock[c] = "reset"

InsertPeerstate(c, i) ==
  /\ ~poisoned /\ ~InsertPanics(c, i)
  /\ peer_id' = [peer_id EXCEPT ![c] = i]
  /\ peers' = [peers EXCEPT ![i] = c]

HandlePing(c) ==
  /\ CmdReady(c, "Ping")
  /\ InsertPeerstate(c, Request1(c).id)
  /\ Take(c)
  /\ StartWrite(c, Pong)
  /\ UNCHANGED <<count, poisoned, status, clientVars, inbox, out>>

(* Mutants: the source is answered at once, without waiting for the        *)
(* target; the source is registered before the forward.                    *)
HandleIsyncRedirects(c) ==
  /\ CmdReady(c, "Isync")
  /\ ~poisoned
  /\ peers[Request1(c).peer] # NoConn
  /\ Take(c)
  /\ StartWrite(c, Redirect(Request1(c).peer, peers[Request1(c).peer]))
  /\ UNCHANGED <<count, peers, poisoned, status, peer_id, clientVars, inbox,
                 out>>

HandleIsyncRegisters(c) ==
  /\ CmdReady(c, "Isync")
  /\ InsertPeerstate(c, Request1(c).id)
  /\ peers[Request1(c).peer] # NoConn
  /\ Take(c)
  /\ StartForward(c, peers[Request1(c).peer], Request1(c))
  /\ UNCHANGED <<count, poisoned, status, clientVars, inbox, out>>

(* handle_isync, the target is registered: forward an Fsync to it with the *)
(* address seen on this socket.                                            *)
HandleIsync(c) ==
  /\ CmdReady(c, "Isync")
  /\ ~poisoned /\ sock[c] # "reset"
  /\ peers[Request1(c).peer] # NoConn
  /\ Take(c)
  /\ StartForward(c, peers[Request1(c).peer], Request1(c))
  /\ UNCHANGED <<count, peers, poisoned, status, peer_id, clientVars, inbox,
                 out>>

(* handle_isync, the target is not registered: an empty Redirect.          *)
HandleIsyncNotFound(c) ==
  /\ CmdReady(c, "Isync")
  /\ ~poisoned
  /\ peers[Request1(c).peer] = NoConn
  /\ Take(c)
  /\ StartWrite(c, Redirect(Request1(c).peer, NoConn))
  /\ UNCHANGED <<count, peers, poisoned, status, peer_id, clientVars, inbox,
                 out>>

(* handle_fsync: pass the forwarded request on to the client.              *)
HandleFsync(c) ==
  /\ CmdReady(c, "Fsync")
  /\ Take(c)
  /\ StartWrite(c, FsyncResp(Request1(c)))
  /\ UNCHANGED <<count, peers, poisoned, status, peer_id, clientVars, inbox,
                 out>>

(* handle_rsync, addressed to the identity of this connection: answer the  *)
(* client's Isync with the registered address of the sender.               *)
HandleRsyncHere(c) ==
  /\ CmdReady(c, "Rsync")
  /\ ~poisoned
  /\ Request1(c).peer = peer_id[c]
  /\ Take(c)
  /\ \/ /\ peers[Request1(c).id] # NoConn
        /\ StartWrite(c, Redirect(Request1(c).id, peers[Request1(c).id]))
     \/ /\ peers[Request1(c).id] = NoConn
        /\ UNCHANGED <<pc, cur, to, resp>>
  /\ UNCHANGED <<count, peers, poisoned, status, peer_id, clientVars, inbox,
                 out>>

(* handle_rsync, addressed to another identity: forward it, if that        *)
(* identity is registered.                                                 *)
HandleRsync(c) ==
  /\ CmdReady(c, "Rsync")
  /\ ~poisoned
  /\ Request1(c).peer # peer_id[c]
  /\ Take(c)
  /\ \/ /\ peers[Request1(c).peer] # NoConn
        /\ StartForward(c, peers[Request1(c).peer], Request1(c))
     \/ /\ peers[Request1(c).peer] = NoConn
        /\ UNCHANGED <<pc, cur, to, resp>>
  /\ UNCHANGED <<count, peers, poisoned, status, peer_id, clientVars, inbox,
                 out>>

(* A Bye, or a request without a command: handle_cmds returns an error.    *)
HandleBye(c) ==
  /\ CmdReady(c, "Bye") \/ CmdReady(c, "None")
  /\ HandleStreamEnds(c)

(* Mutant: the Fsync names the target instead of the source.               *)
ForwardedDst(c, r) == IF r.cmd = "Isync" THEN FsyncReq(r.peer, c) ELSE r

(* What handle_isync or handle_rsync forwards for request r.               *)
Forwarded(c, r) == IF r.cmd = "Isync" THEN FsyncReq(r.id, c) ELSE r

(* The channel of the target has room, or is closed because its task ended *)
(* (the error is ignored).  An Isync still has to register its sender.     *)
ForwardDone(c) ==
  /\ status[c] = "running" /\ pc[c] = "forward"
  /\ \/ /\ status[to[c]] = "running"
        /\ Len(queue[to[c]]) < Cap
        /\ queue' = [queue EXCEPT ![to[c]] = Append(@, Forwarded(c, cur[c]))]
     \/ /\ status[to[c]] # "running"
        /\ UNCHANGED queue
  /\ \/ /\ cur[c].cmd = "Isync"
        /\ pc' = [pc EXCEPT ![c] = "register"]
        /\ UNCHANGED cur
     \/ /\ cur[c].cmd # "Isync"
        /\ pc' = [pc EXCEPT ![c] = "recv"]
        /\ cur' = [cur EXCEPT ![c] = NoReq]
  /\ to' = [to EXCEPT ![c] = NoConn]
  /\ UNCHANGED <<count, peers, poisoned, status, peer_id, resp, clientVars,
                 inbox, out>>

(* The rest of handle_isync, after the forward.                            *)
RegisterSource(c) ==
  /\ status[c] = "running" /\ pc[c] = "register"
  /\ InsertPeerstate(c, cur[c].id)
  /\ pc' = [pc EXCEPT ![c] = "recv"]
  /\ cur' = [cur EXCEPT ![c] = NoReq]
  /\ UNCHANGED <<count, poisoned, status, queue, to, resp, clientVars, inbox,
                 out>>

(* send_response completes: the socket has room, or the client closed it   *)
(* and the bytes are discarded.                                            *)
WriteDone(c) ==
  /\ status[c] = "running" /\ pc[c] = "write"
  /\ \/ /\ sock[c] = "open" /\ Len(out[c]) < OutCap
        /\ out' = [out EXCEPT ![c] = Append(@, resp[c])]
     \/ /\ sock[c] = "eof"
        /\ UNCHANGED out
  /\ pc' = [pc EXCEPT ![c] = "recv"]
  /\ resp' = [resp EXCEPT ![c] = NoResp]
  /\ UNCHANGED <<count, peers, poisoned, status, peer_id, queue, cur, to,
                 clientVars, inbox>>

(* send_response fails on a reset connection: handle_cmds returns.         *)
WriteFails(c) ==
  /\ status[c] = "running" /\ pc[c] = "write"
  /\ sock[c] = "reset"
  /\ HandleStreamEnds(c)

-----------------------------------------------------------------------------
(* Panics.  A panic unwinds the task: handle_stream's clean-up is skipped. *)

Panic(c) == DropTask(c) /\ status' = [status EXCEPT ![c] = "panicked"]

(* lock().unwrap() on the poisoned mutex.                                  *)
LockPanic(c) ==
  /\ poisoned
  /\ \/ CmdReady(c, "Ping") \/ CmdReady(c, "Isync") \/ CmdReady(c, "Rsync")
     \/ status[c] = "running" /\ pc[c] = "register"
  /\ Panic(c)
  /\ UNCHANGED <<peers, poisoned>>

(* peer_addr().unwrap() in handle_isync, outside the lock.                 *)
IsyncPanic(c) ==
  /\ CmdReady(c, "Isync")
  /\ ~poisoned /\ sock[c] = "reset"
  /\ peers[Request1(c).peer] # NoConn
  /\ Panic(c)
  /\ UNCHANGED <<peers, poisoned>>

(* peer_addr().unwrap() in insert_peerstate, inside the lock: the entry of *)
(* the other connection is gone already, and the mutex is poisoned.        *)
InsertPanic(c) ==
  /\ ~poisoned
  /\ \E i \in Ids :
       /\ \/ CmdReady(c, "Ping") /\ i = Request1(c).id
          \/ status[c] = "running" /\ pc[c] = "register" /\ i = cur[c].id
       /\ InsertPanics(c, i)
       /\ peers' = [peers EXCEPT ![i] = NoConn]
  /\ poisoned' = TRUE
  /\ Panic(c)

-----------------------------------------------------------------------------
(* The clients (environment).                                              *)

ClientSend(c, r) ==
  /\ status[c] = "running" /\ sock[c] = "open"
  /\ sent < MaxReqs
  /\ sent' = sent + 1
  /\ inbox' = [inbox EXCEPT ![c] = Append(@, r)]
  /\ UNCHANGED <<count, peers, poisoned, status, handlerVars, who, sock, out>>

ClientRead(c) ==
  /\ sock[c] = "open" /\ out[c] # <<>>
  /\ out' = [out EXCEPT ![c] = Tail(@)]
  /\ UNCHANGED <<count, peers, poisoned, status, handlerVars, clientVars,
                 inbox>>

(* An orderly close (a FIN) or an abort (a RST, also the answer to a       *)
(* response that reaches a closed socket).                                 *)
ClientClose(c) ==
  /\ status[c] = "running"
  /\ \/ sock[c] = "open" /\ sock' = [sock EXCEPT ![c] = "eof"]
     \/ sock[c] # "reset" /\ sock' = [sock EXCEPT ![c] = "reset"]
  /\ out' = [out EXCEPT ![c] = <<>>]
  /\ UNCHANGED <<count, peers, poisoned, status, handlerVars, who, sent,
                 inbox>>

-----------------------------------------------------------------------------
ReadReqs(c) == ReadReq(c) \/ ReadFails(c) \/ ReadTimeout(c)

HandleCmds(c) ==
  \/ HandlePing(c) \/ HandleIsync(c) \/ HandleIsyncNotFound(c)
  \/ HandleFsync(c) \/ HandleRsyncHere(c) \/ HandleRsync(c) \/ HandleBye(c)
  \/ ForwardDone(c) \/ RegisterSource(c) \/ WriteDone(c) \/ WriteFails(c)
  \/ LockPanic(c) \/ IsyncPanic(c) \/ InsertPanic(c)

Task(c) == ReadReqs(c) \/ HandleCmds(c)

Client(c) ==
  \/ \E r \in ClientRequest(who[c]) : ClientSend(c, r)
  \/ ClientRead(c)
  \/ ClientClose(c)

Next ==
  \/ \E i \in Ids : Accept(i)
  \/ \E c \in Conns : Task(c) \/ Client(c)

(* The server, with any clients that keep to ClientRequest.  A composition *)
(* with the real clients has to satisfy this formula: then it cannot drive *)
(* the server into anything that was not considered here.                  *)
Spec == Init /\ [][Next]_vars

-----------------------------------------------------------------------------
(* The values of the variables; the channel and the socket buffer of a     *)
(* connection stay within their capacities although several tasks send to  *)
(* the same channel.                                                       *)
TypeOK ==
  /\ count \in 0 .. MaxConns
  /\ peers \in [Ids -> Addrs]
  /\ poisoned \in BOOLEAN
  /\ status \in [Conns -> {"new", "running", "done", "panicked"}]
  /\ peer_id \in [Conns -> AnyId]
  /\ queue \in [Conns -> Seq(Request)]
  /\ pc \in [Conns -> {"recv", "forward", "register", "write"}]
  /\ cur \in [Conns -> Request]
  /\ to \in [Conns -> Addrs]
  /\ resp \in [Conns -> Response]
  /\ who \in [Conns -> AnyId]
  /\ sock \in [Conns -> {"open", "eof", "reset"}]
  /\ sent \in 0 .. MaxReqs
  /\ inbox \in [Conns -> Seq(Request)]
  /\ out \in [Conns -> Seq(Response)]
  /\ \A c \in Conns : Len(queue[c]) <= Cap /\ Len(out[c]) <= OutCap

(* The registry is sound.  An entry of peers names a connection whose      *)
(* client has that identity, which will find the entry when it cleans up   *)
(* (peer_id), and whose task has not ended: whoever looks an identity up   *)
(* gets a channel that is served, unless the task panicked.  It needs      *)
(* insert_peerstate and the end of handle_stream to agree, across          *)
(* replacements by another connection of the same identity.                *)
RegistrySound ==
  \A i \in Ids : peers[i] # NoConn =>
    /\ who[peers[i]] = i
    /\ peer_id[peers[i]] = i
    /\ status[peers[i]] \in {"running", "panicked"}

(* Addresses reach the right peer: every Fsync and every non-empty         *)
(* Redirect written to a client carries the address of a connection whose  *)
(* client has the identity the message names, although handle_isync and    *)
(* handle_rsync look peers up at different times and the entry may have    *)
(* been replaced or removed in between.                                    *)
AddressOfPeer ==
  \A c \in Conns : \A k \in 1 .. Len(out[c]) :
    out[c][k].addr # NoConn => who[out[c][k].addr] = out[c][k].peer

(* A registration is taken away from connection c only by a connection of  *)
(* the same identity, or by the end of c itself: the late clean-up of an   *)
(* old connection (handle_stream's p.id == self.id) never removes the      *)
(* entry a newer connection of the same peer has made.                     *)
OnlyOwnerLeaves ==
  [][\A i \in Ids :
       LET c == peers[i]
           d == peers'[i]
       IN  c # NoConn /\ d # c =>
             \/ d # NoConn /\ who[d] = i /\ status'[d] = "running"
             \/ d = NoConn /\ status[c] = "running" /\ status'[c] = "done"
             \/ d = NoConn /\ ~poisoned /\ poisoned']_vars

(* lib.rs: "the server will associate this identity with the observed      *)
(* address".  When handle_cmds takes a Ping of a client that is still      *)
(* there, the client's identity is associated with its connection.         *)
PingAssociates ==
  [][\A c \in Conns :
       HandleCmds(c) /\ CmdReady(c, "Ping") /\ sock[c] = "open"
         => peers'[who[c]] = c]_vars

==============================================================================

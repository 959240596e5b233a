------------------------------ MODULE UdpServer ------------------------------
(***************************************************************************)
(* The UDP rendezvous server (src/src/udp/server.rs): one thread, a loop   *)
(* of recv_from with a 30-second timeout, handle_request, and gc when it   *)
(* is due.  The map clients goes from an identity to the address it was    *)
(* last seen at and the time of that.                                      *)
(*                                                                         *)
(* The clients and the network are the environment.  A client of identity  *)
(* i sends requests under its own identity from any of its addresses (it   *)
(* restarts, or its NAT mapping changes).  Datagrams carry no time, and    *)
(* the network may lose, delay, reorder and duplicate them: so any request *)
(* that a client may ever send can arrive at any time, or not at all.      *)
(*                                                                         *)
(* Time is discrete.  Handling a datagram takes no time.                   *)
(***************************************************************************)
EXTENDS Integers

CONSTANTS
  Ids,          \* peer identities
  Addrs,        \* client addresses
  NoAddr,       \* the empty address string; also: no client
  Owner,        \* address -> the identity that sends from it
  ByeIds,       \* identities that may send a Bye
  ReadTimeout,  \* read timeout of the socket, 30 seconds in the code
  GcPeriod,     \* time between two gc, 60 seconds in the code
  Expire,       \* age at which gc removes a client, 60 seconds in the code
  MaxTime       \* bound: the time at which behaviours stop

ASSUME UdpServerAssumption ==
  /\ NoAddr \notin Addrs
  /\ Owner \in [Addrs -> Ids]
  /\ ByeIds \subseteq Ids
  /\ ReadTimeout \in Nat \ {0}
  /\ GcPeriod \in Nat
  /\ Expire \in Nat \ {0}
  /\ MaxTime \in Nat

Times == 0 .. MaxTime

(* A client entry; `addr' is NoAddr when the map has no entry.             *)
Client   == [addr : Addrs \cup {NoAddr}, last_ping : Times]
Never    == 0 - 1
NoClient == [addr |-> NoAddr, last_ping |-> 0]

(* The requests of the clients, with their source address; `peer' is the   *)
(* id inside an Isync or Rsync.  "None": no command the server handles.    *)
Request ==
  {r \in [cmd : {"Ping", "Isync", "Rsync", "Bye", "None"}, id : Ids,
          peer : Ids, src : Addrs] :
     /\ Owner[r.src] = r.id
     /\ r.cmd = "Bye" => r.id \in ByeIds
     /\ r.cmd \in {"Ping", "Bye", "None"} => r.peer = r.id}

(* A response sent to address dst; `id' is Response.id, peer and addr are  *)
(* the contents of an Fsync or a Redirect.                                 *)
Response == [cmd : {"Pong", "Fsync", "Redirect"}, id : Ids, dst : Addrs,
             peer : Ids, addr : Addrs \cup {NoAddr}]

VARIABLES
  clients,  \* Server.clients
  next_gc,  \* Server.next_gc
  now,      \* the clock
  waiting,  \* when the recv_from in progress was entered
  sent,     \* the response the last iteration of the loop sent, if any
  told      \* identity -> when an Fsync naming it was last sent (history)

vars == <<clients, next_gc, now, waiting, sent, told>>

Init ==
  /\ clients = [i \in Ids |-> NoClient]
  /\ next_gc = GcPeriod
  /\ now = 0
  /\ waiting = 0
  /\ sent = {}
  /\ told = [i \in Ids |-> Never]

-----------------------------------------------------------------------------
(* gc.                                                                     *)

(* Mutants: gc removes nobody; it removes clients at half the age.         *)
RetainedAlways(cs) == cs
RetainedHalf(cs) ==
  [i \in Ids |-> IF cs[i].last_ping > now - Expire \div 2 THEN cs[i]
                                                         ELSE NoClient]

(* The clients gc keeps: those younger than Expire.                        *)
Retained(cs) ==
  [i \in Ids |-> IF cs[i].last_ping > now - Expire THEN cs[i] ELSE NoClient]

(* The end of the loop's body, with the clients handle_request left: gc if *)
(* it is due, then recv_from again.                                        *)
EndOfLoop(cs) ==
  /\ \/ /\ now > next_gc
        /\ clients' = Retained(cs)
        /\ next_gc' = now + GcPeriod
     \/ /\ now <= next_gc
        /\ clients' = cs
        /\ UNCHANGED next_gc
  /\ waiting' = now
  /\ UNCHANGED now

-----------------------------------------------------------------------------
(* handle_request.                                                         *)

(* Mutant: the entry holds the time at which it expires.                   *)
SeenUntil(i, a) ==
  [clients EXCEPT ![i] = [addr |-> a, last_ping |-> now + Expire]]

(* The entry of i is made or refreshed, with the source of the datagram.   *)
Seen(i, a) == [clients EXCEPT ![i] = [addr |-> a, last_ping |-> now]]

Known(i) == clients[i].addr # NoAddr

Send(cmd, i, dst, peer, addr) ==
  /\ sent' = {[cmd |-> cmd, id |-> i, dst |-> dst, peer |-> peer,
               addr |-> addr]}
  /\ told' = IF cmd = "Fsync" THEN [told EXCEPT ![peer] = now] ELSE told

SendNothing == sent' = {} /\ UNCHANGED told

HandlePing(r) ==
  /\ r.cmd = "Ping"
  /\ Send("Pong", r.id, r.src, r.id, NoAddr)
  /\ EndOfLoop(Seen(r.id, r.src))

(* Mutant: the source of an Isync is not registered.                       *)
HandleIsyncForgets(r) ==
  /\ r.cmd = "Isync" /\ Known(r.peer)
  /\ Send("Fsync", r.peer, clients[r.peer].addr, r.id, r.src)
  /\ EndOfLoop(clients)

(* The target is known: register the source, then tell the target, at the  *)
(* address it had before.                                                  *)
HandleIsync(r) ==
  /\ r.cmd = "Isync" /\ Known(r.peer)
  /\ Send("Fsync", r.peer, clients[r.peer].addr, r.id, r.src)
  /\ EndOfLoop(Seen(r.id, r.src))

HandleIsyncNotFound(r) ==
  /\ r.cmd = "Isync" /\ ~Known(r.peer)
  /\ Send("Redirect", r.id, r.src, r.peer, NoAddr)
  /\ EndOfLoop(clients)

(* Mutant: the Redirect has the address the destination is registered at.  *)
HandleRsyncEcho(r) ==
  /\ r.cmd = "Rsync"
  /\ Known(r.peer)
  /\ Send("Redirect", r.peer, clients[r.peer].addr, r.id,
          clients[r.peer].addr)
  /\ EndOfLoop(clients)

(* The destination of the Rsync is told the address the Rsync came from.   *)
HandleRsync(r) ==
  /\ r.cmd = "Rsync"
  /\ \/ /\ Known(r.peer)
        /\ Send("Redirect", r.peer, clients[r.peer].addr, r.id, r.src)
     \/ ~Known(r.peer) /\ SendNothing
  /\ EndOfLoop(clients)

HandleBye(r) ==
  /\ r.cmd = "Bye"
  /\ EndOfLoop([clients EXCEPT ![r.id] = NoClient])
  /\ SendNothing

(* No command, or one that only responses have.                            *)
HandleUnknown(r) ==
  /\ r.cmd = "None"
  /\ EndOfLoop(clients)
  /\ SendNothing

HandleRequest(r) ==
  \/ HandlePing(r) \/ HandleIsync(r) \/ HandleIsyncNotFound(r)
  \/ HandleRsync(r) \/ HandleBye(r) \/ HandleUnknown(r)

Receive == \E r \in Request : HandleRequest(r)

(* recv_from times out, fails, or returns bytes that are not a Request.    *)
ReceiveNothing ==
  /\ EndOfLoop(clients)
  /\ SendNothing

(* recv_from returns at the latest when the read timeout has passed.       *)
Tick ==
  /\ now < MaxTime
  /\ now - waiting < ReadTimeout
  /\ now' = now + 1
  /\ UNCHANGED <<clients, next_gc, waiting, sent, told>>

Next == Receive \/ ReceiveNothing \/ Tick

Spec == Init /\ [][Next]_vars

-----------------------------------------------------------------------------
(* The values of the variables: no entry has a last_ping in the future.    *)
TypeOK ==
  /\ clients \in [Ids -> Client]
  /\ next_gc \in 0 .. MaxTime + GcPeriod
  /\ now \in Times
  /\ waiting \in Times
  /\ sent \subseteq Response
  /\ told \in [Ids -> Times \cup {Never}]

(* gc works although it only runs between two requests: a client that has  *)
(* not been heard of for Expire + GcPeriod + ReadTimeout (150 seconds) is  *)
(* not in the map, and no Fsync or Redirect is sent for it.                *)
StaleForgotten ==
  \A i \in Ids :
    Known(i) => now - clients[i].last_ping < Expire + GcPeriod + ReadTimeout

(* A client that keeps being heard of is kept: an entry younger than       *)
(* Expire (60 seconds; listeners ping every 10 to 15) disappears only by a *)
(* Bye of its own identity, never by gc.                                   *)
FreshKept ==
  [][\A i \in Ids :
       /\ Known(i) /\ now - clients[i].last_ping < Expire
       /\ clients'[i].addr = NoAddr
       => \E r \in Request : HandleBye(r) /\ r.id = i]_vars

(* The answer finds its way: for Expire after a target has been told of a  *)
(* connecting peer, that peer is in the map, so the Rsync of the target    *)
(* becomes a Redirect (unless the peer said Bye).                          *)
SourceKnown ==
  \A i \in Ids :
    told[i] # Never /\ now - told[i] < Expire /\ i \notin ByeIds => Known(i)

(* Addresses are those of the peer named, whatever was delayed, reordered  *)
(* or delivered twice: an Fsync and a Redirect carry an address that the   *)
(* identity they name sends from, and go to an address of the identity     *)
(* they are for.                                                           *)
AddressOfPeer ==
  \A m \in sent :
    /\ Owner[m.dst] = m.id
    /\ m.addr # NoAddr => Owner[m.addr] = m.peer

=============================================================================

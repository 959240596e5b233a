--------------------------- MODULE UdpServerProofs ---------------------------
(***************************************************************************)
(* Theorems about UdpServer, for any sets of identities and addresses and  *)
(* any read timeout, gc period and expiry.                                 *)
(***************************************************************************)
EXTENDS UdpServer, TLAPS

(* The server never blocks with gc overdue, and never longer than the read *)
(* timeout.                                                                *)
Timing ==
  /\ waiting <= now /\ now <= waiting + ReadTimeout
  /\ waiting <= next_gc /\ next_gc <= waiting + GcPeriod

(* An entry has an address of its identity, and the last gc (at            *)
(* next_gc - GcPeriod) would have removed it had it been too old then.     *)
EntryOK(cs) ==
  \A i \in Ids : cs[i].addr # NoAddr =>
    /\ Owner[cs[i].addr] = i
    /\ cs[i].last_ping <= now
    /\ next_gc < cs[i].last_ping + Expire + GcPeriod

(* A peer an Fsync has named was refreshed then or later.                  *)
ToldOK(cs, t) ==
  \A i \in Ids : t[i] # Never /\ i \notin ByeIds =>
    /\ t[i] <= now
    /\ now - t[i] < Expire => cs[i].addr # NoAddr /\ t[i] <= cs[i].last_ping

(* The inductive invariant.                                                *)
IInv ==
  /\ TypeOK
  /\ Timing
  /\ EntryOK(clients)
  /\ ToldOK(clients, told)
  /\ AddressOfPeer

-----------------------------------------------------------------------------
(* The end of the loop's body, gc included, re-establishes what the loop   *)
(* relies on, whatever clients cs and told t the handler has left.         *)
LEMMA LoopLemma ==
  ASSUME IInv,
         NEW cs \in [Ids -> Client], EntryOK(cs),
         told' \in [Ids -> Times \cup {Never}], ToldOK(cs, told'),
         EndOfLoop(cs)
  PROVE  /\ clients' \in [Ids -> Client]
         /\ next_gc' \in 0 .. MaxTime + GcPeriod
         /\ now' = now /\ waiting' = now
         /\ Timing'
         /\ EntryOK(clients)'
         /\ ToldOK(clients, told)'
<1> USE UdpServerAssumption
<1>1. /\ now \in Nat /\ waiting \in Nat /\ next_gc \in Nat /\ now <= MaxTime
      /\ waiting <= now /\ now <= waiting + ReadTimeout
      /\ waiting <= next_gc /\ next_gc <= waiting + GcPeriod
  BY DEF IInv, TypeOK, Timing, Times
<1>2. now' = now /\ waiting' = now
  BY DEF EndOfLoop
<1>3. \A i \in Ids : cs[i].last_ping \in Nat /\ cs[i].last_ping <= MaxTime
                     /\ cs[i].addr \in Addrs \cup {NoAddr}
  BY DEF Client, Times
<1>4. \A i \in Ids : told'[i] = Never \/ told'[i] \in Nat
  BY DEF Times
<1>5. CASE now > next_gc /\ clients' = Retained(cs) /\ next_gc' = now + GcPeriod
  <2>1. NoClient \in Client
    BY <1>1 DEF NoClient, Client, Times
  <2>2. clients' \in [Ids -> Client]
    BY <1>5, <2>1 DEF Retained
  <2>3. next_gc' \in 0 .. MaxTime + GcPeriod
    BY <1>1, <1>5
  <2>4. Timing'
    BY <1>1, <1>2, <1>5 DEF Timing
  <2>5. \A i \in Ids : /\ clients'[i] = cs[i] \/ clients'[i] = NoClient
                       /\ clients'[i] = cs[i] <=> \/ cs[i].last_ping > now - Expire
                                                  \/ cs[i] = NoClient
    BY <1>5 DEF Retained
  <2>6. EntryOK(clients)'
    BY <1>1, <1>2, <1>3, <1>5, <2>5 DEF EntryOK, NoClient
  <2>7. ToldOK(clients, told)'
    BY <1>1, <1>2, <1>3, <1>4, <1>5, <2>5 DEF ToldOK, NoClient
  <2> QED
    BY <1>2, <2>2, <2>3, <2>4, <2>6, <2>7
<1>6. CASE now <= next_gc /\ clients' = cs /\ next_gc' = next_gc
  <2>1. Timing'
    BY <1>1, <1>2, <1>6 DEF Timing
  <2>2. EntryOK(clients)'
    BY <1>2, <1>6 DEF EntryOK
  <2>3. ToldOK(clients, told)'
    BY <1>2, <1>6 DEF ToldOK
  <2> QED
    BY <1>1, <1>2, <1>6, <2>1, <2>2, <2>3 DEF IInv, TypeOK
<1> QED
  BY <1>5, <1>6 DEF EndOfLoop

(* Refreshing an entry keeps the map good; so does removing one.           *)
LEMMA SeenLemma ==
  ASSUME IInv, NEW i \in Ids, NEW a \in Addrs, Owner[a] = i
  PROVE  /\ Seen(i, a) \in [Ids -> Client]
         /\ EntryOK(Seen(i, a))
         /\ ToldOK(Seen(i, a), told)
         /\ ToldOK(Seen(i, a), [told EXCEPT ![i] = now])
<1> USE UdpServerAssumption
<1>1. /\ now \in Nat /\ now \in Times /\ waiting \in Nat /\ next_gc \in Nat
      /\ waiting <= now /\ next_gc <= waiting + GcPeriod
      /\ clients \in [Ids -> Client]
      /\ told \in [Ids -> Times \cup {Never}]
  BY DEF IInv, TypeOK, Timing, Times
<1>2. Seen(i, a) \in [Ids -> Client]
  BY <1>1 DEF Seen, Client
<1>3. \A j \in Ids : Seen(i, a)[j] = IF j = i THEN [addr |-> a, last_ping |-> now]
                                              ELSE clients[j]
  BY <1>1 DEF Seen
<1>4. EntryOK(Seen(i, a))
  BY <1>1, <1>3 DEF EntryOK, IInv
<1>5. ToldOK(Seen(i, a), told)
  BY <1>1, <1>3 DEF ToldOK, IInv
<1>6. ToldOK(Seen(i, a), [told EXCEPT ![i] = now])
  BY <1>1, <1>3, <1>5 DEF ToldOK
<1> QED
  BY <1>2, <1>4, <1>5, <1>6

(* The inductive invariant holds when the server starts.                   *)
LEMMA UdpInit == Init => IInv
  BY UdpServerAssumption
  DEF Init, IInv, TypeOK, Timing, EntryOK, ToldOK, AddressOfPeer, NoClient,
      Client, Times, Never

(* Every step of the server and every tick preserves the invariant.        *)
LEMMA UdpStep == IInv /\ [Next]_vars => IInv'
<1> SUFFICES ASSUME IInv, [Next]_vars
             PROVE  IInv'
  OBVIOUS
<1> USE UdpServerAssumption
<1>0. /\ clients \in [Ids -> Client] /\ told \in [Ids -> Times \cup {Never}]
      /\ EntryOK(clients) /\ ToldOK(clients, told)
      /\ now \in Times /\ waiting \in Times
      /\ next_gc \in 0 .. MaxTime + GcPeriod
  BY DEF IInv, TypeOK
<1>1. ASSUME NEW cs \in [Ids -> Client], EntryOK(cs), ToldOK(cs, told'),
             told' \in [Ids -> Times \cup {Never}], EndOfLoop(cs),
             sent' \subseteq Response, AddressOfPeer'
      PROVE  IInv'
  BY <1>0, <1>1, LoopLemma DEF IInv, TypeOK
<1>2. ASSUME SendNothing
      PROVE  /\ told' = told /\ sent' \subseteq Response /\ AddressOfPeer'
  BY <1>2 DEF SendNothing, AddressOfPeer
<1>3. ASSUME NEW cmd \in {"Pong", "Fsync", "Redirect"}, NEW i \in Ids,
             NEW dst \in Addrs, NEW peer \in Ids,
             NEW addr \in Addrs \cup {NoAddr},
             Owner[dst] = i, addr # NoAddr => Owner[addr] = peer,
             Send(cmd, i, dst, peer, addr)
      PROVE  sent' \subseteq Response /\ AddressOfPeer'
  BY <1>3 DEF Send, Response, AddressOfPeer
<1>4. ASSUME NEW i \in Ids, Known(i)
      PROVE  clients[i].addr \in Addrs /\ Owner[clients[i].addr] = i
  BY <1>0, <1>4 DEF Known, EntryOK, Client
<1>5. ASSUME NEW r \in Request, HandlePing(r)
      PROVE  IInv'
  <2>1. /\ r.id \in Ids /\ r.src \in Addrs /\ Owner[r.src] = r.id
        /\ told' = told
    BY <1>5 DEF Request, HandlePing, Send
  <2>2. sent' \subseteq Response /\ AddressOfPeer'
    BY <1>3, <1>5, <2>1 DEF HandlePing
  <2> QED
    BY <1>0, <1>1, <1>5, <2>1, <2>2, SeenLemma DEF HandlePing
<1>6. ASSUME NEW r \in Request, HandleIsync(r)
      PROVE  IInv'
  <2>1. /\ r.id \in Ids /\ r.peer \in Ids /\ r.src \in Addrs
        /\ Owner[r.src] = r.id /\ Known(r.peer) /\ r.src # NoAddr
        /\ told' = [told EXCEPT ![r.id] = now]
    BY <1>6 DEF Request, HandleIsync, Send
  <2>2. sent' \subseteq Response /\ AddressOfPeer'
    BY <1>3, <1>4, <1>6, <2>1 DEF HandleIsync
  <2>3. told' \in [Ids -> Times \cup {Never}]
    BY <1>0, <2>1
  <2> QED
    BY <1>1, <1>6, <2>1, <2>2, <2>3, SeenLemma DEF HandleIsync
<1>7. ASSUME NEW r \in Request, HandleIsyncNotFound(r)
      PROVE  IInv'
  <2>1. /\ r.id \in Ids /\ r.peer \in Ids /\ r.src \in Addrs
        /\ Owner[r.src] = r.id /\ told' = told
    BY <1>7 DEF Request, HandleIsyncNotFound, Send
  <2>2. sent' \subseteq Response /\ AddressOfPeer'
    BY <1>3, <1>7, <2>1 DEF HandleIsyncNotFound
  <2> QED
    BY <1>0, <1>1, <1>7, <2>1, <2>2 DEF HandleIsyncNotFound
<1>8. ASSUME NEW r \in Request, HandleRsync(r)
      PROVE  IInv'
  <2>1. /\ r.id \in Ids /\ r.peer \in Ids /\ r.src \in Addrs
        /\ Owner[r.src] = r.id /\ told' = told
    BY <1>8 DEF Request, HandleRsync, Send, SendNothing
  <2>2. sent' \subseteq Response /\ AddressOfPeer'
    BY <1>2, <1>3, <1>4, <1>8, <2>1 DEF HandleRsync
  <2> QED
    BY <1>0, <1>1, <1>8, <2>1, <2>2 DEF HandleRsync
<1>9. ASSUME NEW r \in Request, HandleBye(r)
      PROVE  IInv'
  <2> DEFINE cs == [clients EXCEPT ![r.id] = NoClient]
  <2>1. r.id \in Ids /\ r.id \in ByeIds
    BY <1>9 DEF Request, HandleBye
  <2>2. cs \in [Ids -> Client]
    BY <1>0, <2>1 DEF NoClient, Client, Times
  <2>3. EntryOK(cs)
    BY <1>0, <2>1 DEF EntryOK, NoClient
  <2>4. ToldOK(cs, told)
    BY <1>0, <2>1 DEF ToldOK
  <2> QED
    BY <1>0, <1>1, <1>2, <1>9, <2>2, <2>3, <2>4 DEF HandleBye
<1>10. ASSUME NEW r \in Request, HandleUnknown(r)
       PROVE  IInv'
  BY <1>0, <1>1, <1>2, <1>10 DEF HandleUnknown
<1>11. ASSUME ReceiveNothing
       PROVE  IInv'
  BY <1>0, <1>1, <1>2, <1>11 DEF ReceiveNothing
<1>12. ASSUME Tick
       PROVE  IInv'
  <2>1. TypeOK' /\ Timing' /\ AddressOfPeer'
    BY <1>12 DEF Tick, IInv, TypeOK, Timing, AddressOfPeer, Times
  <2>2. EntryOK(clients)'
    BY <1>0, <1>12 DEF Tick, EntryOK, Client, Times
  <2>3. ToldOK(clients, told)'
    BY <1>0, <1>12 DEF Tick, ToldOK, Times, Never
  <2> QED
    BY <2>1, <2>2, <2>3 DEF IInv
<1>13. ASSUME UNCHANGED vars
       PROVE  IInv'
  BY <1>13 DEF vars, IInv, TypeOK, Timing, EntryOK, ToldOK, AddressOfPeer
<1> QED
  BY <1>5, <1>6, <1>7, <1>8, <1>9, <1>10, <1>11, <1>12, <1>13
  DEF Next, Receive, HandleRequest

(* So it is an invariant of the server.                                    *)
LEMMA UdpInvariant == Spec => []IInv
  BY UdpInit, UdpStep, PTL DEF Spec

-----------------------------------------------------------------------------
(* The variables keep their types.                                         *)
THEOREM UdpTypeCorrect == Spec => []TypeOK
<1>1. IInv => TypeOK
  BY DEF IInv
<1> QED
  BY <1>1, UdpInvariant, PTL

(* An identity that has been silent for Expire + GcPeriod + ReadTimeout is *)
(* forgotten, although gc runs only when recv_from has returned.           *)
THEOREM UdpStaleForgotten == Spec => []StaleForgotten
<1>1. IInv => StaleForgotten
  <2> SUFFICES ASSUME IInv, NEW i \in Ids, Known(i)
               PROVE  now - clients[i].last_ping
                        < Expire + GcPeriod + ReadTimeout
    BY DEF StaleForgotten
  <2>1. /\ now \in Nat /\ waiting \in Nat /\ next_gc \in Nat
        /\ clients[i].last_ping \in Nat
    BY UdpServerAssumption DEF IInv, TypeOK, Client, Times
  <2>2. /\ now <= waiting + ReadTimeout /\ waiting <= next_gc
        /\ next_gc < clients[i].last_ping + Expire + GcPeriod
    BY DEF IInv, Timing, EntryOK, Known
  <2> QED
    BY <2>1, <2>2, UdpServerAssumption
<1> QED
  BY <1>1, UdpInvariant, PTL

(* While an Fsync that names a connecting peer is younger than Expire, the *)
(* peer is registered and can be sent its Redirect.                        *)
THEOREM UdpSourceKnown == Spec => []SourceKnown
<1>1. IInv => SourceKnown
  BY DEF IInv, ToldOK, SourceKnown, Known
<1> QED
  BY <1>1, UdpInvariant, PTL

(* An address in a response is one of the identity it is given for, and a  *)
(* response goes to an address of the identity it is meant for.            *)
THEOREM UdpAddressOfPeer == Spec => []AddressOfPeer
<1>1. IInv => AddressOfPeer
  BY DEF IInv
<1> QED
  BY <1>1, UdpInvariant, PTL

(* gc never removes an entry younger than Expire: only a Bye does.         *)
THEOREM UdpFreshKept == Spec => FreshKept
<1> DEFINE A == \A i \in Ids :
                  /\ Known(i) /\ now - clients[i].last_ping < Expire
                  /\ clients'[i].addr = NoAddr
                  => \E r \in Request : HandleBye(r) /\ r.id = i
<1>1. IInv /\ [Next]_vars => [A]_vars
  <2> SUFFICES ASSUME IInv, Next, NEW i \in Ids, Known(i),
                      now - clients[i].last_ping < Expire,
                      clients'[i].addr = NoAddr
               PROVE  \E r \in Request : HandleBye(r) /\ r.id = i
    OBVIOUS
  <2>0. /\ clients \in [Ids -> Client] /\ now \in Nat
        /\ clients[i].last_ping \in Nat /\ NoAddr \notin Addrs
        /\ Expire \in Nat \ {0}
    BY UdpServerAssumption DEF IInv, TypeOK, Client, Times
  <2>1. ASSUME NEW cs, cs \in [Ids -> Client], EndOfLoop(cs),
               cs[i].addr # NoAddr, now - cs[i].last_ping < Expire
        PROVE  FALSE
    <3>1. cs[i].last_ping \in Nat
      BY <2>1 DEF Client, Times
    <3> QED
      BY <2>0, <2>1, <3>1 DEF EndOfLoop, Retained
  <2>2. ASSUME NEW r \in Request
        PROVE  /\ Seen(r.id, r.src) \in [Ids -> Client]
               /\ Seen(r.id, r.src)[i].addr # NoAddr
               /\ now - Seen(r.id, r.src)[i].last_ping < Expire
    <3>1. r.id \in Ids /\ r.src \in Addrs /\ Owner[r.src] = r.id
      BY DEF Request
    <3>2. Seen(r.id, r.src) \in [Ids -> Client]
      BY <3>1, SeenLemma
    <3> QED
      BY <2>0, <3>1, <3>2 DEF Seen, Known
  <2>3. CASE Receive
    <3>1. PICK r \in Request : HandleRequest(r)
      BY <2>3 DEF Receive
    <3>2. CASE HandlePing(r)
      BY <2>1, <2>2, <3>2 DEF HandlePing
    <3>3. CASE HandleIsync(r)
      BY <2>1, <2>2, <3>3 DEF HandleIsync
    <3>4. CASE HandleIsyncNotFound(r) \/ HandleRsync(r) \/ HandleUnknown(r)
      BY <2>0, <2>1, <3>4
      DEF HandleIsyncNotFound, HandleRsync, HandleUnknown, Known
    <3>5. CASE HandleBye(r)
      <4>1. r.id = i
        <5> SUFFICES ASSUME r.id # i PROVE FALSE
          OBVIOUS
        <5> DEFINE cs == [clients EXCEPT ![r.id] = NoClient]
        <5>1. r.id \in Ids /\ NoClient \in Client
          BY UdpServerAssumption DEF Request, NoClient, Client, Times
        <5>2. cs \in [Ids -> Client] /\ cs[i] = clients[i]
          BY <2>0, <5>1
        <5> QED
          BY <2>1, <3>5, <5>2 DEF HandleBye, Known
      <4> QED
        BY <3>5, <4>1
    <3> QED
      BY <3>1, <3>2, <3>3, <3>4, <3>5 DEF HandleRequest
  <2>4. CASE ReceiveNothing
    BY <2>0, <2>1, <2>4 DEF ReceiveNothing, Known
  <2>5. CASE Tick
    BY <2>5 DEF Tick, Known
  <2> QED
    BY <2>3, <2>4, <2>5 DEF Next
<1> QED
  BY <1>1, UdpInvariant, PTL DEF Spec, FreshKept
=============================================================================

------------------------- MODULE UdpRendezvousProofs -------------------------
(***************************************************************************)
(* Theorems about UdpRendezvous, for any identities, addresses, servers    *)
(* and rounds, and any network.                                            *)
(***************************************************************************)
EXTENDS UdpRendezvous, UdpServerProofs

(* Address y is one that connect(l) was called from.                       *)
Asks(y, l) == y \in Connecting /\ l \in Ids /\ target[y] = l

(* Listening address p has set out to send a packet to an address of       *)
(* identity i that asked for it.                                           *)
Committed(p, i) ==
  /\ p \in Listening
  /\ \E y \in Connecting :
       Owner[y] = i /\ Asks(y, Owner[p]) /\ <<p, y>> \in heard

(* Requests in the network are requests of clients, an Isync comes from    *)
(* an address that asks, and an Rsync from a listener that is committed.   *)
NetOK ==
  \A r \in net :
    /\ r \in Request
    /\ r.cmd = "Isync" => Asks(r.src, r.peer)
    /\ r.cmd = "Rsync" => Committed(r.src, r.peer)

(* A response of the server: an Fsync has an address that asks for its     *)
(* destination, a Redirect that of a listener committed to it.             *)
GoodMail(m) ==
  /\ m \in Response
  /\ m.cmd = "Fsync" => Asks(m.addr, m.id) /\ Owner[m.addr] = m.peer
  /\ m.cmd = "Redirect" /\ m.addr # NoAddr => Committed(m.addr, m.id)

MailOK == \A m \in mail : GoodMail(m)

(* Packets go where an Fsync said.                                         *)
OwesOK ==
  /\ thread \in [Listening -> {"ping", "poll", "punch", "done"}]
  /\ owes \in [Listening -> Addrs \cup {NoAddr}]
  /\ \A x \in Listening : thread[x] = "punch" => <<x, owes[x]>> \in heard
  /\ heard \subseteq Listening \X Connecting
  /\ holes \subseteq heard

ResultOK ==
  /\ result \in [Connecting -> Addrs \cup {NoAddr}]
  /\ \A x \in Connecting :
       result[x] # NoAddr => Committed(result[x], Owner[x])

(* connect() has a target once it is called, and not before.               *)
TargetOK ==
  /\ target \in [Connecting -> Ids \cup {NoId}]
  /\ phase \in [Connecting -> {"idle", "sending", "waiting", "returned",
                               "error"}]
  /\ \A x \in Connecting : phase[x] = "idle" <=> target[x] = NoId

(* The inductive invariant.                                                *)
UInv == NetOK /\ MailOK /\ OwesOK /\ ResultOK /\ TargetOK

-----------------------------------------------------------------------------
(* The first states satisfy the invariant.                                 *)
LEMMA RendezvousInit == UInit => UInv
  BY UdpServerAssumption, UdpRendezvousAssumption
  DEF UInit, UInv, NetOK, MailOK, OwesOK, ResultOK, TargetOK, NoId

(* A step that keeps what addresses ask for, and what listeners have been  *)
(* told, keeps every commitment.                                           *)
LEMMA CommitmentKept ==
  ASSUME \A y, l : Asks(y, l) => Asks(y, l)', heard \subseteq heard'
  PROVE  \A p, i : Committed(p, i) => Committed(p, i)'
  BY DEF Committed

(* So it keeps what was good in the network.                               *)
LEMMA GoodKept ==
  ASSUME UInv, \A y, l : Asks(y, l) => Asks(y, l)', heard \subseteq heard'
  PROVE  /\ \A m \in mail : GoodMail(m)'
         /\ \A r \in net : /\ r \in Request
                           /\ r.cmd = "Isync" => Asks(r.src, r.peer)'
                           /\ r.cmd = "Rsync" => Committed(r.src, r.peer)'
         /\ \A p, i : Committed(p, i) => Committed(p, i)'
<1>1. \A p, i : Committed(p, i) => Committed(p, i)'
  BY CommitmentKept
<1>2. \A m \in mail : GoodMail(m)'
  BY <1>1 DEF UInv, MailOK, GoodMail
<1>3. \A r \in net : /\ r \in Request
                     /\ r.cmd = "Isync" => Asks(r.src, r.peer)'
                     /\ r.cmd = "Rsync" => Committed(r.src, r.peer)'
  BY <1>1 DEF UInv, NetOK
<1> QED
  BY <1>1, <1>2, <1>3

(* What handle_request sends for a good request is good.                   *)
LEMMA ServerSends ==
  ASSUME UInv, NEW r \in net, HandleRequest(r), NEW m \in sent',
         clients \in [Ids -> Client]
  PROVE  GoodMail(m)
<1> USE UdpServerAssumption
<1>1. /\ r \in Request /\ r.id \in Ids /\ r.peer \in Ids /\ r.src \in Addrs
      /\ Owner[r.src] = r.id
      /\ r.cmd = "Isync" => Asks(r.src, r.peer)
      /\ r.cmd = "Rsync" => Committed(r.src, r.peer)
  BY DEF UInv, NetOK, Request
<1>2. \A i \in Ids : Known(i) => clients[i].addr \in Addrs
  BY DEF Known, Client
<1>3. CASE HandlePing(r)
  BY <1>1, <1>3 DEF HandlePing, Send, Response, GoodMail
<1>4. CASE HandleIsync(r)
  BY <1>1, <1>2, <1>4 DEF HandleIsync, Send, Response, GoodMail
<1>5. CASE HandleIsyncNotFound(r)
  BY <1>1, <1>5 DEF HandleIsyncNotFound, Send, Response, GoodMail
<1>6. CASE HandleRsync(r)
  BY <1>1, <1>2, <1>6 DEF HandleRsync, Send, SendNothing, Response, GoodMail
<1>7. CASE HandleBye(r) \/ HandleUnknown(r)
  BY <1>7 DEF HandleBye, HandleUnknown, SendNothing
<1> QED
  BY <1>3, <1>4, <1>5, <1>6, <1>7 DEF HandleRequest

-----------------------------------------------------------------------------
(* A step of the process that listens at x, and one of the process that    *)
(* connects from x.                                                        *)
ListenerStep(x) ==
  Thread(x) \/ RecvFails(x) \/ DropListener(x) \/ ListenerKilled(x)

ConnectorStep(x) == Connector(x) \/ \E t \in Listeners : Connect(x, t)

(* Every step of the composition is a step of the server alone, with its   *)
(* clients as the environment, or leaves the server as it is.              *)
LEMMA ServerStep ==
  ASSUME UInv, [UNext]_allVars
  PROVE  [Next]_vars
<1>1. CASE ServerReceive
  BY <1>1 DEF ServerReceive, UInv, NetOK, Next, Receive
<1>2. CASE ServerIdle
  BY <1>2 DEF ServerIdle, Next
<1>3. ASSUME NEW x \in Listening, ListenerStep(x)
      PROVE  UNCHANGED vars
  BY <1>3 DEF ListenerStep, Thread, LoopExits, SendPings, PollEnds, RecvFsync,
              Punch, RecvFails, DropListener, ListenerKilled
<1>4. ASSUME NEW x \in Connecting, ConnectorStep(x)
      PROVE  UNCHANGED vars
  BY <1>4 DEF ConnectorStep, Connector, SetUpFails, SendIsync, GiveUp,
              RoundEnds, RecvRedirect, RecvNotFound, ConnectorKilled, Connect
<1>5. CASE UNCHANGED allVars
  BY <1>5 DEF allVars
<1> QED
  BY <1>1, <1>2, <1>3, <1>4, <1>5 DEF UNext, ListenerStep, ConnectorStep

(* A request of a client at address x.                                     *)
LEMMA ReqLemma ==
  ASSUME NEW x \in Addrs, NEW i \in Ids
  PROVE  /\ PingFrom(x) \in Request
         /\ Req("Rsync", x, i) \in Request
         /\ Req("Isync", x, i) \in Request
  BY UdpServerAssumption DEF PingFrom, Req, Request

(* The server's steps keep the invariant of the composition.               *)
LEMMA ServerKeeps ==
  ASSUME UInv, clients \in [Ids -> Client], ServerReceive \/ ServerIdle
  PROVE  UInv'
<1>1. /\ UNCHANGED <<net, thread, owes, heard, holes>>
      /\ UNCHANGED <<phase, target, result>>
  BY DEF ServerReceive, ServerIdle, uvars, listenerVars, connectorVars
<1>2. /\ \A y, l : Asks(y, l)' <=> Asks(y, l)
      /\ \A p, i : Committed(p, i)' <=> Committed(p, i)
  BY <1>1 DEF Committed, Asks
<1>3. NetOK' /\ OwesOK' /\ ResultOK' /\ TargetOK'
  BY <1>1, <1>2 DEF UInv, NetOK, OwesOK, ResultOK, TargetOK
<1>4. ASSUME NEW m \in mail' PROVE GoodMail(m)
  <2>1. CASE m \in mail
    BY <2>1 DEF UInv, MailOK
  <2>2. CASE m \notin mail
    <3>1. PICK r \in net : HandleRequest(r)
      BY <2>2 DEF ServerReceive, ServerIdle, uvars
    <3>2. m \in sent'
      BY <2>2 DEF ServerReceive, ServerIdle, uvars
    <3> QED
      BY <3>1, <3>2, ServerSends
  <2> QED
    BY <2>1, <2>2
<1>5. MailOK'
  BY <1>2, <1>4 DEF MailOK, GoodMail
<1> QED
  BY <1>3, <1>5 DEF UInv

(* So do the steps of a listening process: what it has been told it has    *)
(* heard before its Rsync is in the network, and it stays heard.           *)
LEMMA ListenerKeeps ==
  ASSUME UInv, NEW x \in Listening, ListenerStep(x)
  PROVE  UInv'
<1> USE UdpServerAssumption, UdpRendezvousAssumption
<1>0. x \in Addrs /\ Owner[x] \in Ids
  BY DEF Listening
<1>1. UNCHANGED <<mail, phase, target, result>> /\ heard \subseteq heard'
  BY DEF ListenerStep, Thread, LoopExits, SendPings, PollEnds, RecvFsync,
         Punch, RecvFails, DropListener, ListenerKilled, connectorVars
<1>2. \A y, l : Asks(y, l) => Asks(y, l)'
  BY <1>1 DEF Asks
<1>3. MailOK' /\ ResultOK' /\ TargetOK'
  BY <1>1, <1>2, GoodKept DEF UInv, MailOK, ResultOK, TargetOK
<1>4. CASE RecvFsync(x)
  <2>1. PICK m \in Arrived(x) : /\ m.cmd = "Fsync"
                               /\ net' = net \cup {Req("Rsync", x, m.peer)}
                               /\ owes' = [owes EXCEPT ![x] = m.addr]
                               /\ heard' = heard \cup {<<x, m.addr>>}
    BY <1>4 DEF RecvFsync
  <2>2. thread' = [thread EXCEPT ![x] = "punch"] /\ holes' = holes
    BY <1>4 DEF RecvFsync
  <2>3. /\ Asks(m.addr, Owner[x]) /\ Owner[m.addr] = m.peer /\ m.peer \in Ids
        /\ m.addr \in Connecting /\ m.addr \in Addrs
    BY <2>1 DEF UInv, MailOK, GoodMail, Arrived, Response, Connecting, Asks
  <2>4. OwesOK'
    BY <2>1, <2>2, <2>3 DEF UInv, OwesOK
  <2>5. Committed(x, m.peer)'
    <3>1. Asks(m.addr, Owner[x])'
      BY <1>1, <2>3 DEF Asks
    <3>2. <<x, m.addr>> \in heard'
      BY <2>1
    <3> QED
      BY <2>3, <3>1, <3>2 DEF Committed
  <2>6. /\ Req("Rsync", x, m.peer) \in Request
        /\ Req("Rsync", x, m.peer).cmd = "Rsync"
        /\ Req("Rsync", x, m.peer).src = x
        /\ Req("Rsync", x, m.peer).peer = m.peer
    BY <1>0, <2>3, ReqLemma DEF Req
  <2>7. NetOK'
    BY <1>1, <1>2, <2>1, <2>5, <2>6, GoodKept DEF NetOK
  <2> QED
    BY <1>3, <2>4, <2>7 DEF UInv
<1>5. CASE ~ RecvFsync(x)
  <2>1. /\ heard' = heard
        /\ net' = net \/ net' = net \cup {PingFrom(x)}
    BY <1>5 DEF ListenerStep, Thread, LoopExits, SendPings, PollEnds, Punch,
                RecvFails, DropListener, ListenerKilled
  <2>2. PingFrom(x) \in Request /\ PingFrom(x).cmd = "Ping"
    BY <1>0, ReqLemma DEF PingFrom, Req
  <2>3. NetOK'
    BY <1>1, <1>2, <2>1, <2>2, GoodKept DEF NetOK
  <2>4. OwesOK'
    <3>1. CASE Punch(x)
      <4>1. /\ thread[x] = "punch" /\ thread' = [thread EXCEPT ![x] = "ping"]
            /\ holes' = holes \cup {<<x, owes[x]>>} \/ holes' = holes
            /\ owes' = [owes EXCEPT ![x] = NoAddr]
        BY <3>1 DEF Punch
      <4> QED
        BY <2>1, <4>1 DEF UInv, OwesOK
    <3>2. CASE ~ Punch(x)
      <4>1. /\ holes' = holes
            /\ \/ /\ owes' = owes
                  /\ \/ thread' = thread
                     \/ \E s \in {"ping", "poll", "done"} :
                          thread' = [thread EXCEPT ![x] = s]
               \/ /\ owes' = [owes EXCEPT ![x] = NoAddr]
                  /\ thread' = [thread EXCEPT ![x] = "done"]
        BY <1>5, <3>2 DEF ListenerStep, Thread, LoopExits, SendPings, PollEnds,
                          RecvFails, DropListener, ListenerKilled
      <4> QED
        BY <2>1, <4>1 DEF UInv, OwesOK
    <3> QED
      BY <3>1, <3>2
  <2> QED
    BY <1>3, <2>3, <2>4 DEF UInv
<1> QED
  BY <1>4, <1>5

(* So do the steps of connect().                                           *)
LEMMA ConnectorKeeps ==
  ASSUME UInv, NEW x \in Connecting, ConnectorStep(x)
  PROVE  UInv'
<1> USE UdpServerAssumption, UdpRendezvousAssumption
<1>1. UNCHANGED <<mail, thread, owes, heard, holes>>
  BY DEF ConnectorStep, Connector, Connect, SetUpFails, SendIsync, GiveUp,
         RoundEnds, RecvRedirect, RecvNotFound, ConnectorKilled, listenerVars
<1>2. TargetOK' /\ \A y, l : Asks(y, l) => Asks(y, l)'
  <2>1. CASE \E t \in Listeners : Connect(x, t)
    <3>1. PICK t \in Ids : /\ phase[x] = "idle"
                          /\ phase' = [phase EXCEPT ![x] = "sending"]
                          /\ target' = [target EXCEPT ![x] = t]
      BY <2>1 DEF Connect
    <3> QED
      BY <3>1 DEF UInv, TargetOK, Asks, NoId
  <2>2. CASE Connector(x)
    <3>1. /\ target' = target
          /\ \/ phase' = phase
             \/ /\ phase[x] # "idle"
                /\ \E s \in {"sending", "waiting", "returned", "error"} :
                     phase' = [phase EXCEPT ![x] = s]
      BY <2>2 DEF Connector, SetUpFails, SendIsync, GiveUp, RoundEnds,
                  RecvRedirect, RecvNotFound, ConnectorKilled
    <3> QED
      BY <3>1 DEF UInv, TargetOK, Asks
  <2> QED
    BY <2>1, <2>2 DEF ConnectorStep
<1>3. MailOK' /\ OwesOK'
  BY <1>1, <1>2, GoodKept DEF UInv, MailOK, OwesOK
<1>4. NetOK'
  <2>1. \/ net' = net
        \/ /\ phase[x] = "sending"
           /\ net' = net \cup {Req("Isync", x, target[x])}
    BY DEF ConnectorStep, Connector, Connect, SetUpFails, SendIsync, GiveUp,
           RoundEnds, RecvRedirect, RecvNotFound, ConnectorKilled
  <2>2. PICK t : t = target[x]
    OBVIOUS
  <2>3. phase[x] = "sending" => Asks(x, t)
    BY <2>2 DEF UInv, TargetOK, Asks
  <2>4. phase[x] = "sending" =>
          /\ Req("Isync", x, t) \in Request
          /\ Req("Isync", x, t).cmd = "Isync"
          /\ Req("Isync", x, t).src = x
          /\ Req("Isync", x, t).peer = t
    BY <2>3, ReqLemma DEF Req, Connecting, Asks
  <2> QED
    BY <1>1, <1>2, <2>1, <2>2, <2>3, <2>4, GoodKept DEF NetOK
<1>5. ResultOK'
  <2>1. \A p, i : Committed(p, i) => Committed(p, i)'
    BY <1>1, <1>2, GoodKept
  <2>2. CASE result' = result
    BY <2>1, <2>2 DEF UInv, ResultOK
  <2>3. CASE result' # result
    <3>1. PICK m \in Arrived(x) : /\ m.cmd = "Redirect" /\ m.addr # NoAddr
                                 /\ result' = [result EXCEPT ![x] = m.addr]
      BY <2>3 DEF ConnectorStep, Connector, Connect, SetUpFails, SendIsync,
                  GiveUp, RoundEnds, RecvRedirect, RecvNotFound,
                  ConnectorKilled
    <3>2. m \in Response /\ m.id = Owner[x] /\ Committed(m.addr, m.id)
      BY <3>1 DEF UInv, MailOK, GoodMail, Arrived
    <3>3. m.addr \in Addrs
      BY <3>1, <3>2 DEF Response
    <3> QED
      BY <2>1, <3>1, <3>2, <3>3 DEF UInv, ResultOK
  <2> QED
    BY <2>2, <2>3
<1> QED
  BY <1>2, <1>3, <1>4, <1>5 DEF UInv

-----------------------------------------------------------------------------
(* The invariants of the server and of the composition, together.          *)
LEMMA RendezvousStep == IInv /\ UInv /\ [UNext]_allVars => (IInv /\ UInv)'
<1> SUFFICES ASSUME IInv, UInv, [UNext]_allVars PROVE (IInv /\ UInv)'
  OBVIOUS
<1>1. IInv'
  BY ServerStep, UdpStep
<1>2. clients \in [Ids -> Client]
  BY DEF IInv, TypeOK
<1>3. CASE UNCHANGED allVars
  <2>1. /\ UNCHANGED <<net, mail, thread, owes, heard, holes>>
        /\ UNCHANGED <<phase, target, result>>
    BY <1>3 DEF allVars, uvars, listenerVars, connectorVars
  <2>2. /\ \A y, l : Asks(y, l)' <=> Asks(y, l)
        /\ \A p, i : Committed(p, i)' <=> Committed(p, i)
    BY <2>1 DEF Committed, Asks
  <2>3. UInv'
    BY <2>1, <2>2
    DEF UInv, NetOK, MailOK, GoodMail, OwesOK, ResultOK, TargetOK
  <2> QED
    BY <1>1, <2>3
<1> QED
  BY <1>1, <1>2, <1>3, ServerKeeps, ListenerKeeps, ConnectorKeeps
  DEF UNext, ListenerStep, ConnectorStep

(* So they hold in every state.                                            *)
LEMMA RendezvousInvariant == USpec => [](IInv /\ UInv)
<1>1. UInit => IInv /\ UInv
  BY RendezvousInit, UdpInit DEF UInit
<1> QED
  BY <1>1, RendezvousStep, PTL DEF USpec

(* The clients of udp/client.rs are clients that UdpServer assumes: the    *)
(* composition implements the server's specification, and with it every    *)
(* theorem about the server.                                               *)
THEOREM RendezvousImplementsServer == USpec => Spec
<1>1. UInit => Init
  BY DEF UInit
<1>2. UInv /\ [UNext]_allVars => [Next]_vars
  BY ServerStep
<1> QED
  BY <1>1, <1>2, RendezvousInvariant, PTL DEF USpec, Spec

(* Whatever the network does and whoever dies, connect() returns only the  *)
(* address of a listening peer that the same identity has asked for, in    *)
(* this call or an earlier one, and that had set out to send its packet to *)
(* the address of that call; the packet may have failed.                   *)
THEOREM RendezvousAnsweredBeforeRedirect == USpec => []AnsweredBeforeRedirect
<1>1. UInv => AnsweredBeforeRedirect
  BY DEF UInv, ResultOK, Committed, Asks, AnsweredBeforeRedirect
<1> QED
  BY <1>1, RendezvousInvariant, PTL

-----------------------------------------------------------------------------
(* What the types need besides.                                            *)
FlagsOK ==
  /\ exit \in [Listening -> BOOLEAN]
  /\ deaf \in [Listening -> BOOLEAN]

RoundsOK ==
  /\ round \in [Connecting -> 0 .. Rounds]
  /\ failed \in [Connecting -> SUBSET Servers]

CInv == FlagsOK /\ RoundsOK

(* Both invariants give the types.                                         *)
LEMMA RendezvousTypes == UInv /\ CInv => UTypeOK
<1> SUFFICES ASSUME UInv, CInv PROVE UTypeOK
  OBVIOUS
<1>1. net \subseteq Request /\ mail \subseteq Response
  BY DEF UInv, NetOK, MailOK, GoodMail
<1> QED
  BY <1>1 DEF UInv, CInv, OwesOK, ResultOK, TargetOK, FlagsOK, RoundsOK,
              UTypeOK

(* In the beginning no flag is set and no round begun.                     *)
LEMMA CallsInit == UInit => CInv
<1> SUFFICES ASSUME UInit PROVE CInv
  OBVIOUS
<1>1. FlagsOK
  BY Zenon DEF UInit, FlagsOK
<1>2. RoundsOK
  BY UdpRendezvousAssumption, SMT DEF UInit, RoundsOK
<1> QED
  BY <1>1, <1>2 DEF CInv

(* A listening process sets flags only.                                    *)
LEMMA ListenerFlags ==
  ASSUME CInv, NEW x \in Listening, ListenerStep(x)
  PROVE  CInv'
<1>1. UNCHANGED <<round, failed>>
  BY DEF ListenerStep, Thread, LoopExits, SendPings, PollEnds, RecvFsync,
         Punch, RecvFails, DropListener, ListenerKilled, connectorVars
<1>2. exit' = exit \/ exit' = [exit EXCEPT ![x] = TRUE]
  BY DEF ListenerStep, Thread, LoopExits, SendPings, PollEnds, RecvFsync,
         Punch, RecvFails, DropListener, ListenerKilled
<1>3. deaf' = deaf \/ deaf' = [deaf EXCEPT ![x] = TRUE]
  BY DEF ListenerStep, Thread, LoopExits, SendPings, PollEnds, RecvFsync,
         Punch, RecvFails, DropListener, ListenerKilled
<1> QED
  BY <1>1, <1>2, <1>3 DEF CInv, FlagsOK, RoundsOK

(* connect() begins at most Rounds rounds.                                 *)
LEMMA ConnectorRounds ==
  ASSUME CInv, NEW x \in Connecting, ConnectorStep(x)
  PROVE  CInv'
<1>1. UNCHANGED <<exit, deaf>>
  BY DEF ConnectorStep, Connector, Connect, SetUpFails, SendIsync, GiveUp,
         RoundEnds, RecvRedirect, RecvNotFound, ConnectorKilled, listenerVars
<1>2. round' \in [Connecting -> 0 .. Rounds]
  <2>1. \/ round' = round
        \/ round[x] < Rounds /\ round' = [round EXCEPT ![x] = @ + 1]
    BY DEF ConnectorStep, Connector, Connect, SetUpFails, SendIsync, GiveUp,
           RoundEnds, RecvRedirect, RecvNotFound, ConnectorKilled
  <2> QED
    BY <2>1, UdpRendezvousAssumption DEF CInv, RoundsOK
<1>3. failed' \in [Connecting -> SUBSET Servers]
  <2>1. \/ failed' = failed
        \/ \E s \in Servers : failed' = [failed EXCEPT ![x] = @ \cup {s}]
    BY DEF ConnectorStep, Connector, Connect, SetUpFails, SendIsync, GiveUp,
           RoundEnds, RecvRedirect, RecvNotFound, ConnectorKilled
  <2> QED
    BY <2>1 DEF CInv, RoundsOK
<1> QED
  BY <1>1, <1>2, <1>3 DEF CInv, FlagsOK, RoundsOK

(* So CInv is kept by every step.                                          *)
LEMMA CallsStep == CInv /\ [UNext]_allVars => CInv'
<1> SUFFICES ASSUME CInv, [UNext]_allVars PROVE CInv'
  OBVIOUS
<1>1. CASE ServerReceive \/ ServerIdle \/ UNCHANGED allVars
  <2>1. UNCHANGED <<exit, deaf, round, failed>>
    BY <1>1 DEF ServerReceive, ServerIdle, allVars, uvars, listenerVars,
                connectorVars
  <2> QED
    BY <2>1 DEF CInv, FlagsOK, RoundsOK
<1> QED
  BY <1>1, ListenerFlags, ConnectorRounds
  DEF UNext, ListenerStep, ConnectorStep

(* And holds, with the others, in every state.                             *)
LEMMA CallsInvariant == USpec => [](UInv /\ CInv)
BY CallsInit, CallsStep, RendezvousInvariant, PTL DEF USpec

(* The variables of the clients and of the network have their types:       *)
(* connect() begins no round after its last, only what the clients may     *)
(* send is in the network, and a listener sends packets only to addresses  *)
(* that an Fsync has told it.                                              *)
THEOREM RendezvousTypeCorrect == USpec => []UTypeOK
BY RendezvousTypes, CallsInvariant, PTL

-----------------------------------------------------------------------------
(* The refinement: the variables of Rendezvous, as UdpRendezvous maps      *)
(* them.                                                                   *)
StateBar    == [x \in Connecting |-> CallState(x)]
CallerBar   == [x \in Connecting |-> IF phase[x] = "idle" THEN NoId
                                                         ELSE Owner[x]]
AnsweredBar == {<<Owner[h[1]], h[2]>> : h \in heard}
PartnerBar  == [x \in Connecting |-> IF result[x] = NoAddr THEN NoId
                                                          ELSE Owner[result[x]]]

(* Whom a listener is committed to, it has answered.                       *)
LEMMA CommittedAnswered ==
  ASSUME UInv, NEW p, NEW i, Committed(p, i)
  PROVE  \E d \in Connecting : CallerBar[d] = i
                              /\ <<Owner[p], d>> \in AnsweredBar
<1>1. PICK y \in Connecting :
        Owner[y] = i /\ Asks(y, Owner[p]) /\ <<p, y>> \in heard
  BY DEF Committed
<1>2. phase[y] # "idle"
  BY <1>1, UdpRendezvousAssumption DEF Asks, UInv, TargetOK, NoId
<1>3. CallerBar[y] = i
  BY <1>1, <1>2 DEF CallerBar
<1>4. <<p, y>>[1] = p /\ <<p, y>>[2] = y
  OBVIOUS
<1>5. <<Owner[p], y>> \in AnsweredBar
  BY <1>1, <1>4 DEF AnsweredBar
<1> QED
  BY <1>3, <1>5

(* The steps of a listening process: an Fsync makes it answer a call that  *)
(* asks for it; nothing else does.                                         *)
LEMMA ListenerRefines ==
  ASSUME UInv, NEW x \in Listening, ListenerStep(x)
  PROVE  [Abstract!Next]_(Abstract!vars)
<1> USE UdpServerAssumption, UdpRendezvousAssumption
<1>1. UNCHANGED <<StateBar, CallerBar, target, PartnerBar>>
  <2>1. UNCHANGED <<phase, target, result>>
    BY DEF ListenerStep, Thread, LoopExits, SendPings, PollEnds, RecvFsync,
           Punch, RecvFails, DropListener, ListenerKilled, connectorVars
  <2> QED
    BY <2>1 DEF StateBar, CallerBar, PartnerBar, CallState
<1>2. CASE UNCHANGED AnsweredBar
  BY <1>1, <1>2
     DEF Abstract!vars, StateBar, CallerBar, PartnerBar, AnsweredBar
<1>3. CASE RecvFsync(x)
  <2>1. PICK m \in Arrived(x) : /\ m.cmd = "Fsync"
                               /\ heard' = heard \cup {<<x, m.addr>>}
    BY <1>3 DEF RecvFsync
  <2>2. PICK y : y = m.addr
    OBVIOUS
  <2>3. y \in Connecting /\ target[y] = Owner[x] /\ Owner[x] \in Ids
    BY <2>1, <2>2 DEF UInv, MailOK, GoodMail, Arrived, Asks
  <2>4. phase[y] # "idle"
    BY <2>3 DEF UInv, TargetOK, NoId
  <2>5. AnsweredBar' = AnsweredBar \cup {<<Owner[x], y>>}
    <3>1. <<x, y>>[1] = x /\ <<x, y>>[2] = y
      OBVIOUS
    <3> QED
      BY <2>1, <2>2, <3>1 DEF AnsweredBar
  <2>6. CASE <<Owner[x], y>> \in AnsweredBar
    <3>1. AnsweredBar' = AnsweredBar
      BY <2>5, <2>6
    <3> QED
      BY <1>2, <3>1
  <2>7. CASE <<Owner[x], y>> \notin AnsweredBar
    <3>1. StateBar[y] # "idle"
      BY <2>3, <2>4 DEF StateBar, CallState, UInv, TargetOK
    <3>2. Abstract!Answer(Owner[x], y)
      BY <1>1, <2>3, <2>5, <2>7, <3>1
         DEF Abstract!Answer, StateBar, CallerBar, PartnerBar, AnsweredBar
    <3> QED
      BY <2>3, <3>2 DEF Abstract!Next
  <2> QED
    BY <2>6, <2>7
<1>4. CASE ~ RecvFsync(x)
  <2>1. heard' = heard
    BY <1>4 DEF ListenerStep, Thread, LoopExits, SendPings, PollEnds, Punch,
                RecvFails, DropListener, ListenerKilled
  <2>2. AnsweredBar' = AnsweredBar
    BY <2>1 DEF AnsweredBar
  <2> QED
    BY <1>2, <2>2
<1> QED
  BY <1>3, <1>4

(* The steps of connect(): it asks, fails, or returns a socket to a peer   *)
(* that has answered a call of the caller.                                 *)
LEMMA ConnectorRefines ==
  ASSUME UInv, NEW x \in Connecting, ConnectorStep(x)
  PROVE  [Abstract!Next]_(Abstract!vars)
<1> USE UdpServerAssumption, UdpRendezvousAssumption
<1>0. /\ phase \in [Connecting -> {"idle", "sending", "waiting", "returned",
                                   "error"}]
      /\ result \in [Connecting -> Addrs \cup {NoAddr}]
      /\ Owner[x] \in Ids
  BY DEF UInv, TargetOK, ResultOK, Connecting
<1>1. AnsweredBar' = AnsweredBar
  <2>1. heard' = heard
    BY DEF ConnectorStep, Connector, Connect, SetUpFails, SendIsync, GiveUp,
           RoundEnds, RecvRedirect, RecvNotFound, ConnectorKilled, listenerVars
  <2> QED
    BY <2>1 DEF AnsweredBar
<1>2. ASSUME phase[x] \in {"sending", "waiting"}, target' = target,
             phase' = [phase EXCEPT ![x] = "error"], result' = result
      PROVE  [Abstract!Next]_(Abstract!vars)
  <2>1. /\ StateBar[x] = "asking"
        /\ StateBar' = [StateBar EXCEPT ![x] = "failed"]
    BY <1>0, <1>2 DEF StateBar, CallState
  <2>2. CallerBar' = CallerBar /\ PartnerBar' = PartnerBar
    BY <1>0, <1>2 DEF CallerBar, PartnerBar
  <2>3. Abstract!Fail(x)
    BY <1>1, <1>2, <2>1, <2>2
       DEF Abstract!Fail, StateBar, CallerBar, PartnerBar, AnsweredBar
  <2> QED
    BY <2>3 DEF Abstract!Next
<1>3. CASE \E t \in Listeners : Connect(x, t)
  <2>1. PICK t \in Ids : /\ phase[x] = "idle" /\ result' = result
                        /\ phase' = [phase EXCEPT ![x] = "sending"]
                        /\ target' = [target EXCEPT ![x] = t]
    BY <1>3 DEF Connect
  <2>2. StateBar[x] = "idle" /\ StateBar' = [StateBar EXCEPT ![x] = "asking"]
    BY <1>0, <2>1 DEF StateBar, CallState
  <2>3. /\ CallerBar' = [CallerBar EXCEPT ![x] = Owner[x]]
        /\ PartnerBar' = PartnerBar
    BY <1>0, <2>1 DEF CallerBar, PartnerBar
  <2>4. Abstract!Ask(x, Owner[x], t)
    BY <1>1, <2>1, <2>2, <2>3
       DEF Abstract!Ask, StateBar, CallerBar, PartnerBar, AnsweredBar
  <2> QED
    BY <1>0, <2>4 DEF Abstract!Next
<1>4. CASE SetUpFails(x) \/ GiveUp(x) \/ ConnectorKilled(x)
  BY <1>2, <1>4 DEF SetUpFails, GiveUp, ConnectorKilled
<1>5. CASE SendIsync(x) \/ RoundEnds(x) \/ RecvNotFound(x)
  <2>1. /\ target' = target /\ result' = result
        /\ \/ phase' = phase
           \/ /\ phase[x] \in {"sending", "waiting"}
              /\ \E s \in {"sending", "waiting"} :
                   phase' = [phase EXCEPT ![x] = s]
    BY <1>5 DEF SendIsync, RoundEnds, RecvNotFound
  <2>2. /\ StateBar' = StateBar /\ CallerBar' = CallerBar
        /\ PartnerBar' = PartnerBar
    BY <1>0, <2>1 DEF StateBar, CallerBar, PartnerBar, CallState
  <2> QED
    BY <1>1, <2>1, <2>2
       DEF Abstract!vars, StateBar, CallerBar, PartnerBar, AnsweredBar
<1>6. CASE RecvRedirect(x)
  <2>1. phase[x] = "waiting" /\ target' = target
    BY <1>6 DEF RecvRedirect
  <2>2. PICK m \in Arrived(x) :
          /\ m.cmd = "Redirect" /\ m.addr # NoAddr
          /\ \/ /\ result' = [result EXCEPT ![x] = m.addr]
                /\ phase' = [phase EXCEPT ![x] = "returned"]
             \/ /\ phase' = [phase EXCEPT ![x] = "error"]
                /\ result' = result
    BY <1>6 DEF RecvRedirect
  <2>3. CASE /\ phase' = [phase EXCEPT ![x] = "error"]
             /\ result' = result
    BY <1>2, <2>1, <2>3
  <2>4. CASE /\ result' = [result EXCEPT ![x] = m.addr]
             /\ phase' = [phase EXCEPT ![x] = "returned"]
    <3>1. PICK a : a = m.addr
      OBVIOUS
    <3>2. Committed(a, Owner[x]) /\ a # NoAddr
      BY <2>2, <3>1 DEF UInv, MailOK, GoodMail, Arrived
    <3>3. /\ StateBar[x] = "asking"
          /\ StateBar' = [StateBar EXCEPT ![x] = "connected"]
      BY <1>0, <2>1, <2>4 DEF StateBar, CallState
    <3>4. CallerBar' = CallerBar /\ CallerBar[x] = Owner[x]
      BY <1>0, <2>1, <2>4 DEF CallerBar
    <3>5. PartnerBar' = [PartnerBar EXCEPT ![x] = Owner[a]]
      BY <1>0, <2>4, <3>1, <3>2 DEF PartnerBar
    <3>6. \E d \in Connecting : CallerBar[d] = CallerBar[x]
                               /\ <<Owner[a], d>> \in AnsweredBar
      BY <3>2, <3>4, CommittedAnswered
    <3>7. Owner[a] \in Ids
      BY <3>2 DEF Committed, Listening
    <3>8. Abstract!Connect(x, Owner[a])
      BY <1>1, <2>1, <3>3, <3>4, <3>5, <3>6
         DEF Abstract!Connect, StateBar, CallerBar, PartnerBar, AnsweredBar
    <3> QED
      BY <3>7, <3>8 DEF Abstract!Next
  <2> QED
    BY <2>2, <2>3, <2>4
<1> QED
  BY <1>3, <1>4, <1>5, <1>6 DEF ConnectorStep, Connector

(* Every step of the composition is a step of Rendezvous, or none.         *)
LEMMA RefinementStep ==
  UInv /\ [UNext]_allVars => [Abstract!Next]_(Abstract!vars)
<1> SUFFICES ASSUME UInv, [UNext]_allVars
             PROVE  [Abstract!Next]_(Abstract!vars)
  OBVIOUS
<1>1. CASE ServerReceive \/ ServerIdle \/ UNCHANGED allVars
  <2>1. UNCHANGED <<heard, phase, target, result>>
    BY <1>1 DEF ServerReceive, ServerIdle, allVars, uvars, listenerVars,
                connectorVars
  <2> QED
    BY <2>1 DEF Abstract!vars, CallState
<1> QED
  BY <1>1, ListenerRefines, ConnectorRefines
  DEF UNext, ListenerStep, ConnectorStep

(* For any number of clients, whatever the network does and whoever dies:  *)
(* the UDP clients and the server implement the abstract specification.  A *)
(* listener sets out to send packets only to calls that ask for it, and    *)
(* connect() returns only a socket to a peer that has done so for a call   *)
(* of the same identity.  Whether the packet left before, or at all, and   *)
(* whether it went to the call that returns, is not promised.              *)
THEOREM RendezvousRefined == USpec => ImplementsRendezvous
<1>1. UInit => Abstract!Init
  BY UdpServerAssumption DEF UInit, Abstract!Init, CallState
<1> QED
  BY <1>1, RefinementStep, RendezvousInvariant, PTL
     DEF USpec, ImplementsRendezvous, Abstract!Spec
=============================================================================

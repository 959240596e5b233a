--------------------------- MODULE TcpListenProofs ---------------------------
(***************************************************************************)
(* Proofs about TcpListen, for any number of connections and any capacity  *)
(* of the commands' channel, with or without spurious wake-ups.            *)
(*                                                                         *)
(* OneConnection is not inductive: that a new connection starts only when  *)
(* the loops of the last one have ended is known to listen()'s thread      *)
(* through signal.broken alone.  IInv says what the flag and the thread's  *)
(* own state stand for: that the last connection was joined.               *)
(***************************************************************************)
EXTENDS TcpListen, TLAPS

(* Connections that were not started have no threads.                      *)
NotStarted ==
  \A g \in Gens : g > gen => wl[g] = "none" /\ rl[g] = "none"
                             /\ joiner[g] = "none"

(* Before another connection is started, the last one is joined.           *)
EarlierJoined == \A g \in Gens : g < gen => joiner[g] = "done"

(* A connection is joined when both its loops have returned.               *)
JoinedEnded ==
  \A g \in Gens : joiner[g] = "done" => wl[g] = "done" /\ rl[g] = "done"

(* signal.broken is set by the join of the last connection; listen()'s     *)
(* thread consumes it before it reconnects, and it is not set again until  *)
(* it has.                                                                 *)
Reconnecting == manager \in {"connect", "backoff", "backoff_woken"}

BrokenJoined ==
  /\ broken => joiner[gen] = "done"
  /\ Reconnecting => joiner[gen] = "done" /\ ~broken

IInv == TypeOK /\ NotStarted /\ EarlierJoined /\ JoinedEnded /\ BrokenJoined

(* The invariant implies that at most one connection has a loop running.   *)
LEMMA ListenOne == IInv => OneConnection
<1> SUFFICES ASSUME IInv, NEW g \in Gens,
                    wl[g] = "run" \/ rl[g] \in {"run", "reply"}
             PROVE  g = gen
  BY DEF OneConnection
<1>1. ~ (g > gen)
  BY DEF IInv, NotStarted
<1>2. ~ (g < gen)
  BY DEF IInv, EarlierJoined, JoinedEnded
<1> QED
  BY <1>1, <1>2, ListenAssumption DEF IInv, TypeOK, Gens

(* listen() starts in a state of the invariant.                            *)
LEMMA ListenInit == Init => IInv
<1> SUFFICES ASSUME Init PROVE IInv
  OBVIOUS
<1>1. 1 \in Gens
  BY ListenAssumption DEF Gens
<1>2. TypeOK
  <2>1. up \in [Gens -> BOOLEAN] /\ pinged \in [Gens -> BOOLEAN]
    BY Zenon DEF Init
  <2>2. chan \in [Gens -> 0 .. Chan]
    BY ListenAssumption, SMT DEF Init
  <2> QED
    BY <1>1, <2>1, <2>2 DEF Init, TypeOK
<1>3. NotStarted /\ EarlierJoined
  BY <1>1 DEF Init, NotStarted, EarlierJoined, Gens
<1>4. JoinedEnded /\ BrokenJoined
  BY <1>1 DEF Init, JoinedEnded, BrokenJoined, Reconnecting
<1> QED
  BY <1>2, <1>3, <1>4 DEF IInv

(* The steps of the two loops of a connection, and its socket's failure.   *)
LEMMA ListenLoops ==
  ASSUME IInv, NEW g \in Gens,
         Write(g) \/ WriteEnds(g) \/ ReadFsync(g) \/ ReadReply(g)
           \/ ReadEnds(g) \/ Break(g)
  PROVE  IInv'
<1>1. UNCHANGED <<exit, broken, gen, joiner, watcher, manager>>
  BY DEF Write, WriteEnds, ReadFsync, ReadReply, ReadEnds, Break
<1>2. up' \in [Gens -> BOOLEAN] /\ pinged' \in [Gens -> BOOLEAN]
  <2>1. up \in [Gens -> BOOLEAN] /\ pinged \in [Gens -> BOOLEAN]
    BY DEF IInv, TypeOK
  <2>2. /\ up' = up \/ up' = [up EXCEPT ![g] = FALSE]
        /\ pinged' = pinged \/ pinged' = [pinged EXCEPT ![g] = TRUE]
    BY DEF Write, WriteEnds, ReadFsync, ReadReply, ReadEnds, Break
  <2> QED
    BY <2>1, <2>2
<1>3. chan' \in [Gens -> 0 .. Chan]
  <2>1. chan \in [Gens -> 0 .. Chan]
    BY DEF IInv, TypeOK
  <2>2. \/ chan' = chan
        \/ chan' = [chan EXCEPT ![g] = IF @ > 0 THEN @ - 1 ELSE @]
        \/ chan' = [chan EXCEPT ![g] = 0]
        \/ chan[g] < Chan /\ chan' = [chan EXCEPT ![g] = @ + 1]
    BY DEF Write, WriteEnds, ReadFsync, ReadReply, ReadEnds, Break
  <2> QED
    BY <2>1, <2>2, ListenAssumption
<1>4. \/ wl' = wl
      \/ wl[g] = "run" /\ wl' = [wl EXCEPT ![g] = "done"]
  BY DEF Write, WriteEnds, ReadFsync, ReadReply, ReadEnds, Break
<1>5. \/ rl' = rl
      \/ /\ rl[g] \in {"run", "reply"}
         /\ \E s \in {"run", "reply", "done", "panicked"} :
              rl' = [rl EXCEPT ![g] = s]
  BY DEF Write, WriteEnds, ReadFsync, ReadReply, ReadEnds, Break
<1>6. TypeOK'
  <2>1. wl' \in [Gens -> {"none", "run", "done"}]
    BY <1>4 DEF IInv, TypeOK
  <2>2. rl' \in [Gens -> {"none", "run", "reply", "done", "panicked"}]
    BY <1>5 DEF IInv, TypeOK
  <2> QED
    BY <1>1, <1>2, <1>3, <2>1, <2>2 DEF IInv, TypeOK
<1>7. \A h \in Gens : wl[h] \in {"none", "done"} => wl'[h] = wl[h]
  BY <1>4 DEF IInv, TypeOK
<1>8. \A h \in Gens : rl[h] \in {"none", "done"} => rl'[h] = rl[h]
  BY <1>5 DEF IInv, TypeOK
<1>9. NotStarted' /\ EarlierJoined' /\ JoinedEnded' /\ BrokenJoined'
  BY <1>1, <1>7, <1>8
     DEF IInv, NotStarted, EarlierJoined, JoinedEnded, BrokenJoined,
         Reconnecting
<1> QED
  BY <1>6, <1>9 DEF IInv

(* notify_all wakes threads up; it starts none of them and does not make   *)
(* listen()'s thread reconnect.                                            *)
LEMMA ListenNotify ==
  ASSUME TypeOK, NotifyAll
  PROVE  /\ watcher' \in [Gens -> {"none", "start", "wait", "woken", "done"}]
         /\ manager' \in {"start", "wait", "woken", "connect", "backoff",
                          "backoff_woken", "done", "panicked"}
         /\ Reconnecting' <=> Reconnecting
<1>1. watcher' \in [Gens -> {"none", "start", "wait", "woken", "done"}]
  BY DEF NotifyAll, TypeOK, Notified
<1> QED
  BY <1>1 DEF NotifyAll, TypeOK, Notified, Reconnecting

(* The join of the last connection: earlier ones are joined already.       *)
LEMMA ListenJoin ==
  ASSUME IInv, NEW g \in Gens, Join(g) \/ JoinPanics(g)
  PROVE  IInv'
<1>1. g = gen
  <2>1. joiner[g] = "joining"
    BY DEF Join, JoinPanics
  <2> QED
    BY <2>1 DEF IInv, NotStarted, EarlierJoined, TypeOK, Gens
<1>2. CASE Join(g)
  <2>1. TypeOK'
    BY <1>2, ListenNotify DEF Join, IInv, TypeOK
  <2>2. NotStarted' /\ EarlierJoined'
    BY <1>1, <1>2 DEF Join, IInv, TypeOK, NotStarted, EarlierJoined, Gens
  <2>3. JoinedEnded'
    BY <1>2 DEF Join, IInv, TypeOK, JoinedEnded
  <2>4. ~ Reconnecting
    BY <1>1, <1>2 DEF Join, IInv, BrokenJoined
  <2>5. BrokenJoined'
    BY <1>1, <1>2, <2>4, ListenNotify DEF Join, IInv, TypeOK, BrokenJoined
  <2> QED
    BY <2>1, <2>2, <2>3, <2>5 DEF IInv
<1>3. CASE JoinPanics(g)
  <2>1. TypeOK'
    BY <1>3 DEF JoinPanics, IInv, TypeOK
  <2>2. NotStarted' /\ EarlierJoined' /\ JoinedEnded'
    BY <1>1, <1>3
       DEF JoinPanics, IInv, TypeOK, NotStarted, EarlierJoined, JoinedEnded,
           Gens
  <2>3. BrokenJoined'
    BY <1>1, <1>3
       DEF JoinPanics, IInv, TypeOK, BrokenJoined, Reconnecting
  <2> QED
    BY <2>1, <2>2, <2>3 DEF IInv
<1> QED
  BY <1>2, <1>3

(* The watcher, a spurious wake-up and shutdown() touch no loop and no     *)
(* joiner, and let listen()'s thread reconnect only if it does already.    *)
LEMMA ListenSignals ==
  ASSUME IInv,
         \/ \E g \in Gens : WatchStart(g) \/ WatchWoken(g) \/ WatchPanics(g)
         \/ SpuriousWakeup
         \/ Shutdown
  PROVE  IInv'
<1>1. UNCHANGED <<broken, gen, chan, pinged, wl, rl, joiner>>
  BY DEF WatchStart, WatchWoken, WatchPanics, SpuriousWakeup, Shutdown
<1>2. exit' \in BOOLEAN /\ up' \in [Gens -> BOOLEAN]
  <2>1. up \in [Gens -> BOOLEAN] /\ exit \in BOOLEAN
    BY DEF IInv, TypeOK
  <2>2. exit' = exit \/ exit' = TRUE
    BY DEF WatchStart, WatchWoken, WatchPanics, SpuriousWakeup, Shutdown
  <2>3. up' = up \/ \E g \in Gens : up' = [up EXCEPT ![g] = @ /\ ~exit]
    BY Zenon DEF WatchStart, WatchWoken, WatchPanics, SpuriousWakeup, Shutdown
  <2> QED
    BY <2>1, <2>2, <2>3, Zenon
<1>3. /\ watcher' \in [Gens -> {"none", "start", "wait", "woken", "done"}]
      /\ manager' \in {"start", "wait", "woken", "connect", "backoff",
                       "backoff_woken", "done", "panicked"}
      /\ Reconnecting' <=> Reconnecting
  <2>1. CASE Shutdown
    BY <2>1, ListenNotify DEF Shutdown, IInv
  <2>2. CASE SpuriousWakeup
    BY <2>2 DEF SpuriousWakeup, IInv, TypeOK, Reconnecting
  <2>3. ASSUME NEW g \in Gens,
               WatchStart(g) \/ WatchWoken(g) \/ WatchPanics(g)
        PROVE  /\ watcher' \in [Gens -> {"none", "start", "wait", "woken",
                                         "done"}]
               /\ manager' = manager
    BY <2>3 DEF WatchStart, WatchWoken, WatchPanics, IInv, TypeOK
  <2> QED
    BY <2>1, <2>2, <2>3 DEF IInv, TypeOK, Reconnecting
<1>4. TypeOK'
  BY <1>1, <1>2, <1>3 DEF IInv, TypeOK
<1>5. NotStarted' /\ EarlierJoined' /\ JoinedEnded' /\ BrokenJoined'
  BY <1>1, <1>3
     DEF IInv, NotStarted, EarlierJoined, JoinedEnded, BrokenJoined
<1> QED
  BY <1>4, <1>5 DEF IInv

(* listen()'s thread: it reconnects when broken was set, and the new       *)
(* connection is the only one that is not joined.                          *)
LEMMA ListenManager ==
  ASSUME IInv, Manager
  PROVE  IInv'
<1>1. CASE StartBackground
  <2>1. /\ gen' = gen + 1
        /\ gen + 1 \in Gens
        /\ joiner[gen] = "done" /\ ~ broken
    <3>1. gen' = gen + 1 /\ gen + 1 \in Gens
      BY <1>1, ListenAssumption DEF StartBackground, IInv, TypeOK, Gens
    <3>2. joiner[gen] = "done" /\ ~ broken
      BY <1>1 DEF StartBackground, IInv, BrokenJoined, Reconnecting
    <3> QED
      BY <3>1, <3>2
  <2>2. TypeOK'
    <3>1. up' \in [Gens -> BOOLEAN]
      BY <1>1, <2>1, Zenon DEF StartBackground, IInv, TypeOK
    <3>2. chan' \in [Gens -> 0 .. Chan]
      BY <1>1, <2>1, ListenAssumption DEF StartBackground, IInv, TypeOK
    <3> QED
      BY <1>1, <2>1, <3>1, <3>2 DEF StartBackground, IInv, TypeOK
  <2>3. \A g \in Gens : g < gen' => joiner'[g] = "done"
    <3> SUFFICES ASSUME NEW g \in Gens, g < gen'
                 PROVE  joiner'[g] = "done"
      OBVIOUS
    <3>1. g = gen \/ g < gen
      BY <2>1 DEF IInv, TypeOK, Gens
    <3>2. joiner'[g] = joiner[g]
      BY <1>1, <2>1 DEF StartBackground, IInv, TypeOK, Gens
    <3> QED
      BY <2>1, <3>1, <3>2 DEF IInv, EarlierJoined
  <2>4. NotStarted'
    BY <1>1, <2>1 DEF StartBackground, IInv, TypeOK, NotStarted, Gens
  <2>5. JoinedEnded'
    BY <1>1, <2>1 DEF StartBackground, IInv, TypeOK, JoinedEnded
  <2>6. BrokenJoined'
    BY <1>1, <2>1 DEF StartBackground, BrokenJoined, Reconnecting
  <2> QED
    BY <2>2, <2>3, <2>4, <2>5, <2>6 DEF IInv, EarlierJoined
<1>2. CASE ManagerWaits \/ ManagerWoken \/ StartFails \/ BackoffEnds
  <2>1. UNCHANGED <<exit, gen, up, chan, pinged, wl, rl, joiner, watcher>>
    BY <1>2 DEF ManagerWaits, ManagerWoken, StartFails, BackoffEnds
  <2>2. TypeOK'
    BY <1>2, <2>1
       DEF ManagerWaits, ManagerWoken, StartFails, BackoffEnds, IInv, TypeOK
  <2>3. NotStarted' /\ EarlierJoined' /\ JoinedEnded'
    BY <2>1 DEF IInv, NotStarted, EarlierJoined, JoinedEnded
  <2>4. BrokenJoined'
    BY <1>2, <2>1
       DEF ManagerWaits, ManagerWoken, StartFails, BackoffEnds, IInv,
           BrokenJoined, Reconnecting
  <2> QED
    BY <2>2, <2>3, <2>4 DEF IInv
<1> QED
  BY <1>1, <1>2 DEF Manager

(* IInv is inductive.                                                      *)
LEMMA ListenStep == IInv /\ [Next]_vars => IInv'
<1> SUFFICES ASSUME IInv, [Next]_vars PROVE IInv'
  OBVIOUS
<1>1. CASE UNCHANGED vars
  BY <1>1
     DEF vars, IInv, TypeOK, NotStarted, EarlierJoined, JoinedEnded,
         BrokenJoined, Reconnecting
<1>2. ASSUME NEW g \in Gens, Connection(g) \/ Break(g) \/ ReadFsync(g)
      PROVE  IInv'
  BY <1>2, ListenLoops, ListenJoin, ListenSignals DEF Connection
<1> QED
  BY <1>1, <1>2, ListenManager, ListenSignals DEF Next

(* IInv holds in every reachable state.                                    *)
LEMMA ListenInvariant == Spec => []IInv
BY ListenInit, ListenStep, PTL DEF Spec

(* The threads of a listening client are always in the states the code     *)
(* knows, and the commands in a channel never exceed its capacity.         *)
THEOREM ListenTypeCorrect == Spec => []TypeOK
<1>1. IInv => TypeOK
  BY DEF IInv
<1> QED
  BY <1>1, ListenInvariant, PTL

(* However often the connection breaks, whenever the client is shut down   *)
(* and whatever wakes its threads up, the loops of two connections never   *)
(* run at once: the identity is announced on one socket at a time.         *)
THEOREM ListenOneConnection == Spec => []OneConnection
BY ListenOne, ListenInvariant, PTL

=============================================================================

------------------------- MODULE TcpAsyncListenProofs -------------------------
(***************************************************************************)
(* Proofs about TcpAsyncListen, for any number of connections and any      *)
(* capacity of the commands' channel.                                      *)
(*                                                                         *)
(* What the task of listen() knows when it reconnects is that broken was   *)
(* notified to its select!.  IInv says what that stands for, and that the  *)
(* notification of one connection is never kept for the next one.          *)
(***************************************************************************)
EXTENDS TcpAsyncListen, TLAPS

(* Connections that were not started have no tasks.                        *)
NotStarted ==
  \A g \in Gens : g > gen => rl[g] = "none" /\ wl[g] = "none"
                             /\ joiner[g] = "none"

(* Before another connection is started, the last one is joined.           *)
EarlierJoined == \A g \in Gens : g < gen => joiner[g] = "done"

(* A connection is joined when both its loops have returned.               *)
JoinedEnded ==
  \A g \in Gens : joiner[g] = "done" => rl[g] = "done" /\ wl[g] = "done"

(* The task of listen() hears of broken in its select! only, and from the  *)
(* last connection only; then it reconnects until it has.                  *)
BrokenJoined ==
  /\ "broken" \in heard => manager = "select"
  /\ "broken" \in heard \/ manager \in {"connect", "backoff"}
       => joiner[gen] = "done"

IInv == TypeOK /\ NotStarted /\ EarlierJoined /\ JoinedEnded /\ BrokenJoined

(* The invariant implies that at most one connection has a live loop.      *)
LEMMA AsyncOne == IInv => OneConnection
<1> SUFFICES ASSUME IInv, NEW g \in Gens, Live(g)
             PROVE  g = gen
  BY DEF OneConnection
<1>1. ~ (g > gen)
  BY DEF IInv, NotStarted, Live
<1>2. ~ (g < gen)
  BY DEF IInv, EarlierJoined, JoinedEnded, Live
<1> QED
  BY <1>1, <1>2, AsyncListenAssumption DEF IInv, TypeOK, Gens

(* listen() starts in a state of the invariant.                            *)
LEMMA AsyncInit == Init => IInv
<1> SUFFICES ASSUME Init PROVE IInv
  OBVIOUS
<1>1. 1 \in Gens
  BY AsyncListenAssumption DEF Gens
<1>2. TypeOK
  <2>1. up \in [Gens -> BOOLEAN] /\ pinged \in [Gens -> BOOLEAN]
    BY Zenon DEF Init
  <2>2. chan \in [Gens -> 0 .. Chan]
    BY AsyncListenAssumption, SMT DEF Init
  <2> QED
    BY <1>1, <2>1, <2>2 DEF Init, TypeOK, LoopStates
<1>3. NotStarted /\ EarlierJoined
  BY <1>1 DEF Init, NotStarted, EarlierJoined, Gens
<1>4. JoinedEnded /\ BrokenJoined
  BY <1>1 DEF Init, JoinedEnded, BrokenJoined
<1> QED
  BY <1>2, <1>3, <1>4 DEF IInv

(* The steps of the two loops of a connection, and its socket's failure.   *)
(* A loop that has returned, or was never started, takes no step.          *)
LEMMA AsyncLoops ==
  ASSUME IInv, NEW g \in Gens, ReadLoop(g) \/ WriteLoop(g) \/ Break(g)
  PROVE  IInv'
<1>1. UNCHANGED <<dropped, gen, joiner, manager, heard>>
  BY DEF ReadLoop, ReadSelect, ReadResp, ReadFails, ReadExits, SendRsync,
         ReadGoesTo, WriteLoop, WriteSelect, NextCommand, ChannelClosed,
         WriteExits, WriteReq, WriteGoesTo, Break
<1>2. up' \in [Gens -> BOOLEAN]
  <2>1. up \in [Gens -> BOOLEAN]
    BY DEF IInv, TypeOK
  <2>2. up' = up \/ up' = [up EXCEPT ![g] = FALSE]
    BY DEF ReadLoop, ReadSelect, ReadResp, ReadFails, ReadExits, SendRsync,
           ReadGoesTo, WriteLoop, WriteSelect, NextCommand, ChannelClosed,
           WriteExits, WriteReq, WriteGoesTo, Break
  <2> QED
    BY <2>1, <2>2
<1>3. chan' \in [Gens -> 0 .. Chan]
  <2>1. chan \in [Gens -> 0 .. Chan]
    BY DEF IInv, TypeOK
  <2>2. \/ chan' = chan
        \/ chan' = [chan EXCEPT ![g] = IF @ > 0 THEN @ - 1 ELSE @]
        \/ chan' = [chan EXCEPT ![g] = 0]
        \/ chan[g] < Chan /\ chan' = [chan EXCEPT ![g] = @ + 1]
    BY DEF ReadLoop, ReadSelect, ReadResp, ReadFails, ReadExits, SendRsync,
           WriteLoop, WriteSelect, NextCommand, ChannelClosed, WriteExits,
           WriteReq, Break
  <2> QED
    BY <2>1, <2>2, AsyncListenAssumption
<1>4. \/ rl' = rl
      \/ /\ rl[g] \in {"top", "select", "heard", "busy"}
         /\ \E s \in LoopStates : rl' = [rl EXCEPT ![g] = s]
  BY DEF ReadLoop, ReadSelect, ReadResp, ReadFails, ReadExits, SendRsync,
         ReadGoesTo, InSelect, LoopStates, WriteLoop, WriteSelect,
         NextCommand, ChannelClosed, WriteExits, WriteReq, WriteGoesTo, Break
<1>5. \/ wl' = wl
      \/ /\ wl[g] \in {"top", "select", "heard", "busy"}
         /\ \E s \in LoopStates : wl' = [wl EXCEPT ![g] = s]
  BY DEF ReadLoop, ReadSelect, ReadResp, ReadFails, ReadExits, SendRsync,
         ReadGoesTo, InSelect, LoopStates, WriteLoop, WriteSelect,
         NextCommand, ChannelClosed, WriteExits, WriteReq, WriteGoesTo, Break
<1>6. rl' \in [Gens -> LoopStates] /\ wl' \in [Gens -> LoopStates]
  BY <1>4, <1>5 DEF IInv, TypeOK
<1>7. pinged' \in [Gens -> BOOLEAN]
  <2>1. pinged \in [Gens -> BOOLEAN]
    BY DEF IInv, TypeOK
  <2>2. \/ pinged' = pinged
        \/ pinged' = [pinged EXCEPT ![g] = @ \/ up[g]]
    BY Zenon
       DEF ReadLoop, ReadSelect, ReadResp, ReadFails, ReadExits, SendRsync,
           ReadGoesTo, WriteLoop, WriteSelect, NextCommand, ChannelClosed,
           WriteExits, WriteReq, Break
  <2>3. up \in [Gens -> BOOLEAN]
    BY DEF IInv, TypeOK
  <2> QED
    BY <2>1, <2>2, <2>3, Zenon
<1>8. TypeOK'
  BY <1>1, <1>2, <1>3, <1>6, <1>7 DEF IInv, TypeOK
<1>9. \A h \in Gens :
        /\ rl[h] \in {"none", "done"} => rl'[h] = rl[h]
        /\ wl[h] \in {"none", "done"} => wl'[h] = wl[h]
  BY <1>4, <1>5 DEF IInv, TypeOK
<1>10. NotStarted' /\ EarlierJoined' /\ JoinedEnded' /\ BrokenJoined'
  BY <1>1, <1>9
     DEF IInv, NotStarted, EarlierJoined, JoinedEnded, BrokenJoined
<1> QED
  BY <1>8, <1>10 DEF IInv

(* The join of the last connection: earlier ones are joined already.       *)
LEMMA AsyncJoin ==
  ASSUME IInv, NEW g \in Gens, Join(g)
  PROVE  IInv'
<1>1. g = gen
  BY DEF Join, IInv, NotStarted, EarlierJoined, TypeOK, Gens
<1>2. TypeOK'
  BY DEF Join, IInv, TypeOK
<1>3. NotStarted' /\ EarlierJoined' /\ JoinedEnded'
  BY <1>1 DEF Join, IInv, TypeOK, NotStarted, EarlierJoined, JoinedEnded,
              Gens
<1>4. joiner'[gen'] = "done"
  BY <1>1 DEF Join, IInv, TypeOK
<1>5. "broken" \in heard' => manager' = "select"
  BY DEF Join, IInv, BrokenJoined
<1> QED
  BY <1>2, <1>3, <1>4, <1>5 DEF IInv, BrokenJoined

(* Dropping the Client ends no loop and notifies broken to nobody.         *)
LEMMA AsyncDrop ==
  ASSUME IInv, DropClient
  PROVE  IInv'
<1>1. UNCHANGED <<gen, up, chan, pinged, joiner, manager>>
  BY DEF DropClient
<1>2. "broken" \in heard' => "broken" \in heard
  BY DEF DropClient
<1>3. \A h \in Gens :
        /\ rl[h] \in {"none", "done"} => rl'[h] = rl[h]
        /\ wl[h] \in {"none", "done"} => wl'[h] = wl[h]
  BY DEF DropClient, IInv, TypeOK
<1>4. TypeOK'
  <2>1. rl' \in [Gens -> LoopStates] /\ wl' \in [Gens -> LoopStates]
    BY DEF DropClient, IInv, TypeOK, LoopStates
  <2>2. heard' \subseteq {"exit", "broken"} /\ dropped' \in BOOLEAN
    BY DEF DropClient, IInv, TypeOK
  <2> QED
    BY <1>1, <2>1, <2>2 DEF IInv, TypeOK
<1>5. NotStarted' /\ EarlierJoined' /\ JoinedEnded' /\ BrokenJoined'
  BY <1>1, <1>2, <1>3
     DEF IInv, NotStarted, EarlierJoined, JoinedEnded, BrokenJoined
<1> QED
  BY <1>4, <1>5 DEF IInv

(* The task of listen(): it reconnects when it has heard of broken, and    *)
(* the new connection is the only one that is not joined.                  *)
LEMMA AsyncManager ==
  ASSUME IInv, Manager
  PROVE  IInv'
<1>1. CASE StartBackground
  <2>1. gen' = gen + 1 /\ gen + 1 \in Gens
    BY <1>1, AsyncListenAssumption DEF StartBackground, IInv, TypeOK, Gens
  <2>2. joiner[gen] = "done" /\ "broken" \notin heard
    BY <1>1 DEF StartBackground, IInv, BrokenJoined
  <2>3. TypeOK'
    <3>1. up' \in [Gens -> BOOLEAN]
      BY <1>1, <2>1, Zenon DEF StartBackground, IInv, TypeOK
    <3>2. chan' \in [Gens -> 0 .. Chan]
      BY <1>1, <2>1, AsyncListenAssumption DEF StartBackground, IInv, TypeOK
    <3> QED
      BY <1>1, <2>1, <3>1, <3>2 DEF StartBackground, IInv, TypeOK, LoopStates
  <2>4. EarlierJoined'
    <3> SUFFICES ASSUME NEW g \in Gens, g < gen'
                 PROVE  joiner'[g] = "done"
      BY DEF EarlierJoined
    <3>1. g = gen \/ g < gen
      BY <2>1 DEF IInv, TypeOK, Gens
    <3>2. joiner'[g] = joiner[g]
      BY <1>1, <2>1 DEF StartBackground, IInv, TypeOK, Gens
    <3> QED
      BY <2>2, <3>1, <3>2 DEF IInv, EarlierJoined
  <2>5. NotStarted'
    BY <1>1, <2>1 DEF StartBackground, IInv, TypeOK, NotStarted, Gens
  <2>6. JoinedEnded'
    BY <1>1, <2>1 DEF StartBackground, IInv, TypeOK, JoinedEnded
  <2>7. BrokenJoined'
    BY <1>1, <2>2 DEF StartBackground, BrokenJoined
  <2> QED
    BY <2>3, <2>4, <2>5, <2>6, <2>7 DEF IInv
<1>2. CASE ManagerSelect \/ ManagerExits \/ ManagerBroken \/ StartFails
             \/ BackoffEnds
  <2>1. UNCHANGED <<dropped, gen, up, chan, pinged, rl, wl, joiner>> /\ heard' = {}
    BY <1>2 DEF ManagerSelect, ManagerExits, ManagerBroken, StartFails,
                BackoffEnds, ManagerGoesTo
  <2>2. manager' \in {"connect", "backoff"}
          => "broken" \in heard \/ manager \in {"connect", "backoff"}
    BY <1>2 DEF ManagerSelect, ManagerExits, ManagerBroken, StartFails,
                BackoffEnds, ManagerGoesTo
  <2>3. manager' \in {"select", "connect", "backoff", "done"}
    BY <1>2 DEF ManagerSelect, ManagerExits, ManagerBroken, StartFails,
                BackoffEnds, ManagerGoesTo
  <2>4. TypeOK'
    BY <2>1, <2>3 DEF IInv, TypeOK
  <2>5. NotStarted' /\ EarlierJoined' /\ JoinedEnded' /\ BrokenJoined'
    BY <2>1, <2>2
       DEF IInv, NotStarted, EarlierJoined, JoinedEnded, BrokenJoined
  <2> QED
    BY <2>4, <2>5 DEF IInv
<1> QED
  BY <1>1, <1>2 DEF Manager

(* IInv is inductive.                                                      *)
LEMMA AsyncStep == IInv /\ [Next]_vars => IInv'
<1> SUFFICES ASSUME IInv, [Next]_vars PROVE IInv'
  OBVIOUS
<1>1. CASE UNCHANGED vars
  BY <1>1
     DEF vars, IInv, TypeOK, NotStarted, EarlierJoined, JoinedEnded,
         BrokenJoined
<1> QED
  BY <1>1, AsyncLoops, AsyncJoin, AsyncManager, AsyncDrop DEF Next

(* IInv holds in every reachable state.                                    *)
LEMMA AsyncInvariant == Spec => []IInv
BY AsyncInit, AsyncStep, PTL DEF Spec

(* The tasks of a listening async client are always in the states the code *)
(* knows, and the commands in a channel never exceed its capacity.         *)
THEOREM AsyncTypeCorrect == Spec => []TypeOK
<1>1. IInv => TypeOK
  BY DEF IInv
<1> QED
  BY <1>1, AsyncInvariant, PTL

(* However often the connection breaks, and whichever of the tasks the     *)
(* drop of the Client reaches, the loops of two connections never run at   *)
(* once: the identity is announced on one socket at a time.                *)
THEOREM AsyncOneConnection == Spec => []OneConnection
BY AsyncOne, AsyncInvariant, PTL

=============================================================================

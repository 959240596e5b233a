--------------------------- MODULE TcpAsyncListen ---------------------------
(***************************************************************************)
(* The tasks of a listening async TCP client                               *)
(* (src/src/tcp/client_async.rs).                                          *)
(*                                                                         *)
(* A connection has three tasks: read_loop, write_loop, and one that joins *)
(* them and then notifies broken, a Notify of that connection.  The task   *)
(* that listen() spawns waits for it to reconnect.  All but the joining    *)
(* task also wait for exit, a Notify that the Client notifies when it is   *)
(* dropped.                                                                *)
(*                                                                         *)
(* notify_waiters() reaches only those that are in their select! at that   *)
(* moment; it leaves nothing for one that comes later.  And a select! in   *)
(* which several branches are ready takes any of them, so it may even      *)
(* ignore a notification it was given.                                     *)
(*                                                                         *)
(* A step of a task runs from one .await to the next.                      *)
(***************************************************************************)
EXTENDS Naturals

CONSTANTS
  MaxGens,  \* bound: connections started
  Chan      \* capacity of the commands' channel; channel(10) in the code

ASSUME AsyncListenAssumption == MaxGens \in Nat \ {0} /\ Chan \in Nat \ {0}

Gens == 1 .. MaxGens

VARIABLES
  dropped,  \* the Client was dropped
  gen,      \* connections started so far
  up,       \* connection -> its socket works
  chan,     \* connection -> commands in its channel
  pinged,   \* connection -> its first Ping was written
  rl,       \* connection -> read_loop
  wl,       \* connection -> write_loop
  joiner,   \* connection -> the task that joins them
  manager,  \* the task of listen()
  heard     \* the notifications the select! of the manager was given

vars == <<dropped, gen, up, chan, pinged, rl, wl, joiner, manager, heard>>

(* A loop at "top" is between two select!; "heard" is a select! that exit  *)
(* was notified to.                                                        *)
LoopStates == {"none", "top", "select", "heard", "busy", "done"}

InSelect(s) == s \in {"select", "heard"}
Live(g) == rl[g] \notin {"none", "done"} \/ wl[g] \notin {"none", "done"}

(* listen(): start_background has returned, its task is spawned.           *)
Init ==
  /\ dropped = FALSE
  /\ gen = 1
  /\ up = [g \in Gens |-> g = 1]
  /\ chan = [g \in Gens |-> IF g = 1 THEN 1 ELSE 0]
  /\ pinged = [g \in Gens |-> FALSE]
  /\ rl = [g \in Gens |-> IF g = 1 THEN "top" ELSE "none"]
  /\ wl = [g \in Gens |-> IF g = 1 THEN "top" ELSE "none"]
  /\ joiner = [g \in Gens |-> IF g = 1 THEN "joining" ELSE "none"]
  /\ manager = "top"
  /\ heard = {}

-----------------------------------------------------------------------------
(* The connection fails, or the server closes it; it does so when          *)
(* write_loop, dropping its half of the socket, has shut it down.          *)
Break(g) ==
  /\ up[g]
  /\ up' = [up EXCEPT ![g] = FALSE]
  /\ UNCHANGED <<dropped, gen, chan, pinged, rl, wl, joiner, manager, heard>>

ServerCloses(g) == wl[g] = "done" /\ Break(g)

-----------------------------------------------------------------------------
(* read_loop.                                                              *)

ReadGoesTo(g, s) ==
  /\ rl' = [rl EXCEPT ![g] = s]
  /\ UNCHANGED <<dropped, gen, up, pinged, wl, joiner, manager, heard>>

ReadSelect(g) == rl[g] = "top" /\ ReadGoesTo(g, "select") /\ UNCHANGED chan

(* A response; there is none before the first Ping was written.  It needs  *)
(* no answer, or is an Fsync, for which handle_resp has connected to the   *)
(* peer, briefly, or an Fsync whose address does not parse, an error that  *)
(* ends the loop.                                                          *)
ReadResp(g) ==
  /\ InSelect(rl[g]) /\ up[g] /\ pinged[g]
  /\ \E s \in {"top", "busy", "done"} : ReadGoesTo(g, s)
  /\ UNCHANGED chan

ReadFails(g) ==
  InSelect(rl[g]) /\ ~up[g] /\ ReadGoesTo(g, "done") /\ UNCHANGED chan

ReadExits(g) == rl[g] = "heard" /\ ReadGoesTo(g, "done") /\ UNCHANGED chan

(* Mutant: the Rsync is sent without waiting for room in the channel.      *)
SendRsyncUnbounded(g) ==
  /\ rl[g] = "busy"
  /\ \/ /\ wl[g] # "done"
        /\ chan' = [chan EXCEPT ![g] = @ + 1]
        /\ ReadGoesTo(g, "top")
     \/ wl[g] = "done" /\ ReadGoesTo(g, "done") /\ UNCHANGED chan

(* The Rsync is sent to the channel, waiting while it is full, without     *)
(* listening to exit.  It fails when write_loop has ended.                 *)
SendRsync(g) ==
  /\ rl[g] = "busy"
  /\ \/ /\ wl[g] # "done" /\ chan[g] < Chan
        /\ chan' = [chan EXCEPT ![g] = @ + 1]
        /\ ReadGoesTo(g, "top")
     \/ wl[g] = "done" /\ ReadGoesTo(g, "done") /\ UNCHANGED chan

-----------------------------------------------------------------------------
(* write_loop.                                                             *)

WriteGoesTo(g, s) ==
  /\ wl' = [wl EXCEPT ![g] = s]
  /\ UNCHANGED <<dropped, gen, up, rl, joiner, manager, heard>>

WriteSelect(g) ==
  wl[g] = "top" /\ WriteGoesTo(g, "select") /\ UNCHANGED <<chan, pinged>>

(* A command of the channel, or a Ping after 10 seconds, is to be written. *)
NextCommand(g) ==
  /\ InSelect(wl[g])
  /\ chan' = [chan EXCEPT ![g] = IF @ > 0 THEN @ - 1 ELSE @]
  /\ chan[g] > 0 \/ rl[g] # "done"
  /\ WriteGoesTo(g, "busy")
  /\ UNCHANGED pinged

(* Mutant: a channel without sender is taken for an idle one.              *)
ChannelClosedIdle(g) ==
  /\ InSelect(wl[g]) /\ chan[g] = 0 /\ rl[g] = "done"
  /\ WriteGoesTo(g, "busy") /\ UNCHANGED <<chan, pinged>>

(* The channel is empty and its sender, read_loop, is gone.                *)
ChannelClosed(g) ==
  /\ InSelect(wl[g]) /\ chan[g] = 0 /\ rl[g] = "done"
  /\ WriteGoesTo(g, "done") /\ UNCHANGED <<chan, pinged>>

WriteExits(g) ==
  /\ wl[g] = "heard"
  /\ WriteGoesTo(g, "done")
  /\ chan' = [chan EXCEPT ![g] = 0]
  /\ UNCHANGED pinged

(* write_req, without listening to exit.  It fails on a broken connection; *)
(* the receiver is dropped with the commands in it.                        *)
WriteReq(g) ==
  /\ wl[g] = "busy"
  /\ pinged' = [pinged EXCEPT ![g] = @ \/ up[g]]
  /\ \/ up[g] /\ WriteGoesTo(g, "top") /\ UNCHANGED chan
     \/ /\ ~up[g]
        /\ WriteGoesTo(g, "done")
        /\ chan' = [chan EXCEPT ![g] = 0]

-----------------------------------------------------------------------------
(* Mutant: the first loop that ends is enough.                             *)
JoinEither(g) ==
  /\ joiner[g] = "joining" /\ (rl[g] = "done" \/ wl[g] = "done")
  /\ joiner' = [joiner EXCEPT ![g] = "done"]
  /\ heard' = IF manager = "select" /\ gen = g THEN heard \cup {"broken"}
                                               ELSE heard
  /\ UNCHANGED <<dropped, gen, up, chan, pinged, rl, wl, manager>>

(* Both loops have ended: broken.notify_waiters() reaches the manager if   *)
(* it is in its select!, waiting for this connection.                      *)
Join(g) ==
  /\ joiner[g] = "joining" /\ rl[g] = "done" /\ wl[g] = "done"
  /\ joiner' = [joiner EXCEPT ![g] = "done"]
  /\ heard' = IF manager = "select" /\ gen = g THEN heard \cup {"broken"}
                                               ELSE heard
  /\ UNCHANGED <<dropped, gen, up, chan, pinged, rl, wl, manager>>

-----------------------------------------------------------------------------
(* The task of listen().                                                   *)

ManagerGoesTo(s) ==
  /\ manager' = s
  /\ heard' = {}
  /\ UNCHANGED <<dropped, gen, up, chan, pinged, rl, wl, joiner>>

ManagerSelect == manager = "top" /\ ManagerGoesTo("select")

ManagerExits ==
  /\ manager \in {"select", "backoff"} /\ "exit" \in heard
  /\ ManagerGoesTo("done")

ManagerBroken ==
  manager = "select" /\ "broken" \in heard /\ ManagerGoesTo("connect")

(* start_background succeeds: a new connection, its tasks, the first Ping. *)
StartBackground ==
  /\ manager = "connect" /\ gen < MaxGens
  /\ gen' = gen + 1
  /\ up' = [up EXCEPT ![gen + 1] = TRUE]
  /\ chan' = [chan EXCEPT ![gen + 1] = 1]
  /\ rl' = [rl EXCEPT ![gen + 1] = "top"]
  /\ wl' = [wl EXCEPT ![gen + 1] = "top"]
  /\ joiner' = [joiner EXCEPT ![gen + 1] = "joining"]
  /\ manager' = "top"
  /\ UNCHANGED <<dropped, pinged, heard>>

(* It fails to connect: wait for exit or for 120 seconds, then try again.  *)
StartFails   == manager = "connect" /\ ManagerGoesTo("backoff")
BackoffEnds  == manager = "backoff" /\ ManagerGoesTo("connect")

(* The Client is dropped: exit.notify_waiters().                           *)
DropClient ==
  /\ ~dropped
  /\ dropped' = TRUE
  /\ rl' = [g \in Gens |-> IF rl[g] = "select" THEN "heard" ELSE rl[g]]
  /\ wl' = [g \in Gens |-> IF wl[g] = "select" THEN "heard" ELSE wl[g]]
  /\ heard' = IF manager \in {"select", "backoff"} THEN heard \cup {"exit"}
                                                   ELSE heard
  /\ UNCHANGED <<gen, up, chan, pinged, joiner, manager>>

-----------------------------------------------------------------------------
ReadLoop(g) ==
  \/ ReadSelect(g) \/ ReadResp(g) \/ ReadFails(g) \/ ReadExits(g)
  \/ SendRsync(g)

WriteLoop(g) ==
  \/ WriteSelect(g) \/ NextCommand(g) \/ ChannelClosed(g) \/ WriteExits(g)
  \/ WriteReq(g)

Manager ==
  \/ ManagerSelect \/ ManagerExits \/ ManagerBroken \/ StartBackground
  \/ StartFails \/ BackoffEnds

Next ==
  \/ \E g \in Gens : ReadLoop(g) \/ WriteLoop(g) \/ Join(g) \/ Break(g)
  \/ Manager
  \/ DropClient

(* The runtime polls every task that can go on, the 10-second timer fires, *)
(* and the server closes a connection that the client has shut down.       *)
(* Responses need not come.                                                *)
Fairness ==
  /\ \A g \in Gens :
       /\ WF_vars(ReadSelect(g) \/ ReadFails(g) \/ ReadExits(g) \/ SendRsync(g))
       /\ WF_vars(WriteLoop(g))
       /\ WF_vars(Join(g))
       /\ WF_vars(ServerCloses(g))
  /\ WF_vars(Manager)

Spec     == Init /\ [][Next]_vars
LiveSpec == Spec /\ Fairness

-----------------------------------------------------------------------------
(* The states of the tasks; the commands' channel stays within its         *)
(* capacity.                                                               *)
TypeOK ==
  /\ dropped \in BOOLEAN
  /\ gen \in Gens
  /\ up \in [Gens -> BOOLEAN]
  /\ chan \in [Gens -> 0 .. Chan]
  /\ pinged \in [Gens -> BOOLEAN]
  /\ rl \in [Gens -> LoopStates]
  /\ wl \in [Gens -> LoopStates]
  /\ joiner \in [Gens -> {"none", "joining", "done"}]
  /\ manager \in {"top", "select", "connect", "backoff", "done"}
  /\ heard \subseteq {"exit", "broken"}

(* One connection at a time: the identity is never announced on two        *)
(* sockets, since a new connection is started only after both loops of the *)
(* one before have ended, also when exit reached only one of them.         *)
OneConnection == \A g, h \in Gens : Live(g) /\ Live(h) => g = h

(* No half-dead connection: when one of the loops has ended, for whatever  *)
(* reason (an error, exit that the other one missed), the other one ends   *)
(* too, although it may be waiting for the channel, for the socket or in   *)
(* its select!.  So a connection that fails on either side is detected.    *)
LoopsEndTogether ==
  \A g \in Gens :
    rl[g] = "done" \/ wl[g] = "done" ~> rl[g] = "done" /\ wl[g] = "done"


=============================================================================

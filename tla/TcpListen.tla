------------------------------ MODULE TcpListen ------------------------------
(***************************************************************************)
(* The threads of a listening TCP client (src/src/tcp/client.rs).          *)
(*                                                                         *)
(* listen() starts a connection to the server (start_background) and a     *)
(* thread that is to start a new one when it breaks.  A connection has     *)
(* four threads: write_loop, read_loop, one that joins those two and then  *)
(* sets signal.broken, and one that waits for signal.exit to shut the      *)
(* socket down.  signal is a mutex with a condition variable that          *)
(* everybody waits on and notify_all()s.                                   *)
(*                                                                         *)
(* A step is one critical section or one blocking call.  cvar.wait(guard)  *)
(* ends a critical section; being notified and taking the mutex again is   *)
(* another step.  A condition variable may also wake up spuriously.        *)
(* A thread that panics while it holds the mutex poisons it, and every     *)
(* later lock().unwrap() or wait().unwrap() panics.                        *)
(***************************************************************************)
EXTENDS Naturals

CONSTANTS
  MaxGens,   \* bound: connections started
  Chan,      \* capacity of the commands' channel; sync_channel(10) in code
  Spurious   \* whether spurious wake-ups of the condition variable happen

ASSUME ListenAssumption ==
  /\ MaxGens \in Nat \ {0}
  /\ Chan \in Nat \ {0}
  /\ Spurious \in BOOLEAN

Gens == 1 .. MaxGens

VARIABLES
  exit,      \* signal.exit
  broken,    \* signal.broken
  gen,       \* connections started so far
  up,        \* connection -> its socket works
  chan,      \* connection -> commands in its channel
  pinged,    \* connection -> its first Ping was written
  wl,        \* connection -> write_loop
  rl,        \* connection -> read_loop
  joiner,    \* connection -> the thread that joins them
  watcher,   \* connection -> the thread that waits for exit
  manager    \* the thread listen() spawns

vars ==
  <<exit, broken, gen, up, chan, pinged, wl, rl, joiner, watcher, manager>>

(* listen(): the first connection is started before the thread.            *)
Init ==
  /\ exit = FALSE
  /\ broken = FALSE
  /\ gen = 1
  /\ up = [g \in Gens |-> g = 1]
  /\ chan = [g \in Gens |-> IF g = 1 THEN 1 ELSE 0]
  /\ pinged = [g \in Gens |-> FALSE]
  /\ wl = [g \in Gens |-> IF g = 1 THEN "run" ELSE "none"]
  /\ rl = [g \in Gens |-> IF g = 1 THEN "run" ELSE "none"]
  /\ joiner = [g \in Gens |-> IF g = 1 THEN "joining" ELSE "none"]
  /\ watcher = [g \in Gens |-> IF g = 1 THEN "start" ELSE "none"]
  /\ manager = "start"

-----------------------------------------------------------------------------
(* The connection breaks: the server ends it, or the network fails.        *)
Break(g) ==
  /\ up[g]
  /\ up' = [up EXCEPT ![g] = FALSE]
  /\ UNCHANGED <<exit, broken, gen, chan, pinged, wl, rl, joiner, watcher,
                 manager>>

(* write_loop: a command of the channel, or a Ping after 10 seconds, is    *)
(* written; a write that fails ends the loop, and so does a channel that   *)
(* is empty and whose sender, read_loop, is gone.  The receiver is dropped *)
(* with the commands in it.                                                *)
Write(g) ==
  /\ wl[g] = "run" /\ up[g]
  /\ chan[g] > 0 \/ rl[g] \in {"run", "reply"}
  /\ chan' = [chan EXCEPT ![g] = IF @ > 0 THEN @ - 1 ELSE @]
  /\ pinged' = [pinged EXCEPT ![g] = TRUE]
  /\ UNCHANGED <<exit, broken, gen, up, wl, rl, joiner, watcher, manager>>

WriteEnds(g) ==
  /\ wl[g] = "run"
  /\ \/ ~up[g]
     \/ chan[g] = 0 /\ rl[g] \notin {"run", "reply"}
  /\ wl' = [wl EXCEPT ![g] = "done"]
  /\ chan' = [chan EXCEPT ![g] = 0]
  /\ UNCHANGED <<exit, broken, gen, up, pinged, rl, joiner, watcher, manager>>

(* read_loop: an Fsync came; the server knows the peer by its first Ping,  *)
(* so that was written.  The peer is connected to, briefly, and a failure  *)
(* of that is ignored.  An address that does not parse is returned as an   *)
(* error, which the unwrap() of the thread turns into a panic.             *)
ReadFsync(g) ==
  /\ rl[g] = "run" /\ up[g] /\ pinged[g]
  /\ \E s \in {"reply", "panicked"} : rl' = [rl EXCEPT ![g] = s]
  /\ UNCHANGED <<exit, broken, gen, up, chan, pinged, wl, joiner, watcher,
                 manager>>

(* Mutant: a channel without a bound.                                      *)
ReadReplyUnbounded(g) ==
  /\ rl[g] = "reply"
  /\ \/ /\ wl[g] = "run"
        /\ chan' = [chan EXCEPT ![g] = @ + 1]
        /\ rl' = [rl EXCEPT ![g] = "run"]
     \/ /\ wl[g] # "run"
        /\ rl' = [rl EXCEPT ![g] = "panicked"]
        /\ UNCHANGED chan
  /\ UNCHANGED <<exit, broken, gen, up, pinged, wl, joiner, watcher, manager>>

(* Then the Rsync is sent to the channel, waiting while it is full; with   *)
(* write_loop gone, tx.send(req).unwrap() panics.                          *)
ReadReply(g) ==
  /\ rl[g] = "reply"
  /\ \/ /\ wl[g] = "run" /\ chan[g] < Chan
        /\ chan' = [chan EXCEPT ![g] = @ + 1]
        /\ rl' = [rl EXCEPT ![g] = "run"]
     \/ /\ wl[g] # "run"
        /\ rl' = [rl EXCEPT ![g] = "panicked"]
        /\ UNCHANGED chan
  /\ UNCHANGED <<exit, broken, gen, up, pinged, wl, joiner, watcher, manager>>

(* read_resp fails.                                                        *)
ReadEnds(g) ==
  /\ rl[g] = "run" /\ ~up[g]
  /\ rl' = [rl EXCEPT ![g] = "done"]
  /\ UNCHANGED <<exit, broken, gen, up, chan, pinged, wl, joiner, watcher,
                 manager>>

-----------------------------------------------------------------------------
(* The condition variable.                                                 *)

(* Only listen()'s thread can panic in a critical section.                 *)
Poisoned == manager = "panicked"

Notified(s) == IF s = "wait" THEN "woken" ELSE s

(* notify_all: whoever waits will take the mutex again.                    *)
NotifyAll ==
  /\ watcher' = [g \in Gens |-> Notified(watcher[g])]
  /\ manager' = IF manager = "backoff" THEN "backoff_woken"
                ELSE Notified(manager)

SpuriousWakeup ==
  /\ Spurious
  /\ \/ /\ manager = "wait"
        /\ manager' = "woken"
        /\ UNCHANGED watcher
     \/ \E g \in Gens : /\ watcher[g] = "wait"
                        /\ watcher' = [watcher EXCEPT ![g] = "woken"]
                        /\ UNCHANGED manager
  /\ UNCHANGED <<exit, broken, gen, up, chan, pinged, wl, rl, joiner>>

(* Mutant: only the first handle is joined.                                *)
JoinFirst(g) ==
  /\ joiner[g] = "joining" /\ ~Poisoned
  /\ wl[g] = "done"
  /\ joiner' = [joiner EXCEPT ![g] = "done"]
  /\ broken' = TRUE
  /\ NotifyAll
  /\ UNCHANGED <<exit, gen, up, chan, pinged, wl, rl>>

(* Both loops are joined, in the order of hs; then the others are told.    *)
(* join().unwrap() panics if the loop panicked.                            *)
Join(g) ==
  /\ joiner[g] = "joining" /\ ~Poisoned
  /\ wl[g] = "done" /\ rl[g] = "done"
  /\ joiner' = [joiner EXCEPT ![g] = "done"]
  /\ broken' = TRUE
  /\ NotifyAll
  /\ UNCHANGED <<exit, gen, up, chan, pinged, wl, rl>>

JoinPanics(g) ==
  /\ joiner[g] = "joining"
  /\ wl[g] = "done"
  /\ rl[g] = "panicked" \/ (rl[g] = "done" /\ Poisoned)
  /\ joiner' = [joiner EXCEPT ![g] = "panicked"]
  /\ UNCHANGED <<exit, broken, gen, up, chan, pinged, wl, rl, watcher,
                 manager>>

(* Mutant: the watcher waits without looking at exit first.                *)
WatchStartWaits(g) ==
  /\ watcher[g] = "start" /\ ~Poisoned
  /\ watcher' = [watcher EXCEPT ![g] = "wait"]
  /\ UNCHANGED <<exit, broken, gen, up, chan, pinged, wl, rl, joiner, manager>>

(* The watcher: lock, and wait once unless exit is set already.            *)
WatchStart(g) ==
  /\ watcher[g] = "start" /\ ~Poisoned
  /\ watcher' = [watcher EXCEPT ![g] = IF exit THEN "done" ELSE "wait"]
  /\ up' = [up EXCEPT ![g] = @ /\ ~exit]
  /\ UNCHANGED <<exit, broken, gen, chan, pinged, wl, rl, joiner, manager>>

WatchWoken(g) ==
  /\ watcher[g] = "woken" /\ ~Poisoned
  /\ watcher' = [watcher EXCEPT ![g] = "done"]
  /\ up' = [up EXCEPT ![g] = @ /\ ~exit]
  /\ UNCHANGED <<exit, broken, gen, chan, pinged, wl, rl, joiner, manager>>

WatchPanics(g) ==
  /\ watcher[g] \in {"start", "woken"} /\ Poisoned
  /\ watcher' = [watcher EXCEPT ![g] = "done"]
  /\ UNCHANGED <<exit, broken, gen, up, chan, pinged, wl, rl, joiner, manager>>

-----------------------------------------------------------------------------
(* The thread of listen().                                                 *)

(* The top of its loop: wait to be told, without looking at broken.        *)
ManagerWaits ==
  /\ manager = "start"
  /\ manager' = IF exit THEN "done" ELSE "wait"
  /\ UNCHANGED <<exit, broken, gen, up, chan, pinged, wl, rl, joiner, watcher>>

(* Woken: exit, or assert!(signal.broken) and reconnect.                   *)
ManagerWoken ==
  /\ manager = "woken"
  /\ \/ /\ exit
        /\ manager' = "done"
        /\ UNCHANGED broken
     \/ /\ ~exit /\ broken
        /\ broken' = FALSE
        /\ manager' = "connect"
     \/ /\ ~exit /\ ~broken
        /\ manager' = "panicked"
        /\ UNCHANGED broken
  /\ UNCHANGED <<exit, gen, up, chan, pinged, wl, rl, joiner, watcher>>

(* start_background succeeds: a new connection with its threads and the    *)
(* first Ping in its channel.                                              *)
StartBackground ==
  /\ manager = "connect" /\ gen < MaxGens
  /\ gen' = gen + 1
  /\ up' = [up EXCEPT ![gen + 1] = TRUE]
  /\ chan' = [chan EXCEPT ![gen + 1] = 1]
  /\ wl' = [wl EXCEPT ![gen + 1] = "run"]
  /\ rl' = [rl EXCEPT ![gen + 1] = "run"]
  /\ joiner' = [joiner EXCEPT ![gen + 1] = "joining"]
  /\ watcher' = [watcher EXCEPT ![gen + 1] = "start"]
  /\ manager' = "start"
  /\ UNCHANGED <<exit, broken, pinged>>

(* It fails to connect: wait up to 120 seconds, then try again.            *)
StartFails ==
  /\ manager = "connect"
  /\ manager' = IF exit THEN "done" ELSE "backoff"
  /\ UNCHANGED <<exit, broken, gen, up, chan, pinged, wl, rl, joiner, watcher>>

BackoffEnds ==
  /\ manager \in {"backoff", "backoff_woken"}
  /\ manager' = IF exit THEN "done" ELSE "connect"
  /\ UNCHANGED <<exit, broken, gen, up, chan, pinged, wl, rl, joiner, watcher>>

(* shutdown(), also when the Client is dropped; it panics on a poisoned    *)
(* mutex, and then nothing changes.                                        *)
Shutdown ==
  /\ ~exit /\ ~Poisoned
  /\ exit' = TRUE
  /\ NotifyAll
  /\ UNCHANGED <<broken, gen, up, chan, pinged, wl, rl, joiner>>

-----------------------------------------------------------------------------
Connection(g) ==
  \/ Write(g) \/ WriteEnds(g) \/ ReadReply(g) \/ ReadEnds(g)
  \/ Join(g) \/ JoinPanics(g)
  \/ WatchStart(g) \/ WatchWoken(g) \/ WatchPanics(g)

Manager ==
  \/ ManagerWaits \/ ManagerWoken \/ StartBackground \/ StartFails
  \/ BackoffEnds

Next ==
  \/ \E g \in Gens : Connection(g) \/ Break(g) \/ ReadFsync(g)
  \/ Manager
  \/ SpuriousWakeup
  \/ Shutdown

(* Every thread that can go on does.                                       *)
Fairness ==
  /\ \A g \in Gens :
       /\ WF_vars(Write(g) \/ WriteEnds(g))
       /\ WF_vars(ReadReply(g) \/ ReadEnds(g))
       /\ WF_vars(Join(g) \/ JoinPanics(g))
       /\ WF_vars(WatchStart(g) \/ WatchWoken(g) \/ WatchPanics(g))
  /\ WF_vars(Manager)

Spec     == Init /\ [][Next]_vars
LiveSpec == Spec /\ Fairness

-----------------------------------------------------------------------------
(* The states of the threads; the commands' channel stays within its       *)
(* capacity.                                                               *)
TypeOK ==
  /\ exit \in BOOLEAN
  /\ broken \in BOOLEAN
  /\ gen \in Gens
  /\ up \in [Gens -> BOOLEAN]
  /\ chan \in [Gens -> 0 .. Chan]
  /\ pinged \in [Gens -> BOOLEAN]
  /\ wl \in [Gens -> {"none", "run", "done"}]
  /\ rl \in [Gens -> {"none", "run", "reply", "done", "panicked"}]
  /\ joiner \in [Gens -> {"none", "joining", "done", "panicked"}]
  /\ watcher \in [Gens -> {"none", "start", "wait", "woken", "done"}]
  /\ manager \in {"start", "wait", "woken", "connect", "backoff",
                  "backoff_woken", "done", "panicked"}

(* One connection at a time: a new connection to the server is started     *)
(* only when both loops of the one before have ended, so the identity is   *)
(* never announced on two sockets.                                         *)
OneConnection ==
  \A g, h \in Gens :
    /\ wl[g] = "run" \/ rl[g] \in {"run", "reply"}
    /\ wl[h] = "run" \/ rl[h] \in {"run", "reply"}
    => g = h

(* A shutdown() that returns - it panics, and sets nothing, on a poisoned  *)
(* signal - stops the thread of listen(), whatever it was doing (about to  *)
(* wait, reconnecting, backing off), and the loops of every connection,    *)
(* except those of a connection whose watcher, which waits only once, was  *)
(* woken up before without cause.                                          *)
ShutdownStops ==
  exit ~> /\ manager = "done"
          /\ \A g \in Gens :
               \/ wl[g] # "run" /\ rl[g] \notin {"run", "reply"}
               \/ watcher[g] = "done" /\ up[g]

(* client.rs: "if connection with server broken it will auto reconnect".   *)
(* A broken connection is followed by an attempt to reconnect, or exit.    *)
AutoReconnect ==
  \A g \in Gens :
    g = gen /\ ~up[g] ~> exit \/ gen > g \/ manager = "connect"

=============================================================================

--------------------------- MODULE MCUdpRendezvous ---------------------------
(* Instance of UdpRendezvous for TLC: one address for the listener a, two  *)
(* for the connector b, which may be exchanged.                            *)
EXTENDS UdpRendezvous, TLC

CONSTANTS a, b, a1, b1, b2, o

OwnerDef == [x \in {a1, b1, b2} |-> IF x = a1 THEN a ELSE b]

(* What decides how a behaviour goes on: all but the history variables,    *)
(* the flags of threads that have ended and the rounds of calls that are   *)
(* over.                                                                   *)
WithoutHistory ==
  <<clients, next_gc, now, waiting, net, mail,
    thread, owes, heard, phase, target, result,
    [x \in Listening |-> IF thread[x] = "done" THEN <<>>
                         ELSE <<exit[x], deaf[x]>>],
    [x \in Connecting |-> IF phase[x] \in {"returned", "error"} THEN <<>>
                          ELSE <<round[x], failed[x]>>]>>

AddrSymmetry == Permutations({b1, b2})
=============================================================================

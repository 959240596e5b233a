----------------------------- MODULE Rendezvous -----------------------------
(***************************************************************************)
(* What users of the library can rely on, whatever the transport ("How     *)
(* rndz works" in src/src/lib.rs): a call of connect() asks for a peer,    *)
(* that peer sets out to send a packet to where the call comes from, so    *)
(* that its firewall lets the caller in, and the call goes on to a peer    *)
(* that has done so, or fails.                                             *)
(*                                                                         *)
(* There are no servers, messages, connections or threads here.            *)
(* TcpRendezvous and UdpRendezvous implement this specification.  It is    *)
(* weaker than lib.rs in two ways, and has to be, because the code is: the *)
(* attempt to send the packet is promised, not that it succeeds or is      *)
(* over; and a call may go on to a peer that has answered an earlier call  *)
(* of the same identity, which came from another address.                  *)
(***************************************************************************)
CONSTANTS
  Calls,   \* the calls of connect(); each comes from an address of its own
  Peers,   \* identities
  NoPeer   \* no identity

VARIABLES
  state,     \* call -> "idle", "asking", "connected" or "failed"
  caller,    \* call -> the identity that connects
  wanted,    \* call -> the identity it asks for
  answered,  \* <<l, c>>: l has set out to send a packet to where c comes from
  partner    \* call -> the identity its socket is connected to

vars == <<state, caller, wanted, answered, partner>>

Init ==
  /\ state = [c \in Calls |-> "idle"]
  /\ caller = [c \in Calls |-> NoPeer]
  /\ wanted = [c \in Calls |-> NoPeer]
  /\ answered = {}
  /\ partner = [c \in Calls |-> NoPeer]

(* p calls connect(l).                                                     *)
Ask(c, p, l) ==
  /\ state[c] = "idle"
  /\ state' = [state EXCEPT ![c] = "asking"]
  /\ caller' = [caller EXCEPT ![c] = p]
  /\ wanted' = [wanted EXCEPT ![c] = l]
  /\ UNCHANGED <<answered, partner>>

(* l answers a call that asks for it, also one that is over by now; nobody *)
(* else does.                                                              *)
Answer(l, c) ==
  /\ state[c] # "idle" /\ wanted[c] = l
  /\ <<l, c>> \notin answered
  /\ answered' = answered \cup {<<l, c>>}
  /\ UNCHANGED <<state, caller, wanted, partner>>

(* connect() goes on to an address of l, which has answered a call of the  *)
(* caller: this one or an earlier one.                                     *)
Connect(c, l) ==
  /\ state[c] = "asking"
  /\ \E d \in Calls : caller[d] = caller[c] /\ <<l, d>> \in answered
  /\ state' = [state EXCEPT ![c] = "connected"]
  /\ partner' = [partner EXCEPT ![c] = l]
  /\ UNCHANGED <<caller, wanted, answered>>

(* connect() returns an error, or its process dies.                        *)
Fail(c) ==
  /\ state[c] = "asking"
  /\ state' = [state EXCEPT ![c] = "failed"]
  /\ UNCHANGED <<caller, wanted, answered, partner>>

Next ==
  \E c \in Calls :
    \/ Fail(c)
    \/ \E l \in Peers :
         Answer(l, c) \/ Connect(c, l) \/ \E p \in Peers : Ask(c, p, l)

Spec == Init /\ [][Next]_vars

=============================================================================

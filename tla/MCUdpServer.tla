---------------------------- MODULE MCUdpServer ----------------------------
(* Instance of UdpServer for TLC: identity a has two addresses.            *)
EXTENDS UdpServer

CONSTANTS a, b, a1, a2, b1

OwnerDef == [x \in {a1, a2, b1} |-> IF x = b1 THEN b ELSE a]
=============================================================================

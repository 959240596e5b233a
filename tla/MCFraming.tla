----------------------------- MODULE MCFraming -----------------------------
(* Instance of Framing for TLC.  Bytes have the 104 values that the tags   *)
(* need; lengths wrap around at 200.  Strings consist of the byte that     *)
(* looks like the tag of an id.                                            *)
EXTENDS Framing

Text(n) == [k \in 1 .. n |-> Tag(1)]

(* Short identities; around the length that takes two bytes; too long for  *)
(* the server; and such that the length of an Isync or a Ping wraps around *)
(* to nothing, to the middle or the end of the id of the sender, into the  *)
(* nested message, or does not quite.                                      *)
StringsDef ==
  {Text(n) : n \in {0, 1, 36, 48, 49, 50, 101}} \cup
  {Text(Wrap - n) : n \in {3, 6, 8, 9}}

AddrDef == Text(9)
=============================================================================

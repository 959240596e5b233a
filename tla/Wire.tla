-------------------------------- MODULE Wire --------------------------------
(***************************************************************************)
(* The encoding of the messages (src/src/proto/rndz.rs).  The generated    *)
(* code has, for every message, the same merge_from, compute_size and      *)
(* write_to_with_cached_sizes, which differ in the fields they know: so a  *)
(* message type is given here by its fields, and the three functions are   *)
(* operators on field tables.                                              *)
(*                                                                         *)
(* A string is a sequence of bytes; strings and nested messages are the    *)
(* only field types, so all fields are length-delimited.                   *)
(***************************************************************************)
EXTENDS Naturals, Sequences, FiniteSetsExt

CONSTANT Base  \* the number of values of a byte, 256

Bytes == 0 .. Base - 1
Digit == Base \div 2

(* The byte before field number f: 10, 18, 26, 34, 42, 50.                 *)
Tag(f) == 8 * f + 2

ASSUME WireAssumption == Base \in Nat /\ Base % 2 = 0 /\ Tag(6) < Digit

(* The strings inside a command: its field 1 is an id, field 2 an address. *)
Ping     == {}
Isync    == {1}
Fsync    == {1, 2}
Rsync    == {1}
Bye      == {}
Pong     == {}
Redirect == {1, 2}

(* The two messages: field 1 is the id, the commands are a oneof.          *)
Field(n, F) == [num |-> n, fields |-> F]

Request ==
  [Ping |-> Field(2, Ping), Isync |-> Field(3, Isync),
   Fsync |-> Field(4, Fsync), Rsync |-> Field(5, Rsync), Bye |-> Field(6, Bye)]

Response ==
  [Pong |-> Field(2, Pong), Redirect |-> Field(3, Redirect),
   Fsync |-> Field(4, Fsync)]

(* A message: its id, its command ("None" if there is none) and the        *)
(* strings of that command, the empty string where it has none.            *)
Message(id, cmd, s, addr) == [id |-> id, cmd |-> cmd, args |-> <<s, addr>>]

Invalid == Message(<<>>, "Invalid", <<>>, <<>>)

-----------------------------------------------------------------------------
(* compute_size.                                                           *)

VarintSize[n \in Nat] == IF n < Digit THEN 1 ELSE 1 + VarintSize[n \div Digit]

DelimitedSize(n) == 1 + VarintSize[n] + n
StringSize(s) == IF s = <<>> THEN 0 ELSE DelimitedSize(Len(s))

(* Mutant: the length of the address is forgotten.                         *)
ArgsSizeIdOnly(F, args) == IF 1 \in F THEN StringSize(args[1]) ELSE 0

ArgsSize(F, args) ==
  (IF 1 \in F THEN StringSize(args[1]) ELSE 0) +
  (IF 2 \in F THEN StringSize(args[2]) ELSE 0)

Size(T, m) ==
  StringSize(m.id) +
  IF m.cmd = "None" THEN 0
  ELSE DelimitedSize(ArgsSize(T[m.cmd].fields, m.args))

-----------------------------------------------------------------------------
(* write_to_with_cached_sizes: empty strings are not written; the length   *)
(* of a nested message is the one compute_size found.                      *)

Varint[n \in Nat] ==
  IF n < Digit THEN <<n>> ELSE <<Digit + (n % Digit)>> \o Varint[n \div Digit]

WriteString(f, s) ==
  IF s = <<>> THEN <<>> ELSE <<Tag(f)>> \o Varint[Len(s)] \o s

WriteArgs(F, args) ==
  (IF 1 \in F THEN WriteString(1, args[1]) ELSE <<>>) \o
  (IF 2 \in F THEN WriteString(2, args[2]) ELSE <<>>)

Write(T, m) ==
  WriteString(1, m.id) \o
  IF m.cmd = "None" THEN <<>>
  ELSE LET F == T[m.cmd].fields IN
       <<Tag(T[m.cmd].num)>> \o Varint[ArgsSize(F, m.args)] \o
       WriteArgs(F, m.args)

-----------------------------------------------------------------------------
(* merge_from.                                                             *)

(* Where the varint at the front of b ends: no place if b is cut short.    *)
VarintEnds(b) ==
  {k \in 1 .. Len(b) : b[k] < Digit /\ \A j \in 1 .. k - 1 : b[j] >= Digit}

VarintValue[b \in Seq(Bytes)] ==
  IF b = <<>> THEN 0 ELSE (b[1] % Digit) + Digit * VarintValue[Tail(b)]

Broken == [tag |-> 0, data |-> <<>>]

(* The fields of b, in order; the last one is Broken when a length is      *)
(* incomplete or more than what is left, which makes the parser fail.      *)
Fields[b \in Seq(Bytes)] ==
  LET head == SubSeq(b, 2, IF Len(b) < 11 THEN Len(b) ELSE 11)
      ends == VarintEnds(head)
      k    == CHOOSE j \in ends : TRUE
      from == k + 2
      upto == k + 1 + VarintValue[SubSeq(head, 1, k)]
  IN  IF b = <<>> THEN <<>>
      ELSE IF ends = {} \/ b[1] % 8 # 2 \/ upto > Len(b) THEN <<Broken>>
      ELSE <<[tag |-> b[1], data |-> SubSeq(b, from, upto)]>> \o
           Fields[SubSeq(b, upto + 1, Len(b))]

WellFormed(fs) == \A k \in DOMAIN fs : fs[k] # Broken

(* A field that comes twice has its last value; one that does not come is  *)
(* empty; unknown fields are skipped.                                      *)
LastWith(fs, t) ==
  LET at == {k \in DOMAIN fs : fs[k].tag = t}
  IN  IF at = {} THEN <<>> ELSE fs[Max(at)].data

ReadArgs(F, b) ==
  [f \in {1, 2} |-> IF f \in F THEN LastWith(Fields[b], Tag(f)) ELSE <<>>]

(* parse_from_bytes: merge_from on an empty message.  Of several commands  *)
(* the last one is kept.                                                   *)
Parse(T, b) ==
  LET fs == Fields[b]
      at == {k \in DOMAIN fs : \E c \in DOMAIN T : fs[k].tag = Tag(T[c].num)}
      c  == CHOOSE c \in DOMAIN T : fs[Max(at)].tag = Tag(T[c].num)
  IN  IF ~ WellFormed(fs) \/ \E k \in at : ~ WellFormed(Fields[fs[k].data])
      THEN Invalid
      ELSE [id   |-> LastWith(fs, Tag(1)),
            cmd  |-> IF at = {} THEN "None" ELSE c,
            args |-> IF at = {} THEN ReadArgs({}, <<>>)
                     ELSE ReadArgs(T[c].fields, fs[Max(at)].data)]

=============================================================================

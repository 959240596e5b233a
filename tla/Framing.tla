------------------------------ MODULE Framing ------------------------------
(***************************************************************************)
(* How messages travel: over TCP every message is preceded by its length,  *)
(* two bytes, and the reader takes exactly that many; a UDP datagram is    *)
(* read into a buffer of 1500 bytes, and what is longer is cut off.        *)
(*                                                                         *)
(* Requests go up a stream, from a client (write_req) to the server        *)
(* (read_req), and the responses they lead to go down a stream, to the     *)
(* client they are for (send_response, read_resp).  That may be another    *)
(* client than the one that asked; its connection is not told apart here.  *)
(* A writer may die, or be dropped with its task, in the middle of a       *)
(* message.  Identities are strings of the user's choice, of any length.   *)
(***************************************************************************)
EXTENDS Wire

CONSTANTS
  Wrap,     \* the lengths that two bytes can hold, 65536
  MaxMsg,   \* the longest message the server reads, 1500
  Strings,  \* identities
  Addr,     \* the text of an address
  MaxSent,  \* bound: requests written to the stream
  MaxCut    \* bound: a writer that dies has written less than MaxCut bytes

(* A message that begins with a tag is not a length the server accepts:    *)
(* 10 * 256 > 1500.  A length has room for what the server accepts and an  *)
(* address: 1500 and some are less than 65536.                             *)
ASSUME FramingAssumption ==
  /\ Wrap \in 1 .. Base * Base
  /\ MaxMsg \in 1 .. Wrap - 1 /\ MaxSent \in Nat /\ MaxCut \in Nat
  /\ Strings \subseteq Seq(Bytes) /\ Addr \in Seq(Bytes) \ {<<>>}
  /\ Tag(1) * Base > MaxMsg
  /\ DelimitedSize(MaxMsg + StringSize(Addr)) < Wrap

Dirs  == {"up", "down"}
Table == [up |-> Request, down |-> Response]

VARIABLES
  transport, \* "tcp" or "udp"
  me,        \* the identity of the client that writes requests
  sent,      \* direction -> the messages written (history)
  stream,    \* direction -> bytes written and not read
  open,      \* direction -> the writer still has the connection
  got,       \* direction -> the messages the reader has returned (history)
  reading,   \* direction -> the reader still reads
  answered,  \* requests handled
  dgram      \* direction -> the last datagram sent, and what was made of it

vars == <<transport, me, sent, stream, open, got, reading, answered, dgram>>

NoDatagram == [sent |-> Invalid, got |-> Invalid]

Init ==
  /\ transport \in {"tcp", "udp"}
  /\ me \in Strings
  /\ sent = [d \in Dirs |-> <<>>] /\ got = [d \in Dirs |-> <<>>]
  /\ stream = [d \in Dirs |-> <<>>]
  /\ open = [d \in Dirs |-> TRUE] /\ reading = [d \in Dirs |-> TRUE]
  /\ answered = 0
  /\ dgram = [d \in Dirs |-> NoDatagram]

-----------------------------------------------------------------------------
(* Writing.                                                                *)

(* The requests of a client of identity i; a response to request m, with   *)
(* id when it is sent by the UDP server.                                   *)
Requests(i) ==
  {Message(i, "Ping", <<>>, <<>>)} \cup
  {Message(i, c, s, <<>>) : c \in {"Isync", "Rsync"}, s \in Strings}

Responses(m) ==
  CASE m.cmd = "Ping" -> {Message(m.id, "Pong", <<>>, <<>>)}
    [] m.cmd = "Isync" -> {Message(m.id, "Redirect", m.args[1], <<>>),
                           Message(m.args[1], "Fsync", m.id, Addr)}
    [] m.cmd = "Rsync" -> {Message(m.args[1], "Redirect", m.id, Addr)}
    [] OTHER -> {}

(* Mutant: the whole length goes to the second byte.                       *)
FrameUnsplit(b) == <<0, Len(b) % Wrap>> \o b

(* The length `as u16', then the message.                                  *)
Frame(b) == LET n == Len(b) % Wrap IN <<n \div Base, n % Base>> \o b

(* The whole message is written, or the writer dies having written only    *)
(* the first k bytes of it.                                                *)
WriteTo(d, m) ==
  LET f == Frame(Write(Table[d], m)) IN
  /\ open[d]
  /\ sent' = [sent EXCEPT ![d] = Append(@, m)]
  /\ \/ stream' = [stream EXCEPT ![d] = @ \o f] /\ UNCHANGED open
     \/ /\ \E k \in 0 .. Min({MaxCut, Len(f)}) - 1 :
             stream' = [stream EXCEPT ![d] = @ \o SubSeq(f, 1, k)]
        /\ open' = [open EXCEPT ![d] = FALSE]

(* write_req.                                                              *)
WriteReq(m) ==
  /\ transport = "tcp" /\ Len(sent["up"]) < MaxSent
  /\ WriteTo("up", m)
  /\ UNCHANGED <<transport, me, got, reading, answered, dgram>>

(* handle_cmds takes the next request: it leads to a response, or to none. *)
(* A request without command ends the connection.                          *)
Handle ==
  /\ reading["up"] /\ answered < Len(got["up"])
  /\ answered' = answered + 1
  /\ LET m == got["up"][answered + 1] IN
     \/ \E r \in Responses(m) : WriteTo("down", [r EXCEPT !.id = <<>>])
     \/ m.cmd # "None" /\ UNCHANGED <<sent, stream, open>>
  /\ UNCHANGED <<transport, me, got, reading, dgram>>

HandlerEnds ==
  /\ reading["up"] /\ answered < Len(got["up"])
  /\ got["up"][answered + 1].cmd = "None"
  /\ reading' = [reading EXCEPT !["up"] = FALSE]
  /\ open' = [open EXCEPT !["down"] = FALSE]
  /\ UNCHANGED <<transport, me, sent, stream, got, answered, dgram>>

-----------------------------------------------------------------------------
(* Reading.                                                                *)

(* The first two bytes.                                                    *)
Length(b) == b[1] * Base + b[2]

(* Mutants: the server takes any length; it takes one more.                *)
TooLongNever(d, n) == FALSE
TooLongOffByOne(d, n) == d = "up" /\ n > MaxMsg + 1

TooLong(d, n) == d = "up" /\ n > MaxMsg

(* Mutant: read instead of read_exact.                                     *)
WholeAny(d) ==
  Len(stream[d]) >= 2 /\ ~ TooLong(d, Length(stream[d]))

(* A message has arrived that the reader takes.                            *)
Whole(d) ==
  LET b == stream[d] IN
  Len(b) >= 2 /\ ~ TooLong(d, Length(b)) /\ Len(b) >= 2 + Length(b)

Body(d) ==
  LET b == stream[d] IN SubSeq(b, 3, Min({Len(b), 2 + Length(b)}))

(* read_req and read_resp return a message.                                *)
Read(d) ==
  /\ reading[d] /\ Whole(d) /\ Parse(Table[d], Body(d)) # Invalid
  /\ got' = [got EXCEPT ![d] = Append(@, Parse(Table[d], Body(d)))]
  /\ stream' = [stream EXCEPT ![d] =
                  SubSeq(@, 3 + Length(@), Len(@))]
  /\ UNCHANGED <<transport, me, sent, open, reading, answered, dgram>>

(* They fail: the message is too long, or invalid, or the writer is gone.  *)
(* The end of read_reqs is the end of the task, which closes its socket.   *)
ReadFails(d) ==
  /\ reading[d]
  /\ LET b == stream[d] IN
     \/ Len(b) >= 2 /\ TooLong(d, Length(b))
     \/ Whole(d) /\ Parse(Table[d], Body(d)) = Invalid
     \/ ~ Whole(d) /\ ~ open[d]
  /\ reading' = [reading EXCEPT ![d] = FALSE]
  /\ open' = IF d = "up" THEN [open EXCEPT !["down"] = FALSE] ELSE open
  /\ UNCHANGED <<transport, me, sent, stream, got, answered, dgram>>

-----------------------------------------------------------------------------
(* UDP.                                                                    *)

(* Mutant: a buffer that is too small by an address.                       *)
ReceivedShort(d, m) ==
  LET b == Write(Table[d], m)
  IN  Parse(Table[d], SubSeq(b, 1, Min({Len(b), MaxMsg - Len(Addr)})))

Received(d, m) ==
  LET b == Write(Table[d], m)
  IN  Parse(Table[d], SubSeq(b, 1, Min({Len(b), MaxMsg})))

Datagram(d, m) ==
  /\ transport = "udp" /\ dgram[d] = NoDatagram
  /\ dgram' = [dgram EXCEPT ![d] = [sent |-> m, got |-> Received(d, m)]]
  /\ UNCHANGED <<transport, me, sent, stream, open, got, reading, answered>>

(* A client sends a request; the server responds to what it received.  (No *)
(* client comes to send a Bye: the Listener has given its sockets away.)   *)
SendCmd == \E m \in Requests(me) : Datagram("up", m)

SendResponse == \E r \in Responses(dgram["up"].got) : Datagram("down", r)

-----------------------------------------------------------------------------
Next ==
  \/ \E m \in Requests(me) : WriteReq(m)
  \/ Handle \/ HandlerEnds
  \/ \E d \in Dirs : Read(d) \/ ReadFails(d)
  \/ SendCmd \/ SendResponse

Spec == Init /\ [][Next]_vars

-----------------------------------------------------------------------------
(* The values of the variables; the streams hold bytes.                    *)
TypeOK ==
  /\ transport \in {"tcp", "udp"} /\ me \in Strings
  /\ stream \in [Dirs -> Seq(Bytes)]
  /\ open \in [Dirs -> BOOLEAN] /\ reading \in [Dirs -> BOOLEAN]
  /\ answered \in 0 .. Len(got["up"])

(* Nothing is misread.  What a reader returns are the messages written, in *)
(* that order, although a writer may die anywhere, and although an         *)
(* identity may be so long that the length of its message wraps around.    *)
(* Such a message is refused, or its beginning is taken for a message      *)
(* without command, and then nothing is read after it: the bytes that      *)
(* follow begin with a tag, and no tag is the first byte of a length the   *)
(* server accepts.                                                         *)
NeverMisread ==
  \A d \in Dirs : \A k \in DOMAIN got[d] :
    \/ got[d][k] = sent[d][k]
    \/ /\ Size(Table[d], sent[d][k]) >= Wrap
       /\ got[d][k].cmd = "None" /\ k = Len(got[d])

(* No message that fits is refused: a reader gives up only when its writer *)
(* is gone or has written a request of more than MaxMsg bytes.  All        *)
(* responses fit, because the requests they come from did.                 *)
FittingAccepted ==
  /\ reading["down"] \/ ~ open["down"]
  /\ \/ reading["up"] \/ ~ open["up"]
     \/ \E k \in DOMAIN sent["up"] : Size(Request, sent["up"][k]) > MaxMsg

(* No reader waits for bytes that nobody writes: while the writers write   *)
(* whole messages, a reader that has bytes to read either returns a        *)
(* message or fails.                                                       *)
NeverStarves ==
  \A d \in Dirs :
    open[d] /\ reading[d] /\ stream[d] # <<>> =>
      Whole(d) \/ TooLong(d, Length(stream[d]))

(* A peer that could ask can be answered.  The Rsync with which the target *)
(* answers an Isync that the server has accepted is accepted too; it holds *)
(* the same two identities, in each other's place.  Only an Isync of       *)
(* exactly MaxMsg bytes may have an answer one byte too long, when the     *)
(* length of the nested message needs one byte more.                       *)
AnswerAccepted ==
  \A k \in DOMAIN got["up"] :
    LET m == got["up"][k] IN
    m.cmd = "Isync" =>
      Size(Request, Message(m.args[1], "Rsync", m.id, <<>>)) <=
        MaxMsg + IF Size(Request, m) < MaxMsg THEN 0 ELSE 1

(* A datagram is received as it was sent, or not at all (or without its    *)
(* command, which both ends ignore), and the response to a request that    *)
(* leaves room for an address in MaxMsg bytes is received.                 *)
DatagramReceived ==
  \A d \in Dirs :
    /\ dgram[d].got \in {Invalid, dgram[d].sent} \/ dgram[d].got.cmd = "None"
    /\ dgram["down"] # NoDatagram /\
         Size(Request, dgram["up"].got) + StringSize(Addr) < MaxMsg
       => dgram["down"].got = dgram["down"].sent

=============================================================================

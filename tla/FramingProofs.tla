--------------------------- MODULE FramingProofs ---------------------------
(***************************************************************************)
(* The streams and the datagrams of Framing: its invariants hold for any   *)
(* number of requests and identities of any length.                        *)
(*                                                                         *)
(* The inductive invariant Streams says of each direction (Channel) what   *)
(* its stream holds: everything written in one long sequence of bytes, in  *)
(* which every message has its place, cut off at the place where the       *)
(* reader is (Layout, Flow); or the server is astray.  Datagrams is the    *)
(* invariant of the datagrams.                                             *)
(***************************************************************************)
EXTENDS Framing, WireProofs

-----------------------------------------------------------------------------
(* The constants.                                                          *)

(* What the assumptions say of the constants.                              *)
LEMMA ConstantFacts ==
  /\ Base \in Nat /\ Base > 100 /\ Base * Base \in Nat
  /\ Wrap \in Nat /\ Wrap > 1 /\ Wrap <= Base * Base
  /\ MaxMsg \in Nat /\ MaxMsg >= 1 /\ MaxMsg < Wrap
  /\ Strings \subseteq Seq(Bytes)
  /\ Addr \in Seq(Bytes) /\ StringSize(Addr) \in Nat
<1>1. Base \in Nat /\ Base > 100
  BY DigitProperties
<1>2. Base * Base \in Nat
  BY <1>1
<1>3. Wrap \in Nat /\ Wrap <= Base * Base /\ MaxMsg \in Nat /\ MaxMsg >= 1 /\ MaxMsg < Wrap
  BY <1>2, FramingAssumption
<1>4. Strings \subseteq Seq(Bytes) /\ Addr \in Seq(Bytes)
  BY FramingAssumption
<1>5. 1 \in 1 .. 6
  OBVIOUS
<1>6. StringSize(Addr) \in Nat
  BY <1>4, <1>5, WriteStringProperties
<1> QED
  BY <1>1, <1>2, <1>3, <1>4, <1>6

(* The length of what the server reads is a varint of at most two bytes.   *)
LEMMA MaxMsgSmall == MaxMsg < Digit * Digit
<1>1. Tag(1) * Base = 20 * Digit /\ Digit \in Nat /\ Digit > 50
  BY DigitProperties DEF Tag
<1>2. MaxMsg \in Nat /\ MaxMsg < 20 * Digit
  BY <1>1, FramingAssumption, ConstantFacts
<1>3. PICK e \in Nat : Digit = 20 + e
  <2>1. Digit - 20 \in Nat /\ Digit = 20 + (Digit - 20)
    BY <1>1
  <2> QED
    BY <2>1
<1>4. PICK D \in Nat : D = Digit
  BY <1>1
<1>5. D * D = 20 * D + e * D /\ e * D \in Nat /\ D * D \in Nat
  BY <1>3, <1>4
<1> QED
  BY <1>2, <1>4, <1>5

(* The message types of the two directions.                                *)
LEMMA TableFacts ==
  /\ Table["up"] = Request /\ Table["down"] = Response
  /\ \A d \in Dirs : IsTable(Table[d])
  /\ Dirs = {"up", "down"}
BY TablesOK DEF Table, Dirs

-----------------------------------------------------------------------------
(* Frames.                                                                 *)

(* f is m with its length in front, by the places of the bytes.            *)
IsFrame(f, T, m) ==
  /\ f \in Seq(Bytes) /\ Len(f) = 2 + Size(T, m)
  /\ f[1] * Base + f[2] = Size(T, m) % Wrap
  /\ \A k \in 1 .. Size(T, m) : f[2 + k] = Write(T, m)[k]

(* That is what Frame makes.                                               *)
LEMMA FrameProperties ==
  ASSUME NEW T, IsTable(T), NEW m \in Messages(T)
  PROVE  IsFrame(Frame(Write(T, m)), T, m)
<1>1. PICK w : w = Write(T, m)
  OBVIOUS
<1>2. w \in Seq(Bytes) /\ Len(w) = Size(T, m) /\ Size(T, m) \in Nat
  BY <1>1, WriteProperties DEF IsConcat
<1>3. PICK n : n = Size(T, m) % Wrap
  OBVIOUS
<1>4. n \in 0 .. Wrap - 1
  BY <1>2, <1>3, ConstantFacts, Division
<1>5. n \in Nat /\ n < Base * Base
  BY <1>4, ConstantFacts
<1>6. PICK q, r : q = n \div Base /\ r = n % Base
  OBVIOUS
<1>7. q \in Nat /\ r \in 0 .. Base - 1 /\ n = Base * q + r
  <2>1. Base \in Nat /\ Base > 1
    BY ConstantFacts
  <2>2. /\ n \div Base \in Nat /\ n % Base \in 0 .. Base - 1
        /\ n = Base * (n \div Base) + (n % Base)
    BY <2>1, <1>5, Division
  <2> QED
    BY <2>2, <1>6
<1>8. q < Base
  BY <1>5, <1>6, ConstantFacts, Quotient
<1>9. q \in Bytes /\ r \in Bytes
  BY <1>7, <1>8, ConstantFacts DEF Bytes
<1>10. PICK h : h = <<q, r>>
  OBVIOUS
<1>11. h \in Seq(Bytes) /\ Len(h) = 2 /\ h[1] = q /\ h[2] = r
  BY <1>9, <1>10
<1>12. PICK f : f = h \o w
  OBVIOUS
<1>13. IsConcat(f, h, w)
  BY <1>2, <1>11, <1>12, ConcatBytes
<1>14. /\ f \in Seq(Bytes) /\ Len(f) = 2 + Size(T, m)
       /\ \A k \in 1 .. 2 : f[k] = h[k]
       /\ \A k \in 1 .. Size(T, m) : f[2 + k] = w[k]
  BY <1>2, <1>11, <1>13 DEF IsConcat
<1>15. f[1] * Base + f[2] = n
  <2>1. f[1] = q /\ f[2] = r
    BY <1>11, <1>14
  <2>2. q * Base = Base * q
    BY <1>7, ConstantFacts
  <2> QED
    BY <2>1, <2>2, <1>7
<1>16. Frame(w) = f
  BY <1>2, <1>3, <1>6, <1>10, <1>12 DEF Frame
<1> QED
  BY <1>1, <1>3, <1>14, <1>15, <1>16 DEF IsFrame

(* b begins with the frame of m, as far as the one and the other go.       *)
StartsFrame(b, T, m) ==
  b \in Seq(Bytes) /\
  \A k \in 1 .. Len(b) : k <= 2 + Size(T, m) => b[k] = Frame(Write(T, m))[k]

(* What may be left in the stream when the beginning of a message was      *)
(* taken for a message: a tag comes first.                                 *)
TagFirst(c) == c \in Seq(Bytes) /\ (c # <<>> => c[1] >= Tag(1))

(* The length that the reader takes from the first two bytes.              *)
LEMMA FrameLength ==
  ASSUME NEW T, IsTable(T), NEW m \in Messages(T), NEW b,
         StartsFrame(b, T, m), Len(b) >= 2
  PROVE  /\ Len(b) \in Nat /\ Size(T, m) \in Nat
         /\ Length(b) = Size(T, m) % Wrap /\ Length(b) \in 0 .. Wrap - 1
         /\ Size(T, m) < Wrap => Length(b) = Size(T, m)
<1>1. PICK f : f = Frame(Write(T, m))
  OBVIOUS
<1>2. IsFrame(f, T, m) /\ Size(T, m) \in Nat
  BY <1>1, FrameProperties, WriteProperties
<1>3. b \in Seq(Bytes)
  BY DEF StartsFrame
<1>4. Len(b) \in Nat
  BY <1>3, LenProperties
<1>5. b[1] = f[1] /\ b[2] = f[2]
  BY <1>1, <1>2, <1>4 DEF StartsFrame
<1>6. Length(b) = Size(T, m) % Wrap
  BY <1>2, <1>5 DEF Length, IsFrame
<1>7. Wrap \in Nat /\ Wrap > 1
  BY ConstantFacts
<1>8. Size(T, m) % Wrap \in 0 .. Wrap - 1
  BY <1>2, <1>7, Division
<1>9. ASSUME Size(T, m) < Wrap PROVE Size(T, m) % Wrap = Size(T, m)
  BY <1>2, <1>7, <1>9
<1> QED
  BY <1>2, <1>4, <1>6, <1>8, <1>9

(* The reader takes n bytes after the length.  They are the beginning of   *)
(* the message that was written.                                           *)
LEMMA TakenBegins ==
  ASSUME NEW T, IsTable(T), NEW m \in Messages(T), NEW b,
         StartsFrame(b, T, m), NEW n \in Nat, n <= Size(T, m), Len(b) >= 2 + n
  PROVE  /\ Begins(SubSeq(b, 3, 2 + n), Write(T, m))
         /\ Len(SubSeq(b, 3, 2 + n)) = n
<1>1. PICK w, f, p : /\ w = Write(T, m) /\ f = Frame(w)
                     /\ p = SubSeq(b, 3, 2 + n)
  OBVIOUS
<1>2. IsFrame(f, T, m) /\ Size(T, m) \in Nat /\ Len(w) = Size(T, m)
  BY <1>1, FrameProperties, WriteProperties
<1>3. b \in Seq(Bytes)
  BY DEF StartsFrame
<1>4. Len(b) \in Nat
  BY <1>3, LenProperties
<1>5. IsSlice(p, b, 2, n)
  <2>1. 2 \in Nat /\ 2 + n <= Len(b) /\ 2 + 1 = 3
    BY <1>4
  <2>2. IsSlice(SubSeq(b, 2 + 1, 2 + n), b, 2, n)
    BY <2>1, <1>3, SliceOf
  <2> QED
    BY <2>1, <2>2, <1>1
<1>6. p \in Seq(Bytes) /\ Len(p) = n /\ \A k \in 1 .. n : p[k] = b[2 + k]
  BY <1>5 DEF IsSlice
<1>7. ASSUME NEW k \in 1 .. n PROVE p[k] = w[k]
  <2>1. 2 + k \in 1 .. Len(b) /\ 2 + k <= 2 + Size(T, m) /\ k \in 1 .. Size(T, m)
    BY <1>2, <1>4
  <2>2. b[2 + k] = f[2 + k]
    BY <2>1, <1>1 DEF StartsFrame
  <2>3. f[2 + k] = w[k]
    BY <2>1, <1>1, <1>2 DEF IsFrame
  <2> QED
    BY <2>2, <2>3, <1>6
<1>8. Begins(p, w)
  BY <1>2, <1>6, <1>7 DEF Begins
<1> QED
  BY <1>1, <1>6, <1>8

(* A message whose length fits is read as it was written.                  *)
LEMMA ReadWhole ==
  ASSUME NEW T, IsTable(T), NEW m \in Messages(T), NEW b, StartsFrame(b, T, m),
         Size(T, m) < Wrap, Len(b) >= 2 + Size(T, m)
  PROVE  Parse(T, SubSeq(b, 3, 2 + Size(T, m))) = m
<1>1. PICK p, w : p = SubSeq(b, 3, 2 + Size(T, m)) /\ w = Write(T, m)
  OBVIOUS
<1>2. /\ Size(T, m) \in Nat /\ Len(w) = Size(T, m) /\ w \in Seq(Bytes)
  BY <1>1, WriteProperties DEF IsConcat
<1>3. Begins(p, w) /\ Len(p) = Size(T, m)
  <2>1. Size(T, m) <= Size(T, m)
    BY <1>2
  <2> QED
    BY <2>1, <1>1, <1>2, TakenBegins
<1>4. p = w
  BY <1>2, <1>3, SeqEqual DEF Begins
<1>5. Size(T, m) < Base * Base
  BY <1>2, ConstantFacts
<1> QED
  BY <1>1, <1>4, <1>5, ParseWrite

(* Of a message whose length wrapped around only the beginning is taken.   *)
LEMMA ReadWrapped ==
  ASSUME NEW T, IsTable(T), NEW m \in Messages(T), NEW b, StartsFrame(b, T, m),
         Size(T, m) >= Wrap, NEW n \in Nat, n < Wrap, Len(b) >= 2 + n
  PROVE  \/ Parse(T, SubSeq(b, 3, 2 + n)) = Invalid
         \/ /\ Parse(T, SubSeq(b, 3, 2 + n)) \in Nones
            /\ TagFirst(SubSeq(b, 3 + n, Len(b)))
            /\ Len(b) >= 2 + Size(T, m) => Len(SubSeq(b, 3 + n, Len(b))) >= 2
<1>1. PICK p, w, c : /\ p = SubSeq(b, 3, 2 + n) /\ w = Write(T, m)
                     /\ c = SubSeq(b, 3 + n, Len(b))
  OBVIOUS
<1>2. /\ Size(T, m) \in Nat /\ Len(w) = Size(T, m)
      /\ b \in Seq(Bytes)
  BY <1>1, WriteProperties DEF StartsFrame
<1>3. Len(b) \in Nat
  BY <1>2, LenProperties
<1>4. n < Size(T, m) /\ n < Base * Base
  BY <1>2, ConstantFacts
<1>5. Begins(p, w) /\ Len(p) = n
  <2>1. n <= Size(T, m)
    BY <1>2, <1>4
  <2> QED
    BY <2>1, <1>1, TakenBegins
<1>6. \/ Parse(T, p) = Invalid
      \/ Parse(T, p) \in Nones /\ AtTag(w, n)
  BY <1>1, <1>4, <1>5, ParseCut
<1>7. ASSUME AtTag(w, n)
      PROVE  TagFirst(c) /\ (Len(b) >= 2 + Size(T, m) => Len(c) >= 2)
  <2>1. PICK j \in Nat : j = Len(b) - (2 + n) /\ Len(b) = (2 + n) + j
    <3>1. Len(b) - (2 + n) \in Nat /\ Len(b) = (2 + n) + (Len(b) - (2 + n))
      BY <1>3
    <3> QED
      BY <3>1
  <2>2. IsSlice(c, b, 2 + n, j)
    <3>1. 2 + n \in Nat /\ (2 + n) + j <= Len(b) /\ 3 + n = (2 + n) + 1
      BY <2>1, <1>3
    <3>2. IsSlice(SubSeq(b, (2 + n) + 1, (2 + n) + j), b, 2 + n, j)
      BY <3>1, <1>2, SliceOf
    <3> QED
      BY <3>1, <3>2, <2>1, <1>1
  <2>3. c \in Seq(Bytes) /\ Len(c) = j /\ \A k \in 1 .. j : c[k] = b[2 + n + k]
    BY <2>2 DEF IsSlice
  <2>4. ASSUME c # <<>> PROVE c[1] >= Tag(1)
    <3>1. j >= 1
      BY <2>3, <2>4, EmptySeq
    <3>2. c[1] = b[2 + n + 1]
      BY <3>1, <2>3
    <3>3. 2 + n + 1 \in 1 .. Len(b) /\ 2 + n + 1 <= 2 + Size(T, m)
          /\ n + 1 \in 1 .. Size(T, m) /\ 2 + n + 1 = 2 + (n + 1)
      BY <3>1, <2>1, <1>2, <1>3, <1>4
    <3>4. b[2 + n + 1] = Frame(w)[2 + n + 1]
      BY <3>3, <1>1 DEF StartsFrame
    <3>5. IsFrame(Frame(w), T, m)
      BY <1>1, FrameProperties
    <3>6. Frame(w)[2 + (n + 1)] = w[n + 1]
      BY <3>3, <3>5, <1>1 DEF IsFrame
    <3>7. PICK g \in 1 .. 6 : w[n + 1] = Tag(g)
      BY <1>7 DEF AtTag
    <3> QED
      BY <3>2, <3>3, <3>4, <3>6, <3>7, TagProperties
  <2>5. n + 2 <= Size(T, m)
    BY <1>2, <1>7 DEF AtTag
  <2>6. Len(b) >= 2 + Size(T, m) => Len(c) >= 2
    BY <2>1, <2>3, <2>5, <1>2, <1>3
  <2> QED
    BY <2>3, <2>4, <2>6 DEF TagFirst
<1> QED
  BY <1>1, <1>6, <1>7

-----------------------------------------------------------------------------
(* Streams.                                                                *)

(* The n bytes of all after the first i are the first n of the frame of m. *)
FrameIn(all, i, n, T, m) ==
  \A k \in 1 .. n : all[i + k] = Frame(Write(T, m))[k]

(* all is the frames of the messages ss, one after the other; the k-th     *)
(* ends at pos[k].  The first w of them are whole; if there is one more    *)
(* then it is cut, and the writer is gone.                                 *)
Layout(all, pos, w, ss, T, op) ==
  /\ all \in Seq(Bytes) /\ w \in 0 .. Len(ss) /\ pos \in [0 .. w -> Nat]
  /\ \A k \in 0 .. w : pos[k] <= Len(all)
  /\ \A k \in 1 .. w :
       /\ pos[k] = pos[k - 1] + 2 + Size(T, ss[k])
       /\ FrameIn(all, pos[k - 1], 2 + Size(T, ss[k]), T, ss[k])
  /\ w = Len(ss) => pos[w] = Len(all)
  /\ w # Len(ss) =>
       /\ w + 1 = Len(ss) /\ ~ op
       /\ Len(all) < pos[w] + 2 + Size(T, ss[w + 1])
       /\ FrameIn(all, pos[w], Len(all) - pos[w], T, ss[w + 1])

(* What is left in the stream, b, when g of the messages ss were read.     *)
Flow(b, g, ss, T, op) ==
  \E all, pos, w :
    /\ Layout(all, pos, w, ss, T, op) /\ g \in 0 .. w
    /\ IsSlice(b, all, pos[g], Len(all) - pos[g])

(* At first the stream is empty.                                           *)
LEMMA FlowInit ==
  ASSUME NEW T PROVE Flow(<<>>, 0, <<>>, T, TRUE)
<1>1. PICK all, pos : all = <<>> /\ pos = [k \in 0 .. 0 |-> 0]
  OBVIOUS
<1>2. all \in Seq(Bytes) /\ Len(all) = 0
  BY <1>1, EmptySeq
<1>3. Layout(all, pos, 0, <<>>, T, TRUE)
  BY <1>1, <1>2 DEF Layout
<1>4. IsSlice(<<>>, all, pos[0], Len(all) - pos[0])
  BY <1>1, <1>2 DEF IsSlice
<1>5. 0 \in 0 .. 0
  OBVIOUS
<1> QED
  BY <1>3, <1>4, <1>5 DEF Flow

(* The writer's end of the connection is closed.                           *)
LEMMA FlowClose ==
  ASSUME NEW b, NEW g, NEW ss, NEW T, NEW op, Flow(b, g, ss, T, op)
  PROVE  Flow(b, g, ss, T, FALSE)
<1>1. PICK all, pos, w :
        /\ Layout(all, pos, w, ss, T, op) /\ g \in 0 .. w
        /\ IsSlice(b, all, pos[g], Len(all) - pos[g])
  BY DEF Flow
<1>2. Layout(all, pos, w, ss, T, FALSE)
  BY <1>1 DEF Layout
<1> QED
  BY <1>1, <1>2 DEF Flow

(* What the reader has before it is the beginning of the next frame, and   *)
(* all of it while the writer is there.                                    *)
LEMMA FlowFront ==
  ASSUME NEW T, IsTable(T), NEW ss \in Seq(Messages(T)), NEW op, NEW b, NEW g,
         Flow(b, g, ss, T, op)
  PROVE  /\ b \in Seq(Bytes) /\ g \in 0 .. Len(ss)
         /\ b # <<>> =>
              /\ g + 1 \in 1 .. Len(ss) /\ StartsFrame(b, T, ss[g + 1])
              /\ op => Len(b) >= 2 + Size(T, ss[g + 1])
<1>1. PICK all, pos, w :
        /\ Layout(all, pos, w, ss, T, op) /\ g \in 0 .. w
        /\ IsSlice(b, all, pos[g], Len(all) - pos[g])
  BY DEF Flow
<1>2. /\ all \in Seq(Bytes) /\ w \in 0 .. Len(ss) /\ pos[g] \in Nat
      /\ Len(all) \in Nat /\ Len(ss) \in Nat /\ pos[g] <= Len(all)
  BY <1>1, LenProperties DEF Layout
<1>3. /\ b \in Seq(Bytes) /\ Len(b) = Len(all) - pos[g]
      /\ \A k \in 1 .. Len(all) - pos[g] : b[k] = all[pos[g] + k]
  BY <1>1 DEF IsSlice
<1>4. ASSUME b # <<>>
      PROVE  /\ g + 1 \in 1 .. Len(ss) /\ StartsFrame(b, T, ss[g + 1])
             /\ op => Len(b) >= 2 + Size(T, ss[g + 1])
  <2>1. Len(b) >= 1
    BY <1>3, <1>4, EmptySeq
  <2>2. CASE g < w
    <3>1. g + 1 \in 1 .. w /\ (g + 1) - 1 = g /\ g + 1 \in 1 .. Len(ss)
      BY <2>2, <1>1, <1>2
    <3>2. ss[g + 1] \in Messages(T)
      BY <3>1, ElementOfSeq
    <3>3. Size(T, ss[g + 1]) \in Nat
      BY <3>2, WriteProperties
    <3>4. /\ pos[g + 1] = pos[g] + 2 + Size(T, ss[g + 1])
          /\ FrameIn(all, pos[g], 2 + Size(T, ss[g + 1]), T, ss[g + 1])
      BY <3>1, <1>1 DEF Layout
    <3>5. pos[g + 1] <= Len(all)
      BY <3>1, <1>1 DEF Layout
    <3>6. Len(b) >= 2 + Size(T, ss[g + 1])
      BY <3>3, <3>4, <3>5, <1>2, <1>3
    <3>7. ASSUME NEW k \in 1 .. Len(b), k <= 2 + Size(T, ss[g + 1])
          PROVE  b[k] = Frame(Write(T, ss[g + 1]))[k]
      <4>1. k \in 1 .. 2 + Size(T, ss[g + 1]) /\ k \in 1 .. Len(all) - pos[g]
        BY <3>3, <3>7, <1>2, <1>3
      <4> QED
        BY <4>1, <3>4, <1>3 DEF FrameIn
    <3> QED
      BY <3>1, <3>6, <3>7, <1>3 DEF StartsFrame
  <2>3. CASE g = w
    <3>1. w # Len(ss)
      BY <2>1, <2>3, <1>1, <1>2, <1>3 DEF Layout
    <3>2. /\ w + 1 = Len(ss) /\ ~ op
          /\ FrameIn(all, pos[w], Len(all) - pos[w], T, ss[w + 1])
      BY <3>1, <1>1 DEF Layout
    <3>3. g + 1 \in 1 .. Len(ss)
      BY <3>2, <2>3, <1>2
    <3>4. StartsFrame(b, T, ss[g + 1])
      BY <3>2, <2>3, <1>2, <1>3 DEF StartsFrame, FrameIn
    <3> QED
      BY <3>2, <3>3, <3>4
  <2> QED
    BY <2>2, <2>3, <1>1, <1>2
<1>5. g \in 0 .. Len(ss)
  BY <1>1, <1>2
<1> QED
  BY <1>3, <1>4, <1>5

(* The reader takes a whole frame.                                         *)
LEMMA FlowRead ==
  ASSUME NEW T, IsTable(T), NEW ss \in Seq(Messages(T)), NEW op, NEW b, NEW g,
         Flow(b, g, ss, T, op), g < Len(ss), Len(b) >= 2 + Size(T, ss[g + 1])
  PROVE  Flow(SubSeq(b, 3 + Size(T, ss[g + 1]), Len(b)), g + 1, ss, T, op)
<1>1. PICK all, pos, w :
        /\ Layout(all, pos, w, ss, T, op) /\ g \in 0 .. w
        /\ IsSlice(b, all, pos[g], Len(all) - pos[g])
  BY DEF Flow
<1>2. /\ all \in Seq(Bytes) /\ w \in 0 .. Len(ss) /\ pos[g] \in Nat
      /\ Len(all) \in Nat /\ Len(ss) \in Nat /\ pos[g] <= Len(all)
  BY <1>1, LenProperties DEF Layout
<1>3. /\ b \in Seq(Bytes) /\ Len(b) = Len(all) - pos[g]
      /\ \A k \in 1 .. Len(all) - pos[g] : b[k] = all[pos[g] + k]
  BY <1>1 DEF IsSlice
<1>4. g \in Nat /\ g + 1 \in 1 .. Len(ss)
  BY <1>1, <1>2
<1>5. PICK y \in Nat : y = Size(T, ss[g + 1])
  <2>1. ss[g + 1] \in Messages(T)
    BY <1>4, ElementOfSeq
  <2>2. Size(T, ss[g + 1]) \in Nat
    BY <2>1, WriteProperties
  <2> QED
    BY <2>2
<1>6. g < w
  <2> SUFFICES ASSUME g = w PROVE FALSE
    BY <1>1, <1>2
  <2>1. Len(all) < pos[g] + 2 + y
    BY <1>1, <1>2, <1>5 DEF Layout
  <2>2. Len(all) - pos[g] >= 2 + y
    BY <1>3, <1>5
  <2> QED
    BY <2>1, <2>2, <1>2
<1>7. g + 1 \in 1 .. w /\ (g + 1) - 1 = g /\ g + 1 \in 0 .. w
  BY <1>2, <1>4, <1>6
<1>8. PICK q \in Nat : q = pos[g] /\ q <= Len(all)
  BY <1>2
<1>9. PICK r \in Nat : r = pos[g + 1] /\ r = q + 2 + y /\ r <= Len(all)
  BY <1>1, <1>5, <1>7, <1>8 DEF Layout
<1>10. PICK z \in Nat : z = 2 + y /\ r = q + z /\ 3 + y = z + 1
  <2>1. 2 + y \in Nat /\ r = q + (2 + y) /\ 3 + y = (2 + y) + 1
    BY <1>9
  <2> QED
    BY <2>1
<1>11. PICK j \in Nat : j = Len(all) - r /\ Len(b) = z + j
  <2>1. Len(all) - r \in Nat /\ Len(all) - q = z + (Len(all) - r)
    BY <1>2, <1>9, <1>10
  <2> QED
    BY <2>1, <1>3, <1>8
<1>12. PICK c : c = SubSeq(b, z + 1, z + j)
  OBVIOUS
<1>13. IsSlice(c, b, z, j)
  <2>1. z + j <= Len(b)
    BY <1>11
  <2> QED
    BY <2>1, <1>3, <1>12, SliceOf
<1>14. c \in Seq(Bytes) /\ Len(c) = j /\ \A k \in 1 .. j : c[k] = b[z + k]
  BY <1>13 DEF IsSlice
<1>15. ASSUME NEW k \in 1 .. j PROVE c[k] = all[r + k]
  <2>1. z + k \in 1 .. Len(all) - q /\ q + (z + k) = r + k
    BY <1>2, <1>10, <1>11
  <2> QED
    BY <2>1, <1>3, <1>8, <1>14
<1>16. IsSlice(c, all, pos[g + 1], Len(all) - pos[g + 1])
  BY <1>9, <1>11, <1>14, <1>15 DEF IsSlice
<1>17. Flow(c, g + 1, ss, T, op)
  BY <1>1, <1>7, <1>16 DEF Flow
<1> QED
  BY <1>5, <1>10, <1>11, <1>12, <1>17

(* More bytes come to all and to what is left of it.                       *)
LEMMA SliceGrows ==
  ASSUME NEW all \in Seq(Bytes), NEW b, NEW i \in Nat, i <= Len(all),
         IsSlice(b, all, i, Len(all) - i), NEW q \in Seq(Bytes)
  PROVE  IsSlice(b \o q, all \o q, i, Len(all \o q) - i)
<1>1. PICK c, a : c = b \o q /\ a = all \o q
  OBVIOUS
<1>2. Len(all) \in Nat /\ Len(q) \in Nat
  BY LenProperties
<1>3. /\ b \in Seq(Bytes) /\ Len(b) = Len(all) - i
      /\ \A k \in 1 .. Len(all) - i : b[k] = all[i + k]
  BY DEF IsSlice
<1>4. PICK n \in Nat : n = Len(b) /\ Len(all) = i + n
  <2>1. Len(all) - i \in Nat /\ Len(all) = i + (Len(all) - i)
    BY <1>2
  <2> QED
    BY <2>1, <1>3
<1>5. IsConcat(c, b, q) /\ IsConcat(a, all, q)
  BY <1>1, <1>3, ConcatBytes
<1>6. /\ c \in Seq(Bytes) /\ Len(c) = n + Len(q)
      /\ \A k \in 1 .. n : c[k] = b[k]
      /\ \A k \in 1 .. Len(q) : c[n + k] = q[k]
  BY <1>4, <1>5 DEF IsConcat
<1>7. /\ Len(a) = (i + n) + Len(q)
      /\ \A k \in 1 .. i + n : a[k] = all[k]
      /\ \A k \in 1 .. Len(q) : a[(i + n) + k] = q[k]
  BY <1>4, <1>5 DEF IsConcat
<1>8. Len(a) - i = Len(c)
  BY <1>2, <1>6, <1>7
<1>9. ASSUME NEW k \in 1 .. n + Len(q) PROVE c[k] = a[i + k]
  <2>1. CASE k <= n
    <3>1. k \in 1 .. n /\ i + k \in 1 .. i + n /\ k \in 1 .. Len(all) - i
      BY <2>1, <1>2, <1>4
    <3> QED
      BY <3>1, <1>3, <1>6, <1>7
  <2>2. CASE k > n
    <3>1. PICK j \in 1 .. Len(q) : k = n + j
      <4>1. k - n \in 1 .. Len(q) /\ k = n + (k - n)
        BY <2>2, <1>2
      <4> QED
        BY <4>1
    <3>2. i + k = (i + n) + j
      BY <3>1
    <3> QED
      BY <3>1, <3>2, <1>6, <1>7
  <2> QED
    BY <2>1, <2>2, <1>2
<1> QED
  BY <1>1, <1>6, <1>8, <1>9 DEF IsSlice

(* A message stays where it is when more is written.                       *)
LEMMA FrameStays ==
  ASSUME NEW all \in Seq(Bytes), NEW q \in Seq(Bytes), NEW T, NEW m,
         NEW i \in Nat, NEW n \in Nat, i + n <= Len(all), FrameIn(all, i, n, T, m)
  PROVE  FrameIn(all \o q, i, n, T, m)
<1>1. PICK a : a = all \o q
  OBVIOUS
<1>2. IsConcat(a, all, q)
  BY <1>1, ConcatBytes
<1>3. \A k \in 1 .. Len(all) : a[k] = all[k] /\ Len(all) \in Nat
  BY <1>2 DEF IsConcat
<1>4. Len(all) \in Nat
  BY LenProperties
<1>5. ASSUME NEW k \in 1 .. n PROVE a[i + k] = Frame(Write(T, m))[k]
  <2>1. i + k \in 1 .. Len(all)
    BY <1>4
  <2>2. all[i + k] = Frame(Write(T, m))[k]
    BY DEF FrameIn
  <2> QED
    BY <2>1, <2>2, <1>3
<1> QED
  BY <1>1, <1>5 DEF FrameIn

(* The writer, who has not died, writes q, all of a frame or its beginning.*)
LEMMA FlowGrows ==
  ASSUME NEW T, IsTable(T), NEW ss \in Seq(Messages(T)), NEW m \in Messages(T),
         NEW b, NEW g, Flow(b, g, ss, T, TRUE), NEW q,
         Begins(q, Frame(Write(T, m))), NEW op,
         Len(q) # 2 + Size(T, m) => ~ op
  PROVE  Flow(b \o q, g, Append(ss, m), T, op)
<1>1. PICK all, pos, w :
        /\ Layout(all, pos, w, ss, T, TRUE) /\ g \in 0 .. w
        /\ IsSlice(b, all, pos[g], Len(all) - pos[g])
  BY DEF Flow
<1>2. /\ all \in Seq(Bytes) /\ w \in 0 .. Len(ss) /\ pos \in [0 .. w -> Nat]
      /\ Len(all) \in Nat /\ Len(ss) \in Nat
  BY <1>1, LenProperties DEF Layout
<1>3. w = Len(ss)
  BY <1>1 DEF Layout
<1>4. \A k \in 0 .. w : pos[k] \in Nat /\ pos[k] <= Len(all)
  BY <1>1 DEF Layout
<1>5. pos[w] = Len(all)
  BY <1>1, <1>3 DEF Layout
<1>6. PICK f, y, ts : f = Frame(Write(T, m)) /\ y = Size(T, m) /\ ts = Append(ss, m)
  OBVIOUS
<1>7. f \in Seq(Bytes) /\ Len(f) = 2 + y /\ y \in Nat
  BY <1>6, FrameProperties, WriteProperties DEF IsFrame
<1>8. q \in Seq(Bytes) /\ Len(q) <= 2 + y /\ \A k \in 1 .. Len(q) : q[k] = f[k]
  BY <1>6, <1>7 DEF Begins
<1>9. Len(q) \in Nat
  BY <1>8, LenProperties
<1>10. /\ Len(ts) = w + 1 /\ ts[w + 1] = m
       /\ \A k \in 1 .. w : ts[k] = ss[k]
  BY <1>3, <1>6, AppendProperties
<1>11. PICK a : a = all \o q
  OBVIOUS
<1>12. IsConcat(a, all, q)
  BY <1>2, <1>8, <1>11, ConcatBytes
<1>13. /\ a \in Seq(Bytes) /\ Len(a) = Len(all) + Len(q)
       /\ \A k \in 1 .. Len(q) : a[Len(all) + k] = q[k]
  BY <1>12 DEF IsConcat
<1>14. IsSlice(b \o q, a, pos[g], Len(a) - pos[g])
  <2>1. pos[g] \in Nat /\ pos[g] <= Len(all)
    BY <1>1, <1>4
  <2> QED
    BY <2>1, <1>1, <1>2, <1>8, <1>11, SliceGrows
<1>15. ASSUME NEW k \in 1 .. w
       PROVE  /\ pos[k] = pos[k - 1] + 2 + Size(T, ts[k])
              /\ FrameIn(a, pos[k - 1], 2 + Size(T, ts[k]), T, ts[k])
  <2>1. /\ pos[k] = pos[k - 1] + 2 + Size(T, ss[k])
        /\ FrameIn(all, pos[k - 1], 2 + Size(T, ss[k]), T, ss[k])
    BY <1>1 DEF Layout
  <2>2. k \in 0 .. w /\ k - 1 \in 0 .. w /\ k \in 1 .. Len(ss)
    BY <1>2, <1>3
  <2>3. ss[k] \in Messages(T)
    BY <2>2, ElementOfSeq
  <2>4. PICK z \in Nat : z = Size(T, ss[k])
    BY <2>3, WriteProperties
  <2>5. pos[k - 1] \in Nat /\ pos[k] <= Len(all)
    BY <2>2, <1>4
  <2>6. 2 + z \in Nat /\ pos[k - 1] + (2 + z) <= Len(all)
    BY <2>1, <2>4, <2>5
  <2>7. FrameIn(a, pos[k - 1], 2 + z, T, ss[k])
    BY <2>1, <2>4, <2>5, <2>6, <1>2, <1>8, <1>11, FrameStays
  <2> QED
    BY <2>1, <2>4, <2>7, <1>10
<1>16. FrameIn(a, Len(all), Len(q), T, m)
  BY <1>6, <1>8, <1>13 DEF FrameIn
<1>17. CASE Len(q) = 2 + y
  <2>1. PICK p : p = [k \in 0 .. w + 1 |-> IF k <= w THEN pos[k] ELSE Len(a)]
    OBVIOUS
  <2>2. Len(a) = Len(all) + 2 + y /\ Len(a) \in Nat
    BY <1>2, <1>7, <1>13, <1>17
  <2>3. p \in [0 .. w + 1 -> Nat] /\ p[w + 1] = Len(a) /\ \A k \in 0 .. w : p[k] = pos[k]
    BY <2>1, <2>2, <1>2, <1>4
  <2>4. \A k \in 0 .. w + 1 : p[k] <= Len(a)
    <3>1. \A k \in 0 .. w : p[k] <= Len(a)
      BY <2>2, <2>3, <1>2, <1>4, <1>7
    <3> QED
      BY <3>1, <2>2, <2>3, <1>2
  <2>5. ASSUME NEW k \in 1 .. w + 1
        PROVE  /\ p[k] = p[k - 1] + 2 + Size(T, ts[k])
               /\ FrameIn(a, p[k - 1], 2 + Size(T, ts[k]), T, ts[k])
    <3>1. CASE k \in 1 .. w
      <4>1. k \in 0 .. w /\ k - 1 \in 0 .. w
        BY <3>1, <1>2
      <4> QED
        BY <3>1, <4>1, <2>3, <1>15
    <3>2. CASE k = w + 1
      <4>1. k - 1 = w /\ w \in 0 .. w
        BY <3>2, <1>2
      <4>2. p[k - 1] = Len(all) /\ ts[k] = m /\ p[k] = Len(a)
        BY <4>1, <3>2, <2>3, <1>5, <1>10
      <4> QED
        BY <4>2, <2>2, <1>6, <1>16, <1>17
    <3> QED
      BY <3>1, <3>2, <1>2
  <2>6. Layout(a, p, w + 1, ts, T, op)
    <3>1. w + 1 \in 0 .. Len(ts) /\ w + 1 = Len(ts)
      BY <1>2, <1>10
    <3> QED
      BY <3>1, <2>3, <2>4, <2>5, <1>13 DEF Layout
  <2>7. g \in 0 .. w + 1 /\ p[g] = pos[g]
    BY <2>3, <1>1, <1>2
  <2> QED
    BY <2>6, <2>7, <1>6, <1>14 DEF Flow
<1>18. CASE Len(q) # 2 + y
  <2>1. ~ op
    BY <1>6, <1>18
  <2>2. Len(q) < 2 + y
    BY <1>7, <1>8, <1>9, <1>18
  <2>3. \A k \in 0 .. w : pos[k] <= Len(a)
    BY <1>2, <1>4, <1>9, <1>13
  <2>4. w \in 0 .. Len(ts) /\ w # Len(ts) /\ w + 1 = Len(ts)
    BY <1>2, <1>10
  <2>5. Len(a) < pos[w] + 2 + Size(T, ts[w + 1])
    BY <2>2, <1>2, <1>5, <1>6, <1>7, <1>9, <1>10, <1>13
  <2>6. FrameIn(a, pos[w], Len(a) - pos[w], T, ts[w + 1])
    <3>1. Len(a) - pos[w] = Len(q)
      BY <1>2, <1>5, <1>9, <1>13
    <3> QED
      BY <3>1, <1>5, <1>10, <1>16
  <2>7. Layout(a, pos, w, ts, T, op)
    BY <2>1, <2>3, <2>4, <2>5, <2>6, <1>2, <1>13, <1>15 DEF Layout
  <2> QED
    BY <2>7, <1>1, <1>6, <1>14 DEF Flow
<1> QED
  BY <1>17, <1>18

-----------------------------------------------------------------------------
(* Requests and responses, and their sizes.                                *)

(* The size of a message with id i and the strings s and a.                *)
MsgSize(i, s, a) == StringSize(i) + DelimitedSize(StringSize(s) + StringSize(a))

(* Sizes of strings are numbers.                                           *)
LEMMA SizeNat ==
  \A s \in Seq(Bytes) : StringSize(s) \in Nat
<1>1. 1 \in 1 .. 6
  OBVIOUS
<1> QED
  BY <1>1, WriteStringProperties

(* The longer what is delimited, the longer the whole.                     *)
LEMMA DelimitedGrows ==
  ASSUME NEW m \in Nat, NEW n \in Nat, m <= n
  PROVE  /\ DelimitedSize(m) \in Nat /\ DelimitedSize(n) \in Nat
         /\ DelimitedSize(m) = 1 + VarintSize[m] + m
         /\ VarintSize[m] \in Nat /\ VarintSize[m] >= 1
         /\ m + 2 <= DelimitedSize(m) /\ DelimitedSize(m) <= DelimitedSize(n)
<1>1. /\ VarintSize[m] \in Nat /\ VarintSize[m] >= 1 /\ VarintSize[n] \in Nat
      /\ VarintSize[m] <= VarintSize[n]
  BY VarintSizeGrows
<1> QED
  BY <1>1 DEF DelimitedSize

(* Message makes messages, of the size above.                              *)
LEMMA MessageIn ==
  ASSUME NEW T, NEW i \in Seq(Bytes), NEW s \in Seq(Bytes), NEW a \in Seq(Bytes),
         NEW c \in DOMAIN T,
         1 \notin T[c].fields => s = <<>>, 2 \notin T[c].fields => a = <<>>
  PROVE  /\ Message(i, c, s, a) \in Messages(T)
         /\ c # "None" => Size(T, Message(i, c, s, a)) = MsgSize(i, s, a)
<1>1. PICK m, args : m = Message(i, c, s, a) /\ args = <<s, a>>
  OBVIOUS
<1>2. args \in Args /\ args[1] = s /\ args[2] = a
  BY <1>1 DEF Args
<1>3. m = [id |-> i, cmd |-> c, args |-> args]
  BY <1>1 DEF Message
<1>4. m \in [id : Seq(Bytes), cmd : DOMAIN T, args : Args]
  BY <1>2, <1>3
<1>5. m.cmd = c /\ m.args = args /\ m.id = i
  BY <1>3
<1>6. \A f \in {1, 2} : f \notin T[m.cmd].fields => m.args[f] = <<>>
  BY <1>2, <1>5
<1>7. m \in Messages(T)
  BY <1>4, <1>6 DEF Messages
<1>8. ArgsSize(T[c].fields, args) = StringSize(s) + StringSize(a)
  BY <1>2 DEF ArgsSize, StringSize
<1>9. c # "None" => Size(T, m) = MsgSize(i, s, a)
  BY <1>5, <1>8 DEF Size, MsgSize
<1> QED
  BY <1>1, <1>7, <1>9

(* The commands of requests,                                               *)
LEMMA RequestFields ==
  /\ DOMAIN Request = {"Ping", "Isync", "Fsync", "Rsync", "Bye"}
  /\ Request["Ping"].fields = {} /\ Request["Isync"].fields = {1}
  /\ Request["Rsync"].fields = {1}
BY DEF Request, Field, Ping, Isync, Rsync

(* and of responses.                                                       *)
LEMMA ResponseFields ==
  /\ DOMAIN Response = {"Pong", "Redirect", "Fsync"}
  /\ Response["Pong"].fields = {} /\ Response["Redirect"].fields = {1, 2}
  /\ Response["Fsync"].fields = {1, 2}
BY DEF Response, Field, Pong, Redirect, Fsync

(* The requests of a client are messages.                                  *)
LEMMA RequestsIn ==
  ASSUME NEW i \in Strings, NEW m \in Requests(i)
  PROVE  m \in Messages(Request)
<1>1. i \in Seq(Bytes) /\ <<>> \in Seq(Bytes) /\ Strings \subseteq Seq(Bytes)
  BY ConstantFacts, EmptySeq
<1>2. CASE m = Message(i, "Ping", <<>>, <<>>)
  BY <1>1, <1>2, RequestFields, MessageIn
<1>3. CASE \E c \in {"Isync", "Rsync"}, s \in Strings : m = Message(i, c, s, <<>>)
  <2>1. PICK c \in {"Isync", "Rsync"}, s \in Strings : m = Message(i, c, s, <<>>)
    BY <1>3
  <2>2. c \in DOMAIN Request /\ 1 \in Request[c].fields /\ s \in Seq(Bytes)
    BY <2>1, <1>1, RequestFields
  <2> QED
    BY <2>1, <2>2, <1>1, MessageIn
<1> QED
  BY <1>2, <1>3 DEF Requests

(* A request, by its parts.                                                *)
LEMMA RequestParts ==
  ASSUME NEW m \in Messages(Request)
  PROVE  /\ m.id \in Seq(Bytes) /\ m.args[1] \in Seq(Bytes) /\ m.args[2] \in Seq(Bytes)
         /\ m.cmd # "None" /\ m.cmd # "Invalid" /\ m.cmd \in DOMAIN Request
         /\ Size(Request, m) = MsgSize(m.id, m.args[1], m.args[2])
         /\ m.cmd \in {"Isync", "Rsync"} => m.args[2] = <<>>
         /\ m.cmd = "Ping" => m.args[1] = <<>> /\ m.args[2] = <<>>
<1>1. /\ m.id \in Seq(Bytes) /\ m.cmd \in DOMAIN Request /\ m.args \in Args
      /\ \A f \in {1, 2} : f \notin Request[m.cmd].fields => m.args[f] = <<>>
  BY DEF Messages
<1>2. m.args[1] \in Seq(Bytes) /\ m.args[2] \in Seq(Bytes)
  BY <1>1 DEF Args
<1>3. m.cmd # "None" /\ m.cmd # "Invalid"
  BY <1>1, RequestFields
<1>4. ArgsSize(Request[m.cmd].fields, m.args) =
        StringSize(m.args[1]) + StringSize(m.args[2])
  BY <1>1 DEF ArgsSize, StringSize
<1>5. Size(Request, m) = MsgSize(m.id, m.args[1], m.args[2])
  BY <1>3, <1>4 DEF Size, MsgSize
<1> QED
  BY <1>1, <1>2, <1>3, <1>5, RequestFields

(* A response, by its parts: each is taken from the request.               *)
LEMMA ResponseParts ==
  ASSUME NEW m \in Messages(Request), NEW r \in Responses(m)
  PROVE  /\ r \in Messages(Response) /\ [r EXCEPT !.id = <<>>] \in Messages(Response)
         /\ \/ /\ Size(Response, r) = MsgSize(m.id, m.args[1], <<>>)
               /\ Size(Response, [r EXCEPT !.id = <<>>]) =
                    MsgSize(<<>>, m.args[1], <<>>)
            \/ /\ Size(Response, r) = MsgSize(m.args[1], m.id, Addr)
               /\ Size(Response, [r EXCEPT !.id = <<>>]) = MsgSize(<<>>, m.id, Addr)
         /\ m.cmd \in {"Ping", "Isync", "Rsync"}
<1>1. PICK i, s : i = m.id /\ s = m.args[1]
  OBVIOUS
<1>2. i \in Seq(Bytes) /\ s \in Seq(Bytes) /\ <<>> \in Seq(Bytes) /\ Addr \in Seq(Bytes)
  BY <1>1, RequestParts, EmptySeq, ConstantFacts
<1>3. ASSUME NEW c \in {"Pong", "Redirect", "Fsync"}, NEW j \in Seq(Bytes),
             NEW t \in Seq(Bytes), NEW a \in Seq(Bytes), r = Message(j, c, t, a),
             c = "Pong" => t = <<>> /\ a = <<>>
      PROVE  /\ r \in Messages(Response) /\ [r EXCEPT !.id = <<>>] \in Messages(Response)
             /\ Size(Response, r) = MsgSize(j, t, a)
             /\ Size(Response, [r EXCEPT !.id = <<>>]) = MsgSize(<<>>, t, a)
  <2>1. c \in DOMAIN Response /\ c # "None"
    BY ResponseFields
  <2>2. /\ 1 \notin Response[c].fields => t = <<>>
        /\ 2 \notin Response[c].fields => a = <<>>
    BY <1>3, ResponseFields
  <2>3. r \in Messages(Response) /\ Size(Response, r) = MsgSize(j, t, a)
    BY <2>1, <2>2, <1>3, MessageIn
  <2>4. [r EXCEPT !.id = <<>>] = Message(<<>>, c, t, a)
    BY <1>3 DEF Message
  <2>5. /\ Message(<<>>, c, t, a) \in Messages(Response)
        /\ Size(Response, Message(<<>>, c, t, a)) = MsgSize(<<>>, t, a)
    <3>1. PICK e \in Seq(Bytes) : e = <<>>
      BY <1>2
    <3>2. /\ Message(e, c, t, a) \in Messages(Response)
          /\ Size(Response, Message(e, c, t, a)) = MsgSize(e, t, a)
      BY <2>1, <2>2, MessageIn
    <3> QED
      BY <3>1, <3>2
  <2> QED
    BY <2>3, <2>4, <2>5
<1>4. CASE m.cmd = "Ping"
  <2>1. r = Message(i, "Pong", <<>>, <<>>) /\ s = <<>>
    BY <1>1, <1>4, RequestParts DEF Responses
  <2>2. /\ r \in Messages(Response) /\ [r EXCEPT !.id = <<>>] \in Messages(Response)
        /\ Size(Response, r) = MsgSize(i, <<>>, <<>>)
        /\ Size(Response, [r EXCEPT !.id = <<>>]) = MsgSize(<<>>, <<>>, <<>>)
    BY <2>1, <1>2, <1>3, ZenonT(30)
  <2> QED
    BY <2>1, <2>2, <1>1, <1>4
<1>5. CASE m.cmd = "Isync"
  <2>1. r \in {Message(i, "Redirect", s, <<>>), Message(s, "Fsync", i, Addr)}
    BY <1>1, <1>5 DEF Responses
  <2>2. CASE r = Message(i, "Redirect", s, <<>>)
    <3>1. /\ r \in Messages(Response) /\ [r EXCEPT !.id = <<>>] \in Messages(Response)
          /\ Size(Response, r) = MsgSize(i, s, <<>>)
          /\ Size(Response, [r EXCEPT !.id = <<>>]) = MsgSize(<<>>, s, <<>>)
      BY <2>2, <1>2, <1>3, ZenonT(30)
    <3> QED
      BY <3>1, <1>1, <1>5
  <2>3. CASE r = Message(s, "Fsync", i, Addr)
    <3>1. /\ r \in Messages(Response) /\ [r EXCEPT !.id = <<>>] \in Messages(Response)
          /\ Size(Response, r) = MsgSize(s, i, Addr)
          /\ Size(Response, [r EXCEPT !.id = <<>>]) = MsgSize(<<>>, i, Addr)
      BY <2>3, <1>2, <1>3
    <3> QED
      BY <3>1, <1>1, <1>5
  <2> QED
    BY <2>1, <2>2, <2>3
<1>6. CASE m.cmd = "Rsync"
  <2>1. r = Message(s, "Redirect", i, Addr)
    BY <1>1, <1>6 DEF Responses
  <2>2. /\ r \in Messages(Response) /\ [r EXCEPT !.id = <<>>] \in Messages(Response)
        /\ Size(Response, r) = MsgSize(s, i, Addr)
        /\ Size(Response, [r EXCEPT !.id = <<>>]) = MsgSize(<<>>, i, Addr)
    BY <2>1, <1>2, <1>3
  <2> QED
    BY <2>2, <1>1, <1>6
<1>7. m.cmd \in {"Ping", "Isync", "Rsync"}
  BY DEF Responses
<1> QED
  BY <1>4, <1>5, <1>6, <1>7

(* Every response to a request that the server reads has a length that     *)
(* fits; the UDP server's fits a buffer when the request leaves room for   *)
(* the address in it.                                                      *)
LEMMA ResponseFits ==
  ASSUME NEW m \in Messages(Request), NEW r \in Responses(m),
         Size(Request, m) <= MaxMsg
  PROVE  /\ Size(Response, [r EXCEPT !.id = <<>>]) < Wrap
         /\ Size(Request, m) + StringSize(Addr) < MaxMsg =>
              Size(Response, r) <= MaxMsg
<1>1. PICK i, s, t : i = StringSize(m.id) /\ s = StringSize(m.args[1])
                     /\ t = StringSize(m.args[2])
  OBVIOUS
<1>2. PICK a : a = StringSize(Addr)
  OBVIOUS
<1>3. i \in Nat /\ s \in Nat /\ t \in Nat /\ a \in Nat /\ StringSize(<<>>) = 0
  BY <1>1, <1>2, RequestParts, SizeNat, ConstantFacts DEF StringSize
<1>4. MaxMsg \in Nat /\ Wrap \in Nat
  BY ConstantFacts
<1>5. Size(Request, m) = i + DelimitedSize(s + t)
  BY <1>1, RequestParts DEF MsgSize
<1>6. m.cmd \in {"Ping", "Isync", "Rsync"} => t = 0
  BY <1>1, <1>3, RequestParts
<1>7. t = 0 /\ s + t = s /\ s + 0 = s /\ 0 + a = a
  <2>1. t = 0
    BY <1>6, ResponseParts
  <2> QED
    BY <2>1, <1>3
<1>8. PICK v \in Nat : v = VarintSize[s] /\ v >= 1 /\ DelimitedSize(s) = 1 + v + s
                       /\ DelimitedSize(s) \in Nat
  <2>1. s <= s
    BY <1>3
  <2> QED
    BY <2>1, <1>3, DelimitedGrows
<1>9. i + (1 + v + s) <= MaxMsg
  BY <1>5, <1>7, <1>8
<1>10. s <= MaxMsg + a /\ i + a <= MaxMsg + a /\ MaxMsg + a \in Nat /\ i + a \in Nat
  BY <1>3, <1>4, <1>9
<1>11. PICK l \in Nat : l = DelimitedSize(MaxMsg + a) /\ l < Wrap
  <2>1. DelimitedSize(MaxMsg + a) \in Nat
    BY <1>10, DelimitedGrows
  <2> QED
    BY <2>1, <1>2, FramingAssumption
<1>12. DelimitedSize(s) <= l
  BY <1>3, <1>10, <1>11, DelimitedGrows
<1>13. PICK u \in Nat : /\ u = VarintSize[i + a] /\ DelimitedSize(i + a) = 1 + u + (i + a)
                        /\ DelimitedSize(i + a) <= l
  BY <1>10, <1>11, DelimitedGrows
<1>14. CASE /\ Size(Response, r) = MsgSize(m.id, m.args[1], <<>>)
            /\ Size(Response, [r EXCEPT !.id = <<>>]) = MsgSize(<<>>, m.args[1], <<>>)
  <2>1. /\ Size(Response, r) = i + DelimitedSize(s + 0)
        /\ Size(Response, [r EXCEPT !.id = <<>>]) = 0 + DelimitedSize(s + 0)
    BY <1>1, <1>3, <1>14 DEF MsgSize
  <2>2. /\ Size(Response, r) = i + (1 + v + s)
        /\ Size(Response, [r EXCEPT !.id = <<>>]) = 0 + (1 + v + s)
    BY <2>1, <1>7, <1>8
  <2>3. 1 + v + s <= l
    BY <1>8, <1>12
  <2> QED
    BY <2>2, <2>3, <1>3, <1>4, <1>9, <1>11
<1>15. CASE /\ Size(Response, r) = MsgSize(m.args[1], m.id, Addr)
            /\ Size(Response, [r EXCEPT !.id = <<>>]) = MsgSize(<<>>, m.id, Addr)
  <2>1. /\ Size(Response, r) = s + DelimitedSize(i + a)
        /\ Size(Response, [r EXCEPT !.id = <<>>]) = 0 + DelimitedSize(i + a)
    BY <1>1, <1>2, <1>3, <1>15 DEF MsgSize
  <2>2. Size(Response, [r EXCEPT !.id = <<>>]) < Wrap
    BY <2>1, <1>3, <1>4, <1>11, <1>13, SMTT(30)
  <2>3. ASSUME Size(Request, m) + StringSize(Addr) < MaxMsg
        PROVE  Size(Response, r) <= MaxMsg
    <3>1. i + (1 + v + s) + a < MaxMsg
      BY <2>3, <1>2, <1>5, <1>7, <1>8
    <3>2. i + a < Digit * Digit
      <4>1. Digit * Digit \in Nat
        BY DigitProperties
      <4> QED
        BY <4>1, <3>1, <1>3, <1>4, MaxMsgSmall
    <3>3. u <= 2
      BY <3>2, <1>10, <1>13, VarintSizeBounds
    <3>4. Size(Response, r) = s + (1 + u + (i + a))
      BY <2>1, <1>13
    <3> QED
      BY <3>1, <3>3, <3>4, <1>3, <1>4, <1>8, SMTT(30)
  <2> QED
    BY <2>2, <2>3
<1> QED
  BY <1>14, <1>15, ResponseParts

(* The answer to an Isync that the server has read.                        *)
LEMMA AnswerFits ==
  ASSUME NEW m \in Messages(Request), m.cmd = "Isync", Size(Request, m) <= MaxMsg
  PROVE  Size(Request, Message(m.args[1], "Rsync", m.id, <<>>)) <=
           MaxMsg + IF Size(Request, m) < MaxMsg THEN 0 ELSE 1
<1>1. PICK i, s : i = StringSize(m.id) /\ s = StringSize(m.args[1])
  OBVIOUS
<1>2. /\ m.id \in Seq(Bytes) /\ m.args[1] \in Seq(Bytes) /\ m.args[2] = <<>>
      /\ <<>> \in Seq(Bytes)
  BY RequestParts, EmptySeq
<1>3. i \in Nat /\ s \in Nat /\ StringSize(<<>>) = 0 /\ MaxMsg \in Nat
  BY <1>1, <1>2, SizeNat, ConstantFacts DEF StringSize
<1>4. s + 0 = s /\ i + 0 = i /\ s <= s /\ i <= i
  BY <1>3
<1>5. Size(Request, m) = i + DelimitedSize(s)
  BY <1>1, <1>2, <1>3, <1>4, RequestParts DEF MsgSize
<1>6. Size(Request, Message(m.args[1], "Rsync", m.id, <<>>)) = s + DelimitedSize(i)
  <2>1. "Rsync" \in DOMAIN Request /\ "Rsync" # "None" /\ 1 \in Request["Rsync"].fields
    BY RequestFields
  <2>2. PICK e \in Seq(Bytes) : e = <<>>
    BY <1>2
  <2>3. Size(Request, Message(m.args[1], "Rsync", m.id, e)) = MsgSize(m.args[1], m.id, e)
    <3>1. PICK c \in DOMAIN Request : c = "Rsync" /\ c # "None" /\ 1 \in Request[c].fields
      BY <2>1
    <3>2. PICK j \in Seq(Bytes), k \in Seq(Bytes) : j = m.args[1] /\ k = m.id
      BY <1>2
    <3>3. /\ 1 \notin Request[c].fields => k = <<>>
          /\ 2 \notin Request[c].fields => e = <<>>
      BY <3>1, <2>2
    <3>4. c # "None" => Size(Request, Message(j, c, k, e)) = MsgSize(j, k, e)
      BY <3>3, MessageIn
    <3> QED
      BY <3>1, <3>2, <3>4
  <2> QED
    BY <2>2, <2>3, <1>1, <1>3, <1>4 DEF MsgSize
<1>7. PICK v \in Nat : v >= 1 /\ DelimitedSize(s) = 1 + v + s
  BY <1>3, <1>4, DelimitedGrows
<1>8. PICK u \in Nat : u = VarintSize[i] /\ DelimitedSize(i) = 1 + u + i
  BY <1>3, <1>4, DelimitedGrows
<1>9. PICK z \in Nat : z = Size(Request, m) /\ z = i + (1 + v + s) /\ z <= MaxMsg
  BY <1>3, <1>5, <1>7
<1>10. i < Digit * Digit
  <2>1. Digit * Digit \in Nat
    BY DigitProperties
  <2> QED
    BY <2>1, <1>3, <1>9, MaxMsgSmall
<1>11. u <= 2
  BY <1>3, <1>8, <1>10, VarintSizeBounds
<1>12. s + (1 + u + i) <= z + 1
  BY <1>3, <1>7, <1>9, <1>11
<1>13. Size(Request, Message(m.args[1], "Rsync", m.id, <<>>)) = s + (1 + u + i)
  BY <1>6, <1>8
<1>14. CASE z < MaxMsg
  BY <1>3, <1>8, <1>9, <1>12, <1>13, <1>14
<1>15. CASE z = MaxMsg
  BY <1>3, <1>8, <1>9, <1>12, <1>13, <1>15
<1> QED
  BY <1>3, <1>9, <1>14, <1>15


-----------------------------------------------------------------------------
(* One direction of a connection.  Its reader has returned what was        *)
(* written, and what is left of the stream are the messages that follow;   *)
(* or the server has lost its way: the last request it returned was the    *)
(* beginning of one too long for its length, and the stream now begins     *)
(* with a tag.                                                             *)

(* The longest message that the reader takes.                              *)
Limit(d) == IF d = "up" THEN MaxMsg ELSE Wrap - 1

(* The first n messages returned are those written, and no longer.         *)
Accepted(d, gg, ss, n) ==
  \A k \in 1 .. n : gg[k] = ss[k] /\ Size(Table[d], ss[k]) <= Limit(d)

(* The server has lost its way.                                            *)
Astray(d, b, op, ss, gg) ==
  /\ d = "up" /\ Len(gg) >= 1 /\ Accepted(d, gg, ss, Len(gg) - 1)
  /\ gg[Len(gg)] \in Nones /\ Size(Request, ss[Len(gg)]) >= Wrap
  /\ TagFirst(b) /\ (op => Len(b) >= 2)

(* A direction with stream b, writer alive if op, messages ss written and  *)
(* gg returned.                                                            *)
Channel(d, b, op, ss, gg) ==
  /\ b \in Seq(Bytes) /\ op \in BOOLEAN
  /\ ss \in Seq(Messages(Table[d])) /\ gg \in Seq(Messages(Table[d]) \cup Nones)
  /\ Len(gg) <= Len(ss)
  /\ d = "down" => \A k \in 1 .. Len(ss) : Size(Response, ss[k]) < Wrap
  /\ \/ Accepted(d, gg, ss, Len(gg)) /\ Flow(b, Len(gg), ss, Table[d], op)
     \/ Astray(d, b, op, ss, gg)

(* The shorter of two lengths.                                             *)
LEMMA MinTwo ==
  ASSUME NEW a \in Nat, NEW b \in Nat
  PROVE  Min({a, b}) = IF a <= b THEN a ELSE b
<1>1. PICK c \in {a, b} : c = IF a <= b THEN a ELSE b
  OBVIOUS
<1>2. \A y \in {a, b} : c <= y
  BY <1>1
<1>3. \A x \in {a, b} : (\A y \in {a, b} : x <= y) => x = c
  BY <1>2
<1> QED
  BY <1>1, <1>2, <1>3 DEF Min

(* At first nothing is written, and nothing read.                          *)
LEMMA ChannelInit ==
  ASSUME NEW d \in Dirs
  PROVE  Channel(d, <<>>, TRUE, <<>>, <<>>)
<1>1. PICK e : e = <<>> /\ Len(e) = 0
  BY EmptySeq
<1>2. e \in Seq(Bytes) /\ e \in Seq(Messages(Table[d])) /\
      e \in Seq(Messages(Table[d]) \cup Nones)
  BY <1>1, EmptySeq
<1>3. Flow(e, Len(e), e, Table[d], TRUE)
  BY <1>1, FlowInit
<1>4. \A k \in 1 .. 0 : FALSE
  OBVIOUS
<1>5. Accepted(d, e, e, Len(e))
  BY <1>1, <1>4 DEF Accepted
<1>6. \A k \in 1 .. Len(e) : Size(Response, e[k]) < Wrap
  BY <1>1, <1>4
<1>7. Len(e) <= Len(e)
  BY <1>1
<1>8. PICK t : t = TRUE /\ Flow(e, Len(e), e, Table[d], t)
  BY <1>3
<1>9. t \in BOOLEAN
  BY <1>8
<1>10. Channel(d, e, t, e, e)
  BY <1>2, <1>5, <1>6, <1>7, <1>8, <1>9 DEF Channel
<1> QED
  BY <1>1, <1>8, <1>10

(* The writer is gone.                                                     *)
LEMMA ChannelClose ==
  ASSUME NEW d, NEW b, NEW op, NEW ss, NEW gg, Channel(d, b, op, ss, gg)
  PROVE  Channel(d, b, FALSE, ss, gg)
<1>1. CASE Accepted(d, gg, ss, Len(gg)) /\ Flow(b, Len(gg), ss, Table[d], op)
  <2>1. Flow(b, Len(gg), ss, Table[d], FALSE)
    BY <1>1, FlowClose
  <2> QED
    BY <1>1, <2>1 DEF Channel
<1>2. CASE Astray(d, b, op, ss, gg)
  <2>1. Astray(d, b, FALSE, ss, gg)
    BY <1>2 DEF Astray
  <2> QED
    BY <2>1 DEF Channel
<1> QED
  BY <1>1, <1>2 DEF Channel


(* A message is written, or its beginning and no more.                     *)
LEMMA ChannelWrite ==
  ASSUME NEW d \in Dirs, NEW b, NEW ss, NEW gg, Channel(d, b, TRUE, ss, gg),
         NEW m \in Messages(Table[d]),
         d = "down" => Size(Response, m) < Wrap,
         NEW q, Begins(q, Frame(Write(Table[d], m))), NEW op \in BOOLEAN,
         Len(q) # 2 + Size(Table[d], m) => ~ op
  PROVE  Channel(d, b \o q, op, Append(ss, m), gg)
<1>1. PICK T, M : T = Table[d] /\ IsTable(T) /\ M = Messages(T) /\ m \in M
  BY TableFacts
<1>2. ss \in Seq(M) /\ gg \in Seq(M \cup Nones) /\ Len(gg) <= Len(ss) /\ b \in Seq(Bytes)
  BY <1>1 DEF Channel
<1>3. q \in Seq(Bytes)
  BY DEF Begins
<1>4. PICK c, n, g : c = Append(ss, m) /\ n = Len(ss) /\ g = Len(gg)
  OBVIOUS
<1>5. /\ n \in Nat /\ g \in Nat /\ g <= n /\ c \in Seq(M) /\ Len(c) = n + 1
      /\ \A k \in 1 .. n : c[k] = ss[k]
      /\ c[n + 1] = m
  BY <1>1, <1>2, <1>4, AppendProperties, LenProperties
<1>6. b \o q \in Seq(Bytes)
  BY <1>2, <1>3, ConcatProperties
<1>7. ASSUME d = "down"
      PROVE  \A k \in 1 .. Len(c) : Size(Response, c[k]) < Wrap
  <2>1. \A k \in 1 .. n : Size(Response, ss[k]) < Wrap
    BY <1>4, <1>7 DEF Channel
  <2> SUFFICES ASSUME NEW k \in 1 .. Len(c) PROVE Size(Response, c[k]) < Wrap
    OBVIOUS
  <2>2. CASE k = n + 1
    BY <1>5, <1>7, <2>2
  <2>3. CASE k \in 1 .. n
    BY <1>5, <2>1, <2>3
  <2> QED
    BY <1>5, <2>2, <2>3
<1>8. g <= Len(c)
  BY <1>5
<1>9. \A h \in 0 .. g : Accepted(d, gg, ss, h) => Accepted(d, gg, c, h)
  BY <1>5 DEF Accepted
<1>10. CASE Accepted(d, gg, ss, g) /\ Flow(b, g, ss, T, TRUE)
  <2>1. Flow(b \o q, g, c, T, op)
    BY <1>1, <1>2, <1>4, <1>10, FlowGrows
  <2>2. Accepted(d, gg, c, g)
    BY <1>5, <1>9, <1>10
  <2> QED
    BY <2>1, <2>2, <1>1, <1>2, <1>4, <1>5, <1>6, <1>7, <1>8 DEF Channel
<1>11. CASE Astray(d, b, TRUE, ss, gg)
  <2>1. /\ d = "up" /\ g >= 1 /\ Accepted(d, gg, ss, g - 1) /\ gg[g] \in Nones
        /\ Size(Request, ss[g]) >= Wrap /\ TagFirst(b) /\ Len(b) >= 2
    BY <1>4, <1>11 DEF Astray
  <2>2. c[g] = ss[g] /\ g - 1 \in 0 .. g
    BY <1>5, <2>1
  <2>3. Accepted(d, gg, c, g - 1)
    BY <1>9, <2>1, <2>2
  <2>4. PICK a : a = b \o q /\ IsConcat(a, b, q)
    BY <1>2, <1>3, ConcatBytes
  <2>5. Len(b) \in Nat /\ Len(q) \in Nat /\ Len(a) = Len(b) + Len(q) /\
        a \in Seq(Bytes) /\ a[1] = b[1]
    BY <2>1, <2>4 DEF IsConcat
  <2>6. Len(a) >= 2 /\ b # <<>>
    BY <2>1, <2>5, EmptySeq
  <2>7. TagFirst(a)
    BY <2>1, <2>5, <2>6 DEF TagFirst
  <2>8. Astray(d, a, op, c, gg)
    BY <1>4, <2>1, <2>2, <2>3, <2>6, <2>7 DEF Astray
  <2> QED
    BY <2>4, <2>8, <1>1, <1>2, <1>4, <1>5, <1>6, <1>7, <1>8 DEF Channel
<1> QED
  BY <1>1, <1>4, <1>10, <1>11 DEF Channel


(* A message is not Invalid, and has a command.                            *)
LEMMA MessagesValid ==
  ASSUME NEW T, IsTable(T), NEW m \in Messages(T)
  PROVE  m # Invalid /\ m \notin Nones /\ m.cmd \in DOMAIN T
BY DEF IsTable, Messages, Invalid, Message, Nones

(* A tag where a length should be is a length that the server refuses.     *)
LEMMA TagTooLong ==
  ASSUME NEW b, TagFirst(b), Len(b) >= 2
  PROVE  Length(b) \in Nat /\ Length(b) > MaxMsg
<1>1. PICK x, y : x = b[1] /\ y = b[2]
  OBVIOUS
<1>2. b \in Seq(Bytes) /\ b # <<>> /\ Len(b) \in Nat
  BY EmptySeq, LenProperties DEF TagFirst
<1>3. 1 \in 1 .. Len(b) /\ 2 \in 1 .. Len(b)
  BY <1>2
<1>4. x \in Bytes /\ y \in Bytes
  BY <1>1, <1>2, <1>3, ElementOfSeq
<1>5. x >= 10
  BY <1>1, <1>2 DEF TagFirst, Tag
<1>6. x \in Nat /\ y \in Nat /\ Base \in Nat /\ MaxMsg \in Nat
  BY <1>4, ConstantFacts DEF Bytes
<1>7. MaxMsg < 10 * Base
  BY FramingAssumption, <1>6 DEF Tag
<1>8. PICK e \in Nat : x = 10 + e
  <2>1. x - 10 \in Nat /\ x = 10 + (x - 10)
    BY <1>5, <1>6
  <2> QED
    BY <2>1
<1>9. x * Base = 10 * Base + e * Base /\ e * Base \in Nat /\ x * Base \in Nat
  BY <1>6, <1>8
<1>10. Length(b) = x * Base + y
  BY <1>1 DEF Length
<1> QED
  BY <1>6, <1>7, <1>9, <1>10

(* What the reader finds at the front of the stream: the next message, or  *)
(* a length that the server refuses.                                       *)
LEMMA ChannelFront ==
  ASSUME NEW d \in Dirs, NEW b, NEW op, NEW ss, NEW gg,
         Channel(d, b, op, ss, gg), b # <<>>
  PROVE  \/ /\ Accepted(d, gg, ss, Len(gg)) /\ Flow(b, Len(gg), ss, Table[d], op)
            /\ Len(gg) + 1 \in 1 .. Len(ss)
            /\ StartsFrame(b, Table[d], ss[Len(gg) + 1])
            /\ op => Len(b) >= 2 + Size(Table[d], ss[Len(gg) + 1])
            /\ d = "down" => Size(Response, ss[Len(gg) + 1]) < Wrap
         \/ /\ Astray(d, b, op, ss, gg) /\ Len(gg) \in 1 .. Len(ss)
            /\ Size(Request, ss[Len(gg)]) > MaxMsg
            /\ Len(b) >= 2 => Length(b) \in Nat /\ Length(b) > MaxMsg
<1>1. PICK T, M, g : T = Table[d] /\ IsTable(T) /\ M = Messages(T) /\ g = Len(gg)
  BY TableFacts
<1>2. ss \in Seq(M) /\ gg \in Seq(M \cup Nones) /\ g <= Len(ss)
  BY <1>1 DEF Channel
<1>3. Len(ss) \in Nat /\ g \in Nat
  BY <1>1, <1>2, LenProperties
<1>4. CASE Accepted(d, gg, ss, g) /\ Flow(b, g, ss, T, op)
  <2>1. /\ g + 1 \in 1 .. Len(ss) /\ StartsFrame(b, T, ss[g + 1])
        /\ op => Len(b) >= 2 + Size(T, ss[g + 1])
    BY <1>1, <1>2, <1>4, FlowFront
  <2>2. d = "down" => Size(Response, ss[g + 1]) < Wrap
    BY <2>1 DEF Channel
  <2> QED
    BY <1>1, <1>4, <2>1, <2>2
<1>5. CASE Astray(d, b, op, ss, gg)
  <2>1. d = "up" /\ g >= 1 /\ Size(Request, ss[g]) >= Wrap /\ TagFirst(b)
    BY <1>1, <1>5 DEF Astray
  <2>2. g \in 1 .. Len(ss)
    BY <1>2, <1>3, <2>1
  <2>3. ss[g] \in M
    BY <1>2, <2>2, ElementOfSeq
  <2>4. Size(Request, ss[g]) \in Nat
    BY <1>1, <2>1, <2>3, TableFacts, WriteProperties
  <2>5. Size(Request, ss[g]) > MaxMsg
    BY <2>1, <2>4, ConstantFacts
  <2> QED
    BY <1>1, <1>5, <2>1, <2>2, <2>5, TagTooLong
<1> QED
  BY <1>1, <1>4, <1>5 DEF Channel


(* A request was written that is longer than the server reads.             *)
HasTooLong(ss) == \E k \in 1 .. Len(ss) : Size(Request, ss[k]) > MaxMsg

(* The server refuses a length only if a request of more than MaxMsg bytes *)
(* was written.                                                            *)
LEMMA ChannelTooLong ==
  ASSUME NEW b, NEW op, NEW ss, NEW gg, Channel("up", b, op, ss, gg),
         Len(b) >= 2, Length(b) > MaxMsg
  PROVE  HasTooLong(ss)
<1>1. PICK d \in Dirs : d = "up" /\ Table[d] = Request
  BY TableFacts
<1>2. Channel(d, b, op, ss, gg) /\ IsTable(Table[d])
  BY <1>1, TableFacts
<1>3. b # <<>> /\ ss \in Seq(Messages(Table[d]))
  BY <1>2, EmptySeq DEF Channel
<1>4. PICK g : g = Len(gg) + 1
  OBVIOUS
<1>5. CASE g \in 1 .. Len(ss) /\ StartsFrame(b, Table[d], ss[g])
  <2>1. ss[g] \in Messages(Table[d])
    BY <1>3, <1>5, ElementOfSeq
  <2>2. PICK s, n : s = Size(Table[d], ss[g]) /\ n = Length(b)
    OBVIOUS
  <2>3. s \in Nat /\ n = s % Wrap /\ n \in Nat /\ (s < Wrap => n = s)
    BY <1>2, <1>5, <2>1, <2>2, FrameLength, ConstantFacts
  <2>4. s > MaxMsg
    BY <2>2, <2>3, ConstantFacts
  <2> QED
    BY <1>1, <1>5, <2>2, <2>4 DEF HasTooLong
<1>6. CASE Len(gg) \in 1 .. Len(ss) /\ Size(Request, ss[Len(gg)]) > MaxMsg
  BY <1>6 DEF HasTooLong
<1> QED
  BY <1>2, <1>3, <1>4, <1>5, <1>6, ChannelFront

(* While the writer writes whole messages, the reader has one to return,   *)
(* or a length to refuse.                                                  *)
LEMMA ChannelArrives ==
  ASSUME NEW d \in Dirs, NEW b, NEW ss, NEW gg, Channel(d, b, TRUE, ss, gg),
         b # <<>>
  PROVE  /\ Len(b) >= 2 /\ Length(b) \in Nat
         /\ TooLong(d, Length(b)) \/ Len(b) >= 2 + Length(b)
<1>1. ss \in Seq(Messages(Table[d])) /\ b \in Seq(Bytes) /\ IsTable(Table[d])
  BY TableFacts DEF Channel
<1>2. Len(b) \in Nat
  BY <1>1, LenProperties
<1>3. PICK g : g = Len(gg) + 1
  OBVIOUS
<1>4. CASE /\ g \in 1 .. Len(ss) /\ StartsFrame(b, Table[d], ss[g])
           /\ Len(b) >= 2 + Size(Table[d], ss[g])
  <2>1. ss[g] \in Messages(Table[d])
    BY <1>1, <1>4, ElementOfSeq
  <2>2. PICK s : s = Size(Table[d], ss[g]) /\ s \in Nat
    BY <1>1, <2>1, WriteProperties
  <2>3. Len(b) >= 2
    BY <1>2, <1>4, <2>2
  <2>4. PICK n : /\ n = Length(b) /\ n = s % Wrap /\ n \in 0 .. Wrap - 1
                 /\ s < Wrap => n = s
    BY <1>1, <1>4, <2>1, <2>2, <2>3, FrameLength
  <2>5. n <= s
    BY <2>2, <2>4, ConstantFacts
  <2> QED
    BY <1>2, <1>4, <2>2, <2>3, <2>4, <2>5, ConstantFacts
<1>5. CASE Astray(d, b, TRUE, ss, gg) /\
           (Len(b) >= 2 => Length(b) \in Nat /\ Length(b) > MaxMsg)
  <2>1. d = "up" /\ Len(b) >= 2
    BY <1>5 DEF Astray
  <2> QED
    BY <1>5, <2>1 DEF TooLong
<1> QED
  BY <1>3, <1>4, <1>5, ChannelFront

(* The reader takes a message.                                             *)
LEMMA ChannelRead ==
  ASSUME NEW d \in Dirs, NEW b, NEW op, NEW ss, NEW gg,
         Channel(d, b, op, ss, gg), NEW n, n = Length(b), Len(b) >= 2,
         ~ TooLong(d, n), Len(b) >= 2 + n, NEW p,
         p = Parse(Table[d], SubSeq(b, 3, 2 + n))
  PROVE  /\ p = Invalid => d = "up" /\ HasTooLong(ss)
         /\ p # Invalid => Channel(d, SubSeq(b, 3 + n, Len(b)), op, ss, Append(gg, p))
<1>1. PICK T, M, g : T = Table[d] /\ IsTable(T) /\ M = Messages(T) /\ g = Len(gg)
  BY TableFacts
<1>2. /\ ss \in Seq(M) /\ gg \in Seq(M \cup Nones) /\ g <= Len(ss)
      /\ b \in Seq(Bytes) /\ op \in BOOLEAN
  BY <1>1 DEF Channel
<1>3. Len(ss) \in Nat /\ g \in Nat /\ Len(b) \in Nat
  BY <1>1, <1>2, LenProperties
<1>4. b # <<>>
  BY EmptySeq
<1>5. ~ (Astray(d, b, op, ss, gg) /\ n \in Nat /\ n > MaxMsg)
  BY DEF Astray, TooLong
<1>6. /\ Accepted(d, gg, ss, g) /\ Flow(b, g, ss, T, op)
      /\ g + 1 \in 1 .. Len(ss) /\ StartsFrame(b, T, ss[g + 1])
      /\ op => Len(b) >= 2 + Size(T, ss[g + 1])
      /\ d = "down" => Size(Response, ss[g + 1]) < Wrap
  BY <1>1, <1>4, <1>5, ChannelFront
<1>7. PICK m : m = ss[g + 1] /\ m \in M
  BY <1>2, <1>6, ElementOfSeq
<1>8. PICK s : s = Size(T, m) /\ s \in Nat
  BY <1>1, <1>7, WriteProperties
<1>9. n \in Nat /\ n < Wrap /\ (s < Wrap => n = s)
  <2>1. n \in 0 .. Wrap - 1 /\ (s < Wrap => n = s)
    BY <1>1, <1>6, <1>7, <1>8, FrameLength
  <2> QED
    BY <2>1, ConstantFacts
<1>10. PICK c : c = SubSeq(b, 3 + n, Len(b)) /\ c \in Seq(Bytes)
  <2>1. 3 + n \in Nat /\ 3 + n >= 1 /\ Len(b) <= Len(b)
    BY <1>3, <1>9
  <2> QED
    BY <1>2, <1>3, <2>1, SubSeqBytes
<1>11. p = Parse(T, SubSeq(b, 3, 2 + n))
  BY <1>1
<1>12. g + 1 <= Len(ss)
  BY <1>3, <1>6
<1>13. ASSUME p \in M \cup Nones
       PROVE  /\ Append(gg, p) \in Seq(M \cup Nones) /\ Len(Append(gg, p)) = g + 1
              /\ Append(gg, p)[g + 1] = p
              /\ \A k \in 1 .. g : Append(gg, p)[k] = gg[k]
  BY <1>1, <1>2, <1>13, AppendProperties
<1>14. d = "down" => \A k \in 1 .. Len(ss) : Size(Response, ss[k]) < Wrap
  BY DEF Channel
<1>15. CASE s < Wrap
  <2>1. p = m
    BY <1>1, <1>6, <1>7, <1>8, <1>9, <1>11, <1>15, ReadWhole
  <2>2. Flow(c, g + 1, ss, T, op)
    <3>1. g < Len(ss)
      BY <1>3, <1>12
    <3> QED
      BY <3>1, <1>1, <1>2, <1>6, <1>7, <1>8, <1>9, <1>10, <1>15, FlowRead
  <2>3. PICK a : /\ a = Append(gg, p) /\ a \in Seq(M \cup Nones) /\ Len(a) = g + 1
                 /\ a[g + 1] = m /\ \A k \in 1 .. g : a[k] = gg[k]
    BY <1>7, <1>13, <2>1
  <2>4. s <= Limit(d)
    <3>1. d = "up" => n <= MaxMsg
      BY <1>9, ConstantFacts DEF TooLong
    <3> QED
      BY <3>1, <1>8, <1>9, <1>15, ConstantFacts DEF Limit
  <2>5. Accepted(d, a, ss, g + 1)
    <3> SUFFICES ASSUME NEW k \in 1 .. g + 1
                 PROVE  a[k] = ss[k] /\ Size(T, ss[k]) <= Limit(d)
      BY <1>1 DEF Accepted
    <3>1. CASE k = g + 1
      BY <3>1, <2>3, <2>4, <1>7, <1>8
    <3>2. CASE k \in 1 .. g
      BY <3>2, <2>3, <1>1, <1>6 DEF Accepted
    <3> QED
      BY <3>1, <3>2, <1>3
  <2>6. p # Invalid
    BY <2>1, <1>1, <1>7, MessagesValid
  <2>7. Channel(d, c, op, ss, a)
    BY <2>2, <2>3, <2>5, <1>1, <1>2, <1>10, <1>12, <1>14 DEF Channel
  <2> QED
    BY <2>3, <2>6, <2>7, <1>10
<1>16. CASE s >= Wrap
  <2>1. d = "up" /\ T = Request
    <3>1. d # "down"
      BY <1>1, <1>6, <1>7, <1>8, <1>16, TableFacts, ConstantFacts
    <3> QED
      BY <3>1, <1>1, TableFacts
  <2>2. HasTooLong(ss)
    <3>1. s > MaxMsg
      BY <1>8, <1>16, ConstantFacts
    <3> QED
      BY <3>1, <1>6, <1>7, <1>8, <2>1 DEF HasTooLong
  <2>3. ASSUME p # Invalid
        PROVE  Channel(d, c, op, ss, Append(gg, p))
    <3>1. p \in Nones /\ TagFirst(c) /\ (Len(b) >= 2 + s => Len(c) >= 2)
      BY <1>1, <1>6, <1>7, <1>8, <1>9, <1>10, <1>11, <1>16, <2>3, ReadWrapped
    <3>2. PICK a : /\ a = Append(gg, p) /\ a \in Seq(M \cup Nones) /\ Len(a) = g + 1
                   /\ a[g + 1] = p /\ \A k \in 1 .. g : a[k] = gg[k]
      BY <1>13, <3>1
    <3>3. Accepted(d, a, ss, g)
      BY <3>2, <1>6 DEF Accepted
    <3>4. op => Len(c) >= 2
      BY <3>1, <1>6, <1>7, <1>8
    <3>5. Len(a) >= 1 /\ Len(a) - 1 = g /\ a[Len(a)] = p /\ ss[Len(a)] = m
      BY <3>2, <1>3, <1>7
    <3>6. Astray(d, c, op, ss, a)
      BY <3>1, <3>3, <3>4, <3>5, <2>1, <1>8, <1>16 DEF Astray
    <3>7. Channel(d, c, op, ss, a)
      BY <3>2, <3>6, <1>1, <1>2, <1>10, <1>12, <1>14 DEF Channel
    <3> QED
      BY <3>2, <3>7
  <2> QED
    BY <2>1, <2>2, <2>3, <1>10
<1> QED
  BY <1>8, <1>15, <1>16, ConstantFacts


(* A request that the server has returned is the one written, and no       *)
(* longer than MaxMsg, or has no command.                                  *)
LEMMA GotRequest ==
  ASSUME NEW b, NEW op, NEW ss, NEW gg, Channel("up", b, op, ss, gg),
         NEW k \in 1 .. Len(gg)
  PROVE  \/ /\ gg[k] \in Messages(Request) /\ Size(Request, gg[k]) <= MaxMsg
            /\ gg[k] = ss[k]
         \/ /\ gg[k] \in Nones /\ k = Len(gg) /\ HasTooLong(ss)
            /\ Size(Request, ss[k]) >= Wrap
<1>1. PICK d \in Dirs : d = "up" /\ Table[d] = Request /\ IsTable(Request)
  BY TableFacts
<1>2. /\ ss \in Seq(Messages(Request)) /\ gg \in Seq(Messages(Request) \cup Nones)
      /\ Len(gg) <= Len(ss) /\ Limit("up") = MaxMsg
  BY <1>1 DEF Channel, Limit
<1>3. Len(gg) \in Nat /\ Len(ss) \in Nat
  BY <1>2, LenProperties
<1>4. k \in 1 .. Len(ss)
  BY <1>2, <1>3
<1>5. ss[k] \in Messages(Request)
  BY <1>2, <1>4, ElementOfSeq
<1>6. CASE Accepted("up", gg, ss, Len(gg))
  <2>1. gg[k] = ss[k] /\ Size(Request, ss[k]) <= MaxMsg
    BY <1>1, <1>2, <1>6 DEF Accepted
  <2> QED
    BY <1>5, <2>1
<1>7. CASE Astray("up", b, op, ss, gg)
  <2>1. CASE k = Len(gg)
    <3>1. gg[k] \in Nones /\ Size(Request, ss[k]) >= Wrap
      BY <1>7, <2>1 DEF Astray
    <3>2. Size(Request, ss[k]) \in Nat
      BY <1>1, <1>5, WriteProperties
    <3>3. Size(Request, ss[k]) > MaxMsg
      BY <3>1, <3>2, ConstantFacts
    <3> QED
      BY <1>4, <2>1, <3>1, <3>3 DEF HasTooLong
  <2>2. CASE k # Len(gg)
    <3>1. k \in 1 .. Len(gg) - 1 /\ Accepted("up", gg, ss, Len(gg) - 1)
      BY <1>3, <1>7, <2>2 DEF Astray
    <3>2. gg[k] = ss[k] /\ Size(Request, ss[k]) <= MaxMsg
      BY <1>1, <1>2, <3>1 DEF Accepted
    <3> QED
      BY <1>5, <3>2
  <2> QED
    BY <2>1, <2>2
<1> QED
  BY <1>6, <1>7 DEF Channel

(* A response that the reader has returned is the one written.             *)
LEMMA GotResponse ==
  ASSUME NEW b, NEW op, NEW ss, NEW gg, Channel("down", b, op, ss, gg),
         NEW k \in 1 .. Len(gg)
  PROVE  gg[k] = ss[k]
BY DEF Channel, Astray, Accepted

-----------------------------------------------------------------------------
(* The invariant of the streams.                                           *)

(* Why a reader has stopped.                                               *)
GivesUp ==
  /\ reading["down"] \/ ~ open["down"]
  /\ reading["up"] \/ ~ open["up"] \/ HasTooLong(sent["up"])

(* All that is said of both directions.                                    *)
Streams ==
  /\ TypeOK
  /\ DOMAIN sent = Dirs /\ DOMAIN got = Dirs
  /\ \A d \in Dirs : Channel(d, stream[d], open[d], sent[d], got[d])
  /\ GivesUp

(* A message that is too long stays written.                               *)
LEMMA HasTooLongStays ==
  ASSUME NEW S, NEW ss \in Seq(S), NEW m \in S, HasTooLong(ss)
  PROVE  HasTooLong(Append(ss, m))
<1>1. PICK k \in 1 .. Len(ss) : Size(Request, ss[k]) > MaxMsg
  BY DEF HasTooLong
<1>2. PICK c : c = Append(ss, m)
  OBVIOUS
<1>3. Len(ss) \in Nat /\ Len(c) = Len(ss) + 1 /\ c[k] = ss[k]
  BY <1>2, AppendProperties, LenProperties
<1>4. k \in 1 .. Len(c)
  BY <1>3
<1>5. HasTooLong(c)
  BY <1>1, <1>4, <1>3 DEF HasTooLong
<1> QED
  BY <1>2, <1>5

(* Writing a message, whole or in part.                                    *)
LEMMA WriteToKeeps ==
  ASSUME Streams, NEW d \in Dirs, NEW m \in Messages(Table[d]),
         d = "down" => Size(Response, m) < Wrap, WriteTo(d, m), got' = got
  PROVE  /\ stream' \in [Dirs -> Seq(Bytes)] /\ open' \in [Dirs -> BOOLEAN]
         /\ DOMAIN sent' = Dirs
         /\ \A e \in Dirs : Channel(e, stream'[e], open'[e], sent'[e], got'[e])
         /\ \A e \in Dirs : open'[e] => open[e]
         /\ HasTooLong(sent["up"]) => HasTooLong(sent'["up"])
<1>1. PICK f : f = Frame(Write(Table[d], m)) /\ IsFrame(f, Table[d], m)
  BY TableFacts, FrameProperties
<1>2. PICK s : s = Size(Table[d], m) /\ s \in Nat /\ Len(f) = 2 + s /\ f \in Seq(Bytes)
  BY <1>1, TableFacts, WriteProperties DEF IsFrame
<1>3. /\ stream \in [Dirs -> Seq(Bytes)] /\ open \in [Dirs -> BOOLEAN]
      /\ DOMAIN sent = Dirs
      /\ \A e \in Dirs : Channel(e, stream[e], open[e], sent[e], got[e])
  BY DEF Streams, TypeOK
<1>4. open[d] /\ open[d] = TRUE /\ sent' = [sent EXCEPT ![d] = Append(@, m)]
  BY <1>3 DEF WriteTo
<1>5. PICK q, o : /\ Begins(q, f) /\ o \in BOOLEAN /\ (Len(q) # 2 + s => ~ o)
                  /\ stream' = [stream EXCEPT ![d] = @ \o q]
                  /\ open' = [open EXCEPT ![d] = o]
  <2>1. CASE stream' = [stream EXCEPT ![d] = @ \o f] /\ UNCHANGED open
    <3>1. Begins(f, f)
      BY <1>2 DEF Begins
    <3>2. open' = [open EXCEPT ![d] = TRUE]
      BY <1>3, <1>4, <2>1
    <3> QED
      BY <1>2, <2>1, <3>1, <3>2
  <2>2. CASE /\ \E k \in 0 .. Min({MaxCut, Len(f)}) - 1 :
                  stream' = [stream EXCEPT ![d] = @ \o SubSeq(f, 1, k)]
             /\ open' = [open EXCEPT ![d] = FALSE]
    <3>1. PICK k \in 0 .. Min({MaxCut, Len(f)}) - 1 :
                 stream' = [stream EXCEPT ![d] = @ \o SubSeq(f, 1, k)]
      BY <2>2
    <3>2. MaxCut \in Nat /\ Len(f) \in Nat
      BY <1>2, FramingAssumption
    <3>3. Min({MaxCut, Len(f)}) \in Nat /\ Min({MaxCut, Len(f)}) <= Len(f)
      BY <3>2, MinTwo
    <3>4. k \in Nat /\ k <= Len(f) /\ 0 + 1 = 1 /\ 0 + k = k
      BY <3>2, <3>3
    <3>5. IsSlice(SubSeq(f, 0 + 1, 0 + k), f, 0, k)
      BY <1>2, <3>2, <3>4, SliceOf
    <3>6. Begins(SubSeq(f, 1, k), f)
      BY <3>4, <3>5 DEF IsSlice, Begins
    <3> QED
      BY <2>2, <3>1, <3>6
  <2> QED
    BY <1>1, <2>1, <2>2 DEF WriteTo
<1>6. Channel(d, stream[d] \o q, o, Append(sent[d], m), got[d])
  BY <1>1, <1>2, <1>3, <1>4, <1>5, ChannelWrite
<1>7. \A e \in Dirs : Channel(e, stream'[e], open'[e], sent'[e], got'[e])
  BY <1>3, <1>4, <1>5, <1>6
<1>8. \A e \in Dirs : stream'[e] \in Seq(Bytes)
  BY <1>7 DEF Channel
<1>9. HasTooLong(sent["up"]) => HasTooLong(sent'["up"])
  <2>1. CASE d = "up"
    <3>1. sent["up"] \in Seq(Messages(Table[d]))
      BY <1>3, <2>1 DEF Channel
    <3>2. sent'["up"] = Append(sent["up"], m)
      BY <1>3, <1>4, <2>1
    <3> QED
      BY <3>1, <3>2, HasTooLongStays
  <2>2. CASE d # "up"
    BY <1>4, <2>2
  <2> QED
    BY <2>1, <2>2
<1>10. stream' \in [Dirs -> Seq(Bytes)] /\ DOMAIN sent' = Dirs
  BY <1>3, <1>4, <1>5, <1>8
<1>11. open' \in [Dirs -> BOOLEAN] /\ \A e \in Dirs : open'[e] => open[e]
  BY <1>3, <1>4, <1>5
<1> QED
  BY <1>7, <1>9, <1>10, <1>11


(* Initially nothing has happened.                                         *)
LEMMA StreamsInit == Init => Streams
<1> SUFFICES ASSUME Init PROVE Streams
  OBVIOUS
<1>1. \A d \in Dirs : /\ stream[d] = <<>> /\ sent[d] = <<>> /\ got[d] = <<>>
                      /\ open[d] = TRUE
  BY DEF Init
<1>2. \A d \in Dirs : Channel(d, stream[d], open[d], sent[d], got[d])
  BY <1>1, ChannelInit
<1>3. DOMAIN sent = Dirs /\ DOMAIN got = Dirs
  BY DEF Init
<1>4. Len(got["up"]) = 0
  BY <1>1, TableFacts, EmptySeq
<1>5. \A d \in Dirs : stream[d] \in Seq(Bytes)
  BY <1>2 DEF Channel
<1>6. TypeOK
  BY <1>4, <1>5 DEF Init, TypeOK
<1>7. GivesUp
  BY TableFacts DEF Init, GivesUp
<1> QED
  BY <1>2, <1>3, <1>6, <1>7 DEF Streams

(* Every step keeps the invariant.                                         *)
LEMMA StreamsNext == Streams /\ [Next]_vars => Streams'
<1> SUFFICES ASSUME Streams, [Next]_vars PROVE Streams'
  OBVIOUS
<1>0. /\ transport \in {"tcp", "udp"} /\ me \in Strings
      /\ stream \in [Dirs -> Seq(Bytes)] /\ open \in [Dirs -> BOOLEAN]
      /\ reading \in [Dirs -> BOOLEAN] /\ answered \in 0 .. Len(got["up"])
      /\ DOMAIN sent = Dirs /\ DOMAIN got = Dirs /\ GivesUp
      /\ \A d \in Dirs : Channel(d, stream[d], open[d], sent[d], got[d])
      /\ "up" \in Dirs /\ "down" \in Dirs
  BY TableFacts DEF Streams, TypeOK
<1>1. Len(got["up"]) \in Nat
  <2>1. got["up"] \in Seq(Messages(Table["up"]) \cup Nones)
    BY <1>0 DEF Channel
  <2> QED
    BY <2>1, LenProperties
<1>2. ASSUME NEW m \in Requests(me), WriteReq(m)
      PROVE  Streams'
  <2>1. m \in Messages(Table["up"])
    BY <1>0, <1>2, RequestsIn, TableFacts
  <2>2. WriteTo("up", m) /\ UNCHANGED <<transport, me, got, reading, answered, dgram>>
    BY <1>2 DEF WriteReq
  <2>3. /\ stream' \in [Dirs -> Seq(Bytes)] /\ open' \in [Dirs -> BOOLEAN]
        /\ DOMAIN sent' = Dirs
        /\ \A e \in Dirs : Channel(e, stream'[e], open'[e], sent'[e], got'[e])
        /\ \A e \in Dirs : open'[e] => open[e]
        /\ HasTooLong(sent["up"]) => HasTooLong(sent'["up"])
    BY <1>0, <2>1, <2>2, WriteToKeeps
  <2> QED
    BY <1>0, <2>2, <2>3 DEF Streams, TypeOK, GivesUp
<1>3. CASE Handle
  <2>1. PICK m : m = got["up"][answered + 1]
    OBVIOUS
  <2>2. /\ answered < Len(got["up"]) /\ answered' = answered + 1
        /\ UNCHANGED <<transport, me, got, reading, dgram>>
        /\ \/ \E r \in Responses(m) : WriteTo("down", [r EXCEPT !.id = <<>>])
           \/ UNCHANGED <<sent, stream, open>>
    BY <1>3, <2>1 DEF Handle
  <2>3. answered + 1 \in 1 .. Len(got["up"]) /\ answered' \in 0 .. Len(got'["up"])
    BY <1>0, <1>1, <2>2
  <2>4. CASE UNCHANGED <<sent, stream, open>>
    BY <1>0, <2>2, <2>3, <2>4 DEF Streams, TypeOK, GivesUp
  <2>5. CASE \E r \in Responses(m) : WriteTo("down", [r EXCEPT !.id = <<>>])
    <3>1. PICK r \in Responses(m) : WriteTo("down", [r EXCEPT !.id = <<>>])
      BY <2>5
    <3>2. m \notin Nones
      BY <3>1 DEF Nones, Responses
    <3>3. m \in Messages(Request) /\ Size(Request, m) <= MaxMsg
      BY <1>0, <2>1, <2>3, <3>2, GotRequest
    <3>4. PICK s : s = [r EXCEPT !.id = <<>>]
      OBVIOUS
    <3>5. s \in Messages(Table["down"]) /\ Size(Response, s) < Wrap
      BY <3>1, <3>3, <3>4, ResponseParts, ResponseFits, TableFacts
    <3>6. /\ stream' \in [Dirs -> Seq(Bytes)] /\ open' \in [Dirs -> BOOLEAN]
          /\ DOMAIN sent' = Dirs
          /\ \A e \in Dirs : Channel(e, stream'[e], open'[e], sent'[e], got'[e])
          /\ \A e \in Dirs : open'[e] => open[e]
          /\ HasTooLong(sent["up"]) => HasTooLong(sent'["up"])
      BY <1>0, <2>2, <3>1, <3>4, <3>5, WriteToKeeps
    <3> QED
      BY <1>0, <2>2, <2>3, <3>6 DEF Streams, TypeOK, GivesUp
  <2> QED
    BY <2>2, <2>4, <2>5
<1>4. CASE HandlerEnds
  <2>1. PICK k : k = answered + 1 /\ k \in 1 .. Len(got["up"]) /\ got["up"][k].cmd = "None"
    BY <1>0, <1>1, <1>4 DEF HandlerEnds
  <2>2. HasTooLong(sent["up"])
    BY <1>0, <2>1, GotRequest, RequestParts
  <2>3. /\ reading' = [reading EXCEPT !["up"] = FALSE]
        /\ open' = [open EXCEPT !["down"] = FALSE]
        /\ UNCHANGED <<transport, me, sent, stream, got, answered, dgram>>
    BY <1>4 DEF HandlerEnds
  <2>4. Channel("down", stream["down"], FALSE, sent["down"], got["down"])
    BY <1>0, ChannelClose
  <2>5. \A d \in Dirs : Channel(d, stream'[d], open'[d], sent'[d], got'[d])
    BY <1>0, <2>3, <2>4
  <2>6. open' \in [Dirs -> BOOLEAN] /\ reading' \in [Dirs -> BOOLEAN] /\ ~ open'["down"]
    BY <1>0, <2>3
  <2> QED
    BY <1>0, <2>2, <2>3, <2>5, <2>6 DEF Streams, TypeOK, GivesUp
<1>5. ASSUME NEW d \in Dirs, Read(d) \/ ReadFails(d)
      PROVE  Streams'
  <2>1. PICK b, n : b = stream[d] /\ n = Length(b)
    OBVIOUS
  <2>2. ASSUME Whole(d)
        PROVE  /\ Len(b) >= 2 /\ ~ TooLong(d, n) /\ Len(b) >= 2 + n
               /\ n \in Nat /\ Body(d) = SubSeq(b, 3, 2 + n)
    <3>1. Len(b) >= 2 /\ ~ TooLong(d, n) /\ Len(b) >= 2 + n
      BY <2>1, <2>2 DEF Whole
    <3>2. b \in Seq(Bytes)
      BY <1>0, <2>1
    <3>3. Len(b) \in Nat
      BY <3>2, LenProperties
    <3>4. 1 \in 1 .. Len(b) /\ 2 \in 1 .. Len(b)
      BY <3>1, <3>3
    <3>5. b[1] \in Bytes /\ b[2] \in Bytes
      BY <3>2, <3>4, ElementOfSeq
    <3>6. n \in Nat
      <4>1. PICK x, y \in Nat : x = b[1] /\ y = b[2]
        BY <3>5, ConstantFacts DEF Bytes
      <4>2. x * Base \in Nat
        BY <4>1, ConstantFacts
      <4>3. n = x * Base + y
        BY <2>1, <4>1 DEF Length
      <4> QED
        BY <4>1, <4>2, <4>3
    <3>7. Min({Len(b), 2 + n}) = 2 + n
      BY <3>1, <3>3, <3>6, MinTwo
    <3> QED
      BY <2>1, <3>1, <3>6, <3>7 DEF Body
  <2>3. Channel(d, b, open[d], sent[d], got[d])
    BY <1>0, <2>1
  <2>4. CASE Read(d)
    <3>1. PICK p : /\ p = Parse(Table[d], Body(d)) /\ p # Invalid
                   /\ got' = [got EXCEPT ![d] = Append(@, p)]
      BY <2>4 DEF Read
    <3>2. /\ Whole(d) /\ UNCHANGED <<transport, me, sent, open, reading, answered, dgram>>
          /\ stream' = [stream EXCEPT ![d] = SubSeq(b, 3 + n, Len(b))]
      BY <1>0, <2>1, <2>4 DEF Read
    <3>3. Channel(d, SubSeq(b, 3 + n, Len(b)), open[d], sent[d], Append(got[d], p))
      BY <2>1, <2>2, <2>3, <3>1, <3>2, ChannelRead
    <3>4. \A e \in Dirs : Channel(e, stream'[e], open'[e], sent'[e], got'[e])
      BY <1>0, <3>1, <3>2, <3>3
    <3>5. \A e \in Dirs : stream'[e] \in Seq(Bytes)
      BY <3>4 DEF Channel
    <3>6. stream' \in [Dirs -> Seq(Bytes)]
      BY <1>0, <3>2, <3>5
    <3>7. DOMAIN got' = Dirs
      BY <1>0, <3>1
    <3>8. answered' \in 0 .. Len(got'["up"])
      <4>1. CASE d = "up"
        <5>1. got'["up"] = Append(got["up"], p)
          BY <1>0, <3>1, <4>1
        <5>2. p \in Messages(Table[d]) \cup Nones /\
              got["up"] \in Seq(Messages(Table[d]) \cup Nones)
          <6>1. got'[d] \in Seq(Messages(Table[d]) \cup Nones)
            BY <3>4 DEF Channel
          <6>2. got[d] \in Seq(Messages(Table[d]) \cup Nones)
            BY <2>3 DEF Channel
          <6>3. p = got'[d][Len(got[d]) + 1] /\ Len(got'[d]) = Len(got[d]) + 1
            BY <6>2, <5>1, <4>1
          <6>4. Len(got[d]) + 1 \in 1 .. Len(got'[d])
            BY <6>2, <6>3, LenProperties
          <6> QED
            BY <4>1, <6>1, <6>2, <6>3, <6>4, ElementOfSeq
        <5>3. Len(got'["up"]) = Len(got["up"]) + 1
          BY <5>1, <5>2, AppendProperties
        <5> QED
          BY <1>0, <1>1, <3>2, <5>3
      <4>2. CASE d # "up"
        BY <1>0, <3>1, <3>2, <4>2
      <4> QED
        BY <4>1, <4>2
    <3> QED
      BY <1>0, <3>2, <3>4, <3>6, <3>7, <3>8 DEF Streams, TypeOK, GivesUp
  <2>5. CASE ReadFails(d)
    <3>1. /\ reading' = [reading EXCEPT ![d] = FALSE]
          /\ open' = IF d = "up" THEN [open EXCEPT !["down"] = FALSE] ELSE open
          /\ UNCHANGED <<transport, me, sent, stream, got, answered, dgram>>
          /\ \/ Len(b) >= 2 /\ TooLong(d, n)
             \/ Whole(d) /\ Parse(Table[d], Body(d)) = Invalid
             \/ ~ open[d]
      BY <2>1, <2>5 DEF ReadFails
    <3>2. ~ open[d] \/ (d = "up" /\ HasTooLong(sent["up"]))
      <4>1. CASE Len(b) >= 2 /\ TooLong(d, n)
        <5>1. d = "up" /\ Length(b) > MaxMsg
          BY <2>1, <4>1 DEF TooLong
        <5> QED
          BY <2>3, <4>1, <5>1, ChannelTooLong
      <4>2. CASE Whole(d) /\ Parse(Table[d], Body(d)) = Invalid
        <5>1. PICK p : p = Parse(Table[d], SubSeq(b, 3, 2 + n)) /\ p = Invalid
          BY <2>2, <4>2
        <5> QED
          BY <2>1, <2>2, <2>3, <4>2, <5>1, ChannelRead
      <4>3. CASE ~ open[d]
        BY <4>3
      <4> QED
        BY <3>1, <4>1, <4>2, <4>3
    <3>3. Channel("down", stream["down"], FALSE, sent["down"], got["down"])
      BY <1>0, ChannelClose
    <3>4. \A e \in Dirs : open'[e] = open[e] \/ (e = "down" /\ open'[e] = FALSE)
      <4>1. CASE d = "up"
        BY <1>0, <3>1, <4>1
      <4>2. CASE d # "up"
        BY <3>1, <4>2
      <4> QED
        BY <4>1, <4>2
    <3>5. \A e \in Dirs : Channel(e, stream'[e], open'[e], sent'[e], got'[e])
      BY <1>0, <3>1, <3>3, <3>4
    <3>6. open' \in [Dirs -> BOOLEAN] /\ reading' \in [Dirs -> BOOLEAN]
      BY <1>0, <3>1
    <3>7. GivesUp'
      <4>1. CASE d = "up"
        <5>1. ~ open'["down"] /\ open'["up"] = open["up"]
          BY <1>0, <3>1, <4>1
        <5> QED
          BY <3>1, <3>2, <4>1, <5>1 DEF GivesUp
      <4>2. CASE d = "down"
        <5>1. open' = open /\ reading'["up"] = reading["up"] /\ ~ open["down"]
          BY <1>0, <3>1, <3>2, <4>2
        <5> QED
          BY <1>0, <3>1, <5>1 DEF GivesUp
      <4> QED
        BY <4>1, <4>2, TableFacts
    <3> QED
      BY <1>0, <3>1, <3>5, <3>6, <3>7 DEF Streams, TypeOK
  <2> QED
    BY <1>5, <2>4, <2>5
<1>6. ASSUME UNCHANGED <<transport, me, sent, stream, open, got, reading, answered>>
      PROVE  Streams'
  BY <1>6 DEF Streams, TypeOK, GivesUp
<1>7. CASE SendCmd \/ SendResponse
  BY <1>6, <1>7 DEF SendCmd, SendResponse, Datagram
<1>8. CASE UNCHANGED vars
  BY <1>6, <1>8 DEF vars
<1> QED
  BY <1>2, <1>3, <1>4, <1>5, <1>7, <1>8 DEF Next


(* The invariant holds in every state.                                     *)
LEMMA StreamsAlways == Spec => []Streams
BY StreamsInit, StreamsNext, PTL DEF Spec

(* THEOREM: the variables always have values of their types; in particular *)
(* what is left of a stream after any reads is a sequence of bytes, and no *)
(* more requests are handled than were read.                               *)
THEOREM FramingTypeCorrect == Spec => []TypeOK
<1>1. Streams => TypeOK
  BY DEF Streams
<1> QED
  BY <1>1, StreamsAlways, PTL

(* THEOREM: nothing is misread.  read_req and read_resp return the         *)
(* messages that were written, in order, whatever their number and the     *)
(* length of their strings, and wherever a writer died; the one exception  *)
(* is a request too long for its length, which may be taken for one        *)
(* without command, and is then the last one read.                         *)
THEOREM FramingNeverMisread == Spec => []NeverMisread
<1>1. Streams => NeverMisread
  <2> SUFFICES ASSUME Streams, NEW d \in Dirs, NEW k \in DOMAIN got[d]
               PROVE  \/ got[d][k] = sent[d][k]
                      \/ /\ Size(Table[d], sent[d][k]) >= Wrap
                         /\ got[d][k].cmd = "None" /\ k = Len(got[d])
    BY DEF NeverMisread
  <2>1. Channel(d, stream[d], open[d], sent[d], got[d])
    BY DEF Streams
  <2>2. got[d] \in Seq(Messages(Table[d]) \cup Nones)
    BY <2>1 DEF Channel
  <2>3. k \in 1 .. Len(got[d])
    BY <2>2, LenProperties
  <2>4. CASE d = "up"
    BY <2>1, <2>3, <2>4, GotRequest, TableFacts DEF Nones
  <2>5. CASE d = "down"
    BY <2>1, <2>3, <2>5, GotResponse
  <2> QED
    BY <2>4, <2>5, TableFacts
<1> QED
  BY <1>1, StreamsAlways, PTL

(* THEOREM: a reader gives up only if its writer is gone or has written a  *)
(* request of more than MaxMsg bytes; the responses all fit in a length.   *)
THEOREM FramingFittingAccepted == Spec => []FittingAccepted
<1>1. Streams => FittingAccepted
  <2> SUFFICES ASSUME Streams PROVE FittingAccepted
    OBVIOUS
  <2>1. Channel("up", stream["up"], open["up"], sent["up"], got["up"])
    BY TableFacts DEF Streams
  <2>2. sent["up"] \in Seq(Messages(Table["up"]))
    BY <2>1 DEF Channel
  <2>3. DOMAIN sent["up"] = 1 .. Len(sent["up"])
    BY <2>2, LenProperties
  <2> QED
    BY <2>3 DEF Streams, GivesUp, HasTooLong, FittingAccepted
<1> QED
  BY <1>1, StreamsAlways, PTL

(* THEOREM: no reader waits for bytes that nobody writes.  While its       *)
(* writer lives, a reader that has any byte to read has a whole message,   *)
(* or a length to refuse.                                                  *)
THEOREM FramingNeverStarves == Spec => []NeverStarves
<1>1. Streams => NeverStarves
  <2> SUFFICES ASSUME Streams, NEW d \in Dirs, open[d], stream[d] # <<>>
               PROVE  Whole(d) \/ TooLong(d, Length(stream[d]))
    BY DEF NeverStarves
  <2>1. Channel(d, stream[d], open[d], sent[d], got[d]) /\ open[d] = TRUE
    BY DEF Streams, TypeOK
  <2>2. /\ Len(stream[d]) >= 2
        /\ TooLong(d, Length(stream[d])) \/ Len(stream[d]) >= 2 + Length(stream[d])
    BY <2>1, ChannelArrives
  <2> QED
    BY <2>2 DEF Whole
<1> QED
  BY <1>1, StreamsAlways, PTL

(* THEOREM: whoever can ask can be answered.  The Rsync that answers an    *)
(* Isync the server has read is no longer than the server reads, except    *)
(* for one byte when the Isync was of exactly MaxMsg bytes.                *)
THEOREM FramingAnswerAccepted == Spec => []AnswerAccepted
<1>1. Streams => AnswerAccepted
  <2> SUFFICES ASSUME Streams, NEW k \in DOMAIN got["up"], NEW m,
                      m = got["up"][k], m.cmd = "Isync"
               PROVE  Size(Request, Message(m.args[1], "Rsync", m.id, <<>>)) <=
                        MaxMsg + IF Size(Request, m) < MaxMsg THEN 0 ELSE 1
    BY DEF AnswerAccepted
  <2>1. Channel("up", stream["up"], open["up"], sent["up"], got["up"])
    BY TableFacts DEF Streams
  <2>2. got["up"] \in Seq(Messages(Table["up"]) \cup Nones)
    BY <2>1 DEF Channel
  <2>3. k \in 1 .. Len(got["up"])
    BY <2>2, LenProperties
  <2>4. m \notin Nones
    BY DEF Nones
  <2>5. m \in Messages(Request) /\ Size(Request, m) <= MaxMsg
    BY <2>1, <2>3, <2>4, GotRequest
  <2> QED
    BY <2>5, AnswerFits
<1> QED
  BY <1>1, StreamsAlways, PTL

-----------------------------------------------------------------------------
(* Datagrams.                                                              *)

(* What a datagram is received as.                                         *)
Arrived(d, m, g) ==
  /\ m \in Messages(Table[d])
  /\ IF Size(Table[d], m) <= MaxMsg THEN g = m ELSE g = Invalid \/ g \in Nones

(* A datagram has arrived as what it was sent as or not at all, and        *)
(* responses are only sent to what arrived.                                *)
Datagrams ==
  /\ me \in Strings /\ DOMAIN dgram = Dirs
  /\ \A d \in Dirs :
       dgram[d] = NoDatagram \/ Arrived(d, dgram[d].sent, dgram[d].got)
  /\ dgram["down"] # NoDatagram =>
       /\ dgram["up"].got \in Messages(Request)
       /\ Size(Request, dgram["up"].got) <= MaxMsg
       /\ dgram["down"].sent \in Responses(dgram["up"].got)

(* A message that fits in the buffer is received; what is left of one that *)
(* does not is invalid, or has no command.                                 *)
LEMMA ReceivedProperties ==
  ASSUME NEW d \in Dirs, NEW m \in Messages(Table[d])
  PROVE  Arrived(d, m, Received(d, m))
<1>1. PICK T, w, s : /\ T = Table[d] /\ IsTable(T) /\ w = Write(T, m) /\ s = Size(T, m)
                     /\ m \in Messages(T)
  BY TableFacts
<1>2. w \in Seq(Bytes) /\ Len(w) = s /\ s \in Nat
  BY <1>1, WriteProperties DEF IsConcat
<1>3. Received(d, m) = Parse(T, SubSeq(w, 1, Min({Len(w), MaxMsg})))
  BY <1>1 DEF Received
<1>4. MaxMsg \in Nat /\ MaxMsg < Base * Base /\ Base * Base \in Nat
  BY ConstantFacts
<1>5. CASE s <= MaxMsg
  <2>1. Min({Len(w), MaxMsg}) = s
    BY <1>2, <1>4, <1>5, MinTwo
  <2>2. SubSeq(w, 1, s) = w
    <3>1. s <= Len(w) /\ 0 + 1 = 1 /\ 0 + s = s /\ 0 + s <= Len(w) /\ 0 \in Nat
      BY <1>2
    <3>2. IsSlice(SubSeq(w, 0 + 1, 0 + s), w, 0, s)
      BY <1>2, <3>1, SliceOf
    <3>3. IsSlice(SubSeq(w, 1, s), w, 0, s)
      BY <3>1, <3>2
    <3>4. IsSlice(w, w, 0, s)
      BY <1>2 DEF IsSlice
    <3> QED
      BY <1>2, <3>3, <3>4, SliceUnique
  <2>3. Received(d, m) = Parse(T, Write(T, m))
    BY <1>1, <1>3, <2>1, <2>2
  <2>4. Size(T, m) < Base * Base
    BY <1>1, <1>2, <1>4, <1>5
  <2>5. Received(d, m) = m
    BY <1>1, <2>3, <2>4, ParseWrite
  <2> QED
    BY <1>1, <1>5, <2>5 DEF Arrived
<1>6. CASE s > MaxMsg
  <2>1. Min({Len(w), MaxMsg}) = MaxMsg
    BY <1>2, <1>4, <1>6, MinTwo
  <2>2. PICK p : p = SubSeq(w, 1, MaxMsg)
    OBVIOUS
  <2>3. Begins(p, w) /\ Len(p) = MaxMsg
    <3>1. 0 + 1 = 1 /\ 0 + MaxMsg = MaxMsg /\ 0 + MaxMsg <= Len(w) /\ 0 \in Nat
      BY <1>2, <1>4, <1>6
    <3>2. IsSlice(SubSeq(w, 0 + 1, 0 + MaxMsg), w, 0, MaxMsg)
      BY <1>2, <1>4, <3>1, SliceOf
    <3>3. IsSlice(p, w, 0, MaxMsg)
      BY <2>2, <3>1, <3>2
    <3> QED
      BY <1>2, <1>4, <3>1, <3>3 DEF IsSlice, Begins
  <2>4. Received(d, m) = Parse(T, p)
    BY <1>3, <2>1, <2>2
  <2>5. Begins(p, Write(T, m)) /\ Len(p) < Size(T, m) /\ Len(p) < Base * Base
    BY <1>1, <1>2, <1>4, <1>6, <2>3
  <2>6. Received(d, m) = Invalid \/ Received(d, m) \in Nones
    BY <1>1, <2>4, <2>5, ParseCut
  <2>7. ~ (s <= MaxMsg)
    BY <1>2, <1>4, <1>6
  <2> QED
    BY <1>1, <2>6, <2>7 DEF Arrived
<1> QED
  BY <1>2, <1>4, <1>5, <1>6

(* Only to a request that was received does the server respond.            *)
LEMMA RespondsToRequests ==
  ASSUME NEW m, NEW r \in Responses(m)
  PROVE  m # Invalid /\ m \notin Nones
BY DEF Responses, Invalid, Message, Nones

(* No datagram is sent at first.                                           *)
LEMMA DatagramsInit == Init => Datagrams
BY TableFacts DEF Init, Datagrams

(* Every step keeps what is said of the datagrams.                         *)
LEMMA DatagramsNext == Datagrams /\ [Next]_vars => Datagrams'
<1> SUFFICES ASSUME Datagrams, [Next]_vars PROVE Datagrams'
  OBVIOUS
<1>1. /\ me \in Strings /\ DOMAIN dgram = Dirs
      /\ \A d \in Dirs : dgram[d] = NoDatagram \/ Arrived(d, dgram[d].sent, dgram[d].got)
      /\ "up" \in Dirs /\ "down" \in Dirs
  BY TableFacts DEF Datagrams
<1>2. NoDatagram.got = Invalid /\ NoDatagram.sent = Invalid
  BY DEF NoDatagram
<1>3. ASSUME NEW d \in Dirs, NEW m \in Messages(Table[d]), Datagram(d, m)
      PROVE  /\ dgram[d] = NoDatagram /\ me' = me
             /\ dgram' = [dgram EXCEPT ![d] = [sent |-> m, got |-> Received(d, m)]]
             /\ dgram'[d].sent = m /\ dgram'[d].got = Received(d, m)
             /\ DOMAIN dgram' = Dirs
             /\ \A e \in Dirs : \/ dgram'[e] = NoDatagram
                                \/ Arrived(e, dgram'[e].sent, dgram'[e].got)
  <2>1. /\ dgram[d] = NoDatagram /\ me' = me
        /\ dgram' = [dgram EXCEPT ![d] = [sent |-> m, got |-> Received(d, m)]]
    BY <1>3 DEF Datagram
  <2>2. dgram'[d].sent = m /\ dgram'[d].got = Received(d, m) /\ DOMAIN dgram' = Dirs
    BY <1>1, <2>1
  <2>3. Arrived(d, dgram'[d].sent, dgram'[d].got)
    BY <2>2, ReceivedProperties
  <2>4. \A e \in Dirs : e # d => dgram'[e] = dgram[e]
    BY <1>1, <2>1
  <2> QED
    BY <1>1, <2>1, <2>2, <2>3, <2>4
<1>4. CASE SendCmd
  <2>1. PICK m \in Requests(me) : Datagram("up", m)
    BY <1>4 DEF SendCmd
  <2>2. m \in Messages(Table["up"])
    BY <1>1, <2>1, RequestsIn, TableFacts
  <2>3. dgram["up"] = NoDatagram /\ me' = me /\ dgram'["down"] = dgram["down"]
    BY <1>1, <1>3, <2>1, <2>2
  <2>4. Invalid \notin Messages(Request)
    BY TablesOK, MessagesValid
  <2>5. dgram["down"] = NoDatagram
    BY <1>2, <2>3, <2>4 DEF Datagrams
  <2> QED
    BY <1>1, <1>3, <2>1, <2>2, <2>3, <2>5 DEF Datagrams
<1>5. CASE SendResponse
  <2>1. PICK m, r : m = dgram["up"].got /\ r \in Responses(m) /\ Datagram("down", r)
    BY <1>5 DEF SendResponse
  <2>2. m # Invalid /\ m \notin Nones
    BY <2>1, RespondsToRequests
  <2>3. Arrived("up", dgram["up"].sent, m)
    BY <1>1, <1>2, <2>1, <2>2
  <2>4. m \in Messages(Request) /\ Size(Request, m) <= MaxMsg
    BY <2>2, <2>3, TableFacts DEF Arrived
  <2>5. r \in Messages(Table["down"])
    BY <2>1, <2>4, ResponseParts, TableFacts
  <2>6. dgram'["up"] = dgram["up"]
    BY <1>1, <1>3, <2>1, <2>5
  <2> QED
    BY <1>1, <1>3, <2>1, <2>4, <2>5, <2>6 DEF Datagrams
<1>6. ASSUME UNCHANGED <<me, dgram>> PROVE Datagrams'
  BY <1>6 DEF Datagrams
<1>7. ASSUME NEW m \in Requests(me), WriteReq(m) PROVE Datagrams'
  BY <1>6, <1>7 DEF WriteReq
<1>8. CASE Handle \/ HandlerEnds
  BY <1>6, <1>8 DEF Handle, HandlerEnds
<1>9. ASSUME NEW d \in Dirs, Read(d) \/ ReadFails(d) PROVE Datagrams'
  BY <1>6, <1>9 DEF Read, ReadFails
<1>10. CASE UNCHANGED vars
  BY <1>6, <1>10 DEF vars
<1> QED
  BY <1>4, <1>5, <1>7, <1>8, <1>9, <1>10 DEF Next

(* THEOREM: a datagram is received as it was sent, or is not taken for a   *)
(* message with a command; and the response to a request that leaves room  *)
(* for an address in the buffer of MaxMsg bytes is received.               *)
THEOREM FramingDatagramReceived == Spec => []DatagramReceived
<1>1. Datagrams => DatagramReceived
  <2> SUFFICES ASSUME Datagrams PROVE DatagramReceived
    OBVIOUS
  <2>1. NoDatagram.got = Invalid /\ \A m \in Nones : m.cmd = "None"
    BY DEF NoDatagram, Nones
  <2>2. \A d \in Dirs : dgram[d].got \in {Invalid, dgram[d].sent} \/
                        dgram[d].got.cmd = "None"
    BY <2>1 DEF Datagrams, Arrived
  <2>3. ASSUME dgram["down"] # NoDatagram,
               Size(Request, dgram["up"].got) + StringSize(Addr) < MaxMsg
        PROVE  dgram["down"].got = dgram["down"].sent
    <3>1. PICK m, r : m = dgram["up"].got /\ r = dgram["down"].sent
      OBVIOUS
    <3>2. m \in Messages(Request) /\ Size(Request, m) <= MaxMsg /\ r \in Responses(m)
      BY <2>3, <3>1 DEF Datagrams
    <3>3. Size(Response, r) <= MaxMsg
      BY <2>3, <3>1, <3>2, ResponseFits
    <3>4. Arrived("down", r, dgram["down"].got)
      BY <2>3, <3>1, TableFacts DEF Datagrams
    <3> QED
      BY <3>1, <3>3, <3>4, TableFacts DEF Arrived
  <2> QED
    BY <2>2, <2>3 DEF DatagramReceived
<1>2. Spec => []Datagrams
  BY DatagramsInit, DatagramsNext, PTL DEF Spec
<1> QED
  BY <1>1, <1>2, PTL
=============================================================================

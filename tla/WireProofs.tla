----------------------------- MODULE WireProofs -----------------------------
(***************************************************************************)
(* The encoding of messages, for all messages: compute_size computes the   *)
(* length of what is written (SizeIsLength), what is written is parsed to  *)
(* the message that was written (RoundTrip), and no beginning of it is     *)
(* taken for a message with a command (BeginningNotRead).                  *)
(*                                                                         *)
(* The varints, and the fields of a message, are defined by recursion.  A  *)
(* recursive function is what CHOOSE finds, so each proof first shows that *)
(* there is a function that satisfies the definition (RecursionSolved),    *)
(* and then argues by induction on numbers or lengths (NumberInduction).   *)
(***************************************************************************)
EXTENDS Wire, WellFoundedInduction, SequenceTheorems, TLAPS

-----------------------------------------------------------------------------
(* Induction.  The library's induction theorems have an operator as their  *)
(* parameter; this one, about sets, follows from the well-foundedness of   *)
(* the numbers.                                                            *)
LEMMA LeastNumber ==
  ASSUME NEW T, T \subseteq Nat, T # {}
  PROVE  \E n \in T : \A m \in T : n <= m
<1>1. PICK R : R = OpToRel(<, Nat)
  OBVIOUS
<1>2. IsWellFoundedOn(R, Nat)
  BY <1>1, NatLessThanWellFounded
<1>3. \A m, n \in Nat : m < n => <<m, n>> \in R
  BY <1>1 DEF OpToRel
<1>4. PICK n \in T : \A m \in T : ~ (<<m, n>> \in R)
  BY <1>2, WFMin
<1>5. ASSUME NEW m \in T PROVE n <= m
  <2>1. m \in Nat /\ n \in Nat /\ ~ (m < n)
    BY <1>3, <1>4
  <2> QED
    BY <2>1
<1> QED
  BY <1>5

(* The same as an induction rule: a set of numbers that has n whenever it  *)
(* has all that are less than n has every number.                          *)
LEMMA NumberInduction ==
  ASSUME NEW T,
         \A n \in Nat : (\A m \in 0 .. n - 1 : m \in T) => n \in T
  PROVE  \A n \in Nat : n \in T
<1> DEFINE U == {n \in Nat : n \notin T}
<1> SUFFICES ASSUME U # {} PROVE FALSE
  OBVIOUS
<1>1. PICK n \in U : \A m \in U : n <= m
  BY LeastNumber
<1>2. \A m \in 0 .. n - 1 : m \in T
  BY <1>1
<1> QED
  BY <1>1, <1>2

(* A function defined by recursion exists: f[x] is g[x] for x in Done and  *)
(* is made of f[next[x]] by h for other x, where next[x] is less than x in *)
(* size.  Step is one application of the definition; after n of them the   *)
(* function is right for all x of size less than n.                        *)
Step(f, X, Done, next, g, h) ==
  [x \in X |-> IF x \in Done THEN g[x] ELSE h[<<x, f[next[x]]>>]]

(* The conditions on the parts of such a definition: what is recursed into *)
(* is smaller.                                                             *)
WellFounded(X, V, Done, next, g, h, size) ==
  /\ V # {}
  /\ size \in [X -> Nat]
  /\ \A x \in X : x \in Done => g[x] \in V
  /\ \A x \in X : x \notin Done => next[x] \in X /\ size[next[x]] < size[x]
  /\ \A x \in X, v \in V : x \notin Done => h[<<x, v>>] \in V

(* A recursive definition of that form has a solution, which the           *)
(* definition then chooses.                                                *)
LEMMA RecursionSolved ==
  ASSUME NEW X, NEW V, NEW Done, NEW next, NEW g, NEW h, NEW size,
         WellFounded(X, V, Done, next, g, h, size)
  PROVE  \E f \in [X -> V] : f = Step(f, X, Done, next, g, h)
<1>0. /\ V # {} /\ size \in [X -> Nat]
      /\ \A x \in X : x \in Done => g[x] \in V
      /\ \A x \in X : x \notin Done => next[x] \in X /\ size[next[x]] < size[x]
      /\ \A x \in X, v \in V : x \notin Done => h[<<x, v>>] \in V
  BY DEF WellFounded
<1> USE <1>0
<1> DEFINE Right(f, x) ==
             f[x] = IF x \in Done THEN g[x] ELSE h[<<x, f[next[x]]>>]
           Upto(n) == {f \in [X -> V] : \A x \in X : size[x] < n => Right(f, x)}
<1>1. Upto(0) # {}
  <2>1. PICK v : v \in V
    OBVIOUS
  <2>2. [x \in X |-> v] \in Upto(0)
    BY <2>1
  <2> QED
    BY <2>2
<1>2. ASSUME NEW n \in Nat, NEW f \in Upto(n)
      PROVE  Step(f, X, Done, next, g, h) \in Upto(n + 1)
  <2>1. PICK e : e = Step(f, X, Done, next, g, h)
    OBVIOUS
  <2>2. e \in [X -> V]
    BY <2>1 DEF Step
  <2>3. ASSUME NEW x \in X, size[x] < n + 1 PROVE Right(e, x)
    <3>1. CASE x \in Done
      BY <2>1, <3>1 DEF Step
    <3>2. CASE x \notin Done
      <4>1. next[x] \in X /\ size[next[x]] < n
        BY <2>3, <3>2
      <4>2. f[next[x]] = e[next[x]]
        BY <2>1, <4>1 DEF Step
      <4> QED
        BY <2>1, <3>2, <4>2 DEF Step
    <3> QED
      BY <3>1, <3>2
  <2> QED
    BY <2>1, <2>2, <2>3
<1>3. \A n \in Nat : Upto(n) # {}
  <2> DEFINE T == {n \in Nat : Upto(n) # {}}
  <2>1. ASSUME NEW n \in Nat, \A m \in 0 .. n - 1 : m \in T PROVE n \in T
    <3>1. CASE n = 0
      BY <1>1, <3>1
    <3>2. CASE n # 0
      <4>1. n - 1 \in Nat /\ n - 1 \in T /\ (n - 1) + 1 = n
        BY <2>1, <3>2
      <4>2. PICK f : f \in Upto(n - 1)
        BY <4>1
      <4>3. Step(f, X, Done, next, g, h) \in Upto((n - 1) + 1)
        BY <4>1, <4>2, <1>2
      <4> QED
        BY <4>1, <4>3
    <3> QED
      BY <3>1, <3>2
  <2> HIDE DEF T
  <2>2. \A n \in Nat : n \in T
    BY <2>1, NumberInduction
  <2> QED
    BY <2>2 DEF T
<1>4. \A k \in Nat : \A x \in X : size[x] = k =>
        \A m, n \in Nat : \A e \in Upto(m), f \in Upto(n) :
          size[x] < m /\ size[x] < n => e[x] = f[x]
  <2> DEFINE Same(x) ==
               \A m, n \in Nat : \A e \in Upto(m), f \in Upto(n) :
                 size[x] < m /\ size[x] < n => e[x] = f[x]
             T == {k \in Nat : \A x \in X : size[x] = k => Same(x)}
  <2>1. ASSUME NEW k \in Nat, \A j \in 0 .. k - 1 : j \in T PROVE k \in T
    <3> SUFFICES ASSUME NEW x \in X, size[x] = k, NEW m \in Nat, NEW n \in Nat,
                        NEW e \in Upto(m), NEW f \in Upto(n), k < m, k < n
                 PROVE  e[x] = f[x]
      OBVIOUS
    <3>1. Right(e, x) /\ Right(f, x)
      OBVIOUS
    <3>2. CASE x \in Done
      BY <3>1, <3>2
    <3>3. CASE x \notin Done
      <4>1. next[x] \in X /\ size[next[x]] \in 0 .. k - 1
        BY <3>3
      <4>2. Same(next[x])
        BY <4>1, <2>1
      <4>3. e[next[x]] = f[next[x]]
        BY <4>1, <4>2, SMTT(30)
      <4> QED
        BY <3>1, <3>3, <4>3
    <3> QED
      BY <3>2, <3>3
  <2> HIDE DEF T
  <2>2. \A k \in Nat : k \in T
    BY <2>1, NumberInduction
  <2> QED
    BY <2>2 DEF T
<1> DEFINE Some(n) == CHOOSE f : f \in Upto(n)
<1>5. PICK s : s = [x \in X |-> Some(size[x] + 1)[x]]
  OBVIOUS
<1>6. ASSUME NEW n \in Nat PROVE Some(n) \in Upto(n)
  BY <1>3
<1> HIDE DEF Some
<1>7. s \in [X -> V]
  <2>1. ASSUME NEW x \in X PROVE Some(size[x] + 1)[x] \in V
    <3>1. size[x] + 1 \in Nat
      OBVIOUS
    <3>2. Some(size[x] + 1) \in [X -> V]
      BY <3>1, <1>6
    <3> QED
      BY <3>2
  <2> QED
    BY <1>5, <2>1
<1>8. ASSUME NEW x \in X PROVE Right(s, x)
  <2>1. PICK e : e = Some(size[x] + 1)
    OBVIOUS
  <2>2. e \in Upto(size[x] + 1) /\ s[x] = e[x]
    BY <2>1, <1>5, <1>6
  <2>3. Right(e, x)
    BY <2>2
  <2>4. CASE x \in Done
    BY <2>2, <2>3, <2>4
  <2>5. CASE x \notin Done
    <3>1. next[x] \in X /\ size[next[x]] < size[x] /\ size[next[x]] \in Nat
      BY <2>5
    <3>2. s[next[x]] = Some(size[next[x]] + 1)[next[x]]
      BY <3>1, <1>5
    <3>3. Some(size[next[x]] + 1) \in Upto(size[next[x]] + 1)
      BY <3>1, <1>6
    <3>4. s[next[x]] = e[next[x]]
      <4> HIDE DEF Upto
      <4> QED
        BY <3>1, <3>2, <3>3, <2>2, <1>4
    <3> QED
      BY <2>2, <2>3, <2>5, <3>4
  <2> QED
    BY <2>4, <2>5
<1>9. s = Step(s, X, Done, next, g, h)
  <2>1. s = [x \in X |-> s[x]]
    BY <1>7
  <2> QED
    BY <2>1, <1>8 DEF Step
<1> QED
  BY <1>7, <1>9

-----------------------------------------------------------------------------
(* Numbers.                                                                *)

(* A byte has twice as many values as a digit of a varint.                 *)
LEMMA DigitProperties == Digit \in Nat /\ Digit > 50 /\ Base = 2 * Digit
BY WireAssumption DEF Digit, Tag

(* Quotient and remainder.                                                 *)
LEMMA Division ==
  ASSUME NEW D \in Nat, D > 1, NEW n \in Nat
  PROVE  /\ n \div D \in Nat /\ n % D \in 0 .. D - 1
         /\ n = D * (n \div D) + (n % D)
         /\ n >= D => n \div D < n /\ n \div D >= 1
<1>1. n \div D \in Nat /\ n % D \in 0 .. D - 1
  OBVIOUS
<1>2. n = D * (n \div D) + (n % D)
  OBVIOUS
<1>3. ASSUME n >= D PROVE n \div D < n
  BY <1>1, <1>2, <1>3
<1>4. ASSUME n >= D PROVE n \div D >= 1
  BY <1>1, <1>2, <1>4
<1> QED
  BY <1>1, <1>2, <1>3, <1>4

(* The same for digits.                                                    *)
LEMMA DigitDivision ==
  \A n \in Nat :
    /\ n \div Digit \in Nat /\ n % Digit \in 0 .. Digit - 1
    /\ n = Digit * (n \div Digit) + (n % Digit)
    /\ n >= Digit => n \div Digit < n /\ n \div Digit >= 1
<1> SUFFICES ASSUME NEW n \in Nat
             PROVE  /\ n \div Digit \in Nat /\ n % Digit \in 0 .. Digit - 1
                    /\ n = Digit * (n \div Digit) + (n % Digit)
                    /\ n >= Digit => n \div Digit < n /\ n \div Digit >= 1
  OBVIOUS
<1>1. PICK D \in Nat : D = Digit /\ D > 1
  BY DigitProperties
<1>2. /\ n \div D \in Nat /\ n % D \in 0 .. D - 1
      /\ n = D * (n \div D) + (n % D)
      /\ n >= D => n \div D < n /\ n \div D >= 1
  BY <1>1, Division
<1> QED
  BY <1>1, <1>2

(* A quotient is bounded like its dividend, and grows with it.             *)
LEMMA Quotient ==
  ASSUME NEW D \in Nat, D > 1, NEW n \in Nat, NEW m \in Nat
  PROVE  /\ n < D * m => n \div D < m
         /\ m <= n => m \div D <= n \div D
<1>1. PICK q \in Nat, r \in 0 .. D - 1 : q = n \div D /\ n = D * q + r
  BY Division
<1>2. PICK p \in Nat, s \in 0 .. D - 1 : p = m \div D /\ m = D * p + s
  BY Division
<1>3. ASSUME n < D * m PROVE q < m
  <2> SUFFICES ASSUME q >= m PROVE FALSE
    BY <1>1
  <2>1. PICK e \in Nat : q = m + e
    BY <1>1
  <2>2. D * q = D * m + D * e /\ D * e \in Nat /\ D * m \in Nat
    BY <2>1
  <2> QED
    BY <1>1, <1>3, <2>2
<1>4. ASSUME m <= n PROVE p <= q
  <2> SUFFICES ASSUME p > q PROVE FALSE
    BY <1>1, <1>2
  <2>1. PICK e \in Nat : p = q + 1 + e
    <3>1. p - q - 1 \in Nat /\ p = q + 1 + (p - q - 1)
      BY <1>1, <1>2
    <3> QED
      BY <3>1
  <2>2. D * p = D * q + D + D * e /\ D * e \in Nat /\ D * q \in Nat
    BY <2>1, <1>1
  <2> QED
    BY <1>1, <1>2, <1>4, <2>2
<1> QED
  BY <1>1, <1>2, <1>3, <1>4

-----------------------------------------------------------------------------
(* The recursive definitions define what they say.                         *)

(* The length of a varint satisfies its recursive definition.              *)
LEMMA VarintSizeDef ==
  /\ VarintSize \in [Nat -> Nat]
  /\ \A n \in Nat :
       VarintSize[n] = IF n < Digit THEN 1 ELSE 1 + VarintSize[n \div Digit]
<1> DEFINE Done == 0 .. Digit - 1
           next == [n \in Nat |-> n \div Digit]
           g == [n \in Nat |-> 1]
           h == [p \in Nat \X Nat |-> 1 + p[2]]
           size == [n \in Nat |-> n]
<1>1. \A n \in Nat : n \notin Done => next[n] \in Nat /\ size[next[n]] < size[n]
  BY DigitProperties, DigitDivision
<1>2. \A n \in Nat, v \in Nat : n \notin Done => h[<<n, v>>] \in Nat
  OBVIOUS
<1>3. PICK f \in [Nat -> Nat] : f = Step(f, Nat, Done, next, g, h)
  <2>1. WellFounded(Nat, Nat, Done, next, g, h, size)
    BY <1>1, <1>2 DEF WellFounded
  <2> HIDE DEF Done, next, g, h, size
  <2> QED
    BY <2>1, RecursionSolved
<1>4. \A n \in Nat : n \div Digit \in Nat /\ (n < Digit <=> n \in Done)
  BY DigitProperties, DigitDivision
<1>5. f = [n \in Nat |-> IF n < Digit THEN 1 ELSE 1 + f[n \div Digit]]
  <2>1. \A n \in Nat : h[<<n, f[next[n]]>>] = 1 + f[n \div Digit]
    BY <1>4
  <2>2. f = [n \in Nat |-> IF n \in Done THEN g[n] ELSE h[<<n, f[next[n]]>>]]
    BY <1>3 DEF Step
  <2>3. ASSUME NEW n \in Nat
        PROVE  f[n] = IF n < Digit THEN 1 ELSE 1 + f[n \div Digit]
    BY <2>1, <2>2, <1>4
  <2> QED
    BY <2>3
<1>6. VarintSize =
        [n \in Nat |-> IF n < Digit THEN 1 ELSE 1 + VarintSize[n \div Digit]]
  <2> HIDE DEF Done, next, g, h, size
  <2> QED
    BY <1>5 DEF VarintSize
<1>7. ASSUME NEW n \in Nat PROVE VarintSize[n] \in Nat
  <2> DEFINE T == {k \in Nat : VarintSize[k] \in Nat}
  <2>1. ASSUME NEW k \in Nat, \A j \in 0 .. k - 1 : j \in T PROVE k \in T
    <3>1. ASSUME k >= Digit PROVE k \div Digit \in 0 .. k - 1
      <4>1. k \div Digit \in Nat /\ k \div Digit < k
        BY <3>1, DigitDivision
      <4> QED
        BY <4>1
    <3>2. VarintSize[k] = IF k < Digit THEN 1 ELSE 1 + VarintSize[k \div Digit]
      BY <1>6
    <3> QED
      BY <2>1, <3>1, <3>2, DigitProperties
  <2> HIDE DEF T
  <2>2. \A k \in Nat : k \in T
    BY <2>1, NumberInduction
  <2> QED
    BY <2>2 DEF T
<1> QED
  BY <1>6, <1>7

(* So does the varint, which consists of bytes.                            *)
LEMMA VarintDef ==
  /\ Varint \in [Nat -> Seq(Bytes)]
  /\ \A n \in Nat :
       Varint[n] = IF n < Digit THEN <<n>>
                   ELSE <<Digit + (n % Digit)>> \o Varint[n \div Digit]
<1> DEFINE V == Seq(Bytes)
           Done == 0 .. Digit - 1
           next == [n \in Nat |-> n \div Digit]
           g == [n \in Nat |-> <<n>>]
           h == [p \in Nat \X V |-> <<Digit + (p[1] % Digit)>> \o p[2]]
           size == [n \in Nat |-> n]
<1>1. \A n \in Nat : n \notin Done => next[n] \in Nat /\ size[next[n]] < size[n]
  BY DigitProperties, DigitDivision
<1>2. \A n \in Nat : /\ n \div Digit \in Nat /\ (n < Digit <=> n \in Done)
                     /\ n < Digit => <<n>> \in V
                     /\ <<Digit + (n % Digit)>> \in V
  <2> SUFFICES ASSUME NEW n \in Nat
               PROVE  /\ n \div Digit \in Nat /\ (n < Digit <=> n \in Done)
                      /\ n < Digit => <<n>> \in V
                      /\ <<Digit + (n % Digit)>> \in V
    OBVIOUS
  <2>1. n \div Digit \in Nat /\ (n < Digit <=> n \in Done)
    BY DigitProperties, DigitDivision
  <2>2. n < Digit => n \in Bytes
    BY DigitProperties DEF Bytes
  <2>3. Digit + (n % Digit) \in Bytes
    <3>1. n % Digit \in 0 .. Digit - 1
      BY DigitDivision
    <3> QED
      BY <3>1, DigitProperties DEF Bytes
  <2> QED
    BY <2>1, <2>2, <2>3
<1>3. \A n \in Nat, v \in V : h[<<n, v>>] = <<Digit + (n % Digit)>> \o v /\ h[<<n, v>>] \in V
  <2> SUFFICES ASSUME NEW n \in Nat, NEW v \in V
               PROVE  h[<<n, v>>] = <<Digit + (n % Digit)>> \o v /\ h[<<n, v>>] \in V
    OBVIOUS
  <2>1. h[<<n, v>>] = <<Digit + (n % Digit)>> \o v
    OBVIOUS
  <2>2. <<Digit + (n % Digit)>> \o v \in V
    BY <1>2, ConcatProperties
  <2> QED
    BY <2>1, <2>2
<1>4. PICK f \in [Nat -> V] : f = Step(f, Nat, Done, next, g, h)
  <2>1. V # {}
    BY EmptySeq
  <2>2. \A n \in Nat : n \in Done => g[n] \in V
    BY <1>2
  <2> HIDE DEF V
  <2>3. WellFounded(Nat, V, Done, next, g, h, size)
    <3> HIDE DEF h
    <3> QED
      BY <1>1, <1>3, <2>1, <2>2 DEF WellFounded
  <2> HIDE DEF Done, next, g, h, size
  <2> QED
    BY <2>3, RecursionSolved
<1>5. f = [n \in Nat |-> IF n < Digit THEN <<n>>
                         ELSE <<Digit + (n % Digit)>> \o f[n \div Digit]]
  <2>1. ASSUME NEW n \in Nat
        PROVE  h[<<n, f[next[n]]>>] = <<Digit + (n % Digit)>> \o f[n \div Digit]
    <3>1. next[n] = n \div Digit /\ f[n \div Digit] \in V
      BY <1>2
    <3> HIDE DEF h, V
    <3> QED
      BY <1>3, <3>1
  <2>2. f = [n \in Nat |-> IF n \in Done THEN g[n] ELSE h[<<n, f[next[n]]>>]]
    BY <1>4 DEF Step
  <2> HIDE DEF h
  <2>3. ASSUME NEW n \in Nat
        PROVE  f[n] = IF n < Digit THEN <<n>>
                      ELSE <<Digit + (n % Digit)>> \o f[n \div Digit]
    <3>1. f[n] = IF n \in Done THEN g[n] ELSE h[<<n, f[next[n]]>>]
      BY <2>2
    <3> QED
      BY <2>1, <3>1, <1>2
  <2> QED
    BY <2>3
<1>6. Varint = [n \in Nat |-> IF n < Digit THEN <<n>>
                              ELSE <<Digit + (n % Digit)>> \o Varint[n \div Digit]]
  <2> HIDE DEF Done, next, g, h, size, V
  <2> QED
    BY <1>5 DEF Varint
<1>7. ASSUME NEW n \in Nat PROVE Varint[n] \in V
  <2> DEFINE T == {k \in Nat : Varint[k] \in V}
  <2>1. ASSUME NEW k \in Nat, \A j \in 0 .. k - 1 : j \in T PROVE k \in T
    <3>1. ASSUME k >= Digit PROVE Varint[k \div Digit] \in V
      <4>1. k \div Digit \in Nat /\ k \div Digit < k
        BY <3>1, DigitDivision
      <4>2. k \div Digit \in 0 .. k - 1
        BY <4>1
      <4> QED
        BY <4>2, <2>1
    <3>2. Varint[k] = IF k < Digit THEN <<k>>
                      ELSE <<Digit + (k % Digit)>> \o Varint[k \div Digit]
      BY <1>6
    <3>3. CASE k < Digit
      BY <3>2, <3>3, <1>2
    <3>4. CASE k >= Digit
      <4>1. <<Digit + (k % Digit)>> \o Varint[k \div Digit] \in V
        BY <3>1, <3>4, <1>2, ConcatProperties
      <4>2. ~ (k < Digit)
        BY <3>4, DigitProperties
      <4>3. Varint[k] = <<Digit + (k % Digit)>> \o Varint[k \div Digit]
        BY <3>2, <4>2
      <4> QED
        BY <4>1, <4>3
    <3> QED
      BY <3>3, <3>4, DigitProperties
  <2> HIDE DEF T
  <2>2. \A k \in Nat : k \in T
    BY <2>1, NumberInduction
  <2> QED
    BY <2>2 DEF T
<1>8. Varint = [n \in Nat |-> Varint[n]]
  BY <1>6, Zenon
<1> QED
  BY <1>6, <1>7, <1>8

(* So does the value that a sequence of bytes has as a varint.             *)
LEMMA VarintValueDef ==
  /\ VarintValue \in [Seq(Bytes) -> Nat]
  /\ \A b \in Seq(Bytes) :
       VarintValue[b] = IF b = <<>> THEN 0
                        ELSE (b[1] % Digit) + Digit * VarintValue[Tail(b)]
<1> DEFINE X == Seq(Bytes)
           Done == {<<>>}
           next == [b \in X |-> Tail(b)]
           g == [b \in X |-> 0]
           h == [p \in X \X Nat |-> (p[1][1] % Digit) + Digit * p[2]]
           size == [b \in X |-> Len(b)]
<1>1. \A b \in X : b # <<>> => Tail(b) \in X /\ Len(Tail(b)) < Len(b) /\ b[1] % Digit \in Nat
  <2> SUFFICES ASSUME NEW b \in X, b # <<>>
               PROVE  Tail(b) \in X /\ Len(Tail(b)) < Len(b) /\ b[1] % Digit \in Nat
    OBVIOUS
  <2>1. Tail(b) \in X /\ Len(Tail(b)) < Len(b) /\ Len(b) >= 1
    BY HeadTailProperties, EmptySeq, LenProperties
  <2>2. b[1] \in Bytes
    BY <2>1, ElementOfSeq
  <2>3. b[1] \in Nat
    BY <2>2, DigitProperties DEF Bytes
  <2>4. \A n \in Nat : n % Digit \in Nat
    BY DigitDivision, DigitProperties
  <2> QED
    BY <2>1, <2>3, <2>4
<1>2. \A b \in X, v \in Nat : b # <<>> =>
         h[<<b, v>>] = (b[1] % Digit) + Digit * v /\ h[<<b, v>>] \in Nat
  <2> SUFFICES ASSUME NEW b \in X, NEW v \in Nat, b # <<>>
               PROVE  h[<<b, v>>] = (b[1] % Digit) + Digit * v /\ h[<<b, v>>] \in Nat
    OBVIOUS
  <2>1. h[<<b, v>>] = (b[1] % Digit) + Digit * v
    OBVIOUS
  <2>2. b[1] % Digit \in Nat /\ Digit * v \in Nat
    BY <1>1, DigitProperties
  <2> QED
    BY <2>1, <2>2
<1>3. PICK f \in [X -> Nat] : f = Step(f, X, Done, next, g, h)
  <2>1. Nat # {} /\ size \in [X -> Nat] /\ \A b \in X : b \in Done => g[b] \in Nat
    BY LenProperties
  <2>2. \A b \in X : b \notin Done => next[b] \in X /\ size[next[b]] < size[b]
    BY <1>1
  <2>3. \A b \in X, v \in Nat : b \notin Done => h[<<b, v>>] \in Nat
    <3> HIDE DEF h
    <3> QED
      BY <1>2
  <2> HIDE DEF X, Done, next, g, h, size
  <2>4. WellFounded(X, Nat, Done, next, g, h, size)
    BY <2>1, <2>2, <2>3 DEF WellFounded
  <2> QED
    BY <2>4, RecursionSolved
<1>4. f = [b \in X |-> IF b = <<>> THEN 0 ELSE (b[1] % Digit) + Digit * f[Tail(b)]]
  <2>1. ASSUME NEW b \in X, b # <<>>
        PROVE  h[<<b, f[next[b]]>>] = (b[1] % Digit) + Digit * f[Tail(b)]
    <3>1. next[b] = Tail(b) /\ f[Tail(b)] \in Nat
      BY <1>1, <2>1
    <3> HIDE DEF h, X
    <3> QED
      BY <1>2, <2>1, <3>1
  <2>2. f = [b \in X |-> IF b \in Done THEN g[b] ELSE h[<<b, f[next[b]]>>]]
    BY <1>3 DEF Step
  <2> HIDE DEF h
  <2>3. ASSUME NEW b \in X
        PROVE  f[b] = IF b = <<>> THEN 0 ELSE (b[1] % Digit) + Digit * f[Tail(b)]
    <3>1. f[b] = IF b \in Done THEN g[b] ELSE h[<<b, f[next[b]]>>]
      BY <2>2
    <3> QED
      BY <2>1, <3>1
  <2> QED
    BY <2>3
<1>5. VarintValue = [b \in X |-> IF b = <<>> THEN 0
                                 ELSE (b[1] % Digit) + Digit * VarintValue[Tail(b)]]
  <2> HIDE DEF Done, next, g, h, size
  <2> QED
    BY <1>4 DEF VarintValue
<1>6. \A n \in Nat : \A b \in X : Len(b) = n => VarintValue[b] \in Nat
  <2> DEFINE T == {n \in Nat : \A b \in X : Len(b) = n => VarintValue[b] \in Nat}
  <2>1. ASSUME NEW n \in Nat, \A j \in 0 .. n - 1 : j \in T PROVE n \in T
    <3> SUFFICES ASSUME NEW b \in X, Len(b) = n PROVE VarintValue[b] \in Nat
      OBVIOUS
    <3>1. VarintValue[b] = IF b = <<>> THEN 0
                           ELSE (b[1] % Digit) + Digit * VarintValue[Tail(b)]
      BY <1>5
    <3>2. ASSUME b # <<>> PROVE VarintValue[Tail(b)] \in Nat
      <4>1. Tail(b) \in X /\ Len(Tail(b)) \in Nat /\ Len(Tail(b)) < n
        BY <3>2, <1>1, LenProperties
      <4>2. Len(Tail(b)) \in T
        BY <4>1, <2>1
      <4> QED
        BY <4>1, <4>2
    <3>3. ASSUME b # <<>> PROVE Digit * VarintValue[Tail(b)] \in Nat
      BY <3>2, <3>3, DigitProperties
    <3> QED
      BY <3>1, <3>3, <1>1
  <2> HIDE DEF T
  <2>2. \A n \in Nat : n \in T
    BY <2>1, NumberInduction
  <2> QED
    BY <2>2 DEF T
<1>7. VarintValue = [b \in X |-> VarintValue[b]]
  BY <1>5, Zenon
<1> QED
  BY <1>5, <1>6, <1>7, LenProperties

-----------------------------------------------------------------------------
(* Varints.                                                                *)

(* A sequence with one more element in front.                              *)
LEMMA ConsProperties ==
  ASSUME NEW S, NEW x \in S, NEW v \in Seq(S)
  PROVE  /\ <<x>> \o v \in Seq(S) /\ Len(<<x>> \o v) = 1 + Len(v)
         /\ <<x>> \o v # <<>>
         /\ (<<x>> \o v)[1] = x /\ Tail(<<x>> \o v) = v
         /\ \A i \in 2 .. 1 + Len(v) : (<<x>> \o v)[i] = v[i - 1]
<1>1. PICK c : c = <<x>> \o v
  OBVIOUS
<1>2. <<x>> \in Seq(S) /\ Len(<<x>>) = 1 /\ <<x>>[1] = x
  OBVIOUS
<1>3. Len(v) \in Nat
  BY LenProperties
<1>4. /\ c \in Seq(S) /\ Len(c) = 1 + Len(v)
      /\ \A i \in 1 .. 1 + Len(v) : c[i] = IF i <= 1 THEN <<x>>[i] ELSE v[i - 1]
  BY <1>1, <1>2, ConcatProperties
<1>5. c # <<>>
  BY <1>3, <1>4
<1>6. c[1] = x /\ \A i \in 2 .. 1 + Len(v) : c[i] = v[i - 1]
  BY <1>2, <1>3, <1>4
<1>7. Tail(c) = v
  <2>1. Tail(c) \in Seq(S) /\ Len(Tail(c)) = Len(v)
        /\ \A i \in 1 .. Len(Tail(c)) : Tail(c)[i] = c[i + 1]
    BY <1>3, <1>4, <1>5, HeadTailProperties
  <2>2. \A i \in 1 .. Len(v) : Tail(c)[i] = v[i]
    BY <2>1, <1>3, <1>6
  <2> QED
    BY <2>1, <2>2, SeqEqual
<1> QED
  BY <1>1, <1>4, <1>5, <1>6, <1>7

(* Taking off the bit that says that more bytes follow.                    *)
LEMMA SumMod ==
  ASSUME NEW D \in Nat, D > 1, NEW r \in 0 .. D - 1
  PROVE  (D + r) % D = r /\ r % D = r
<1>1. r % D = r
  OBVIOUS
<1>2. PICK q \in Nat, s \in 0 .. D - 1 : D + r = D * q + s /\ s = (D + r) % D
  BY Division, SMTT(30)
<1>3. CASE q = 0
  BY <1>2, <1>3
<1>4. CASE q = 1
  BY <1>2, <1>4
<1>5. CASE q > 1
  <2>1. PICK e \in Nat : q = 2 + e
    <3>1. q - 2 \in Nat /\ q = 2 + (q - 2)
      BY <1>5
    <3> QED
      BY <3>1
  <2>2. D * q = D + D + D * e /\ D * e \in Nat
    BY <2>1
  <2> QED
    BY <1>2, <2>2
<1> QED
  BY <1>1, <1>3, <1>4, <1>5

(* The digits of a varint: it ends at its first byte less than Digit.      *)
VarintShape(v) ==
  Len(v) >= 1 /\ v[Len(v)] < Digit /\ \A j \in 1 .. Len(v) - 1 : v[j] >= Digit

(* A varint has the size that was computed, is read as the number it was   *)
(* written for, and ends where the reader takes it to end.                 *)
LEMMA VarintRead ==
  \A n \in Nat : /\ Varint[n] \in Seq(Bytes) /\ Len(Varint[n]) = VarintSize[n]
                 /\ VarintValue[Varint[n]] = n /\ VarintShape(Varint[n])
<1> DEFINE Good(n) == /\ Len(Varint[n]) = VarintSize[n]
                      /\ VarintValue[Varint[n]] = n /\ VarintShape(Varint[n])
           T == {n \in Nat : Good(n)}
<1>1. ASSUME NEW n \in Nat, \A m \in 0 .. n - 1 : m \in T PROVE n \in T
  <2>1. CASE n < Digit
    <3>1. Varint[n] = <<n>> /\ VarintSize[n] = 1
      BY <2>1, VarintDef, VarintSizeDef
    <3>2. <<n>> \in Seq(Bytes) /\ <<n>> # <<>> /\ Tail(<<n>>) = <<>> /\ <<n>>[1] = n
      BY <2>1, DigitProperties DEF Bytes
    <3>3. <<>> \in Seq(Bytes) /\ VarintValue[<<>>] = 0
      BY VarintValueDef, EmptySeq
    <3>4. n % Digit = n
      BY <2>1, SumMod, DigitProperties
    <3>5. VarintValue[<<n>>] = n
      <4>1. VarintValue[<<n>>] = (<<n>>[1] % Digit) + Digit * VarintValue[Tail(<<n>>)]
        BY <3>2, VarintValueDef
      <4>2. VarintValue[<<n>>] = n + Digit * 0
        BY <4>1, <3>2, <3>3, <3>4
      <4> QED
        BY <4>2, DigitProperties
    <3>6. VarintShape(<<n>>)
      BY <2>1 DEF VarintShape
    <3> QED
      BY <3>1, <3>5, <3>6
  <2>2. CASE n >= Digit
    <3>1. PICK q \in Nat, r \in 0 .. Digit - 1 :
            /\ q = n \div Digit /\ r = n % Digit
            /\ n = Digit * q + r /\ q < n
      BY <2>2, DigitDivision
    <3>2. PICK v \in Seq(Bytes) : v = Varint[q]
      BY VarintDef
    <3>3. Good(q)
      BY <3>1, <1>1
    <3>4. ~ (n < Digit)
      BY <2>2, DigitProperties
    <3>5. PICK x : x = Digit + r
      OBVIOUS
    <3>6. Varint[n] = <<x>> \o v /\ VarintSize[n] = 1 + Len(v)
      BY <3>1, <3>2, <3>3, <3>4, <3>5, VarintDef, VarintSizeDef
    <3>7. x \in Bytes /\ x % Digit = r /\ x >= Digit
      <4>1. x \in Bytes /\ x >= Digit
        BY <3>5, DigitProperties DEF Bytes
      <4>2. PICK D \in Nat : D = Digit /\ D > 1
        BY DigitProperties
      <4>3. (D + r) % D = r
        BY <4>2, SumMod
      <4> QED
        BY <4>1, <4>2, <4>3, <3>5
    <3>8. PICK w \in Seq(Bytes) : w = <<x>> \o v
      BY <3>7, ConsProperties
    <3>9. /\ Len(w) = 1 + Len(v) /\ w # <<>> /\ w[1] = x /\ Tail(w) = v
          /\ \A i \in 2 .. 1 + Len(v) : w[i] = v[i - 1]
      BY <3>7, <3>8, ConsProperties
    <3>10. VarintValue[w] = n
      <4>1. VarintValue[w] = (w[1] % Digit) + Digit * VarintValue[Tail(w)]
        BY <3>8, <3>9, VarintValueDef
      <4>2. VarintValue[w] = r + Digit * q
        BY <4>1, <3>2, <3>3, <3>7, <3>9
      <4>3. PICK y \in Nat : y = Digit * q
        BY DigitProperties
      <4>4. n = y + r /\ VarintValue[w] = r + y
        BY <3>1, <4>2, <4>3
      <4> QED
        BY <4>4
    <3>11. VarintShape(w)
      <4>1. Len(v) \in Nat /\ VarintShape(v)
        BY <3>2, <3>3, LenProperties
      <4> QED
        BY <3>7, <3>9, <4>1 DEF VarintShape
    <3> QED
      BY <3>6, <3>8, <3>9, <3>10, <3>11
  <2> QED
    BY <2>1, <2>2, DigitProperties
<1> HIDE DEF T
<1>2. \A n \in Nat : n \in T
  BY <1>1, NumberInduction
<1> QED
  BY <1>2, VarintDef DEF T

(* Sizes: a larger number has no smaller varint; two bytes are enough for  *)
(* numbers less than the square of Digit, three for all that matter here.  *)
LEMMA VarintSizeGrows ==
  \A n \in Nat : VarintSize[n] \in Nat /\ VarintSize[n] >= 1 /\
                 \A m \in Nat : m <= n => VarintSize[m] <= VarintSize[n]
<1>1. ASSUME NEW n \in Nat PROVE VarintSize[n] \in Nat /\ VarintSize[n] >= 1
  <2>1. VarintSize[n] \in Nat
    BY VarintSizeDef
  <2>2. Len(Varint[n]) = VarintSize[n] /\ VarintShape(Varint[n])
    BY VarintRead
  <2> QED
    BY <2>1, <2>2 DEF VarintShape
<1> DEFINE T == {n \in Nat : \A m \in Nat : m <= n => VarintSize[m] <= VarintSize[n]}
<1>2. ASSUME NEW n \in Nat, \A k \in 0 .. n - 1 : k \in T PROVE n \in T
  <2> SUFFICES ASSUME NEW m \in Nat, m <= n PROVE VarintSize[m] <= VarintSize[n]
    OBVIOUS
  <2>1. CASE m < Digit
    BY <2>1, <1>1, VarintSizeDef
  <2>2. CASE m >= Digit
    <3>1. ~ (m < Digit) /\ ~ (n < Digit) /\ n >= Digit
      BY <2>2, DigitProperties
    <3>2. PICK p \in Nat : p = m \div Digit
      BY DigitDivision
    <3>3. PICK q \in Nat : q = n \div Digit /\ q < n
      BY <3>1, DigitDivision
    <3>4. p <= q
      <4>1. PICK D \in Nat : D = Digit /\ D > 1
        BY DigitProperties
      <4>2. m \div D <= n \div D
        BY <4>1, Quotient
      <4> QED
        BY <4>1, <4>2, <3>2, <3>3
    <3>5. VarintSize[p] <= VarintSize[q]
      BY <3>3, <3>4, <1>2
    <3> QED
      BY <3>1, <3>2, <3>3, <3>5, <1>1, VarintSizeDef
  <2> QED
    BY <2>1, <2>2, DigitProperties
<1> HIDE DEF T
<1>3. \A n \in Nat : n \in T
  BY <1>2, NumberInduction
<1> QED
  BY <1>1, <1>3 DEF T

(* What one, two and three bytes hold.                                     *)
LEMMA VarintSizeBounds ==
  \A n \in Nat : /\ n < Digit => VarintSize[n] = 1
                 /\ n < Digit * Digit => VarintSize[n] <= 2
                 /\ n < Base * Base => VarintSize[n] <= 3
<1>1. \A n \in Nat : n < Digit => VarintSize[n] = 1
  BY VarintSizeDef
<1>2. PICK D \in Nat : D = Digit /\ D > 50
  BY DigitProperties
<1>3. D * D \in Nat
  OBVIOUS
<1>4. ASSUME NEW n \in Nat, NEW m \in Nat, n < D * m, NEW k \in Nat,
             \A j \in Nat : j < m => VarintSize[j] <= k
      PROVE  VarintSize[n] <= 1 + k
  <2>1. n \div D \in Nat /\ n \div D < m
    BY <1>2, <1>4, Quotient, Division
  <2>2. VarintSize[n \div D] \in Nat /\ VarintSize[n \div D] <= k
    BY <2>1, <1>4, VarintSizeGrows
  <2>3. VarintSize[n] = IF n < D THEN 1 ELSE 1 + VarintSize[n \div D]
    BY <1>2, VarintSizeDef
  <2> QED
    BY <2>2, <2>3
<1>5. \A n \in Nat : n < D * D => VarintSize[n] <= 2
  <2>1. \A j \in Nat : j < D => VarintSize[j] <= 1
    BY <1>1, <1>2
  <2> QED
    BY <2>1, <1>4
<1>6. \A n \in Nat : n < D * (D * D) => VarintSize[n] <= 3
  BY <1>3, <1>4, <1>5
<1>7. Base * Base <= D * (D * D)
  <2>1. Base = 2 * D
    BY <1>2, DigitProperties
  <2>2. PICK e \in Nat : D = 4 + e
    <3>1. D - 4 \in Nat /\ D = 4 + (D - 4)
      BY <1>2
    <3> QED
      BY <3>1
  <2>3. PICK s \in Nat : s = D * D
    BY <1>3
  <2>4. Base * Base = 4 * s
    BY <2>1, <2>3
  <2>5. D * s = 4 * s + e * s /\ e * s \in Nat
    BY <2>2
  <2> QED
    BY <2>3, <2>4, <2>5
<1>8. ASSUME NEW n \in Nat, n < Base * Base PROVE n < D * (D * D)
  <2>1. Base * Base \in Nat /\ D * (D * D) \in Nat
    BY DigitProperties, <1>3
  <2> QED
    BY <2>1, <1>7, <1>8
<1> QED
  BY <1>1, <1>2, <1>5, <1>6, <1>8

-----------------------------------------------------------------------------
(* Fields.                                                                 *)

(* The parts of the definition of Fields: the bytes that may hold the      *)
(* length of the first field, where that length and the field end, and     *)
(* whether the field is broken.                                            *)
LengthBytes(b) == SubSeq(b, 2, IF Len(b) < 11 THEN Len(b) ELSE 11)
LengthEnd(b) == CHOOSE j \in VarintEnds(LengthBytes(b)) : TRUE
FieldEnd(b) ==
  LengthEnd(b) + 1 + VarintValue[SubSeq(LengthBytes(b), 1, LengthEnd(b))]
BrokenAt(b) ==
  VarintEnds(LengthBytes(b)) = {} \/ b[1] % 8 # 2 \/ FieldEnd(b) > Len(b)
First(b) ==
  [tag |-> b[1], data |-> SubSeq(b, LengthEnd(b) + 2, FieldEnd(b))]
Rest(b) == SubSeq(b, FieldEnd(b) + 1, Len(b))

(* A field as the parser finds it.                                         *)
FieldSet == [tag : Bytes, data : Seq(Bytes)]

(* A part of a sequence of bytes.                                          *)
LEMMA SubSeqBytes ==
  ASSUME NEW b \in Seq(Bytes), NEW i \in Nat, i >= 1, NEW j \in Nat, j <= Len(b)
  PROVE  /\ SubSeq(b, i, j) \in Seq(Bytes)
         /\ Len(SubSeq(b, i, j)) = IF i <= j THEN j - i + 1 ELSE 0
         /\ \A k \in 1 .. j - i + 1 : SubSeq(b, i, j)[k] = b[i + k - 1]
<1>1. Len(b) \in Nat
  BY LenProperties
<1>2. \A k \in i .. j : b[k] \in Bytes
  BY <1>1, ElementOfSeq
<1> QED
  BY <1>2, SubSeqProperties

(* The bytes that may hold the length of the first field.                  *)
LEMMA LengthBytesProperties ==
  ASSUME NEW b \in Seq(Bytes), b # <<>>
  PROVE  /\ LengthBytes(b) \in Seq(Bytes) /\ Len(b) \in Nat /\ Len(b) >= 1
         /\ Len(LengthBytes(b)) = IF Len(b) < 11 THEN Len(b) - 1 ELSE 10
         /\ \A k \in 1 .. Len(LengthBytes(b)) : LengthBytes(b)[k] = b[k + 1]
<1>1. Len(b) \in Nat /\ Len(b) >= 1
  BY LenProperties, EmptySeq
<1>2. PICK e \in Nat : e = (IF Len(b) < 11 THEN Len(b) ELSE 11)
  BY <1>1
<1>3. PICK l : l = SubSeq(b, 2, e)
  OBVIOUS
<1>4. /\ l \in Seq(Bytes) /\ Len(l) = IF 2 <= e THEN e - 2 + 1 ELSE 0
      /\ \A k \in 1 .. e - 2 + 1 : l[k] = b[2 + k - 1]
  BY <1>1, <1>2, <1>3, SubSeqBytes
<1>5. Len(l) = IF Len(b) < 11 THEN Len(b) - 1 ELSE 10
  BY <1>1, <1>2, <1>4
<1>6. \A k \in 1 .. Len(l) : l[k] = b[k + 1]
  <2> SUFFICES ASSUME NEW k \in 1 .. Len(l) PROVE l[k] = b[k + 1]
    OBVIOUS
  <2>1. k \in 1 .. e - 2 + 1 /\ 2 + k - 1 = k + 1
    BY <1>1, <1>2, <1>5
  <2> QED
    BY <2>1, <1>4
<1>7. l = LengthBytes(b)
  BY <1>2, <1>3 DEF LengthBytes
<1> QED
  BY <1>1, <1>4, <1>5, <1>6, <1>7

(* If it is not broken, the first field ends within the bytes, and what is *)
(* left after it is shorter.                                               *)
LEMMA FirstField ==
  ASSUME NEW b \in Seq(Bytes), b # <<>>, ~ BrokenAt(b)
  PROVE  /\ First(b) \in FieldSet /\ Rest(b) \in Seq(Bytes)
         /\ FieldEnd(b) \in Nat /\ LengthEnd(b) \in Nat /\ FieldEnd(b) <= Len(b)
         /\ Len(Rest(b)) = Len(b) - FieldEnd(b) /\ Len(Rest(b)) < Len(b)
<1>1. PICK l : l = LengthBytes(b)
  OBVIOUS
<1>2. l \in Seq(Bytes) /\ Len(l) \in Nat /\ Len(b) \in Nat /\ Len(b) >= 1
  BY <1>1, LengthBytesProperties, LenProperties
<1>3. PICK k : k = LengthEnd(b)
  OBVIOUS
<1>4. k \in VarintEnds(l)
  BY <1>1, <1>3 DEF BrokenAt, LengthEnd
<1>5. k \in 1 .. Len(l)
  BY <1>4 DEF VarintEnds
<1>6. SubSeq(l, 1, k) \in Seq(Bytes)
  BY <1>2, <1>5, SubSeqBytes
<1>7. VarintValue[SubSeq(l, 1, k)] \in Nat
  BY <1>6, VarintValueDef
<1>8. PICK e : e = FieldEnd(b)
  OBVIOUS
<1>9. e \in Nat /\ e >= 2 /\ e <= Len(b)
  <2>1. e = k + 1 + VarintValue[SubSeq(l, 1, k)]
    BY <1>1, <1>3, <1>8 DEF FieldEnd
  <2>2. e \in Nat /\ e >= 2
    BY <2>1, <1>5, <1>7
  <2>3. ~ (e > Len(b))
    BY <1>8 DEF BrokenAt
  <2> QED
    BY <2>2, <2>3, <1>2
<1>10. First(b) \in FieldSet
  <2>1. SubSeq(b, k + 2, e) \in Seq(Bytes)
    BY <1>5, <1>9, SubSeqBytes
  <2>2. b[1] \in Bytes
    BY <1>2, ElementOfSeq
  <2> QED
    BY <2>1, <2>2, <1>3, <1>8 DEF First, FieldSet
<1>11. /\ Rest(b) \in Seq(Bytes)
       /\ Len(Rest(b)) = Len(b) - e /\ Len(Rest(b)) < Len(b)
  <2>1. PICK r : r = SubSeq(b, e + 1, Len(b))
    OBVIOUS
  <2>2. r \in Seq(Bytes) /\ Len(r) = IF e + 1 <= Len(b) THEN Len(b) - (e + 1) + 1 ELSE 0
    BY <2>1, <1>2, <1>9, SubSeqBytes
  <2>3. Len(r) = Len(b) - e /\ Len(r) < Len(b)
    BY <2>2, <1>2, <1>9
  <2> QED
    BY <2>1, <2>2, <2>3, <1>8 DEF Rest
<1> QED
  BY <1>3, <1>5, <1>8, <1>9, <1>10, <1>11

(* Broken is a field.                                                      *)
LEMMA BrokenInSet == Broken \in FieldSet
<1>1. 0 \in Bytes
  BY DigitProperties DEF Bytes
<1> QED
  BY <1>1, EmptySeq DEF Broken, FieldSet

(* The fields satisfy their recursive definition.                          *)
LEMMA FieldsDef ==
  /\ Fields \in [Seq(Bytes) -> Seq(FieldSet)]
  /\ \A b \in Seq(Bytes) :
       Fields[b] = IF b = <<>> THEN <<>>
                   ELSE IF BrokenAt(b) THEN <<Broken>>
                   ELSE <<First(b)>> \o Fields[Rest(b)]
<1> DEFINE X == Seq(Bytes)
           V == Seq(FieldSet)
           Done == {b \in X : b = <<>> \/ BrokenAt(b)}
           next == [b \in X |-> Rest(b)]
           g == [b \in X |-> IF b = <<>> THEN <<>> ELSE <<Broken>>]
           h == [p \in X \X V |-> <<First(p[1])>> \o p[2]]
           size == [b \in X |-> Len(b)]
<1>1. \A b \in X : b \notin Done =>
         Rest(b) \in X /\ Len(Rest(b)) < Len(b) /\ First(b) \in FieldSet
  BY FirstField
<1>2. \A b \in X, v \in V : b \notin Done =>
         h[<<b, v>>] = <<First(b)>> \o v /\ h[<<b, v>>] \in V
  <2> SUFFICES ASSUME NEW b \in X, NEW v \in V, b \notin Done
               PROVE  h[<<b, v>>] = <<First(b)>> \o v /\ h[<<b, v>>] \in V
    OBVIOUS
  <2>1. h[<<b, v>>] = <<First(b)>> \o v
    OBVIOUS
  <2>2. <<First(b)>> \o v \in V
    <3> HIDE DEF Done, h
    <3> QED
      BY <1>1, ConsProperties
  <2> QED
    BY <2>1, <2>2
<1>3. V # {} /\ <<>> \in V /\ <<Broken>> \in V
  <2>1. <<>> \in V
    BY EmptySeq
  <2>2. <<Broken>> \in V
    BY BrokenInSet
  <2> QED
    BY <2>1, <2>2
<1>4. PICK f \in [X -> V] : f = Step(f, X, Done, next, g, h)
  <2>1. size \in [X -> Nat] /\ \A b \in X : b \in Done => g[b] \in V
    BY LenProperties, <1>3
  <2>2. \A b \in X : b \notin Done => next[b] \in X /\ size[next[b]] < size[b]
    <3> HIDE DEF Done
    <3> QED
      BY <1>1
  <2>3. \A b \in X, v \in V : b \notin Done => h[<<b, v>>] \in V
    <3> HIDE DEF h, Done
    <3> QED
      BY <1>2
  <2> HIDE DEF X, V, Done, next, g, h, size
  <2>4. WellFounded(X, V, Done, next, g, h, size)
    BY <1>3, <2>1, <2>2, <2>3 DEF WellFounded
  <2> QED
    BY <2>4, RecursionSolved
<1>5. ASSUME NEW b \in X
      PROVE  f[b] = IF b = <<>> THEN <<>>
                    ELSE IF BrokenAt(b) THEN <<Broken>>
                    ELSE <<First(b)>> \o f[Rest(b)]
  <2>1. f[b] = IF b \in Done THEN g[b] ELSE h[<<b, f[next[b]]>>]
    <3> HIDE DEF Done, g, h, next
    <3> QED
      BY <1>4 DEF Step
  <2>2. CASE b \in Done
    <3> HIDE DEF h
    <3> QED
      BY <2>1, <2>2
  <2>3. CASE b \notin Done
    <3>1. next[b] = Rest(b) /\ f[Rest(b)] \in V
      <4> HIDE DEF Done
      <4> QED
        BY <2>3, <1>1
    <3>2. f[b] = <<First(b)>> \o f[Rest(b)]
      <4> HIDE DEF h, Done, next, V
      <4> QED
        BY <2>1, <2>3, <3>1, <1>2
    <3> QED
      BY <3>2, <2>3
  <2> QED
    BY <2>2, <2>3
<1>6. f = [b \in X |-> IF b = <<>> THEN <<>>
                       ELSE IF BrokenAt(b) THEN <<Broken>>
                       ELSE <<First(b)>> \o f[Rest(b)]]
  BY <1>5
<1>7. Fields = [b \in X |-> IF b = <<>> THEN <<>>
                            ELSE IF BrokenAt(b) THEN <<Broken>>
                            ELSE <<First(b)>> \o Fields[Rest(b)]]
  <2> HIDE DEF Done, next, g, h, size, V
  <2> QED
    BY <1>6, ZenonT(60)
      DEF Fields, BrokenAt, First, Rest, FieldEnd, LengthEnd, LengthBytes
<1>8. \A n \in Nat : \A b \in X : Len(b) = n => Fields[b] \in V
  <2> DEFINE T == {n \in Nat : \A b \in X : Len(b) = n => Fields[b] \in V}
  <2>1. ASSUME NEW n \in Nat, \A j \in 0 .. n - 1 : j \in T PROVE n \in T
    <3> SUFFICES ASSUME NEW b \in X, Len(b) = n PROVE Fields[b] \in V
      OBVIOUS
    <3>1. Fields[b] = IF b = <<>> THEN <<>>
                      ELSE IF BrokenAt(b) THEN <<Broken>>
                      ELSE <<First(b)>> \o Fields[Rest(b)]
      BY <1>7
    <3>2. CASE b \in Done
      BY <3>1, <3>2, <1>3
    <3>3. CASE b \notin Done
      <4>1. Rest(b) \in X /\ Len(Rest(b)) \in Nat /\ Len(Rest(b)) < n
        BY <3>3, <1>1, LenProperties
      <4>2. Len(Rest(b)) \in T
        BY <4>1, <2>1
      <4>3. Fields[Rest(b)] \in V
        BY <4>1, <4>2
      <4>4. <<First(b)>> \o Fields[Rest(b)] \in V
        BY <4>3, <3>3, <1>1, ConsProperties
      <4> QED
        BY <3>1, <3>3, <4>4
    <3> QED
      BY <3>2, <3>3
  <2> HIDE DEF T
  <2>2. \A n \in Nat : n \in T
    BY <2>1, NumberInduction
  <2> QED
    BY <2>2 DEF T
<1>9. Fields = [b \in X |-> Fields[b]]
  BY <1>7, Zenon
<1>10. \A b \in X : Fields[b] \in V
  BY <1>8, LenProperties
<1> QED
  BY <1>7, <1>9, <1>10

(* b begins with a tag and the varint of L, as far as b goes.              *)
StartsField(b, L) ==
  /\ b \in Seq(Bytes) /\ b # <<>> /\ b[1] % 8 = 2
  /\ \A k \in 1 .. VarintSize[L] : k + 1 <= Len(b) => b[k + 1] = Varint[L][k]

(* What the reader makes of the start of a field: it is broken if the      *)
(* field is cut, and found to end where it ends otherwise.                 *)
LEMMA ScanField ==
  ASSUME NEW L \in Nat, NEW b, StartsField(b, L)
  PROVE  /\ Len(b) < DelimitedSize(L) => BrokenAt(b)
         /\ Len(b) >= DelimitedSize(L) /\ VarintSize[L] <= 10 =>
              /\ ~ BrokenAt(b)
              /\ LengthEnd(b) = VarintSize[L] /\ FieldEnd(b) = DelimitedSize(L)
<1>1. PICK v \in Seq(Bytes) : v = Varint[L]
  BY VarintRead
<1>2. PICK n \in Nat : n = VarintSize[L] /\ n = Len(v) /\ n >= 1
  BY <1>1, VarintRead, VarintSizeGrows
<1>3. v[n] < Digit /\ \A j \in 1 .. n - 1 : v[j] >= Digit
  BY <1>1, <1>2, VarintRead DEF VarintShape
<1>4. VarintValue[v] = L
  BY <1>1, VarintRead
<1>5. b \in Seq(Bytes) /\ b # <<>> /\ b[1] % 8 = 2
  BY DEF StartsField
<1>6. PICK l : l = LengthBytes(b)
  OBVIOUS
<1>7. /\ l \in Seq(Bytes) /\ Len(b) \in Nat /\ Len(b) >= 1
      /\ Len(l) = IF Len(b) < 11 THEN Len(b) - 1 ELSE 10
      /\ \A k \in 1 .. Len(l) : l[k] = b[k + 1]
  BY <1>5, <1>6, LengthBytesProperties
<1>8. Len(l) \in Nat /\ \A k \in 1 .. Len(l) : l[k] \in Nat
  <2>1. \A k \in 1 .. Len(l) : l[k] \in Bytes
    BY <1>7, ElementOfSeq
  <2> QED
    BY <2>1, <1>7, DigitProperties DEF Bytes
<1>9. ASSUME NEW k \in 1 .. n, k <= Len(l) PROVE l[k] = v[k]
  <2>1. k + 1 <= Len(b) /\ k \in 1 .. Len(l)
    BY <1>7, <1>9
  <2>2. b[k + 1] = v[k]
    BY <2>1, <1>1, <1>2 DEF StartsField
  <2> QED
    BY <2>1, <2>2, <1>7
<1>10. ASSUME Len(l) < n PROVE VarintEnds(l) = {}
  <2> SUFFICES ASSUME NEW k \in 1 .. Len(l), l[k] < Digit PROVE FALSE
    BY DEF VarintEnds
  <2>1. k \in 1 .. n - 1 /\ k \in 1 .. n
    BY <1>7, <1>10
  <2>2. l[k] = v[k] /\ v[k] >= Digit
    BY <2>1, <1>3, <1>8, <1>9
  <2>3. l[k] \in Nat
    BY <1>8
  <2> QED
    BY <2>2, <2>3, DigitProperties
<1>11. ASSUME Len(l) >= n PROVE LengthEnd(b) = n /\ VarintEnds(l) # {}
                                /\ FieldEnd(b) = DelimitedSize(L)
  <2>1. n \in VarintEnds(l)
    <3>1. n \in 1 .. Len(l) /\ l[n] = v[n]
      BY <1>2, <1>7, <1>9, <1>11
    <3>2. \A j \in 1 .. n - 1 : l[j] = v[j]
      BY <1>2, <1>7, <1>9, <1>11
    <3> QED
      BY <3>1, <3>2, <1>3 DEF VarintEnds
  <2>2. ASSUME NEW k \in VarintEnds(l) PROVE k = n
    <3>1. /\ k \in 1 .. Len(l) /\ l[k] < Digit /\ l[n] < Digit
          /\ \A j \in 1 .. k - 1 : l[j] >= Digit
          /\ \A j \in 1 .. n - 1 : l[j] >= Digit
      BY <2>1, <2>2 DEF VarintEnds
    <3>2. l[k] \in Nat /\ l[n] \in Nat
      <4>1. n \in 1 .. Len(l)
        BY <1>2, <1>8, <1>11
      <4> QED
        BY <4>1, <3>1, <1>8
    <3>3. ~ (k < n)
      BY <3>1, <3>2, <1>7, DigitProperties, SMTT(30)
    <3>4. ~ (n < k)
      BY <3>1, <3>2, <1>2, <1>7, DigitProperties
    <3> QED
      BY <3>1, <3>3, <3>4, <1>7
  <2>3. LengthEnd(b) = n
    BY <2>1, <2>2, <1>6 DEF LengthEnd
  <2>4. SubSeq(l, 1, n) = v
    <3>1. PICK w : w = SubSeq(l, 1, n)
      OBVIOUS
    <3>2. /\ w \in Seq(Bytes) /\ Len(w) = IF 1 <= n THEN n - 1 + 1 ELSE 0
          /\ \A k \in 1 .. n - 1 + 1 : w[k] = l[1 + k - 1]
      <4>1. n <= Len(l) /\ l \in Seq(Bytes)
        BY <1>7, <1>8, <1>11
      <4>2. /\ SubSeq(l, 1, n) \in Seq(Bytes)
            /\ Len(SubSeq(l, 1, n)) = IF 1 <= n THEN n - 1 + 1 ELSE 0
            /\ \A k \in 1 .. n - 1 + 1 : SubSeq(l, 1, n)[k] = l[1 + k - 1]
        BY <4>1, SubSeqBytes
      <4> QED
        BY <4>2, <3>1
    <3>3. Len(w) = Len(v)
      BY <3>2, <1>2
    <3>4. ASSUME NEW k \in 1 .. Len(w) PROVE w[k] = v[k]
      <4>1. k \in 1 .. n /\ k \in 1 .. n - 1 + 1 /\ 1 + k - 1 = k /\ k <= Len(l)
        BY <3>3, <1>2, <1>7, <1>11
      <4> QED
        BY <4>1, <3>2, <1>9
    <3>5. w = v
      BY <3>2, <3>3, <3>4, SeqEqual
    <3> QED
      BY <3>1, <3>5
  <2>5. FieldEnd(b) = n + 1 + L
    BY <2>3, <2>4, <1>4, <1>6 DEF FieldEnd
  <2> QED
    BY <2>1, <2>3, <2>5, <1>2 DEF DelimitedSize
<1>12. DelimitedSize(L) \in Nat /\ DelimitedSize(L) = 1 + n + L
  BY <1>2 DEF DelimitedSize
<1>13. ASSUME Len(b) < DelimitedSize(L) PROVE BrokenAt(b)
  <2>1. CASE Len(l) < n
    BY <2>1, <1>6, <1>10 DEF BrokenAt
  <2>2. CASE Len(l) >= n
    BY <2>2, <1>7, <1>11, <1>12, <1>13 DEF BrokenAt
  <2> QED
    BY <2>1, <2>2, <1>2, <1>7
<1>14. ASSUME Len(b) >= DelimitedSize(L), n <= 10
       PROVE  /\ ~ BrokenAt(b)
              /\ LengthEnd(b) = VarintSize[L] /\ FieldEnd(b) = DelimitedSize(L)
  <2>1. Len(l) >= n
    BY <1>2, <1>7, <1>12, <1>14
  <2>2. ~ (FieldEnd(b) > Len(b))
    BY <2>1, <1>7, <1>11, <1>12, <1>14
  <2> QED
    BY <2>1, <2>2, <1>2, <1>5, <1>6, <1>11 DEF BrokenAt
<1> QED
  BY <1>2, <1>13, <1>14

(* A length-delimited field, and the beginnings of a sequence of bytes.    *)
FieldBytes(t, s) == <<t>> \o Varint[Len(s)] \o s

(* w is the n bytes of b after the first i; c is a followed by b; b begins *)
(* with p.                                                                 *)
IsSlice(w, b, i, n) ==
  w \in Seq(Bytes) /\ Len(w) = n /\ \A k \in 1 .. n : w[k] = b[i + k]

(* c consists of a and b.                                                  *)
IsConcat(c, a, b) ==
  /\ c \in Seq(Bytes)
  /\ Len(a) \in Nat /\ Len(b) \in Nat /\ Len(c) = Len(a) + Len(b)
  /\ \A k \in 1 .. Len(a) : c[k] = a[k]
  /\ \A k \in 1 .. Len(b) : c[Len(a) + k] = b[k]

(* p is a beginning of b.                                                  *)
Begins(p, b) ==
  p \in Seq(Bytes) /\ Len(p) <= Len(b) /\ \A k \in 1 .. Len(p) : p[k] = b[k]

(* c is the field of tag t and contents s, of length L, whose varint takes *)
(* n bytes; in all there are D bytes.                                      *)
IsField(c, t, s, L, n, D) ==
  /\ c \in Seq(Bytes)
  /\ L = Len(s) /\ n = VarintSize[L] /\ D = DelimitedSize(L)
  /\ D = 1 + n + L /\ n >= 1 /\ D >= 2 /\ Len(c) = D
  /\ c[1] = t
  /\ \A k \in 1 .. n : c[k + 1] = Varint[L][k]
  /\ \A k \in 1 .. L : c[n + 1 + k] = s[k]

(* SubSeq takes a slice.                                                   *)
LEMMA SliceOf ==
  ASSUME NEW b \in Seq(Bytes), NEW i \in Nat, NEW n \in Nat, i + n <= Len(b)
  PROVE  IsSlice(SubSeq(b, i + 1, i + n), b, i, n)
<1>1. PICK w : w = SubSeq(b, i + 1, i + n)
  OBVIOUS
<1>2. i + 1 \in Nat /\ i + 1 >= 1 /\ i + n \in Nat
  OBVIOUS
<1>3. /\ w \in Seq(Bytes)
      /\ Len(w) = IF i + 1 <= i + n THEN i + n - (i + 1) + 1 ELSE 0
      /\ \A k \in 1 .. i + n - (i + 1) + 1 : w[k] = b[i + 1 + k - 1]
  BY <1>1, <1>2, SubSeqBytes
<1>4. Len(w) = n
  BY <1>3
<1>5. ASSUME NEW k \in 1 .. n PROVE w[k] = b[i + k]
  <2>1. k \in 1 .. i + n - (i + 1) + 1 /\ i + 1 + k - 1 = i + k
    OBVIOUS
  <2> QED
    BY <2>1, <1>3
<1> QED
  BY <1>1, <1>3, <1>4, <1>5 DEF IsSlice

(* There is only one.                                                      *)
LEMMA SliceUnique ==
  ASSUME NEW b, NEW i, NEW n \in Nat, NEW v, NEW w,
         IsSlice(v, b, i, n), IsSlice(w, b, i, n)
  PROVE  v = w
<1>1. v \in Seq(Bytes) /\ w \in Seq(Bytes) /\ Len(v) = Len(w)
      /\ \A k \in 1 .. Len(v) : v[k] = w[k]
  BY DEF IsSlice
<1> QED
  BY <1>1, SeqEqual


(* Concatenation puts together.                                            *)
LEMMA ConcatBytes ==
  ASSUME NEW a \in Seq(Bytes), NEW b \in Seq(Bytes)
  PROVE  IsConcat(a \o b, a, b)
<1>1. Len(a) \in Nat /\ Len(b) \in Nat
  BY LenProperties
<1>2. PICK c : c = a \o b
  OBVIOUS
<1>3. /\ c \in Seq(Bytes) /\ Len(c) = Len(a) + Len(b)
      /\ \A i \in 1 .. Len(a) + Len(b) :
           c[i] = IF i <= Len(a) THEN a[i] ELSE b[i - Len(a)]
  BY <1>2, ConcatProperties
<1>4. \A k \in 1 .. Len(a) : c[k] = a[k]
  BY <1>1, <1>3
<1>5. ASSUME NEW k \in 1 .. Len(b) PROVE c[Len(a) + k] = b[k]
  <2>1. /\ Len(a) + k \in 1 .. Len(a) + Len(b) /\ ~ (Len(a) + k <= Len(a))
        /\ Len(a) + k - Len(a) = k
    BY <1>1
  <2> QED
    BY <2>1, <1>3
<1> QED
  BY <1>1, <1>2, <1>3, <1>4, <1>5 DEF IsConcat

(* The bytes of a field, by their places.                                  *)
LEMMA FieldBytesProperties ==
  ASSUME NEW t \in Bytes, NEW s \in Seq(Bytes)
  PROVE  \E L, n, D \in Nat : IsField(FieldBytes(t, s), t, s, L, n, D)
<1>1. Len(s) \in Nat
  BY LenProperties
<1>2. PICK v \in Seq(Bytes) : v = Varint[Len(s)] /\ Len(v) = VarintSize[Len(s)]
  BY <1>1, VarintRead
<1>3. Len(v) \in Nat /\ Len(v) >= 1
  BY <1>1, <1>2, VarintSizeGrows
<1>4. PICK u : u = <<t>> \o v
  OBVIOUS
<1>5. /\ u \in Seq(Bytes) /\ Len(u) = 1 + Len(v) /\ u[1] = t
      /\ \A i \in 2 .. 1 + Len(v) : u[i] = v[i - 1]
  BY <1>4, ConsProperties
<1>6. PICK b : b = u \o s
  OBVIOUS
<1>7. /\ b \in Seq(Bytes) /\ Len(b) = Len(u) + Len(s)
      /\ \A k \in 1 .. Len(u) : b[k] = u[k]
      /\ \A k \in 1 .. Len(s) : b[Len(u) + k] = s[k]
  BY <1>5, <1>6, ConcatBytes DEF IsConcat
<1>8. b = FieldBytes(t, s)
  BY <1>2, <1>4, <1>6 DEF FieldBytes
<1>9. ASSUME NEW k \in 1 .. Len(v) PROVE b[k + 1] = v[k]
  <2>1. k + 1 \in 2 .. 1 + Len(v) /\ k + 1 \in 1 .. Len(u) /\ k + 1 - 1 = k
    BY <1>3, <1>5
  <2> QED
    BY <2>1, <1>5, <1>7, SMTT(30)
<1>10. ASSUME NEW k \in 1 .. Len(s) PROVE b[Len(v) + 1 + k] = s[k]
  <2>1. Len(v) + 1 + k = Len(u) + k
    BY <1>3, <1>5
  <2> QED
    BY <2>1, <1>7
<1>11. b[1] = t
  BY <1>3, <1>5, <1>7
<1>12. /\ DelimitedSize(Len(s)) = 1 + Len(v) + Len(s) /\ DelimitedSize(Len(s)) \in Nat
       /\ DelimitedSize(Len(s)) >= 2
  BY <1>1, <1>2, <1>3 DEF DelimitedSize
<1>13. Len(b) = DelimitedSize(Len(s))
  BY <1>1, <1>3, <1>5, <1>7, <1>12
<1>14. IsField(b, t, s, Len(s), Len(v), DelimitedSize(Len(s)))
  BY <1>2, <1>3, <1>7, <1>9, <1>10, <1>11, <1>12, <1>13 DEF IsField
<1> QED
  BY <1>1, <1>3, <1>8, <1>12, <1>14

(* A field that is whole is read, and then what follows it.                *)
LEMMA WholeField ==
  ASSUME NEW t \in Bytes, t % 8 = 2, NEW s \in Seq(Bytes),
         VarintSize[Len(s)] <= 10, NEW r \in Seq(Bytes)
  PROVE  Fields[FieldBytes(t, s) \o r] =
           <<[tag |-> t, data |-> s]>> \o Fields[r]
<1>1. PICK c : c = FieldBytes(t, s)
  OBVIOUS
<1>2. PICK L \in Nat, n \in Nat, D \in Nat : IsField(c, t, s, L, n, D)
  BY <1>1, FieldBytesProperties
<1>3. /\ c \in Seq(Bytes) /\ Len(c) = D /\ c[1] = t /\ D >= 2 /\ D = 1 + n + L
      /\ L = Len(s) /\ n = VarintSize[L] /\ D = DelimitedSize(L)
      /\ \A k \in 1 .. n : c[k + 1] = Varint[L][k]
      /\ \A k \in 1 .. L : c[n + 1 + k] = s[k]
  BY <1>2 DEF IsField
<1>4. PICK b : b = c \o r
  OBVIOUS
<1>5. /\ b \in Seq(Bytes) /\ Len(b) = D + Len(r) /\ Len(r) \in Nat
      /\ \A k \in 1 .. D : b[k] = c[k]
      /\ \A k \in 1 .. Len(r) : b[D + k] = r[k]
  <2>1. c \in Seq(Bytes) /\ Len(c) = D
    BY <1>3
  <2>2. IsConcat(b, c, r)
    BY <2>1, <1>4, ConcatBytes
  <2> QED
    BY <2>1, <2>2 DEF IsConcat
<1>6. D >= 2 /\ D = 1 + n + L
  BY <1>3
<1>7. b # <<>> /\ b[1] = t
  <2>1. Len(b) >= 2 /\ 1 \in 1 .. D
    BY <1>5, <1>6
  <2>2. b[1] = t
    BY <2>1, <1>3, <1>5
  <2>3. b # <<>>
    BY <2>1, EmptySeq
  <2> QED
    BY <2>2, <2>3
<1>8. ASSUME NEW k \in 1 .. n PROVE b[k + 1] = Varint[L][k]
  <2>1. k + 1 \in 1 .. D
    BY <1>6
  <2> QED
    BY <2>1, <1>3, <1>5
<1>9. StartsField(b, L)
  BY <1>3, <1>5, <1>7, <1>8 DEF StartsField
<1>10. ~ BrokenAt(b) /\ LengthEnd(b) = n /\ FieldEnd(b) = D
  <2>1. Len(b) >= DelimitedSize(L) /\ VarintSize[L] <= 10
    BY <1>3, <1>5, SMTT(30)
  <2> QED
    BY <2>1, <1>3, <1>9, ScanField
<1>11. SubSeq(b, n + 2, D) = s
  <2>1. (n + 1) + L <= Len(b) /\ n + 1 \in Nat /\ n + 2 = (n + 1) + 1 /\ D = (n + 1) + L
    BY <1>5, <1>6
  <2>2. IsSlice(SubSeq(b, n + 2, D), b, n + 1, L)
    BY <2>1, <1>5, SliceOf
  <2>3. IsSlice(s, b, n + 1, L)
    <3>1. ASSUME NEW k \in 1 .. L PROVE s[k] = b[n + 1 + k]
      <4>1. n + 1 + k \in 1 .. D
        BY <1>6
      <4> QED
        BY <4>1, <1>3, <1>5
    <3> QED
      BY <3>1, <1>3 DEF IsSlice
  <2> QED
    BY <2>2, <2>3, SliceUnique
<1>12. SubSeq(b, D + 1, Len(b)) = r
  <2>1. IsSlice(SubSeq(b, D + 1, D + Len(r)), b, D, Len(r))
    BY <1>5, SliceOf
  <2>2. IsSlice(r, b, D, Len(r))
    BY <1>5 DEF IsSlice
  <2> QED
    BY <2>1, <2>2, <1>5, SliceUnique
<1>13. First(b) = [tag |-> t, data |-> s] /\ Rest(b) = r
  BY <1>7, <1>10, <1>11, <1>12 DEF First, Rest
<1>14. Fields[b] = <<First(b)>> \o Fields[Rest(b)]
  BY <1>5, <1>7, <1>10, FieldsDef
<1> QED
  BY <1>1, <1>4, <1>13, <1>14

(* A field that is cut is broken.                                          *)
LEMMA CutField ==
  ASSUME NEW t \in Bytes, t % 8 = 2, NEW s \in Seq(Bytes), NEW p,
         Begins(p, FieldBytes(t, s)), p # <<>>,
         Len(p) < Len(FieldBytes(t, s))
  PROVE  Fields[p] = <<Broken>>
<1>1. PICK c : c = FieldBytes(t, s)
  OBVIOUS
<1>2. PICK L \in Nat, n \in Nat, D \in Nat : IsField(c, t, s, L, n, D)
  BY <1>1, FieldBytesProperties
<1>3. p \in Seq(Bytes) /\ \A k \in 1 .. Len(p) : p[k] = c[k]
  BY <1>1 DEF Begins
<1>4. Len(p) \in Nat /\ Len(p) >= 1
  BY <1>3, LenProperties, EmptySeq
<1>5. StartsField(p, L)
  <2>1. p[1] = t
    <3>1. p[1] = c[1]
      BY <1>3, <1>4
    <3> QED
      BY <3>1, <1>2 DEF IsField
  <2>2. ASSUME NEW k \in 1 .. n, k + 1 <= Len(p)
        PROVE  p[k + 1] = Varint[L][k]
    <3>1. k + 1 \in 1 .. Len(p)
      BY <1>4, <2>2
    <3>2. p[k + 1] = c[k + 1]
      BY <3>1, <1>3
    <3> QED
      BY <3>2, <1>2 DEF IsField
  <2>3. n = VarintSize[L]
    BY <1>2 DEF IsField
  <2> QED
    BY <1>3, <2>1, <2>2, <2>3 DEF StartsField
<1>6. Len(p) < DelimitedSize(L)
  BY <1>1, <1>2 DEF IsField
<1>7. BrokenAt(p)
  BY <1>5, <1>6, ScanField
<1> QED
  BY <1>3, <1>7, FieldsDef

-----------------------------------------------------------------------------
(* Messages.                                                               *)

(* Tags are bytes of wire type 2, and differ.                              *)
LEMMA TagProperties ==
  \A f \in 1 .. 6 : /\ Tag(f) \in Bytes /\ Tag(f) % 8 = 2 /\ Tag(f) >= Tag(1)
                    /\ \A g \in 1 .. 6 : Tag(f) = Tag(g) => f = g
<1> SUFFICES ASSUME NEW f \in 1 .. 6
             PROVE  /\ Tag(f) \in Bytes /\ Tag(f) % 8 = 2 /\ Tag(f) >= Tag(1)
                    /\ \A g \in 1 .. 6 : Tag(f) = Tag(g) => f = g
  OBVIOUS
<1>1. Tag(f) = 8 * f + 2 /\ Tag(6) = 50 /\ Tag(1) = 10
  BY DEF Tag
<1>2. Tag(f) \in Nat /\ Tag(f) <= 50 /\ Tag(f) >= 10 /\ Tag(f) % 8 = 2
  BY <1>1
<1>3. \A g \in 1 .. 6 : Tag(f) = Tag(g) => f = g
  BY DEF Tag
<1>4. Tag(f) \in Bytes
  BY <1>2, DigitProperties DEF Bytes
<1> QED
  BY <1>1, <1>2, <1>3, <1>4

(* The tables of the two messages.                                         *)
IsTable(T) ==
  /\ \A c \in DOMAIN T : /\ c # "None" /\ c # "Invalid"
                         /\ T[c].num \in 2 .. 6 /\ T[c].fields \subseteq {1, 2}
  /\ \A c, d \in DOMAIN T : T[c].num = T[d].num => c = d

(* The tables of both messages are such tables.                            *)
LEMMA TablesOK == IsTable(Request) /\ IsTable(Response)
<1>1. IsTable(Request)
  BY DEF IsTable, Request, Field, Ping, Isync, Fsync, Rsync, Bye
<1>2. IsTable(Response)
  BY DEF IsTable, Response, Field, Pong, Redirect, Fsync
<1> QED
  BY <1>1, <1>2

(* The messages of table T: strings that the command does not have are     *)
(* empty.                                                                  *)
Args == [{1, 2} -> Seq(Bytes)]

(* The messages of type T: a command of T, and no string that the command  *)
(* does not have.                                                          *)
Messages(T) ==
  {m \in [id : Seq(Bytes), cmd : DOMAIN T, args : Args] :
     \A f \in {1, 2} : f \notin T[m.cmd].fields => m.args[f] = <<>>}

(* A string is written with the length that was computed for it.           *)
LEMMA WriteStringProperties ==
  ASSUME NEW f \in 1 .. 6, NEW s \in Seq(Bytes)
  PROVE  /\ WriteString(f, s) \in Seq(Bytes)
         /\ StringSize(s) \in Nat /\ Len(s) \in Nat /\ Len(s) <= StringSize(s)
         /\ Len(WriteString(f, s)) = StringSize(s)
         /\ s # <<>> => WriteString(f, s) = FieldBytes(Tag(f), s)
<1>1. CASE s = <<>>
  BY <1>1, EmptySeq DEF WriteString, StringSize
<1>2. CASE s # <<>>
  <2>1. Tag(f) \in Bytes
    BY TagProperties
  <2>2. PICK c : c = FieldBytes(Tag(f), s)
    OBVIOUS
  <2>3. PICK L \in Nat, n \in Nat, D \in Nat : IsField(c, Tag(f), s, L, n, D)
    BY <2>1, <2>2, FieldBytesProperties
  <2>4. c \in Seq(Bytes) /\ Len(c) = D /\ D = DelimitedSize(Len(s)) /\ L = Len(s)
    BY <2>3 DEF IsField
  <2>5. L <= D
    BY <2>3 DEF IsField
  <2>6. WriteString(f, s) = c /\ StringSize(s) = D
    BY <1>2, <2>2, <2>4 DEF WriteString, StringSize, FieldBytes
  <2> QED
    BY <1>2, <2>2, <2>4, <2>5, <2>6
<1> QED
  BY <1>1, <1>2

(* So are the strings of a command.                                        *)
LEMMA WriteArgsProperties ==
  ASSUME NEW F, NEW args \in Args
  PROVE  /\ WriteArgs(F, args) \in Seq(Bytes) /\ ArgsSize(F, args) \in Nat
         /\ Len(WriteArgs(F, args)) = ArgsSize(F, args)
<1>1. args[1] \in Seq(Bytes) /\ args[2] \in Seq(Bytes)
  BY DEF Args
<1>2. PICK a : a = (IF 1 \in F THEN WriteString(1, args[1]) ELSE <<>>)
  OBVIOUS
<1>3. PICK b : b = (IF 2 \in F THEN WriteString(2, args[2]) ELSE <<>>)
  OBVIOUS
<1>4. PICK i : i = (IF 1 \in F THEN StringSize(args[1]) ELSE 0)
  OBVIOUS
<1>5. PICK j : j = (IF 2 \in F THEN StringSize(args[2]) ELSE 0)
  OBVIOUS
<1>6. a \in Seq(Bytes) /\ i \in Nat /\ Len(a) = i
  <2>1. 1 \in 1 .. 6
    OBVIOUS
  <2> QED
    BY <2>1, <1>1, <1>2, <1>4, WriteStringProperties, EmptySeq
<1>7. b \in Seq(Bytes) /\ j \in Nat /\ Len(b) = j
  <2>1. 2 \in 1 .. 6
    OBVIOUS
  <2> QED
    BY <2>1, <1>1, <1>3, <1>5, WriteStringProperties, EmptySeq
<1>8. WriteArgs(F, args) = a \o b /\ ArgsSize(F, args) = i + j
  BY <1>2, <1>3, <1>4, <1>5 DEF WriteArgs, ArgsSize
<1>9. IsConcat(a \o b, a, b)
  BY <1>6, <1>7, ConcatBytes
<1> QED
  BY <1>6, <1>7, <1>8, <1>9 DEF IsConcat

(* A message is at most two fields: its id, and its command with the       *)
(* strings of the command as contents.                                     *)
CmdBytes(T, m) ==
  FieldBytes(Tag(T[m.cmd].num), WriteArgs(T[m.cmd].fields, m.args))

(* A message is written as its id and its command, with the length         *)
(* computed.                                                               *)
LEMMA WriteProperties ==
  ASSUME NEW T, IsTable(T), NEW m \in Messages(T)
  PROVE  /\ Write(T, m) = WriteString(1, m.id) \o CmdBytes(T, m)
         /\ WriteString(1, m.id) \in Seq(Bytes) /\ CmdBytes(T, m) \in Seq(Bytes)
         /\ IsConcat(Write(T, m), WriteString(1, m.id), CmdBytes(T, m))
         /\ Size(T, m) \in Nat /\ Size(T, m) >= 2 /\ Len(CmdBytes(T, m)) >= 2
         /\ Len(Write(T, m)) = Size(T, m)
         /\ ArgsSize(T[m.cmd].fields, m.args) \in Nat
         /\ Size(T, m) = StringSize(m.id) +
              DelimitedSize(ArgsSize(T[m.cmd].fields, m.args))
<1>1. PICK F, n : F = T[m.cmd].fields /\ n = T[m.cmd].num
  OBVIOUS
<1>2. m.id \in Seq(Bytes) /\ m.args \in Args /\ m.cmd # "None" /\ n \in 2 .. 6
  BY <1>1 DEF Messages, IsTable
<1>3. PICK s : s = WriteArgs(F, m.args)
  OBVIOUS
<1>4. s \in Seq(Bytes) /\ ArgsSize(F, m.args) \in Nat /\ ArgsSize(F, m.args) = Len(s)
  BY <1>2, <1>3, WriteArgsProperties
<1>5. PICK c : c = CmdBytes(T, m)
  OBVIOUS
<1>6. c = FieldBytes(Tag(n), s)
  BY <1>1, <1>3, <1>5 DEF CmdBytes
<1>7. Tag(n) \in Bytes
  BY <1>2, TagProperties
<1>8. PICK L \in Nat, k \in Nat, D \in Nat : IsField(c, Tag(n), s, L, k, D)
  BY <1>4, <1>6, <1>7, FieldBytesProperties
<1>9. c \in Seq(Bytes) /\ Len(c) = D /\ D >= 2 /\ D = DelimitedSize(Len(s))
  BY <1>8 DEF IsField
<1>10. PICK a : a = WriteString(1, m.id)
  OBVIOUS
<1>11. a \in Seq(Bytes) /\ StringSize(m.id) \in Nat /\ Len(a) = StringSize(m.id)
  <2>1. 1 \in 1 .. 6
    OBVIOUS
  <2> QED
    BY <2>1, <1>2, <1>10, WriteStringProperties
<1>12. Write(T, m) = a \o c
  BY <1>1, <1>2, <1>3, <1>4, <1>6, <1>10 DEF Write, FieldBytes
<1>13. Size(T, m) = StringSize(m.id) + D
       /\ Size(T, m) = StringSize(m.id) + DelimitedSize(ArgsSize(T[m.cmd].fields, m.args))
  BY <1>1, <1>2, <1>4, <1>9 DEF Size
<1>14. IsConcat(a \o c, a, c)
  BY <1>9, <1>11, ConcatBytes
<1>15. Len(a \o c) = Len(a) + Len(c)
  BY <1>14 DEF IsConcat
<1>16. Size(T, m) \in Nat /\ Size(T, m) >= 2 /\ Len(Write(T, m)) = Size(T, m)
  BY <1>9, <1>11, <1>12, <1>13, <1>15
<1> QED
  BY <1>1, <1>4, <1>5, <1>9, <1>10, <1>11, <1>12, <1>13, <1>14, <1>16

(* The length that compute_size finds is the length of what is written,    *)
(* for every message: so what goes into the frame, and into the nested     *)
(* message, is right.                                                      *)
THEOREM SizeIsLength ==
  ASSUME NEW T \in {Request, Response}, NEW m \in Messages(T)
  PROVE  Len(Write(T, m)) = Size(T, m)
<1>1. IsTable(T)
  BY TablesOK
<1> QED
  BY <1>1, WriteProperties

-----------------------------------------------------------------------------
(* Reading what was written.                                               *)

(* A string that is written is read as one field, and an empty one as      *)
(* none.                                                                   *)
LEMMA StringFields ==
  ASSUME NEW f \in 1 .. 6, NEW s \in Seq(Bytes), Len(s) < Base * Base,
         NEW r \in Seq(Bytes)
  PROVE  Fields[WriteString(f, s) \o r] =
           IF s = <<>> THEN Fields[r]
           ELSE <<[tag |-> Tag(f), data |-> s]>> \o Fields[r]
<1>1. CASE s = <<>>
  <2>1. <<>> \o r = r
    BY ConcatEmptySeq
  <2> QED
    BY <1>1, <2>1 DEF WriteString
<1>2. CASE s # <<>>
  <2>1. WriteString(f, s) = FieldBytes(Tag(f), s) /\ Len(s) \in Nat
    BY <1>2, WriteStringProperties
  <2>2. VarintSize[Len(s)] \in Nat /\ VarintSize[Len(s)] <= 3
    BY <2>1, VarintSizeBounds, VarintSizeGrows
  <2>3. VarintSize[Len(s)] <= 10
    BY <2>2
  <2>4. Tag(f) \in Bytes /\ Tag(f) % 8 = 2
    BY TagProperties
  <2>5. Fields[FieldBytes(Tag(f), s) \o r] = <<[tag |-> Tag(f), data |-> s]>> \o Fields[r]
    BY <2>3, <2>4, WholeField
  <2> QED
    BY <1>2, <2>1, <2>5
<1> QED
  BY <1>1, <1>2

(* Nothing has no fields.                                                  *)
LEMMA NoFields == Fields[<<>>] = <<>>
BY FieldsDef, EmptySeq

(* The last of at most two places.                                         *)
LEMMA MaxOne == Max({1}) = 1 /\ Max({2}) = 2 /\ Max({1, 2}) = 2
BY DEF Max

(* The last field with a tag, among none, one or two.                      *)
LEMMA LastOfNone ==
  \A t : LastWith(<<>>, t) = <<>>
BY DEF LastWith

(* The last value of a field among one,                                    *)
LEMMA LastOfOne ==
  ASSUME NEW x, NEW t
  PROVE  LastWith(<<x>>, t) = IF x.tag = t THEN x.data ELSE <<>>
<1>1. PICK fs : fs = <<x>>
  OBVIOUS
<1>2. DOMAIN fs = {1} /\ fs[1] = x
  BY <1>1
<1>3. CASE x.tag = t
  <2>1. {k \in DOMAIN fs : fs[k].tag = t} = {1}
    BY <1>2, <1>3
  <2> QED
    BY <1>1, <1>2, <1>3, <2>1, MaxOne DEF LastWith
<1>4. CASE x.tag # t
  <2>1. {k \in DOMAIN fs : fs[k].tag = t} = {}
    BY <1>2, <1>4
  <2> QED
    BY <1>1, <1>2, <1>4, <2>1 DEF LastWith
<1> QED
  BY <1>3, <1>4

(* and among two.                                                          *)
LEMMA LastOfTwo ==
  ASSUME NEW x, NEW y, NEW t
  PROVE  LastWith(<<x, y>>, t) =
           IF y.tag = t THEN y.data ELSE IF x.tag = t THEN x.data ELSE <<>>
<1>1. PICK fs : fs = <<x, y>>
  OBVIOUS
<1>2. DOMAIN fs = {1, 2} /\ fs[1] = x /\ fs[2] = y
  BY <1>1
<1>3. PICK at : at = {k \in DOMAIN fs : fs[k].tag = t}
  OBVIOUS
<1>4. LastWith(fs, t) = IF at = {} THEN <<>> ELSE fs[Max(at)].data
  BY <1>3 DEF LastWith
<1>5. CASE y.tag = t /\ x.tag = t
  <2>1. at = {1, 2}
    BY <1>2, <1>3, <1>5
  <2> QED
    BY <1>1, <1>2, <1>4, <1>5, <2>1, MaxOne
<1>6. CASE y.tag = t /\ x.tag # t
  <2>1. at = {2}
    BY <1>2, <1>3, <1>6
  <2> QED
    BY <1>1, <1>2, <1>4, <1>6, <2>1, MaxOne
<1>7. CASE y.tag # t /\ x.tag = t
  <2>1. at = {1}
    BY <1>2, <1>3, <1>7
  <2> QED
    BY <1>1, <1>2, <1>4, <1>7, <2>1, MaxOne
<1>8. CASE y.tag # t /\ x.tag # t
  <2>1. at = {}
    BY <1>2, <1>3, <1>8
  <2> QED
    BY <1>1, <1>2, <1>4, <1>8, <2>1
<1> QED
  BY <1>5, <1>6, <1>7, <1>8

(* Two fields.                                                             *)
LEMMA Pair ==
  ASSUME NEW x, NEW y
  PROVE  <<x>> \o <<y>> = <<x, y>>
<1>1. PICK S : S = {x, y}
  OBVIOUS
<1>2. <<x>> \in Seq(S) /\ <<y>> \in Seq(S) /\ <<x, y>> \in Seq(S)
  BY <1>1
<1>3. PICK c : c = <<x>> \o <<y>>
  OBVIOUS
<1>4. /\ c \in Seq(S) /\ Len(c) = 2
      /\ \A i \in 1 .. 2 : c[i] = IF i <= 1 THEN <<x>>[i] ELSE <<y>>[i - 1]
  <2>1. Len(<<x>>) = 1 /\ Len(<<y>>) = 1 /\ 1 + 1 = 2
    OBVIOUS
  <2> QED
    BY <1>2, <1>3, <2>1, ConcatProperties
<1>5. c[1] = x /\ c[2] = y
  BY <1>4
<1>6. \A i \in 1 .. Len(c) : c[i] = <<x, y>>[i]
  BY <1>4, <1>5
<1> QED
  BY <1>2, <1>3, <1>4, <1>6, SeqEqual

(* A field with a tag is not broken.                                       *)
LEMMA ReadField ==
  ASSUME NEW f \in 1 .. 6, NEW s
  PROVE  /\ [tag |-> Tag(f), data |-> s] # Broken
         /\ [tag |-> Tag(f), data |-> s].tag = Tag(f)
         /\ [tag |-> Tag(f), data |-> s].data = s
<1>1. Tag(f) # 0
  BY DEF Tag
<1> QED
  BY <1>1 DEF Broken

(* The strings of a command are read as they were written.                 *)
LEMMA ArgsRead ==
  ASSUME NEW F, F \subseteq {1, 2}, NEW args \in Args,
         \A f \in {1, 2} : f \notin F => args[f] = <<>>,
         ArgsSize(F, args) < Base * Base
  PROVE  /\ WellFormed(Fields[WriteArgs(F, args)])
         /\ ReadArgs(F, WriteArgs(F, args)) = args
<1>1. PICK a, b : a = args[1] /\ b = args[2]
  OBVIOUS
<1>2. a \in Seq(Bytes) /\ b \in Seq(Bytes)
  BY <1>1 DEF Args
<1>3. /\ 1 \in 1 .. 6 /\ 2 \in 1 .. 6 /\ Tag(1) # Tag(2)
  BY DEF Tag
<1>4. (1 \notin F => a = <<>>) /\ (2 \notin F => b = <<>>)
  BY <1>1
<1>5. WriteArgs(F, args) = WriteString(1, a) \o WriteString(2, b)
  BY <1>1, <1>4 DEF WriteArgs, WriteString
<1>6. /\ StringSize(a) \in Nat /\ Len(a) \in Nat /\ Len(a) <= StringSize(a)
      /\ StringSize(b) \in Nat /\ Len(b) \in Nat /\ Len(b) <= StringSize(b)
  BY <1>2, <1>3, WriteStringProperties
<1>7. ArgsSize(F, args) = StringSize(a) + StringSize(b)
  BY <1>1, <1>4 DEF ArgsSize, StringSize
<1>8. Len(a) < Base * Base /\ Len(b) < Base * Base
  <2>1. Base * Base \in Nat
    BY WireAssumption
  <2> QED
    BY <2>1, <1>6, <1>7
<1>9. PICK x : x = [tag |-> Tag(1), data |-> a]
  OBVIOUS
<1>10. PICK y : y = [tag |-> Tag(2), data |-> b]
  OBVIOUS
<1>11. /\ x # Broken /\ x.tag = Tag(1) /\ x.data = a
       /\ y # Broken /\ y.tag = Tag(2) /\ y.data = b
  BY <1>3, <1>9, <1>10, ReadField
<1>12. Fields[WriteString(2, b)] = IF b = <<>> THEN <<>> ELSE <<y>>
  <2>1. WriteString(2, b) \o <<>> = WriteString(2, b)
    BY <1>2, <1>3, WriteStringProperties, ConcatEmptySeq
  <2>2. Fields[WriteString(2, b) \o <<>>] =
          IF b = <<>> THEN Fields[<<>>] ELSE <<y>> \o Fields[<<>>]
    <3>1. <<>> \in Seq(Bytes)
      BY EmptySeq
    <3>2. PICK e \in Seq(Bytes) : e = <<>>
      BY <3>1
    <3>3. PICK f \in 1 .. 6 : f = 2
      BY <1>3
    <3>4. Fields[WriteString(f, b) \o e] =
            IF b = <<>> THEN Fields[e]
            ELSE <<[tag |-> Tag(f), data |-> b]>> \o Fields[e]
      BY <1>2, <1>8, StringFields
    <3> QED
      BY <3>2, <3>3, <3>4, <1>10
  <2>3. <<y>> \o <<>> = <<y>>
    OBVIOUS
  <2> QED
    BY <2>1, <2>2, <2>3, NoFields
<1>13. PICK fs : fs = Fields[WriteArgs(F, args)]
  OBVIOUS
<1>14. fs = IF a = <<>> THEN Fields[WriteString(2, b)]
            ELSE <<x>> \o Fields[WriteString(2, b)]
  <2>1. WriteString(2, b) \in Seq(Bytes)
    BY <1>2, <1>3, WriteStringProperties
  <2> QED
    BY <2>1, <1>2, <1>3, <1>5, <1>8, <1>9, <1>13, StringFields
<1>15. <<x>> \o <<>> = <<x>> /\ <<x>> \o <<y>> = <<x, y>>
  <2>1. <<x>> \o <<>> = <<x>>
    OBVIOUS
  <2>2. <<x>> \o <<y>> = <<x, y>>
    BY Pair
  <2> QED
    BY <2>1, <2>2
<1>16. WellFormed(fs) /\ LastWith(fs, Tag(1)) = a /\ LastWith(fs, Tag(2)) = b
  <2>1. CASE a = <<>> /\ b = <<>>
    <3>1. fs = <<>>
      BY <2>1, <1>12, <1>14
    <3> QED
      BY <2>1, <3>1, LastOfNone DEF WellFormed
  <2>2. CASE a = <<>> /\ b # <<>>
    <3>1. fs = <<y>>
      BY <2>2, <1>12, <1>14
    <3> QED
      BY <2>2, <3>1, <1>3, <1>11, LastOfOne DEF WellFormed
  <2>3. CASE a # <<>> /\ b = <<>>
    <3>1. fs = <<x>>
      BY <2>3, <1>12, <1>14, <1>15
    <3> QED
      BY <2>3, <3>1, <1>3, <1>11, LastOfOne DEF WellFormed
  <2>4. CASE a # <<>> /\ b # <<>>
    <3>1. fs = <<x, y>>
      BY <2>4, <1>12, <1>14, <1>15
    <3> QED
      BY <2>4, <3>1, <1>3, <1>11, LastOfTwo DEF WellFormed
  <2> QED
    BY <2>1, <2>2, <2>3, <2>4
<1>17. ReadArgs(F, WriteArgs(F, args)) = [f \in {1, 2} |-> args[f]]
  <2>1. ASSUME NEW f \in {1, 2}
        PROVE  (IF f \in F THEN LastWith(fs, Tag(f)) ELSE <<>>) = args[f]
    BY <1>1, <1>4, <1>16
  <2> QED
    BY <2>1, <1>13 DEF ReadArgs
<1>18. args = [f \in {1, 2} |-> args[f]]
  BY DEF Args
<1> QED
  BY <1>13, <1>16, <1>17, <1>18

(* The command field alone, and the fields of a message.                   *)
LEMMA CmdFields ==
  ASSUME NEW T, IsTable(T), NEW m \in Messages(T), Size(T, m) < Base * Base
  PROVE  Fields[CmdBytes(T, m)] =
           <<[tag |-> Tag(T[m.cmd].num),
              data |-> WriteArgs(T[m.cmd].fields, m.args)]>>
<1>1. PICK F, n, s : /\ F = T[m.cmd].fields /\ n = T[m.cmd].num
                     /\ s = WriteArgs(F, m.args)
  OBVIOUS
<1>2. m.args \in Args /\ n \in 1 .. 6 /\ m.id \in Seq(Bytes)
  BY <1>1 DEF Messages, IsTable
<1>3. s \in Seq(Bytes) /\ Len(s) = ArgsSize(F, m.args) /\ Len(s) \in Nat
  BY <1>1, <1>2, WriteArgsProperties
<1>4. Tag(n) \in Bytes /\ Tag(n) % 8 = 2
  BY <1>2, TagProperties
<1>5. PICK c : c = FieldBytes(Tag(n), s)
  OBVIOUS
<1>6. c = CmdBytes(T, m) /\ c \in Seq(Bytes)
  BY <1>1, <1>5, WriteProperties DEF CmdBytes
<1>7. VarintSize[Len(s)] <= 10
  <2>1. Size(T, m) = StringSize(m.id) + DelimitedSize(Len(s)) /\ Size(T, m) \in Nat
    BY <1>1, <1>3, WriteProperties
  <2>2. StringSize(m.id) \in Nat
    <3>1. 1 \in 1 .. 6
      OBVIOUS
    <3> QED
      BY <3>1, <1>2, WriteStringProperties
  <2>3. VarintSize[Len(s)] \in Nat
    BY <1>3, VarintSizeGrows
  <2>4. DelimitedSize(Len(s)) = 1 + VarintSize[Len(s)] + Len(s)
    BY DEF DelimitedSize
  <2>5. Len(s) < Base * Base
    <3>1. Base * Base \in Nat
      BY WireAssumption
    <3> QED
      BY <3>1, <1>3, <2>1, <2>2, <2>3, <2>4
  <2>6. VarintSize[Len(s)] <= 3
    BY <1>3, <2>5, VarintSizeBounds
  <2> QED
    BY <2>3, <2>6
<1>8. <<>> \in Seq(Bytes) /\ c \o <<>> = c
  BY <1>6, EmptySeq, ConcatEmptySeq
<1>9. Fields[c \o <<>>] = <<[tag |-> Tag(n), data |-> s]>> \o Fields[<<>>]
  BY <1>3, <1>4, <1>5, <1>7, <1>8, WholeField
<1>10. PICK y : y = [tag |-> Tag(n), data |-> s]
  OBVIOUS
<1>11. <<y>> \o <<>> = <<y>>
  OBVIOUS
<1>12. Fields[c] = <<y>>
  BY <1>8, <1>9, <1>10, <1>11, NoFields
<1> QED
  BY <1>1, <1>6, <1>10, <1>12

(* What Parse makes of the fields: one command, which is found; a broken   *)
(* field; no command.                                                      *)
CmdTags(T, fs) ==
  {k \in DOMAIN fs : \E c \in DOMAIN T : fs[k].tag = Tag(T[c].num)}

(* The last command of fs.                                                 *)
CmdOf(T, fs) ==
  CHOOSE c \in DOMAIN T : fs[Max(CmdTags(T, fs))].tag = Tag(T[c].num)

(* Parse, with names for its parts.                                        *)
LEMMA ParseDef ==
  ASSUME NEW T, NEW b
  PROVE  Parse(T, b) =
    IF \/ ~ WellFormed(Fields[b])
       \/ \E k \in CmdTags(T, Fields[b]) : ~ WellFormed(Fields[Fields[b][k].data])
    THEN Invalid
    ELSE [id   |-> LastWith(Fields[b], Tag(1)),
          cmd  |-> IF CmdTags(T, Fields[b]) = {} THEN "None"
                   ELSE CmdOf(T, Fields[b]),
          args |-> IF CmdTags(T, Fields[b]) = {} THEN ReadArgs({}, <<>>)
                   ELSE ReadArgs(T[CmdOf(T, Fields[b])].fields,
                                 Fields[b][Max(CmdTags(T, Fields[b]))].data)]
BY Zenon DEF Parse, CmdTags, CmdOf

(* Of fields with one command, the parser makes a message with that        *)
(* command.                                                                *)
LEMMA ParseCommand ==
  ASSUME NEW T, IsTable(T), NEW b, NEW j, NEW c \in DOMAIN T,
         WellFormed(Fields[b]), CmdTags(T, Fields[b]) = {j}, j \in {1, 2},
         Fields[b][j].tag = Tag(T[c].num),
         WellFormed(Fields[Fields[b][j].data])
  PROVE  Parse(T, b) =
           [id |-> LastWith(Fields[b], Tag(1)), cmd |-> c,
            args |-> ReadArgs(T[c].fields, Fields[b][j].data)]
<1>1. PICK fs : fs = Fields[b]
  OBVIOUS
<1>2. PICK at : at = CmdTags(T, fs)
  OBVIOUS
<1>3. at = {j}
  BY <1>1, <1>2
<1>4. Max(at) = j
  BY <1>3, MaxOne
<1>5. PICK e : e = CmdOf(T, fs)
  OBVIOUS
<1>6. e = c
  <2>1. ASSUME NEW d \in DOMAIN T, fs[j].tag = Tag(T[d].num) PROVE d = c
    <3>1. T[d].num \in 1 .. 6 /\ T[c].num \in 1 .. 6
      BY DEF IsTable
    <3>2. Tag(T[d].num) = Tag(T[c].num)
      BY <1>1, <2>1
    <3>3. T[d].num = T[c].num
      BY <3>1, <3>2, TagProperties
    <3> QED
      BY <3>3 DEF IsTable
  <2>2. fs[j].tag = Tag(T[c].num)
    BY <1>1
  <2>3. e \in DOMAIN T /\ fs[j].tag = Tag(T[e].num)
    BY <1>2, <1>4, <1>5, <2>2 DEF CmdOf
  <2> QED
    BY <2>1, <2>3
<1>7. WellFormed(fs) /\ (\A k \in at : WellFormed(Fields[fs[k].data])) /\ at # {}
  BY <1>1, <1>3
<1>8. Parse(T, b) =
        IF ~ WellFormed(fs) \/ \E k \in at : ~ WellFormed(Fields[fs[k].data])
        THEN Invalid
        ELSE [id   |-> LastWith(fs, Tag(1)),
              cmd  |-> IF at = {} THEN "None" ELSE e,
              args |-> IF at = {} THEN ReadArgs({}, <<>>)
                       ELSE ReadArgs(T[e].fields, fs[Max(at)].data)]
  BY <1>1, <1>2, <1>5, ParseDef
<1> QED
  BY <1>1, <1>4, <1>6, <1>7, <1>8

(* A broken field makes the parser fail.                                   *)
LEMMA ParseBroken ==
  ASSUME NEW T, NEW b, ~ WellFormed(Fields[b])
  PROVE  Parse(T, b) = Invalid
BY DEF Parse

(* Fields without command make a message without command.                  *)
LEMMA ParseNoCommand ==
  ASSUME NEW T, NEW b, WellFormed(Fields[b]), CmdTags(T, Fields[b]) = {}
  PROVE  Parse(T, b) = [id |-> LastWith(Fields[b], Tag(1)), cmd |-> "None",
                        args |-> ReadArgs({}, <<>>)]
<1>1. PICK fs : fs = Fields[b]
  OBVIOUS
<1>2. PICK at : at = CmdTags(T, fs)
  OBVIOUS
<1>3. PICK e : e = CmdOf(T, fs)
  OBVIOUS
<1>4. Parse(T, b) =
        IF ~ WellFormed(fs) \/ \E k \in at : ~ WellFormed(Fields[fs[k].data])
        THEN Invalid
        ELSE [id   |-> LastWith(fs, Tag(1)),
              cmd  |-> IF at = {} THEN "None" ELSE e,
              args |-> IF at = {} THEN ReadArgs({}, <<>>)
                       ELSE ReadArgs(T[e].fields, fs[Max(at)].data)]
  BY <1>1, <1>2, <1>3, ParseDef
<1>5. WellFormed(fs) /\ at = {}
  BY <1>1, <1>2
<1> QED
  BY <1>1, <1>4, <1>5

(* A message is read as it was written, if its length fits two bytes.      *)
LEMMA ParseWrite ==
  ASSUME NEW T, IsTable(T), NEW m \in Messages(T), Size(T, m) < Base * Base
  PROVE  Parse(T, Write(T, m)) = m
<1>1. PICK F, n, s : /\ F = T[m.cmd].fields /\ n = T[m.cmd].num
                     /\ s = WriteArgs(F, m.args)
  OBVIOUS
<1>2. /\ m.cmd \in DOMAIN T /\ m.args \in Args /\ m.id \in Seq(Bytes)
      /\ n \in 2 .. 6 /\ F \subseteq {1, 2}
      /\ \A f \in {1, 2} : f \notin F => m.args[f] = <<>>
      /\ m = [id |-> m.id, cmd |-> m.cmd, args |-> m.args]
  BY <1>1 DEF Messages, IsTable
<1>3. /\ StringSize(m.id) \in Nat /\ Len(m.id) \in Nat
      /\ Len(m.id) <= StringSize(m.id)
  <2>1. 1 \in 1 .. 6
    OBVIOUS
  <2> QED
    BY <2>1, <1>2, WriteStringProperties
<1>4. /\ Size(T, m) = StringSize(m.id) + DelimitedSize(ArgsSize(F, m.args))
      /\ Size(T, m) \in Nat /\ ArgsSize(F, m.args) \in Nat
  BY <1>1, WriteProperties
<1>5. Len(m.id) < Base * Base /\ ArgsSize(F, m.args) < Base * Base
  <2>1. Base * Base \in Nat
    BY WireAssumption
  <2>2. VarintSize[ArgsSize(F, m.args)] \in Nat
    BY <1>4, VarintSizeGrows
  <2>3. DelimitedSize(ArgsSize(F, m.args)) =
          1 + VarintSize[ArgsSize(F, m.args)] + ArgsSize(F, m.args)
    BY DEF DelimitedSize
  <2> QED
    BY <2>1, <2>2, <2>3, <1>3, <1>4
<1>6. WellFormed(Fields[s]) /\ ReadArgs(F, s) = m.args
  BY <1>1, <1>2, <1>5, ArgsRead
<1>7. PICK x, y : /\ x = [tag |-> Tag(1), data |-> m.id]
                  /\ y = [tag |-> Tag(n), data |-> s]
  OBVIOUS
<1>8. /\ x # Broken /\ x.tag = Tag(1) /\ x.data = m.id
      /\ y # Broken /\ y.tag = Tag(n) /\ y.data = s
  <2>1. 1 \in 1 .. 6 /\ n \in 1 .. 6
    BY <1>2
  <2> QED
    BY <2>1, <1>7, ReadField
<1>9. Tag(n) # Tag(1) /\ \A c \in DOMAIN T : Tag(T[c].num) # Tag(1)
  BY <1>2 DEF IsTable, Tag
<1>10. PICK b : b = Write(T, m)
  OBVIOUS
<1>11. Fields[b] = IF m.id = <<>> THEN <<y>> ELSE <<x, y>>
  <2>1. b = WriteString(1, m.id) \o CmdBytes(T, m) /\ CmdBytes(T, m) \in Seq(Bytes)
    BY <1>10, WriteProperties
  <2>2. Fields[CmdBytes(T, m)] = <<y>>
    BY <1>1, <1>7, CmdFields
  <2>3. <<x>> \o <<y>> = <<x, y>>
    BY Pair
  <2>4. 1 \in 1 .. 6
    OBVIOUS
  <2>5. Fields[WriteString(1, m.id) \o CmdBytes(T, m)] =
          IF m.id = <<>> THEN Fields[CmdBytes(T, m)]
          ELSE <<x>> \o Fields[CmdBytes(T, m)]
    BY <2>1, <2>4, <1>2, <1>5, <1>7, StringFields
  <2> QED
    BY <2>1, <2>2, <2>3, <2>5
<1>12. PICK fs : fs = Fields[b]
  OBVIOUS
<1>13. /\ WellFormed(fs) /\ LastWith(fs, Tag(1)) = m.id
       /\ \E j \in {1, 2} : CmdTags(T, fs) = {j} /\ fs[j] = y
  <2>1. CASE m.id = <<>>
    <3>1. fs = <<y>>
      BY <2>1, <1>11, <1>12
    <3>2. DOMAIN fs = {1} /\ fs[1] = y
      BY <3>1
    <3>3. CmdTags(T, fs) = {1}
      BY <3>2, <1>1, <1>2, <1>8 DEF CmdTags
    <3>4. WellFormed(fs)
      BY <3>2, <1>8 DEF WellFormed
    <3> QED
      BY <2>1, <3>1, <3>2, <3>3, <3>4, <1>8, <1>9, LastOfOne
  <2>2. CASE m.id # <<>>
    <3>1. fs = <<x, y>>
      BY <2>2, <1>11, <1>12
    <3>2. DOMAIN fs = {1, 2} /\ fs[1] = x /\ fs[2] = y
      BY <3>1
    <3>3. CmdTags(T, fs) = {2}
      BY <3>2, <1>1, <1>2, <1>8, <1>9 DEF CmdTags
    <3>4. WellFormed(fs)
      BY <3>2, <1>8 DEF WellFormed
    <3> QED
      BY <2>2, <3>1, <3>2, <3>3, <3>4, <1>8, <1>9, LastOfTwo
  <2> QED
    BY <2>1, <2>2
<1>14. PICK j \in {1, 2} : CmdTags(T, fs) = {j} /\ fs[j] = y
  BY <1>13
<1>15. Parse(T, b) = [id |-> m.id, cmd |-> m.cmd, args |-> m.args]
  <2>1. Parse(T, b) = [id |-> LastWith(fs, Tag(1)), cmd |-> m.cmd,
                       args |-> ReadArgs(T[m.cmd].fields, fs[j].data)]
    BY <1>1, <1>2, <1>6, <1>8, <1>12, <1>13, <1>14, ParseCommand
  <2> QED
    BY <2>1, <1>1, <1>6, <1>8, <1>13, <1>14
<1> QED
  BY <1>2, <1>10, <1>15

-----------------------------------------------------------------------------
(* Reading the beginning of what was written.                              *)

(* A beginning of two parts is a beginning of the first, or the first and  *)
(* a beginning of the second.                                              *)
LEMMA BeginningOfConcat ==
  ASSUME NEW a \in Seq(Bytes), NEW b \in Seq(Bytes), NEW p, Begins(p, a \o b)
  PROVE  /\ Len(p) \in Nat
         /\ Len(p) <= Len(a) => Begins(p, a)
         /\ Len(p) >= Len(a) =>
              \E q : Begins(q, b) /\ p = a \o q /\ Len(q) = Len(p) - Len(a)
<1>1. PICK c : c = a \o b
  OBVIOUS
<1>2. IsConcat(c, a, b)
  BY <1>1, ConcatBytes
<1>3. /\ Len(a) \in Nat /\ Len(b) \in Nat /\ Len(c) = Len(a) + Len(b)
      /\ \A k \in 1 .. Len(a) : c[k] = a[k]
      /\ \A k \in 1 .. Len(b) : c[Len(a) + k] = b[k]
  BY <1>2 DEF IsConcat
<1>4. p \in Seq(Bytes) /\ Len(p) <= Len(c) /\ \A k \in 1 .. Len(p) : p[k] = c[k]
  BY <1>1 DEF Begins
<1>5. Len(p) \in Nat
  BY <1>4, LenProperties
<1>6. ASSUME Len(p) <= Len(a) PROVE Begins(p, a)
  BY <1>3, <1>4, <1>5, <1>6 DEF Begins
<1>7. ASSUME Len(p) >= Len(a)
      PROVE  \E q : Begins(q, b) /\ p = a \o q /\ Len(q) = Len(p) - Len(a)
  <2>1. PICK n \in Nat : n = Len(p) - Len(a) /\ Len(a) + n = Len(p) /\ n <= Len(b)
    <3>1. /\ Len(p) - Len(a) \in Nat /\ Len(a) + (Len(p) - Len(a)) = Len(p)
          /\ Len(p) - Len(a) <= Len(b)
      BY <1>3, <1>4, <1>5, <1>7
    <3> QED
      BY <3>1
  <2>2. PICK q : q = SubSeq(p, Len(a) + 1, Len(a) + n)
    OBVIOUS
  <2>3. IsSlice(q, p, Len(a), n)
    <3>1. Len(a) + n <= Len(p)
      BY <2>1, <1>5
    <3> QED
      BY <3>1, <2>2, <1>3, <1>4, SliceOf
  <2>4. q \in Seq(Bytes) /\ Len(q) = n /\ \A k \in 1 .. n : q[k] = p[Len(a) + k]
    BY <2>3 DEF IsSlice
  <2>5. Begins(q, b)
    <3>1. ASSUME NEW k \in 1 .. n PROVE q[k] = b[k]
      <4>1. Len(a) + k \in 1 .. Len(p) /\ k \in 1 .. Len(b)
        BY <2>1, <1>3, <1>5
      <4> QED
        BY <4>1, <2>4, <1>3, <1>4
    <3> QED
      BY <3>1, <2>1, <2>4 DEF Begins
  <2>6. p = a \o q
    <3>1. PICK d : d = a \o q
      OBVIOUS
    <3>2. IsConcat(d, a, q)
      BY <3>1, <2>4, ConcatBytes
    <3>3. /\ d \in Seq(Bytes) /\ Len(d) = Len(p)
          /\ \A k \in 1 .. Len(a) : d[k] = a[k]
          /\ \A k \in 1 .. n : d[Len(a) + k] = q[k]
      BY <3>2, <2>1, <2>4 DEF IsConcat
    <3>4. ASSUME NEW k \in 1 .. Len(p) PROVE p[k] = d[k]
      <4>1. CASE k <= Len(a)
        <5>1. k \in 1 .. Len(a)
          BY <4>1, <1>3, <1>5
        <5> QED
          BY <5>1, <3>3, <1>3, <1>4
      <4>2. CASE k > Len(a)
        <5>1. PICK i \in 1 .. n : k = Len(a) + i
          <6>1. k - Len(a) \in 1 .. n /\ k = Len(a) + (k - Len(a))
            BY <4>2, <2>1, <1>3, <1>5
          <6> QED
            BY <6>1
        <5> QED
          BY <5>1, <3>3, <2>4
      <4> QED
        BY <4>1, <4>2, <1>3, <1>5
    <3>5. p = d
      BY <3>3, <3>4, <1>4, SeqEqual
    <3> QED
      BY <3>1, <3>5
  <2> QED
    BY <2>1, <2>4, <2>5, <2>6
<1> QED
  BY <1>5, <1>6, <1>7

(* Messages without command.                                               *)
Nones == [id : Seq(Bytes), cmd : {"None"}, args : Args]

(* What has at most an id is read as a message without command.            *)
LEMMA ParseNone ==
  ASSUME NEW T, IsTable(T), NEW b, NEW s \in Seq(Bytes),
         Fields[b] \in {<<>>, <<[tag |-> Tag(1), data |-> s]>>}
  PROVE  Parse(T, b) \in Nones
<1>1. PICK x : x = [tag |-> Tag(1), data |-> s]
  OBVIOUS
<1>2. x # Broken /\ x.tag = Tag(1) /\ x.data = s
  <2>1. 1 \in 1 .. 6
    OBVIOUS
  <2> QED
    BY <2>1, <1>1, ReadField
<1>3. \A c \in DOMAIN T : Tag(T[c].num) # Tag(1)
  BY SMTT(30) DEF IsTable, Tag
<1>4. PICK fs : fs = Fields[b]
  OBVIOUS
<1>5. WellFormed(fs) /\ CmdTags(T, fs) = {} /\ LastWith(fs, Tag(1)) \in Seq(Bytes)
  <2>1. CASE fs = <<>>
    <3>1. DOMAIN fs = {}
      BY <2>1
    <3> QED
      BY <2>1, <3>1, LastOfNone, EmptySeq DEF WellFormed, CmdTags
  <2>2. CASE fs = <<x>>
    <3>1. DOMAIN fs = {1} /\ fs[1] = x
      BY <2>2
    <3>2. WellFormed(fs) /\ CmdTags(T, fs) = {}
      BY <3>1, <1>2, <1>3 DEF WellFormed, CmdTags
    <3>3. LastWith(fs, Tag(1)) = s
      BY <2>2, <1>2, LastOfOne
    <3> QED
      BY <3>2, <3>3
  <2> QED
    BY <1>1, <1>4, <2>1, <2>2
<1>6. Parse(T, b) = [id |-> LastWith(fs, Tag(1)), cmd |-> "None",
                     args |-> ReadArgs({}, <<>>)]
  BY <1>4, <1>5, ParseNoCommand
<1>7. ReadArgs({}, <<>>) \in Args
  <2>1. <<>> \in Seq(Bytes)
    BY EmptySeq
  <2>2. ReadArgs({}, <<>>) = [f \in {1, 2} |-> <<>>]
    BY DEF ReadArgs
  <2> QED
    BY <2>1, <2>2 DEF Args
<1> QED
  BY <1>5, <1>6, <1>7 DEF Nones

(* The beginning of a message is invalid, or a message without command;    *)
(* then it ends where a field begins.                                      *)
AtTag(b, n) == n + 2 <= Len(b) /\ \E f \in 1 .. 6 : b[n + 1] = Tag(f)

(* The beginning of a message is invalid, or is read as a message without  *)
(* command; then it was cut before a tag.                                  *)
LEMMA ParseCut ==
  ASSUME NEW T, IsTable(T), NEW m \in Messages(T), NEW p,
         Begins(p, Write(T, m)), Len(p) < Size(T, m), Len(p) < Base * Base
  PROVE  \/ Parse(T, p) = Invalid
         \/ Parse(T, p) \in Nones /\ AtTag(Write(T, m), Len(p))
<1>1. PICK a, c, w : /\ a = WriteString(1, m.id) /\ c = CmdBytes(T, m)
                     /\ w = Write(T, m)
  OBVIOUS
<1>2. a \in Seq(Bytes) /\ c \in Seq(Bytes) /\ w = a \o c /\ Len(w) = Size(T, m)
      /\ IsConcat(w, a, c) /\ Len(c) >= 2
  BY <1>1, WriteProperties
<1>3. /\ Len(a) \in Nat /\ Len(c) \in Nat /\ Len(w) = Len(a) + Len(c)
      /\ \A k \in 1 .. Len(a) : w[k] = a[k]
      /\ \A k \in 1 .. Len(c) : w[Len(a) + k] = c[k]
  BY <1>2 DEF IsConcat
<1>4. PICK n, s : /\ n = T[m.cmd].num /\ s = WriteArgs(T[m.cmd].fields, m.args)
                  /\ c = FieldBytes(Tag(n), s)
  BY <1>1 DEF CmdBytes
<1>5. /\ m.id \in Seq(Bytes) /\ n \in 1 .. 6 /\ 1 \in 1 .. 6
      /\ s \in Seq(Bytes) /\ Tag(n) \in Bytes /\ Tag(n) % 8 = 2
      /\ Tag(1) \in Bytes /\ Tag(1) % 8 = 2
  <2>1. m.id \in Seq(Bytes) /\ n \in 1 .. 6 /\ m.args \in Args
    BY <1>4 DEF Messages, IsTable
  <2>2. s \in Seq(Bytes)
    BY <2>1, <1>4, WriteArgsProperties
  <2>3. 1 \in 1 .. 6
    OBVIOUS
  <2> QED
    BY <2>1, <2>2, <2>3, TagProperties
<1>6. Begins(p, a \o c) /\ p \in Seq(Bytes)
  BY <1>1, <1>2 DEF Begins
<1>7. Len(p) \in Nat
  BY <1>6, LenProperties
<1>8. c[1] = Tag(n)
  BY <1>4, <1>5, FieldBytesProperties DEF IsField
<1>9. AtTag(w, Len(a))
  <2>1. w[Len(a) + 1] = Tag(n)
    BY <1>2, <1>3, <1>8
  <2>2. Len(a) + 2 <= Len(w)
    BY <1>2, <1>3
  <2> QED
    BY <2>1, <2>2, <1>5 DEF AtTag
<1>10. CASE m.id = <<>>
  <2>1. a = <<>> /\ Len(a) = 0
    BY <1>1, <1>10 DEF WriteString
  <2>2. a \o c = c
    BY <2>1, <1>2, ConcatEmptySeq
  <2>3. CASE p = <<>>
    <3>1. Parse(T, p) \in Nones
      BY <2>3, <1>5, NoFields, ParseNone
    <3>2. Len(p) = Len(a)
      BY <2>1, <2>3
    <3> QED
      BY <3>1, <3>2, <1>1, <1>9
  <2>4. CASE p # <<>>
    <3>1. Begins(p, c) /\ Len(p) < Len(c)
      BY <1>2, <1>3, <1>6, <2>1, <2>2
    <3>2. Fields[p] = <<Broken>>
      BY <2>4, <3>1, <1>4, <1>5, CutField
    <3>3. ~ WellFormed(Fields[p])
      BY <3>2 DEF WellFormed
    <3> QED
      BY <3>3, ParseBroken
  <2> QED
    BY <2>3, <2>4
<1>11. CASE m.id # <<>>
  <2>1. a = FieldBytes(Tag(1), m.id)
    BY <1>1, <1>5, <1>11, WriteStringProperties
  <2>2. a[1] = Tag(1) /\ Len(a) >= 2
    BY <2>1, <1>5, FieldBytesProperties DEF IsField
  <2>3. CASE p = <<>>
    <3>1. Parse(T, p) \in Nones
      BY <2>3, <1>5, NoFields, ParseNone
    <3>2. Len(p) = 0
      BY <2>3
    <3>3. w[1] = Tag(1) /\ 0 + 2 <= Len(w) /\ 0 + 1 = 1
      BY <2>2, <1>3
    <3> QED
      BY <3>1, <3>2, <3>3, <1>1, <1>5 DEF AtTag
  <2>4. CASE p # <<>> /\ Len(p) < Len(a)
    <3>1. Begins(p, a)
      BY <2>4, <1>2, <1>3, <1>6, <1>7, BeginningOfConcat
    <3>2. Fields[p] = <<Broken>>
      BY <2>1, <2>4, <3>1, <1>5, CutField
    <3>3. ~ WellFormed(Fields[p])
      BY <3>2 DEF WellFormed
    <3> QED
      BY <3>3, ParseBroken
  <2>5. CASE Len(p) >= Len(a)
    <3>1. PICK q : Begins(q, c) /\ p = a \o q /\ Len(q) = Len(p) - Len(a)
      BY <2>5, <1>2, <1>6, BeginningOfConcat
    <3>2. q \in Seq(Bytes) /\ Len(q) \in Nat
      BY <3>1, LenProperties DEF Begins
    <3>3. Len(m.id) < Base * Base
      <4>1. Len(m.id) \in Nat /\ Len(m.id) <= Len(a) /\ Base * Base \in Nat
        <5>1. Base * Base \in Nat
          BY WireAssumption
        <5>2. /\ Len(m.id) \in Nat /\ Len(m.id) <= StringSize(m.id)
              /\ Len(a) = StringSize(m.id)
          BY <1>1, <1>5, WriteStringProperties
        <5> QED
          BY <5>1, <5>2
      <4> QED
        BY <4>1, <2>5, <1>3, <1>7
    <3>4. PICK x : x = [tag |-> Tag(1), data |-> m.id]
      OBVIOUS
    <3>5. Fields[p] = <<x>> \o Fields[q]
      BY <3>1, <3>2, <3>3, <3>4, <1>1, <1>5, <1>11, StringFields
    <3>6. CASE q = <<>>
      <4>1. <<x>> \o <<>> = <<x>>
        OBVIOUS
      <4>2. Fields[p] = <<x>>
        BY <4>1, <3>5, <3>6, NoFields
      <4>3. Parse(T, p) \in Nones
        BY <4>2, <3>4, <1>5, ParseNone
      <4>4. Len(p) = Len(a)
        BY <3>1, <3>6, <1>3, <1>7
      <4> QED
        BY <4>3, <4>4, <1>1, <1>9
    <3>7. CASE q # <<>>
      <4>1. Len(q) < Len(c)
        BY <3>1, <1>2, <1>3, <1>7
      <4>2. Fields[q] = <<Broken>>
        BY <4>1, <3>1, <3>7, <1>4, <1>5, CutField
      <4>3. <<x>> \o <<Broken>> = <<x, Broken>>
        BY Pair
      <4>4. Fields[p] = <<x, Broken>>
        BY <4>2, <4>3, <3>5
      <4>5. 2 \in DOMAIN Fields[p] /\ Fields[p][2] = Broken
        BY <4>4
      <4>6. ~ WellFormed(Fields[p])
        BY <4>5 DEF WellFormed
      <4> QED
        BY <4>6, ParseBroken
    <3> QED
      BY <3>6, <3>7
  <2> QED
    BY <2>3, <2>4, <2>5, <1>3, <1>7
<1> QED
  BY <1>10, <1>11


(* THEOREM: what write_to_with_cached_sizes writes, parse_from_bytes reads *)
(* back, for every request and response whose length two bytes can hold:   *)
(* strings of any bytes, empty ones, and all commands.                     *)
THEOREM RoundTrip ==
  ASSUME NEW T \in {Request, Response}, NEW m \in Messages(T),
         Size(T, m) < Base * Base
  PROVE  Parse(T, Write(T, m)) = m
<1>1. IsTable(T)
  BY TablesOK
<1> QED
  BY <1>1, ParseWrite

(* THEOREM: no proper beginning of a message is taken for a message with a *)
(* command, let alone another one: parse_from_bytes fails, or returns a    *)
(* message without command, which both ends ignore.                        *)
THEOREM BeginningNotRead ==
  ASSUME NEW T \in {Request, Response}, NEW m \in Messages(T), NEW p,
         Begins(p, Write(T, m)), Len(p) < Size(T, m), Len(p) < Base * Base
  PROVE  Parse(T, p) = Invalid \/ Parse(T, p).cmd = "None"
<1>1. IsTable(T)
  BY TablesOK
<1>2. Parse(T, p) = Invalid \/ Parse(T, p) \in Nones
  BY <1>1, ParseCut
<1> QED
  BY <1>2 DEF Nones
=============================================================================

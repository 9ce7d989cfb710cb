---------------------------- MODULE Codec_proofs ----------------------------
(***************************************************************************)
(* What the encodings write is what they read, for all widths and values:  *)
(* RoundTrip for the attributes of a message, FramesKept for the messages  *)
(* of a connection, InstantsRefused for the instants that are refused.     *)
(*                                                                         *)
(* Induction comes first, from the well-foundedness of the numbers; then   *)
(* division, fixed widths, groups of varint, times, flags of a bit field;  *)
(* then an encoder on its way and the decoder that follows it.             *)
(***************************************************************************)
EXTENDS BinaryEncoding, TcpFraming, WellFoundedInduction, TLAPS

-----------------------------------------------------------------------------
(* Induction and recursion on numbers, without an operator as a parameter. *)

\* A set of numbers that holds n whenever it holds all smaller ones holds them all.
LEMMA Induction ==
  ASSUME NEW S, \A n \in Nat : (\A m \in 0 .. n - 1 : m \in S) => n \in S
  PROVE  Nat \subseteq S
<1>1. SUFFICES ASSUME Nat \ S # {} PROVE FALSE
  OBVIOUS
<1>2. PICK n \in Nat \ S : \A m \in Nat \ S : ~(<<m, n>> \in OpToRel(<, Nat))
  BY <1>1, NatLessThanWellFounded, WFMin
<1>3. \A m \in 0 .. n - 1 : m \in S
  <2>1. SUFFICES ASSUME NEW m \in 0 .. n - 1, m \notin S PROVE FALSE
    OBVIOUS
  <2>2. m \in Nat /\ n \in Nat /\ m < n
    BY <2>1
  <2>3. <<m, n>> \in OpToRel(<, Nat)
    BY <2>2 DEF OpToRel
  <2>4. QED
    BY <1>2, <2>1, <2>2, <2>3
<1>4. QED
  BY <1>2, <1>3

\* A function is defined by its first value and by what follows each.
Steps(V) == [Nat -> [V -> V]]
Follows(g, V, first, step) ==
  g \in [Nat -> V] /\ g[0] = first /\ \A n \in Nat : g[n + 1] = step[n][g[n]]

LEMMA Recursion ==
  ASSUME NEW V, NEW first \in V, NEW step \in Steps(V)
  PROVE  \E g : Follows(g, V, first, step)
<1>0. step \in [Nat -> [V -> V]]
  BY DEF Steps
<1> DEFINE Upto(n, g) == /\ g \in [0 .. n -> V] /\ g[0] = first
                         /\ \A i \in 0 .. n - 1 : g[i + 1] = step[i][g[i]]
<1>1. \A n \in Nat : \E g : Upto(n, g)
  <2> DEFINE S == {n \in Nat : \E g : Upto(n, g)}
  <2>1. ASSUME NEW n \in Nat, \A m \in 0 .. n - 1 : m \in S PROVE n \in S
    <3>1. CASE n = 0
      <4>1. Upto(0, [i \in 0 .. 0 |-> first])
        OBVIOUS
      <4>2. QED
        BY <3>1, <4>1
    <3>2. CASE n # 0
      <4>1. PICK g : Upto(n - 1, g)
        BY <2>1, <3>2
      <4> DEFINE h == [i \in 0 .. n |-> IF i = n THEN step[n - 1][g[n - 1]] ELSE g[i]]
      <4>2. g[n - 1] \in V /\ step[n - 1][g[n - 1]] \in V
        BY <1>0, <3>2, <4>1
      <4>3. h \in [0 .. n -> V]
        BY <4>1, <4>2
      <4>4. h[0] = first
        BY <3>2, <4>1
      <4>5. ASSUME NEW i \in 0 .. n - 1 PROVE h[i + 1] = step[i][h[i]]
        <5>1. CASE i = n - 1
          <6>1. h[n] = step[n - 1][g[n - 1]] /\ h[n - 1] = g[n - 1]
            BY <3>2
          <6>2. i + 1 = n
            BY <5>1
          <6>3. QED
            BY <5>1, <6>1, <6>2
        <5>2. CASE i # n - 1
          <6>1. i \in 0 .. (n - 1) - 1 /\ i + 1 # n /\ i # n /\ i + 1 \in 0 .. n
            BY <5>2
          <6>2. h[i + 1] = g[i + 1] /\ h[i] = g[i]
            BY <6>1
          <6>3. QED
            BY <4>1, <6>1, <6>2
        <5>3. QED
          BY <5>1, <5>2
      <4>6. QED
        BY <4>3, <4>4, <4>5
    <3>3. QED
      BY <3>1, <3>2
  <2>2. Nat \subseteq S
    <3> HIDE DEF S
    <3>1. QED
      BY <2>1, Induction
  <2>3. QED
    BY <2>2
<1>2. ASSUME NEW n \in Nat, NEW g, NEW h, Upto(n, g), Upto(n + 1, h) PROVE \A i \in 0 .. n : g[i] = h[i]
  <2> DEFINE S == {i \in Nat : i <= n => g[i] = h[i]}
  <2>1. ASSUME NEW i \in Nat, \A m \in 0 .. i - 1 : m \in S PROVE i \in S
    <3>1. CASE i = 0
      BY <1>2, <3>1
    <3>2. CASE i # 0 /\ i <= n
      <4>1. g[i - 1] = h[i - 1]
        BY <2>1, <3>2
      <4>2. g[i] = step[i - 1][g[i - 1]] /\ h[i] = step[i - 1][h[i - 1]]
        <5>1. i - 1 \in 0 .. n - 1 /\ i - 1 \in 0 .. n /\ (i - 1) + 1 = i
          BY <3>2
        <5>2. QED
          BY <1>2, <5>1
      <4>3. QED
        BY <4>1, <4>2
    <3>3. QED
      BY <3>1, <3>2
  <2>2. Nat \subseteq S
    <3> HIDE DEF S
    <3>1. QED
      BY <2>1, Induction
  <2>3. QED
    BY <2>2
<1> DEFINE some(n) == CHOOSE g : Upto(n, g)
           G == [n \in Nat |-> some(n)[n]]
<1>3. \A n \in Nat : Upto(n, some(n))
  BY <1>1
<1> HIDE DEF some
<1>4. G \in [Nat -> V]
  BY <1>3
<1>5. G[0] = first
  BY <1>3
<1>6. ASSUME NEW n \in Nat PROVE G[n + 1] = step[n][G[n]]
  <2>1. Upto(n, some(n)) /\ Upto(n + 1, some(n + 1))
    BY <1>3
  <2>2. some(n)[n] = some(n + 1)[n]
    <3> HIDE DEF Upto
    <3>1. n \in 0 .. n
      OBVIOUS
    <3>2. QED
      BY <1>2, <2>1, <3>1
  <2>3. some(n + 1)[n + 1] = step[n][some(n + 1)[n]]
    BY <2>1
  <2>4. QED
    BY <2>2, <2>3
<1>7. QED
  BY <1>4, <1>5, <1>6 DEF Follows

-----------------------------------------------------------------------------
(* The powers of 2, and the numbers of values of some bytes. *)

Multiplies(g, base) == g = [i \in Nat |-> IF i = 0 THEN 1 ELSE base * g[i - 1]]

LEMMA Products ==
  ASSUME NEW base \in Nat \ {0}
  PROVE  /\ \E g : Multiplies(g, base)
         /\ \A g : Multiplies(g, base)
                 => /\ g \in [Nat -> Nat \ {0}] /\ g[0] = 1
                    /\ \A n \in Nat : g[n + 1] = base * g[n]
<1>1. \E g : Multiplies(g, base)
  <2> DEFINE step == [n \in Nat |-> [x \in Nat |-> base * x]]
  <2>1. step \in Steps(Nat) /\ 1 \in Nat
    BY DEF Steps
  <2>2. \A n, x \in Nat : step[n][x] = base * x
    OBVIOUS
  <2> HIDE DEF step
  <2>3. PICK g : Follows(g, Nat, 1, step)
    BY <2>1, Recursion
  <2>4. ASSUME NEW i \in Nat PROVE g[i] = IF i = 0 THEN 1 ELSE base * g[i - 1]
    <3>1. i # 0 => i - 1 \in Nat /\ (i - 1) + 1 = i
      OBVIOUS
    <3>2. ASSUME i # 0 PROVE g[i] = base * g[i - 1]
      <4> DEFINE j == i - 1
      <4>1. j \in Nat /\ j + 1 = i
        BY <3>1, <3>2
      <4> HIDE DEF j
      <4>2. g[j + 1] = step[j][g[j]] /\ g[j] \in Nat
        BY <2>3, <4>1 DEF Follows
      <4>3. QED
        BY <2>2, <4>1, <4>2 DEF j
    <3>3. QED
      BY <2>3, <3>2 DEF Follows
  <2>5. Multiplies(g, base)
    BY <2>3, <2>4 DEF Follows, Multiplies
  <2>6. QED
    BY <2>5
<1>2. ASSUME NEW g, Multiplies(g, base)
      PROVE  /\ g \in [Nat -> Nat \ {0}] /\ g[0] = 1
             /\ \A n \in Nat : g[n + 1] = base * g[n]
  <2>1. g[0] = 1
    BY <1>2 DEF Multiplies
  <2>2. \A n \in Nat : g[n + 1] = base * g[n]
    <3>1. ASSUME NEW n \in Nat PROVE g[n + 1] = base * g[n]
      <4>1. n + 1 \in Nat /\ n + 1 # 0 /\ (n + 1) - 1 = n
        OBVIOUS
      <4>2. QED
        BY <1>2, <4>1 DEF Multiplies
    <3>2. QED
      BY <3>1
  <2> DEFINE S == {i \in Nat : g[i] \in Nat \ {0}}
  <2>3. ASSUME NEW i \in Nat, \A m \in 0 .. i - 1 : m \in S PROVE i \in S
    <3>1. CASE i = 0
      BY <2>1, <3>1
    <3>2. CASE i # 0
      <4>1. i - 1 \in Nat /\ i - 1 \in 0 .. i - 1 /\ (i - 1) + 1 = i
        BY <3>2
      <4>2. g[i - 1] \in Nat \ {0}
        BY <2>3, <4>1
      <4>3. base * g[i - 1] \in Nat \ {0}
        BY <4>2
      <4>4. QED
        BY <2>2, <4>1, <4>3
    <3>3. QED
      BY <3>1, <3>2
  <2>4. Nat \subseteq S
    <3> HIDE DEF S
    <3>1. QED
      BY <2>3, Induction
  <2>5. g \in [Nat -> Nat \ {0}]
    BY <1>2, <2>4 DEF Multiplies
  <2>6. QED
    BY <2>1, <2>2, <2>5
<1>3. QED
  BY <1>1, <1>2

LEMMA PowerIs ==
  Power \in [Nat -> Nat \ {0}] /\ Power[0] = 1 /\ \A n \in Nat : Power[n + 1] = 2 * Power[n]
<1>1. \E g : Multiplies(g, 2)
  BY Products
<1>2. Multiplies(Power, 2)
  BY <1>1 DEF Power, Multiplies
<1>3. QED
  BY <1>2, Products

\* A byte has an even number of values, four or more, and Group is half of it.
LEMMA ByteIs ==
  ByteSize \in Nat /\ Group \in Nat /\ Group >= 2 /\ ByteSize = 2 * Group
<1>1. Bits \in Nat /\ Bits - 1 \in Nat /\ Bits - 2 \in Nat
      /\ (Bits - 1) + 1 = Bits /\ (Bits - 2) + 1 = Bits - 1
  BY WidthAssumption
<1>2. ByteSize = 2 * Power[Bits - 1] /\ Power[Bits - 1] = 2 * Power[Bits - 2]
  BY <1>1, PowerIs DEF ByteSize
<1>3. Power[Bits - 2] \in Nat \ {0}
  BY <1>1, PowerIs
<1>4. QED
  BY <1>2, <1>3 DEF Group

LEMMA SizeIs ==
  Size \in [Nat -> Nat \ {0}] /\ Size[0] = 1 /\ \A k \in Nat : Size[k + 1] = ByteSize * Size[k]
<1>1. ByteSize \in Nat \ {0}
  BY ByteIs
<1>2. \E g : Multiplies(g, ByteSize)
  BY <1>1, Products
<1>3. Multiplies(Size, ByteSize)
  BY <1>2 DEF Size, Multiplies
<1>4. QED
  BY <1>1, <1>3, Products

-----------------------------------------------------------------------------
(* Division. *)

LEMMA Division ==
  ASSUME NEW n \in Int, NEW d \in Nat \ {0}
  PROVE  /\ n \div d \in Int /\ n % d \in Nat /\ n % d < d /\ n = (n \div d) * d + (n % d)
         /\ n \in Nat => n \div d \in Nat /\ n \div d <= n
         /\ n \in Nat /\ d >= 2 /\ n # 0 => n \div d < n
  OBVIOUS

\* z3 needs these two apart from the rest.
LEMMA Distribute ==
  ASSUME NEW x \in Int, NEW y \in Int, NEW z \in Int, NEW t \in Int
  PROVE  (x - z * t) * y = x * y - z * (y * t)
  OBVIOUS

LEMMA Cancel ==
  ASSUME NEW x \in Int, NEW y \in Int, NEW z \in Int, x = y + z
  PROVE  x - y = z
  OBVIOUS

LEMMA QuotientIs ==
  ASSUME NEW n \in Int, NEW d \in Nat \ {0}, NEW q \in Int, NEW r \in 0 .. d - 1, n = q * d + r
  PROVE  n \div d = q /\ n % d = r
  OBVIOUS

LEMMA SmallDivision ==
  ASSUME NEW d \in Nat \ {0}, NEW r \in 0 .. d - 1
  PROVE  r % d = r /\ r \div d = 0 /\ (d + r) % d = r
  OBVIOUS

LEMMA DivideTwice ==
  ASSUME NEW n \in Int, NEW d \in Nat \ {0}, NEW e \in Nat \ {0}
  PROVE  d * e \in Nat \ {0} /\ n \div (d * e) = (n \div d) \div e
  OBVIOUS

-----------------------------------------------------------------------------
(* Numbers of a fixed width. *)

Bytes == 0 .. ByteSize - 1

Horner(f, bytes) ==
  f = [i \in 0 .. Len(bytes) |-> IF i = 0 THEN 0 ELSE f[i - 1] * ByteSize + bytes[i]]

LEMMA NumberIs ==
  ASSUME NEW bytes \in Seq(Nat)
  PROVE  \E f \in [0 .. Len(bytes) -> Nat] :
           /\ f[0] = 0 /\ \A i \in 1 .. Len(bytes) : f[i] = f[i - 1] * ByteSize + bytes[i]
           /\ Number(bytes) = f[Len(bytes)]
<1> DEFINE k == Len(bytes)
           step == [n \in Nat |-> [x \in Nat |-> x * ByteSize + (IF n + 1 <= k THEN bytes[n + 1] ELSE 0)]]
<1>1. k \in Nat /\ ByteSize \in Nat /\ \A i \in 1 .. k : bytes[i] \in Nat
  BY ByteIs
<1>2. step \in Steps(Nat)
  BY <1>1 DEF Steps
<1>3. \A n, x \in Nat : n + 1 <= k => step[n][x] = x * ByteSize + bytes[n + 1]
  OBVIOUS
<1> HIDE DEF step
<1>4. PICK g : Follows(g, Nat, 0, step)
  BY <1>2, Recursion
<1> DEFINE h == [i \in 0 .. k |-> g[i]]
<1>5. \A i \in 1 .. k : g[i] = g[i - 1] * ByteSize + bytes[i]
  <2>1. ASSUME NEW i \in 1 .. k PROVE g[i] = g[i - 1] * ByteSize + bytes[i]
    <3>1. i - 1 \in Nat /\ (i - 1) + 1 = i
      OBVIOUS
    <3>2. g[i - 1] \in Nat /\ g[i] = step[i - 1][g[i - 1]]
      BY <1>4, <3>1 DEF Follows
    <3>3. QED
      BY <1>3, <3>1, <3>2
  <2>2. QED
    BY <2>1
<1>6. \E f : Horner(f, bytes)
  <2>1. \A i \in 0 .. k : h[i] = IF i = 0 THEN 0 ELSE h[i - 1] * ByteSize + bytes[i]
    <3>1. ASSUME NEW i \in 0 .. k, i # 0 PROVE i \in 1 .. k /\ i - 1 \in 0 .. k
      BY <3>1
    <3>2. QED
      BY <1>4, <1>5, <3>1 DEF Follows
  <2>2. Horner(h, bytes)
    BY <2>1 DEF Horner
  <2>3. QED
    BY <2>2
<1> DEFINE f == CHOOSE f : Horner(f, bytes)
<1>7. Horner(f, bytes)
  BY <1>6
<1>8. Number(bytes) = f[Len(bytes)]
  BY DEF Number, Horner
<1> HIDE DEF f, h
<1>9. f[0] = 0 /\ \A i \in 1 .. k : f[i] = f[i - 1] * ByteSize + bytes[i]
  <2>1. f[0] = 0
    BY <1>1, <1>7 DEF Horner
  <2>2. ASSUME NEW i \in 1 .. k PROVE f[i] = f[i - 1] * ByteSize + bytes[i]
    <3>1. i \in 0 .. k /\ i # 0
      OBVIOUS
    <3>2. QED
      BY <1>7, <3>1 DEF Horner
  <2>3. QED
    BY <2>1, <2>2
<1>10. f \in [0 .. k -> Nat]
  <2> HIDE DEF f
  <2> DEFINE S == {i \in Nat : i <= k => f[i] \in Nat}
  <2>1. ASSUME NEW i \in Nat, \A m \in 0 .. i - 1 : m \in S PROVE i \in S
    <3>1. CASE i = 0
      BY <1>9, <3>1
    <3>2. CASE i # 0 /\ i <= k
      <4>1. i - 1 \in 0 .. i - 1 /\ i - 1 <= k /\ i \in 1 .. k
        BY <3>2
      <4>2. f[i - 1] \in Nat
        BY <2>1, <4>1
      <4>3. \A x, y, z \in Nat : x * y + z \in Nat
        OBVIOUS
      <4>5. f[i - 1] * ByteSize + bytes[i] \in Nat
        BY <1>1, <4>1, <4>2, <4>3
      <4>4. QED
        BY <1>9, <4>1, <4>5
    <3>3. QED
      BY <3>1, <3>2
  <2>2. Nat \subseteq S
    <3> HIDE DEF S
    <3>1. QED
      BY <2>1, Induction
  <2>3. \A i \in 0 .. k : f[i] \in Nat
    BY <2>2
  <2>4. DOMAIN f = 0 .. k /\ f = [i \in 0 .. k |-> f[i]]
    BY <1>7 DEF Horner
  <2>5. QED
    BY <2>3, <2>4
<1>11. QED
  BY <1>8, <1>9, <1>10

\* Some bytes of a number are the number, modulo the numbers of so many bytes.
LEMMA BigEndianRead ==
  ASSUME NEW n \in Int, NEW k \in Nat
  PROVE  /\ BigEndian(n, k) \in Seq(Bytes) /\ Len(BigEndian(n, k)) = k
         /\ Number(BigEndian(n, k)) = n % Size[k]
<1> DEFINE bytes == BigEndian(n, k)
<1>1. ByteSize \in Nat \ {0} /\ \A i \in Nat : Size[i] \in Nat \ {0}
  BY ByteIs, SizeIs
<1>2. \A i \in 1 .. k : k - i \in Nat /\ bytes[i] = (n \div Size[k - i]) % ByteSize
  BY DEF BigEndian
<1>3. bytes \in [1 .. k -> Bytes]
  <2>1. \A i \in 1 .. k : (n \div Size[k - i]) % ByteSize \in Bytes
    BY <1>1, <1>2, Division DEF Bytes
  <2>2. QED
    BY <2>1 DEF BigEndian
<1>4. bytes \in Seq(Bytes) /\ Len(bytes) = k
  BY <1>3
<1> HIDE DEF bytes
<1>5. bytes \in Seq(Nat)
  BY <1>1, <1>4 DEF Bytes
<1>6. PICK f \in [0 .. k -> Nat] :
        /\ f[0] = 0 /\ \A i \in 1 .. k : f[i] = f[i - 1] * ByteSize + bytes[i]
        /\ Number(bytes) = f[k]
  BY <1>4, <1>5, NumberIs
<1> DEFINE c == n \div Size[k]
           S == {i \in Nat : i <= k => f[i] = (n \div Size[k - i]) - c * Size[i]}
<1>7. c \in Int
  BY <1>1, Division
<1>8. ASSUME NEW i \in Nat, \A m \in 0 .. i - 1 : m \in S PROVE i \in S
  <2>1. CASE i = 0
    <3>1. Size[0] = 1 /\ k - 0 = k
      BY SizeIs
    <3>2. c * 1 = c /\ c - c = 0
      BY <1>7
    <3>3. (n \div Size[k - 0]) - c * Size[0] = 0
      BY <3>1, <3>2
    <3>4. QED
      BY <1>6, <2>1, <3>3
  <2>2. CASE i # 0 /\ i <= k
    <3> DEFINE q == n \div Size[k - i]
               s == Size[i - 1]
    <3>1. i - 1 \in 0 .. i - 1 /\ i - 1 \in Nat /\ i \in 1 .. k /\ k - i \in Nat /\ k - (i - 1) = (k - i) + 1
          /\ (i - 1) + 1 = i /\ i - 1 <= k
      BY <2>2
    <3>2. f[i - 1] = (n \div Size[(k - i) + 1]) - c * s
      BY <1>8, <3>1
    <3>3. Size[(k - i) + 1] = ByteSize * Size[k - i] /\ Size[i] = ByteSize * s
          /\ s \in Nat /\ Size[k - i] \in Nat \ {0}
      BY <1>1, <3>1, SizeIs
    <3>4. n \div Size[(k - i) + 1] = q \div ByteSize
      <4>1. n \div (Size[k - i] * ByteSize) = (n \div Size[k - i]) \div ByteSize
        BY <1>1, <3>1, DivideTwice, SMTT(30)
      <4>2. \A x, y \in Nat : x * y = y * x
        OBVIOUS
      <4>3. ByteSize * Size[k - i] = Size[k - i] * ByteSize
        BY <1>1, <3>1, <4>2
      <4>4. QED
        BY <3>3, <4>1, <4>3
    <3>5. q \in Int /\ q \div ByteSize \in Int /\ q = (q \div ByteSize) * ByteSize + (q % ByteSize)
      BY <1>1, <3>3, Division
    <3>6. f[i] = f[i - 1] * ByteSize + (q % ByteSize)
      BY <1>2, <1>6, <3>1
    <3> HIDE DEF c, q, s
    <3>7. ((q \div ByteSize) - c * s) * ByteSize = (q \div ByteSize) * ByteSize - c * (ByteSize * s)
      <4>1. ByteSize \in Int /\ s \in Int /\ c \in Int /\ q \div ByteSize \in Int
        BY <1>1, <1>7, <3>3, <3>5
      <4> DEFINE p == q \div ByteSize
      <4> HIDE DEF p
      <4>2. (p - c * s) * ByteSize = p * ByteSize - c * (ByteSize * s)
        BY <4>1, Distribute DEF p
      <4>3. QED
        BY <4>2 DEF p
    <3>8. c * (ByteSize * s) \in Int /\ (q \div ByteSize) * ByteSize \in Int /\ q % ByteSize \in Int
      BY <1>1, <1>7, <3>3, <3>5, Division
    <3>9. f[i] = q - c * Size[i]
      <4> DEFINE x == (q \div ByteSize) * ByteSize
                 y == c * (ByteSize * s)
                 z == q % ByteSize
      <4>1. x \in Int /\ y \in Int /\ z \in Int
        BY <3>8
      <4>2. f[i] = (x - y) + z /\ q = x + z
        BY <3>2, <3>4, <3>5, <3>6, <3>7
      <4> HIDE DEF x, y, z
      <4>3. f[i] = q - y
        BY <4>1, <4>2
      <4>4. QED
        BY <3>3, <4>3 DEF y
    <3>10. QED
      BY <3>9 DEF q
  <2>3. QED
    BY <2>1, <2>2
<1>9. Nat \subseteq S
  <2> HIDE DEF S
  <2>1. QED
    BY <1>8, Induction
<1>10. f[k] = (n \div Size[0]) - c * Size[k]
  <2>1. k - k = 0 /\ k \in S
    BY <1>9
  <2>2. QED
    BY <2>1
<1>11. n \div Size[0] = n /\ n = c * Size[k] + (n % Size[k]) /\ n % Size[k] \in Nat
  <2>1. n \div 1 = n
    OBVIOUS
  <2>2. QED
    BY <1>1, <2>1, SizeIs, Division
<1>12. f[k] = n % Size[k]
  <2>1. c * Size[k] \in Int
    BY <1>1, <1>7
  <2>2. n \in Int /\ c * Size[k] \in Int /\ n % Size[k] \in Int
    BY <1>11, <2>1
  <2>3. n - c * Size[k] = n % Size[k]
    BY <1>11, <2>2, Cancel
  <2>4. QED
    BY <1>10, <1>11, <2>3
<1>13. QED
  BY <1>4, <1>6, <1>12 DEF bytes

-----------------------------------------------------------------------------
(* Numbers of as many groups as they need. *)

Groups(g) == g = [n \in Nat |-> IF n < Group THEN <<n>> ELSE <<Group + (n % Group)>> \o g[n \div Group]]

\* UVarInt[n] needs UVarInt of smaller numbers only: it is what so many rounds give.
LEMMA GroupsExist == \E g : Groups(g)
<1> DEFINE Codes == [Nat -> Seq(Nat)]
           round(g) == [n \in Nat |-> IF n < Group THEN <<n>> ELSE <<Group + (n % Group)>> \o g[n \div Group]]
           step == [k \in Nat |-> [g \in Codes |-> round(g)]]
           none == [n \in Nat |-> <<>>]
<1>1. Group \in Nat /\ Group >= 2
  BY ByteIs
<1>2. \A n \in Nat : n \div Group \in Nat /\ n % Group \in Nat /\ (n # 0 => n \div Group < n)
  BY <1>1, Division
<1>3. none \in Codes
  OBVIOUS
<1>4. ASSUME NEW g \in Codes PROVE round(g) \in Codes
  <2>1. ASSUME NEW n \in Nat
        PROVE  (IF n < Group THEN <<n>> ELSE <<Group + (n % Group)>> \o g[n \div Group]) \in Seq(Nat)
    <3>1. g[n \div Group] \in Seq(Nat)
      BY <1>2, <1>4
    <3>2. \A x \in Nat : <<x>> \in Seq(Nat)
      OBVIOUS
    <3>3. Group + (n % Group) \in Nat
      BY <1>1, <1>2
    <3>4. <<Group + (n % Group)>> \in Seq(Nat) /\ <<n>> \in Seq(Nat)
      BY <3>2, <3>3
    <3>5. \A s, t \in Seq(Nat) : s \o t \in Seq(Nat)
      OBVIOUS
    <3>6. QED
      BY <3>1, <3>4, <3>5
  <2>2. QED
    BY <2>1
<1>5. step \in Steps(Codes) /\ \A k \in Nat : \A g \in Codes : step[k][g] = round(g)
  BY <1>4 DEF Steps
<1> HIDE DEF Codes, round, step, none
<1>6. PICK G : Follows(G, Codes, none, step)
  BY <1>3, <1>5, Recursion
<1>7. \A k \in Nat : G[k] \in Codes /\ G[k + 1] = round(G[k])
  <2>1. G \in [Nat -> Codes] /\ \A k \in Nat : G[k + 1] = step[k][G[k]]
    BY <1>6 DEF Follows
  <2>2. QED
    BY <1>5, <2>1
<1>8. \A g : \A n \in Nat :
        round(g)[n] = IF n < Group THEN <<n>> ELSE <<Group + (n % Group)>> \o g[n \div Group]
  BY DEF round
<1> DEFINE S == {n \in Nat : \A j, k \in Nat : n < j /\ n < k => G[j][n] = G[k][n]}
<1>9. ASSUME NEW n \in Nat, \A m \in 0 .. n - 1 : m \in S PROVE n \in S
  <2>1. SUFFICES ASSUME NEW j \in Nat, NEW k \in Nat, n < j, n < k PROVE G[j][n] = G[k][n]
    OBVIOUS
  <2>2. j - 1 \in Nat /\ (j - 1) + 1 = j /\ k - 1 \in Nat /\ (k - 1) + 1 = k
    BY <2>1
  <2>3. G[j] = round(G[j - 1]) /\ G[k] = round(G[k - 1])
    BY <1>7, <2>2
  <2>4. CASE n < Group
    BY <1>8, <2>3, <2>4
  <2>5. CASE ~(n < Group)
    <3>1. n # 0 /\ n \div Group \in Nat /\ n \div Group < n
      BY <1>1, <1>2, <2>5
    <3>2. n \div Group \in 0 .. n - 1 /\ n \div Group < j - 1 /\ n \div Group < k - 1
      BY <2>1, <2>2, <3>1
    <3>3. G[j - 1][n \div Group] = G[k - 1][n \div Group]
      BY <1>9, <2>2, <3>2
    <3>4. QED
      BY <1>8, <2>3, <2>5, <3>3
  <2>6. QED
    BY <2>4, <2>5
<1>10. Nat \subseteq S
  <2> HIDE DEF S
  <2>1. QED
    BY <1>9, Induction
<1> DEFINE h == [n \in Nat |-> G[n + 1][n]]
<1>11. ASSUME NEW n \in Nat
       PROVE  h[n] = IF n < Group THEN <<n>> ELSE <<Group + (n % Group)>> \o h[n \div Group]
  <2>1. h[n] = round(G[n])[n]
    BY <1>7
  <2>2. CASE n < Group
    BY <1>8, <2>1, <2>2
  <2>3. CASE ~(n < Group)
    <3> DEFINE m == n \div Group
    <3>1. m \in Nat /\ m < n /\ m < m + 1 /\ m + 1 \in Nat
      BY <1>1, <1>2, <2>3
    <3> HIDE DEF m
    <3>2. G[n][m] = G[m + 1][m]
      BY <1>10, <3>1
    <3>3. h[m] = G[m + 1][m]
      BY <3>1
    <3>4. h[n] = <<Group + (n % Group)>> \o G[n][m]
      BY <1>8, <2>1, <2>3 DEF m
    <3>5. QED
      BY <2>3, <3>2, <3>3, <3>4 DEF m
  <2>4. QED
    BY <2>2, <2>3
<1>12. h = [n \in Nat |-> IF n < Group THEN <<n>> ELSE <<Group + (n % Group)>> \o h[n \div Group]]
  <2> DEFINE r == [n \in Nat |-> IF n < Group THEN <<n>> ELSE <<Group + (n % Group)>> \o h[n \div Group]]
  <2>1. \A n \in Nat : h[n] = r[n]
    BY <1>11
  <2>2. DOMAIN h = Nat /\ h = [n \in Nat |-> h[n]]
    OBVIOUS
  <2>3. QED
    BY <2>1, <2>2
<1>13. Groups(h)
  BY <1>12 DEF Groups
<1>14. QED
  BY <1>13

\* The bytes of a varint: all but the last have the continuation bit.
Coded(s) ==
  /\ s \in Seq(Bytes) /\ Len(s) >= 1 /\ s[Len(s)] < Group
  /\ \A i \in 1 .. Len(s) - 1 : s[i] >= Group

LEMMA CodedBytes ==
  ASSUME NEW s, Coded(s)
  PROVE  s \in Seq(Bytes) /\ s \in Seq(Nat) /\ Len(s) \in Nat
<1>1. s \in Seq(Bytes)
  BY DEF Coded
<1>2. \A x \in Bytes : x \in Nat
  BY ByteIs DEF Bytes
<1>3. QED
  BY <1>1, <1>2

LEMMA UVarIntIs ==
  ASSUME NEW n \in Nat
  PROVE  /\ n < Group => UVarInt[n] = <<n>>
         /\ n >= Group => UVarInt[n] = <<Group + (n % Group)>> \o UVarInt[n \div Group]
<1>1. Groups(UVarInt)
  BY GroupsExist DEF UVarInt, Groups
<1>2. Group \in Nat
  BY ByteIs
<1>3. UVarInt[n] = IF n < Group THEN <<n>> ELSE <<Group + (n % Group)>> \o UVarInt[n \div Group]
  BY <1>1 DEF Groups
<1>4. QED
  BY <1>2, <1>3

LEMMA UVarIntCoded ==
  \A n \in Nat : Coded(UVarInt[n])
<1> DEFINE S == {n \in Nat : Coded(UVarInt[n])}
<1>1. Group \in Nat /\ Group >= 2 /\ ByteSize \in Nat /\ ByteSize = 2 * Group
  BY ByteIs
<1>2. ASSUME NEW n \in Nat, \A m \in 0 .. n - 1 : m \in S PROVE n \in S
  <2>1. CASE n < Group
    <3>1. UVarInt[n] = <<n>>
      BY <2>1, UVarIntIs
    <3>2. n \in Bytes
      BY <1>1, <2>1 DEF Bytes
    <3>3. <<n>> \in Seq(Bytes) /\ Len(<<n>>) = 1 /\ <<n>>[1] = n
      BY <3>2
    <3>4. Coded(<<n>>)
      BY <2>1, <3>3 DEF Coded
    <3>5. QED
      BY <3>1, <3>4
  <2>2. CASE n >= Group
    <3> DEFINE t == UVarInt[n \div Group]
               x == Group + (n % Group)
    <3>1. n # 0 /\ Group \in Nat \ {0}
      BY <1>1, <2>2
    <3>2. n \div Group \in Nat /\ n \div Group < n /\ n % Group \in Nat /\ n % Group < Group
      BY <1>1, <3>1, Division
    <3>3. Coded(t)
      BY <1>2, <3>2
    <3>4. x \in Bytes /\ x >= Group
      BY <1>1, <3>2 DEF Bytes
    <3>5. UVarInt[n] = <<x>> \o t
      BY <2>2, UVarIntIs
    <3> HIDE DEF x, t
    <3>6. t \in Seq(Bytes) /\ <<x>> \o t \in Seq(Bytes) /\ Len(<<x>> \o t) = Len(t) + 1
      BY <3>3, <3>4 DEF Coded
    <3>7. (<<x>> \o t)[1] = x /\ \A i \in 1 .. Len(t) : (<<x>> \o t)[i + 1] = t[i]
      BY <3>6
    <3>8. (<<x>> \o t)[Len(t) + 1] < Group
      BY <3>3, <3>6, <3>7 DEF Coded
    <3>9. \A i \in 1 .. Len(t) : (<<x>> \o t)[i] >= Group
      <4>1. ASSUME NEW i \in 1 .. Len(t) PROVE (<<x>> \o t)[i] >= Group
        <5>1. CASE i = 1
          BY <3>4, <3>7, <5>1
        <5>2. CASE i # 1
          <6>1. i - 1 \in 1 .. Len(t) - 1 /\ i - 1 \in 1 .. Len(t) /\ (i - 1) + 1 = i
            BY <3>6, <5>2
          <6>2. QED
            BY <3>3, <3>7, <6>1 DEF Coded
        <5>3. QED
          BY <5>1, <5>2
      <4>2. QED
        BY <4>1
    <3>10. Coded(<<x>> \o t)
      BY <3>6, <3>8, <3>9 DEF Coded
    <3>11. QED
      BY <3>5, <3>10
  <2>3. QED
    BY <1>1, <2>1, <2>2
<1>3. Nat \subseteq S
  <2> HIDE DEF S
  <2>1. QED
    BY <1>2, Induction
<1>4. QED
  BY <1>3

High == Size[LongBytes] \div Group
Accumulates(f, s) ==
  f = [i \in 0 .. Len(s) |-> IF i = 0 THEN 0 ELSE (f[i - 1] % High) * Group + (s[Len(s) + 1 - i] % Group)]

LEMMA HighIs ==
  High \in Nat /\ High >= 1 /\ Size[LongBytes] = High * Group
<1>1. LongBytes - 1 \in Nat /\ (LongBytes - 1) + 1 = LongBytes
  BY WidthAssumption
<1>2. Size[LongBytes - 1] \in Nat \ {0} /\ Size[LongBytes] = ByteSize * Size[LongBytes - 1]
  BY <1>1, SizeIs
<1> DEFINE s == Size[LongBytes - 1]
           h == 2 * s
<1>3. h \in Nat /\ h >= 1
  BY <1>2
<1>4. Group \in Nat \ {0} /\ ByteSize = 2 * Group
  BY ByteIs
<1>5. \A x, y \in Nat : (2 * x) * y = (2 * y) * x
  OBVIOUS
<1>6. Size[LongBytes] = h * Group
  BY <1>2, <1>4, <1>5
<1>7. h * Group \in Int /\ h * Group = h * Group + 0 /\ 0 \in 0 .. Group - 1
  BY <1>3, <1>4
<1>8. (h * Group) \div Group = h
  BY <1>3, <1>4, <1>7, QuotientIs
<1>9. High = h
  BY <1>6, <1>8 DEF High
<1> HIDE DEF h
<1>10. QED
  BY <1>3, <1>6, <1>9

LEMMA FromGroupsIs ==
  ASSUME NEW s \in Seq(Nat), NEW b
  PROVE  \E f \in [0 .. Len(s) -> Nat] :
           /\ f[0] = 0
           /\ \A i \in 1 .. Len(s) : f[i] = (f[i - 1] % High) * Group + (s[Len(s) + 1 - i] % Group)
           /\ FromGroups(Result(b, s)) = Result(b, f[Len(s)])
<1> DEFINE k == Len(s)
           step == [n \in Nat |-> [x \in Nat |->
                      (x % High) * Group + (IF n + 1 <= k THEN s[k + 1 - (n + 1)] % Group ELSE 0)]]
<1>1. /\ k \in Nat /\ Group \in Nat /\ High \in Nat
      /\ \A x \in Nat : x % High \in Nat /\ x % Group \in Nat
      /\ \A i \in 1 .. k : s[k + 1 - i] % Group \in Nat
  <2>1. High \in Nat \ {0} /\ Group \in Nat \ {0}
    BY HighIs, ByteIs
  <2>2. \A x \in Nat : x % High \in Nat /\ x % Group \in Nat
    BY <2>1, Division
  <2>3. ASSUME NEW i \in 1 .. k PROVE s[k + 1 - i] \in Nat
    <3>1. k + 1 - i \in 1 .. k
      OBVIOUS
    <3>2. QED
      BY <3>1
  <2>4. QED
    BY <2>1, <2>2, <2>3
<1>2. \A x, y, z \in Nat : x * y + z \in Nat
  OBVIOUS
<1>3. step \in Steps(Nat)
  <2>1. ASSUME NEW n \in Nat, NEW x \in Nat
        PROVE  (x % High) * Group + (IF n + 1 <= k THEN s[k + 1 - (n + 1)] % Group ELSE 0) \in Nat
    <3>1. n + 1 <= k => n + 1 \in 1 .. k
      BY <1>1
    <3>2. (IF n + 1 <= k THEN s[k + 1 - (n + 1)] % Group ELSE 0) \in Nat
      BY <1>1, <3>1
    <3>3. QED
      BY <1>1, <1>2, <3>2
  <2>2. QED
    BY <2>1 DEF Steps
<1>4. \A n, x \in Nat : n + 1 <= k => step[n][x] = (x % High) * Group + (s[k + 1 - (n + 1)] % Group)
  OBVIOUS
<1> HIDE DEF step
<1>5. PICK g : Follows(g, Nat, 0, step)
  BY <1>3, Recursion
<1> DEFINE h == [i \in 0 .. k |-> g[i]]
<1>6. \A i \in 1 .. k : g[i] = (g[i - 1] % High) * Group + (s[k + 1 - i] % Group)
  <2>1. ASSUME NEW i \in 1 .. k PROVE g[i] = (g[i - 1] % High) * Group + (s[k + 1 - i] % Group)
    <3>1. i - 1 \in Nat /\ (i - 1) + 1 = i /\ i <= k
      OBVIOUS
    <3>2. g[i - 1] \in Nat /\ g[i] = step[i - 1][g[i - 1]]
      BY <1>5, <3>1 DEF Follows
    <3>3. QED
      BY <1>4, <3>1, <3>2
  <2>2. QED
    BY <2>1
<1>7. \E f : Accumulates(f, s)
  <2>1. ASSUME NEW i \in 0 .. k
        PROVE  h[i] = IF i = 0 THEN 0 ELSE (h[i - 1] % High) * Group + (s[k + 1 - i] % Group)
    <3>1. i # 0 => i \in 1 .. k /\ i - 1 \in 0 .. k
      OBVIOUS
    <3>2. QED
      BY <1>5, <1>6, <3>1 DEF Follows
  <2>2. Accumulates(h, s)
    BY <2>1 DEF Accumulates
  <2>3. QED
    BY <2>2
<1> DEFINE f == CHOOSE f : Accumulates(f, s)
<1>8. Accumulates(f, s)
  BY <1>7
<1>9. FromGroups(Result(b, s)) = Result(b, f[Len(s)])
  BY DEF FromGroups, Accumulates, Result, High
<1> HIDE DEF f, h
<1>10. f[0] = 0 /\ \A i \in 1 .. k : f[i] = (f[i - 1] % High) * Group + (s[k + 1 - i] % Group)
  <2>1. f[0] = 0
    BY <1>1, <1>8 DEF Accumulates
  <2>2. ASSUME NEW i \in 1 .. k PROVE f[i] = (f[i - 1] % High) * Group + (s[k + 1 - i] % Group)
    <3>1. i \in 0 .. k /\ i # 0
      OBVIOUS
    <3>2. QED
      BY <1>8, <3>1 DEF Accumulates
  <2>3. QED
    BY <2>1, <2>2
<1>11. f \in [0 .. k -> Nat]
  <2> DEFINE S == {i \in Nat : i <= k => f[i] \in Nat}
  <2>1. ASSUME NEW i \in Nat, \A m \in 0 .. i - 1 : m \in S PROVE i \in S
    <3>1. CASE i = 0
      BY <1>10, <3>1
    <3>2. CASE i # 0 /\ i <= k
      <4>1. i - 1 \in 0 .. i - 1 /\ i - 1 <= k /\ i \in 1 .. k
        BY <3>2
      <4>2. f[i - 1] \in Nat
        BY <2>1, <4>1
      <4>3. f[i - 1] % High \in Nat /\ s[k + 1 - i] % Group \in Nat /\ Group \in Nat
        BY <1>1, <4>1, <4>2
      <4>4. (f[i - 1] % High) * Group + (s[k + 1 - i] % Group) \in Nat
        BY <1>2, <4>3
      <4>5. QED
        BY <1>10, <4>1, <4>4
    <3>3. QED
      BY <3>1, <3>2
  <2>2. Nat \subseteq S
    <3> HIDE DEF S
    <3>1. QED
      BY <2>1, Induction
  <2>3. \A i \in 0 .. k : f[i] \in Nat
    BY <2>2
  <2>4. DOMAIN f = 0 .. k /\ f = [i \in 0 .. k |-> f[i]]
    BY <1>8 DEF Accumulates
  <2>5. QED
    BY <2>3, <2>4
<1>12. QED
  BY <1>9, <1>10, <1>11

\* The groups of a number give the number back, if 64 bits hold it.
LEMMA GroupsRead ==
  \A n \in Nat : n < Size[LongBytes] => \A b : FromGroups(Result(b, UVarInt[n])) = Result(b, n)
<1> DEFINE S == {n \in Nat : n < Size[LongBytes] => \A b : FromGroups(Result(b, UVarInt[n])) = Result(b, n)}
<1>1. /\ Group \in Nat \ {0} /\ Group >= 2 /\ ByteSize \in Nat
      /\ High \in Nat \ {0} /\ Size[LongBytes] = High * Group
  BY ByteIs, HighIs
<1>2. ASSUME NEW n \in Nat, \A m \in 0 .. n - 1 : m \in S PROVE n \in S
  <2>1. SUFFICES ASSUME n < Size[LongBytes], NEW b PROVE FromGroups(Result(b, UVarInt[n])) = Result(b, n)
    OBVIOUS
  <2> DEFINE t == UVarInt[n \div Group]
             x == Group + (n % Group)
             s == UVarInt[n]
  <2>2. Coded(s) /\ s \in Seq(Nat) /\ Len(s) \in Nat
    <3>1. Coded(s)
      BY UVarIntCoded
    <3> HIDE DEF s
    <3>2. QED
      BY <3>1, CodedBytes
  <2>3. PICK f \in [0 .. Len(s) -> Nat] :
           /\ f[0] = 0
           /\ \A i \in 1 .. Len(s) : f[i] = (f[i - 1] % High) * Group + (s[Len(s) + 1 - i] % Group)
           /\ FromGroups(Result(b, s)) = Result(b, f[Len(s)])
    BY <2>2, FromGroupsIs
  <2>4. SUFFICES f[Len(s)] = n
    BY <2>3
  <2>5. CASE n < Group
    <3>0. s = <<n>>
      BY <2>5, UVarIntIs
    <3>1. Len(s) = 1 /\ s[1] = n
      <4> HIDE DEF s
      <4>1. QED
        BY <3>0
    <3>2. f[1] = (f[0] % High) * Group + (s[1] % Group)
      BY <2>3, <3>1
    <3>3. 0 % High = 0 /\ n % Group = n
      <4>1. 0 \in 0 .. High - 1 /\ n \in 0 .. Group - 1
        BY <1>1, <2>5
      <4>2. QED
        BY <1>1, <4>1, SmallDivision
    <3>4. 0 * Group = 0
      BY <1>1
    <3>5. QED
      BY <2>3, <3>1, <3>2, <3>3, <3>4
  <2>6. CASE n >= Group
    <3> DEFINE m == n \div Group
               r == n % Group
    <3>1. m \in Nat /\ m < n /\ r \in Nat /\ r < Group /\ n = m * Group + r
      <4>1. n # 0 /\ Group \in Nat \ {0} /\ Group >= 2
        BY <1>1, <2>6
      <4>2. n = m * Group + r
        BY <4>1, Division
      <4>5. m \in Nat /\ r \in Nat /\ r < Group
        BY <4>1, Division
      <4>3. m < n
        BY <4>1, Division
      <4>4. QED
        BY <4>2, <4>3, <4>5
    <3>2. m < High
      <4>1. m * Group + r < High * Group
        BY <1>1, <2>1, <3>1
      <4>2. \A u, v, w \in Nat : u >= v => u * w >= v * w
        OBVIOUS
      <4>3. m >= High => m * Group >= High * Group
        BY <1>1, <3>1, <4>2
      <4>4. m * Group \in Nat /\ High * Group \in Nat
        BY <1>1, <3>1
      <4> HIDE DEF m, r
      <4>5. QED
        BY <1>1, <3>1, <4>1, <4>3, <4>4
    <3>3. m < Size[LongBytes]
      BY <1>1, <2>1, <3>1, SizeIs, WidthAssumption
    <3>4. FromGroups(Result(b, t)) = Result(b, m)
      BY <1>2, <3>1, <3>3
    <3>5. Coded(t) /\ t \in Seq(Nat) /\ Len(t) \in Nat
      <4>1. Coded(t)
        BY <3>1, UVarIntCoded
      <4> HIDE DEF t
      <4>2. QED
        BY <4>1, CodedBytes
    <3>6. s = <<x>> \o t
      BY <2>6, UVarIntIs
    <3> HIDE DEF s, t
    <3>7. PICK g \in [0 .. Len(t) -> Nat] :
             /\ g[0] = 0
             /\ \A i \in 1 .. Len(t) : g[i] = (g[i - 1] % High) * Group + (t[Len(t) + 1 - i] % Group)
             /\ FromGroups(Result(b, t)) = Result(b, g[Len(t)])
      BY <3>5, FromGroupsIs
    <3>8. g[Len(t)] = m
      BY <3>4, <3>7 DEF Result
    <3>9. x \in Nat
      BY <1>1, <3>1
    <3> HIDE DEF x, m, r
    <3>10. Len(s) = Len(t) + 1 /\ s[1] = x /\ \A i \in 1 .. Len(t) : s[i + 1] = t[i]
      BY <3>5, <3>6, <3>9
    <3> DEFINE Q == {i \in Nat : i <= Len(t) => f[i] = g[i]}
    <3>11. ASSUME NEW i \in Nat, \A j \in 0 .. i - 1 : j \in Q PROVE i \in Q
      <4>1. CASE i = 0
        BY <2>3, <3>7, <4>1
      <4>2. CASE i # 0 /\ i <= Len(t)
        <5>1. i - 1 \in 0 .. i - 1 /\ i - 1 <= Len(t) /\ i \in 1 .. Len(t) /\ i \in 1 .. Len(s)
              /\ Len(t) + 1 - i \in 1 .. Len(t) /\ Len(s) + 1 - i = (Len(t) + 1 - i) + 1
          BY <3>5, <3>10, <4>2
        <5>2. f[i - 1] = g[i - 1]
          BY <3>11, <5>1
        <5>3. s[Len(s) + 1 - i] = t[Len(t) + 1 - i]
          BY <3>10, <5>1
        <5>4. QED
          BY <2>3, <3>7, <5>1, <5>2, <5>3
      <4>3. QED
        BY <4>1, <4>2
    <3>12. Nat \subseteq Q
      <4> HIDE DEF Q
      <4>1. QED
        BY <3>11, Induction
    <3>13. f[Len(t)] = m
      BY <3>5, <3>8, <3>12, SMTT(30)
    <3>14. f[Len(s)] = (f[Len(t)] % High) * Group + (s[1] % Group)
      <4>1. Len(s) \in 1 .. Len(s) /\ Len(s) - 1 = Len(t) /\ Len(s) + 1 - Len(s) = 1
        BY <3>5, <3>10
      <4>2. QED
        BY <2>3, <4>1
    <3>15. m % High = m /\ x % Group = r
      <4>1. m \in 0 .. High - 1 /\ r \in 0 .. Group - 1
        BY <1>1, <3>1, <3>2
      <4>2. x = Group + r
        BY DEF x, r
      <4>3. QED
        BY <1>1, <4>1, <4>2, SmallDivision
    <3>16. QED
      BY <3>1, <3>10, <3>13, <3>14, <3>15
  <2>7. QED
    BY <1>1, <2>5, <2>6
<1>3. Nat \subseteq S
  <2> HIDE DEF S
  <2>1. QED
    BY <1>2, Induction
<1>4. QED
  BY <1>3

-----------------------------------------------------------------------------
(* Reading from a buffer what was written to another one. *)

Buffers ==
  [enc : Encodings, buf : Seq(Bytes), offset : Nat, bits : Seq(BOOLEAN), idx : Nat, blen : Nat,
   st : {"ok", "error", "panic"}]

\* The bytes s are next, and reading them moves the offset.
Upcoming(b, s) ==
  /\ b \in Buffers /\ Ok(b) /\ s \in Seq(Bytes)
  /\ b.offset + Len(s) <= Len(b.buf)
  /\ \A i \in 1 .. Len(s) : b.buf[b.offset + i] = s[i]

Moved(b, k) == [b EXCEPT !.offset = @ + k]

Written(b, s) == [b EXCEPT !.buf = @ \o s]

LEMMA MovedIs ==
  ASSUME NEW b \in Buffers, NEW k \in Nat
  PROVE  /\ Moved(b, k) \in Buffers /\ Moved(b, k).offset = b.offset + k
         /\ Moved(b, k).enc = b.enc /\ Moved(b, k).buf = b.buf /\ Moved(b, k).st = b.st
         /\ Moved(b, k).bits = b.bits /\ Moved(b, k).idx = b.idx /\ Moved(b, k).blen = b.blen
  BY DEF Buffers, Moved

LEMMA WrittenIs ==
  ASSUME NEW b \in Buffers, NEW s \in Seq(Bytes)
  PROVE  /\ Written(b, s) \in Buffers /\ Written(b, s).buf = b.buf \o s
         /\ Written(b, s).enc = b.enc /\ Written(b, s).offset = b.offset /\ Written(b, s).st = b.st
         /\ Written(b, s).bits = b.bits /\ Written(b, s).idx = b.idx /\ Written(b, s).blen = b.blen
<1>1. b.buf \o s \in Seq(Bytes)
  BY DEF Buffers
<1>2. QED
  BY <1>1 DEF Buffers, Written

LEMMA MovedTwice ==
  ASSUME NEW b \in Buffers, NEW j \in Nat, NEW k \in Nat
  PROVE  Moved(Moved(b, j), k) = Moved(b, j + k)
<1>1. (b.offset + j) + k = b.offset + (j + k)
  BY DEF Buffers
<1>2. QED
  BY <1>1 DEF Buffers, Moved

LEMMA WrittenTwice ==
  ASSUME NEW b \in Buffers, NEW s \in Seq(Bytes), NEW t \in Seq(Bytes)
  PROVE  Written(Written(b, s), t) = Written(b, s \o t)
<1>1. (b.buf \o s) \o t = b.buf \o (s \o t)
  BY SMTT(30) DEF Buffers
<1>2. QED
  BY <1>1 DEF Buffers, Written

LEMMA UpcomingParts ==
  ASSUME NEW b, NEW s \in Seq(Bytes), NEW t \in Seq(Bytes), Upcoming(b, s \o t)
  PROVE  Upcoming(b, s) /\ Upcoming(Moved(b, Len(s)), t)
<1>1. /\ b \in Buffers /\ Ok(b) /\ b.offset \in Nat /\ Len(b.buf) \in Nat /\ Len(s) \in Nat /\ Len(t) \in Nat
      /\ Len(s \o t) = Len(s) + Len(t)
  BY DEF Upcoming, Buffers
<1>2. b.offset + (Len(s) + Len(t)) <= Len(b.buf) /\ \A i \in 1 .. Len(s) + Len(t) : b.buf[b.offset + i] = (s \o t)[i]
  BY <1>1 DEF Upcoming
<1>3. /\ \A i \in 1 .. Len(s) : (s \o t)[i] = s[i]
      /\ \A i \in 1 .. Len(t) : (s \o t)[Len(s) + i] = t[i]
  OBVIOUS
<1>4. Upcoming(b, s)
  <2>1. \A i \in 1 .. Len(s) : i \in 1 .. Len(s) + Len(t)
    BY <1>1
  <2>2. \A i \in 1 .. Len(s) : b.buf[b.offset + i] = s[i]
    BY <1>2, <1>3, <2>1
  <2>3. b.offset + Len(s) <= Len(b.buf)
    BY <1>1, <1>2
  <2>4. QED
    BY <1>1, <2>2, <2>3 DEF Upcoming
<1>5. Upcoming(Moved(b, Len(s)), t)
  <2> DEFINE m == Moved(b, Len(s))
  <2>1. m \in Buffers /\ Ok(m) /\ m.buf = b.buf /\ m.offset = b.offset + Len(s)
    BY <1>1, MovedIs DEF Ok
  <2> HIDE DEF m
  <2>2. ASSUME NEW i \in 1 .. Len(t) PROVE m.buf[m.offset + i] = t[i]
    <3>1. Len(s) + i \in 1 .. Len(s) + Len(t) /\ (b.offset + Len(s)) + i = b.offset + (Len(s) + i)
      BY <1>1
    <3>2. b.buf[b.offset + (Len(s) + i)] = (s \o t)[Len(s) + i]
      BY <1>2, <3>1
    <3>3. QED
      BY <1>3, <2>1, <3>1, <3>2
  <2>3. m.offset + Len(t) <= Len(m.buf)
    BY <1>1, <1>2, <2>1
  <2>4. QED
    BY <2>1, <2>2, <2>3 DEF Upcoming, m
<1>6. QED
  BY <1>4, <1>5

LEMMA BytesRead ==
  ASSUME NEW b, NEW s, Upcoming(b, s)
  PROVE  ReadBytes(b, Len(s)) = Result(Moved(b, Len(s)), s)
<1>1. b \in Buffers /\ Ok(b) /\ s \in Seq(Bytes) /\ b.offset \in Nat /\ Len(b.buf) \in Nat /\ Len(s) \in Nat
      /\ b.offset + Len(s) <= Len(b.buf) /\ b.buf \in Seq(Bytes)
  BY DEF Upcoming, Buffers
<1>2. SubSeq(b.buf, b.offset + 1, b.offset + Len(s)) = s
  <2> DEFINE u == SubSeq(b.buf, b.offset + 1, b.offset + Len(s))
  <2>1. u \in Seq(Bytes) /\ Len(u) = Len(s)
    BY <1>1, SMTT(30)
  <2>2. \A i \in 1 .. Len(s) : u[i] = s[i]
    <3>1. ASSUME NEW i \in 1 .. Len(s) PROVE u[i] = s[i]
      <4>1. (b.offset + 1) + i - 1 = b.offset + i
        BY <1>1
      <4>2. u[i] = b.buf[(b.offset + 1) + i - 1]
        BY <1>1, SMTT(30)
      <4>3. QED
        BY <4>1, <4>2 DEF Upcoming
    <3>2. QED
      BY <3>1
  <2> HIDE DEF u
  <2>3. u = s
    BY <1>1, <2>1, <2>2
  <2>4. QED
    BY <2>3 DEF u
<1>3. ~(b.offset + Len(s) > Len(b.buf))
  BY <1>1
<1>4. QED
  BY <1>1, <1>2, <1>3 DEF ReadBytes, Moved

LEMMA FixedRead ==
  ASSUME NEW n \in Int, NEW k \in Nat, NEW b, Upcoming(b, BigEndian(n, k))
  PROVE  ReadFixed(b, k) = Result(Moved(b, k), n % Size[k])
<1> DEFINE s == BigEndian(n, k)
<1>1. Len(s) = k /\ Number(s) = n % Size[k]
  BY BigEndianRead
<1>2. ReadBytes(b, Len(s)) = Result(Moved(b, Len(s)), s)
  BY BytesRead
<1> HIDE DEF s
<1>3. ReadFixed(b, k) = Numbered(Result(Moved(b, k), s))
  BY <1>1, <1>2 DEF ReadFixed
<1>4. QED
  BY <1>1, <1>3 DEF Numbered, Result

LEMMA VarintRead ==
  ASSUME NEW n \in Nat, n < Size[LongBytes], NEW b, Upcoming(b, UVarInt[n])
  PROVE  ReadUVarInt(b) = Result(Moved(b, Len(UVarInt[n])), n)
<1> DEFINE s == UVarInt[n]
           ends == {i \in 1 .. Len(b.buf) - b.offset : b.buf[b.offset + i] < Group}
<1>1. Coded(s) /\ Upcoming(b, s)
  BY UVarIntCoded
<1>2. FromGroups(Result(Moved(b, Len(s)), s)) = Result(Moved(b, Len(s)), n)
  BY GroupsRead
<1> HIDE DEF s
<1>3. /\ Len(s) \in Nat /\ Len(s) >= 1 /\ Group \in Nat /\ b.offset \in Nat /\ Len(b.buf) \in Nat
      /\ b.offset + Len(s) <= Len(b.buf) /\ \A i \in 1 .. Len(s) : s[i] \in Nat
  <2>1. s \in Seq(Nat) /\ Len(s) \in Nat
    BY <1>1, CodedBytes
  <2>2. Len(s) >= 1 /\ Group \in Nat
    BY <1>1, ByteIs DEF Coded
  <2>3. b.offset \in Nat /\ Len(b.buf) \in Nat /\ b.offset + Len(s) <= Len(b.buf)
    BY <1>1 DEF Upcoming, Buffers
  <2>4. QED
    BY <2>1, <2>2, <2>3
<1>4. Len(s) \in ends
  <2>1. Len(s) \in 1 .. Len(b.buf) - b.offset /\ Len(s) \in 1 .. Len(s)
    BY <1>3
  <2>2. b.buf[b.offset + Len(s)] = s[Len(s)]
    BY <1>1, <2>1 DEF Upcoming
  <2>3. QED
    BY <1>1, <2>1, <2>2 DEF Coded
<1>5. ASSUME NEW i \in ends PROVE Len(s) <= i
  <2>1. i \in Nat /\ i >= 1 /\ b.buf[b.offset + i] < Group
    BY <1>3
  <2>2. i < Len(s) => s[i] >= Group /\ b.buf[b.offset + i] = s[i] /\ s[i] \in Nat
    <3>1. i < Len(s) => i \in 1 .. Len(s) - 1 /\ i \in 1 .. Len(s)
      BY <1>3, <2>1
    <3>2. QED
      BY <1>1, <1>3, <3>1 DEF Coded, Upcoming
  <2>3. QED
    BY <1>3, <2>1, <2>2
<1>6. ends # {} /\ ends \subseteq Nat
  BY <1>3, <1>4
<1> DEFINE e == IF ends = {} THEN Len(b.buf) + 1 ELSE Min(ends)
<1>7. ReadUVarInt(b) = FromGroups(ReadBytes(b, e))
  BY DEF ReadUVarInt
<1> HIDE DEF ends
<1>8. Min(ends) = Len(s)
  <2>1. Min(ends) \in ends /\ \A i \in ends : Min(ends) <= i
    BY <1>4, <1>5 DEF Min
  <2>2. Min(ends) \in Nat /\ Min(ends) <= Len(s) /\ Len(s) <= Min(ends)
    BY <1>4, <1>5, <1>6, <2>1
  <2>3. QED
    BY <1>3, <2>2
<1>9. e = Len(s)
  BY <1>6, <1>8
<1> HIDE DEF e
<1>10. ReadUVarInt(b) = FromGroups(Result(Moved(b, Len(s)), s))
  BY <1>1, <1>7, <1>9, BytesRead
<1>11. QED
  BY <1>2, <1>10 DEF s

LEMMA SizeGrows ==
  ASSUME NEW j \in Nat, NEW k \in Nat, j <= k
  PROVE  Size[j] <= Size[k]
<1> DEFINE S == {k_ \in Nat : j <= k_ => Size[j] <= Size[k_]}
<1>1. ASSUME NEW i \in Nat, \A m \in 0 .. i - 1 : m \in S PROVE i \in S
  <2>1. CASE i <= j
    <3>1. i = j => Size[j] <= Size[i]
      BY SizeIs
    <3>2. QED
      BY <2>1, <3>1
  <2>2. CASE i > j
    <3>1. i - 1 \in 0 .. i - 1 /\ i - 1 \in Nat /\ j <= i - 1 /\ (i - 1) + 1 = i
      BY <2>2
    <3>2. Size[j] <= Size[i - 1] /\ Size[i] = ByteSize * Size[i - 1]
      BY <1>1, <3>1, SizeIs
    <3>3. Size[j] \in Nat /\ Size[i - 1] \in Nat /\ ByteSize \in Nat \ {0}
      BY <3>1, SizeIs, ByteIs
    <3>4. \A x \in Nat : \A y \in Nat \ {0} : x <= y * x /\ y * x \in Nat
      OBVIOUS
    <3>5. Size[i - 1] <= ByteSize * Size[i - 1] /\ ByteSize * Size[i - 1] \in Nat
      BY <3>3, <3>4
    <3>6. Size[j] <= Size[i]
      BY <3>2, <3>3, <3>5
    <3>7. QED
      BY <3>6
  <2>3. QED
    BY <2>1, <2>2
<1>2. Nat \subseteq S
  <2> HIDE DEF S
  <2>1. QED
    BY <1>1, Induction
<1>3. QED
  BY <1>2

-----------------------------------------------------------------------------
(* Numbers of the types. *)

NumberTypes == {"Octet", "UOctet", "Short", "UShort", "Integer", "UInteger", "Float",
                "Long", "ULong", "Double", "Duration"}

\* The numbers of a type.
NumbersOf(t) ==
  LET m == Size[Widths[t]]
  IN  IF t \in Signeds THEN -(m \div 2) .. (m \div 2) - 1 ELSE 0 .. m - 1

\* Each width has an even number of values, which 64 bits hold.
LEMMA WidthIs ==
  ASSUME NEW t \in NumberTypes
  PROVE  /\ Widths[t] \in Nat /\ Size[Widths[t]] \in Nat
         /\ \E h \in Nat \ {0} : Size[Widths[t]] = 2 * h /\ Size[Widths[t]] \div 2 = h
         /\ Size[Widths[t]] <= Size[LongBytes]
<1> DEFINE w == Widths[t]
<1>1. w \in {1, ShortBytes, IntegerBytes, LongBytes}
  BY DEF NumberTypes, Widths
<1>2. w \in Nat \ {0} /\ w <= LongBytes /\ LongBytes \in Nat
  BY <1>1, WidthAssumption
<1> HIDE DEF w
<1>3. w - 1 \in Nat /\ (w - 1) + 1 = w
  BY <1>2
<1> DEFINE h == Group * Size[w - 1]
<1>4. Size[w - 1] \in Nat \ {0} /\ Size[w] = ByteSize * Size[w - 1] /\ Group \in Nat \ {0} /\ ByteSize = 2 * Group
  BY <1>3, SizeIs, ByteIs
<1>5. \A x, y \in Nat \ {0} : x * y \in Nat \ {0} /\ (2 * x) * y = 2 * (x * y)
  OBVIOUS
<1>6. h \in Nat \ {0} /\ Size[w] = 2 * h
  BY <1>4, <1>5
<1> HIDE DEF h
<1>7. (2 * h) \div 2 = h
  BY <1>6
<1>8. Size[w] <= Size[LongBytes]
  BY <1>2, SizeGrows
<1>9. QED
  BY <1>2, <1>6, <1>7, <1>8 DEF w

\* A number of m values that zigzag codes, or that is cut to its low bits, is known again.
LEMMA ZigZagBack ==
  ASSUME NEW h \in Nat \ {0}, NEW n \in -h .. h - 1
  PROVE  /\ ZigZag(2 * h, n) \in 0 .. 2 * h - 1
         /\ UnZigZag(2 * h, ZigZag(2 * h, n)) = n
         /\ Signed(2 * h, n % (2 * h)) = n
<1> DEFINE m == 2 * h
<1>1. CASE n >= 0
  <2>1. 2 * n \in 0 .. m - 1 /\ n \in 0 .. m - 1 /\ m \in Nat \ {0}
    BY <1>1
  <2>2. (2 * n) % m = 2 * n /\ n % m = n
    BY <2>1, SmallDivision
  <2>3. ZigZag(m, n) = 2 * n
    BY <1>1, <2>2 DEF ZigZag
  <2>4. (2 * n) \div 2 = n /\ (2 * n) % 2 = 0
    BY <1>1
  <2>5. Signed(m, n) = n
    BY <1>1, <2>2 DEF Signed
  <2>6. UnZigZag(m, 2 * n) = n
    BY <2>4, <2>5 DEF UnZigZag
  <2>7. QED
    BY <2>1, <2>2, <2>3, <2>5, <2>6
<1>2. CASE n < 0
  <2>1. 2 * n = (-1) * m + (2 * n + m) /\ 2 * n + m \in 0 .. m - 1 /\ m \in Nat \ {0} /\ 2 * n \in Int
    BY <1>2
  <2>2. (2 * n) % m = 2 * n + m
    BY <2>1, QuotientIs
  <2> DEFINE u == -n - 1
  <2>3. u \in Nat /\ 2 * u < m /\ u \in 0 .. m - 1
    BY <1>2
  <2>4. ZigZag(m, n) = 2 * u + 1
    BY <1>2, <2>2 DEF ZigZag
  <2> HIDE DEF u
  <2>5. (2 * u + 1) \div 2 = u /\ (2 * u + 1) % 2 = 1 /\ 2 * u + 1 \in 0 .. m - 1
    BY <2>3
  <2>6. u % m = u
    BY <2>1, <2>3, SmallDivision
  <2>7. Signed(m, u) = u
    BY <2>3, <2>6 DEF Signed
  <2>8. UnZigZag(m, 2 * u + 1) = n
    BY <2>5, <2>7 DEF UnZigZag, u
  <2>9. n = (-1) * m + (n + m) /\ n + m \in 0 .. m - 1 /\ n \in Int /\ -1 \in Int
    BY <1>2
  <2>10. n % m = n + m /\ (n + m) % m = n + m
    <3>1. n % m = n + m
      BY <2>1, <2>9, QuotientIs
    <3>2. (n + m) % m = n + m
      BY <2>1, <2>9, SmallDivision
    <3>3. QED
      BY <3>1, <3>2
  <2>11. Signed(m, n % m) = n
    BY <2>10 DEF Signed
  <2>12. QED
    BY <2>4, <2>5, <2>8, <2>11
<1>3. QED
  BY <1>1, <1>2

\* The bytes of a number.
NumberBytes(enc, t, n) ==
  IF enc # "fixed" /\ t \in Varints
  THEN UVarInt[IF t \in ZigZags THEN ZigZag(Size[Widths[t]], n) ELSE n]
  ELSE BigEndian(n, Widths[t])

LEMMA NumberWritten ==
  ASSUME NEW w \in Buffers, Ok(w), NEW t \in NumberTypes, NEW n \in NumbersOf(t)
  PROVE  /\ EncodeNumber(w, t, n) = Written(w, NumberBytes(w.enc, t, n))
         /\ NumberBytes(w.enc, t, n) \in Seq(Bytes)
<1>1. EncodeNumber(w, t, n) = Written(w, NumberBytes(w.enc, t, n))
  BY DEF EncodeNumber, NumberBytes, Varint, Varints, WriteUVarInt, WriteFixed, WriteBytes, Written
<1>2. PICK h \in Nat \ {0} : Size[Widths[t]] = 2 * h /\ Size[Widths[t]] \div 2 = h
  BY WidthIs
<1>3. CASE w.enc # "fixed" /\ t \in ZigZags
  <2>1. n \in -h .. h - 1 /\ t \in Varints
    BY <1>2, <1>3 DEF NumbersOf, Signeds, Varints
  <2>2. ZigZag(Size[Widths[t]], n) \in Nat
    <3> DEFINE v == ZigZag(2 * h, n)
    <3>1. v \in 0 .. 2 * h - 1
      BY <2>1, ZigZagBack
    <3> HIDE DEF v
    <3>2. v \in Nat
      BY <3>1
    <3>3. QED
      BY <1>2, <3>2 DEF v
  <2>3. UVarInt[ZigZag(Size[Widths[t]], n)] \in Seq(Bytes)
    BY <2>2, UVarIntCoded, CodedBytes
  <2>4. QED
    BY <1>1, <1>3, <2>1, <2>3 DEF NumberBytes
<1>4. CASE w.enc # "fixed" /\ t \in Varints \ ZigZags
  <2>1. n \in Nat
    BY <1>2, <1>4 DEF NumbersOf, Signeds, Varints, ZigZags
  <2>2. UVarInt[n] \in Seq(Bytes)
    BY <2>1, UVarIntCoded, CodedBytes
  <2>3. QED
    BY <1>1, <1>4, <2>2 DEF NumberBytes
<1>5. CASE w.enc = "fixed" \/ t \notin Varints
  <2>1. n \in Int /\ Widths[t] \in Nat
    BY <1>2, WidthIs DEF NumbersOf
  <2>2. BigEndian(n, Widths[t]) \in Seq(Bytes)
    BY <2>1, BigEndianRead
  <2>3. QED
    BY <1>1, <1>5, <2>2 DEF NumberBytes
<1>6. QED
  BY <1>3, <1>4, <1>5 DEF Varints

LEMMA NumberRead ==
  ASSUME NEW t \in NumberTypes, NEW n \in NumbersOf(t), NEW b, Upcoming(b, NumberBytes(b.enc, t, n))
  PROVE  DecodeNumber(b, t) = Result(Moved(b, Len(NumberBytes(b.enc, t, n))), n)
<1> DEFINE m == Size[Widths[t]]
           s == NumberBytes(b.enc, t, n)
           v == IF t \in ZigZags THEN ZigZag(m, n) ELSE n
<1>1. PICK h \in Nat \ {0} : m = 2 * h /\ m \div 2 = h
  BY WidthIs
<1>2. /\ b \in Buffers /\ Ok(b) /\ \A k \in Nat : Moved(b, k).enc = b.enc /\ Ok(Moved(b, k))
      /\ m <= Size[LongBytes] /\ Widths[t] \in Nat /\ n \in Int /\ Size[LongBytes] \in Nat
  <2>1. b \in Buffers /\ Ok(b)
    BY DEF Upcoming
  <2>2. m <= Size[LongBytes] /\ Widths[t] \in Nat
    BY WidthIs
  <2>3. n \in Int
    BY <1>1 DEF NumbersOf
  <2>4. Size[LongBytes] \in Nat
    BY SizeIs, WidthAssumption
  <2>5. QED
    BY <2>1, <2>2, <2>3, <2>4, MovedIs DEF Ok
<1>3. CASE b.enc # "fixed" /\ t \in Varints
  <2>1. s = UVarInt[v]
    BY <1>3 DEF NumberBytes
  <2>2. v \in 0 .. m - 1 /\ (t \in ZigZags => UnZigZag(m, v) = n)
    <3>1. CASE t \in ZigZags
      <4>1. n \in -h .. h - 1
        BY <1>1, <3>1 DEF NumbersOf, Signeds
      <4>2. QED
        BY <1>1, <3>1, <4>1, ZigZagBack
    <3>2. CASE t \notin ZigZags
      BY <1>1, <1>3, <3>2 DEF NumbersOf, Signeds, Varints, ZigZags
    <3>3. QED
      BY <3>1, <3>2
  <2> HIDE DEF v, m
  <2>3. v \in Nat /\ v < Size[LongBytes] /\ m \in Nat
    BY <1>1, <1>2, <2>2
  <2>4. ReadUVarInt(b) = Result(Moved(b, Len(s)), v) /\ Len(s) \in Nat
    <3>1. Len(UVarInt[v]) \in Nat
      BY <2>3, UVarIntCoded, CodedBytes
    <3>2. Upcoming(b, UVarInt[v])
      BY <2>1
    <3>3. QED
      BY <2>1, <2>3, <3>1, <3>2, VarintRead
  <2>5. v < Accepted(t)
    <3>1. Accepted(t) = m \/ Accepted(t) = 2 * m
      BY DEF Accepted, m
    <3>2. QED
      BY <2>2, <2>3, <3>1
  <2> HIDE DEF s
  <2>6. DecodeVarint(b, Accepted(t)) = Result(Moved(b, Len(s)), v)
    BY <2>4, <2>5 DEF DecodeVarint, Limited, Result
  <2>7. DecodeNumber(b, t) = Interpreted(t, Result(Moved(b, Len(s)), v))
    BY <1>3, <2>6 DEF DecodeNumber, Varint
  <2>8. Moved(b, Len(s)).enc # "fixed"
    BY <1>2, <1>3, <2>4
  <2> DEFINE x == Moved(b, Len(s))
             r == Result(x, v)
  <2>12. r.b = x /\ r.v = v /\ x.enc # "fixed"
    BY <2>8 DEF Result
  <2>13. DecodeNumber(b, t) = Interpreted(t, r)
    BY <2>7
  <2> HIDE DEF r, x
  <2>14. SUFFICES Interpreted(t, r) = Result(x, n)
    BY <2>13 DEF s, x
  <2>9. CASE t \in ZigZags
    <3>1. Interpreted(t, r) = Result(r.b, UnZigZag(m, r.v))
      BY <2>9, <2>12 DEF Interpreted, Varint, m
    <3>2. QED
      BY <2>2, <2>9, <2>12, <3>1
  <2>10. CASE t \notin ZigZags
    <3>1. t \notin Signeds /\ v = n
      BY <1>3, <2>10 DEF Signeds, Varints, v
    <3>2. Interpreted(t, r) = r
      BY <2>10, <3>1 DEF Interpreted
    <3>3. QED
      BY <3>1, <3>2 DEF r
  <2>11. QED
    BY <2>9, <2>10
<1>4. CASE b.enc = "fixed" \/ t \notin Varints
  <2>1. s = BigEndian(n, Widths[t])
    BY <1>4 DEF NumberBytes
  <2>2. Len(s) = Widths[t] /\ ReadFixed(b, Widths[t]) = Result(Moved(b, Widths[t]), n % m)
    <3>1. Upcoming(b, BigEndian(n, Widths[t]))
      BY <2>1
    <3>2. Len(BigEndian(n, Widths[t])) = Widths[t]
      BY <1>2, BigEndianRead
    <3>3. QED
      BY <1>2, <2>1, <3>1, <3>2, FixedRead
  <2>3. DecodeNumber(b, t) = Interpreted(t, Result(Moved(b, Widths[t]), n % m))
    BY <1>4, <2>2 DEF DecodeNumber, Varint
  <2>4. Moved(b, Widths[t]).enc = b.enc
    BY <1>2
  <2>5. ~(Varint(Moved(b, Widths[t])) /\ t \in ZigZags)
    BY <1>4, <2>4 DEF Varint, Varints
  <2>6. CASE t \in Signeds
    <3>1. n \in -h .. h - 1
      BY <1>1, <2>6 DEF NumbersOf
    <3>2. Signed(m, n % m) = n
      BY <1>1, <3>1, ZigZagBack
    <3>3. QED
      BY <2>2, <2>3, <2>5, <2>6, <3>2 DEF Interpreted, Result
  <2>7. CASE t \notin Signeds
    <3>1. n \in 0 .. m - 1 /\ m \in Nat \ {0}
      BY <1>1, <2>7 DEF NumbersOf
    <3>2. n % m = n
      BY <3>1, SmallDivision
    <3>3. t \notin ZigZags
      BY <2>7 DEF Signeds
    <3>4. QED
      BY <2>2, <2>3, <2>7, <3>2, <3>3 DEF Interpreted, Result
  <2>8. QED
    BY <2>6, <2>7
<1>5. QED
  BY <1>3, <1>4

-----------------------------------------------------------------------------
(* Texts. *)

LengthBytes(enc, k) == IF enc # "fixed" THEN UVarInt[k] ELSE BigEndian(k, IntegerBytes)

Lengths == 0 .. Size[IntegerBytes] - 1

LEMMA LengthIs ==
  ASSUME NEW k \in Lengths, NEW enc
  PROVE  /\ LengthBytes(enc, k) \in Seq(Bytes)
         /\ \A w \in Buffers : Ok(w) /\ w.enc = enc => WriteLength(w, k) = Written(w, LengthBytes(enc, k))
         /\ \A b : b.enc = enc /\ Upcoming(b, LengthBytes(enc, k))
                     => DecodeLength(b) = Result(Moved(b, Len(LengthBytes(enc, k))), k)
<1>1. /\ k \in Nat /\ k < Size[IntegerBytes] /\ IntegerBytes \in Nat /\ Size[IntegerBytes] \in Nat \ {0}
      /\ k < Size[LongBytes] /\ k \in 0 .. Size[IntegerBytes] - 1
  <2>1. IntegerBytes \in Nat /\ LongBytes \in Nat /\ IntegerBytes <= LongBytes
    BY WidthAssumption
  <2>2. Size[IntegerBytes] \in Nat \ {0} /\ Size[LongBytes] \in Nat /\ Size[IntegerBytes] <= Size[LongBytes]
    BY <2>1, SizeIs, SizeGrows
  <2>3. QED
    BY <2>1, <2>2 DEF Lengths
<1>2. LengthBytes(enc, k) \in Seq(Bytes)
  <2>1. UVarInt[k] \in Seq(Bytes)
    BY <1>1, UVarIntCoded, CodedBytes
  <2>2. BigEndian(k, IntegerBytes) \in Seq(Bytes)
    BY <1>1, BigEndianRead
  <2>3. QED
    BY <2>1, <2>2 DEF LengthBytes
<1>3. ASSUME NEW w \in Buffers, Ok(w), w.enc = enc PROVE WriteLength(w, k) = Written(w, LengthBytes(enc, k))
  BY <1>3 DEF WriteLength, LengthBytes, Varint, WriteUVarInt, WriteFixed, WriteBytes, Written
<1>4. ASSUME NEW b, b.enc = enc, Upcoming(b, LengthBytes(enc, k))
      PROVE  DecodeLength(b) = Result(Moved(b, Len(LengthBytes(enc, k))), k)
  <2>1. CASE enc # "fixed"
    <3>1. LengthBytes(enc, k) = UVarInt[k]
      BY <2>1 DEF LengthBytes
    <3>2. Upcoming(b, UVarInt[k])
      BY <1>4, <3>1
    <3> DEFINE r == Result(Moved(b, Len(UVarInt[k])), k)
    <3>3. ReadUVarInt(b) = r
      BY <1>1, <3>2, VarintRead
    <3>4. r.v = k
      BY DEF Result
    <3> HIDE DEF r
    <3>5. DecodeVarint(b, Size[IntegerBytes]) = r
      BY <1>1, <3>3, <3>4 DEF DecodeVarint, Limited
    <3>6. DecodeLength(b) = r
      BY <1>4, <2>1, <3>5 DEF DecodeLength, Varint
    <3>7. QED
      BY <3>1, <3>6 DEF r
  <2>2. CASE enc = "fixed"
    <3>1. LengthBytes(enc, k) = BigEndian(k, IntegerBytes)
      BY <2>2 DEF LengthBytes
    <3>2. Upcoming(b, BigEndian(k, IntegerBytes))
      BY <1>4, <3>1
    <3>a. k % Size[IntegerBytes] = k
      BY <1>1, SmallDivision
    <3>b. k \in Int
      BY <1>1
    <3>c. Len(BigEndian(k, IntegerBytes)) = IntegerBytes
      BY <1>1, <3>b, BigEndianRead
    <3>3. k % Size[IntegerBytes] = k /\ Len(BigEndian(k, IntegerBytes)) = IntegerBytes
      BY <3>a, <3>c
    <3>4. ReadFixed(b, IntegerBytes) = Result(Moved(b, IntegerBytes), k)
      BY <1>1, <3>2, <3>3, FixedRead
    <3>5. DecodeLength(b) = ReadFixed(b, IntegerBytes)
      BY <1>4, <2>2 DEF DecodeLength, Varint
    <3>6. QED
      BY <3>1, <3>3, <3>4, <3>5
  <2>3. QED
    BY <2>1, <2>2
<1>5. QED
  BY <1>2, <1>3, <1>4

TextBytes(enc, s) == LengthBytes(enc, Len(s)) \o s

\* A text that 32 bits can count.
LEMMA TextIs ==
  ASSUME NEW s \in Seq(Bytes), Len(s) \in Lengths, NEW enc
  PROVE  /\ TextBytes(enc, s) \in Seq(Bytes)
         /\ \A w \in Buffers : Ok(w) /\ w.enc = enc => EncodeText(w, s) = Written(w, TextBytes(enc, s))
         /\ \A b : b.enc = enc /\ Upcoming(b, TextBytes(enc, s))
                     => DecodeText(b) = Result(Moved(b, Len(TextBytes(enc, s))), s)
<1> DEFINE l == LengthBytes(enc, Len(s))
<1>1. /\ l \in Seq(Bytes)
      /\ \A w \in Buffers : Ok(w) /\ w.enc = enc => WriteLength(w, Len(s)) = Written(w, l)
      /\ \A b : b.enc = enc /\ Upcoming(b, l) => DecodeLength(b) = Result(Moved(b, Len(l)), Len(s))
  BY LengthIs
<1>2. TextBytes(enc, s) = l \o s
  BY DEF TextBytes
<1> HIDE DEF l
<1>3. l \o s \in Seq(Bytes) /\ Len(l \o s) = Len(l) + Len(s) /\ Len(l) \in Nat /\ Len(s) \in Nat
  BY <1>1
<1>4. ASSUME NEW w \in Buffers, Ok(w), w.enc = enc PROVE EncodeText(w, s) = Written(w, l \o s)
  <2>1. WriteLength(w, Len(s)) = Written(w, l)
    BY <1>1, <1>4
  <2>2. EncodeText(w, s) = WriteBytes(Written(w, l), s)
    BY <2>1 DEF EncodeText
  <2>3. Ok(Written(w, l))
    BY <1>1, <1>4, WrittenIs DEF Ok
  <2>4. WriteBytes(Written(w, l), s) = Written(Written(w, l), s)
    BY <2>3 DEF WriteBytes, Written
  <2>5. QED
    BY <1>1, <2>2, <2>4, WrittenTwice
<1>5. ASSUME NEW b, b.enc = enc, Upcoming(b, l \o s)
      PROVE  DecodeText(b) = Result(Moved(b, Len(l \o s)), s)
  <2>1. Upcoming(b, l) /\ Upcoming(Moved(b, Len(l)), s) /\ b \in Buffers
    BY <1>1, <1>5, UpcomingParts DEF Upcoming
  <2> DEFINE m == Moved(b, Len(l))
             size == Result(m, Len(s))
  <2>2. DecodeLength(b) = size
    BY <1>1, <1>5, <2>1
  <2>3. size.b = m /\ size.v = Len(s)
    BY DEF Result
  <2>4. ReadBytes(m, Len(s)) = Result(Moved(m, Len(s)), s)
    BY <2>1, BytesRead
  <2>5. Moved(m, Len(s)) = Moved(b, Len(l) + Len(s))
    BY <1>3, <2>1, MovedTwice
  <2> HIDE DEF m, size
  <2>6. DecodeText(b) = ReadBytes(m, Len(s))
    BY <2>2, <2>3 DEF DecodeText, ReadCounted
  <2>7. QED
    BY <1>3, <2>4, <2>5, <2>6
<1>6. QED
  BY <1>2, <1>3, <1>4, <1>5

-----------------------------------------------------------------------------
(* Instants. *)

\* The instants of the days that 16 bits count.
Instants == 0 .. Size[ShortBytes] * Day - 1

DaysOf(n) == n \div Day
MillisOf(n) == (n % Day) \div PerMilli
UnitsOf(n) == (n % Day) % PerMilli

\* A Time keeps the milliseconds.
Kept(t, n) == IF t = "Time" THEN n - (n % PerMilli) ELSE n

LEMMA DayIs ==
  Day \in Nat \ {0} /\ PerMilli \in Nat \ {0} /\ MillisInDay \in Nat \ {0} /\ Day = PerMilli * MillisInDay
<1>1. PerMilli \in Nat \ {0} /\ MillisInDay \in Nat \ {0}
  BY TimeAssumption
<1>2. PerMilli * MillisInDay \in Nat \ {0} /\ MillisInDay * PerMilli = PerMilli * MillisInDay
  BY <1>1, DivideTwice
<1>3. QED
  BY <1>1, <1>2 DEF Day

LEMMA InstantParts ==
  ASSUME NEW n \in Instants
  PROVE  /\ n \in Nat /\ DaysOf(n) \in 0 .. Size[ShortBytes] - 1
         /\ MillisOf(n) \in 0 .. Size[IntegerBytes] - 1 /\ UnitsOf(n) \in 0 .. Size[IntegerBytes] - 1
         /\ UnitsOf(n) = n % PerMilli
         /\ n - UnitsOf(n) = Day * DaysOf(n) + PerMilli * MillisOf(n)
<1> DEFINE q == DaysOf(n)
           r == n % Day
           m == MillisOf(n)
           u == UnitsOf(n)
           p == PerMilli
           c == MillisInDay
           z == Size[ShortBytes]
           d == Day
<1>1. /\ d \in Nat \ {0} /\ p \in Nat \ {0} /\ c \in Nat \ {0} /\ d = p * c
      /\ z \in Nat \ {0} /\ c <= Size[IntegerBytes] /\ p <= Size[IntegerBytes]
      /\ Size[IntegerBytes] \in Nat
  BY DayIs, SizeIs, WidthAssumption, TimeAssumption
<1>2. n \in Nat /\ n < z * d
  <2>1. z * d \in Int
    BY <1>1
  <2>2. n \in 0 .. (z * d) - 1
    BY DEF Instants
  <2>3. QED
    BY <2>1, <2>2
<1>3. q = n \div d /\ m = r \div p /\ u = r % p /\ r = n % d
  BY DEF DaysOf, MillisOf, UnitsOf
<1> HIDE DEF q, r, m, u, p, c, z, d
<1>4. q \in Nat /\ r \in Nat /\ r < d /\ n = q * d + r
  <2>1. n \in Int
    BY <1>2
  <2>2. /\ n % d \in Nat /\ n % d < d /\ n = (n \div d) * d + (n % d)
        /\ n \in Nat => n \div d \in Nat
    BY <1>1, <2>1, Division
  <2>3. QED
    BY <1>2, <1>3, <2>2
<1>5. m \in Nat /\ u \in Nat /\ u < p /\ r = m * p + u
  <2>1. r \in Int
    BY <1>4
  <2>2. /\ r % p \in Nat /\ r % p < p /\ r = (r \div p) * p + (r % p)
        /\ r \in Nat => r \div p \in Nat
    BY <1>1, <2>1, Division
  <2>3. QED
    BY <1>3, <1>4, <2>2
<1>6. q < z
  <2>1. SUFFICES ASSUME q >= z PROVE FALSE
    BY <1>1, <1>4
  <2>2. PICK e \in Nat : q = z + e
    <3>1. q - z \in Nat /\ q = z + (q - z)
      BY <1>1, <1>4, <2>1
    <3>2. QED
      BY <3>1
  <2>3. q * d = z * d + e * d
    BY <1>1, <2>2
  <2>4. e * d \in Nat /\ z * d \in Nat /\ q * d \in Nat
    BY <1>1, <1>4, <2>2
  <2>5. QED
    BY <1>2, <1>4, <2>3, <2>4
<1>7. m < c
  <2>1. SUFFICES ASSUME m >= c PROVE FALSE
    BY <1>1, <1>5
  <2>2. PICK e \in Nat : m = c + e
    <3>1. m - c \in Nat /\ m = c + (m - c)
      BY <1>1, <1>5, <2>1
    <3>2. QED
      BY <3>1
  <2>3. m * p = p * c + e * p
    BY <1>1, <2>2
  <2>4. e * p \in Nat /\ m * p \in Nat
    BY <1>1, <1>5, <2>2
  <2>5. QED
    BY <1>1, <1>4, <1>5, <2>3, <2>4
<1>8. n = (q * c + m) * p + u
  <2>1. (q * c + m) * p = (q * c) * p + m * p
    BY <1>1, <1>4, <1>5
  <2>2. (q * c) * p = q * (p * c)
    BY <1>1, <1>4
  <2>3. (q * c) * p \in Int /\ m * p \in Int
    BY <1>1, <1>4, <1>5
  <2>4. n = q * (p * c) + (m * p + u)
    BY <1>1, <1>4, <1>5
  <2>5. QED
    BY <2>1, <2>2, <2>3, <2>4, <1>5
<1>9. u = n % p
  <2>1. q * c + m \in Int /\ u \in 0 .. p - 1 /\ n \in Int
    BY <1>1, <1>2, <1>4, <1>5
  <2>2. QED
    BY <1>1, <1>8, <2>1, QuotientIs
<1>10. n - u = d * q + p * m
  <2>1. q * d = d * q /\ m * p = p * m
    BY <1>1, <1>4, <1>5
  <2>2. q * d \in Int /\ m * p \in Int
    BY <1>1, <1>4, <1>5
  <2>3. n = (q * d + m * p) + u
    BY <1>4, <1>5, <2>2
  <2>4. QED
    BY <1>4, <1>5, <2>1, <2>2, <2>3
<1>11. /\ q \in 0 .. z - 1 /\ m \in 0 .. Size[IntegerBytes] - 1 /\ u \in 0 .. Size[IntegerBytes] - 1
  BY <1>1, <1>4, <1>5, <1>6, <1>7
<1>12. QED
  BY <1>2, <1>9, <1>10, <1>11 DEF q, m, u, p, z, d

TimeBytes(t, n) ==
  LET short == BigEndian(DaysOf(n), ShortBytes) \o BigEndian(MillisOf(n), IntegerBytes)
  IN  IF t = "Time" THEN short ELSE short \o BigEndian(UnitsOf(n), IntegerBytes)

LEMMA UnitsRead ==
  ASSUME NEW k \in Nat, NEW d \in 0 .. Size[k] - 1, NEW b, Upcoming(b, BigEndian(d, k)), NEW acc, acc.b = b
  PROVE  \A unit : AddUnits(acc, unit, k) = Plus(acc, unit, Result(Moved(b, k), d))
<1>1. d \in Int /\ Size[k] \in Nat \ {0}
  BY SizeIs
<1>2. d % Size[k] = d
  BY <1>1, SmallDivision
<1>3. ReadFixed(b, k) = Result(Moved(b, k), d)
  BY <1>1, <1>2, FixedRead
<1>4. QED
  BY <1>3 DEF AddUnits

LEMMA PartsCoded ==
  ASSUME NEW n \in Instants, NEW t \in {"Time", "FineTime"}
  PROVE  /\ BigEndian(DaysOf(n), ShortBytes) \in Seq(Bytes)
         /\ BigEndian(MillisOf(n), IntegerBytes) \in Seq(Bytes)
         /\ BigEndian(UnitsOf(n), IntegerBytes) \in Seq(Bytes)
         /\ Len(BigEndian(DaysOf(n), ShortBytes)) = ShortBytes
         /\ Len(BigEndian(MillisOf(n), IntegerBytes)) = IntegerBytes
         /\ Len(BigEndian(UnitsOf(n), IntegerBytes)) = IntegerBytes
         /\ ShortBytes \in Nat /\ IntegerBytes \in Nat
         /\ TimeBytes(t, n) \in Seq(Bytes)
<1>1. DaysOf(n) \in Int /\ MillisOf(n) \in Int /\ UnitsOf(n) \in Int
  <2>1. /\ DaysOf(n) \in 0 .. Size[ShortBytes] - 1 /\ MillisOf(n) \in 0 .. Size[IntegerBytes] - 1
        /\ UnitsOf(n) \in 0 .. Size[IntegerBytes] - 1
    BY InstantParts
  <2>2. QED
    BY <2>1
<1>2. ShortBytes \in Nat /\ IntegerBytes \in Nat
  BY WidthAssumption
<1>3. /\ BigEndian(DaysOf(n), ShortBytes) \in Seq(Bytes)
      /\ BigEndian(MillisOf(n), IntegerBytes) \in Seq(Bytes)
      /\ BigEndian(UnitsOf(n), IntegerBytes) \in Seq(Bytes)
  BY <1>1, <1>2, BigEndianRead
<1>4. /\ Len(BigEndian(DaysOf(n), ShortBytes)) = ShortBytes
      /\ Len(BigEndian(MillisOf(n), IntegerBytes)) = IntegerBytes
      /\ Len(BigEndian(UnitsOf(n), IntegerBytes)) = IntegerBytes
  BY <1>1, <1>2, BigEndianRead
<1>5. TimeBytes(t, n) \in Seq(Bytes)
  BY <1>3 DEF TimeBytes
<1>6. QED
  BY <1>2, <1>3, <1>4, <1>5

\* A timestamp holds the instants of 16 bits of days.
LEMMA TimestampKept ==
  ASSUME NEW n \in Instants
  PROVE  Timestamp(n) = n
<1>1. PICK l \in Nat \ {0} : l = Size[LongBytes]
  BY SizeIs, WidthAssumption
<1>2. PICK c \in Nat : c = Size[ShortBytes] * Day
  BY SizeIs, DayIs, WidthAssumption
<1>3. 2 * c <= l
  BY <1>1, <1>2, TimestampAssumption DEF Day
<1>4. n \in Nat /\ n < c
  BY <1>2 DEF Instants
<1>5. n \in 0 .. l - 1 /\ ~(2 * n >= l)
  BY <1>3, <1>4
<1>6. n % l = n
  BY <1>5, SmallDivision
<1>7. QED
  BY <1>1, <1>5, <1>6 DEF Timestamp, Signed

LEMMA TimeWritten ==
  ASSUME NEW w \in Buffers, Ok(w), NEW t \in {"Time", "FineTime"}, NEW n \in Instants
  PROVE  EncodeTime(w, t, n) = Written(w, TimeBytes(t, n))
<1> DEFINE q == DaysOf(n)
           m == MillisOf(n)
           u == UnitsOf(n)
           days == BigEndian(DaysOf(n), ShortBytes)
           millis == BigEndian(MillisOf(n), IntegerBytes)
           units == BigEndian(UnitsOf(n), IntegerBytes)
           short == Written(w, days \o millis)
<1>1. /\ n \in Nat /\ q \in 0 .. Size[ShortBytes] - 1 /\ m \in Nat /\ u \in Nat
      /\ Day \in Nat \ {0} /\ PerMilli \in Nat \ {0} /\ Size[ShortBytes] \in Nat
  BY InstantParts, DayIs, SizeIs, WidthAssumption
<1>2. days \in Seq(Bytes) /\ millis \in Seq(Bytes) /\ units \in Seq(Bytes)
  BY PartsCoded
<1>3. /\ n % Day \in Nat /\ n = (n \div Day) * Day + (n % Day) /\ n \div Day \in Nat
      /\ (n % Day) % PerMilli \in Nat /\ (n % Day) \div PerMilli \in Nat
      /\ n % Day = ((n % Day) \div PerMilli) * PerMilli + ((n % Day) % PerMilli)
  <2>1. n % Day \in Nat /\ n = (n \div Day) * Day + (n % Day) /\ n \div Day \in Nat
    BY <1>1, Division
  <2>2. n % Day \in Int
    BY <2>1
  <2>3. /\ (n % Day) % PerMilli \in Nat /\ (n % Day) \div PerMilli \in Nat
        /\ n % Day = ((n % Day) \div PerMilli) * PerMilli + ((n % Day) % PerMilli)
    BY <1>1, <2>1, <2>2, Division
  <2>4. QED
    BY <2>1, <2>3
<1>4. Quotient(n, Day) = q
  BY <1>1 DEF Quotient, DaysOf
<1>5. Remainder(n, Day) = n % Day
  <2> DEFINE r == n % Day
             d == Day
  <2>1. d \in Nat /\ q \in Nat /\ r \in Nat /\ n = q * d + r
    BY <1>1, <1>3 DEF DaysOf
  <2>2. Remainder(n, Day) = n - d * q
    BY <1>4 DEF Remainder
  <2> HIDE DEF r, d, q
  <2>3. n - d * q = r
    BY <2>1
  <2>4. QED
    BY <2>2, <2>3 DEF r
<1>6. Quotient(n % Day, PerMilli) = m
  BY <1>3 DEF Quotient, MillisOf
<1>7. Remainder(n % Day, PerMilli) = u
  <2> DEFINE r == n % Day
             d == PerMilli
  <2>1. d \in Nat /\ m \in Nat /\ u \in Nat /\ r = m * d + u
    BY <1>1, <1>3 DEF MillisOf, UnitsOf
  <2>2. Remainder(n % Day, PerMilli) = r - d * m
    BY <1>6 DEF Remainder
  <2> HIDE DEF r, d, m, u
  <2>3. r - d * m = u
    BY <2>1
  <2>4. QED
    BY <2>2, <2>3 DEF u
<1>8. WriteFixed(WriteFixed(w, q, ShortBytes), m, IntegerBytes) = short
  <2>1. WriteFixed(w, q, ShortBytes) = Written(w, days)
    BY DEF WriteFixed, WriteBytes, Written
  <2>2. Ok(Written(w, days))
    BY <1>2, WrittenIs DEF Ok
  <2>3. WriteFixed(Written(w, days), m, IntegerBytes) = Written(Written(w, days), millis)
    BY <2>2 DEF WriteFixed, WriteBytes, Written
  <2>4. QED
    BY <1>2, <2>1, <2>3, WrittenTwice
<1>9. WriteFixed(short, u, IntegerBytes) = Written(w, (days \o millis) \o units)
  <2>1. days \o millis \in Seq(Bytes)
    BY <1>2
  <2>2. Ok(short)
    BY <2>1, WrittenIs DEF Ok
  <2>3. WriteFixed(short, u, IntegerBytes) = Written(short, units)
    BY <2>2 DEF WriteFixed, WriteBytes, Written
  <2>4. QED
    BY <1>2, <2>1, <2>3, WrittenTwice
<1>10. ~(q >= Size[ShortBytes]) /\ q < Size[ShortBytes]
  BY <1>1
<1>11. EncodeTime(w, t, n) = IF t = "Time" THEN short ELSE WriteFixed(short, u, IntegerBytes)
  <2> HIDE DEF q, m, u, short
  <2>1. QED
    BY <1>4, <1>5, <1>6, <1>7, <1>8, <1>10, TimestampKept DEF EncodeTime
<1>12. QED
  BY <1>9, <1>11 DEF TimeBytes

LEMMA TimeRead ==
  ASSUME NEW t \in {"Time", "FineTime"}, NEW n \in Instants, NEW b, Upcoming(b, TimeBytes(t, n))
  PROVE  DecodeTime(b, t) = Result(Moved(b, Len(TimeBytes(t, n))), Kept(t, n))
<1> DEFINE q == DaysOf(n)
           m == MillisOf(n)
           u == UnitsOf(n)
           days == BigEndian(DaysOf(n), ShortBytes)
           millis == BigEndian(MillisOf(n), IntegerBytes)
           units == BigEndian(UnitsOf(n), IntegerBytes)
           x == Day * q + PerMilli * m
           c == Moved(b, ShortBytes)
           e == Moved(b, ShortBytes + IntegerBytes)
<1>1. /\ n \in Nat /\ q \in 0 .. Size[ShortBytes] - 1 /\ m \in 0 .. Size[IntegerBytes] - 1
      /\ u \in 0 .. Size[IntegerBytes] - 1 /\ u = n % PerMilli /\ n - u = x
  BY InstantParts
<1>2. /\ days \in Seq(Bytes) /\ millis \in Seq(Bytes) /\ units \in Seq(Bytes)
      /\ Len(days) = ShortBytes /\ Len(millis) = IntegerBytes /\ Len(units) = IntegerBytes
      /\ ShortBytes \in Nat /\ IntegerBytes \in Nat
  BY PartsCoded
<1>3. b \in Buffers /\ Day \in Int /\ PerMilli \in Int /\ 0 \in Int /\ 1 \in Int
  BY DayIs DEF Upcoming
<1>4. Day * q \in Int /\ PerMilli * m \in Int /\ x \in Int /\ u \in Int
  BY <1>1, <1>3
<1>5. ASSUME Upcoming(b, days \o millis)
      PROVE  AddUnits(AddUnits(Result(b, 0), Day, ShortBytes), PerMilli, IntegerBytes) = Result(e, x)
  <2>1. Upcoming(b, days) /\ Upcoming(Moved(b, Len(days)), millis)
    BY <1>2, <1>5, UpcomingParts
  <2>2. AddUnits(Result(b, 0), Day, ShortBytes) = Result(c, 0 + Day * q)
    <3>1. Result(b, 0).b = b /\ Upcoming(b, BigEndian(q, ShortBytes))
      BY <2>1 DEF Result
    <3>2. AddUnits(Result(b, 0), Day, ShortBytes) = Plus(Result(b, 0), Day, Result(c, q))
      BY <1>1, <1>2, <3>1, UnitsRead
    <3>3. QED
      BY <3>2 DEF Plus, Result
  <2>3. 0 + Day * q = Day * q
    BY <1>4
  <2>4. Upcoming(c, millis)
    BY <1>2, <2>1
  <2> HIDE DEF c
  <2>5. AddUnits(Result(c, Day * q), PerMilli, IntegerBytes) = Result(Moved(c, IntegerBytes), Day * q + PerMilli * m)
    <3>1. Result(c, Day * q).b = c /\ Upcoming(c, BigEndian(m, IntegerBytes))
      BY <2>4 DEF Result
    <3>2. AddUnits(Result(c, Day * q), PerMilli, IntegerBytes)
            = Plus(Result(c, Day * q), PerMilli, Result(Moved(c, IntegerBytes), m))
      BY <1>1, <1>2, <3>1, UnitsRead
    <3>3. QED
      BY <3>2 DEF Plus, Result
  <2>6. Moved(c, IntegerBytes) = e
    BY <1>2, <1>3, MovedTwice DEF c
  <2>7. QED
    BY <2>2, <2>3, <2>5, <2>6
<1>6. CASE t = "Time"
  <2>1. TimeBytes(t, n) = days \o millis /\ Kept(t, n) = n - (n % PerMilli)
    BY <1>6 DEF TimeBytes, Kept
  <2>2. Len(days \o millis) = ShortBytes + IntegerBytes
    BY <1>2
  <2>3. Upcoming(b, days \o millis)
    BY <2>1
  <2>4. DecodeTime(b, t) = Result(e, x)
    BY <1>5, <1>6, <2>3 DEF DecodeTime
  <2>5. QED
    BY <1>1, <2>1, <2>2, <2>4
<1>7. CASE t = "FineTime"
  <2>1. TimeBytes(t, n) = (days \o millis) \o units /\ Kept(t, n) = n
    BY <1>7 DEF TimeBytes, Kept
  <2>2. /\ days \o millis \in Seq(Bytes) /\ Len(days \o millis) = ShortBytes + IntegerBytes
        /\ Len((days \o millis) \o units) = (ShortBytes + IntegerBytes) + IntegerBytes
    BY <1>2
  <2>3. Upcoming(b, (days \o millis) \o units)
    BY <2>1
  <2>4. Upcoming(b, days \o millis) /\ Upcoming(Moved(b, Len(days \o millis)), units)
    BY <1>2, <2>2, <2>3, UpcomingParts
  <2>5. Upcoming(e, units)
    BY <2>2, <2>4
  <2>6. DecodeTime(b, t) = AddUnits(Result(e, x), 1, IntegerBytes)
    BY <1>5, <1>7, <2>4 DEF DecodeTime
  <2> HIDE DEF x, e
  <2>7. AddUnits(Result(e, x), 1, IntegerBytes) = Result(Moved(e, IntegerBytes), x + 1 * u)
    <3>1. Result(e, x).b = e /\ Upcoming(e, BigEndian(u, IntegerBytes))
      BY <2>5 DEF Result
    <3>2. AddUnits(Result(e, x), 1, IntegerBytes) = Plus(Result(e, x), 1, Result(Moved(e, IntegerBytes), u))
      BY <1>1, <1>2, <3>1, UnitsRead
    <3>3. QED
      BY <3>2 DEF Plus, Result
  <2>8. x + 1 * u = n
    <3> HIDE DEF u
    <3>1. QED
      BY <1>1, <1>4
  <2>9. ShortBytes + IntegerBytes \in Nat
    BY <1>2
  <2>10. Moved(e, IntegerBytes) = Moved(b, (ShortBytes + IntegerBytes) + IntegerBytes)
    BY <1>2, <1>3, <2>9, MovedTwice DEF e
  <2>11. QED
    BY <2>1, <2>2, <2>6, <2>7, <2>8, <2>10
<1>8. QED
  BY <1>6, <1>7

-----------------------------------------------------------------------------
(* The bit field of the flags. *)

BitOf(b, i) == IF i <= Len(b.bits) /\ b.bits[i] THEN 1 ELSE 0

Adds(f, b, k) ==
  f = [j \in 0 .. Bits |-> IF j = 0 THEN 0 ELSE f[j - 1] + BitOf(b, (k - 1) * Bits + j) * Power[j - 1]]

FieldByte(b, k) == (CHOOSE f : Adds(f, b, k))[Bits]

FieldBytes(b) == IF b.blen = 0 THEN 0 ELSE (b.blen - 1) \div Bits + 1

LEMMA PackedIs ==
  ASSUME NEW b
  PROVE  Packed(b) = [k \in 1 .. FieldBytes(b) |-> FieldByte(b, k)]
BY DEF Packed, FieldByte, FieldBytes, Adds, BitOf

LEMMA AddsIs ==
  ASSUME NEW b, NEW k
  PROVE  \E f : /\ f[0] = 0
                /\ \A j \in 1 .. Bits : f[j] = f[j - 1] + BitOf(b, (k - 1) * Bits + j) * Power[j - 1]
                /\ FieldByte(b, k) = f[Bits]
<1> DEFINE e(j) == BitOf(b, (k - 1) * Bits + j) * Power[j - 1]
           term == [n \in Nat |-> e(n + 1)]
           step == [n \in Nat |-> [x \in Nat |-> x + term[n]]]
<1>1. Bits \in Nat
  BY WidthAssumption
<1>2. \A n \in Nat : term[n] \in Nat
  <2>1. ASSUME NEW n \in Nat PROVE e(n + 1) \in Nat
    <3>1. BitOf(b, (k - 1) * Bits + (n + 1)) \in {0, 1}
      BY DEF BitOf
    <3>2. (n + 1) - 1 = n /\ Power[n] \in Nat
      BY PowerIs
    <3>3. Power[(n + 1) - 1] \in Nat
      BY <3>2
    <3>4. \A x \in {0, 1}, y \in Nat : x * y \in Nat
      OBVIOUS
    <3> HIDE DEF e
    <3>5. BitOf(b, (k - 1) * Bits + (n + 1)) * Power[(n + 1) - 1] \in Nat
      BY <3>1, <3>3, <3>4
    <3>6. QED
      BY <3>5 DEF e
  <2> HIDE DEF e
  <2>2. QED
    BY <2>1
<1>3. \A j \in 1 .. Bits : j - 1 \in Nat /\ term[j - 1] = e(j)
  <2>1. ASSUME NEW j \in 1 .. Bits PROVE j - 1 \in Nat /\ (j - 1) + 1 = j
    BY <1>1
  <2> HIDE DEF e
  <2>2. QED
    BY <2>1
<1> HIDE DEF term
<1>4. step \in Steps(Nat)
  BY <1>2 DEF Steps
<1>5. \A n, x \in Nat : step[n][x] = x + term[n]
  OBVIOUS
<1> HIDE DEF step, e
<1>6. PICK g : Follows(g, Nat, 0, step)
  BY <1>4, Recursion
<1> DEFINE h == [j \in 0 .. Bits |-> g[j]]
<1>7. \A j \in 1 .. Bits : g[j] = g[j - 1] + e(j)
  <2>1. ASSUME NEW j \in 1 .. Bits PROVE g[j] = g[j - 1] + e(j)
    <3>1. j - 1 \in Nat /\ (j - 1) + 1 = j
      OBVIOUS
    <3>2. g[j - 1] \in Nat /\ g[j] = step[j - 1][g[j - 1]]
      BY <1>6, <3>1 DEF Follows
    <3>3. QED
      BY <1>3, <1>5, <3>1, <3>2
  <2>2. QED
    BY <2>1
<1>8. \E f : Adds(f, b, k)
  <2>1. ASSUME NEW j \in 0 .. Bits PROVE h[j] = IF j = 0 THEN 0 ELSE h[j - 1] + e(j)
    <3>1. j # 0 => j \in 1 .. Bits /\ j - 1 \in 0 .. Bits
      BY <1>1
    <3>2. QED
      BY <1>6, <1>7, <3>1 DEF Follows
  <2>2. h = [j \in 0 .. Bits |-> IF j = 0 THEN 0 ELSE h[j - 1] + e(j)]
    <3>1. h = [j \in 0 .. Bits |-> h[j]]
      OBVIOUS
    <3> HIDE DEF h
    <3>2. QED
      BY <2>1, <3>1
  <2> HIDE DEF h
  <2>3. Adds(h, b, k)
    BY <2>2 DEF Adds, e
  <2>4. QED
    BY <2>3
<1> DEFINE f == CHOOSE f : Adds(f, b, k)
<1>9. Adds(f, b, k)
  BY <1>8
<1>10. FieldByte(b, k) = f[Bits]
  BY DEF FieldByte
<1> HIDE DEF f, h
<1>11. \A j \in 0 .. Bits : f[j] = IF j = 0 THEN 0 ELSE f[j - 1] + e(j)
  BY <1>9 DEF Adds, e
<1>12. f[0] = 0
  BY <1>1, <1>11
<1>13. \A j \in 1 .. Bits : f[j] = f[j - 1] + e(j)
  <2>1. ASSUME NEW j \in 1 .. Bits PROVE j \in 0 .. Bits /\ j # 0
    BY <1>1
  <2>2. QED
    BY <1>11, <2>1
<1>14. QED
  BY <1>10, <1>12, <1>13 DEF e

LEMMA PowersDouble ==
  \A i \in Nat : \A j \in 0 .. i - 1 : \E c \in Nat : Power[i] = (2 * c) * Power[j]
<1> DEFINE S == {i \in Nat : \A j \in 0 .. i - 1 : \E c \in Nat : Power[i] = (2 * c) * Power[j]}
<1>1. ASSUME NEW i \in Nat, \A m \in 0 .. i - 1 : m \in S PROVE i \in S
  <2>1. ASSUME NEW j \in 0 .. i - 1 PROVE \E c \in Nat : Power[i] = (2 * c) * Power[j]
    <3>1. i - 1 \in Nat /\ (i - 1) + 1 = i /\ i - 1 \in 0 .. i - 1 /\ j \in Nat
      OBVIOUS
    <3>2. Power[i] = 2 * Power[i - 1] /\ Power[j] \in Nat /\ Power[i - 1] \in Nat
      BY <3>1, PowerIs
    <3>3. CASE j = i - 1
      <4>1. Power[i] = (2 * 1) * Power[j]
        BY <3>2, <3>3
      <4>2. QED
        BY <4>1
    <3>4. CASE j # i - 1
      <4>1. j \in 0 .. (i - 1) - 1 /\ i - 1 \in S
        BY <1>1, <3>1, <3>4
      <4>2. PICK c \in Nat : Power[i - 1] = (2 * c) * Power[j]
        BY <4>1
      <4>3. 2 * ((2 * c) * Power[j]) = (2 * (2 * c)) * Power[j]
        BY <3>2
      <4>4. Power[i] = (2 * (2 * c)) * Power[j] /\ 2 * c \in Nat
        BY <3>2, <4>2, <4>3
      <4>5. QED
        BY <4>4
    <3>5. QED
      BY <3>3, <3>4
  <2>2. QED
    BY <2>1
<1>2. Nat \subseteq S
  <2> HIDE DEF S
  <2>1. QED
    BY <1>1, Induction
<1>3. QED
  BY <1>2

Doubles(d, p) == \E c \in Nat : d = (2 * c) * p

\* A higher bit leaves a lower one as it is.
LEMMA HigherBit ==
  ASSUME NEW p \in Nat \ {0}, NEW d, Doubles(d, p), NEW x \in Nat, NEW y \in {x, x + d}
  PROVE  (y \div p) % 2 = (x \div p) % 2
<1>0. PICK c \in Nat : d = (2 * c) * p
  BY DEF Doubles
<1> DEFINE e == IF y = x THEN 0 ELSE 1
<1>a. e \in {0, 1} /\ (2 * c) * p \in Int
  OBVIOUS
<1>b. y = x + e * d
  <2>1. CASE y = x
    BY <1>0, <1>a, <2>1
  <2>2. CASE y # x
    BY <1>0, <1>a, <2>2
  <2>3. QED
    BY <2>1, <2>2
<1> HIDE DEF e
<1> DEFINE q == x \div p
           r == x % p
           a == q \div 2
           t == q % 2
           s == e * c
<1>1. q \in Nat /\ r \in 0 .. p - 1 /\ x = q * p + r
  BY Division
<1> HIDE DEF q, r
<1>2. a \in Int /\ t \in 0 .. 2 - 1 /\ q = a * 2 + t
  BY <1>1, Division
<1>3. s \in Nat
  BY <1>a
<1> HIDE DEF a, t
<1>4. e * d = (2 * s) * p
  <2>1. CASE e = 0
    <3>1. s = 0 /\ d \in Int
      BY <1>0, <1>a, <2>1
    <3>2. QED
      BY <1>0, <2>1, <3>1
  <2>2. CASE e = 1
    <3>1. s = c /\ d \in Int
      BY <1>0, <1>a, <2>2
    <3>2. QED
      BY <1>0, <2>2, <3>1
  <2>3. QED
    BY <1>a, <2>1, <2>2
<1> HIDE DEF s
<1>5. x + e * d = (q + 2 * s) * p + r
  BY <1>1, <1>3, <1>4
<1>6. (x + e * d) \div p = q + 2 * s
  <2>1. q + 2 * s \in Int /\ (q + 2 * s) * p + r \in Int
    BY <1>1, <1>3
  <2> DEFINE u == q + 2 * s
             z == x + e * d
  <2>2. u \in Int /\ z \in Int /\ z = u * p + r
    BY <1>5, <2>1
  <2> HIDE DEF u, z
  <2>3. z \div p = u
    BY <1>1, <2>2, QuotientIs
  <2>4. QED
    BY <2>3 DEF u, z
<1>7. q + 2 * s = (a + s) * 2 + t /\ a + s \in Int /\ q + 2 * s \in Int /\ 2 \in Nat \ {0}
  BY <1>1, <1>2, <1>3
<1>8. (q + 2 * s) % 2 = t
  <2> DEFINE u == q + 2 * s
             z == a + s
  <2>1. u \in Int /\ z \in Int /\ u = z * 2 + t
    BY <1>7
  <2> HIDE DEF u, z
  <2>2. u % 2 = t
    BY <1>2, <1>7, <2>1, QuotientIs
  <2>3. QED
    BY <2>2 DEF u
<1>9. (x \div p) % 2 = t
  BY DEF q, t
<1>10. QED
  BY <1>b, <1>6, <1>8, <1>9

LEMMA FieldByteIs ==
  ASSUME NEW b, NEW k
  PROVE  /\ FieldByte(b, k) \in Bytes
         /\ \A j \in 1 .. Bits : (FieldByte(b, k) \div Power[j - 1]) % 2 = BitOf(b, (k - 1) * Bits + j)
<1> DEFINE B(j) == BitOf(b, (k - 1) * Bits + j)
<1>1. PICK f : /\ f[0] = 0 /\ \A j \in 1 .. Bits : f[j] = f[j - 1] + B(j) * Power[j - 1]
               /\ FieldByte(b, k) = f[Bits]
  BY AddsIs
<1>2. \A j : B(j) \in {0, 1}
  BY DEF BitOf
<1>3. \A j \in Nat : Power[j] \in Nat \ {0}
  BY PowerIs
<1> DEFINE Low(i) == /\ f[i] \in Nat /\ f[i] < Power[i]
                     /\ \A j \in 1 .. i : (f[i] \div Power[j - 1]) % 2 = B(j)
           S == {i \in Nat : i <= Bits => Low(i)}
<1> HIDE DEF B
<1>4. ASSUME NEW i \in Nat, \A m \in 0 .. i - 1 : m \in S PROVE i \in S
  <2>1. CASE i = 0
    BY <1>1, <2>1, PowerIs
  <2>2. CASE i # 0 /\ i <= Bits
    <3> DEFINE x == f[i - 1]
               d == Power[i - 1]
    <3>1. i - 1 \in Nat /\ (i - 1) + 1 = i /\ i - 1 \in 0 .. i - 1 /\ i \in 1 .. Bits /\ i - 1 <= Bits
      BY <2>2, WidthAssumption
    <3>2. Low(i - 1)
      BY <1>4, <3>1
    <3>3. x \in Nat /\ x < d /\ d \in Nat \ {0} /\ Power[i] = 2 * d /\ f[i] = x + B(i) * d /\ B(i) \in {0, 1}
      BY <1>1, <1>2, <1>3, <3>1, <3>2, PowerIs
    <3>4. f[i] \in Nat /\ f[i] < Power[i]
      <4> HIDE DEF x, d
      <4>1. CASE B(i) = 0
        BY <3>3, <4>1
      <4>2. CASE B(i) = 1
        BY <3>3, <4>2
      <4>3. QED
        BY <3>3, <4>1, <4>2
    <3>5. (f[i] \div Power[i - 1]) % 2 = B(i)
      <4>1. f[i] \div d = B(i)
        <5> HIDE DEF x, d
        <5>1. f[i] = B(i) * d + x /\ x \in 0 .. d - 1 /\ f[i] \in Int /\ B(i) \in Int
          <6>1. B(i) * d \in Int
            BY <3>3
          <6>2. QED
            BY <3>3, <3>4, <6>1
        <5>2. QED
          BY <3>3, <5>1, QuotientIs
      <4>2. \A y \in {0, 1} : y % 2 = y
        OBVIOUS
      <4>3. QED
        BY <3>3, <4>1, <4>2
    <3>6. ASSUME NEW j \in 1 .. i, j # i PROVE (f[i] \div Power[j - 1]) % 2 = B(j)
      <4>1. j \in 1 .. i - 1 /\ j - 1 \in 0 .. (i - 1) - 1 /\ j - 1 \in Nat
        BY <3>6
      <4>2. PICK c \in Nat : d = (2 * c) * Power[j - 1]
        BY <3>1, <4>1, PowersDouble
      <4>3. Power[j - 1] \in Nat \ {0}
        BY <1>3, <4>1
      <4>4. (x \div Power[j - 1]) % 2 = B(j)
        BY <3>2, <4>1
      <4> DEFINE p == Power[j - 1]
      <4> HIDE DEF x, d, p
      <4>5. p \in Nat \ {0} /\ d = (2 * c) * p
        BY <4>2, <4>3 DEF p
      <4>6. (f[i] \div p) % 2 = (x \div p) % 2
        <5> DEFINE y == f[i]
        <5>1. y \in {x, x + d}
          BY <3>3
        <5>2. x \in Nat /\ p \in Nat \ {0} /\ Doubles(d, p)
          BY <3>3, <4>5 DEF Doubles
        <5> HIDE DEF y
        <5>3. (y \div p) % 2 = (x \div p) % 2
          BY <5>1, <5>2, HigherBit
        <5>4. QED
          BY <5>3 DEF y
      <4>7. QED
        BY <3>3, <4>4, <4>6 DEF p
    <3> HIDE DEF x, d
    <3>7. Low(i)
      BY <3>4, <3>5, <3>6
    <3>8. QED
      BY <3>7
  <2>3. QED
    BY <2>1, <2>2
<1>5. Nat \subseteq S
  <2> HIDE DEF S
  <2>1. QED
    BY <1>4, Induction
<1>6. Bits \in Nat /\ Low(Bits)
  BY <1>5, WidthAssumption
<1>7. FieldByte(b, k) \in Bytes
  BY <1>1, <1>6, ByteIs DEF Bytes, ByteSize
<1>8. QED
  BY <1>1, <1>6, <1>7 DEF B

LEMMA PackedBytes ==
  ASSUME NEW z \in Buffers
  PROVE  /\ FieldBytes(z) \in Nat /\ Packed(z) \in Seq(Bytes) /\ Len(Packed(z)) = FieldBytes(z)
         /\ z.blen <= FieldBytes(z) * Bits
<1>1. z.blen \in Nat /\ Bits \in Nat \ {0}
  BY WidthAssumption DEF Buffers
<1>2. FieldBytes(z) \in Nat /\ z.blen <= FieldBytes(z) * Bits
  <2>1. CASE z.blen = 0
    BY <1>1, <2>1 DEF FieldBytes
  <2>2. CASE z.blen # 0
    <3> DEFINE n == z.blen - 1
               q == n \div Bits
               r == n % Bits
    <3>1. n \in Nat
      BY <1>1, <2>2
    <3>2. q \in Nat /\ r \in Nat /\ r < Bits /\ n = q * Bits + r
      <4>1. \A x \in Nat : /\ x \div Bits \in Nat /\ x % Bits \in Nat /\ x % Bits < Bits
                          /\ x = (x \div Bits) * Bits + (x % Bits)
        BY <1>1, Division
      <4>2. QED
        BY <3>1, <4>1
    <3>3. FieldBytes(z) = q + 1 /\ z.blen = n + 1
      BY <1>1, <2>2 DEF FieldBytes
    <3> HIDE DEF n, q, r
    <3>4. (q + 1) * Bits = q * Bits + Bits /\ q * Bits \in Nat
      BY <1>1, <3>2
    <3>5. n + 1 <= q * Bits + Bits
      BY <1>1, <3>2, <3>4
    <3>6. QED
      BY <3>2, <3>3, <3>4, <3>5
  <2>3. QED
    BY <2>1, <2>2
<1>3. \A k : FieldByte(z, k) \in Bytes
  BY FieldByteIs
<1>4. QED
  BY <1>2, <1>3, PackedIs

\* What a decoder finds in the field: the flags, and nothing after them.
Field(z) == [i \in 1 .. FieldBytes(z) * Bits |-> i <= Len(z.bits) /\ z.bits[i]]

LEMMA FieldIs ==
  ASSUME NEW z \in Buffers
  PROVE  /\ FieldBytes(z) * Bits \in Nat /\ Field(z) \in Seq(BOOLEAN) /\ Len(Field(z)) = FieldBytes(z) * Bits
         /\ \A b \in Buffers : WithBits(Result(b, Packed(z)))
                                 = [b EXCEPT !.blen = FieldBytes(z) * Bits, !.bits = Field(z)]
<1> DEFINE n == FieldBytes(z)
           s == Packed(z)
<1>0. \A x \in Nat : /\ x \div Bits \in Nat /\ x % Bits \in Nat /\ x % Bits < Bits
                      /\ x = (x \div Bits) * Bits + (x % Bits)
  BY WidthAssumption, Division
<1>1. n \in Nat /\ Len(s) = n /\ Bits \in Nat \ {0} /\ z.bits \in Seq(BOOLEAN)
  BY PackedBytes, WidthAssumption DEF Buffers
<1>2. n * Bits \in Nat
  BY <1>1
<1>3. Field(z) \in Seq(BOOLEAN) /\ Len(Field(z)) = n * Bits
  <2>1. \A i \in 1 .. n * Bits : (i <= Len(z.bits) /\ z.bits[i]) \in BOOLEAN
    OBVIOUS
  <2>2. Field(z) \in [1 .. n * Bits -> BOOLEAN]
    BY <2>1 DEF Field
  <2> HIDE DEF n
  <2>3. QED
    BY <1>2, <2>2
<1>4. ASSUME NEW i \in 1 .. n * Bits
      PROVE  ((s[(i - 1) \div Bits + 1] \div Power[(i - 1) % Bits]) % 2 = 1) <=> (i <= Len(z.bits) /\ z.bits[i])
  <2> DEFINE q == (i - 1) \div Bits
             r == (i - 1) % Bits
             k == q + 1
             j == r + 1
  <2>0. i - 1 \in Nat /\ i - 1 < n * Bits /\ i \in Nat
    BY <1>2
  <2>1. q \in Nat /\ r \in Nat /\ r < Bits /\ i - 1 = q * Bits + r
    <3> HIDE DEF n, s
    <3>1. i - 1 \in Nat
      BY <2>0
    <3>2. QED
      BY <1>0, <3>1
  <2> HIDE DEF q, r, n
  <2>2. q < n
    <3>1. SUFFICES ASSUME q >= n PROVE FALSE
      BY <1>1, <2>1
    <3>2. PICK e \in Nat : q = n + e
      <4>1. q - n \in Nat /\ q = n + (q - n)
        BY <1>1, <2>1, <3>1
      <4>2. QED
        BY <4>1
    <3>3. q * Bits = n * Bits + e * Bits /\ e * Bits \in Nat /\ q * Bits \in Nat
      BY <1>1, <3>2
    <3>4. QED
      BY <1>2, <2>0, <2>1, <3>3
  <2>3. k \in 1 .. n /\ j \in 1 .. Bits /\ j - 1 = r /\ k - 1 = q
    BY <1>1, <2>1, <2>2
  <2>4. (k - 1) * Bits + j = i
    <3>1. q * Bits \in Nat
      BY <1>1, <2>1
    <3>2. QED
      BY <2>0, <2>1, <2>3, <3>1
  <2>5. s[k] = FieldByte(z, k)
    BY <2>3, PackedIs DEF n
  <2>6. (s[k] \div Power[r]) % 2 = BitOf(z, i)
    <3>1. (FieldByte(z, k) \div Power[j - 1]) % 2 = BitOf(z, (k - 1) * Bits + j)
      BY <2>3, FieldByteIs
    <3>2. QED
      BY <2>3, <2>4, <2>5, <3>1
  <2>7. BitOf(z, i) = 1 <=> (i <= Len(z.bits) /\ z.bits[i])
    BY DEF BitOf
  <2>8. QED
    BY <2>6, <2>7 DEF q, r
<1>5. ASSUME NEW b \in Buffers
      PROVE  WithBits(Result(b, s)) = [b EXCEPT !.blen = n * Bits, !.bits = Field(z)]
  <2> DEFINE bit(i) == (s[(i - 1) \div Bits + 1] \div Power[(i - 1) % Bits]) % 2 = 1
             f == [i \in 1 .. n * Bits |-> bit(i)]
  <2>1. f = Field(z)
    <3>1. \A i \in 1 .. n * Bits : bit(i) = (i <= Len(z.bits) /\ z.bits[i])
      BY <1>4
    <3> HIDE DEF bit
    <3>2. QED
      BY <3>1 DEF Field
  <2>2. WithBits(Result(b, s)) = [b EXCEPT !.blen = n * Bits, !.bits = f]
    BY <1>1 DEF WithBits, Result
  <2> HIDE DEF f
  <2>3. QED
    BY <2>1, <2>2
<1>6. QED
  BY <1>2, <1>3, <1>5

\* The bytes before those of the values.
FlagBytes(z) == IF z.enc = "split" THEN UVarInt[Len(Packed(z))] \o Packed(z) ELSE <<>>

LEMMA DecoderOpens ==
  ASSUME NEW z \in Buffers, FieldBytes(z) < Size[LongBytes], NEW d, d = NewDecoder(z.enc, Body(z))
  PROVE  /\ FlagBytes(z) \in Seq(Bytes) /\ d \in Buffers /\ Ok(d) /\ d.enc = z.enc
         /\ d.buf = FlagBytes(z) \o z.buf /\ d.offset = Len(FlagBytes(z)) /\ d.idx = 0
         /\ z.enc = "split" => d.blen = FieldBytes(z) * Bits /\ d.bits = Field(z)
<1>1. z.buf \in Seq(Bytes) /\ z.enc \in Encodings
  BY DEF Buffers
<1>2. \A s \in Seq(Bytes) : NewBuffer(z.enc, s) \in Buffers /\ Ok(NewBuffer(z.enc, s))
  BY <1>1 DEF NewBuffer, Buffers, Ok
<1>3. CASE z.enc # "split"
  <2>1. FlagBytes(z) = <<>> /\ Body(z) = z.buf /\ d = NewBuffer(z.enc, z.buf)
    BY <1>3 DEF FlagBytes, Body, NewDecoder
  <2>2. <<>> \o z.buf = z.buf /\ Len(<<>>) = 0 /\ <<>> \in Seq(Bytes)
    BY <1>1
  <2>3. /\ d \in Buffers /\ Ok(d) /\ d.enc = z.enc /\ d.buf = z.buf /\ d.offset = 0 /\ d.idx = 0
    BY <1>1, <1>2, <2>1 DEF NewBuffer
  <2>4. QED
    BY <1>3, <2>1, <2>2, <2>3
<1>4. CASE z.enc = "split"
  <2> DEFINE s == Packed(z)
             u == UVarInt[Len(s)]
             all == (u \o s) \o z.buf
             b == NewBuffer("split", all)
  <2>1. s \in Seq(Bytes) /\ Len(s) = FieldBytes(z) /\ Len(s) \in Nat /\ Len(s) < Size[LongBytes]
    BY PackedBytes
  <2>2. u \in Seq(Bytes)
    BY <2>1, UVarIntCoded, CodedBytes
  <2> DEFINE front == u \o s
  <2>3. front \in Seq(Bytes) /\ Len(front) = Len(u) + Len(s) /\ Len(u) \in Nat
    BY <2>1, <2>2
  <2>4. FlagBytes(z) = front /\ Body(z) = all
    <3>1. FlagBytes(z) = front
      BY <1>4 DEF FlagBytes
    <3>2. Body(z) = u \o s \o z.buf
      BY <1>4 DEF Body
    <3>3. QED
      BY <3>1, <3>2
  <2>a. all = front \o z.buf
    OBVIOUS
  <2> HIDE DEF s, u
  <2>5. all \in Seq(Bytes) /\ Len(all) = Len(front) + Len(z.buf) /\ Len(z.buf) \in Nat
        /\ \A i \in 1 .. Len(front) : all[i] = front[i]
    BY <1>1, <2>3
  <2> HIDE DEF front
  <2>6. b \in Buffers /\ Ok(b) /\ b.offset = 0 /\ b.buf = all /\ b.enc = "split" /\ b.idx = 0
    BY <1>2, <1>4, <2>5 DEF NewBuffer
  <2> HIDE DEF b, all
  <2>7. Upcoming(b, front)
    <3>1. \A i \in 1 .. Len(front) : b.offset + i = i
      BY <2>6
    <3>2. Len(front) \in Nat /\ b.offset + Len(front) <= Len(b.buf)
      BY <2>1, <2>3, <2>5, <2>6
    <3>3. QED
      BY <2>3, <2>5, <2>6, <3>1, <3>2 DEF Upcoming
  <2>8. Upcoming(b, u) /\ Upcoming(Moved(b, Len(u)), s)
    <3>1. Upcoming(b, u \o s)
      BY <2>7 DEF front
    <3>2. QED
      BY <2>1, <2>2, <3>1, UpcomingParts
  <2>9. ReadUVarInt(b) = Result(Moved(b, Len(u)), Len(s))
    BY <2>1, <2>8, VarintRead DEF u
  <2>10. ReadBytes(Moved(b, Len(u)), Len(s)) = Result(Moved(Moved(b, Len(u)), Len(s)), s)
    BY <2>8, BytesRead
  <2>11. Moved(Moved(b, Len(u)), Len(s)) = Moved(b, Len(front))
    BY <2>1, <2>3, <2>6, MovedTwice
  <2>12. ReadCounted(ReadUVarInt(b)) = Result(Moved(b, Len(front)), s)
    BY <2>9, <2>10, <2>11 DEF ReadCounted, Result
  <2>13. d = WithBits(Result(Moved(b, Len(front)), s))
    BY <1>4, <2>4, <2>12 DEF NewDecoder, b
  <2> DEFINE c == Moved(b, Len(front))
  <2>14. /\ c \in Buffers /\ c.offset = b.offset + Len(front) /\ c.enc = "split" /\ c.buf = all
         /\ c.st = b.st /\ c.idx = 0 /\ Len(front) \in Nat
    <3>1. Len(front) \in Nat
      BY <2>1, <2>3
    <3>2. QED
      BY <2>6, <3>1, MovedIs
  <2> HIDE DEF c
  <2>15. /\ FieldBytes(z) * Bits \in Nat /\ Field(z) \in Seq(BOOLEAN)
         /\ d = [c EXCEPT !.blen = FieldBytes(z) * Bits, !.bits = Field(z)]
    BY <2>13, <2>14, FieldIs DEF s, c
  <2>16. /\ d \in Buffers /\ d.st = c.st /\ d.enc = c.enc /\ d.buf = c.buf /\ d.offset = c.offset /\ d.idx = c.idx
         /\ d.blen = FieldBytes(z) * Bits /\ d.bits = Field(z)
    BY <2>14, <2>15 DEF Buffers
  <2>17. d.offset = Len(front) /\ Ok(d)
    BY <2>6, <2>14, <2>16 DEF Ok
  <2>18. QED
    BY <1>4, <2>3, <2>4, <2>a, <2>14, <2>16, <2>17
<1>5. QED
  BY <1>3, <1>4

-----------------------------------------------------------------------------
(* Attributes. *)

\* The attributes that are written: a number of the type, a text that 32 bits
\* can count, an instant that 16 bits of days reach.
Sendable(a) ==
  \/ \E n \in {0, 1} : a = Value("Boolean", n, <<>>, <<>>)
  \/ \E t \in NumberTypes : \E n \in NumbersOf(t) : a = Value(t, n, <<>>, <<>>)
  \/ \E t \in Texts : \E s \in Seq(Bytes) : Len(s) \in Lengths /\ a = Value(t, 0, s, <<>>)
  \/ \E t \in {"Time", "FineTime"} : \E n \in Instants : a = Value(t, n, <<>>, <<>>)

\* The value that the peer reads: a Time comes without what is below a millisecond.
Received(a) == [a EXCEPT !.n = Kept(a.t, @)]

AttributeBytes(enc, a) ==
  CASE a.t = "Boolean" -> BigEndian(a.n, 1)
    [] a.t \in Texts -> TextBytes(enc, a.s)
    [] a.t \in {"Time", "FineTime"} -> TimeBytes(a.t, a.n)
    [] OTHER -> NumberBytes(enc, a.t, a.n)

\* Only the flags of the split encoding are not in the buffer.
InBuffer(enc, a) == a.t # "Boolean" \/ enc # "split"

LEMMA Tags ==
  /\ \A t \in NumberTypes : t # "Boolean" /\ t \notin Texts /\ t \notin {"Time", "FineTime"}
  /\ \A t \in Texts : t # "Boolean" /\ t \notin {"Time", "FineTime"}
  /\ "Boolean" \notin Texts
BY DEF NumberTypes, Texts

LEMMA OneByte ==
  ASSUME NEW n \in {0, 1}
  PROVE  BigEndian(n, 1) \in Seq(Bytes) /\ Len(BigEndian(n, 1)) = 1 /\ n % Size[1] = n
<1>1. n \in Int /\ 1 \in Nat
  OBVIOUS
<1>2. Size[1] = ByteSize
  <2>1. Size[0 + 1] = ByteSize * 1
    BY SizeIs
  <2>2. QED
    BY <2>1, ByteIs
<1>3. Size[1] \in Nat \ {0} /\ n \in 0 .. Size[1] - 1
  BY <1>2, ByteIs
<1>4. n % Size[1] = n
  BY <1>3, SmallDivision
<1>5. QED
  BY <1>1, <1>4, BigEndianRead

LEMMA AttributeWritten ==
  ASSUME NEW w \in Buffers, Ok(w), NEW a, Sendable(a), InBuffer(w.enc, a)
  PROVE  /\ AttributeBytes(w.enc, a) \in Seq(Bytes)
         /\ EncodeValue(w, a) = Written(w, AttributeBytes(w.enc, a))
<1>1. ASSUME NEW n \in {0, 1}, a = Value("Boolean", n, <<>>, <<>>)
      PROVE  /\ AttributeBytes(w.enc, a) \in Seq(Bytes)
             /\ EncodeValue(w, a) = Written(w, AttributeBytes(w.enc, a))
  <2>1. a.t = "Boolean" /\ a.n = n /\ w.enc # "split"
    BY <1>1 DEF Value, InBuffer
  <2>2. AttributeBytes(w.enc, a) = BigEndian(n, 1)
    BY <2>1, Tags DEF AttributeBytes
  <2>3. EncodeValue(w, a) = WriteFlag(w, n = 1)
    BY <2>1, Tags DEF EncodeValue
  <2>4. (IF n = 1 THEN 1 ELSE 0) = n
    OBVIOUS
  <2>5. WriteFlag(w, n = 1) = WriteFixed(w, n, 1)
    BY <2>1, <2>4 DEF WriteFlag
  <2>6. QED
    BY <2>2, <2>3, <2>5, OneByte DEF WriteFixed, WriteBytes, Written
<1>2. ASSUME NEW t \in NumberTypes, NEW n \in NumbersOf(t), a = Value(t, n, <<>>, <<>>)
      PROVE  /\ AttributeBytes(w.enc, a) \in Seq(Bytes)
             /\ EncodeValue(w, a) = Written(w, AttributeBytes(w.enc, a))
  <2>1. a.t = t /\ a.n = n
    BY <1>2 DEF Value
  <2>2. AttributeBytes(w.enc, a) = NumberBytes(w.enc, t, n) /\ EncodeValue(w, a) = EncodeNumber(w, t, n)
    BY <2>1, Tags DEF AttributeBytes, EncodeValue
  <2>3. QED
    BY <2>2, NumberWritten
<1>3. ASSUME NEW t \in Texts, NEW s \in Seq(Bytes), Len(s) \in Lengths, a = Value(t, 0, s, <<>>)
      PROVE  /\ AttributeBytes(w.enc, a) \in Seq(Bytes)
             /\ EncodeValue(w, a) = Written(w, AttributeBytes(w.enc, a))
  <2>1. a.t = t /\ a.s = s
    BY <1>3 DEF Value
  <2>2. AttributeBytes(w.enc, a) = TextBytes(w.enc, s) /\ EncodeValue(w, a) = EncodeText(w, s)
    BY <2>1, Tags DEF AttributeBytes, EncodeValue
  <2>3. /\ TextBytes(w.enc, s) \in Seq(Bytes)
        /\ \A b \in Buffers : Ok(b) /\ b.enc = w.enc => EncodeText(b, s) = Written(b, TextBytes(w.enc, s))
    BY <1>3, TextIs
  <2>4. QED
    BY <2>2, <2>3
<1>4. ASSUME NEW t \in {"Time", "FineTime"}, NEW n \in Instants, a = Value(t, n, <<>>, <<>>)
      PROVE  /\ AttributeBytes(w.enc, a) \in Seq(Bytes)
             /\ EncodeValue(w, a) = Written(w, AttributeBytes(w.enc, a))
  <2>1. a.t = t /\ a.n = n /\ t # "Boolean" /\ t \notin Texts
    BY <1>4, Tags DEF Value
  <2>2. AttributeBytes(w.enc, a) = TimeBytes(t, n) /\ EncodeValue(w, a) = EncodeTime(w, t, n)
    BY <2>1 DEF AttributeBytes, EncodeValue
  <2>3. QED
    BY <2>2, PartsCoded, TimeWritten
<1>5. QED
  BY <1>1, <1>2, <1>3, <1>4 DEF Sendable

LEMMA AttributeRead ==
  ASSUME NEW a, Sendable(a), NEW b, InBuffer(b.enc, a), Upcoming(b, AttributeBytes(b.enc, a))
  PROVE  DecodeValue(b, a.t) = Result(Moved(b, Len(AttributeBytes(b.enc, a))), Received(a))
<1> DEFINE k == Len(AttributeBytes(b.enc, a))
<1>1. Ok(Moved(b, k))
  BY DEF Upcoming, Ok, Moved
<1>2. ASSUME NEW n \in {0, 1}, a = Value("Boolean", n, <<>>, <<>>)
      PROVE  DecodeValue(b, a.t) = Result(Moved(b, k), Received(a))
  <2>1. a.t = "Boolean" /\ a.n = n /\ b.enc # "split"
    BY <1>2 DEF Value, InBuffer
  <2>2. AttributeBytes(b.enc, a) = BigEndian(n, 1)
    BY <2>1, Tags DEF AttributeBytes
  <2>3. k = 1 /\ n % Size[1] = n /\ n \in Int /\ 1 \in Nat
    BY <2>2, OneByte
  <2>4. ReadFixed(b, 1) = Result(Moved(b, 1), n)
    BY <2>2, <2>3, FixedRead
  <2>5. ReadFlag(b) = Result(Moved(b, 1), n = 1)
    BY <2>1, <2>4 DEF ReadFlag, Flag, Result
  <2>6. Received(a) = a
    BY <2>1, <1>2 DEF Received, Kept, Value
  <2>7. (IF n = 1 THEN 1 ELSE 0) = n
    OBVIOUS
  <2>8. DecodeValue(b, a.t) = ValueOf("Boolean", Result(Moved(b, 1), n = 1))
    BY <2>1, <2>5, Tags DEF DecodeValue
  <2>9. ValueOf("Boolean", Result(Moved(b, 1), n = 1)) = Result(Moved(b, 1), Value("Boolean", n, <<>>, <<>>))
    BY <1>1, <2>3, <2>7, Tags DEF ValueOf, Result
  <2>10. QED
    BY <1>2, <2>3, <2>6, <2>8, <2>9
<1>3. ASSUME NEW t \in NumberTypes, NEW n \in NumbersOf(t), a = Value(t, n, <<>>, <<>>)
      PROVE  DecodeValue(b, a.t) = Result(Moved(b, k), Received(a))
  <2>1. a.t = t /\ a.n = n
    BY <1>3 DEF Value
  <2>2. AttributeBytes(b.enc, a) = NumberBytes(b.enc, t, n)
    BY <2>1, Tags DEF AttributeBytes
  <2>3. DecodeNumber(b, t) = Result(Moved(b, k), n)
    BY <2>2, NumberRead
  <2>4. Received(a) = a
    BY <2>1, <1>3, Tags DEF Received, Kept, Value
  <2>5. DecodeValue(b, a.t) = ValueOf(t, Result(Moved(b, k), n))
    BY <2>1, <2>3, Tags DEF DecodeValue
  <2>6. ValueOf(t, Result(Moved(b, k), n)) = Result(Moved(b, k), Value(t, n, <<>>, <<>>))
    BY <1>1, Tags DEF ValueOf, Result
  <2>7. QED
    BY <1>3, <2>4, <2>5, <2>6
<1>4. ASSUME NEW t \in Texts, NEW s \in Seq(Bytes), Len(s) \in Lengths, a = Value(t, 0, s, <<>>)
      PROVE  DecodeValue(b, a.t) = Result(Moved(b, k), Received(a))
  <2>1. a.t = t /\ a.s = s
    BY <1>4 DEF Value
  <2>2. AttributeBytes(b.enc, a) = TextBytes(b.enc, s)
    BY <2>1, Tags DEF AttributeBytes
  <2>3. \A c : c.enc = b.enc /\ Upcoming(c, TextBytes(b.enc, s))
                 => DecodeText(c) = Result(Moved(c, Len(TextBytes(b.enc, s))), s)
    BY <1>4, TextIs
  <2>4. DecodeText(b) = Result(Moved(b, k), s)
    BY <2>2, <2>3
  <2>5. Received(a) = a
    BY <2>1, <1>4, Tags DEF Received, Kept, Value
  <2>6. DecodeValue(b, a.t) = ValueOf(t, Result(Moved(b, k), s))
    BY <2>1, <2>4, Tags DEF DecodeValue
  <2>7. ValueOf(t, Result(Moved(b, k), s)) = Result(Moved(b, k), Value(t, 0, s, <<>>))
    BY <1>1, Tags DEF ValueOf, Result
  <2>8. QED
    BY <1>4, <2>5, <2>6, <2>7
<1>5. ASSUME NEW t \in {"Time", "FineTime"}, NEW n \in Instants, a = Value(t, n, <<>>, <<>>)
      PROVE  DecodeValue(b, a.t) = Result(Moved(b, k), Received(a))
  <2>1. a.t = t /\ a.n = n /\ t # "Boolean" /\ t \notin Texts
    BY <1>5, Tags DEF Value
  <2>2. AttributeBytes(b.enc, a) = TimeBytes(t, n)
    BY <2>1 DEF AttributeBytes
  <2>3. DecodeTime(b, t) = Result(Moved(b, k), Kept(t, n))
    BY <2>2, TimeRead
  <2>4. Received(a) = Value(t, Kept(t, n), <<>>, <<>>)
    BY <2>1, <1>5 DEF Received, Value
  <2>5. DecodeValue(b, a.t) = ValueOf(t, Result(Moved(b, k), Kept(t, n)))
    BY <2>1, <2>3 DEF DecodeValue
  <2>6. ValueOf(t, Result(Moved(b, k), Kept(t, n))) = Result(Moved(b, k), Value(t, Kept(t, n), <<>>, <<>>))
    BY <1>1, <2>1 DEF ValueOf, Result
  <2>7. QED
    BY <2>4, <2>5, <2>6
<1>6. QED
  BY <1>2, <1>3, <1>4, <1>5 DEF Sendable

-----------------------------------------------------------------------------
(* An encoder on its way, and a decoder that follows it. *)

\* Bitfield_len is the position of the last true flag.
Writing(w) ==
  /\ w \in Buffers /\ Ok(w) /\ w.idx = Len(w.bits) /\ w.blen <= Len(w.bits)
  /\ \A i \in 1 .. Len(w.bits) : w.bits[i] => i <= w.blen

\* z holds what w holds, and more.
Precedes(w, z) ==
  /\ w.enc = z.enc /\ Len(w.buf) <= Len(z.buf) /\ Len(w.bits) <= Len(z.bits)
  /\ \A i \in 1 .. Len(w.buf) : w.buf[i] = z.buf[i]
  /\ \A i \in 1 .. Len(w.bits) : w.bits[i] = z.bits[i]

\* b decodes what z encoded, and is where the encoder was at w.
Reading(b, w, z) ==
  /\ b \in Buffers /\ Ok(b) /\ b.enc = z.enc
  /\ b.buf = FlagBytes(z) \o z.buf /\ b.offset = Len(FlagBytes(z)) + Len(w.buf)
  /\ z.enc = "split" => /\ b.blen = FieldBytes(z) * Bits /\ b.bits = Field(z)
                        /\ b.idx = IF Len(w.bits) <= b.blen THEN Len(w.bits) ELSE b.blen

LEMMA PrecedesTwice ==
  ASSUME NEW u \in Buffers, NEW w \in Buffers, NEW z \in Buffers, Precedes(u, w), Precedes(w, z)
  PROVE  Precedes(u, z)
<1>1. /\ Len(u.buf) \in Nat /\ Len(w.buf) \in Nat /\ Len(z.buf) \in Nat
      /\ Len(u.bits) \in Nat /\ Len(w.bits) \in Nat /\ Len(z.bits) \in Nat
  BY SMTT(30) DEF Buffers
<1>2. /\ u.enc = z.enc /\ Len(u.buf) <= Len(z.buf) /\ Len(u.bits) <= Len(z.bits)
  BY <1>1 DEF Precedes
<1>3. ASSUME NEW i \in 1 .. Len(u.buf) PROVE u.buf[i] = z.buf[i]
  <2>1. i \in 1 .. Len(w.buf)
    BY <1>1 DEF Precedes
  <2>2. QED
    BY <2>1 DEF Precedes
<1>4. ASSUME NEW i \in 1 .. Len(u.bits) PROVE u.bits[i] = z.bits[i]
  <2>1. i \in 1 .. Len(w.bits)
    BY <1>1 DEF Precedes
  <2>2. QED
    BY <2>1 DEF Precedes
<1>5. QED
  BY <1>2, <1>3, <1>4 DEF Precedes

\* A flag of the split encoding.
WithFlag(w, n) ==
  [w EXCEPT !.bits = Append(@, n = 1), !.idx = @ + 1, !.blen = IF n = 1 THEN w.idx + 1 ELSE @]

LEMMA FlagWritten ==
  ASSUME NEW w, Writing(w), w.enc = "split", NEW n \in {0, 1}, NEW a, a = Value("Boolean", n, <<>>, <<>>)
  PROVE  /\ EncodeValue(w, a) = WithFlag(w, n)
         /\ Writing(WithFlag(w, n)) /\ Precedes(w, WithFlag(w, n))
         /\ Len(WithFlag(w, n).bits) = Len(w.bits) + 1 /\ WithFlag(w, n).bits[Len(w.bits) + 1] = (n = 1)
         /\ WithFlag(w, n).buf = w.buf
<1>1. a.t = "Boolean" /\ a.n = n /\ Ok(w)
  BY DEF Value, Writing
<1>2. EncodeValue(w, a) = WriteFlag(w, n = 1)
  BY <1>1, Tags DEF EncodeValue
<1>3. EncodeValue(w, a) = WithFlag(w, n)
  BY <1>1, <1>2 DEF WriteFlag, WithFlag
<1> DEFINE x == WithFlag(w, n)
           l == Len(w.bits)
<1>4. /\ w \in Buffers /\ l \in Nat /\ w.bits \in Seq(BOOLEAN) /\ (n = 1) \in BOOLEAN /\ w.idx = l /\ w.blen <= l
      /\ w.blen \in Nat /\ w.idx \in Nat
  BY DEF Writing, Buffers
<1>5. Append(w.bits, n = 1) \in Seq(BOOLEAN) /\ Len(Append(w.bits, n = 1)) = l + 1
      /\ Append(w.bits, n = 1)[l + 1] = (n = 1) /\ \A i \in 1 .. l : Append(w.bits, n = 1)[i] = w.bits[i]
  BY <1>4
<1>6. /\ x.bits = Append(w.bits, n = 1) /\ x.idx = l + 1 /\ x.blen = (IF n = 1 THEN l + 1 ELSE w.blen)
      /\ x.buf = w.buf /\ x.enc = w.enc /\ x.st = w.st /\ x.offset = w.offset
  BY <1>4 DEF WithFlag, Buffers
<1>7. x \in Buffers
  <2> DEFINE bits == Append(w.bits, n = 1)
             blen == IF n = 1 THEN w.idx + 1 ELSE w.blen
  <2>1. bits \in Seq(BOOLEAN) /\ blen \in Nat /\ w.idx + 1 \in Nat
    BY <1>4, <1>5
  <2>2. x = [w EXCEPT !.bits = bits, !.idx = w.idx + 1, !.blen = blen]
    BY DEF WithFlag
  <2> HIDE DEF bits, blen, x
  <2>3. QED
    BY <1>4, <2>1, <2>2 DEF Buffers
<1> HIDE DEF x
<1>8. Ok(x)
  BY <1>1, <1>6 DEF Ok
<1>9. x.idx = Len(x.bits) /\ x.blen <= Len(x.bits)
  BY <1>4, <1>5, <1>6
<1>10. ASSUME NEW i \in 1 .. Len(x.bits), x.bits[i] PROVE i <= x.blen
  <2>1. CASE i = l + 1
    <3>1. n = 1
      BY <1>5, <1>6, <1>10, <2>1
    <3>2. QED
      BY <1>6, <2>1, <3>1
  <2>2. CASE i # l + 1
    <3>1. i \in 1 .. l
      BY <1>4, <1>5, <1>6, <2>2
    <3>2. w.bits[i]
      BY <1>5, <1>6, <1>10, <3>1
    <3>3. i <= w.blen
      BY <3>1, <3>2 DEF Writing
    <3>4. QED
      BY <1>4, <1>6, <3>1, <3>3
  <2>3. QED
    BY <2>1, <2>2
<1>11. Writing(x)
  BY <1>7, <1>8, <1>9, <1>10 DEF Writing
<1>12. Precedes(w, x)
  <2>1. Len(w.buf) <= Len(x.buf)
    BY <1>4, <1>6 DEF Buffers
  <2>2. Len(w.bits) <= Len(x.bits)
    BY <1>4, <1>5, <1>6
  <2>3. QED
    BY <1>5, <1>6, <2>1, <2>2 DEF Precedes
<1>13. QED
  BY <1>3, <1>5, <1>6, <1>11, <1>12 DEF x

LEMMA StepWritten ==
  ASSUME NEW w, Writing(w), NEW a, Sendable(a)
  PROVE  /\ Writing(EncodeValue(w, a)) /\ Precedes(w, EncodeValue(w, a))
         /\ Len(EncodeValue(w, a).bits) <= Len(w.bits) + 1
<1>1. w \in Buffers /\ Ok(w) /\ Len(w.bits) \in Nat
  BY DEF Writing, Buffers
<1>2. CASE InBuffer(w.enc, a)
  <2> DEFINE s == AttributeBytes(w.enc, a)
             x == Written(w, s)
  <2>1. s \in Seq(Bytes) /\ EncodeValue(w, a) = x
    BY <1>1, <1>2, AttributeWritten
  <2>2. /\ x \in Buffers /\ x.buf = w.buf \o s /\ x.enc = w.enc /\ x.st = w.st
        /\ x.bits = w.bits /\ x.idx = w.idx /\ x.blen = w.blen
    BY <1>1, <2>1, WrittenIs
  <2> HIDE DEF x, s
  <2>3. Writing(x)
    BY <2>2 DEF Writing, Ok
  <2>4. /\ w.buf \in Seq(Bytes) /\ Len(w.buf \o s) = Len(w.buf) + Len(s) /\ Len(w.buf) \in Nat /\ Len(s) \in Nat
        /\ \A i \in 1 .. Len(w.buf) : (w.buf \o s)[i] = w.buf[i]
    BY <1>1, <2>1 DEF Buffers
  <2>5. Precedes(w, x)
    BY <1>1, <2>2, <2>4 DEF Precedes
  <2>6. QED
    BY <1>1, <2>1, <2>2, <2>3, <2>5
<1>3. CASE ~InBuffer(w.enc, a)
  <2>1. a.t = "Boolean" /\ w.enc = "split"
    BY <1>3 DEF InBuffer
  <2>2. PICK n \in {0, 1} : a = Value("Boolean", n, <<>>, <<>>)
    BY <2>1, Tags DEF Sendable, Value
  <2>3. QED
    BY <1>1, <2>1, <2>2, FlagWritten
<1>4. QED
  BY <1>2, <1>3

\* What is read of a value in the buffer.
LEMMA BufferRead ==
  ASSUME NEW w, Writing(w), NEW z, Writing(z), NEW a, Sendable(a), InBuffer(w.enc, a),
         Precedes(EncodeValue(w, a), z), FlagBytes(z) \in Seq(Bytes), NEW b, Reading(b, w, z)
  PROVE  /\ DecodeValue(b, a.t).v = Received(a)
         /\ Reading(DecodeValue(b, a.t).b, EncodeValue(w, a), z)
<1> DEFINE s == AttributeBytes(w.enc, a)
           x == Written(w, s)
           front == FlagBytes(z)
           f == Len(front)
           l == Len(w.buf)
<1>1. w \in Buffers /\ Ok(w) /\ z \in Buffers
  BY DEF Writing
<1>2. s \in Seq(Bytes) /\ EncodeValue(w, a) = x
  BY <1>1, AttributeWritten
<1>3. x.buf = w.buf \o s /\ x.enc = w.enc /\ x.bits = w.bits
  BY <1>1, <1>2, WrittenIs
<1>4. Precedes(x, z) /\ front \in Seq(Bytes)
  BY <1>2
<1>5. b \in Buffers /\ Ok(b) /\ b.enc = w.enc /\ b.buf = front \o z.buf /\ b.offset = f + l /\ b.enc = z.enc
  BY <1>3, <1>4 DEF Precedes, Reading
<1> HIDE DEF x, s, front
<1>6. /\ w.buf \in Seq(Bytes) /\ z.buf \in Seq(Bytes) /\ f \in Nat /\ l \in Nat /\ Len(s) \in Nat
      /\ Len(z.buf) \in Nat /\ Len(x.buf) = l + Len(s)
      /\ \A i \in 1 .. Len(s) : x.buf[l + i] = s[i]
      /\ Len(b.buf) = f + Len(z.buf)
      /\ \A i \in 1 .. Len(z.buf) : b.buf[f + i] = z.buf[i]
  <2>1. /\ w.buf \in Seq(Bytes) /\ z.buf \in Seq(Bytes)
    BY <1>1 DEF Buffers
  <2>2. /\ l \in Nat /\ Len(s) \in Nat /\ Len(x.buf) = l + Len(s)
        /\ \A i \in 1 .. Len(s) : x.buf[l + i] = s[i]
    BY <1>2, <1>3, <2>1
  <2>3. /\ f \in Nat /\ Len(z.buf) \in Nat /\ Len(b.buf) = f + Len(z.buf)
        /\ \A i \in 1 .. Len(z.buf) : b.buf[f + i] = z.buf[i]
    BY <1>4, <1>5, <2>1
  <2>4. QED
    BY <2>1, <2>2, <2>3
<1>7. l + Len(s) <= Len(z.buf)
  BY <1>4, <1>6 DEF Precedes
<1>8. ASSUME NEW i \in 1 .. Len(s) PROVE b.buf[b.offset + i] = s[i]
  <2>1. l + i \in 1 .. Len(z.buf) /\ l + i \in 1 .. Len(x.buf) /\ b.offset + i = f + (l + i)
    BY <1>5, <1>6, <1>7
  <2>2. z.buf[l + i] = x.buf[l + i]
    BY <1>4, <2>1 DEF Precedes
  <2>3. QED
    BY <1>6, <2>1, <2>2
<1>9. Upcoming(b, s)
  <2>1. b.offset + Len(s) <= Len(b.buf)
    BY <1>5, <1>6, <1>7
  <2>2. QED
    BY <1>2, <1>5, <1>8, <2>1 DEF Upcoming
<1> DEFINE c == Moved(b, Len(s))
<1>10. DecodeValue(b, a.t) = Result(c, Received(a))
  <2>1. InBuffer(b.enc, a) /\ Upcoming(b, AttributeBytes(b.enc, a))
    BY <1>5, <1>9 DEF s
  <2>2. DecodeValue(b, a.t) = Result(Moved(b, Len(AttributeBytes(b.enc, a))), Received(a))
    BY <2>1, AttributeRead
  <2>3. QED
    BY <1>5, <2>2 DEF s
<1>11. /\ c \in Buffers /\ c.offset = b.offset + Len(s) /\ c.enc = b.enc /\ c.buf = b.buf /\ c.st = b.st
       /\ c.bits = b.bits /\ c.idx = b.idx /\ c.blen = b.blen
  BY <1>5, <1>6, MovedIs
<1> HIDE DEF c
<1>12. c.offset = f + Len(x.buf)
  BY <1>5, <1>6, <1>11
<1>13. Reading(c, x, z)
  <2>1. Ok(c)
    BY <1>5, <1>11 DEF Ok
  <2>2. z.enc = "split" => /\ c.blen = FieldBytes(z) * Bits /\ c.bits = Field(z)
                           /\ c.idx = IF Len(x.bits) <= c.blen THEN Len(x.bits) ELSE c.blen
    BY <1>3, <1>11 DEF Reading
  <2>3. QED
    BY <1>5, <1>11, <1>12, <2>1, <2>2 DEF Reading, front
<1>14. QED
  BY <1>2, <1>10, <1>13 DEF Result

\* What is read of a flag of the split encoding: after the field all are false.
LEMMA FlagRead ==
  ASSUME NEW w, Writing(w), w.enc = "split", NEW z, Writing(z), NEW n \in {0, 1}, NEW a,
         a = Value("Boolean", n, <<>>, <<>>), Precedes(WithFlag(w, n), z), NEW b, Reading(b, w, z)
  PROVE  /\ DecodeValue(b, a.t).v = Received(a)
         /\ Reading(DecodeValue(b, a.t).b, WithFlag(w, n), z)
<1> DEFINE x == WithFlag(w, n)
           l == Len(w.bits)
<1>1. /\ Writing(x) /\ Precedes(w, x) /\ Len(x.bits) = l + 1 /\ x.bits[l + 1] = (n = 1) /\ x.buf = w.buf
  BY FlagWritten
<1> HIDE DEF x
<1>2. w \in Buffers /\ z \in Buffers /\ l \in Nat /\ Len(z.bits) \in Nat /\ z.blen \in Nat /\ x \in Buffers
  BY <1>1 DEF Writing, Buffers
<1>3. Precedes(x, z) /\ z.enc = "split"
  BY <1>1 DEF Precedes, x
<1>4. l + 1 <= Len(z.bits) /\ z.bits[l + 1] = (n = 1)
  <2>1. l + 1 <= Len(z.bits) /\ l + 1 \in 1 .. Len(x.bits)
    BY <1>1, <1>2, <1>3 DEF Precedes
  <2>2. x.bits[l + 1] = z.bits[l + 1]
    BY <1>3, <2>1 DEF Precedes
  <2>3. QED
    BY <1>1, <2>1, <2>2
<1>5. l + 1 \in 1 .. Len(z.bits)
  BY <1>2, <1>4
<1>6. n = 1 => l + 1 <= z.blen
  BY <1>4, <1>5 DEF Writing
<1>7. z.blen <= FieldBytes(z) * Bits /\ FieldBytes(z) * Bits \in Nat
  BY <1>2, PackedBytes, FieldIs
<1>8. /\ b \in Buffers /\ Ok(b) /\ b.enc = "split" /\ b.blen = FieldBytes(z) * Bits /\ b.bits = Field(z)
      /\ b.idx = (IF l <= b.blen THEN l ELSE b.blen) /\ b.idx \in Nat /\ b.blen \in Nat
  BY <1>3 DEF Reading, Buffers
<1>9. a.t = "Boolean" /\ Received(a) = a
  BY DEF Received, Kept, Value
<1>10. ASSUME NEW c, Ok(c), ReadFlag(b) = Result(c, n = 1)
       PROVE  DecodeValue(b, a.t).v = Received(a) /\ DecodeValue(b, a.t).b = c
  <2>1. DecodeValue(b, a.t) = ValueOf("Boolean", Result(c, n = 1))
    BY <1>9, <1>10, Tags DEF DecodeValue
  <2>2. (IF n = 1 THEN 1 ELSE 0) = n
    OBVIOUS
  <2>3. ValueOf("Boolean", Result(c, n = 1)) = Result(c, Value("Boolean", n, <<>>, <<>>))
    BY <1>10, <2>2, Tags DEF ValueOf, Result
  <2>4. QED
    BY <1>9, <2>1, <2>3 DEF Result
<1>11. CASE b.idx >= b.blen
  <2>1. l >= b.blen /\ b.idx = b.blen
    BY <1>2, <1>8, <1>11
  <2>2. n = 0
    BY <1>2, <1>6, <1>7, <1>8, <2>1
  <2>3. ReadFlag(b) = Result(b, FALSE)
    BY <1>8, <1>11 DEF ReadFlag
  <2>4. (n = 1) = FALSE
    BY <2>2
  <2>5. DecodeValue(b, a.t).v = Received(a) /\ DecodeValue(b, a.t).b = b
    BY <1>8, <1>10, <2>3, <2>4
  <2>6. b.idx = IF Len(x.bits) <= b.blen THEN Len(x.bits) ELSE b.blen
    BY <1>1, <1>2, <1>8, <2>1
  <2>7. Reading(b, x, z)
    BY <1>1, <2>6 DEF Reading
  <2>8. QED
    BY <2>5, <2>7 DEF x
<1>12. CASE ~(b.idx >= b.blen)
  <2> DEFINE c == [b EXCEPT !.idx = @ + 1]
  <2>1. b.idx = l /\ l < b.blen
    BY <1>2, <1>8, <1>12
  <2>2. ReadFlag(b) = Result(c, b.bits[l + 1])
    BY <1>8, <1>12, <2>1 DEF ReadFlag
  <2>3. b.bits[l + 1] = (n = 1)
    <3>1. l + 1 \in 1 .. FieldBytes(z) * Bits
      BY <1>2, <1>7, <1>8, <2>1
    <3>2. Field(z)[l + 1] = (l + 1 <= Len(z.bits) /\ z.bits[l + 1])
      BY <3>1 DEF Field
    <3>3. QED
      BY <1>4, <1>8, <3>2
  <2>4. /\ c \in Buffers /\ c.st = b.st /\ c.enc = b.enc /\ c.buf = b.buf /\ c.offset = b.offset
        /\ c.idx = b.idx + 1 /\ c.blen = b.blen /\ c.bits = b.bits
    <3>1. b \in Buffers /\ b.idx + 1 \in Nat
      BY <1>8
    <3>2. c \in Buffers
      BY <3>1 DEF Buffers
    <3>3. /\ c.st = b.st /\ c.enc = b.enc /\ c.buf = b.buf /\ c.offset = b.offset
          /\ c.idx = b.idx + 1 /\ c.blen = b.blen /\ c.bits = b.bits
      BY <3>1 DEF Buffers
    <3>4. QED
      BY <3>2, <3>3
  <2> HIDE DEF c
  <2>5. Ok(c)
    BY <1>8, <2>4 DEF Ok
  <2>6. DecodeValue(b, a.t).v = Received(a) /\ DecodeValue(b, a.t).b = c
    BY <1>10, <2>2, <2>3, <2>5
  <2>7. c.idx = IF Len(x.bits) <= c.blen THEN Len(x.bits) ELSE c.blen
    BY <1>1, <1>2, <1>8, <2>1, <2>4
  <2>8. Reading(c, x, z)
    BY <1>1, <2>4, <2>5, <2>7 DEF Reading
  <2>9. QED
    BY <2>6, <2>8 DEF x
<1>13. QED
  BY <1>11, <1>12

LEMMA StepRead ==
  ASSUME NEW w, Writing(w), NEW z, Writing(z), NEW a, Sendable(a), Precedes(EncodeValue(w, a), z),
         FlagBytes(z) \in Seq(Bytes), NEW b, Reading(b, w, z)
  PROVE  /\ DecodeValue(b, a.t).v = Received(a)
         /\ Reading(DecodeValue(b, a.t).b, EncodeValue(w, a), z)
<1>1. CASE InBuffer(w.enc, a)
  BY <1>1, BufferRead
<1>2. CASE ~InBuffer(w.enc, a)
  <2>1. a.t = "Boolean" /\ w.enc = "split"
    BY <1>2 DEF InBuffer
  <2>2. PICK n \in {0, 1} : a = Value("Boolean", n, <<>>, <<>>)
    BY <2>1, Tags DEF Sendable, Value
  <2>3. EncodeValue(w, a) = WithFlag(w, n)
    BY <2>1, <2>2, FlagWritten
  <2>4. QED
    BY <2>1, <2>2, <2>3, FlagRead
<1>3. QED
  BY <1>1, <1>2

-----------------------------------------------------------------------------
(* The values of a message. *)

\* w[i] is the encoder after i values.
Encodes(w, enc, attrs, k) ==
  w[0] = NewBuffer(enc, <<>>) /\ \A i \in 1 .. k : w[i] = EncodeValue(w[i - 1], attrs[i])

\* r[i] is the decoder of the bytes after i values, each read as the type that was sent.
Decodes(r, enc, bytes, attrs, k) ==
  r[0] = NewDecoder(enc, bytes) /\ \A i \in 1 .. k : r[i] = DecodeValue(r[i - 1], attrs[i].t).b

LEMMA EncoderWrites ==
  ASSUME NEW enc \in Encodings, NEW k \in Nat, NEW attrs, \A i \in 1 .. k : Sendable(attrs[i]),
         NEW w, Encodes(w, enc, attrs, k)
  PROVE  /\ \A i \in 0 .. k : Writing(w[i]) /\ w[i].enc = enc /\ Len(w[i].bits) <= i
         /\ \A i \in 1 .. k : Precedes(w[i - 1], w[i])
<1> DEFINE Good(i) == Writing(w[i]) /\ w[i].enc = enc /\ Len(w[i].bits) <= i
           S == {i \in Nat : i <= k => Good(i) /\ (i # 0 => Precedes(w[i - 1], w[i]))}
<1>1. ASSUME NEW i \in Nat, \A m \in 0 .. i - 1 : m \in S PROVE i \in S
  <2>1. CASE i = 0
    <3>1. w[0] = [enc |-> enc, buf |-> <<>>, offset |-> 0, bits |-> <<>>, idx |-> 0, blen |-> 0, st |-> "ok"]
      BY DEF Encodes, NewBuffer
    <3>2. w[0] \in Buffers /\ Ok(w[0]) /\ Len(w[0].bits) = 0 /\ w[0].enc = enc /\ w[0].idx = 0 /\ w[0].blen = 0
      BY <3>1 DEF Buffers, Ok
    <3>3. Good(0)
      BY <3>2 DEF Writing
    <3>4. QED
      BY <2>1, <3>3
  <2>2. CASE i # 0 /\ i <= k
    <3>1. i \in 1 .. k /\ i - 1 \in 0 .. i - 1 /\ i - 1 \in Nat /\ i - 1 <= k
      BY <2>2
    <3>2. Good(i - 1) /\ w[i] = EncodeValue(w[i - 1], attrs[i]) /\ Sendable(attrs[i])
      BY <1>1, <3>1 DEF Encodes
    <3>3. Writing(w[i]) /\ Precedes(w[i - 1], w[i]) /\ Len(w[i].bits) <= Len(w[i - 1].bits) + 1
      BY <3>2, StepWritten
    <3>4. w[i].enc = enc
      BY <3>2, <3>3 DEF Precedes
    <3>5. Len(w[i].bits) <= i
      <4>1. Len(w[i - 1].bits) \in Nat /\ Len(w[i].bits) \in Nat
        BY <3>2, <3>3 DEF Writing, Buffers
      <4>2. QED
        BY <3>2, <3>3, <4>1
    <3>6. QED
      BY <3>3, <3>4, <3>5
  <2>3. QED
    BY <2>1, <2>2
<1>2. Nat \subseteq S
  <2> HIDE DEF S
  <2>1. QED
    BY <1>1, Induction
<1>3. QED
  BY <1>2

LEMMA AllPrecede ==
  ASSUME NEW k \in Nat, NEW w, \A i \in 0 .. k : w[i] \in Buffers,
         \A i \in 1 .. k : Precedes(w[i - 1], w[i])
  PROVE  \A i \in 0 .. k : Precedes(w[i], w[k])
<1> DEFINE S == {j \in Nat : j <= k => Precedes(w[k - j], w[k])}
<1>1. ASSUME NEW j \in Nat, \A m \in 0 .. j - 1 : m \in S PROVE j \in S
  <2>1. CASE j = 0
    <3>1. k \in 0 .. k /\ k - j = k
      BY <2>1
    <3>2. Len(w[k].buf) \in Nat /\ Len(w[k].bits) \in Nat
      BY <3>1 DEF Buffers
    <3>3. QED
      BY <3>1, <3>2 DEF Precedes
  <2>2. CASE j # 0 /\ j <= k
    <3>1. /\ j - 1 \in 0 .. j - 1 /\ j - 1 \in Nat /\ j - 1 <= k /\ k - (j - 1) \in 1 .. k
          /\ (k - (j - 1)) - 1 = k - j
      BY <2>2
    <3>2. Precedes(w[k - (j - 1)], w[k]) /\ Precedes(w[k - j], w[k - (j - 1)])
      BY <1>1, <3>1
    <3>3. w[k] \in Buffers /\ w[k - j] \in Buffers /\ w[k - (j - 1)] \in Buffers
      BY <2>2, <3>1
    <3>4. QED
      BY <3>2, <3>3, PrecedesTwice
  <2>3. QED
    BY <2>1, <2>2
<1>2. Nat \subseteq S
  <2> HIDE DEF S
  <2>1. QED
    BY <1>1, Induction
<1>3. ASSUME NEW i \in 0 .. k PROVE Precedes(w[i], w[k])
  <2>1. k - i \in Nat /\ k - i <= k /\ k - (k - i) = i
    OBVIOUS
  <2>2. QED
    BY <1>2, <2>1
<1>4. QED
  BY <1>3

\* A field has no more bytes than there are flags.
LEMMA FieldShort ==
  ASSUME NEW z, Writing(z)
  PROVE  FieldBytes(z) <= Len(z.bits)
<1>1. z.blen \in Nat /\ z.blen <= Len(z.bits) /\ Len(z.bits) \in Nat /\ Bits \in Nat \ {0}
  BY WidthAssumption DEF Writing, Buffers
<1>2. CASE z.blen = 0
  BY <1>1, <1>2 DEF FieldBytes
<1>3. CASE z.blen # 0
  <2>1. z.blen - 1 \in Nat
    BY <1>1, <1>3
  <2>2. \A n \in Nat : n \div Bits \in Nat /\ n \div Bits <= n
    BY <1>1, Division
  <2>3. (z.blen - 1) \div Bits \in Nat /\ (z.blen - 1) \div Bits <= z.blen - 1
    BY <2>1, <2>2
  <2>4. FieldBytes(z) = (z.blen - 1) \div Bits + 1
    BY <1>3 DEF FieldBytes
  <2> DEFINE q == (z.blen - 1) \div Bits
  <2>5. q \in Nat /\ q <= z.blen - 1 /\ FieldBytes(z) = q + 1
    BY <2>3, <2>4
  <2> HIDE DEF q
  <2>6. QED
    BY <1>1, <2>5
<1>4. QED
  BY <1>2, <1>3

\* Whatever attributes a message carries, in each of the three encodings and for
\* every width of the numbers, the decoder reads from the bytes of the encoder
\* the values that were encoded, in their order, a Time without what is below a
\* millisecond, reports no error and leaves no byte: what one value takes never
\* moves the reading of the next, nor do the flags that the split encoding keeps
\* elsewhere.  (The Encode and Decode methods of the three encodings.)
THEOREM RoundTrip ==
  ASSUME NEW enc \in Encodings,
         NEW k \in Nat, k < Size[LongBytes],
         NEW attrs, \A i \in 1 .. k : Sendable(attrs[i]),
         NEW w, Encodes(w, enc, attrs, k),
         NEW r, Decodes(r, enc, Body(w[k]), attrs, k)
  PROVE  /\ \A i \in 1 .. k : DecodeValue(r[i - 1], attrs[i].t).v = Received(attrs[i])
         /\ Ok(w[k]) /\ Ok(r[k]) /\ Remaining(r[k]) = <<>>
<1> DEFINE z == w[k]
<1>1. /\ \A i \in 0 .. k : Writing(w[i]) /\ w[i].enc = enc /\ Len(w[i].bits) <= i
      /\ \A i \in 1 .. k : Precedes(w[i - 1], w[i])
  BY EncoderWrites
<1>2. \A i \in 0 .. k : w[i] \in Buffers
  BY <1>1 DEF Writing
<1>3. \A i \in 0 .. k : Precedes(w[i], z)
  BY <1>1, <1>2, AllPrecede
<1>4. k \in 0 .. k /\ Writing(z) /\ z \in Buffers /\ z.enc = enc /\ Len(z.bits) <= k /\ Ok(z)
  BY <1>1, <1>2 DEF Writing
<1>5. FieldBytes(z) < Size[LongBytes]
  <2>1. FieldBytes(z) <= Len(z.bits) /\ FieldBytes(z) \in Nat /\ Len(z.bits) \in Nat
    BY <1>4, FieldShort, PackedBytes DEF Buffers
  <2>2. Size[LongBytes] \in Nat
    BY WidthAssumption, SizeIs
  <2> HIDE DEF z
  <2>3. QED
    BY <1>4, <2>1, <2>2
<1>6. r[0] = NewDecoder(z.enc, Body(z))
  BY <1>4 DEF Decodes
<1>7. /\ FlagBytes(z) \in Seq(Bytes) /\ r[0] \in Buffers /\ Ok(r[0]) /\ r[0].enc = z.enc
      /\ r[0].buf = FlagBytes(z) \o z.buf /\ r[0].offset = Len(FlagBytes(z)) /\ r[0].idx = 0
      /\ z.enc = "split" => r[0].blen = FieldBytes(z) * Bits /\ r[0].bits = Field(z)
  BY <1>4, <1>5, <1>6, DecoderOpens
<1>8. Reading(r[0], w[0], z)
  <2>1. Len(w[0].buf) = 0 /\ Len(w[0].bits) = 0
    BY DEF Encodes, NewBuffer
  <2>2. Len(FlagBytes(z)) + Len(w[0].buf) = Len(FlagBytes(z)) /\ r[0].blen \in Nat
    BY <1>7, <2>1 DEF Buffers
  <2>3. r[0].idx = IF Len(w[0].bits) <= r[0].blen THEN Len(w[0].bits) ELSE r[0].blen
    BY <1>7, <2>1, <2>2
  <2>4. QED
    BY <1>7, <2>2, <2>3 DEF Reading
<1> HIDE DEF z
<1>9. ASSUME NEW i \in 1 .. k, Reading(r[i - 1], w[i - 1], z)
      PROVE  Reading(r[i], w[i], z) /\ DecodeValue(r[i - 1], attrs[i].t).v = Received(attrs[i])
  <2>1. i - 1 \in 0 .. k /\ i \in 0 .. k
    OBVIOUS
  <2>2. Writing(w[i - 1]) /\ w[i] = EncodeValue(w[i - 1], attrs[i]) /\ Precedes(w[i], z) /\ Sendable(attrs[i])
    BY <1>1, <1>3, <2>1 DEF Encodes
  <2>3. r[i] = DecodeValue(r[i - 1], attrs[i].t).b
    BY DEF Decodes
  <2>4. QED
    BY <1>4, <1>7, <1>9, <2>2, <2>3, StepRead
<1>10. \A i \in 0 .. k : Reading(r[i], w[i], z)
  <2> DEFINE S == {i \in Nat : i <= k => Reading(r[i], w[i], z)}
  <2>1. ASSUME NEW i \in Nat, \A m \in 0 .. i - 1 : m \in S PROVE i \in S
    <3>1. CASE i = 0
      BY <1>8, <3>1
    <3>2. CASE i # 0 /\ i <= k
      <4>1. i \in 1 .. k /\ i - 1 \in 0 .. i - 1 /\ i - 1 <= k
        BY <3>2
      <4>2. Reading(r[i - 1], w[i - 1], z)
        BY <2>1, <4>1
      <4>3. QED
        BY <1>9, <4>1, <4>2
    <3>3. QED
      BY <3>1, <3>2
  <2>2. Nat \subseteq S
    <3> HIDE DEF S
    <3>1. QED
      BY <2>1, Induction
  <2>3. QED
    BY <2>2
<1>11. \A i \in 1 .. k : DecodeValue(r[i - 1], attrs[i].t).v = Received(attrs[i])
  <2>1. \A i \in 1 .. k : i - 1 \in 0 .. k
    OBVIOUS
  <2>2. QED
    BY <1>9, <1>10, <2>1
<1>12. Ok(r[k]) /\ Remaining(r[k]) = <<>>
  <2> DEFINE c == r[k]
             n == Len(c.buf)
  <2>1. Reading(c, z, z)
    BY <1>4, <1>10 DEF z
  <2>2. z.buf \in Seq(Bytes) /\ c.buf = FlagBytes(z) \o z.buf /\ c.offset = Len(FlagBytes(z)) + Len(z.buf)
    BY <1>4, <2>1 DEF Reading, Buffers
  <2>3. c.offset = n /\ n \in Nat /\ c.buf \in Seq(Bytes)
    BY <1>7, <2>2
  <2>4. Remaining(c) = SubSeq(c.buf, n + 1, n)
    BY <2>3 DEF Remaining
  <2>5. \A s \in Seq(Bytes), l \in Nat : SubSeq(s, l + 1, l) = <<>>
    OBVIOUS
  <2>6. QED
    BY <2>1, <2>3, <2>4, <2>5 DEF Reading
<1>13. QED
  BY <1>4, <1>11, <1>12 DEF z

-----------------------------------------------------------------------------
(* Messages on a connection. *)

\* A whole message whose length 32 bits hold.
Messages ==
  {m \in Seq(Bytes) : Len(m) >= FixedHeaderLength /\ Len(m) < FixedHeaderLength + Size[IntegerBytes]}

LEMMA LengthField ==
  ASSUME NEW m \in Messages
  PROVE  /\ Framed(m) \in Seq(Bytes) /\ Len(Framed(m)) = Len(m)
         /\ \A rest \in Seq(Bytes) : LengthIn(Framed(m) \o rest) = Len(m)
<1> DEFINE l == Len(m)
           h == FixedHeaderLength
           o == VariableLengthOffset
           k == IntegerBytes
           length == BigEndian(l - h, k)
           f == Framed(m)
<1>1. /\ k \in Nat /\ h \in Nat /\ o \in Nat /\ o + k = h
  BY WidthAssumption DEF FixedHeaderLength, VariableLengthOffset
<1>2. m \in Seq(Bytes) /\ l \in Nat /\ l >= h /\ l < h + Size[k] /\ Size[k] \in Nat \ {0}
  BY <1>1, SizeIs DEF Messages
<1>3. f = [i \in 1 .. l |-> IF i - o \in 1 .. k THEN length[i - o] ELSE m[i]]
  BY <1>2 DEF Framed
<1> HIDE DEF f, h, o
<1>4. l - h \in 0 .. Size[k] - 1 /\ l - h \in Int
  BY <1>1, <1>2
<1>5. length \in Seq(Bytes) /\ Len(length) = k /\ Number(length) = (l - h) % Size[k]
  BY <1>1, <1>4, BigEndianRead
<1>6. (l - h) % Size[k] = l - h
  <2> DEFINE r == l - h
             d == Size[k]
  <2>1. r \in 0 .. d - 1 /\ d \in Nat \ {0}
    BY <1>2, <1>4
  <2> HIDE DEF r, d
  <2>2. r % d = r
    BY <2>1, SmallDivision
  <2>3. QED
    BY <2>2 DEF r, d
<1> HIDE DEF length
<1>7. f \in Seq(Bytes) /\ Len(f) = l
  <2>1. \A i \in 1 .. l : (IF i - o \in 1 .. k THEN length[i - o] ELSE m[i]) \in Bytes
    BY <1>2, <1>5
  <2>2. f \in [1 .. l -> Bytes]
    BY <1>3, <2>1
  <2>3. QED
    BY <1>2, <2>2
<1>8. ASSUME NEW rest \in Seq(Bytes) PROVE LengthIn(f \o rest) = l
  <2> DEFINE s == f \o rest
             t == SubSeq(s, o + 1, o + k)
  <2>1. s \in Seq(Bytes) /\ Len(s) = l + Len(rest) /\ Len(rest) \in Nat /\ \A i \in 1 .. l : s[i] = f[i]
    BY <1>2, <1>7
  <2> HIDE DEF s
  <2>2. o + k <= Len(s) /\ o + k <= l
    BY <1>1, <1>2, <2>1
  <2>3. t \in Seq(Bytes) /\ Len(t) = k /\ \A i \in 1 .. k : t[i] = s[o + i]
    BY <1>1, <2>1, <2>2
  <2>4. ASSUME NEW i \in 1 .. k PROVE t[i] = length[i]
    <3>1. o + i \in 1 .. l /\ (o + i) - o = i
      BY <1>1, <1>2, <2>2
    <3>2. t[i] = f[o + i]
      BY <2>1, <2>3, <3>1
    <3>3. QED
      BY <1>3, <3>1, <3>2
  <2>5. t = length
    <3>1. t = [i \in 1 .. k |-> t[i]] /\ length = [i \in 1 .. k |-> length[i]]
      BY <1>5, <2>3
    <3> HIDE DEF t
    <3>2. QED
      BY <2>4, <3>1
  <2>6. Number(t) = l - h
    BY <1>5, <1>6, <2>5
  <2>7. LengthIn(s) = h + Number(t)
    BY DEF LengthIn, h, o
  <2> HIDE DEF t
  <2>8. h + (l - h) = l
    BY <1>1, <1>2
  <2>9. QED
    BY <2>6, <2>7, <2>8 DEF s
<1>9. QED
  BY <1>7, <1>8 DEF f

LEMMA FirstRead ==
  ASSUME NEW m \in Messages, NEW rest \in Seq(Bytes)
  PROVE  FirstMessage(Framed(m) \o rest) = Framed(m) /\ NextMessages(Framed(m) \o rest) = rest
<1> DEFINE f == Framed(m)
           l == Len(m)
<1>1. f \in Seq(Bytes) /\ Len(f) = l /\ LengthIn(f \o rest) = l
  BY LengthField
<1> HIDE DEF f
<1>2. f \o rest \in Seq(Bytes) /\ Len(f \o rest) = l + Len(rest) /\ l \in Nat
  BY <1>1
<1>3. SubSeq(f \o rest, 1, l) = f /\ SubSeq(f \o rest, l + 1, l + Len(rest)) = rest
  BY <1>1
<1>4. QED
  BY <1>1, <1>2, <1>3 DEF FirstMessage, NextMessages, f

\* s[i] is what the sender writes to the connection after i messages, r[i] what the
\* receiver has left to read after i messages.
Streams(s, ms, k) ==
  /\ s \in [0 .. k -> Seq(Bytes)] /\ s[k] = <<>>
  /\ \A i \in 1 .. k : s[i - 1] = Framed(ms[i]) \o s[i]

\* The receiver of a connection reads the very messages that were written to it, in
\* their order, and stops where the last one ends.  (writeMessage, readMessage.)
THEOREM FramesKept ==
  ASSUME NEW k \in Nat, NEW ms, \A i \in 1 .. k : ms[i] \in Messages,
         NEW s, Streams(s, ms, k),
         NEW r, r[0] = s[0], \A i \in 1 .. k : r[i] = NextMessages(r[i - 1])
  PROVE  /\ \A i \in 1 .. k : FirstMessage(r[i - 1]) = Framed(ms[i])
         /\ r[k] = <<>>
<1>1. ASSUME NEW i \in 1 .. k, r[i - 1] = s[i - 1]
      PROVE  FirstMessage(r[i - 1]) = Framed(ms[i]) /\ r[i] = s[i]
  <2>0. i \in 0 .. k
    OBVIOUS
  <2>1. s[i] \in Seq(Bytes) /\ s[i - 1] = Framed(ms[i]) \o s[i]
    BY <2>0 DEF Streams
  <2>2. QED
    BY <1>1, <2>1, FirstRead
<1> DEFINE S == {i \in Nat : i <= k => r[i] = s[i]}
<1>2. ASSUME NEW i \in Nat, \A m \in 0 .. i - 1 : m \in S PROVE i \in S
  <2>1. CASE i # 0 /\ i <= k
    <3>1. i \in 1 .. k /\ i - 1 \in 0 .. i - 1 /\ i - 1 <= k
      BY <2>1
    <3>2. QED
      BY <1>1, <1>2, <3>1
  <2>2. QED
    BY <2>1
<1>3. Nat \subseteq S
  <2> HIDE DEF S
  <2>1. QED
    BY <1>2, Induction
<1>4. \A i \in 0 .. k : r[i] = s[i]
  BY <1>3
<1>5. \A i \in 1 .. k : i - 1 \in 0 .. k
  OBVIOUS
<1>6. QED
  BY <1>1, <1>4, <1>5 DEF Streams

-----------------------------------------------------------------------------
(* Instants that are refused. *)

\* The timestamp decides what is written.
LEMMA SameTimestamp ==
  ASSUME NEW w, NEW t, NEW n \in Int, NEW m \in Int, Timestamp(n) = Timestamp(m)
  PROVE  EncodeTime(w, t, n) = EncodeTime(w, t, m)
BY DEF EncodeTime

\* No number is refused for its low bytes: they are cut.
LEMMA ShortWritten ==
  ASSUME NEW w \in Buffers, Ok(w), NEW q \in Int, NEW m \in Int, NEW u \in Int
  PROVE  LET short == WriteFixed(WriteFixed(w, q, ShortBytes), m, IntegerBytes)
         IN  short.st = "ok" /\ WriteFixed(short, u, IntegerBytes).st = "ok"
<1> DEFINE first == WriteFixed(w, q, ShortBytes)
           short == WriteFixed(first, m, IntegerBytes)
           last == WriteFixed(short, u, IntegerBytes)
<1>1. ShortBytes \in Nat /\ IntegerBytes \in Nat
  BY WidthAssumption
<1>2. \A i \in Int, k \in Nat : BigEndian(i, k) \in Seq(Bytes)
  BY BigEndianRead
<1>3. \A b \in Buffers, i \in Int, k \in Nat :
        Ok(b) => WriteFixed(b, i, k) \in Buffers /\ WriteFixed(b, i, k).st = "ok"
  <2>1. SUFFICES ASSUME NEW b \in Buffers, NEW i \in Int, NEW k \in Nat, Ok(b)
                 PROVE  WriteFixed(b, i, k) \in Buffers /\ WriteFixed(b, i, k).st = "ok"
    OBVIOUS
  <2>2. WriteFixed(b, i, k) = Written(b, BigEndian(i, k))
    BY <2>1 DEF WriteFixed, WriteBytes, Written
  <2>3. PICK s \in Seq(Bytes) : s = BigEndian(i, k)
    BY <1>2
  <2>4. Written(b, s) \in Buffers /\ Written(b, s).st = b.st
    BY WrittenIs
  <2>5. b.st = "ok"
    BY <2>1 DEF Ok
  <2>6. QED
    BY <2>2, <2>3, <2>4, <2>5
<1>4. first \in Buffers /\ first.st = "ok"
  BY <1>1, <1>3
<1> HIDE DEF first
<1>5. short \in Buffers /\ short.st = "ok"
  BY <1>1, <1>3, <1>4 DEF Ok
<1> HIDE DEF short
<1>6. last.st = "ok"
  BY <1>1, <1>3, <1>5 DEF Ok
<1>7. QED
  BY <1>5, <1>6 DEF short, first

\* An instant before the epoch has a quotient that is not positive: it is not refused.
LEMMA NegativeUnrefused ==
  ASSUME NEW w \in Buffers, Ok(w), NEW t \in {"Time", "FineTime"}, NEW n \in Int,
         Timestamp(n) \in Int, Timestamp(n) < 0
  PROVE  EncodeTime(w, t, n).st = "ok"
<1>1. PICK x \in Int : x = Timestamp(n)
  OBVIOUS
<1>2. PICK days : days = Quotient(x, Day)
  OBVIOUS
<1>3. Day \in Nat \ {0} /\ PerMilli \in Nat \ {0} /\ Size[ShortBytes] \in Nat \ {0}
  BY DayIs, SizeIs, WidthAssumption
<1>4. \A a \in Int, d \in Nat \ {0} : Quotient(a, d) \in Int /\ Remainder(a, d) \in Int
  <2>1. SUFFICES ASSUME NEW a \in Int, NEW d \in Nat \ {0}
                 PROVE  Quotient(a, d) \in Int /\ Remainder(a, d) \in Int
    OBVIOUS
  <2>2. a \div d \in Int /\ (-a) \div d \in Int
    BY Division
  <2>3. Quotient(a, d) \in Int
    BY <2>2 DEF Quotient
  <2>4. QED
    BY <2>3 DEF Remainder
<1>5. days \in Int /\ days <= 0
  <2>1. x < 0 /\ -x \in Nat
    BY <1>1
  <2>2. (-x) \div Day \in Nat
    BY <1>3, <2>1, Division
  <2>3. days = -((-x) \div Day)
    BY <1>2, <2>1 DEF Quotient
  <2>4. QED
    BY <2>2, <2>3
<1>6. ~(days >= Size[ShortBytes]) /\ days < Size[ShortBytes]
  BY <1>3, <1>5
<1>7. PICK r \in Int : r = Remainder(x, Day)
  BY <1>3, <1>4
<1>8. PICK m \in Int : m = Quotient(r, PerMilli)
  BY <1>3, <1>4
<1>9. PICK u \in Int : u = Remainder(r, PerMilli)
  BY <1>3, <1>4
<1>10. PICK short : short = WriteFixed(WriteFixed(w, days, ShortBytes), m, IntegerBytes)
  OBVIOUS
<1>11. short.st = "ok" /\ WriteFixed(short, u, IntegerBytes).st = "ok"
  BY <1>5, <1>10, ShortWritten
<1>12. EncodeTime(w, t, n) = IF t = "Time" THEN short ELSE WriteFixed(short, u, IntegerBytes)
  BY <1>1, <1>2, <1>6, <1>7, <1>8, <1>9, <1>10 DEF EncodeTime
<1>13. QED
  BY <1>11, <1>12

\* An instant after the last day of 16 bits has too many days.
LEMMA LateRefused ==
  ASSUME NEW w \in Buffers, Ok(w), NEW t, NEW n \in Nat, n >= Size[ShortBytes] * Day, Timestamp(n) = n
  PROVE  EncodeTime(w, t, n).st = "error"
<1> DEFINE q == n \div Day
           z == Size[ShortBytes]
           d == Day
           r == n % Day
<1>1. d \in Nat \ {0} /\ z \in Nat
  BY DayIs, SizeIs, WidthAssumption
<1>2. q \in Nat /\ r \in Nat /\ r < d /\ n = q * d + r
  BY <1>1, Division
<1>3. n >= z * d
  OBVIOUS
<1>4. Quotient(n, Day) = q
  BY DEF Quotient
<1> HIDE DEF q, z, d, r
<1>5. q >= z
  <2>1. SUFFICES ASSUME q < z PROVE FALSE
    BY <1>1, <1>2
  <2>2. PICK e \in Nat : z = q + 1 + e
    <3>1. z - q - 1 \in Nat /\ z = q + 1 + (z - q - 1)
      BY <1>1, <1>2, <2>1
    <3>2. QED
      BY <3>1
  <2>3. z * d = q * d + d + e * d
    BY <1>1, <1>2, <2>2
  <2>4. q * d \in Nat /\ e * d \in Nat /\ z * d \in Nat
    BY <1>1, <1>2, <2>2
  <2>5. QED
    BY <1>1, <1>2, <1>3, <2>3, <2>4
<1>6. EncodeTime(w, t, n) = Fail(w, "error")
  <2>1. q \in Int /\ z \in Int /\ Quotient(n, Day) >= z /\ ~(Quotient(n, Day) < z)
    BY <1>1, <1>2, <1>4, <1>5
  <2>2. QED
    BY <2>1 DEF EncodeTime, z
<1>7. QED
  BY <1>6 DEF Fail, Ok, Buffers

\* Of all instants, EncodeTime and EncodeFineTime refuse exactly those whose timestamp
\* of 64 bits, which wraps, is after the last day that 16 bits count.  So an instant of
\* these days is written entire, and one after them is refused as long as a timestamp
\* holds it; but what is before the epoch is written without an error, and so is a later
\* one that wraps: it is written as the instant 2^64 units before it.
THEOREM InstantsRefused ==
  ASSUME NEW w \in Buffers, Ok(w), NEW t \in {"Time", "FineTime"}, NEW n \in Int
  PROVE  /\ EncodeTime(w, t, n).st \in {"ok", "error"}
         /\ LET u == n % Size[LongBytes]
            IN  EncodeTime(w, t, n).st = "error"
                  <=> 2 * u < Size[LongBytes] /\ u >= Size[ShortBytes] * Day
         /\ n \in Instants => EncodeTime(w, t, n) = Written(w, TimeBytes(t, n))
         /\ EncodeTime(w, t, n + Size[LongBytes]) = EncodeTime(w, t, n)
<1>1. PICK l \in Nat \ {0} : l = Size[LongBytes]
  BY SizeIs, WidthAssumption
<1>2. PICK u \in Nat : u = n % l /\ u < l /\ n = (n \div l) * l + u /\ n \div l \in Int
  BY <1>1, Division
<1>3. PICK c \in Nat : c = Size[ShortBytes] * Day
  BY SizeIs, DayIs, WidthAssumption
<1>4. Timestamp(n) = IF 2 * u >= l THEN u - l ELSE u
  BY <1>1, <1>2 DEF Timestamp, Signed
<1>5. Timestamp(u) = Timestamp(n)
  <2>1. u \in 0 .. l - 1
    BY <1>2
  <2>2. u % l = u
    BY <2>1, SmallDivision
  <2>3. QED
    BY <1>1, <1>4, <2>2 DEF Timestamp, Signed
<1>6. EncodeTime(w, t, n) = EncodeTime(w, t, u)
  BY <1>5, SameTimestamp
<1> DEFINE Verdict == EncodeTime(w, t, n).st \in {"ok", "error"}
                     /\ (EncodeTime(w, t, n).st = "error" <=> 2 * u < l /\ u >= c)
<1>7. ASSUME 2 * u >= l PROVE Verdict
  <2>1. Timestamp(n) \in Int /\ Timestamp(n) < 0
    BY <1>2, <1>4, <1>7
  <2>2. EncodeTime(w, t, n).st = "ok"
    BY <2>1, NegativeUnrefused
  <2>3. ~(2 * u < l)
    BY <1>7
  <2>4. QED
    BY <2>2, <2>3
<1>8. ASSUME 2 * u < l, u >= c PROVE Verdict
  <2>1. Timestamp(u) = u
    BY <1>4, <1>5, <1>8
  <2>2. EncodeTime(w, t, u).st = "error"
    BY <1>3, <1>8, <2>1, LateRefused
  <2>3. QED
    BY <1>6, <1>8, <2>2
<1>9. ASSUME 2 * u < l, u < c PROVE Verdict
  <2>1. u \in Instants
    BY <1>3, <1>9 DEF Instants
  <2>2. EncodeTime(w, t, u) = Written(w, TimeBytes(t, u)) /\ TimeBytes(t, u) \in Seq(Bytes)
    BY <2>1, TimeWritten, PartsCoded
  <2>3. EncodeTime(w, t, u).st = "ok"
    BY <2>2, WrittenIs DEF Ok
  <2>4. ~(u >= c)
    BY <1>9
  <2>5. QED
    BY <1>6, <2>3, <2>4
<1>10. Verdict
  BY <1>7, <1>8, <1>9
<1>11. EncodeTime(w, t, n + l) = EncodeTime(w, t, n)
  <2>1. u \in 0 .. l - 1 /\ n + l \in Int
    BY <1>2
  <2>2. PICK q \in Int : q = n \div l
    BY <1>2
  <2>3. n + l = (q + 1) * l + u /\ q + 1 \in Int
    BY <1>2, <2>2
  <2>4. (n + l) % l = u
    BY <2>1, <2>3, QuotientIs
  <2>5. Timestamp(n + l) = Timestamp(n)
    BY <1>1, <1>2, <2>4 DEF Timestamp, Signed
  <2>6. QED
    BY <2>1, <2>5, SameTimestamp
<1>12. QED
  BY <1>1, <1>2, <1>3, <1>10, <1>11, TimeWritten
=============================================================================

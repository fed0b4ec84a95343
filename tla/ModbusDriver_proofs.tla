------------------------- MODULE ModbusDriver_proofs -------------------------
(***************************************************************************)
(* What is written through the driver reaches the device as the dry run    *)
(* showed it, and comes back as it was written: for every memory, every    *)
(* list of values, every address and every count.                          *)
(***************************************************************************)
EXTENDS ModbusDriver, WireLemmas

-----------------------------------------------------------------------------
(* Numbers in base b. *)

(* Division takes a number of two digits apart. *)
LEMMA Digits ==
    ASSUME NEW b \in Nat, b > 0, NEW q \in Nat, NEW s \in Nat, s < b
    PROVE  (q * b + s) \div b = q /\ (q * b + s) % b = s
  <1> DEFINE x == q * b + s
  <1>1. PICK d \in Int : d = x \div b
    OBVIOUS
  <1>2. PICK r \in Int : r = x % b
    OBVIOUS
  <1>3. x = d * b + r /\ 0 <= r /\ r < b
    BY <1>1, <1>2
  <1>4. (d - q) * b = s - r
    BY <1>3
  <1>5. d - q < 1
    <2>1. SUFFICES ASSUME d - q >= 1 PROVE FALSE
      OBVIOUS
    <2>2. (d - q) * b >= b
      BY <2>1
    <2> QED BY <1>3, <1>4, <2>2
  <1>6. d - q > -1
    <2>1. SUFFICES ASSUME d - q <= -1 PROVE FALSE
      OBVIOUS
    <2>2. (d - q) * b <= -b
      BY <2>1
    <2> QED BY <1>3, <1>4, <2>2
  <1>7. d = q
    BY <1>5, <1>6
  <1> QED BY <1>1, <1>2, <1>3, <1>7

(* And puts it together again. *)
LEMMA TwoDigits ==
    ASSUME NEW b \in Nat, b > 0, NEW u \in Nat, u < b * b
    PROVE  /\ u \div b \in 0..(b - 1)
           /\ u % b \in 0..(b - 1)
           /\ (u \div b) * b + (u % b) = u
  <1>1. PICK d \in Int : d = u \div b
    OBVIOUS
  <1>2. PICK r \in Int : r = u % b
    OBVIOUS
  <1>3. u = d * b + r /\ 0 <= r /\ r < b
    BY <1>1, <1>2
  <1>4. d >= 0
    <2>1. SUFFICES ASSUME d <= -1 PROVE FALSE
      OBVIOUS
    <2>2. d * b <= -b
      BY <2>1
    <2> QED BY <1>3, <2>2
  <1>5. d < b
    <2>1. SUFFICES ASSUME d >= b PROVE FALSE
      OBVIOUS
    <2>2. d * b >= b * b
      BY <2>1
    <2> QED BY <1>3, <2>2
  <1>6. d \in 0..(b - 1) /\ r \in 0..(b - 1)
    BY <1>3, <1>4, <1>5
  <1>7. d * b + r = u
    BY <1>3
  <1>8. u \div b \in 0..(b - 1) /\ u % b \in 0..(b - 1)
    BY ONLY <1>1, <1>2, <1>6, Zenon
  <1>9. (u \div b) * b + (u % b) = u
    BY ONLY <1>1, <1>2, <1>7, Zenon
  <1> QED BY <1>8, <1>9

(* Two digits are a number below b * b. *)
LEMMA Joined ==
    ASSUME NEW b \in Nat, b > 0, NEW h \in 0..(b - 1), NEW l \in 0..(b - 1)
    PROVE  h * b + l \in Nat /\ h * b + l < b * b
  <1>1. h * b >= 0
    OBVIOUS
  <1>2. h * b <= (b - 1) * b
    OBVIOUS
  <1>3. (b - 1) * b = b * b - b
    OBVIOUS
  <1>4. h * b \in Int /\ b * b \in Int
    OBVIOUS
  <1> QED BY <1>1, <1>2, <1>3, <1>4

-----------------------------------------------------------------------------
(* convert.go. *)

Halves == 0..(ByteSize - 1)
Registered == {r \in Nat : r < WordSize}

(* Two bytes are at most a word, and an even number of values. *)
LEMMA Sizes ==
    /\ ByteSize \in Nat /\ ByteSize > 0
    /\ WordSize \in Nat /\ WordSize > 0 /\ WordSize = ByteSize * ByteSize
    /\ WordSize <= 65536
    /\ WordSize % 2 = 0
  <1>1. PICK b \in Nat : b = ByteSize /\ 2 <= b /\ b <= 256 /\ b % 2 = 0
    BY ByteSizeAssumption
  <1>2. b * b > 0
    BY <1>1
  <1>3. b * b <= 256 * b
    BY <1>1
  <1>4. (b * b) % 2 = 0
    <2>1. PICK h \in Int : b = 2 * h
      BY <1>1
    <2>2. b * b = 2 * (h * b)
      BY <2>1
    <2> QED BY <2>1, <2>2
  <1> QED BY <1>1, <1>2, <1>3, <1>4 DEF WordSize

(* Tuples as sequences. *)
LEMMA OneIsSeq ==
    ASSUME NEW S, NEW x \in S
    PROVE  <<x>> \in Seq(S) /\ Len(<<x>>) = 1
  OBVIOUS

(* And two of them. *)
LEMMA PairIsSeq ==
    ASSUME NEW S, NEW x \in S, NEW y \in S
    PROVE  <<x, y>> \in Seq(S) /\ Len(<<x, y>>) = 2
  OBVIOUS

(* Numbers of two bytes are words. *)
LEMMA RegisteredAreWords == Registered \subseteq Words
  BY Sizes DEF Registered, Words

(* Bytes swapped twice are where they were. *)
LEMMA SwapTwice ==
    ASSUME NEW r \in Registered
    PROVE  SwapBytes(r) \in Registered /\ SwapBytes(SwapBytes(r)) = r
  <1>1. PICK h \in Int : h = r \div ByteSize
    BY Sizes DEF Registered
  <1>2. PICK l \in Int : l = r % ByteSize
    BY Sizes DEF Registered
  <1>3. r \in Nat /\ r < ByteSize * ByteSize
    BY Sizes DEF Registered
  <1>4. h \in 0..(ByteSize - 1) /\ l \in 0..(ByteSize - 1) /\ h * ByteSize + l = r
    BY <1>1, <1>2, <1>3, Sizes, TwoDigits
  <1>5. SwapBytes(r) = l * ByteSize + h
    BY <1>1, <1>2 DEF SwapBytes
  <1>6. l * ByteSize + h \in Nat /\ l * ByteSize + h < ByteSize * ByteSize
    BY <1>4, Sizes, Joined
  <1>7. SwapBytes(r) \in Registered
    BY <1>5, <1>6, Sizes DEF Registered
  <1>8. l \in Nat /\ h \in Nat /\ h < ByteSize
    BY <1>4, Sizes
  <1>9. (l * ByteSize + h) \div ByteSize = l /\ (l * ByteSize + h) % ByteSize = h
    BY <1>8, Sizes, Digits
  <1>10. SwapBytes(l * ByteSize + h) = h * ByteSize + l
    BY <1>9 DEF SwapBytes
  <1> QED BY <1>4, <1>5, <1>7, <1>10

(* The byte order, on one register. *)
Turn(o, r) == IF o.byteOrder = "little" THEN SwapBytes(r) ELSE r

(* Turned twice, a register is what it was. *)
LEMMA TurnTwice ==
    ASSUME NEW o, NEW r \in Registered
    PROVE  Turn(o, r) \in Registered /\ Turn(o, Turn(o, r)) = r
  BY SwapTwice DEF Turn

(* What the conversions make of one register, and of two. *)
LEMMA OrderShapes ==
    ASSUME NEW o, NEW a, NEW b
    PROVE  /\ Normalize(o, <<a>>) = <<Turn(o, a)>>
           /\ Denormalize(o, <<a>>) = <<Turn(o, a)>>
           /\ Normalize(o, <<a, b>>) = IF o.wordOrder = "low" THEN <<Turn(o, b), Turn(o, a)>>
                                       ELSE <<Turn(o, a), Turn(o, b)>>
           /\ Denormalize(o, <<a, b>>) = IF o.wordOrder = "low" THEN <<Turn(o, b), Turn(o, a)>>
                                         ELSE <<Turn(o, a), Turn(o, b)>>
  <1>1. Bytes(o, <<a>>) = <<Turn(o, a)>>
    BY DEF Bytes, SwapEach, Turn
  <1>2. \A x, y : Bytes(o, <<x, y>>) = <<Turn(o, x), Turn(o, y)>>
    BY DEF Bytes, SwapEach, Turn
  <1>3. \A x : Order(o, <<x>>) = <<x>>
    BY DEF Order
  <1>4. \A x, y : Order(o, <<x, y>>) = IF o.wordOrder = "low" THEN <<y, x>> ELSE <<x, y>>
    BY DEF Order, SwapPair
  <1>5. Normalize(o, <<a>>) = <<Turn(o, a)>> /\ Denormalize(o, <<a>>) = <<Turn(o, a)>>
    BY <1>1, <1>3 DEF Normalize, Denormalize
  <1>6. Normalize(o, <<a, b>>) = Order(o, <<Turn(o, a), Turn(o, b)>>)
    BY <1>2 DEF Normalize
  <1>7. CASE o.wordOrder = "low"
    <2>1. Denormalize(o, <<a, b>>) = Bytes(o, <<b, a>>)
      BY <1>4, <1>7 DEF Denormalize
    <2> QED BY <1>2, <1>4, <1>5, <1>6, <1>7, <2>1
  <1>8. CASE o.wordOrder # "low"
    <2>1. Denormalize(o, <<a, b>>) = Bytes(o, <<a, b>>)
      BY <1>4, <1>8 DEF Denormalize
    <2> QED BY <1>2, <1>4, <1>5, <1>6, <1>8, <2>1
  <1> QED BY <1>7, <1>8

(* A type fills one register or two, and its values are halved evenly. *)
LEMMA Widths ==
    ASSUME NEW t \in DataTypes
    PROVE  /\ RegisterCount(t) \in {1, 2}
           /\ RegisterCount(t) = 1 => Modulus(t) = WordSize
           /\ RegisterCount(t) = 2 => Modulus(t) = WordSize * WordSize
           /\ Modulus(t) \in Nat /\ Modulus(t) > 0
           /\ Modulus(t) \div 2 \in Nat /\ 2 * (Modulus(t) \div 2) = Modulus(t)
  <1>1. RegisterCount(t) \in {1, 2}
    BY DEF RegisterCount
  <1>2. PICK w \in Nat : w = WordSize /\ w > 0 /\ w % 2 = 0
    BY Sizes
  <1>3. PICK h \in Nat : w = 2 * h
    BY <1>2
  <1>4. w * w = 2 * (h * w) /\ h * w \in Nat /\ w * w > 0
    BY <1>2, <1>3
  <1>5. PICK k \in Nat : Modulus(t) = 2 * k /\ 2 * k > 0
    <2>1. CASE RegisterCount(t) = 1
      BY <1>2, <1>3, <2>1 DEF Modulus
    <2>2. CASE RegisterCount(t) = 2
      <3>1. Modulus(t) = w * w
        BY <1>2, <2>2 DEF Modulus
      <3>2. PICK n \in Nat : n = h * w
        BY <1>4
      <3> QED BY <1>4, <3>1, <3>2
    <2> QED BY <1>1, <2>1, <2>2
  <1>6. (2 * k) \div 2 = k
    BY <1>5
  <1> QED BY <1>1, <1>5, <1>6 DEF Modulus

(* A value of a type as the number its bits spell, and back. *)
Spelled(t, u) == IF Signed(t) /\ u >= Modulus(t) \div 2 THEN u - Modulus(t) ELSE u

(* A value in the range of its type is spelled by its remainder. *)
LEMMA SpelledBack ==
    ASSUME NEW t \in DataTypes, NEW v \in Int, InRange(t, v)
    PROVE  /\ v % Modulus(t) \in Nat /\ v % Modulus(t) < Modulus(t)
           /\ Spelled(t, v % Modulus(t)) = v
  <1>1. PICK h \in Nat : h = Modulus(t) \div 2 /\ Modulus(t) = 2 * h /\ 2 * h > 0
    BY Widths
  <1>2. PICK m \in Nat : m = Modulus(t) /\ m = 2 * h /\ m > 0
    BY <1>1
  <1>3. CASE v >= 0
    <2>1. v < m /\ (Signed(t) => v < h)
      BY <1>1, <1>2, <1>3 DEF InRange
    <2>2. v = 0 * m + v
      BY <1>2
    <2>3. (0 * m + v) % m = v
      BY <1>2, <1>3, <2>1, Digits
    <2>4. v % m = v
      BY <2>2, <2>3
    <2>5. v % Modulus(t) = v
      BY <1>2, <2>4
    <2>6. Spelled(t, v) = v
      BY <1>1, <1>3, <2>1 DEF Spelled
    <2> QED BY <1>2, <1>3, <2>1, <2>5, <2>6
  <1>4. CASE v < 0
    <2>1. Signed(t) /\ -h <= v
      BY <1>1, <1>2, <1>4 DEF InRange
    <2>2. v % m = v + m
      <3>1. PICK d \in Int : d = v \div m
        BY <1>2
      <3>2. PICK r \in Int : r = v % m
        BY <1>2
      <3>3. v = d * m + r /\ 0 <= r /\ r < m
        BY <1>2, <3>1, <3>2
      <3>4. d < 0
        <4>1. SUFFICES ASSUME d >= 0 PROVE FALSE
          OBVIOUS
        <4>2. d * m >= 0
          BY <4>1
        <4> QED BY <1>4, <3>3, <4>2
      <3>5. d > -2
        <4>1. SUFFICES ASSUME d <= -2 PROVE FALSE
          OBVIOUS
        <4>2. d * m <= -2 * m
          BY <4>1
        <4> QED BY <1>2, <2>1, <3>3, <4>2
      <3>6. d = -1
        BY <3>4, <3>5
      <3> QED BY <3>2, <3>3, <3>6
    <2>3. v + m \in Nat /\ v + m < m /\ v + m >= h
      BY <1>2, <1>4, <2>1
    <2>4. Spelled(t, v + m) = v
      BY <1>1, <1>2, <2>1, <2>3 DEF Spelled
    <2> QED BY <1>2, <2>2, <2>3, <2>4
  <1> QED BY <1>3, <1>4

(* Whatever the bits are, they spell a value of the type, and only they do. *)
LEMMA SpelledInRange ==
    ASSUME NEW t \in DataTypes, NEW u \in Nat, u < Modulus(t)
    PROVE  /\ Spelled(t, u) \in Int /\ InRange(t, Spelled(t, u))
           /\ Spelled(t, u) % Modulus(t) = u
  <1>1. PICK h \in Nat : h = Modulus(t) \div 2 /\ Modulus(t) = 2 * h /\ 2 * h > 0
    BY Widths
  <1>2. PICK m \in Nat : m = Modulus(t) /\ m = 2 * h /\ m > 0
    BY <1>1
  <1>3. Spelled(t, u) = IF Signed(t) /\ u >= h THEN u - m ELSE u
    BY <1>1, <1>2 DEF Spelled
  <1>4. Spelled(t, u) \in Int /\ InRange(t, Spelled(t, u))
    <2>1. CASE Signed(t) /\ u >= h
      <3>1. Spelled(t, u) = u - m
        BY <1>3, <2>1
      <3>2. u - m \in Int /\ -h <= u - m /\ u - m < h
        BY <1>2, <2>1
      <3> QED BY <1>1, <2>1, <3>1, <3>2 DEF InRange
    <2>2. CASE ~(Signed(t) /\ u >= h)
      <3>1. Spelled(t, u) = u
        BY <1>3, <2>2
      <3>2. Signed(t) => -h <= u /\ u < h
        BY <1>1, <2>2
      <3> QED BY <1>1, <1>2, <3>1, <3>2 DEF InRange
    <2> QED BY <2>1, <2>2
  <1>5. u % m = u
    <2>1. (0 * m + u) % m = u
      BY <1>2, Digits
    <2> QED BY <1>2, <2>1
  <1>6. (u - m) % m = u
    <2>1. PICK d \in Int : d = (u - m) \div m
      BY <1>2
    <2>2. PICK r \in Int : r = (u - m) % m
      BY <1>2
    <2>3. u - m = d * m + r /\ 0 <= r /\ r < m
      BY <1>2, <2>1, <2>2
    <2>4. (d + 1) * m + r = u
      BY <2>3
    <2>5. d + 1 >= 0
      <3>1. SUFFICES ASSUME d + 1 <= -1 PROVE FALSE
        OBVIOUS
      <3>2. (d + 1) * m <= -m
        BY <3>1
      <3> QED BY <2>3, <2>4, <3>2
    <2>6. d + 1 < 1
      <3>1. SUFFICES ASSUME d + 1 >= 1 PROVE FALSE
        OBVIOUS
      <3>2. (d + 1) * m >= m
        BY <3>1
      <3> QED BY <1>2, <2>3, <2>4, <3>2
    <2>7. d = -1
      BY <2>5, <2>6
    <2> QED BY <2>2, <2>4, <2>7
  <1> QED BY <1>2, <1>3, <1>4, <1>5, <1>6

(* The registers of one value, and the value of its registers. *)
LEMMA DecodeShape ==
    ASSUME NEW o \in Options, NEW regs
    PROVE  Decode(o, regs) = Spelled(o.type, IF RegisterCount(o.type) = 1 THEN Normalize(o, regs)[1]
                                             ELSE Normalize(o, regs)[1] * WordSize
                                                    + Normalize(o, regs)[2])
  BY DEF Decode, Spelled

(* A value of a type is in its registers, and is read from them again. *)
LEMMA DecodeEncode ==
    ASSUME NEW o \in Options, NEW v \in Int, InRange(o.type, v)
    PROVE  /\ Encode(o, v) \in Seq(Registered)
           /\ Len(Encode(o, v)) = RegisterCount(o.type)
           /\ Decode(o, Encode(o, v)) = v
  <1>1. PICK t \in DataTypes : t = o.type
    BY DEF Options
  <1>2. PICK u \in Nat : /\ u = v % Modulus(t) /\ u < Modulus(t) /\ Spelled(t, u) = v
    BY <1>1, SpelledBack
  <1>3. CASE RegisterCount(t) = 1
    <2>1. u \in Registered
      BY <1>2, <1>3, Widths DEF Registered
    <2>2. Encode(o, v) = <<Turn(o, u)>>
      BY <1>1, <1>2, <1>3, OrderShapes DEF Encode
    <2>3. Turn(o, u) \in Registered /\ Turn(o, Turn(o, u)) = u
      BY <2>1, TurnTwice
    <2>4. Normalize(o, <<Turn(o, u)>>) = <<u>>
      <3>1. Normalize(o, <<Turn(o, u)>>) = <<Turn(o, Turn(o, u))>>
        BY OrderShapes
      <3> QED BY <2>3, <3>1
    <2>5. Decode(o, Encode(o, v)) = Spelled(t, u)
      BY <1>1, <1>3, <2>2, <2>4, DecodeShape
    <2> QED BY <1>1, <1>2, <1>3, <2>2, <2>3, <2>5
  <1>4. CASE RegisterCount(t) = 2
    <2>1. u < WordSize * WordSize
      BY <1>2, <1>4, Widths
    <2>2. /\ u \div WordSize \in 0..(WordSize - 1) /\ u % WordSize \in 0..(WordSize - 1)
          /\ (u \div WordSize) * WordSize + (u % WordSize) = u
      BY <2>1, Sizes, TwoDigits
    <2>3. PICK h \in Registered : h = u \div WordSize
      BY <2>2, Sizes DEF Registered
    <2>4. PICK l \in Registered : l = u % WordSize
      BY <2>2, Sizes DEF Registered
    <2>5. Encode(o, v) = Denormalize(o, <<h, l>>)
      BY <1>1, <1>2, <1>4, <2>3, <2>4 DEF Encode
    <2>6. /\ Turn(o, h) \in Registered /\ Turn(o, Turn(o, h)) = h
          /\ Turn(o, l) \in Registered /\ Turn(o, Turn(o, l)) = l
      BY TurnTwice
    <2>7. Normalize(o, Encode(o, v)) = <<h, l>>
      <3>1. CASE o.wordOrder = "low"
        <4>1. Encode(o, v) = <<Turn(o, l), Turn(o, h)>>
          BY <2>5, <3>1, OrderShapes
        <4>2. Normalize(o, <<Turn(o, l), Turn(o, h)>>) =
                 <<Turn(o, Turn(o, h)), Turn(o, Turn(o, l))>>
          BY <3>1, OrderShapes
        <4> QED BY <2>6, <4>1, <4>2
      <3>2. CASE o.wordOrder # "low"
        <4>1. Encode(o, v) = <<Turn(o, h), Turn(o, l)>>
          BY <2>5, <3>2, OrderShapes
        <4>2. Normalize(o, <<Turn(o, h), Turn(o, l)>>) =
                 <<Turn(o, Turn(o, h)), Turn(o, Turn(o, l))>>
          BY <3>2, OrderShapes
        <4> QED BY <2>6, <4>1, <4>2
      <3> QED BY <3>1, <3>2
    <2>8. Encode(o, v) \in Seq(Registered) /\ Len(Encode(o, v)) = 2
      <3>1. \/ Encode(o, v) = <<Turn(o, l), Turn(o, h)>>
            \/ Encode(o, v) = <<Turn(o, h), Turn(o, l)>>
        BY <2>5, OrderShapes
      <3>2. PICK x \in Registered : x = Turn(o, h)
        BY <2>6
      <3>3. PICK y \in Registered : y = Turn(o, l)
        BY <2>6
      <3>4. Encode(o, v) = <<y, x>> \/ Encode(o, v) = <<x, y>>
        BY <3>1, <3>2, <3>3
      <3> QED BY <3>4, PairIsSeq
    <2>9. h * WordSize + l = u
      BY <2>2, <2>3, <2>4
    <2>10. Decode(o, Encode(o, v)) = Spelled(t, h * WordSize + l)
      BY <1>1, <1>4, <2>7, DecodeShape
    <2> QED BY <1>1, <1>2, <1>4, <2>8, <2>9, <2>10
  <1> QED BY <1>1, <1>3, <1>4, Widths

(* Registers read as a type are a value of the type, and it spells them. *)
LEMMA EncodeDecode ==
    ASSUME NEW o \in Options, NEW regs \in Seq(Registered),
           Len(regs) = RegisterCount(o.type)
    PROVE  /\ Decode(o, regs) \in Int /\ InRange(o.type, Decode(o, regs))
           /\ Encode(o, Decode(o, regs)) = regs
  <1>1. PICK t \in DataTypes : t = o.type
    BY DEF Options
  <1>2. CASE RegisterCount(t) = 1
    <2>1. PICK a \in Registered : regs = <<a>>
      BY <1>1, <1>2
    <2>2. PICK u \in Registered : u = Turn(o, a) /\ Turn(o, u) = a
      BY TurnTwice
    <2>3. Normalize(o, regs) = <<u>> /\ Denormalize(o, <<u>>) = <<a>>
      <3>1. Normalize(o, <<a>>) = <<Turn(o, a)>>
        BY OrderShapes
      <3>2. Denormalize(o, <<u>>) = <<Turn(o, u)>>
        BY OrderShapes
      <3> QED BY <2>1, <2>2, <3>1, <3>2
    <2>4. Decode(o, regs) = Spelled(t, u)
      BY <1>1, <1>2, <2>3, DecodeShape
    <2>5. u \in Nat /\ u < Modulus(t)
      BY <1>2, Widths DEF Registered
    <2>6. /\ Spelled(t, u) \in Int /\ InRange(t, Spelled(t, u))
          /\ Spelled(t, u) % Modulus(t) = u
      BY <2>5, SpelledInRange
    <2>7. Encode(o, Spelled(t, u)) = <<a>>
      BY <1>1, <1>2, <2>3, <2>6 DEF Encode
    <2> QED BY <1>1, <2>1, <2>4, <2>6, <2>7
  <1>3. CASE RegisterCount(t) = 2
    <2>1. PICK a \in Registered, b \in Registered : regs = <<a, b>>
      <3>1. Len(regs) = 2
        BY <1>1, <1>3
      <3>2. regs[1] \in Registered /\ regs[2] \in Registered
        <4>1. 1 \in 1..Len(regs) /\ 2 \in 1..Len(regs)
          BY <3>1
        <4>2. regs \in Seq(Registered)
          OBVIOUS
        <4> QED BY ONLY <4>1, <4>2, ElementOfSeq, Zenon
      <3>3. regs = <<regs[1], regs[2]>>
        BY <3>1
      <3> QED BY <3>2, <3>3
    <2>2. PICK x \in Registered : x = Turn(o, a) /\ Turn(o, x) = a
      BY TurnTwice
    <2>3. PICK y \in Registered : y = Turn(o, b) /\ Turn(o, y) = b
      BY TurnTwice
    <2>4. PICK h \in Registered, l \in Registered :
             Normalize(o, regs) = <<h, l>> /\ Denormalize(o, <<h, l>>) = regs
      <3>1. CASE o.wordOrder = "low"
        <4>1. Normalize(o, <<a, b>>) = <<y, x>>
          BY <2>2, <2>3, <3>1, OrderShapes
        <4>2. Denormalize(o, <<y, x>>) = <<Turn(o, x), Turn(o, y)>>
          BY <3>1, OrderShapes
        <4> QED BY <2>1, <2>2, <2>3, <4>1, <4>2
      <3>2. CASE o.wordOrder # "low"
        <4>1. Normalize(o, <<a, b>>) = <<x, y>>
          BY <2>2, <2>3, <3>2, OrderShapes
        <4>2. Denormalize(o, <<x, y>>) = <<Turn(o, x), Turn(o, y)>>
          BY <3>2, OrderShapes
        <4> QED BY <2>1, <2>2, <2>3, <4>1, <4>2
      <3> QED BY <3>1, <3>2
    <2>5. PICK u \in Int : u = h * WordSize + l
      BY Sizes DEF Registered
    <2>6. u \in Nat /\ u < WordSize * WordSize
      <3>1. h \in 0..(WordSize - 1) /\ l \in 0..(WordSize - 1)
        BY Sizes DEF Registered
      <3> QED BY <2>5, <3>1, Sizes, Joined
    <2>7. Decode(o, regs) = Spelled(t, u)
      BY <1>1, <1>3, <2>4, <2>5, DecodeShape
    <2>8. u < Modulus(t)
      BY <1>3, <2>6, Widths
    <2>9. /\ Spelled(t, u) \in Int /\ InRange(t, Spelled(t, u))
          /\ Spelled(t, u) % Modulus(t) = u
      BY <2>6, <2>8, SpelledInRange
    <2>10. u \div WordSize = h /\ u % WordSize = l
      BY <2>5, Sizes, Digits DEF Registered
    <2>11. Encode(o, Spelled(t, u)) = regs
      BY <1>1, <1>3, <2>4, <2>9, <2>10 DEF Encode
    <2> QED BY <1>1, <2>7, <2>9, <2>11
  <1> QED BY <1>1, <1>2, <1>3, Widths

-----------------------------------------------------------------------------
(* driver.go: lists of values. *)

(* Where the registers of the i-th value are in the list of all. *)
LEMMA RegistersShape ==
    ASSUME NEW o \in Options, NEW ls \in Seq(Int)
    PROVE  LET regs == Registers(o, ls)
           IN  /\ Len(regs) = RegisterCount(o.type) * Len(ls)
               /\ DOMAIN regs = 1..(RegisterCount(o.type) * Len(ls))
               /\ RegisterCount(o.type) = 1 =>
                     \A i \in 1..Len(ls) : regs[i] = Encode(o, ls[i])[1]
               /\ RegisterCount(o.type) = 2 =>
                     \A i \in 1..Len(ls) : /\ regs[2 * i - 1] = Encode(o, ls[i])[1]
                                           /\ regs[2 * i] = Encode(o, ls[i])[2]
  <1> DEFINE regs == Registers(o, ls)
  <1>1. PICK n \in Nat : n = Len(ls)
    OBVIOUS
  <1>2. PICK w \in {1, 2} : w = RegisterCount(o.type)
    BY Widths DEF Options
  <1>3. w * n \in Nat
    BY <1>1, <1>2
  <1>4. regs = [k \in 1..(w * n) |-> Encode(o, ls[1 + ((k - 1) \div w)])[1 + ((k - 1) % w)]]
    BY <1>1, <1>2 DEF Registers
  <1>5. Len(regs) = w * n /\ DOMAIN regs = 1..(w * n)
    BY <1>3, <1>4
  <1>6. ASSUME w = 1, NEW i \in 1..n
        PROVE  regs[i] = Encode(o, ls[i])[1]
    <2>1. i \in 1..(w * n) /\ 1 + ((i - 1) \div w) = i /\ 1 + ((i - 1) % w) = 1
      BY <1>1, <1>6
    <2> QED BY <1>4, <2>1
  <1>7. ASSUME w = 2, NEW i \in 1..n
        PROVE  regs[2 * i - 1] = Encode(o, ls[i])[1] /\ regs[2 * i] = Encode(o, ls[i])[2]
    <2>1. /\ 2 * i - 1 \in 1..(w * n)
          /\ 1 + ((2 * i - 1 - 1) \div w) = i /\ 1 + ((2 * i - 1 - 1) % w) = 1
      BY <1>1, <1>7
    <2>2. /\ 2 * i \in 1..(w * n)
          /\ 1 + ((2 * i - 1) \div w) = i /\ 1 + ((2 * i - 1) % w) = 2
      BY <1>1, <1>7
    <2> QED BY <1>4, <2>1, <2>2
  <1> HIDE DEF regs
  <1> QED BY <1>1, <1>2, <1>5, <1>6, <1>7 DEF regs

(* Values of the type fill registers with two-byte numbers. *)
LEMMA RegistersType ==
    ASSUME NEW o \in Options, NEW ls \in Seq(Int),
           \A i \in 1..Len(ls) : InRange(o.type, ls[i])
    PROVE  Registers(o, ls) \in Seq(Registered)
  <1>1. PICK regs : regs = Registers(o, ls)
    OBVIOUS
  <1>2. PICK n \in Nat : n = Len(ls)
    OBVIOUS
  <1>3. PICK w \in {1, 2} : w = RegisterCount(o.type)
    BY Widths DEF Options
  <1>4. Len(regs) = w * n /\ DOMAIN regs = 1..(w * n)
    BY <1>1, <1>2, <1>3, RegistersShape
  <1>5. \A i \in 1..n : Encode(o, ls[i]) \in Seq(Registered) /\ Len(Encode(o, ls[i])) = w
    BY <1>2, <1>3, DecodeEncode
  <1>6. ASSUME NEW k \in 1..(w * n) PROVE regs[k] \in Registered
    <2>1. CASE w = 1
      <3>1. k \in 1..n /\ 1 \in 1..w
        BY <1>2, <1>6, <2>1
      <3>2. regs[k] = Encode(o, ls[k])[1]
        BY <1>1, <1>2, <1>3, <2>1, <3>1, RegistersShape
      <3>3. PICK e \in Seq(Registered) : e = Encode(o, ls[k]) /\ Len(e) = w
        BY <1>5, <3>1
      <3> QED BY <3>1, <3>2, <3>3
    <2>2. CASE w = 2
      <3>1. PICK i \in 1..n : k = 2 * i - 1 \/ k = 2 * i
        <4>1. (k + 1) \div 2 \in 1..n /\ (k = 2 * ((k + 1) \div 2) - 1 \/ k = 2 * ((k + 1) \div 2))
          BY <1>2, <1>6, <2>2
        <4> QED BY <4>1
      <3>2. regs[2 * i - 1] = Encode(o, ls[i])[1] /\ regs[2 * i] = Encode(o, ls[i])[2]
        BY <1>1, <1>2, <1>3, <2>2, <3>1, RegistersShape
      <3>3. PICK e \in Seq(Registered) : e = Encode(o, ls[i]) /\ Len(e) = 2
        BY <1>5, <2>2
      <3>4. e[1] \in Registered /\ e[2] \in Registered
        BY <3>3
      <3> QED BY <3>1, <3>2, <3>3, <3>4
    <2> QED BY <2>1, <2>2
  <1>7. regs = [k \in 1..(w * n) |-> regs[k]] /\ w * n \in Nat
    BY <1>1, <1>2, <1>3 DEF Registers
  <1> QED BY <1>1, <1>6, <1>7

(* What a read makes of the registers of n values. *)
LEMMA GroupShape ==
    ASSUME NEW o \in Options, NEW regs \in Seq(Registered), NEW n \in Nat,
           Len(regs) = RegisterCount(o.type) * n
    PROVE  LET vals == Group(o, regs)
           IN  /\ Len(vals) = n /\ DOMAIN vals = 1..n
               /\ vals = [i \in 1..n |-> vals[i]]
               /\ RegisterCount(o.type) = 1 =>
                     \A i \in 1..n : vals[i] = Decode(o, <<regs[i]>>)
               /\ RegisterCount(o.type) = 2 =>
                     \A i \in 1..n : vals[i] = Decode(o, <<regs[2 * i - 1], regs[2 * i]>>)
  <1> DEFINE vals == Group(o, regs)
  <1>1. PICK w \in {1, 2} : w = RegisterCount(o.type)
    BY Widths DEF Options
  <1>2. Len(regs) = w * n /\ (w * n) \div w = n
    BY <1>1
  <1>3. vals = [i \in 1..n |-> Decode(o, SubSeq(regs, (i - 1) * w + 1, i * w))]
    BY <1>1, <1>2 DEF Group
  <1>4. ASSUME w = 1, NEW i \in 1..n
        PROVE  vals[i] = Decode(o, <<regs[i]>>)
    <2>1. (i - 1) * w + 1 = i /\ i * w = i /\ i \in 1..Len(regs)
      BY <1>2, <1>4
    <2>2. PICK e : e = SubSeq(regs, i, i)
      OBVIOUS
    <2>3. \A j \in i..i : regs[j] \in Registered
      BY <2>1
    <2>4. /\ e \in Seq(Registered) /\ Len(e) = IF i <= i THEN i - i + 1 ELSE 0
          /\ \A j \in 1..(i - i + 1) : e[j] = regs[i + j - 1]
      BY <2>2, <2>3, SubSeqProperties
    <2>5. Len(e) = 1 /\ e[1] = regs[i]
      BY <2>4
    <2>6. e = <<regs[i]>>
      BY <2>4, <2>5
    <2> QED BY <1>3, <2>1, <2>2, <2>6
  <1>5. ASSUME w = 2, NEW i \in 1..n
        PROVE  vals[i] = Decode(o, <<regs[2 * i - 1], regs[2 * i]>>)
    <2>1. /\ (i - 1) * w + 1 = 2 * i - 1 /\ i * w = 2 * i
          /\ 2 * i - 1 \in 1..Len(regs) /\ 2 * i \in 1..Len(regs)
      BY <1>2, <1>5
    <2>2. PICK e : e = SubSeq(regs, 2 * i - 1, 2 * i)
      OBVIOUS
    <2>3. \A j \in (2 * i - 1)..(2 * i) : regs[j] \in Registered
      BY <2>1
    <2>4. PICK a \in Int, b \in Int : a = 2 * i - 1 /\ b = 2 * i
      OBVIOUS
    <2>5. /\ e \in Seq(Registered) /\ Len(e) = IF a <= b THEN b - a + 1 ELSE 0
          /\ \A j \in 1..(b - a + 1) : e[j] = regs[a + j - 1]
      BY <2>2, <2>3, <2>4, SubSeqProperties
    <2>6. Len(e) = 2 /\ e[1] = regs[2 * i - 1] /\ e[2] = regs[2 * i]
      BY <2>4, <2>5
    <2>7. e = <<regs[2 * i - 1], regs[2 * i]>>
      BY <2>5, <2>6
    <2> QED BY <1>3, <2>1, <2>2, <2>7
  <1>6. Len(vals) = n /\ DOMAIN vals = 1..n /\ vals = [i \in 1..n |-> vals[i]]
    BY <1>3
  <1> HIDE DEF vals
  <1> QED BY <1>1, <1>4, <1>5, <1>6 DEF vals

(* What was encoded is decoded again, value by value. *)
LEMMA GroupOfRegisters ==
    ASSUME NEW o \in Options, NEW ls \in Seq(Int),
           \A i \in 1..Len(ls) : InRange(o.type, ls[i])
    PROVE  Group(o, Registers(o, ls)) = ls
  <1>1. PICK n \in Nat : n = Len(ls)
    OBVIOUS
  <1>2. PICK w \in {1, 2} : w = RegisterCount(o.type)
    BY Widths DEF Options
  <1>3. PICK regs \in Seq(Registered) : regs = Registers(o, ls) /\ Len(regs) = w * n
    BY <1>1, <1>2, RegistersType, RegistersShape
  <1>4. PICK vals : /\ vals = Group(o, regs) /\ Len(vals) = n
                    /\ vals = [i \in 1..n |-> vals[i]]
                    /\ w = 1 => \A i \in 1..n : vals[i] = Decode(o, <<regs[i]>>)
                    /\ w = 2 => \A i \in 1..n :
                                 vals[i] = Decode(o, <<regs[2 * i - 1], regs[2 * i]>>)
    <2>1. Len(regs) = RegisterCount(o.type) * n
      BY <1>2, <1>3
    <2>2. Len(Group(o, regs)) = n /\ Group(o, regs) = [i \in 1..n |-> Group(o, regs)[i]]
      BY <2>1, GroupShape
    <2>3. w = 1 => \A i \in 1..n : Group(o, regs)[i] = Decode(o, <<regs[i]>>)
      BY <1>2, <2>1, GroupShape
    <2>4. w = 2 => \A i \in 1..n :
                      Group(o, regs)[i] = Decode(o, <<regs[2 * i - 1], regs[2 * i]>>)
      BY <1>2, <2>1, GroupShape
    <2> QED BY <2>2, <2>3, <2>4
  <1>5. ASSUME NEW i \in 1..n PROVE vals[i] = ls[i]
    <2>1. PICK v \in Int : v = ls[i] /\ InRange(o.type, v)
      BY <1>1, <1>5
    <2>2. PICK e \in Seq(Registered) : e = Encode(o, v) /\ Len(e) = w /\ Decode(o, e) = v
      BY <1>2, <2>1, DecodeEncode
    <2>3. CASE w = 1
      <3>1. vals[i] = Decode(o, <<regs[i]>>)
        BY <1>4, <2>3
      <3>2. regs[i] = e[1]
        BY <1>1, <1>2, <1>3, <2>1, <2>2, <2>3, RegistersShape
      <3>3. e = <<e[1]>>
        BY <2>2, <2>3
      <3> QED BY <2>1, <2>2, <3>1, <3>2, <3>3
    <2>4. CASE w = 2
      <3>1. vals[i] = Decode(o, <<regs[2 * i - 1], regs[2 * i]>>)
        BY <1>4, <2>4
      <3>2. regs[2 * i - 1] = e[1] /\ regs[2 * i] = e[2]
        BY <1>1, <1>2, <1>3, <2>1, <2>2, <2>4, RegistersShape
      <3>3. e = <<e[1], e[2]>>
        BY <2>2, <2>4
      <3> QED BY <2>1, <2>2, <3>1, <3>2, <3>3
    <2> QED BY <2>3, <2>4
  <1>6. ls = [i \in 1..n |-> ls[i]]
    BY <1>1
  <1> QED BY <1>3, <1>4, <1>5, <1>6

(* And the registers of what was read are the registers that were read. *)
LEMMA RegistersOfGroup ==
    ASSUME NEW o \in Options, NEW regs \in Seq(Registered), NEW n \in Nat,
           Len(regs) = RegisterCount(o.type) * n
    PROVE  /\ Group(o, regs) \in Seq(Int)
           /\ Len(Group(o, regs)) = n
           /\ \A i \in 1..n : InRange(o.type, Group(o, regs)[i])
           /\ Registers(o, Group(o, regs)) = regs
  <1>1. PICK w \in {1, 2} : w = RegisterCount(o.type)
    BY Widths DEF Options
  <1>2. Len(regs) = w * n /\ w * n \in Nat
    BY <1>1
  <1>3. PICK vals : /\ vals = Group(o, regs) /\ Len(vals) = n
                    /\ vals = [i \in 1..n |-> vals[i]]
                    /\ w = 1 => \A i \in 1..n : vals[i] = Decode(o, <<regs[i]>>)
                    /\ w = 2 => \A i \in 1..n :
                                 vals[i] = Decode(o, <<regs[2 * i - 1], regs[2 * i]>>)
    <2>1. Len(regs) = RegisterCount(o.type) * n
      BY <1>1
    <2>2. Len(Group(o, regs)) = n /\ Group(o, regs) = [i \in 1..n |-> Group(o, regs)[i]]
      BY <2>1, GroupShape
    <2>3. w = 1 => \A i \in 1..n : Group(o, regs)[i] = Decode(o, <<regs[i]>>)
      BY <1>1, <2>1, GroupShape
    <2>4. w = 2 => \A i \in 1..n :
                      Group(o, regs)[i] = Decode(o, <<regs[2 * i - 1], regs[2 * i]>>)
      BY <1>1, <2>1, GroupShape
    <2> QED BY <2>2, <2>3, <2>4
  <1>4. ASSUME NEW i \in 1..n
        PROVE  /\ vals[i] \in Int /\ InRange(o.type, vals[i])
               /\ w = 1 => Encode(o, vals[i]) = <<regs[i]>>
               /\ w = 2 => Encode(o, vals[i]) = <<regs[2 * i - 1], regs[2 * i]>>
    <2>1. CASE w = 1
      <3>1. vals[i] = Decode(o, <<regs[i]>>)
        BY <1>3, <2>1
      <3>2. i \in 1..Len(regs)
        BY <1>2, <2>1
      <3>3. regs[i] \in Registered
        BY <3>2
      <3>4. PICK e \in Seq(Registered) : e = <<regs[i]>> /\ Len(e) = 1
        BY <3>3, OneIsSeq
      <3>5. /\ Decode(o, e) \in Int /\ InRange(o.type, Decode(o, e))
            /\ Encode(o, Decode(o, e)) = e
        BY <1>1, <2>1, <3>4, EncodeDecode
      <3> QED BY <2>1, <3>1, <3>4, <3>5
    <2>2. CASE w = 2
      <3>1. vals[i] = Decode(o, <<regs[2 * i - 1], regs[2 * i]>>)
        BY <1>3, <2>2
      <3>2. 2 * i - 1 \in 1..Len(regs) /\ 2 * i \in 1..Len(regs)
        BY <1>2, <2>2
      <3>3. regs[2 * i - 1] \in Registered /\ regs[2 * i] \in Registered
        BY <3>2
      <3>4. PICK e \in Seq(Registered) : e = <<regs[2 * i - 1], regs[2 * i]>> /\ Len(e) = 2
        BY <3>3, PairIsSeq
      <3>5. /\ Decode(o, e) \in Int /\ InRange(o.type, Decode(o, e))
            /\ Encode(o, Decode(o, e)) = e
        BY <1>1, <2>2, <3>4, EncodeDecode
      <3> QED BY <2>2, <3>1, <3>4, <3>5
    <2> QED BY <2>1, <2>2
  <1>5. vals \in Seq(Int)
    BY <1>3, <1>4
  <1>6. PICK again : again = Registers(o, vals)
    OBVIOUS
  <1>7. Len(again) = w * n /\ DOMAIN again = 1..(w * n)
    BY <1>1, <1>3, <1>5, <1>6, RegistersShape
  <1>8. w = 1 => \A i \in 1..n : again[i] = Encode(o, vals[i])[1]
    <2>1. w = 1 => \A i \in 1..Len(vals) : again[i] = Encode(o, vals[i])[1]
      BY <1>1, <1>5, <1>6, RegistersShape
    <2> QED BY <1>3, <2>1
  <1>9. w = 2 => \A i \in 1..n : /\ again[2 * i - 1] = Encode(o, vals[i])[1]
                                 /\ again[2 * i] = Encode(o, vals[i])[2]
    <2>1. w = 2 => \A i \in 1..Len(vals) : /\ again[2 * i - 1] = Encode(o, vals[i])[1]
                                           /\ again[2 * i] = Encode(o, vals[i])[2]
      BY <1>1, <1>5, <1>6, RegistersShape
    <2> QED BY <1>3, <2>1
  <1>10. ASSUME NEW k \in 1..(w * n) PROVE again[k] = regs[k]
    <2>1. CASE w = 1
      <3>1. k \in 1..n
        BY <2>1
      <3>2. again[k] = Encode(o, vals[k])[1]
        BY <1>8, <2>1, <3>1
      <3> QED BY <1>4, <2>1, <3>1, <3>2
    <2>2. CASE w = 2
      <3>1. PICK i \in 1..n : k = 2 * i - 1 \/ k = 2 * i
        <4>1. (k + 1) \div 2 \in 1..n /\ (k = 2 * ((k + 1) \div 2) - 1 \/ k = 2 * ((k + 1) \div 2))
          BY <2>2
        <4> QED BY <4>1
      <3>2. again[2 * i - 1] = Encode(o, vals[i])[1] /\ again[2 * i] = Encode(o, vals[i])[2]
        BY <1>9, <2>2, <3>1
      <3>3. Encode(o, vals[i]) = <<regs[2 * i - 1], regs[2 * i]>>
        BY <1>4, <2>2
      <3> QED BY <3>1, <3>2, <3>3
    <2> QED BY <2>1, <2>2
  <1>11. again = [k \in 1..(w * n) |-> again[k]]
    BY <1>1, <1>3, <1>5, <1>6, <1>7 DEF Registers
  <1>12. again = regs
    BY <1>2, <1>10, <1>11
  <1> QED BY <1>3, <1>4, <1>5, <1>6, <1>12

-----------------------------------------------------------------------------
(* The inductive invariant: each step's result, as a function of what it   *)
(* began with; the exchange with the device is what it means.              *)

Sound(m) == /\ m \in Memory
            /\ \A a \in Addresses : m.holding[a] \in Registered /\ m.input[a] \in Registered

Carried(m, c) == IF QuantityOK(c) THEN [mem |-> Written(m, c), res |-> Meant(m, c)]
                 ELSE [mem |-> m, res |-> Outcome("limit", <<>>)]

GivenInv == /\ opt \in Options
            /\ spec \in [table : Tables, numeral : Nat, count : Nat]
            /\ literals \in LiteralLists
            /\ phase \in {"start", "planned", "written", "read"}

PlanInv == plan = IF phase = "start" THEN Invalid ELSE EncodeWrite(opt, spec, literals)

WriteInv == IF phase \in {"start", "planned"} THEN outcome = Invalid /\ mem = InitMem
            ELSE /\ OnDevice
                 /\ IF plan = Invalid THEN outcome = Invalid /\ mem = InitMem
                    ELSE LET x == Carried(InitMem, WriteCall(opt, spec, plan.vals))
                         IN  outcome = x.res /\ mem = x.mem

ReadInv == got = IF phase # "read" \/ ~AddressOK(spec, opt.rawAddress) THEN Invalid
                 ELSE ReadResult(opt, spec, Carried(mem, ReadCall(opt, spec)).res)

DriverInv == GivenInv /\ PlanInv /\ WriteInv /\ ReadInv /\ Sound(mem)

(* An offset is never below the first cell. *)
LEMMA OffsetType ==
    ASSUME NEW t \in Tables, NEW num \in Nat, NEW raw \in BOOLEAN
    PROVE  Offset(t, num, raw) \in Nat
  BY DEF Offset, InBand, ClassicBase, Tables, classicBandWidth

(* What a dry run shows is what fits the table: bits, or registers of two  *)
(* bytes, and at least one.                                                *)
LEMMA PlanType ==
    ASSUME NEW o \in Options, NEW s \in [table : Tables, numeral : Nat, count : Nat],
           NEW ls \in LiteralLists, EncodeWrite(o, s, ls) # Invalid
    PROVE  LET e == EncodeWrite(o, s, ls)
           IN  /\ AddressOK(s, o.rawAddress) /\ s.table \in {"coil", "holding"}
               /\ ls \in Seq(Int)
               /\ e.kind = "plan"
               /\ e.vals \in Seq(Registered) /\ Len(e.vals) > 0
               /\ s.table = "coil" => e.vals = ls /\ e.vals \in Seq({0, 1})
               /\ s.table = "holding" => /\ e.vals = Registers(o, ls)
                                         /\ \A i \in 1..Len(ls) : InRange(o.type, ls[i])
  <1>1. ls \in Seq(Int) /\ ls # <<>> /\ Len(ls) \in Nat /\ Len(ls) > 0
    BY LiteralsAssumption
  <1>2. /\ AddressOK(s, o.rawAddress) /\ s.table \in {"coil", "holding"}
        /\ LiteralsOK(o, s, ls)
    BY DEF EncodeWrite, Writable
  <1>3. PICK e : e = EncodeWrite(o, s, ls)
    OBVIOUS
  <1>4. e = [kind |-> "plan", vals |-> IF s.table = "coil" THEN ls ELSE Registers(o, ls)]
    BY <1>2, <1>3 DEF EncodeWrite, Writable
  <1>5. CASE s.table = "coil"
    <2>1. e.vals = ls /\ e.kind = "plan"
      BY <1>4, <1>5
    <2>2. \A i \in 1..Len(ls) : ls[i] \in {0, 1}
      BY <1>2, <1>5 DEF LiteralsOK
    <2>3. ls = [i \in 1..Len(ls) |-> ls[i]]
      BY <1>1
    <2>4. ls \in Seq({0, 1})
      BY <1>1, <2>2, <2>3
    <2>5. {0, 1} \subseteq Registered
      <3>1. WordSize > 1
        <4>1. PICK b \in Nat : b = ByteSize /\ b >= 2
          BY ByteSizeAssumption
        <4>2. b * b >= 2 * b
          BY <4>1
        <4> QED BY <4>1, <4>2 DEF WordSize
      <3> QED BY <3>1, Sizes DEF Registered
    <2>6. ls \in Seq(Registered)
      BY <2>4, <2>5
    <2> QED BY <1>1, <1>2, <1>3, <1>5, <2>1, <2>4, <2>6
  <1>6. CASE s.table = "holding"
    <2>1. e.vals = Registers(o, ls) /\ e.kind = "plan"
      BY <1>4, <1>6
    <2>2. \A i \in 1..Len(ls) : InRange(o.type, ls[i])
      BY <1>2, <1>6 DEF LiteralsOK
    <2>3. Registers(o, ls) \in Seq(Registered)
      BY <1>1, <2>2, RegistersType
    <2>4. Len(Registers(o, ls)) > 0
      <3>1. Len(Registers(o, ls)) = RegisterCount(o.type) * Len(ls)
        BY <1>1, RegistersShape
      <3>2. RegisterCount(o.type) \in {1, 2}
        BY Widths DEF Options
      <3> QED BY <1>1, <3>1, <3>2
    <2> QED BY <1>1, <1>2, <1>3, <1>6, <2>1, <2>2, <2>3, <2>4
  <1> QED BY <1>2, <1>5, <1>6

(* The call that carries it is one the client can make. *)
LEMMA WriteCallType ==
    ASSUME NEW o \in Options, NEW s \in [table : Tables, numeral : Nat, count : Nat],
           AddressOK(s, o.rawAddress), s.table \in {"coil", "holding"},
           NEW vals \in Seq(Registered), Len(vals) > 0,
           s.table = "coil" => vals \in Seq({0, 1})
    PROVE  LET c == WriteCall(o, s, vals)
           IN  /\ c.addr = Offset(s.table, s.numeral, o.rawAddress) /\ c.addr \in Words
               /\ c.qty = Len(vals) /\ c.vals = vals
               /\ c.fc \in Writes
               /\ s.table = "coil" => c.fc \in {5, 15} /\ TableOf(c.fc) = "coils"
               /\ s.table = "holding" => c.fc \in {6, 16} /\ TableOf(c.fc) = "holding"
               /\ QuantityOK(c) => WellFormed(c)
               /\ ~QuantityOK(c) => c.qty > Limit(c.fc)
  <1>1. PICK c : c = WriteCall(o, s, vals)
    OBVIOUS
  <1>2. PICK fc : fc = c.fc
    OBVIOUS
  <1>3. PICK n \in Nat : n = Len(vals) /\ n > 0
    OBVIOUS
  <1>4. PICK a \in Words : a = Offset(s.table, s.numeral, o.rawAddress)
    <2>1. o.rawAddress \in BOOLEAN /\ s.table \in Tables /\ s.numeral \in Nat
      BY DEF Options
    <2> QED BY <2>1, OffsetType DEF AddressOK, OffsetOK, Words
  <1>5. c = [fc |-> fc, addr |-> a, qty |-> n, vals |-> vals]
    BY <1>1, <1>2, <1>3, <1>4 DEF WriteCall
  <1>6. /\ s.table = "coil" => fc = IF n = 1 THEN 5 ELSE 15
        /\ s.table = "holding" => fc = IF n = 1 THEN 6 ELSE 16
    BY <1>1, <1>2, <1>3 DEF WriteCall, FuncWriteSingleCoil, FuncWriteMultipleCoils,
         FuncWriteSingleRegister, FuncWriteMultipleRegisters
  <1>7. /\ fc \in {5, 6, 15, 16} /\ fc \in Writes /\ fc \notin Reads
        /\ fc \in SingleWrites => n = 1
        /\ fc \in CoilWrites => s.table = "coil"
    BY <1>6, Codes
  <1>8. /\ s.table = "coil" => TableOf(fc) = "coils"
        /\ s.table = "holding" => TableOf(fc) = "holding"
    BY <1>6, Codes DEF TableOf, FuncReadCoils, FuncReadDiscreteInputs, FuncReadInputRegisters
  <1>9. QuantityOK(c) => n < 65536
    <2>1. Limit(fc) \in {1, 123, 1968}
      BY <1>7, Limits
    <2> QED BY <1>5, <2>1 DEF QuantityOK
  <1>10. vals \in Seq(Words)
    BY RegisteredAreWords
  <1>11. QuantityOK(c) => WellFormed(c)
    <2>1. SUFFICES ASSUME QuantityOK(c) PROVE WellFormed(c)
      OBVIOUS
    <2>2. fc \in FunctionCodes /\ n \in Words
      BY <1>7, <1>9, <2>1 DEF FunctionCodes, Words
    <2>3. c \in [fc : FunctionCodes, addr : Words, qty : Words, vals : Seq(Words)]
      BY <1>5, <1>10, <2>2
    <2> QED BY <1>3, <1>5, <1>7, <2>3 DEF WellFormed
  <1>12. ~QuantityOK(c) => n > Limit(fc)
    <2>1. Limit(fc) \in {1, 123, 1968}
      BY <1>7, Limits
    <2> QED BY <1>3, <1>5, <2>1 DEF QuantityOK
  <1> QED BY <1>1, <1>3, <1>4, <1>5, <1>6, <1>7, <1>8, <1>11, <1>12

(* So is the call of the read that follows. *)
LEMMA ReadCallType ==
    ASSUME NEW o \in Options, NEW s \in [table : Tables, numeral : Nat, count : Nat],
           AddressOK(s, o.rawAddress)
    PROVE  LET c == ReadCall(o, s)
           IN  /\ c.addr = Offset(s.table, s.numeral, o.rawAddress) /\ c.addr \in Words
               /\ c.qty = ReadCount(o, s) /\ c.qty \in Nat /\ c.qty > 0
               /\ c.fc \in {1, 2, 3, 4} /\ c.fc \notin Writes
               /\ s.table = "coil" => c.fc = 1 /\ TableOf(c.fc) = "coils"
               /\ s.table = "holding" => c.fc = 3 /\ TableOf(c.fc) = "holding"
               /\ IsBits(s.table) <=> c.fc \in {1, 2}
               /\ QuantityOK(c) => WellFormed(c)
               /\ QuantityOK(c) <=> c.qty <= Limit(c.fc)
  <1>1. PICK c : c = ReadCall(o, s)
    OBVIOUS
  <1>2. PICK fc : fc = c.fc
    OBVIOUS
  <1>3. PICK n \in Nat : n = ReadCount(o, s) /\ n > 0
    <2>1. RegisterCount(o.type) \in {1, 2}
      BY Widths DEF Options
    <2> QED BY <2>1 DEF ReadCount
  <1>4. PICK a \in Words : a = Offset(s.table, s.numeral, o.rawAddress)
    <2>1. o.rawAddress \in BOOLEAN /\ s.table \in Tables /\ s.numeral \in Nat
      BY DEF Options
    <2> QED BY <2>1, OffsetType DEF AddressOK, OffsetOK, Words
  <1>5. c = [fc |-> fc, addr |-> a, qty |-> n, vals |-> <<>>]
    BY <1>1, <1>2, <1>3, <1>4 DEF ReadCall
  <1>6. /\ s.table = "coil" => fc = 1
        /\ s.table = "discrete" => fc = 2
        /\ s.table = "holding" => fc = 3
        /\ s.table = "input" => fc = 4
    BY <1>1, <1>2 DEF ReadCall, FuncReadCoils, FuncReadDiscreteInputs,
         FuncReadHoldingRegisters, FuncReadInputRegisters
  <1>7. s.table \in {"coil", "discrete", "holding", "input"}
    BY DEF Tables
  <1>8. fc \in {1, 2, 3, 4} /\ fc \notin Writes /\ (IsBits(s.table) <=> fc \in {1, 2})
    BY <1>6, <1>7, Codes DEF IsBits
  <1>9. /\ s.table = "coil" => TableOf(fc) = "coils"
        /\ s.table = "holding" => TableOf(fc) = "holding"
    BY <1>6, Codes DEF TableOf, FuncReadCoils, FuncReadDiscreteInputs, FuncReadInputRegisters
  <1>10. Limit(fc) \in {125, 2000}
    BY <1>8, Limits
  <1>11. QuantityOK(c) <=> n <= Limit(fc)
    BY <1>3, <1>5, <1>10 DEF QuantityOK
  <1>12. QuantityOK(c) => WellFormed(c)
    <2>1. SUFFICES ASSUME QuantityOK(c) PROVE WellFormed(c)
      OBVIOUS
    <2>2. fc \in FunctionCodes /\ n \in Words
      BY <1>8, <1>10, <1>11, <2>1, Codes DEF FunctionCodes, Words
    <2>3. <<>> \in Seq(Words)
      OBVIOUS
    <2>4. c \in [fc : FunctionCodes, addr : Words, qty : Words, vals : Seq(Words)]
      BY <1>5, <2>2, <2>3
    <2>5. fc \notin SingleWrites /\ fc \notin CoilWrites
      BY <1>8, Codes
    <2> QED BY <1>5, <1>8, <2>4, <2>5 DEF WellFormed
  <1> QED BY <1>1, <1>3, <1>4, <1>5, <1>6, <1>8, <1>9, <1>11, <1>12

(* Cell by cell, what a write leaves in the tables. *)
LEMMA OverwriteCells ==
    ASSUME NEW m \in Memory, NEW tab \in {"coils", "holding"}, NEW addr \in Nat,
           NEW vals \in Seq(Words)
    PROVE  /\ \A a \in Addresses :
                 /\ a \in addr..(addr + Len(vals) - 1) =>
                       Overwrite(m, tab, addr, vals)[tab][a] = vals[a - addr + 1]
                 /\ a \notin addr..(addr + Len(vals) - 1) =>
                       Overwrite(m, tab, addr, vals)[tab][a] = m[tab][a]
           /\ \A t \in {"coils", "discrete", "holding", "input"} :
                 t # tab => Overwrite(m, tab, addr, vals)[t] = m[t]
           /\ DOMAIN Overwrite(m, tab, addr, vals) = {"coils", "discrete", "holding", "input"}
  <1> DEFINE cells == [a \in Addresses |-> IF a \in addr..(addr + Len(vals) - 1)
                                          THEN vals[a - addr + 1] ELSE m[tab][a]]
  <1>1. Overwrite(m, tab, addr, vals) = [m EXCEPT ![tab] = cells]
    BY DEF Overwrite
  <1>2. DOMAIN m = {"coils", "discrete", "holding", "input"}
    BY DEF Memory
  <1>3. \A a \in Addresses : cells[a] = IF a \in addr..(addr + Len(vals) - 1)
                                        THEN vals[a - addr + 1] ELSE m[tab][a]
    OBVIOUS
  <1> HIDE DEF cells
  <1> QED BY <1>1, <1>2, <1>3

(* The exchange of a call that can be made is what the call means. *)
LEMMA ExchangeCarried ==
    ASSUME mem \in Memory, NEW c, c.addr \in Addresses, QuantityOK(c) => WellFormed(c)
    PROVE  Exchange(c) = Carried(mem, c)
  <1>1. CASE QuantityOK(c)
    BY <1>1, ExchangeMeans DEF Exchange, Carried
  <1>2. CASE ~QuantityOK(c)
    BY <1>2 DEF Exchange, Carried
  <1> QED BY <1>1, <1>2

(* Registers stay numbers of two bytes, bits stay bits. *)
LEMMA WrittenSound ==
    ASSUME NEW m, Sound(m), NEW c, c.addr \in Nat, c.vals \in Seq(Registered),
           \/ TableOf(c.fc) = "coils" /\ c.vals \in Seq({0, 1})
           \/ TableOf(c.fc) = "holding"
    PROVE  Sound(Written(m, c)) /\ Sound(Carried(m, c).mem)
  <1>1. CASE Written(m, c) = m
    BY <1>1 DEF Carried
  <1>2. CASE Written(m, c) # m
    <2>1. PICK tab \in {"coils", "holding"} : tab = TableOf(c.fc)
      OBVIOUS
    <2>2. PICK vals \in Seq(Registered) : vals = c.vals /\ (tab = "coils" => vals \in Seq({0, 1}))
      BY <2>1
    <2>3. PICK addr \in Nat : addr = c.addr
      OBVIOUS
    <2>4. PICK new : new = Overwrite(m, tab, addr, vals) /\ new = Written(m, c)
      BY <1>2, <2>1, <2>2, <2>3 DEF Written
    <2>5. m \in Memory /\ vals \in Seq(Words)
      BY RegisteredAreWords DEF Sound
    <2>6. new \in Memory
      BY <2>1, <2>2, <2>4, <2>5, OverwriteType
    <2>7. /\ \A a \in Addresses :
                /\ a \in addr..(addr + Len(vals) - 1) => new[tab][a] = vals[a - addr + 1]
                /\ a \notin addr..(addr + Len(vals) - 1) => new[tab][a] = m[tab][a]
          /\ \A t \in {"coils", "discrete", "holding", "input"} : t # tab => new[t] = m[t]
      <3>1. \A a \in Addresses :
               /\ a \in addr..(addr + Len(vals) - 1) =>
                     Overwrite(m, tab, addr, vals)[tab][a] = vals[a - addr + 1]
               /\ a \notin addr..(addr + Len(vals) - 1) =>
                     Overwrite(m, tab, addr, vals)[tab][a] = m[tab][a]
        BY <2>5, OverwriteCells
      <3>2. \A t \in {"coils", "discrete", "holding", "input"} :
               t # tab => Overwrite(m, tab, addr, vals)[t] = m[t]
        BY <2>5, OverwriteCells
      <3> QED BY ONLY <2>4, <3>1, <3>2, Zenon
    <2>8. new.input = m.input
      BY <2>7
    <2>9. ASSUME NEW a \in Addresses PROVE new.holding[a] \in Registered
      <3>1. CASE tab = "coils"
        BY <2>7, <3>1 DEF Sound
      <3>2. CASE tab = "holding"
        <4>1. CASE a \in addr..(addr + Len(vals) - 1)
          <5>1. a - addr + 1 \in 1..Len(vals)
            BY <4>1 DEF Addresses
          <5>2. new.holding[a] = vals[a - addr + 1]
            BY <2>7, <3>2, <4>1
          <5> QED BY <5>1, <5>2
        <4>2. CASE a \notin addr..(addr + Len(vals) - 1)
          BY <2>7, <3>2, <4>2 DEF Sound
        <4> QED BY <4>1, <4>2
      <3> QED BY <3>1, <3>2
    <2> QED BY <2>4, <2>6, <2>8, <2>9 DEF Sound, Carried
  <1> QED BY <1>1, <1>2

(* The device starts so. *)
LEMMA InitSound == Sound(InitMem)
  <1>1. InitMem.holding \in [Addresses -> Words] /\ InitMem.input \in [Addresses -> Words]
    BY DeviceAssumption DEF Memory
  <1>2. \A a \in Addresses : /\ InitMem.holding[a] \in Nat /\ InitMem.holding[a] < WordSize
                             /\ InitMem.input[a] \in Nat /\ InitMem.input[a] < WordSize
    BY <1>1, DeviceAssumption DEF Words, WordSize
  <1> QED BY <1>2, DeviceAssumption DEF Sound, Registered

(* The invariant holds at the start, *)
LEMMA DriverInit == Init => DriverInv
  <1> SUFFICES ASSUME Init PROVE DriverInv
    OBVIOUS
  <1>1. GivenInv
    BY NumeralsAssumption DEF Init, GivenInv
  <1>2. PlanInv /\ WriteInv /\ ReadInv
    BY DEF Init, PlanInv, WriteInv, ReadInv
  <1>3. Sound(mem)
    BY InitSound DEF Init
  <1> QED BY <1>1, <1>2, <1>3 DEF DriverInv

(* after every step, *)
LEMMA DriverNext == DriverInv /\ [Next]_driverVars => DriverInv'
  <1> SUFFICES ASSUME DriverInv, [Next]_driverVars PROVE DriverInv'
    OBVIOUS
  <1>1. CASE ExplainWrite
    <2>1. /\ phase = "start" /\ phase' = "planned"
          /\ plan' = EncodeWrite(opt, spec, literals)
          /\ opt' = opt /\ spec' = spec /\ literals' = literals
          /\ outcome' = outcome /\ mem' = mem /\ got' = got
      BY <1>1 DEF ExplainWrite
    <2>2. GivenInv'
      BY <2>1 DEF DriverInv, GivenInv
    <2>3. PlanInv'
      BY <2>1 DEF PlanInv
    <2>4. WriteInv'
      BY <2>1 DEF DriverInv, WriteInv
    <2>5. ReadInv'
      BY <2>1 DEF DriverInv, ReadInv
    <2>6. Sound(mem)'
      BY <2>1 DEF DriverInv, Sound
    <2> QED BY <2>2, <2>3, <2>4, <2>5, <2>6 DEF DriverInv
  <1>2. CASE Write
    <2>1. /\ phase = "planned" /\ phase' = "written" /\ OnDevice
          /\ opt' = opt /\ spec' = spec /\ literals' = literals
          /\ plan' = plan /\ got' = got
      BY <1>2 DEF Write
    <2>2. plan = EncodeWrite(opt, spec, literals) /\ mem = InitMem /\ got = Invalid
      BY <2>1 DEF DriverInv, PlanInv, WriteInv, ReadInv
    <2>3. GivenInv'
      BY <2>1 DEF DriverInv, GivenInv
    <2>4. PlanInv'
      BY <2>1, <2>2 DEF PlanInv
    <2>5. OnDevice'
      BY <2>1 DEF OnDevice
    <2>6. ReadInv'
      BY <2>1, <2>2 DEF ReadInv
    <2>7. CASE plan = Invalid
      <3>1. outcome' = Invalid /\ mem' = mem
        BY <1>2, <2>2, <2>7 DEF Write
      <3>2. WriteInv'
        BY <2>1, <2>2, <2>5, <2>7, <3>1 DEF WriteInv
      <3>3. Sound(mem)'
        BY <3>1 DEF DriverInv, Sound
      <3> QED BY <2>3, <2>4, <2>6, <3>2, <3>3 DEF DriverInv
    <2>8. CASE plan # Invalid
      <3>1. PICK c : c = WriteCall(opt, spec, plan.vals)
        OBVIOUS
      <3>2. outcome' = Exchange(c).res /\ mem' = Exchange(c).mem
        BY <1>2, <2>2, <2>8, <3>1 DEF Write
      <3>3. /\ opt \in Options /\ spec \in [table : Tables, numeral : Nat, count : Nat]
            /\ literals \in LiteralLists
        BY DEF DriverInv, GivenInv
      <3>4. /\ AddressOK(spec, opt.rawAddress) /\ spec.table \in {"coil", "holding"}
            /\ plan.vals \in Seq(Registered) /\ Len(plan.vals) > 0
            /\ spec.table = "coil" => plan.vals \in Seq({0, 1})
        BY <2>2, <2>8, <3>3, PlanType
      <3>5. /\ c.addr = Offset(spec.table, spec.numeral, opt.rawAddress)
            /\ c.vals = plan.vals
            /\ spec.table = "coil" => TableOf(c.fc) = "coils"
            /\ spec.table = "holding" => TableOf(c.fc) = "holding"
            /\ QuantityOK(c) => WellFormed(c)
        BY <3>1, <3>3, <3>4, WriteCallType
      <3>6. c.addr \in Addresses /\ c.addr \in Nat
        BY <2>1, <3>4, <3>5 DEF OnDevice, Addresses
      <3>7. Sound(mem) /\ mem \in Memory
        BY DEF DriverInv, Sound
      <3>8. Exchange(c) = Carried(mem, c)
        BY <3>5, <3>6, <3>7, ExchangeCarried
      <3>9. outcome' = Carried(InitMem, c).res /\ mem' = Carried(InitMem, c).mem
        BY <2>2, <3>2, <3>8
      <3>10. WriteInv'
        BY <2>1, <2>5, <2>8, <3>1, <3>9 DEF WriteInv
      <3>11. Sound(Carried(mem, c).mem)
        BY <3>4, <3>5, <3>6, <3>7, WrittenSound
      <3>12. Sound(mem')
        BY <2>2, <3>9, <3>11
      <3> QED BY <2>3, <2>4, <2>6, <3>10, <3>12 DEF DriverInv
    <2> QED BY <2>7, <2>8
  <1>3. CASE Read
    <2>1. /\ phase = "written" /\ phase' = "read"
          /\ opt' = opt /\ spec' = spec /\ literals' = literals
          /\ plan' = plan /\ outcome' = outcome /\ mem' = mem
          /\ got' = IF ~AddressOK(spec, opt.rawAddress) THEN Invalid
                    ELSE ReadResult(opt, spec, Exchange(ReadCall(opt, spec)).res)
      BY <1>3 DEF Read
    <2>2. GivenInv'
      BY <2>1 DEF DriverInv, GivenInv
    <2>3. PlanInv'
      BY <2>1 DEF DriverInv, PlanInv
    <2>4. OnDevice
      BY <2>1 DEF DriverInv, WriteInv
    <2>5. WriteInv'
      BY <2>1 DEF DriverInv, WriteInv, OnDevice
    <2>6. Sound(mem)'
      BY <2>1 DEF DriverInv, Sound
    <2>7. ASSUME AddressOK(spec, opt.rawAddress)
          PROVE  Exchange(ReadCall(opt, spec)) = Carried(mem, ReadCall(opt, spec))
      <3>1. PICK c : c = ReadCall(opt, spec)
        OBVIOUS
      <3>2. opt \in Options /\ spec \in [table : Tables, numeral : Nat, count : Nat]
        BY DEF DriverInv, GivenInv
      <3>3. /\ c.addr = Offset(spec.table, spec.numeral, opt.rawAddress)
            /\ QuantityOK(c) => WellFormed(c)
        BY <2>7, <3>1, <3>2, ReadCallType
      <3>4. c.addr \in Addresses
        BY <2>4, <2>7, <3>3 DEF OnDevice
      <3>5. mem \in Memory
        BY DEF DriverInv, Sound
      <3> QED BY <3>1, <3>3, <3>4, <3>5, ExchangeCarried
    <2>8. ReadInv'
      BY <2>1, <2>7 DEF ReadInv
    <2> QED BY <2>2, <2>3, <2>5, <2>6, <2>8 DEF DriverInv
  <1>4. CASE UNCHANGED driverVars
    <2>1. /\ opt' = opt /\ spec' = spec /\ literals' = literals /\ phase' = phase
          /\ plan' = plan /\ outcome' = outcome /\ mem' = mem /\ got' = got
      BY <1>4 DEF driverVars
    <2> QED BY <2>1 DEF DriverInv, GivenInv, PlanInv, WriteInv, ReadInv, Sound, OnDevice
  <1> QED BY <1>1, <1>2, <1>3, <1>4 DEF Next

(* and so always. *)
LEMMA DriverInvariance == DriverSpec => []DriverInv
  BY DriverInit, DriverNext, PTL DEF DriverSpec

-----------------------------------------------------------------------------
(* The properties.                                                         *)

(* Membership in the names of a cell, spelled out. *)
LEMMA NamedMeans ==
    ASSUME NEW t, NEW off \in Nat, NEW x \in {off, off + ClassicBase(t)},
           x = off => off < ClassicBase(t) \/ off > ClassicBase(t) + 9998,
           x # off => off < 9999
    PROVE  x \in Named(t, off)
  BY DEF Named

(* A number names the cell it stands for. *)
LEMMA OwnName ==
    ASSUME NEW t \in Tables, NEW num \in Nat
    PROVE  /\ InBand(t, num) => num \in Named(t, num - ClassicBase(t))
           /\ ~InBand(t, num) => num \in Named(t, num)
  <1>1. PICK base \in {1, 10001, 30001, 40001} : base = ClassicBase(t)
    BY DEF ClassicBase, Tables
  <1>2. CASE base <= num /\ num <= base + 9998
    <2>1. InBand(t, num)
      BY <1>1, <1>2 DEF InBand, classicBandWidth
    <2>2. PICK off \in Nat : off = num - base
      BY <1>1, <1>2
    <2>3. num \in {off, off + base} /\ num # off /\ off < 9999
      BY <1>1, <1>2, <2>2
    <2>4. num \in Named(t, off)
      BY <1>1, <2>2, <2>3, NamedMeans
    <2> QED BY <1>1, <2>1, <2>2, <2>4
  <1>3. CASE num < base \/ num > base + 9998
    <2>1. ~InBand(t, num)
      BY <1>1, <1>3 DEF InBand, classicBandWidth
    <2>2. num \in Named(t, num)
      BY <1>1, <1>3, NamedMeans
    <2> QED BY <2>1, <2>2
  <1> QED BY <1>1, <1>2, <1>3

(* NumbersNameOffsets, for every numeral in every notation. *)
THEOREM NamesTheirCells == DriverSpec => []NumbersNameOffsets
  <1>1. DriverInv => NumbersNameOffsets
    <2> SUFFICES ASSUME DriverInv PROVE NumbersNameOffsets
      OBVIOUS
    <2>1. spec.table \in Tables /\ spec.numeral \in Nat
      BY DEF DriverInv, GivenInv
    <2>2. /\ InBand(spec.table, spec.numeral) =>
                spec.numeral \in Named(spec.table, spec.numeral - ClassicBase(spec.table))
          /\ ~InBand(spec.table, spec.numeral) => spec.numeral \in Named(spec.table, spec.numeral)
      BY <2>1, OwnName
    <2> QED BY <2>2 DEF NumbersNameOffsets, Offset
  <1> QED BY <1>1, DriverInvariance, PTL

(* How a write that was not turned down ended, and what it left. *)
LEMMA AfterWrite ==
    ASSUME DriverInv, phase \in {"written", "read"}, plan # Invalid,
           NEW a0, a0 = Offset(spec.table, spec.numeral, opt.rawAddress),
           NEW n, n = Len(plan.vals)
    PROVE  /\ AddressOK(spec, opt.rawAddress) /\ spec.table \in {"coil", "holding"}
           /\ a0 \in Addresses /\ n \in Nat /\ n > 0
           /\ plan.kind = "plan" /\ plan.vals \in Seq(Registered)
           /\ spec.table = "coil" => plan.vals \in Seq({0, 1})
           /\ outcome.kind \in {"ok", "exception", "limit"}
           /\ outcome.kind # "ok" => mem = InitMem
           /\ outcome.kind = "ok" =>
                 /\ spec.table = "coil" => /\ n <= 1968
                                           /\ mem = Overwrite(InitMem, "coils", a0, plan.vals)
                 /\ spec.table = "holding" =>
                       n <= 123 /\ mem = Overwrite(InitMem, "holding", a0, plan.vals)
                 /\ a0 + n <= TableSize
  <1>1. /\ opt \in Options /\ spec \in [table : Tables, numeral : Nat, count : Nat]
        /\ literals \in LiteralLists
        /\ plan = EncodeWrite(opt, spec, literals)
    BY DEF DriverInv, GivenInv, PlanInv
  <1>2. PICK vals : vals = plan.vals
    OBVIOUS
  <1>3. /\ AddressOK(spec, opt.rawAddress) /\ spec.table \in {"coil", "holding"}
        /\ plan.kind = "plan" /\ vals \in Seq(Registered) /\ Len(vals) > 0
        /\ spec.table = "coil" => vals \in Seq({0, 1})
    BY <1>1, <1>2, PlanType
  <1>4. PICK c : c = WriteCall(opt, spec, vals)
    OBVIOUS
  <1>5. /\ c.addr = a0 /\ c.qty = n /\ c.vals = vals /\ c.fc \in Writes
        /\ spec.table = "coil" => c.fc \in {5, 15} /\ TableOf(c.fc) = "coils"
        /\ spec.table = "holding" => c.fc \in {6, 16} /\ TableOf(c.fc) = "holding"
    BY <1>1, <1>2, <1>3, <1>4, WriteCallType
  <1>6. /\ OnDevice
        /\ outcome = Carried(InitMem, c).res /\ mem = Carried(InitMem, c).mem
    BY <1>2, <1>4 DEF DriverInv, WriteInv
  <1>7. a0 \in Addresses /\ n \in Nat /\ n > 0
    BY <1>2, <1>3, <1>6 DEF OnDevice
  <1>8. CASE ~QuantityOK(c)
    BY <1>2, <1>3, <1>6, <1>7, <1>8 DEF Carried, Outcome
  <1>9. CASE QuantityOK(c) /\ ~InTable(c)
    <2>1. outcome = Outcome("exception", <<exIllegalAddress>>) /\ mem = InitMem
      BY <1>6, <1>9 DEF Carried, Meant, Written
    <2> QED BY <1>2, <1>3, <1>7, <2>1 DEF Outcome
  <1>10. CASE QuantityOK(c) /\ InTable(c)
    <2>1. outcome = Outcome("ok", <<>>) /\ mem = Overwrite(InitMem, TableOf(c.fc), c.addr, c.vals)
      BY <1>5, <1>6, <1>10 DEF Carried, Meant, Written
    <2>2. a0 + n <= TableSize
      BY <1>5, <1>10 DEF InTable
    <2>3. n <= Limit(c.fc)
      BY <1>5, <1>10 DEF QuantityOK
    <2>4. /\ spec.table = "coil" => n <= 1968 /\ mem = Overwrite(InitMem, "coils", a0, vals)
          /\ spec.table = "holding" => n <= 123 /\ mem = Overwrite(InitMem, "holding", a0, vals)
      <3>1. CASE spec.table = "coil"
        <4>1. Limit(c.fc) \in {1, 1968}
          BY <1>5, <3>1, Limits
        <4> QED BY <1>5, <1>7, <2>1, <2>3, <3>1, <4>1
      <3>2. CASE spec.table = "holding"
        <4>1. Limit(c.fc) \in {1, 123}
          BY <1>5, <3>2, Limits
        <4> QED BY <1>5, <1>7, <2>1, <2>3, <3>2, <4>1
      <3> QED BY <1>3, <3>1, <3>2
    <2> QED BY <1>2, <1>3, <1>7, <2>1, <2>2, <2>4 DEF Outcome
  <1> QED BY <1>8, <1>9, <1>10

(* PlanIsWritten, for every memory and every list of values. *)
THEOREM DryRunIsHonest == DriverSpec => []PlanIsWritten
  <1>1. DriverInv => PlanIsWritten
    <2> SUFFICES ASSUME DriverInv, phase \in {"written", "read"}
                 PROVE  /\ outcome = Invalid <=> plan = Invalid
                        /\ IF outcome.kind # "ok" THEN mem = InitMem
                           ELSE LET a0 == Offset(spec.table, spec.numeral, opt.rawAddress)
                                    tab == IF spec.table = "coil" THEN "coils" ELSE "holding"
                                IN  /\ \A t \in DOMAIN mem \ {tab} : mem[t] = InitMem[t]
                                    /\ \A a \in Addresses :
                                          mem[tab][a] = IF a0 <= a /\ a < a0 + Len(plan.vals)
                                                        THEN plan.vals[a - a0 + 1]
                                                        ELSE InitMem[tab][a]
      BY DEF PlanIsWritten
    <2>1. CASE plan = Invalid
      <3>1. outcome = Invalid /\ mem = InitMem
        BY <2>1 DEF DriverInv, WriteInv
      <3>2. outcome.kind # "ok"
        BY <3>1 DEF Invalid
      <3> QED BY <2>1, <3>1, <3>2
    <2>2. CASE plan # Invalid
      <3>1. PICK a0 : a0 = Offset(spec.table, spec.numeral, opt.rawAddress)
        OBVIOUS
      <3>2. PICK vals : vals = plan.vals
        OBVIOUS
      <3>3. PICK n : n = Len(vals)
        OBVIOUS
      <3>4. /\ spec.table \in {"coil", "holding"}
            /\ a0 \in Addresses /\ n \in Nat /\ n > 0 /\ vals \in Seq(Registered)
            /\ outcome.kind \in {"ok", "exception", "limit"}
            /\ outcome.kind # "ok" => mem = InitMem
            /\ outcome.kind = "ok" =>
                  /\ spec.table = "coil" => mem = Overwrite(InitMem, "coils", a0, vals)
                  /\ spec.table = "holding" => mem = Overwrite(InitMem, "holding", a0, vals)
        BY <2>2, <3>1, <3>2, <3>3, AfterWrite
      <3>5. outcome # Invalid
        BY <3>4 DEF Invalid
      <3>6. CASE outcome.kind # "ok"
        BY <2>2, <3>4, <3>5, <3>6
      <3>7. CASE outcome.kind = "ok"
        <4>1. PICK tab \in {"coils", "holding"} :
                 tab = IF spec.table = "coil" THEN "coils" ELSE "holding"
          OBVIOUS
        <4>2. mem = Overwrite(InitMem, tab, a0, vals)
          BY <3>4, <3>7, <4>1
        <4>3. InitMem \in Memory /\ vals \in Seq(Words) /\ a0 \in Nat
          BY <3>4, DeviceAssumption, RegisteredAreWords DEF Addresses
        <4>4. \A a \in Addresses :
                 /\ a \in a0..(a0 + Len(vals) - 1) =>
                       Overwrite(InitMem, tab, a0, vals)[tab][a] = vals[a - a0 + 1]
                 /\ a \notin a0..(a0 + Len(vals) - 1) =>
                       Overwrite(InitMem, tab, a0, vals)[tab][a] = InitMem[tab][a]
          BY <4>3, OverwriteCells
        <4>5. /\ \A t \in {"coils", "discrete", "holding", "input"} :
                    t # tab => Overwrite(InitMem, tab, a0, vals)[t] = InitMem[t]
              /\ DOMAIN Overwrite(InitMem, tab, a0, vals) =
                    {"coils", "discrete", "holding", "input"}
          BY <4>3, OverwriteCells
        <4>6. \A t \in DOMAIN mem \ {tab} : mem[t] = InitMem[t]
          BY ONLY <4>2, <4>5, Zenon
        <4>7. ASSUME NEW a \in Addresses
              PROVE  mem[tab][a] = IF a0 <= a /\ a < a0 + Len(vals) THEN vals[a - a0 + 1]
                                   ELSE InitMem[tab][a]
          <5>1. a0 <= a /\ a < a0 + Len(vals) <=> a \in a0..(a0 + Len(vals) - 1)
            BY <3>3, <3>4 DEF Addresses
          <5>2. /\ a \in a0..(a0 + Len(vals) - 1) => mem[tab][a] = vals[a - a0 + 1]
                /\ a \notin a0..(a0 + Len(vals) - 1) => mem[tab][a] = InitMem[tab][a]
            BY ONLY <4>2, <4>4, Zenon
          <5> QED BY ONLY <5>1, <5>2, Zenon
        <4> QED BY <2>2, <3>1, <3>2, <3>5, <3>7, <4>1, <4>6, <4>7
      <3> QED BY <3>6, <3>7
    <2> QED BY <2>1, <2>2
  <1> QED BY <1>1, DriverInvariance, PTL

(* The registers a read is given are numbers of two bytes. *)
LEMMA SliceSound ==
    ASSUME NEW m, Sound(m), NEW fc \in {3, 4}, NEW addr \in Nat, NEW qty \in Nat,
           addr + qty <= TableSize
    PROVE  /\ Slice(m[TableOf(fc)], addr, qty) \in Seq(Registered)
           /\ Len(Slice(m[TableOf(fc)], addr, qty)) = qty
  <1>1. PICK table : table = m[TableOf(fc)] /\ \A a \in Addresses : table[a] \in Registered
    BY TableNames DEF Sound
  <1>2. \A i \in 1..qty : addr + i - 1 \in Addresses
    BY TableSizeAssumption DEF Addresses
  <1>3. PICK vals : vals = [i \in 1..qty |-> table[addr + i - 1]]
    OBVIOUS
  <1>4. vals \in Seq(Registered) /\ Len(vals) = qty
    <2>1. \A i \in 1..qty : vals[i] \in Registered
      BY <1>1, <1>2, <1>3
    <2> QED BY <1>3, <2>1
  <1> QED BY <1>1, <1>3, <1>4 DEF Slice

(* What a read of a proper address returns. *)
LEMMA AfterRead ==
    ASSUME DriverInv, phase = "read", AddressOK(spec, opt.rawAddress),
           NEW c, c = ReadCall(opt, spec),
           NEW cells, cells = Slice(mem[TableOf(c.fc)], c.addr, c.qty),
           NEW w, w = RegisterCount(opt.type)
    PROVE  /\ w \in {1, 2} /\ c.qty \in Nat /\ c.qty > 0 /\ c.addr \in Nat
           /\ c.fc \in {1, 2, 3, 4} /\ (IsBits(spec.table) <=> c.fc \in {1, 2})
           /\ c.qty > Limit(c.fc) => got = Outcome("limit", <<>>)
           /\ c.qty <= Limit(c.fc) /\ c.addr + c.qty > TableSize =>
                 got = Outcome("exception", <<exIllegalAddress>>)
           /\ c.qty <= Limit(c.fc) /\ c.addr + c.qty <= TableSize =>
                 /\ Len(cells) = c.qty
                 /\ IsBits(spec.table) => got = Outcome("ok", cells)
                 /\ ~IsBits(spec.table) =>
                       /\ cells \in Seq(Registered)
                       /\ c.qty % w # 0 => got = Invalid
                       /\ c.qty % w = 0 => got = Outcome("ok", Group(opt, cells))
  <1>1. /\ opt \in Options /\ spec \in [table : Tables, numeral : Nat, count : Nat]
        /\ Sound(mem) /\ mem \in Memory
        /\ got = ReadResult(opt, spec, Carried(mem, c).res)
    BY DEF DriverInv, GivenInv, ReadInv, Sound
  <1>2. w \in {1, 2}
    BY <1>1, Widths DEF Options
  <1>3. /\ c.addr \in Nat /\ c.qty \in Nat /\ c.qty > 0 /\ c.fc \in {1, 2, 3, 4}
        /\ c.fc \notin Writes /\ (IsBits(spec.table) <=> c.fc \in {1, 2})
        /\ QuantityOK(c) <=> c.qty <= Limit(c.fc)
    <2>1. /\ c.addr \in Words /\ c.qty \in Nat /\ c.qty > 0 /\ c.fc \in {1, 2, 3, 4}
          /\ c.fc \notin Writes /\ (IsBits(spec.table) <=> c.fc \in {1, 2})
          /\ QuantityOK(c) <=> c.qty <= Limit(c.fc)
      BY <1>1, ReadCallType
    <2> QED BY <2>1 DEF Words
  <1>4. Limit(c.fc) \in Nat
    BY <1>3, Limits
  <1>5. CASE c.qty > Limit(c.fc)
    <2>1. Carried(mem, c).res = Outcome("limit", <<>>)
      BY <1>3, <1>4, <1>5 DEF Carried
    <2>2. got = Outcome("limit", <<>>)
      BY <1>1, <2>1 DEF ReadResult, Outcome
    <2> QED BY <1>2, <1>3, <1>4, <1>5, <2>2
  <1>6. CASE c.qty <= Limit(c.fc) /\ c.addr + c.qty > TableSize
    <2>1. Carried(mem, c).res = Outcome("exception", <<exIllegalAddress>>)
      BY <1>3, <1>6, TableSizeAssumption DEF Carried, Meant, InTable
    <2>2. got = Outcome("exception", <<exIllegalAddress>>)
      BY <1>1, <2>1 DEF ReadResult, Outcome
    <2> QED BY <1>2, <1>3, <1>4, <1>6, <2>2, TableSizeAssumption
  <1>7. CASE c.qty <= Limit(c.fc) /\ c.addr + c.qty <= TableSize
    <2>1. Carried(mem, c).res = Outcome("ok", cells)
      BY <1>3, <1>7 DEF Carried, Meant, InTable
    <2>2. got = ReadResult(opt, spec, Outcome("ok", cells))
      BY <1>1, <2>1
    <2>3. CASE IsBits(spec.table)
      <3>1. got = Outcome("ok", cells)
        BY <2>2, <2>3 DEF ReadResult
      <3>2. Len(cells) = c.qty
        BY <1>3 DEF Slice
      <3> QED BY <1>2, <1>3, <1>4, <1>7, <2>3, <3>1, <3>2, TableSizeAssumption
    <2>4. CASE ~IsBits(spec.table)
      <3>1. cells \in Seq(Registered) /\ Len(cells) = c.qty
        <4>1. PICK fc \in {3, 4} : fc = c.fc
          BY <1>3, <2>4
        <4>2. PICK addr \in Nat, qty \in Nat : addr = c.addr /\ qty = c.qty
          BY <1>3
        <4>3. addr + qty <= TableSize
          BY <1>7, <4>2
        <4>4. /\ Slice(mem[TableOf(fc)], addr, qty) \in Seq(Registered)
              /\ Len(Slice(mem[TableOf(fc)], addr, qty)) = qty
          BY <1>1, <4>3, SliceSound
        <4> QED BY <4>1, <4>2, <4>4
      <3>2. got = IF Len(cells) % w # 0 THEN Invalid ELSE Outcome("ok", Group(opt, cells))
        BY <2>2, <2>4 DEF ReadResult, Outcome
      <3> QED BY <1>2, <1>3, <1>4, <1>7, <2>4, <3>1, <3>2, TableSizeAssumption
    <2> QED BY <2>3, <2>4
  <1>8. \/ c.qty > Limit(c.fc)
        \/ c.qty <= Limit(c.fc) /\ c.addr + c.qty > TableSize
        \/ c.qty <= Limit(c.fc) /\ c.addr + c.qty <= TableSize
    BY <1>3, <1>4, TableSizeAssumption
  <1> QED BY <1>5, <1>6, <1>7, <1>8

(* DriverTypeOK: the device's tables keep their kinds, and a read returns  *)
(* values of the type it was asked for.                                    *)
THEOREM DriverTypeCorrect == DriverSpec => []DriverTypeOK
  <1>1. ASSUME DriverInv PROVE DriverTypeOK
    <2>1. /\ mem \in Memory /\ phase \in {"start", "planned", "written", "read"}
          /\ opt \in Options /\ spec \in [table : Tables, numeral : Nat, count : Nat]
          /\ literals \in LiteralLists
      BY <1>1 DEF DriverInv, GivenInv, Sound
    <2>2. plan.kind \in {"invalid", "plan"} /\ plan.vals \in Seq(Words)
      <3>1. CASE plan = Invalid
        BY <3>1 DEF Invalid
      <3>2. CASE plan # Invalid
        <4>1. plan = EncodeWrite(opt, spec, literals)
          BY <1>1, <3>2 DEF DriverInv, PlanInv
        <4>2. plan.kind = "plan" /\ plan.vals \in Seq(Registered)
          BY <2>1, <3>2, <4>1, PlanType
        <4>3. PICK vals \in Seq(Registered) : vals = plan.vals
          BY <4>2
        <4>4. vals \in Seq(Words)
          BY RegisteredAreWords
        <4> QED BY <4>2, <4>3, <4>4
      <3> QED BY <3>1, <3>2
    <2>3. outcome.kind \in {"invalid", "ok", "exception", "limit"}
      <3>1. CASE outcome = Invalid
        BY <3>1 DEF Invalid
      <3>2. CASE outcome # Invalid
        <4>1. phase \in {"written", "read"} /\ plan # Invalid
          BY <1>1, <2>1, <3>2 DEF DriverInv, WriteInv
        <4> QED BY <1>1, <4>1, AfterWrite
      <3> QED BY <3>1, <3>2
    <2>4. ASSUME got.kind = "ok", ~IsBits(spec.table)
          PROVE  \A i \in 1..Len(got.vals) : InRange(opt.type, got.vals[i])
      <3>1. phase = "read" /\ AddressOK(spec, opt.rawAddress)
        BY <1>1, <2>4 DEF DriverInv, ReadInv, Invalid
      <3>2. PICK c : c = ReadCall(opt, spec)
        OBVIOUS
      <3>3. PICK cells : cells = Slice(mem[TableOf(c.fc)], c.addr, c.qty)
        OBVIOUS
      <3>4. PICK w : w = RegisterCount(opt.type)
        OBVIOUS
      <3>5. /\ w \in {1, 2} /\ c.qty \in Nat /\ c.fc \in {1, 2, 3, 4} /\ c.addr \in Nat
            /\ c.qty > Limit(c.fc) => got = Outcome("limit", <<>>)
            /\ c.qty <= Limit(c.fc) /\ c.addr + c.qty > TableSize =>
                  got = Outcome("exception", <<exIllegalAddress>>)
            /\ c.qty <= Limit(c.fc) /\ c.addr + c.qty <= TableSize =>
                  /\ Len(cells) = c.qty
                  /\ cells \in Seq(Registered)
                  /\ c.qty % w # 0 => got = Invalid
                  /\ c.qty % w = 0 => got = Outcome("ok", Group(opt, cells))
        BY <1>1, <2>4, <3>1, <3>2, <3>3, <3>4, AfterRead
      <3>6. Limit(c.fc) \in Nat
        BY <3>5, Limits
      <3>7. c.qty <= Limit(c.fc) /\ c.addr + c.qty <= TableSize
        BY <2>4, <3>5, <3>6, TableSizeAssumption DEF Outcome
      <3>8. c.qty % w = 0
        BY <2>4, <3>5, <3>7 DEF Invalid
      <3>9. PICK n \in Nat : c.qty = w * n
        <4>1. PICK q \in Nat : q = c.qty /\ q % w = 0
          BY <3>5, <3>8
        <4>2. CASE w = 1
          BY <4>1, <4>2
        <4>3. CASE w = 2
          <5>1. q \div 2 \in Nat /\ q = 2 * (q \div 2)
            BY <4>1, <4>3
          <5> QED BY <4>1, <4>3, <5>1
        <4> QED BY <3>5, <4>2, <4>3
      <3>10. /\ Len(Group(opt, cells)) = n
             /\ \A i \in 1..n : InRange(opt.type, Group(opt, cells)[i])
        BY <2>1, <3>4, <3>5, <3>7, <3>9, RegistersOfGroup
      <3>11. got.vals = Group(opt, cells)
        BY <3>5, <3>7, <3>8 DEF Outcome
      <3> QED BY <3>10, <3>11
    <2> QED BY <2>1, <2>2, <2>3, <2>4 DEF DriverTypeOK
  <1> QED BY <1>1, DriverInvariance, PTL

(* ReadsBackWritten, for every type, both orders and every list of values. *)
THEOREM WhatIsWrittenIsRead == DriverSpec => []ReadsBackWritten
  <1>1. ASSUME DriverInv, phase = "read", outcome.kind = "ok",
               ReadCount(opt, spec) = Cells(literals)
        PROVE  got = Outcome("ok", literals)
    <2>1. /\ opt \in Options /\ spec \in [table : Tables, numeral : Nat, count : Nat]
          /\ literals \in LiteralLists
      BY <1>1 DEF DriverInv, GivenInv
    <2>2. plan # Invalid
      <3>1. plan = Invalid => outcome = Invalid
        BY <1>1 DEF DriverInv, WriteInv
      <3> QED BY <1>1, <3>1 DEF Invalid
    <2>3. PICK vals : vals = plan.vals
      OBVIOUS
    <2>4. /\ AddressOK(spec, opt.rawAddress) /\ spec.table \in {"coil", "holding"}
          /\ literals \in Seq(Int) /\ vals \in Seq(Registered) /\ Len(vals) > 0
          /\ spec.table = "coil" => vals = literals
          /\ spec.table = "holding" => /\ vals = Registers(opt, literals)
                                       /\ \A i \in 1..Len(literals) : InRange(opt.type, literals[i])
      <3>1. plan = EncodeWrite(opt, spec, literals)
        BY <1>1 DEF DriverInv, PlanInv
      <3> QED BY <2>1, <2>2, <2>3, <3>1, PlanType
    <2>5. PICK a0 : a0 = Offset(spec.table, spec.numeral, opt.rawAddress)
      OBVIOUS
    <2>6. PICK n : n = Len(vals)
      OBVIOUS
    <2>7. PICK tab \in {"coils", "holding"} :
             tab = IF spec.table = "coil" THEN "coils" ELSE "holding"
      OBVIOUS
    <2>8. /\ a0 \in Addresses /\ n \in Nat /\ n > 0 /\ a0 + n <= TableSize
          /\ spec.table = "coil" => n <= 1968
          /\ spec.table = "holding" => n <= 123
          /\ mem = Overwrite(InitMem, tab, a0, vals)
      <3>1. /\ a0 \in Addresses /\ n \in Nat /\ n > 0
            /\ spec.table = "coil" => /\ n <= 1968
                                      /\ mem = Overwrite(InitMem, "coils", a0, vals)
            /\ spec.table = "holding" => /\ n <= 123
                                         /\ mem = Overwrite(InitMem, "holding", a0, vals)
            /\ a0 + n <= TableSize
        BY <1>1, <2>2, <2>3, <2>5, <2>6, AfterWrite
      <3> QED BY <2>4, <2>7, <3>1
    <2>9. PICK w \in {1, 2} : w = RegisterCount(opt.type)
      BY <2>1, Widths DEF Options
    <2>10. ReadCount(opt, spec) = n
      <3>1. CASE spec.table = "coil"
        BY <1>1, <2>4, <2>6, <3>1 DEF Cells, IsBits
      <3>2. CASE spec.table = "holding"
        <4>1. Len(vals) = RegisterCount(opt.type) * Len(literals)
          BY <2>1, <2>4, <3>2, RegistersShape
        <4> QED BY <1>1, <2>6, <3>2, <4>1 DEF Cells, IsBits
      <3> QED BY <2>4, <3>1, <3>2
    <2>11. PICK c : c = ReadCall(opt, spec)
      OBVIOUS
    <2>12. /\ c.addr = a0 /\ c.qty = n /\ TableOf(c.fc) = tab /\ c.qty <= Limit(c.fc)
      <3>1. /\ c.addr = a0 /\ c.qty = n
            /\ spec.table = "coil" => c.fc = 1 /\ TableOf(c.fc) = "coils"
            /\ spec.table = "holding" => c.fc = 3 /\ TableOf(c.fc) = "holding"
        BY <2>1, <2>4, <2>5, <2>10, <2>11, ReadCallType
      <3>2. n <= Limit(c.fc)
        BY <2>4, <2>8, <3>1, Limits
      <3> QED BY <2>4, <2>7, <3>1, <3>2
    <2>13. PICK cells : cells = Slice(mem[TableOf(c.fc)], c.addr, c.qty)
      OBVIOUS
    <2>14. cells = vals
      <3>1. PICK table : table = mem[tab]
        OBVIOUS
      <3>2. \A a \in Addresses : a \in a0..(a0 + Len(vals) - 1) => table[a] = vals[a - a0 + 1]
        <4>1. InitMem \in Memory /\ vals \in Seq(Words) /\ a0 \in Nat
          BY <2>4, <2>8, DeviceAssumption, RegisteredAreWords DEF Addresses
        <4>2. \A a \in Addresses : a \in a0..(a0 + Len(vals) - 1) =>
                 Overwrite(InitMem, tab, a0, vals)[tab][a] = vals[a - a0 + 1]
          BY <4>1, OverwriteCells
        <4>3. table = Overwrite(InitMem, tab, a0, vals)[tab]
          BY <2>8, <3>1
        <4> QED BY ONLY <4>2, <4>3, Zenon
      <3>3. cells = [i \in 1..n |-> table[a0 + i - 1]]
        BY <2>12, <2>13, <3>1 DEF Slice
      <3>4. ASSUME NEW i \in 1..n PROVE table[a0 + i - 1] = vals[i]
        <4>1. a0 + i - 1 \in Addresses /\ a0 + i - 1 \in a0..(a0 + Len(vals) - 1)
          BY <2>6, <2>8, TableSizeAssumption DEF Addresses
        <4>2. (a0 + i - 1) - a0 + 1 = i
          BY <2>8 DEF Addresses
        <4> QED BY <3>2, <4>1, <4>2
      <3>5. vals = [i \in 1..n |-> vals[i]]
        BY <2>4, <2>6
      <3> QED BY <3>3, <3>4, <3>5
    <2>15. /\ IsBits(spec.table) => got = Outcome("ok", cells)
           /\ (~IsBits(spec.table) /\ c.qty % w = 0) => got = Outcome("ok", Group(opt, cells))
      <3>1. c.qty <= Limit(c.fc) /\ c.addr + c.qty <= TableSize
        BY <2>8, <2>12
      <3> QED BY <1>1, <2>4, <2>9, <2>11, <2>13, <3>1, AfterRead
    <2>16. CASE spec.table = "coil"
      BY <2>4, <2>14, <2>15, <2>16 DEF IsBits
    <2>17. CASE spec.table = "holding"
      <3>1. Group(opt, vals) = literals
        BY <2>1, <2>4, <2>17, GroupOfRegisters
      <3>2. n % w = 0
        <4>1. n = w * Len(literals)
          BY <2>1, <2>4, <2>6, <2>9, <2>17, RegistersShape
        <4>2. PICK k \in Nat : k = Len(literals)
          BY <2>4
        <4> QED BY <2>9, <4>1, <4>2
      <3> QED BY <2>12, <2>14, <2>15, <2>17, <3>1, <3>2 DEF IsBits
    <2> QED BY <2>4, <2>16, <2>17
  <1>2. DriverInv => ReadsBackWritten
    BY <1>1 DEF ReadsBackWritten
  <1> QED BY <1>2, DriverInvariance, PTL

(* ReadsTheCells, for every memory, every address and every count. *)
THEOREM ReadsAreExact == DriverSpec => []ReadsTheCells
  <1>1. ASSUME DriverInv, phase = "read", AddressOK(spec, opt.rawAddress),
               NEW c, c = ReadCall(opt, spec)
        PROVE  /\ c.qty > Limit(c.fc) => got.kind = "limit"
               /\ c.qty <= Limit(c.fc) /\ c.addr + c.qty > TableSize =>
                     got = Outcome("exception", <<exIllegalAddress>>)
               /\ c.qty <= Limit(c.fc) /\ c.addr + c.qty <= TableSize =>
                     /\ got.kind = "ok" =>
                           (IF IsBits(spec.table) THEN got.vals ELSE Registers(opt, got.vals))
                              = Slice(mem[TableOf(c.fc)], c.addr, c.qty)
                     /\ got.kind # "ok" => got = Invalid /\ c.qty % RegisterCount(opt.type) # 0
               /\ Limit(c.fc) \in Nat /\ c.qty \in Nat /\ c.addr \in Nat
    <2>1. opt \in Options
      BY <1>1 DEF DriverInv, GivenInv
    <2>2. PICK cells : cells = Slice(mem[TableOf(c.fc)], c.addr, c.qty)
      OBVIOUS
    <2>3. PICK w \in {1, 2} : w = RegisterCount(opt.type)
      BY <2>1, Widths DEF Options
    <2>4. /\ c.qty \in Nat /\ c.addr \in Nat /\ c.fc \in {1, 2, 3, 4}
          /\ c.qty > Limit(c.fc) => got = Outcome("limit", <<>>)
          /\ c.qty <= Limit(c.fc) /\ c.addr + c.qty > TableSize =>
                got = Outcome("exception", <<exIllegalAddress>>)
          /\ c.qty <= Limit(c.fc) /\ c.addr + c.qty <= TableSize =>
                /\ Len(cells) = c.qty
                /\ IsBits(spec.table) => got = Outcome("ok", cells)
                /\ ~IsBits(spec.table) =>
                      /\ cells \in Seq(Registered)
                      /\ c.qty % w # 0 => got = Invalid
                      /\ c.qty % w = 0 => got = Outcome("ok", Group(opt, cells))
      BY <1>1, <2>2, <2>3, AfterRead
    <2>5. Limit(c.fc) \in Nat
      <3>1. PICK fc \in {1, 2, 3, 4} : fc = c.fc
        BY <2>4
      <3>2. Limit(fc) \in Nat
        BY ONLY fc \in {1, 2, 3, 4}, Limits
      <3> QED BY <3>1, <3>2
    <2>6. ASSUME c.qty <= Limit(c.fc), c.addr + c.qty <= TableSize
          PROVE  /\ got.kind = "ok" =>
                       (IF IsBits(spec.table) THEN got.vals ELSE Registers(opt, got.vals)) = cells
                 /\ got.kind # "ok" => got = Invalid /\ c.qty % w # 0
      <3>1. CASE IsBits(spec.table)
        <4>1. got = Outcome("ok", cells)
          BY <2>4, <2>6, <3>1
        <4>2. got.kind = "ok" /\ got.vals = cells
          BY <4>1 DEF Outcome
        <4> QED BY <3>1, <4>2
      <3>2. CASE ~IsBits(spec.table) /\ c.qty % w # 0
        <4>1. got = Invalid
          BY <2>4, <2>6, <3>2
        <4> QED BY <3>2, <4>1 DEF Invalid
      <3>3. CASE ~IsBits(spec.table) /\ c.qty % w = 0
        <4>1. got = Outcome("ok", Group(opt, cells)) /\ cells \in Seq(Registered)
              /\ Len(cells) = c.qty
          BY <2>4, <2>6, <3>3
        <4>2. PICK n \in Nat : c.qty = w * n
          <5>1. PICK q \in Nat : q = c.qty /\ q % w = 0
            BY <2>4, <3>3
          <5>2. CASE w = 1
            BY <5>1, <5>2
          <5>3. CASE w = 2
            <6>1. q \div 2 \in Nat /\ q = 2 * (q \div 2)
              BY <5>1, <5>3
            <6> QED BY <5>1, <5>3, <6>1
          <5> QED BY <2>3, <5>2, <5>3
        <4>3. Registers(opt, Group(opt, cells)) = cells
          BY <2>1, <2>3, <4>1, <4>2, RegistersOfGroup
        <4>4. got.kind = "ok" /\ got.vals = Group(opt, cells)
          BY <4>1 DEF Outcome
        <4> QED BY <3>3, <4>3, <4>4
      <3> QED BY <3>1, <3>2, <3>3
    <2>7. c.qty > Limit(c.fc) => got.kind = "limit"
      BY <2>4 DEF Outcome
    <2> QED BY <2>2, <2>3, <2>4, <2>5, <2>6, <2>7
  <1>2. ASSUME DriverInv PROVE ReadsTheCells
    <2> SUFFICES ASSUME phase = "read", AddressOK(spec, opt.rawAddress)
                 PROVE  ReadsTheCells
      BY DEF ReadsTheCells
    <2>1. PICK c : c = ReadCall(opt, spec)
      OBVIOUS
    <2>2. PICK cells : cells = IF IsBits(spec.table) THEN got.vals ELSE Registers(opt, got.vals)
      OBVIOUS
    <2>3. /\ c.qty > Limit(c.fc) => got.kind = "limit"
          /\ c.qty <= Limit(c.fc) /\ c.addr + c.qty > TableSize =>
                got = Outcome("exception", <<exIllegalAddress>>)
          /\ c.qty <= Limit(c.fc) /\ c.addr + c.qty <= TableSize =>
                /\ got.kind = "ok" => cells = Slice(mem[TableOf(c.fc)], c.addr, c.qty)
                /\ got.kind # "ok" => got = Invalid /\ c.qty % RegisterCount(opt.type) # 0
          /\ Limit(c.fc) \in Nat /\ c.qty \in Nat /\ c.addr \in Nat
      BY <1>1, <1>2, <2>1, <2>2
    <2>4. \/ c.qty > Limit(c.fc)
          \/ c.qty <= Limit(c.fc) /\ c.addr + c.qty > TableSize
          \/ c.qty <= Limit(c.fc) /\ c.addr + c.qty <= TableSize
      BY <2>3, TableSizeAssumption
    <2>5. /\ c.qty > Limit(c.fc) => ~(c.qty <= Limit(c.fc))
          /\ c.addr + c.qty > TableSize => ~(c.addr + c.qty <= TableSize)
      BY <2>3, TableSizeAssumption
    <2> QED BY <2>1, <2>2, <2>3, <2>4, <2>5 DEF ReadsTheCells
  <1> QED BY <1>2, DriverInvariance, PTL
=============================================================================

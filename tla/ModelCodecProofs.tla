--------------------------- MODULE ModelCodecProofs ---------------------------
(***************************************************************************)
(* Proofs about Uuid and ModelCodec, for all times, random bytes, texts,   *)
(* hashes and numbers, and any even radix: ids keep the order of time, the *)
(* codecs of bytes and of bindings give back what they were given, and a   *)
(* text that decodes gives the model it was made from.                     *)
(***************************************************************************)
EXTENDS ModelCodec, SequenceTheorems, TLAPS

-----------------------------------------------------------------------------
(* Ids                                                                     *)

\* The values of a byte.
Size == Radix * Radix

\* The first k of the six bytes of a time, as a number: of none, of one, ...
Shifted(ms) ==
    <<(((((ms \div Size) \div Size) \div Size) \div Size) \div Size),
      ((((ms \div Size) \div Size) \div Size) \div Size),
      (((ms \div Size) \div Size) \div Size),
      ((ms \div Size) \div Size),
      (ms \div Size),
      ms>>

LEMMA SizeIsPositive == Size \in Nat /\ Size > 0
  BY RadixAssumption DEF Size

\* A number is its quotient and its remainder.
LEMMA Division ==
    ASSUME NEW n \in Nat, NEW b \in Nat \ {0}
    PROVE  /\ n \div b \in Nat /\ n % b \in 0..(b - 1)
           /\ n = b * (n \div b) + (n % b)
  OBVIOUS

LEMMA DivisionOfDivision ==
    ASSUME NEW n \in Nat, NEW b \in Nat \ {0}, NEW c \in Nat \ {0}
    PROVE  n \div (b * c) = (n \div b) \div c
  OBVIOUS

\* What is less stays less, or as much with less in its last place.
LEMMA DivisionKeepsOrder ==
    ASSUME NEW m \in Nat, NEW n \in Nat, m < n, NEW b \in Nat \ {0}
    PROVE  m \div b < n \div b \/ (m \div b = n \div b /\ m % b < n % b)
  OBVIOUS

LEMMA DivisionBelow ==
    ASSUME NEW n \in Nat, NEW b \in Nat \ {0}, NEW c \in Nat \ {0}, n < c * b
    PROVE  n \div b < c
  OBVIOUS

LEMMA Products ==
    ASSUME NEW b \in Nat \ {0}
    PROVE  /\ b * b \in Nat \ {0}
           /\ b * b * b \in Nat \ {0}
           /\ b * b * b * b \in Nat \ {0}
           /\ b * b * b * b * b \in Nat \ {0}
<1>1. \A m, n \in Nat \ {0} : m * n \in Nat \ {0}
  OBVIOUS
<1> QED
  BY <1>1

\* The shifts of generate(), one by one (uuid.cpp:24-29).
LEMMA ShiftedTimes ==
    ASSUME NEW ms \in Nat
    PROVE  \A i \in 1..6 : ms \div Place[i] = Shifted(ms)[i]
<1> DEFINE b == Size
<1>0. b \in Nat \ {0}
  BY SizeIsPositive
<1>1. Place = <<b * b * b * b * b, b * b * b * b, b * b * b, b * b, b, 1>>
  BY DEF Place, Size
<1> DEFINE b2 == b * b
           b3 == b2 * b
           b4 == b3 * b
           b5 == b4 * b
<1>p. b2 \in Nat \ {0} /\ b3 \in Nat \ {0} /\ b4 \in Nat \ {0}
  BY <1>0, Products
<1>q. b5 = b * b * b * b * b /\ b4 = b * b * b * b /\ b3 = b * b * b
  BY <1>0
<1>2. ms \div b2 = (ms \div b) \div b
  BY <1>0, DivisionOfDivision
<1>3. ms \div b3 = (ms \div b2) \div b
  <2> HIDE DEF b, b2
  <2> QED
    BY <1>0, <1>p, DivisionOfDivision
<1>4. ms \div b4 = (ms \div b3) \div b
  <2> HIDE DEF b, b3
  <2> QED
    BY <1>0, <1>p, DivisionOfDivision
<1>5. ms \div b5 = (ms \div b4) \div b
  <2> HIDE DEF b, b4
  <2> QED
    BY <1>0, <1>p, DivisionOfDivision
<1>6. ms \div 1 = ms
  OBVIOUS
<1>7. Shifted(ms) = <<(((((ms \div b) \div b) \div b) \div b) \div b),
                      ((((ms \div b) \div b) \div b) \div b),
                      (((ms \div b) \div b) \div b), ((ms \div b) \div b), (ms \div b), ms>>
  BY DEF Shifted, b
<1>8. Place = <<b5, b4, b3, b2, b, 1>>
  BY <1>1, <1>q
<1> HIDE DEF b, b2, b3, b4, b5
<1> QED
  BY <1>2, <1>3, <1>4, <1>5, <1>6, <1>7, <1>8

\* Each shift divides the one behind it, and the first has less than a byte.
LEMMA ShiftsDivide ==
    ASSUME NEW ms \in Milliseconds
    PROVE  /\ \A i \in 1..6 : Shifted(ms)[i] \in Nat
           /\ \A i \in 1..5 : Shifted(ms)[i] = Shifted(ms)[i + 1] \div Size
           /\ Shifted(ms)[6] = ms
           /\ Shifted(ms)[1] < Size
<1> DEFINE b == Size
<1>0. b \in Nat \ {0}
  BY SizeIsPositive
<1>1. ms \in Nat /\ ms < b * b * b * b * b * b
  BY RadixAssumption DEF Milliseconds, Size
<1>2. \A n \in Nat : n \div b \in Nat
  BY <1>0
<1>3. Shifted(ms) = <<(((((ms \div b) \div b) \div b) \div b) \div b),
                      ((((ms \div b) \div b) \div b) \div b),
                      (((ms \div b) \div b) \div b), ((ms \div b) \div b), (ms \div b), ms>>
  BY DEF Shifted, b
<1> HIDE DEF b
<1>4. ms \div b \in Nat /\ ms \div b < b * b * b * b * b
  BY <1>0, <1>1, <1>2, Products, DivisionBelow
<1>5. (ms \div b) \div b \in Nat /\ (ms \div b) \div b < b * b * b * b
  BY <1>0, <1>2, <1>4, Products, DivisionBelow
<1>6. /\ ((ms \div b) \div b) \div b \in Nat
      /\ ((ms \div b) \div b) \div b < b * b * b
  BY <1>0, <1>2, <1>5, Products, DivisionBelow
<1>7. /\ (((ms \div b) \div b) \div b) \div b \in Nat
      /\ (((ms \div b) \div b) \div b) \div b < b * b
  BY <1>0, <1>2, <1>6, Products, DivisionBelow
<1>8. /\ ((((ms \div b) \div b) \div b) \div b) \div b \in Nat
      /\ ((((ms \div b) \div b) \div b) \div b) \div b < b
  BY <1>0, <1>2, <1>7, DivisionBelow
<1>9. /\ \A i \in 1..6 : Shifted(ms)[i] \in Nat
      /\ \A i \in 1..5 : Shifted(ms)[i] = Shifted(ms)[i + 1] \div b
      /\ Shifted(ms)[6] = ms
      /\ Shifted(ms)[1] < b
  BY <1>1, <1>3, <1>4, <1>5, <1>6, <1>7, <1>8
<1> QED
  BY <1>9 DEF b

LEMMA TimeOfId ==
    ASSUME NEW ms \in Milliseconds, NEW random
    PROVE  \A i \in 1..6 : Generate(ms, random)[i] = Shifted(ms)[i] % Size
<1>1. ms \in Nat
  BY RadixAssumption DEF Milliseconds
<1>2. \A i \in 1..6 : Generate(ms, random)[i] = (ms \div Place[i]) % Size
  BY DEF Generate, Length, Size
<1> QED
  BY <1>1, <1>2, ShiftedTimes

\* Sixteen bytes (uuid.cpp:16-48): version and variant fit theirs.
LEMMA GenerateType ==
    ASSUME NEW ms \in Milliseconds, NEW random \in [1..10 -> Byte]
    PROVE  Generate(ms, random) \in UUIDs
<1>1. Size \in Nat /\ Size > 0 /\ Byte = 0..(Size - 1)
  BY SizeIsPositive DEF Byte, Size
<1>2. \A i \in 1..6 : Generate(ms, random)[i] \in Byte
  <2> TAKE i \in 1..6
  <2>1. Shifted(ms)[i] \in Nat /\ Generate(ms, random)[i] = Shifted(ms)[i] % Size
    BY ShiftsDivide, TimeOfId
  <2>2. Shifted(ms)[i] % Size \in 0..(Size - 1)
    <3>1. Size \in Nat \ {0}
      BY <1>1
    <3> HIDE DEF Shifted, Size
    <3> QED
      BY <2>1, <3>1, Division, Zenon
  <2> QED
    BY <1>1, <2>1, <2>2
<1>3. Generate(ms, random)[7] \in Byte
  <2>1. random[1] \in Nat /\ Radix \in Nat \ {0} /\ Version \in 0..(Radix - 1)
    BY <1>1, RadixAssumption, VersionAssumption
  <2>2. random[1] % Radix \in 0..(Radix - 1)
    BY <2>1, Division
  <2>3. \A v, d \in 0..(Radix - 1) : v * Radix + d \in 0..(Radix * Radix - 1)
    <3> TAKE v, d \in 0..(Radix - 1)
    <3>1. v * Radix \in Nat /\ v * Radix <= (Radix - 1) * Radix
      BY <2>1
    <3>2. (Radix - 1) * Radix = Radix * Radix - Radix
      BY <2>1
    <3> QED
      BY <2>1, <3>1, <3>2
  <2>4. Generate(ms, random)[7] = Version * Radix + (random[1] % Radix)
    BY DEF Generate, Length
  <2> QED
    BY <2>1, <2>2, <2>3, <2>4 DEF Byte
<1>4. Generate(ms, random)[9] \in Byte
  <2>1. PICK h \in Nat : Radix = 2 * h
    <3>1. Radix = 2 * (Radix \div 2) + (Radix % 2) /\ Radix \div 2 \in Nat
      BY RadixAssumption
    <3>2. Radix = 2 * (Radix \div 2)
      BY <3>1, RadixAssumption
    <3> QED
      BY <3>1, <3>2
  <2>2. h > 0 /\ Radix * Radix = 4 * (h * h) /\ h * h \in Nat \ {0}
    BY <2>1, RadixAssumption
  <2>3. /\ (Radix * Radix) \div 2 = 2 * (h * h)
        /\ (Radix * Radix) \div 4 = h * h
    BY <2>2
  <2> DEFINE square == h * h
  <2>4. random[3] % square \in 0..(square - 1)
    <3>1. random[3] \in Nat /\ square \in Nat \ {0}
      BY <1>1, <2>2
    <3> HIDE DEF square
    <3> QED
      BY <3>1, Division
  <2>5. Generate(ms, random)[9] = 2 * (h * h) + (random[3] % (h * h))
    BY <2>3 DEF Generate, Length
  <2> QED
    BY <2>2, <2>4, <2>5 DEF Byte
<1>5. \A i \in {8} \cup 10..16 : Generate(ms, random)[i] \in Byte
  BY DEF Generate, Length
<1> QED
  BY <1>2, <1>3, <1>4, <1>5 DEF Generate, UUIDs, Length

\* A time is put together again from its bytes (uuid.cpp:52-61).
LEMMA TimestampOfId ==
    ASSUME NEW ms \in Milliseconds, NEW random
    PROVE  TimestampMs(Generate(ms, random)) = ms
<1> DEFINE b == Size
           s == Shifted(ms)
           d(i) == s[i] % b
<1>0. b \in Nat \ {0} /\ \A i \in 1..6 : s[i] \in Nat
  BY SizeIsPositive, ShiftsDivide
<1>1. \A i \in 1..6 : s[i] = b * (s[i] \div b) + d(i) /\ d(i) \in Nat
  <2> TAKE i \in 1..6
  <2>1. s[i] \in Nat
    BY <1>0
  <2> HIDE DEF b, s
  <2>2. /\ s[i] % b \in 0..(b - 1)
        /\ s[i] = b * (s[i] \div b) + (s[i] % b)
    BY <1>0, <2>1, Division, Zenon
  <2> QED
    BY <1>0, <2>2
<1>2. \A i \in 1..5 : s[i + 1] = b * s[i] + d(i + 1)
  <2> TAKE i \in 1..5
  <2>1. i + 1 \in 1..6 /\ s[i] = s[i + 1] \div b
    BY ShiftsDivide
  <2> HIDE DEF b, s, d
  <2> QED
    BY <1>1, <2>1
<1>3. s[1] = d(1)
  <2>1. s[1] < b /\ s[1] \in Nat
    BY ShiftsDivide
  <2> HIDE DEF b, s
  <2> QED
    BY <1>0, <2>1
<1>4. TimestampMs(Generate(ms, random))
         = d(1) * (b * b * b * b * b) + d(2) * (b * b * b * b) + d(3) * (b * b * b)
              + d(4) * (b * b) + d(5) * b + d(6)
  BY TimeOfId DEF TimestampMs, Place, Size
<1>5. s[6] = ms
  BY ShiftsDivide
<1>6. /\ d(1) \in Nat /\ d(2) \in Nat /\ d(3) \in Nat /\ d(4) \in Nat /\ d(5) \in Nat
      /\ d(6) \in Nat
  BY <1>1
<1>7. s[6] = b * (b * (b * (b * (b * d(1) + d(2)) + d(3)) + d(4)) + d(5)) + d(6)
  BY <1>2, <1>3
<1> HIDE DEF b, s, d
<1> QED
  BY <1>0, <1>4, <1>5, <1>6, <1>7

\* The earlier of two times has the lesser bytes (uuid.h:38, operator<=>).
LEMMA OrderOfIds ==
    ASSUME NEW m \in Milliseconds, NEW n \in Milliseconds, m < n, NEW x, NEW y
    PROVE  Less(Generate(m, x), Generate(n, y))
<1> DEFINE p == Shifted(m)
           q == Shifted(n)
           a == Generate(m, x)
           b == Generate(n, y)
           Behind(k) == \/ p[k] < q[k]
                        \/ Less(a, b)
<1>1. /\ \A k \in 1..6 : p[k] \in Nat /\ q[k] \in Nat
      /\ \A k \in 1..6 : a[k] = p[k] % Size /\ b[k] = q[k] % Size
      /\ \A k \in 1..5 : p[k] = p[k + 1] \div Size /\ q[k] = q[k + 1] \div Size
      /\ p[1] < Size /\ q[1] < Size
      /\ p[6] = m /\ q[6] = n
      /\ Size \in Nat \ {0}
  BY ShiftsDivide, TimeOfId, SizeIsPositive
<1>2. \A k \in 1..5 : p[k] = q[k] => \A j \in 1..k : a[j] = b[j]
  <2>1. \A k \in 1..5 : p[k] = q[k] => a[k] = b[k] /\ (k > 1 => p[k - 1] = q[k - 1])
    <3> TAKE k \in 1..5
    <3>1. k > 1 => k - 1 \in 1..5 /\ (k - 1) + 1 = k
      OBVIOUS
    <3> HIDE DEF p, q, a, b
    <3> QED
      BY <1>1, <3>1
  <2>2. /\ p[1] = q[1] => a[1] = b[1]
        /\ p[2] = q[2] => a[2] = b[2] /\ p[1] = q[1]
        /\ p[3] = q[3] => a[3] = b[3] /\ p[2] = q[2]
        /\ p[4] = q[4] => a[4] = b[4] /\ p[3] = q[3]
        /\ p[5] = q[5] => a[5] = b[5] /\ p[4] = q[4]
    BY <2>1
  <2> HIDE DEF p, q, a, b
  <2> QED
    BY <2>2
<1>3. \A k \in 2..6 : p[k] < q[k] => p[k - 1] < q[k - 1] \/ Less(a, b)
  <2> SUFFICES ASSUME NEW k \in 2..6, p[k] < q[k], p[k - 1] >= q[k - 1]
               PROVE  Less(a, b)
    BY <1>1
  <2>1. /\ k - 1 \in 1..5
        /\ p[k - 1] = p[k] \div Size /\ q[k - 1] = q[k] \div Size
    BY <1>1
  <2>2. p[k - 1] = q[k - 1] /\ a[k] < b[k]
    <3>1. \/ p[k] \div Size < q[k] \div Size
          \/ p[k] \div Size = q[k] \div Size /\ p[k] % Size < q[k] % Size
      <4>1. p[k] \in Nat /\ q[k] \in Nat /\ Size \in Nat \ {0}
        BY <1>1
      <4> HIDE DEF p, q, Size
      <4> QED
        BY <4>1, DivisionKeepsOrder
    <3> HIDE DEF p, q, a, b
    <3> QED
      BY <1>1, <2>1, <3>1
  <2>3. \A j \in 1..(k - 1) : a[j] = b[j]
    BY <1>2, <2>1, <2>2
  <2> QED
    BY <2>2, <2>3 DEF Less, Length
<1>4. p[1] < q[1] => Less(a, b)
  <2> SUFFICES ASSUME p[1] < q[1] PROVE a[1] < b[1]
    BY DEF Less, Length
  <2> HIDE DEF p, q, a, b
  <2> QED
    BY <1>1
<1> HIDE DEF p, q, a, b
<1>5. /\ p[6] < q[6]
      /\ p[6] < q[6] => p[5] < q[5] \/ Less(a, b)
      /\ p[5] < q[5] => p[4] < q[4] \/ Less(a, b)
      /\ p[4] < q[4] => p[3] < q[3] \/ Less(a, b)
      /\ p[3] < q[3] => p[2] < q[2] \/ Less(a, b)
      /\ p[2] < q[2] => p[1] < q[1] \/ Less(a, b)
  BY <1>1, <1>3
<1> QED
  BY <1>4, <1>5 DEF a, b

-----------------------------------------------------------------------------
(* Hexadecimal digits                                                      *)

Characters == [digit : 0..Radix, upper : BOOLEAN]

\* These characters are the digits of these bytes, in either case.
Spells(chars, bytes) ==
    /\ chars \in Seq(Characters)
    /\ Len(chars) = 2 * Len(bytes)
    /\ \A i \in 1..Len(chars) : chars[i].digit = HexEncode(bytes)[i].digit

LEMMA DigitsOfByte ==
    ASSUME NEW byte \in Byte
    PROVE  /\ byte \div Radix \in 0..(Radix - 1)
           /\ byte % Radix \in 0..(Radix - 1)
           /\ (byte \div Radix) * Radix + (byte % Radix) = byte
<1>1. byte \in Nat /\ byte < Radix * Radix /\ Radix \in Nat \ {0}
  BY RadixAssumption DEF Byte
<1>2. byte \div Radix < Radix
  BY <1>1, DivisionBelow
<1>3. /\ byte \div Radix \in Nat /\ byte % Radix \in 0..(Radix - 1)
      /\ byte = Radix * (byte \div Radix) + (byte % Radix)
  BY <1>1, Division
<1> QED
  BY <1>1, <1>2, <1>3

\* Two digits to each byte (hex_codec.h:30-38).
LEMMA HexEncoded ==
    ASSUME NEW bytes \in Seq(Byte)
    PROVE  /\ HexEncode(bytes) \in Seq(Characters)
           /\ Len(HexEncode(bytes)) = 2 * Len(bytes)
           /\ \A k \in 1..Len(bytes) :
                 /\ HexEncode(bytes)[2 * k - 1].digit = bytes[k] \div Radix
                 /\ HexEncode(bytes)[2 * k].digit = bytes[k] % Radix
           /\ \A i \in 1..(2 * Len(bytes)) : HexEncode(bytes)[i].digit \in 0..(Radix - 1)
<1> DEFINE n == Len(bytes)
           digits == HexEncode(bytes)
<1>1. n \in Nat /\ \A k \in 1..n : bytes[k] \in Byte
  BY LenProperties, ElementOfSeq
<1>2. digits = [i \in 1..(2 * n) |->
                 Lower(IF i % 2 = 1 THEN bytes[(i + 1) \div 2] \div Radix
                       ELSE bytes[(i + 1) \div 2] % Radix)]
  BY DEF HexEncode
<1>3. \A i \in 1..(2 * n) : digits[i].digit \in 0..(Radix - 1) /\ digits[i] \in Characters
  <2> TAKE i \in 1..(2 * n)
  <2>1. (i + 1) \div 2 \in 1..n
    BY <1>1
  <2>2. bytes[(i + 1) \div 2] \in Byte
    BY <1>1, <2>1
  <2>3. /\ bytes[(i + 1) \div 2] \div Radix \in 0..(Radix - 1)
        /\ bytes[(i + 1) \div 2] % Radix \in 0..(Radix - 1)
    BY <2>2, DigitsOfByte
  <2>4. \E d \in 0..(Radix - 1) : digits[i] = [digit |-> d, upper |-> FALSE]
    BY <1>2, <2>3 DEF Lower
  <2> QED
    BY <2>4, RadixAssumption DEF Characters
<1>4. digits \in Seq(Characters) /\ Len(digits) = 2 * n
  <2>1. DOMAIN digits = 1..(2 * n) /\ digits = [i \in 1..(2 * n) |-> digits[i]]
    BY <1>2
  <2>2. digits \in [1..(2 * n) -> Characters]
    <3> HIDE DEF digits
    <3> QED
      BY <1>3, <2>1
  <2> HIDE DEF digits
  <2> QED
    BY <1>1, <2>1, <2>2, LenProperties
<1>5. ASSUME NEW k \in 1..n
      PROVE  /\ digits[2 * k - 1].digit = bytes[k] \div Radix
             /\ digits[2 * k].digit = bytes[k] % Radix
  <2>1. /\ 2 * k - 1 \in 1..(2 * n) /\ (2 * k - 1) % 2 = 1 /\ ((2 * k - 1) + 1) \div 2 = k
        /\ 2 * k \in 1..(2 * n) /\ (2 * k) % 2 = 0 /\ (2 * k + 1) \div 2 = k
    BY <1>1
  <2> HIDE DEF digits
  <2> QED
    BY <1>2, <2>1 DEF Lower
<1> QED
  BY <1>3, <1>4, <1>5

\* What is spelled is read, in either case (hex_codec.h:40-55).
LEMMA HexDecoded ==
    ASSUME NEW bytes \in Seq(Byte), NEW chars, Spells(chars, bytes), NEW none
    PROVE  HexDecode(chars, none) = bytes
<1> DEFINE n == Len(bytes)
           decoded == [i \in 1..n |-> chars[2 * i - 1].digit * Radix + chars[2 * i].digit]
<1>1. n \in Nat /\ DOMAIN bytes = 1..n /\ \A k \in 1..n : bytes[k] \in Byte
  BY LenProperties, ElementOfSeq
<1>2. /\ chars \in Seq(Characters) /\ Len(chars) = 2 * n /\ DOMAIN chars = 1..(2 * n)
      /\ \A i \in 1..(2 * n) : chars[i].digit = HexEncode(bytes)[i].digit
  BY LenProperties DEF Spells
<1>4. Len(chars) \div 2 = n /\ Len(chars) % 2 = 0
  <2>1. \A l \in Nat : (2 * l) \div 2 = l /\ (2 * l) % 2 = 0
    OBVIOUS
  <2> HIDE DEF n
  <2> QED
    BY <1>1, <1>2, <2>1
<1>3. IsHex(chars)
  <2>1. \A i \in 1..(2 * n) : chars[i].digit \in 0..(Radix - 1)
    BY <1>2, HexEncoded
  <2> QED
    BY <1>2, <1>4, <2>1, RadixAssumption DEF IsHex
<1>5. HexDecode(chars, none) = decoded
  BY <1>3, <1>4 DEF HexDecode
<1>6. \A k \in 1..n : decoded[k] = bytes[k]
  <2> TAKE k \in 1..n
  <2>1. 2 * k - 1 \in 1..(2 * n) /\ 2 * k \in 1..(2 * n)
    BY <1>1
  <2>2. /\ chars[2 * k - 1].digit = bytes[k] \div Radix
        /\ chars[2 * k].digit = bytes[k] % Radix
    BY <1>2, <2>1, HexEncoded
  <2> QED
    BY <1>1, <2>2, DigitsOfByte
<1>7. bytes = [k \in 1..n |-> bytes[k]]
  BY <1>1, LenProperties
<1> HIDE DEF n
<1> QED
  BY <1>5, <1>6, <1>7

\* A byte that is none of the digits is not read at all (hex_codec.h:48-51).
LEMMA HexRefused ==
    ASSUME NEW chars \in Seq(Characters), NEW i \in 1..Len(chars), chars[i].digit = Radix,
           NEW none
    PROVE  HexDecode(chars, none) = none
<1>1. i \in DOMAIN chars /\ ~(chars[i].digit < Radix)
  BY LenProperties, RadixAssumption
<1> QED
  BY <1>1 DEF HexDecode, IsHex

-----------------------------------------------------------------------------
(* Bindings                                                                *)

\* What a text does to the values that occur: strings and flags stay, and a number
\* comes back as what its digits fit.
LEMMA Values ==
    /\ \A s : Digits(String(s)) = String(s) /\ Number(String(s)) = String(s)
    /\ \A p : Digits(Bool(p)) = Bool(p) /\ Number(Bool(p)) = Bool(p)
    /\ \A n : /\ Digits(Unsigned(n)) = [kind |-> "digits", value |-> n]
              /\ n < Half => Number(Digits(Unsigned(n))) = [kind |-> "int64", value |-> n]
              /\ ~(n < Half) => Number(Digits(Unsigned(n))) = Unsigned(n)
              /\ Digits([kind |-> "int64", value |-> n]) = [kind |-> "int64", value |-> n]
              /\ Number([kind |-> "int64", value |-> n]) = [kind |-> "int64", value |-> n]
  BY DEF Digits, Number, String, Bool, Unsigned

LEMMA NoneInNoType ==
    /\ None \notin Bindings
    /\ \A v \in {None, Throws, Unread} : v \notin States /\ v \notin Headers /\ v \notin Models
    /\ None \notin Seq(Byte)
    /\ None # Throws /\ None # Unread
  BY NoneAssumption

\* A text that is read and written again, as those in a vector are, is as good as
\* what encode() wrote (json_codec.h:42-62).
LEMMA BindingDecoded ==
    ASSUME NEW b \in Bindings, NEW data,
           data \in {BindingEncode(b), Serialize(Parse(BindingEncode(b)))}
    PROVE  BindingDecode(b.algorithm, data) = b
<1> DEFINE v == Parse(data)
           hash == Hex(b.hash)
<1>1. b.hash \in Seq(Byte)
  BY RandomAssumption DEF Bindings
<1>2. FromHex(hash) = b.hash /\ b.hash # None
  <2>1. Spells(HexEncode(b.hash), b.hash)
    BY <1>1, HexEncoded DEF Spells
  <2> QED
    BY <1>1, <2>1, HexDecoded, NoneAssumption DEF FromHex, Hex, String
<1>3. CASE b.algorithm = "sha256"
  <2>1. b = [algorithm |-> "sha256", hash |-> b.hash]
    BY <1>3 DEF Bindings
  <2>2. BindingEncode(b) = Object([hash |-> hash])
    BY <1>3, Values DEF BindingEncode, Serialize, Object, Hex
  <2>3. Parse(BindingEncode(b)) = Object([hash |-> hash])
    BY <2>2, Values DEF Parse, Object, Hex
  <2>4. Serialize(Object([hash |-> hash])) = Object([hash |-> hash])
    BY Values DEF Serialize, Object, Hex
  <2>5. v = Object([hash |-> hash])
    BY <2>2, <2>3, <2>4
  <2>6. v.kind = "object" /\ v.value.hash = hash
    BY <2>5 DEF Object
  <2> HIDE DEF v
  <2> QED
    BY <1>2, <1>3, <2>1, <2>6 DEF BindingDecode, v
<1>4. CASE b.algorithm = "argon2id"
  <2> DEFINE number == [kind |-> "int64", value |-> b.m]
  <2>1. b = [algorithm |-> "argon2id", m |-> b.m, hash |-> b.hash] /\ b.m < Half
    BY <1>4, HalfAssumption DEF Bindings
  <2>2. BindingEncode(b) = Object([m |-> Digits(Unsigned(b.m)), hash |-> hash])
    BY <1>4, Values DEF BindingEncode, Serialize, Object, Hex
  <2>3. Parse(BindingEncode(b)) = Object([m |-> number, hash |-> hash])
    BY <2>1, <2>2, Values DEF Parse, Object, Hex
  <2>4. Serialize(Object([m |-> number, hash |-> hash]))
           = Object([m |-> number, hash |-> hash])
    BY Values DEF Serialize, Object, Hex
  <2>5. v = Object([m |-> number, hash |-> hash])
    <3>1. Parse(Object([m |-> number, hash |-> hash])) = Object([m |-> number, hash |-> hash])
      BY Values DEF Parse, Object, Hex
    <3> QED
      BY <2>3, <2>4, <3>1
  <2>6. v.kind = "object" /\ v.value.hash = hash /\ v.value.m = number
    BY <2>5 DEF Object
  <2> HIDE DEF v
  <2> QED
    BY <1>2, <1>4, <2>1, <2>6 DEF BindingDecode, v
<1> QED
  BY <1>3, <1>4 DEF Bindings

\* All bindings of a vector survive, however many they are (json_codec.h:33-62).
THEOREM VectorSurvives ==
    ASSUME NEW algorithm, NEW bs \in Seq(Bindings),
           \A i \in 1..Len(bs) : bs[i].algorithm = algorithm
    PROVE  VectorDecode(algorithm, VectorEncode(bs)) = bs
<1> DEFINE data == VectorEncode(bs)
           items == [i \in DOMAIN data.value |->
                        BindingDecode(algorithm, Serialize(Parse(data.value[i])))]
<1>1. /\ DOMAIN bs = 1..Len(bs) /\ bs = [i \in DOMAIN bs |-> bs[i]]
      /\ \A i \in DOMAIN bs : bs[i] \in Bindings /\ bs[i].algorithm = algorithm
  BY LenProperties, ElementOfSeq
<1>2. data.kind = "array" /\ data.value = [i \in DOMAIN bs |-> BindingEncode(bs[i])]
  BY DEF VectorEncode
<1>3. \A i \in DOMAIN bs :
         BindingDecode(algorithm, Serialize(Parse(data.value[i]))) = bs[i]
  BY <1>1, <1>2, BindingDecoded
<1>4. items = bs
  <2>1. DOMAIN data.value = DOMAIN bs
    BY <1>2
  <2> HIDE DEF data
  <2> QED
    BY <1>1, <1>3, <2>1
<1>5. \A i \in DOMAIN items : items[i] # None
  BY <1>1, <1>4, NoneInNoType
<1>6. VectorDecode(algorithm, data)
        = IF \E i \in DOMAIN items : items[i] = None THEN None ELSE items
  <2> HIDE DEF data
  <2> QED
    BY <1>2, Zenon DEF VectorDecode
<1> HIDE DEF items
<1> QED
  BY <1>4, <1>5, <1>6

\* Every password binding there is survives its codec.
LEMMA BindingsSurvive == TypeOK => BindingSurvives
<1> SUFFICES ASSUME TypeOK, model # None, model.state \in UserIdentities
             PROVE  LET b == model.state.password_binding IN
                    /\ BindingDecode(b.algorithm, BindingEncode(b)) = b
                    /\ \A c \in Bindings : c.algorithm = b.algorithm =>
                          VectorDecode(b.algorithm, VectorEncode(<<b, c>>)) = <<b, c>>
  BY DEF BindingSurvives
<1> DEFINE b == model.state.password_binding
<1>1. b \in Bindings
  BY DEF UserIdentities
<1> HIDE DEF b
<1>2. BindingDecode(b.algorithm, BindingEncode(b)) = b
  BY <1>1, BindingDecoded
<1>3. ASSUME NEW c \in Bindings, c.algorithm = b.algorithm
      PROVE  VectorDecode(b.algorithm, VectorEncode(<<b, c>>)) = <<b, c>>
  <2>1. /\ <<b, c>> \in Seq(Bindings)
        /\ \A i \in 1..Len(<<b, c>>) : <<b, c>>[i].algorithm = b.algorithm
    BY <1>1, <1>3
  <2> QED
    BY <2>1, VectorSurvives
<1> QED
  BY <1>2, <1>3 DEF b

-----------------------------------------------------------------------------
(* The invariant                                                           *)

\* The members that are ids, of which a text can have damaged or respelled digits.
IdMembers == {"id", "author_id"}

IdOf(m, f) == IF f = "id" THEN m.id ELSE m.state.author_id

\* Member f of the text is what the source had there: an id is written somehow, or
\* lost a digit.
IsKept(f) ==
    IF f \in IdMembers
    THEN LET chars == text.value[f].value IN
         /\ text.value[f] = String(chars)
         /\ chars \in Seq(Characters)
         /\ Len(chars) = 2 * Length
         /\ f \notin lost => Spells(chars, IdOf(source, f))
         /\ f \in lost => \E i \in 1..Len(chars) : chars[i].digit = Radix
    ELSE /\ f \notin lost
         /\ text.value[f] = Encode(source).value[f]

TextIsOfSource ==
    text # NoText =>
        /\ text = Object([f \in DOMAIN text.value |-> text.value[f]])
        /\ DOMAIN text.value \subseteq Metadata \cup DOMAIN source.state
        /\ (Metadata \cup DOMAIN source.state) \ lost \subseteq DOMAIN text.value
        /\ \A f \in DOMAIN text.value : IsKept(f)

\* A model is in memory or in a text, and only a text is decoded.
Stages ==
    /\ model # None => text = NoText
    /\ text = NoText => result = Unread /\ lost = {}

Used(id) == \E u \in used : u.id = id

\* Every id was generated, and nothing has an id that was not.
IdsAreGenerated ==
    /\ \A u \in used : u.ms \in Times /\ \E r \in Random : u.id = Generate(u.ms, r)
    /\ model # None => Used(model.id)
    /\ text # NoText => Used(source.id)
    /\ result \notin {None, Unread} => Used(result.id)

IInv ==
    /\ TypeOK
    /\ Stages
    /\ IdsAreGenerated
    /\ TextIsOfSource
    /\ DecodedIsSame

-----------------------------------------------------------------------------
(* What encode() writes                                                    *)

\* The class of a state can be told from its members.
LEMMA Classes ==
    /\ \A s \in UserIdentities :
          /\ DOMAIN s = {"username", "password_binding", "is_admin"}
          /\ s = [username |-> s.username, password_binding |-> s.password_binding,
                  is_admin |-> s.is_admin]
          /\ s.password_binding \in Bindings /\ s \notin Authors /\ s \notin Posts
    /\ \A s \in Authors :
          /\ DOMAIN s = {"display_name", "bio"}
          /\ s = [display_name |-> s.display_name, bio |-> s.bio]
          /\ s \notin UserIdentities /\ s \notin Posts
    /\ \A s \in Posts :
          /\ DOMAIN s = {"author_id", "title", "content"}
          /\ s = [author_id |-> s.author_id, title |-> s.title, content |-> s.content]
          /\ s.author_id \in Ids /\ s \notin UserIdentities /\ s \notin Authors
<1>1. \A s \in UserIdentities :
          /\ DOMAIN s = {"username", "password_binding", "is_admin"}
          /\ s = [username |-> s.username, password_binding |-> s.password_binding,
                  is_admin |-> s.is_admin]
          /\ s.password_binding \in Bindings
  BY DEF UserIdentities
<1>2. \A s \in Authors :
          /\ DOMAIN s = {"display_name", "bio"}
          /\ s = [display_name |-> s.display_name, bio |-> s.bio]
  BY DEF Authors
<1>3. \A s \in Posts :
          /\ DOMAIN s = {"author_id", "title", "content"}
          /\ s = [author_id |-> s.author_id, title |-> s.title, content |-> s.content]
          /\ s.author_id \in Ids
  BY DEF Posts
<1>4. /\ {"username", "password_binding", "is_admin"} # {"display_name", "bio"}
      /\ {"username", "password_binding", "is_admin"} # {"author_id", "title", "content"}
      /\ {"display_name", "bio"} # {"author_id", "title", "content"}
  OBVIOUS
<1> QED
  BY <1>1, <1>2, <1>3, <1>4

\* Ids are sequences of sixteen bytes.
LEMMA IdsAreBytes ==
    ASSUME NEW id \in Ids
    PROVE  /\ id \in UUIDs /\ id \in Seq(Byte) /\ Len(id) = Length
           /\ \E t \in Times : TimestampMs(id) = t
<1>1. PICK t \in Times, r \in Random : id = Generate(t, r)
  BY DEF Ids
<1>2. t \in Milliseconds /\ r \in [1..10 -> Byte]
  BY TimesAssumption, RandomAssumption
<1>3. id \in UUIDs /\ TimestampMs(id) = t
  BY <1>1, <1>2, GenerateType, TimestampOfId
<1>4. id \in [1..16 -> Byte]
  BY <1>3 DEF UUIDs, Length
<1>5. id \in Seq(Byte) /\ Len(id) = 16
  <2>1. 16 \in Nat /\ DOMAIN id = 1..16
    BY <1>4
  <2>2. id \in Seq(Byte)
    BY <1>4, <2>1, SeqDef
  <2> QED
    BY <2>1, <2>2, LenProperties
<1> QED
  BY <1>3, <1>5 DEF Length

LEMMA StateEncoded ==
    ASSUME NEW s \in States
    PROVE  /\ DOMAIN StateEncode(s) = DOMAIN s
           /\ s \in UserIdentities =>
                 StateEncode(s) = [username |-> String(s.username),
                                   is_admin |-> Bool(s.is_admin),
                                   password_binding |-> String(BindingEncode(s.password_binding))]
           /\ s \in Authors =>
                 StateEncode(s) = [display_name |-> String(s.display_name),
                                   bio |-> String(s.bio)]
           /\ s \in Posts =>
                 StateEncode(s) = [author_id |-> Hex(s.author_id), title |-> String(s.title),
                                   content |-> String(s.content)]
<1>1. CASE s \in UserIdentities
  BY <1>1, Classes DEF StateEncode
<1>2. CASE s \in Authors
  BY <1>2, Classes DEF StateEncode
<1>3. CASE s \in Posts
  BY <1>3, Classes DEF StateEncode
<1> QED
  BY <1>1, <1>2, <1>3, Classes DEF States

\* The members of a text, one by one (json_model_codec.h:26-32, 61-70, 104-112).
LEMMA Encoded ==
    ASSUME NEW m \in Models
    PROVE  LET o == Encode(m).value IN
           /\ Encode(m) = Object(o)
           /\ o = [f \in Metadata \cup DOMAIN m.state |-> o[f]]
           /\ o["id"] = Hex(m.id)
           /\ o["version"] = Digits(Unsigned(m.version))
           /\ o["created_at"] = Digits(Unsigned(m.created_at))
           /\ \A f \in DOMAIN m.state : o[f] = Digits(StateEncode(m.state)[f])
<1> DEFINE state == StateEncode(m.state)
           metadata == MetadataEncode(m)
           members == [f \in Metadata \cup DOMAIN state |->
                          IF f \in Metadata THEN metadata[f] ELSE state[f]]
<1>1. m.state \in States /\ DOMAIN state = DOMAIN m.state
  BY StateEncoded DEF Models
<1>2. \A f \in DOMAIN m.state : f \notin Metadata
  BY <1>1, Classes DEF States, Metadata
<1>3. Encode(m) = Serialize(Object(members))
  BY DEF Encode
<1>4. /\ Object(members).kind = "object"
      /\ Object(members).value = members
      /\ DOMAIN members = Metadata \cup DOMAIN m.state
  BY <1>1 DEF Object
<1>5. Encode(m) = Object([f \in Metadata \cup DOMAIN m.state |-> Digits(members[f])])
  <2> HIDE DEF members
  <2> QED
    BY <1>3, <1>4 DEF Serialize
<1>6. Encode(m).value = [f \in Metadata \cup DOMAIN m.state |-> Digits(members[f])]
  BY <1>5 DEF Object
<1>7. /\ members["id"] = Hex(m.id)
      /\ members["version"] = Unsigned(m.version)
      /\ members["created_at"] = Unsigned(m.created_at)
      /\ \A f \in DOMAIN m.state : members[f] = state[f]
  BY <1>1, <1>2 DEF MetadataEncode, Metadata
<1>8. Digits(Hex(m.id)) = Hex(m.id)
  BY Values DEF Hex
<1>9. "id" \in Metadata /\ "version" \in Metadata /\ "created_at" \in Metadata
  BY DEF Metadata
<1> HIDE DEF members
<1> QED
  BY <1>5, <1>6, <1>7, <1>8, <1>9

-----------------------------------------------------------------------------
(* What decode() reads                                                     *)

\* The members that decode() sees: an id gives its bytes, or none if it is damaged.
LEMMA Read ==
    ASSUME TypeOK, TextIsOfSource, text # NoText
    PROVE  LET o == Parse(text).value IN
           /\ DOMAIN o = DOMAIN text.value
           /\ \A f \in DOMAIN o : o[f] = Number(text.value[f])
           /\ \A f \in DOMAIN o : f \in Metadata \cup DOMAIN source.state
           /\ \A f \in Metadata \cup DOMAIN source.state : f \in lost \/ f \in DOMAIN o
           /\ \A f \in DOMAIN o \cap IdMembers :
                 IdFrom(o[f]) = IF f \in lost THEN None ELSE IdOf(source, f)
           /\ \A f \in DOMAIN o \ IdMembers :
                 f \notin lost /\ o[f] = Number(Encode(source).value[f])
<1> DEFINE o == Parse(text).value
<1>1. source \in Models /\ source.state \in States /\ source.id \in Ids
  BY DEF TypeOK, Models
<1>2. /\ text = Object([f \in DOMAIN text.value |-> text.value[f]])
      /\ DOMAIN text.value \subseteq Metadata \cup DOMAIN source.state
      /\ (Metadata \cup DOMAIN source.state) \ lost \subseteq DOMAIN text.value
      /\ \A f \in DOMAIN text.value : IsKept(f)
  BY DEF TextIsOfSource
<1>3. o = [f \in DOMAIN text.value |-> Number(text.value[f])]
  <2>1. text.kind = "object"
    BY DEF TypeOK
  <2> QED
    BY <2>1 DEF Parse, Object
<1>4. ASSUME NEW f \in DOMAIN text.value, f \in IdMembers
      PROVE  IdFrom(o[f]) = IF f \in lost THEN None ELSE IdOf(source, f)
  <2> DEFINE chars == text.value[f].value
  <2>1. /\ text.value[f] = String(chars) /\ chars \in Seq(Characters)
        /\ Len(chars) = 2 * Length
        /\ f \notin lost => Spells(chars, IdOf(source, f))
        /\ f \in lost => \E i \in 1..Len(chars) : chars[i].digit = Radix
    BY <1>2, <1>4 DEF IsKept
  <2>2. o[f] = String(chars)
    BY <1>3, <2>1, Values
  <2>3. IdFrom(o[f]) = HexDecode(chars, None)
    BY <2>1, <2>2 DEF IdFrom, UuidDecode, String
  <2>4. IdOf(source, f) \in Ids
    <3>1. f # "id" => f \in DOMAIN source.state
      BY <1>2, <1>4 DEF IdMembers, Metadata
    <3>2. f # "id" => source.state \in Posts
      BY <1>1, <1>4, <3>1, Classes DEF States, IdMembers
    <3> QED
      BY <1>1, <3>2, Classes DEF IdOf
  <2> HIDE DEF chars
  <2>5. CASE f \in lost
    BY <2>1, <2>3, <2>5, HexRefused
  <2>6. CASE f \notin lost
    BY <2>1, <2>3, <2>4, <2>6, HexDecoded, IdsAreBytes
  <2> QED
    BY <2>5, <2>6
<1>5. \A f \in DOMAIN text.value \ IdMembers :
         f \notin lost /\ text.value[f] = Encode(source).value[f]
  BY <1>2 DEF IsKept
<1> HIDE DEF o
<1>6. DOMAIN o = DOMAIN text.value /\ \A f \in DOMAIN o : o[f] = Number(text.value[f])
  BY <1>3
<1> QED
  BY <1>2, <1>4, <1>5, <1>6 DEF o

\* Metadata that is whole is that of the source or throws, and a text that lost
\* some of it has none (json_model_codec.h:34-47).
LEMMA HeaderDecoded ==
    ASSUME TypeOK, TextIsOfSource, text # NoText
    PROVE  LET header == MetadataDecode(Parse(text).value) IN
           IF lost \cap Metadata = {}
           THEN \/ header = Throws
                \/ header = [id |-> source.id, version |-> source.version,
                             created_at |-> source.created_at]
           ELSE header = None
<1> DEFINE o == Parse(text).value
<1>1. /\ \A f \in Metadata : f \in lost \/ f \in DOMAIN o
      /\ \A f \in DOMAIN o \cap IdMembers :
            IdFrom(o[f]) = IF f \in lost THEN None ELSE IdOf(source, f)
      /\ \A f \in DOMAIN o \ IdMembers :
            f \notin lost /\ o[f] = Number(Encode(source).value[f])
  BY Read
<1>2. source \in Models
  BY DEF TypeOK
<1>3. source.id # None /\ source.id \in Ids
  BY <1>2, IdsAreBytes, NoneInNoType DEF Models
<1>4. /\ "id" \in IdMembers /\ "version" \notin IdMembers /\ "created_at" \notin IdMembers
      /\ Metadata = {"id", "version", "created_at"}
  BY DEF IdMembers, Metadata
<1>5. /\ Encode(source).value["version"] = Digits(Unsigned(source.version))
      /\ Encode(source).value["created_at"] = Digits(Unsigned(source.created_at))
  BY <1>2, Encoded
<1> HIDE DEF o
<1>6. CASE lost \cap Metadata = {}
  <2>1. \A f \in Metadata : f \in DOMAIN o /\ f \notin lost
    BY <1>1, <1>6
  <2>2. IdFrom(o["id"]) = source.id
    BY <1>1, <1>4, <2>1 DEF IdOf
  <2>3. /\ o["version"] = Number(Digits(Unsigned(source.version)))
        /\ o["created_at"] = Number(Digits(Unsigned(source.created_at)))
    BY <1>1, <1>4, <1>5, <2>1
  <2>4. \A n : Number(Digits(Unsigned(n))).value = n
    BY DEF Unsigned, Digits, Number
  <2>5. Metadata \subseteq DOMAIN o
    BY <2>1
  <2>6. \/ MetadataDecode(o) = Throws
        \/ MetadataDecode(o) = [id |-> source.id, version |-> source.version,
                                created_at |-> source.created_at]
    BY <1>3, <2>2, <2>3, <2>4, <2>5 DEF MetadataDecode
  <2> QED
    BY <1>6, <2>6 DEF o
<1>7. CASE lost \cap Metadata # {}
  <2>1. PICK f \in Metadata : f \in lost
    BY <1>7
  <2>2. CASE f \notin DOMAIN o
    <3>1. ~(Metadata \subseteq DOMAIN o)
      BY <2>1, <2>2
    <3> QED
      BY <1>7, <3>1 DEF MetadataDecode, o
  <2>3. CASE f \in DOMAIN o
    <3>1. f = "id"
      BY <1>1, <1>4, <2>1, <2>3
    <3>2. IdFrom(o["id"]) = None
      BY <1>1, <1>4, <2>1, <2>3, <3>1
    <3> QED
      BY <1>7, <3>2 DEF MetadataDecode, o
  <2> QED
    BY <2>2, <2>3
<1> QED
  BY <1>6, <1>7

\* The state of a text, if it can be read, is that of the source
\* (json_model_codec.h:49-59, 72-102, 114-172).
LEMMA StateDecoded ==
    ASSUME TypeOK, TextIsOfSource, text # NoText
    PROVE  StateDecode(source.state, Parse(text).value) \in {None, source.state}
<1> DEFINE o == Parse(text).value
           s == source.state
<1>1. /\ \A f \in DOMAIN o \cap IdMembers :
            IdFrom(o[f]) = IF f \in lost THEN None ELSE IdOf(source, f)
      /\ \A f \in DOMAIN o \ IdMembers :
            f \notin lost /\ o[f] = Number(Encode(source).value[f])
  BY Read
<1>2. source \in Models /\ s \in States
  BY DEF TypeOK, Models
<1>3. \A f \in DOMAIN s : Encode(source).value[f] = Digits(StateEncode(s)[f])
  BY <1>2, Encoded
<1>4. \A f \in DOMAIN s \ IdMembers : f \in DOMAIN o =>
         o[f] = Number(Digits(StateEncode(s)[f]))
  BY <1>1, <1>3
<1> SUFFICES ASSUME DOMAIN s \subseteq DOMAIN o
             PROVE  StateDecode(s, o) \in {None, s}
  BY DEF StateDecode
<1> HIDE DEF o, s
<1>5. CASE s \in UserIdentities
  <2>1. o["password_binding"] = String(BindingEncode(s.password_binding))
    BY <1>2, <1>4, <1>5, Classes, StateEncoded, Values DEF IdMembers
  <2>2. Parse(Serialize(o["password_binding"])).kind = "string"
    BY <2>1, Values DEF Serialize, Parse, String
  <2>3. BindingDecode(s.password_binding.algorithm, Serialize(o["password_binding"])) = None
    BY <2>2 DEF BindingDecode
  <2>4. StateDecode(s, o) = UserIdentityDecode(s.password_binding.algorithm, o)
    BY <1>5, Classes DEF StateDecode
  <2> QED
    BY <2>3, <2>4 DEF UserIdentityDecode
<1>6. CASE s \in Authors
  <2>1. /\ o["display_name"] = String(s.display_name)
        /\ o["bio"] = String(s.bio)
    BY <1>2, <1>4, <1>6, Classes, StateEncoded, Values DEF IdMembers
  <2>2. StateDecode(s, o) = [display_name |-> s.display_name, bio |-> s.bio]
    BY <1>6, <2>1, Classes DEF StateDecode, String
  <2> QED
    BY <1>6, <2>2, Classes
<1>7. CASE s \in Posts
  <2>1. /\ o["title"] = String(s.title)
        /\ o["content"] = String(s.content)
    BY <1>2, <1>4, <1>7, Classes, StateEncoded, Values DEF IdMembers
  <2>2. IdFrom(o["author_id"]) \in {None, s.author_id}
    BY <1>1, <1>7, Classes DEF IdMembers, IdOf, s
  <2>3. StateDecode(s, o) = IF IdFrom(o["author_id"]) = None THEN None
                            ELSE [author_id |-> IdFrom(o["author_id"]),
                                  title |-> s.title, content |-> s.content]
    <3>1. /\ s \notin UserIdentities /\ s \notin Authors
          /\ o["title"].value = s.title /\ o["content"].value = s.content
      BY <1>7, <2>1, Classes DEF String
    <3> QED
      BY <1>7, <3>1 DEF StateDecode
  <2> QED
    BY <1>7, <2>2, <2>3, Classes
<1> QED
  BY <1>2, <1>5, <1>6, <1>7 DEF States

\* What decode() makes of a text: nothing, the source, or where the metadata is
\* not whole a new model with the state of the source.
LEMMA Decoded ==
    ASSUME TypeOK, TextIsOfSource, text # NoText, NEW id
    PROVE  LET decoded == Decode(source.state, text, id) IN
           \/ decoded = None
           \/ lost \cap Metadata = {} /\ decoded = source
           \/ lost \cap Metadata # {} /\ decoded = Made(id, source.state)
<1> DEFINE o == Parse(text).value
           state == StateDecode(source.state, o)
           header == MetadataDecode(o)
<1>1. state \in {None, source.state}
  BY StateDecoded
<1>2. /\ lost \cap Metadata = {} =>
            \/ header = Throws
            \/ header = [id |-> source.id, version |-> source.version,
                         created_at |-> source.created_at]
      /\ lost \cap Metadata # {} => header = None
  BY HeaderDecoded
<1>3. source = [id |-> source.id, version |-> source.version,
                created_at |-> source.created_at, state |-> source.state]
  BY DEF TypeOK, Models
<1>4. /\ [id |-> source.id, version |-> source.version,
          created_at |-> source.created_at] # None
      /\ Throws # None
  <2>1. source.id \in UUIDs /\ source.version \in Nat /\ source.created_at \in Nat
    BY IdsAreBytes, HalfAssumption DEF TypeOK, Models, Uint64
  <2>2. [id |-> source.id, version |-> source.version,
         created_at |-> source.created_at] \in Headers
    BY <2>1 DEF Headers
  <2> QED
    BY <2>2, NoneInNoType
<1>5. Decode(source.state, text, id) =
          IF state = None \/ header = Throws THEN None
          ELSE IF header # None THEN
              [id |-> header.id, version |-> header.version,
               created_at |-> header.created_at, state |-> state]
          ELSE IF source.state \in Authors THEN None
          ELSE Made(id, state)
  BY DEF Decode
<1> HIDE DEF o, state, header
<1> QED
  BY <1>1, <1>2, <1>3, <1>4, <1>5

-----------------------------------------------------------------------------
(* Every step keeps the invariant                                          *)

\* A new model is a model, created when its id says (model.h:48).
LEMMA MadeIsModel ==
    ASSUME NEW id \in Ids, NEW s \in States
    PROVE  /\ Made(id, s) \in Models
           /\ Made(id, s).id = id /\ Made(id, s).state = s /\ Made(id, s).version = 1
<1>1. TimestampMs(id) \in Uint64 /\ 1 \in Uint64
  BY IdsAreBytes, HalfAssumption DEF Uint64
<1> QED
  BY <1>1 DEF Made, Models

LEMMA DrawnIsId ==
    ASSUME NEW u \in Draws
    PROVE  /\ u.ms \in Times /\ u.random \in Random
           /\ Generate(u.ms, u.random) \in Ids
           /\ Generate(u.ms, u.random) \in UUIDs
<1>1. u.ms \in Times /\ u.random \in Random
  BY DEF Draws
<1>2. Generate(u.ms, u.random) \in Ids
  BY <1>1 DEF Ids
<1> QED
  BY <1>1, <1>2, IdsAreBytes

\* The invariant does not depend on more than this of the text.
LEMMA TextStays ==
    ASSUME TextIsOfSource, UNCHANGED <<text, source, lost>>
    PROVE  TextIsOfSource'
  BY DEF TextIsOfSource, IsKept

LEMMA CreateStep ==
    ASSUME IInv, NEW s \in States, Create(s)
    PROVE  IInv'
<1> USE DEF IInv
<1>1. PICK u \in Draws :
         /\ IsFresh(u)
         /\ model' = Made(Generate(u.ms, u.random), s)
         /\ used' = used \cup {[ms |-> u.ms, id |-> Generate(u.ms, u.random)]}
  BY DEF Create
<1> DEFINE id == Generate(u.ms, u.random)
<1>2. text = NoText /\ result = Unread /\ UNCHANGED <<text, source, lost, result>>
  BY DEF Create, Stages
<1>3. id \in Ids /\ id \in UUIDs /\ u.ms \in Times /\ u.random \in Random
  BY DrawnIsId
<1>4. model' \in Models /\ model'.id = id
  BY <1>1, <1>3, MadeIsModel
<1>5. TypeOK'
  BY <1>1, <1>2, <1>3, <1>4 DEF TypeOK
<1>6. Stages'
  BY <1>2 DEF Stages
<1>7. IdsAreGenerated'
  <2> DEFINE new == [ms |-> u.ms, id |-> id]
  <2>1. used' = used \cup {new} /\ new.ms = u.ms /\ new.id = id
    BY <1>1
  <2> HIDE DEF id, new
  <2>2. \A v \in used' : v.ms \in Times /\ \E r \in Random : v.id = Generate(v.ms, r)
    BY <1>3, <2>1 DEF IdsAreGenerated, id
  <2>3. Used(model.id)'
    BY <1>4, <2>1 DEF Used
  <2> QED
    BY <1>2, <2>2, <2>3 DEF IdsAreGenerated
<1> QED
  BY <1>2, <1>5, <1>6, <1>7, TextStays DEF DecodedIsSame

\* A step that only changes the model in memory, and not its id.
LEMMA ModelStep ==
    ASSUME IInv, model # None, model' \in Models, model'.id = model.id,
           UNCHANGED <<text, source, lost, result, used>>
    PROVE  IInv'
<1> USE DEF IInv
<1>1. TypeOK'
  BY DEF TypeOK
<1>2. Stages'
  BY DEF Stages
<1>3. IdsAreGenerated'
  BY DEF IdsAreGenerated, Used
<1>4. DecodedIsSame'
  BY DEF DecodedIsSame
<1> QED
  BY <1>1, <1>2, <1>3, <1>4, TextStays

LEMMA CreateAuthorStep ==
    ASSUME IInv, NEW s \in Authors, CreateAuthor(s)
    PROVE  IInv'
<1>1. model \in Models /\ model.id \in Ids /\ s \in States /\ model # None
  BY DEF IInv, TypeOK, Models, States, CreateAuthor
<1>2. model' \in Models /\ model'.id = model.id
  BY <1>1, MadeIsModel DEF CreateAuthor
<1> QED
  BY <1>1, <1>2, ModelStep DEF CreateAuthor

LEMMA PatchStep ==
    ASSUME IInv, NEW s \in States, Patch(s)
    PROVE  IInv'
<1>1. model \in Models /\ model # None
  BY DEF IInv, TypeOK, Patch
<1>2. (model.version + 1) % (2 * Half) \in Uint64
  BY <1>1, HalfAssumption DEF Patch, Uint64
<1>3. model' \in Models /\ model'.id = model.id
  BY <1>1, <1>2 DEF Patch, Models
<1> QED
  BY <1>1, <1>3, ModelStep DEF Patch

LEMMA RehydrateStep ==
    ASSUME IInv, NEW v \in Numbers, NEW t \in Numbers, Rehydrate(v, t)
    PROVE  IInv'
<1>1. model \in Models /\ model # None
  BY DEF IInv, TypeOK, Rehydrate
<1>2. v \in Uint64 /\ t \in Uint64
  BY HalfAssumption DEF Uint64
<1>3. model' \in Models /\ model'.id = model.id
  BY <1>1, <1>2 DEF Rehydrate, Models
<1> QED
  BY <1>1, <1>3, ModelStep DEF Rehydrate

LEMMA SaveStep ==
    ASSUME IInv, Save
    PROVE  IInv'
<1> USE DEF IInv
<1>1. model \in Models /\ text = NoText /\ lost = {} /\ result = Unread
  BY DEF Save, Stages, TypeOK
<1>2. /\ text' = Encode(model) /\ source' = model /\ model' = None
      /\ UNCHANGED <<lost, result, used>>
  BY DEF Save
<1> DEFINE o == Encode(model).value
<1>3. /\ Encode(model) = Object(o)
      /\ o = [f \in Metadata \cup DOMAIN model.state |-> o[f]]
      /\ o["id"] = Hex(model.id)
      /\ \A f \in DOMAIN model.state : o[f] = Digits(StateEncode(model.state)[f])
  BY <1>1, Encoded
<1>4. TypeOK'
  BY <1>1, <1>2, <1>3 DEF TypeOK, Object
<1>5. Stages'
  BY <1>1, <1>2 DEF Stages
<1>6. IdsAreGenerated'
  <2>1. Used(model.id)
    BY DEF Save, IdsAreGenerated
  <2> QED
    BY <1>1, <1>2, <2>1 DEF IdsAreGenerated, Used
<1>7. TextIsOfSource'
  <2>1. /\ text'.value = o
        /\ DOMAIN o = Metadata \cup DOMAIN model.state
    BY <1>2, <1>3 DEF Object
  <2>2. ASSUME NEW f \in DOMAIN o, f \in IdMembers
        PROVE  /\ o[f] = Hex(IdOf(model, f))
               /\ IdOf(model, f) \in Ids
    <3>1. CASE f = "id"
      BY <1>1, <1>3, <3>1 DEF IdOf, Models
    <3>2. CASE f = "author_id"
      <4>1. f \in DOMAIN model.state
        BY <2>1, <3>2 DEF Metadata
      <4>2. model.state \in States /\ model.state \in Posts
        BY <1>1, <3>2, <4>1, Classes DEF Models, States
      <4>3. StateEncode(model.state)[f] = Hex(model.state.author_id)
        BY <3>2, <4>2, StateEncoded
      <4> QED
        BY <1>3, <3>2, <4>1, <4>2, <4>3, Classes, Values DEF IdOf, Hex
    <3> QED
      BY <2>2, <3>1, <3>2 DEF IdMembers
  <2>3. ASSUME NEW f \in DOMAIN o, f \in IdMembers
        PROVE  LET chars == o[f].value IN
               /\ o[f] = String(chars)
               /\ chars \in Seq(Characters)
               /\ Len(chars) = 2 * Length
               /\ Spells(chars, IdOf(model, f))
    <3>1. o[f] = String(HexEncode(IdOf(model, f))) /\ IdOf(model, f) \in Seq(Byte)
          /\ Len(IdOf(model, f)) = Length
      BY <2>2, <2>3, IdsAreBytes DEF Hex
    <3>2. o[f].value = HexEncode(IdOf(model, f))
      BY <3>1 DEF String
    <3> QED
      BY <3>1, <3>2, HexEncoded DEF Spells
  <2>4. \A f \in DOMAIN o : IsKept(f)'
    <3> TAKE f \in DOMAIN o
    <3> HIDE DEF o
    <3> QED
      BY <1>1, <1>2, <2>1, <2>3 DEF IsKept, o
  <2>5. text' = Object([f \in DOMAIN text'.value |-> text'.value[f]])
    BY <1>2, <1>3, <2>1
  <2> QED
    BY <1>1, <1>2, <2>1, <2>4, <2>5 DEF TextIsOfSource
<1>8. DecodedIsSame'
  BY <1>1, <1>2 DEF DecodedIsSame
<1> QED
  BY <1>4, <1>5, <1>6, <1>7, <1>8

\* A step that puts another object in the place of the text.
LEMMA TextStep ==
    ASSUME IInv, text # NoText, NEW o, text' = Object(o),
           o = [f \in DOMAIN o |-> o[f]],
           DOMAIN o \subseteq Metadata \cup DOMAIN source.state,
           (Metadata \cup DOMAIN source.state) \ lost' \subseteq DOMAIN o,
           \A f \in DOMAIN o : IsKept(f)',
           result' = Unread, UNCHANGED <<model, source, used>>
    PROVE  IInv'
<1> USE DEF IInv
<1>1. text'.kind = "object" /\ text'.value = o
  BY DEF Object
<1>2. text' # NoText
  BY <1>1 DEF NoText
<1>3. TypeOK'
  BY <1>1 DEF TypeOK
<1>4. Stages'
  BY <1>2 DEF Stages
<1>5. IdsAreGenerated'
  BY DEF IdsAreGenerated, Used
<1>6. TextIsOfSource'
  BY <1>1 DEF TextIsOfSource
<1>7. DecodedIsSame'
  BY DEF DecodedIsSame
<1> QED
  BY <1>3, <1>4, <1>5, <1>6, <1>7

LEMMA LoseStep ==
    ASSUME IInv, NEW f, Lose(f)
    PROVE  IInv'
<1> DEFINE o == text.value
           kept == [g \in DOMAIN o \ {f} |-> o[g]]
<1>1. /\ text # NoText /\ text' = [text EXCEPT !.value = kept] /\ lost' = lost \cup {f}
      /\ result' = Unread /\ UNCHANGED <<model, source, used>>
  BY DEF Lose
<1>2. /\ text = Object([g \in DOMAIN o |-> o[g]])
      /\ DOMAIN o \subseteq Metadata \cup DOMAIN source.state
      /\ (Metadata \cup DOMAIN source.state) \ lost \subseteq DOMAIN o
      /\ \A g \in DOMAIN o : IsKept(g)
  BY <1>1 DEF IInv, TextIsOfSource
<1>3. text' = Object(kept)
  <2> HIDE DEF kept
  <2> QED
    BY <1>1, <1>2 DEF Object
<1>4. text'.value = kept
  BY <1>3 DEF Object
<1>5. ASSUME NEW g \in DOMAIN kept
      PROVE  IsKept(g)'
  <2>1. g \in DOMAIN o /\ g # f /\ kept[g] = o[g]
    BY <1>5
  <2>2. text'.value[g] = text.value[g] /\ (g \in lost' <=> g \in lost)
    BY <1>1, <1>4, <2>1
  <2> HIDE DEF kept, o
  <2> QED
    BY <1>1, <1>2, <2>1, <2>2 DEF IsKept
<1>6. /\ DOMAIN kept = DOMAIN o \ {f} /\ kept = [g \in DOMAIN kept |-> kept[g]]
  OBVIOUS
<1>7. /\ DOMAIN kept \subseteq Metadata \cup DOMAIN source.state
      /\ (Metadata \cup DOMAIN source.state) \ lost' \subseteq DOMAIN kept
  BY <1>1, <1>2, <1>6
<1> HIDE DEF kept, o
<1> QED
  BY <1>1, <1>3, <1>5, <1>6, <1>7, TextStep

\* Member f of the text, an id, has other characters.
LEMMA IdChanged ==
    ASSUME IInv, text # NoText, NEW f \in DOMAIN text.value \cap IdMembers, NEW chars,
           text' = [text EXCEPT !.value[f].value = chars],
           lost \subseteq lost', lost' \subseteq lost \cup {f},
           chars \in Seq(Characters), Len(chars) = 2 * Length,
           f \notin lost' => Spells(chars, IdOf(source, f)),
           f \in lost' => \E i \in 1..Len(chars) : chars[i].digit = Radix,
           result' = Unread, UNCHANGED <<model, source, used>>
    PROVE  IInv'
<1> DEFINE o == text.value
           changed == [o EXCEPT ![f].value = chars]
<1>1. /\ text = Object([g \in DOMAIN o |-> o[g]])
      /\ DOMAIN o \subseteq Metadata \cup DOMAIN source.state
      /\ (Metadata \cup DOMAIN source.state) \ lost \subseteq DOMAIN o
      /\ \A g \in DOMAIN o : IsKept(g)
  BY DEF IInv, TextIsOfSource
<1>2. text' = Object(changed)
  <2>1. text' = [text EXCEPT !.value = changed]
    OBVIOUS
  <2> HIDE DEF changed
  <2> QED
    BY <1>1, <2>1 DEF Object
<1>3. text'.value = changed
  BY <1>2 DEF Object
<1>4. /\ DOMAIN changed = DOMAIN o /\ changed = [g \in DOMAIN o |-> changed[g]]
      /\ \A g \in DOMAIN o \ {f} : changed[g] = o[g]
  OBVIOUS
<1>5. changed[f] = String(chars)
  <2>1. o[f] = String(o[f].value)
    BY <1>1 DEF IsKept
  <2>2. changed[f] = [o[f] EXCEPT !.value = chars]
    OBVIOUS
  <2> QED
    BY <2>1, <2>2 DEF String
<1> HIDE DEF changed
<1>6. IsKept(f)'
  <2>1. text'.value[f].value = chars
    BY <1>3, <1>5 DEF String
  <2> QED
    BY <1>3, <1>5, <2>1 DEF IsKept
<1>7. ASSUME NEW g \in DOMAIN o, g # f
      PROVE  IsKept(g)'
  <2>1. text'.value[g] = text.value[g] /\ (g \in lost' <=> g \in lost)
    BY <1>3, <1>4, <1>7
  <2>2. IsKept(g) /\ source' = source
    BY <1>1, <1>7
  <2> HIDE DEF o
  <2>3. CASE g \in IdMembers
    BY <2>1, <2>2, <2>3 DEF IsKept
  <2>4. CASE g \notin IdMembers
    BY <2>1, <2>2, <2>4 DEF IsKept
  <2> QED
    BY <2>3, <2>4
<1>8. /\ DOMAIN changed \subseteq Metadata \cup DOMAIN source.state
      /\ (Metadata \cup DOMAIN source.state) \ lost' \subseteq DOMAIN changed
      /\ changed = [g \in DOMAIN changed |-> changed[g]]
      /\ \A g \in DOMAIN changed : IsKept(g)'
  BY <1>1, <1>4, <1>6, <1>7
<1> HIDE DEF o
<1> QED
  BY <1>2, <1>8, TextStep

\* The characters an id has in the text.
LEMMA CharsOfId ==
    ASSUME IInv, text # NoText, NEW f \in DOMAIN text.value \cap IdMembers
    PROVE  LET chars == text.value[f].value IN
           /\ chars \in Seq(Characters) /\ Len(chars) = 2 * Length
           /\ DOMAIN chars = 1..(2 * Length) /\ 2 * Length \in Nat
           /\ \A i \in 1..(2 * Length) : chars[i] \in Characters
           /\ f \notin lost => Spells(chars, IdOf(source, f))
           /\ f \in lost => \E i \in 1..Len(chars) : chars[i].digit = Radix
<1>1. IsKept(f)
  BY DEF IInv, TextIsOfSource
<1>2. 2 * Length \in Nat
  BY DEF Length
<1> QED
  BY <1>1, <1>2, LenProperties DEF IsKept

LEMMA DamageStep ==
    ASSUME IInv, NEW f \in IdMembers, Damage(f)
    PROVE  IInv'
<1> DEFINE old == text.value[f].value
<1>1. PICK i \in {1, 2 * Length} : text' = [text EXCEPT !.value[f].value[i] = NoDigit]
  BY DEF Damage
<1> DEFINE chars == [old EXCEPT ![i] = NoDigit]
<1>2. /\ text # NoText /\ f \in DOMAIN text.value \cap IdMembers
      /\ lost' = lost \cup {f} /\ result' = Unread /\ UNCHANGED <<model, source, used>>
  BY DEF Damage
<1>3. /\ old \in Seq(Characters) /\ Len(old) = 2 * Length /\ DOMAIN old = 1..(2 * Length)
      /\ 2 * Length \in Nat
  BY <1>2, CharsOfId
<1>4. i \in 1..(2 * Length)
  BY <1>1 DEF Length
<1>5. NoDigit \in Characters /\ NoDigit.digit = Radix
  BY RadixAssumption DEF NoDigit, Characters
<1>6. text' = [text EXCEPT !.value[f].value = chars]
  BY <1>1
<1>7. chars \in Seq(Characters) /\ Len(chars) = 2 * Length
  <2> HIDE DEF old
  <2> QED
    BY <1>3, <1>4, <1>5, ExceptSeq
<1>8. i \in 1..Len(chars) /\ chars[i].digit = Radix
  <2>1. chars[i] = NoDigit
    BY <1>3, <1>4
  <2> QED
    BY <1>4, <1>5, <1>7, <2>1
<1> HIDE DEF chars, old
<1> QED
  BY <1>2, <1>6, <1>7, <1>8, IdChanged

LEMMA RespellStep ==
    ASSUME IInv, NEW f \in IdMembers, Respell(f)
    PROVE  IInv'
<1> DEFINE old == text.value[f].value
           chars == [i \in DOMAIN old |-> [old[i] EXCEPT !.upper = TRUE]]
<1>1. /\ text # NoText /\ f \in DOMAIN text.value \cap IdMembers
      /\ lost' = lost /\ result' = Unread /\ UNCHANGED <<model, source, used>>
  BY DEF Respell
<1>2. text' = [text EXCEPT !.value[f].value = chars]
  BY DEF Respell
<1>3. /\ old \in Seq(Characters) /\ Len(old) = 2 * Length /\ DOMAIN old = 1..(2 * Length)
      /\ 2 * Length \in Nat
      /\ \A i \in 1..(2 * Length) : old[i] \in Characters
      /\ f \notin lost => Spells(old, IdOf(source, f))
      /\ f \in lost => \E i \in 1..Len(old) : old[i].digit = Radix
  BY <1>1, CharsOfId
<1>4. \A i \in 1..(2 * Length) :
         chars[i] \in Characters /\ chars[i].digit = old[i].digit
  <2> TAKE i \in 1..(2 * Length)
  <2>1. old[i] \in Characters /\ chars[i] = [old[i] EXCEPT !.upper = TRUE]
    BY <1>3
  <2> HIDE DEF chars, old
  <2> QED
    BY <2>1 DEF Characters
<1>5. chars \in Seq(Characters) /\ Len(chars) = 2 * Length
  <2>1. chars \in [1..(2 * Length) -> Characters]
    <3>1. DOMAIN chars = 1..(2 * Length) /\ chars = [i \in 1..(2 * Length) |-> chars[i]]
      BY <1>3
    <3> HIDE DEF chars
    <3> QED
      BY <1>4, <3>1
  <2> HIDE DEF chars
  <2>2. chars \in Seq(Characters)
    BY <1>3, <2>1, SeqDef
  <2> QED
    BY <1>3, <2>1, <2>2, LenProperties
<1> HIDE DEF chars, old
<1>6. f \notin lost => Spells(chars, IdOf(source, f))
  BY <1>3, <1>4, <1>5 DEF Spells
<1>7. f \in lost => \E i \in 1..Len(chars) : chars[i].digit = Radix
  BY <1>3, <1>4, <1>5
<1> QED
  BY <1>1, <1>2, <1>5, <1>6, <1>7, IdChanged

LEMMA LoadStep ==
    ASSUME IInv, Load
    PROVE  IInv'
<1> USE DEF IInv
<1>1. PICK u \in Draws :
         LET id == Generate(u.ms, u.random)
             decoded == Decode(source.state, text, id)
             isNew == decoded # None /\ decoded.id = id
         IN  /\ isNew => IsFresh(u)
             /\ result' = decoded
             /\ used' = IF isNew THEN used \cup {[ms |-> u.ms, id |-> id]} ELSE used
  BY DEF Load
<1> DEFINE id == Generate(u.ms, u.random)
           new == [ms |-> u.ms, id |-> id]
<1>2. text # NoText /\ UNCHANGED <<model, text, source, lost>>
  BY DEF Load
<1>3. /\ id \in Ids /\ id \in UUIDs /\ u.ms \in Times /\ u.random \in Random
      /\ new.ms = u.ms /\ new.id = id
  BY DrawnIsId
<1>4. source \in Models /\ source.state \in States /\ Used(source.id)
  BY <1>2 DEF TypeOK, Models, IdsAreGenerated
<1>5. /\ result' # None /\ result'.id = id => \A v \in used : v.id # id
      /\ used' \in {used, used \cup {new}}
      /\ result' # None /\ result'.id = id => used' = used \cup {new}
  BY <1>1 DEF IsFresh
<1>6. \/ result' = None
      \/ lost \cap Metadata = {} /\ result' = source
      \/ lost \cap Metadata # {} /\ result' = Made(id, source.state)
  BY <1>1, <1>2, Decoded
<1>7. /\ Made(id, source.state) \in Models /\ Made(id, source.state).id = id
      /\ Made(id, source.state).state = source.state
      /\ Made(id, source.state).version = 1
  BY <1>3, <1>4, MadeIsModel
<1> HIDE DEF id, new
<1>8. TypeOK'
  BY <1>2, <1>3, <1>4, <1>5, <1>6, <1>7 DEF TypeOK
<1>9. Stages'
  BY <1>2 DEF Stages
<1>10. IdsAreGenerated'
  <2>1. \A v \in used' : v.ms \in Times /\ \E r \in Random : v.id = Generate(v.ms, r)
    BY <1>3, <1>5 DEF IdsAreGenerated, id
  <2>2. \A v \in used : v \in used'
    BY <1>5
  <2>3. result' # None => \E v \in used' : v.id = result'.id
    <3>1. CASE result' = Made(id, source.state) /\ result' # None
      BY <1>3, <1>5, <1>7, <3>1 DEF Used
    <3>2. CASE result' = source
      BY <1>2, <1>4, <2>2, <3>2 DEF Used
    <3> QED
      BY <1>6, <3>1, <3>2
  <2>4. /\ model' # None => \E v \in used' : v.id = model'.id
        /\ \E v \in used' : v.id = source'.id
    BY <1>2, <1>4, <2>2 DEF Used, Stages
  <2> QED
    BY <2>1, <2>3, <2>4 DEF IdsAreGenerated, Used
<1>11. DecodedIsSame'
  <2>1. CASE lost \cap Metadata = {}
    BY <1>2, <1>6, <2>1 DEF DecodedIsSame
  <2>2. CASE lost \cap Metadata # {} /\ result' # None
    <3>1. result' = Made(id, source.state)
      BY <1>6, <2>2
    <3>2. source.id # id
      BY <1>4, <1>5, <1>7, <2>2, <3>1 DEF Used
    <3> QED
      BY <1>2, <1>7, <2>2, <3>1, <3>2 DEF DecodedIsSame
  <2> QED
    BY <2>1, <2>2 DEF DecodedIsSame
<1> QED
  BY <1>2, <1>8, <1>9, <1>10, <1>11, TextStays

LEMMA ContinueStep ==
    ASSUME IInv, Continue
    PROVE  IInv'
<1> USE DEF IInv
<1>1. /\ result \notin {None, Unread} /\ model' = result /\ text' = NoText
      /\ lost' = {} /\ result' = Unread /\ used' = used
  BY DEF Continue
<1>2. result \in Models
  BY <1>1 DEF TypeOK
<1>3. TypeOK'
  BY <1>1, <1>2 DEF TypeOK
<1>4. Stages'
  BY <1>1 DEF Stages
<1>5. IdsAreGenerated'
  BY <1>1 DEF IdsAreGenerated, Used
<1> QED
  BY <1>1, <1>3, <1>4, <1>5 DEF TextIsOfSource, DecodedIsSame

LEMMA InitIInv == Init => IInv
  BY DEF Init, IInv, TypeOK, Stages, IdsAreGenerated, TextIsOfSource, DecodedIsSame

LEMMA IInvStep == IInv /\ [Next]_vars => IInv'
<1> SUFFICES ASSUME IInv, [Next]_vars PROVE IInv'
  OBVIOUS
<1>1. ASSUME NEW s \in UserIdentities \cup Posts, Create(s)
      PROVE  IInv'
  BY <1>1, CreateStep DEF States
<1>2. ASSUME NEW s \in Authors, CreateAuthor(s)
      PROVE  IInv'
  BY <1>2, CreateAuthorStep
<1>3. ASSUME NEW s \in States, Patch(s)
      PROVE  IInv'
  BY <1>3, PatchStep
<1>4. ASSUME NEW v \in Numbers, NEW t \in Numbers, Rehydrate(v, t)
      PROVE  IInv'
  BY <1>4, RehydrateStep
<1>5. CASE Save
  BY <1>5, SaveStep
<1>6. CASE Load
  BY <1>6, LoadStep
<1>7. CASE Continue
  BY <1>7, ContinueStep
<1>8. ASSUME NEW f, Lose(f)
      PROVE  IInv'
  BY <1>8, LoseStep
<1>9. ASSUME NEW f \in {"id", "author_id"}, Damage(f) \/ Respell(f)
      PROVE  IInv'
  BY <1>9, DamageStep, RespellStep DEF IdMembers
<1>10. CASE UNCHANGED vars
  <2>1. TypeOK' /\ Stages' /\ IdsAreGenerated' /\ DecodedIsSame'
    BY <1>10 DEF IInv, vars, TypeOK, Stages, IdsAreGenerated, Used, DecodedIsSame
  <2>2. TextIsOfSource'
    BY <1>10, TextStays DEF IInv, vars
  <2> QED
    BY <2>1, <2>2 DEF IInv
<1> QED
  BY <1>1, <1>2, <1>3, <1>4, <1>5, <1>6, <1>7, <1>8, <1>9, <1>10 DEF Next

LEMMA IInvAlways == Spec => []IInv
  BY InitIInv, IInvStep, PTL DEF Spec

-----------------------------------------------------------------------------
(* The theorems                                                            *)

\* What create(), patch(), rehydrate() and decode() make are models with ids of
\* sixteen bytes, and unsigned versions and times (model.h:28-36).
THEOREM ModelTypeCorrect == Spec => []TypeOK
<1>1. IInv => TypeOK
  BY DEF IInv
<1> QED
  BY <1>1, IInvAlways, PTL

\* A text that decodes gives the model it was made from, or where its metadata is
\* gone a new one with another id (json_model_codec.h:34-47, 85-88).
THEOREM DecodedModelIsSame == Spec => []DecodedIsSame
<1>1. IInv => DecodedIsSame
  BY DEF IInv
<1> QED
  BY <1>1, IInvAlways, PTL

\* Ids sort by the time they were made at, and tell it (uuid.h:15, uuid.h:35).
THEOREM IdsKeepTheirTime == Spec => []IdsKeepTime
<1>1. IInv => IdsKeepTime
  <2> SUFFICES ASSUME IInv PROVE IdsKeepTime
    OBVIOUS
  <2>1. \A u \in used : u.ms \in Milliseconds /\ \E r \in Random : u.id = Generate(u.ms, r)
    BY TimesAssumption DEF IInv, IdsAreGenerated
  <2>2. \A u \in used : TimestampMs(u.id) = u.ms
    BY <2>1, TimestampOfId
  <2>3. ASSUME NEW u \in used, NEW v \in used, u.ms < v.ms
        PROVE  Less(u.id, v.id)
    BY <2>1, <2>3, OrderOfIds
  <2> QED
    BY <2>2, <2>3 DEF IdsKeepTime
<1> QED
  BY <1>1, IInvAlways, PTL

\* The binding of every password that a model in memory has survives its codec
\* (json_security_codec.h:28-59).
THEOREM PasswordSurvives == Spec => []BindingSurvives
<1>1. IInv => BindingSurvives
  BY BindingsSurvive DEF IInv
<1> QED
  BY <1>1, IInvAlways, PTL
=============================================================================

-------------------------------- MODULE Uuid --------------------------------
(***************************************************************************)
(* UUID of version 7 (uuid.cpp), a sequence of sixteen bytes, and the text *)
(* of bytes in hexadecimal digits (hex_codec.h).                           *)
(*                                                                         *)
(* A byte is two digits of Radix, which is 16 in the code and may be any   *)
(* even number here; Version is 7 in the code.                             *)
(***************************************************************************)
EXTENDS Naturals, Sequences

CONSTANTS Radix, Version

ASSUME RadixAssumption == Radix \in Nat \ {0} /\ Radix % 2 = 0

ASSUME VersionAssumption == Version \in 0..(Radix - 1)

Byte == 0..(Radix * Radix - 1)

Length == 16

UUIDs == [1..Length -> Byte]

\* Mutant: the first byte of the time is the lowest one.
PlaceReversed ==
    LET b == Radix * Radix IN <<1, b, b * b, b * b * b, b * b * b * b, b * b * b * b * b>>

\* What one in each byte of the time counts: 2^40 down to 1.
Place ==
    LET b == Radix * Radix IN <<b * b * b * b * b, b * b * b * b, b * b * b, b * b, b, 1>>

\* The milliseconds that six bytes hold: they last until the year 10889.
Milliseconds == LET b == Radix * Radix IN 0..(b * b * b * b * b * b - 1)

\* UUID::generate(), in this millisecond, with ten random bytes.
Generate(ms, random) ==
    [i \in 1..Length |->
        CASE i <= 6 -> (ms \div Place[i]) % (Radix * Radix)
          [] i = 7 -> Version * Radix + (random[1] % Radix)
          [] i = 9 -> ((Radix * Radix) \div 2) + (random[3] % ((Radix * Radix) \div 4))
          [] OTHER -> random[i - 6]]

TimestampMs(id) ==
    id[1] * Place[1] + id[2] * Place[2] + id[3] * Place[3]
        + id[4] * Place[4] + id[5] * Place[5] + id[6]

\* operator<=>: byte by byte, the first difference decides.
Less(a, b) ==
    \E i \in 1..Length : a[i] < b[i] /\ \A j \in 1..(i - 1) : a[j] = b[j]

-----------------------------------------------------------------------------
(* A character is a digit, its value, in lower or upper case, or no digit. *)

Lower(digit) == [digit |-> digit, upper |-> FALSE]

Upper(digit) == [digit |-> digit, upper |-> TRUE]

NoDigit == [digit |-> Radix, upper |-> FALSE]

HexEncode(bytes) ==
    [i \in 1..(2 * Len(bytes)) |->
        LET byte == bytes[(i + 1) \div 2] IN
        Lower(IF i % 2 = 1 THEN byte \div Radix ELSE byte % Radix)]

IsHex(text) == Len(text) % 2 = 0 /\ \A i \in DOMAIN text : text[i].digit < Radix

\* from_chars takes either case; a character it does not take ends it early.
HexDecode(text, none) ==
    IF IsHex(text)
    THEN [i \in 1..(Len(text) \div 2) |->
             text[2 * i - 1].digit * Radix + text[2 * i].digit]
    ELSE none

\* HexCodec<UUID>::decode.
UuidDecode(text, none) ==
    IF Len(text) = 2 * Length THEN HexDecode(text, none) ELSE none
=============================================================================

---------------------------- MODULE RegistryHash ----------------------------
(***************************************************************************)
(* The names of registers: the 32-bit hash of a key, and the hexadecimal   *)
(* string of a hash, which is the register's key in NVS (registry.c).      *)
(* A key is its sequence of character codes.  A 64-bit word is a function  *)
(* from the positions of its nibbles, 0 the lowest, to 0 .. 15.            *)
(***************************************************************************)
EXTENDS Integers, Sequences

Positions == 0 .. 15

Word == [Positions -> 0 .. 15]

\* The words that are a 32-bit hash, extended with zeros.
HashWord == {x \in Word : \A p \in 8 .. 15 : x[p] = 0}

\* What a char, which is unsigned here, can be.
Chars == {c \in Nat : c < 256}

\* An int of 32 bits in halves, the upper one first.
Half == {n \in Nat : n < 65536}
Hash32 == Half \X Half

\* 31 * h + c in 32 bits.
Times31Plus(h, c) ==
    LET low == 31 * h[2] + c
    IN  <<(31 * h[1] + low \div 65536) % 65536, low % 65536>>

reg_calc_hashcode(str) ==
    LET hash[i \in 0 .. Len(str)] ==
            IF i = 0 THEN <<0, 0>> ELSE Times31Plus(hash[i - 1], str[i])
    IN  hash[Len(str)]

\* The same hash as a word of nibbles.
Nibbles(h) ==
    LET power == <<1, 16, 256, 4096>>
    IN  [p \in Positions |->
            IF p < 4 THEN (h[2] \div power[p + 1]) % 16
            ELSE IF p < 8 THEN (h[1] \div power[p - 3]) % 16
            ELSE 0]

\* (x & mask) moved by n nibbles, up if n is positive; the mask keeps the nibbles at kept.
Moved(x, kept, n) ==
    [p \in Positions |-> IF p - n \in kept THEN x[p - n] ELSE 0]

\* x | y for words that have no nibble in common.
Joined(x, y) == [p \in Positions |-> x[p] + y[p]]

\* Three exchanges put nibble 7 - k of the hash into the low half of byte k.
Spread(hash) ==
    LET words == Joined(Moved(hash, 0 .. 3, 8), Moved(hash, 4 .. 7, -4))
        pairs == Joined(Moved(words, {2, 3, 10, 11}, -2), Moved(words, {0, 1, 8, 9}, 4))
    IN  Joined(Moved(pairs, {1, 5, 9, 13}, -1), Moved(pairs, {0, 4, 8, 12}, 2))

\* One byte of what the additions do to all eight; no byte of them carries.
Ascii(b) == b + 48 + 39 * ((b + 6) \div 16)

\* The eight characters in memory order.
reg_hashcode_tostr(hash) ==
    [k \in 0 .. 7 |-> Ascii(Spread(hash)[2 * k] + 16 * Spread(hash)[2 * k + 1])]

-----------------------------------------------------------------------------
\* The number that two halves are, and 2^32.
Number(h) == 65536 * h[1] + h[2]
Modulus == 65536 * 65536

\* What the hash is to be: the last of the partial sums of String.hashCode, none of them cut.
Sums(p, str) ==
    /\ p \in [0 .. Len(str) -> Nat]
    /\ p[0] = 0
    /\ \A i \in 1 .. Len(str) : p[i] = 31 * p[i - 1] + str[i]

\* What the conversion is to do: the digits of the hash, the highest first.
HexDigit(n) == IF n < 10 THEN 48 + n ELSE 97 + (n - 10)

Hex(hash) == [k \in 0 .. 7 |-> HexDigit(hash[7 - k])]
=============================================================================

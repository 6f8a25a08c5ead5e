------------------------- MODULE RegistryHashProofs -------------------------
(***************************************************************************)
(* A step of the hash for every hash and character, and the conversion of  *)
(* a hash to the key of NVS for every hash.                                *)
(***************************************************************************)
EXTENDS RegistryHash, TLAPS, WellFoundedInduction, SequenceTheorems

LEMMA Split65536 ==
    ASSUME NEW n \in Nat
    PROVE  n % 65536 \in Half /\ n = 65536 * (n \div 65536) + (n % 65536)
<1>1. n % 65536 < 65536 /\ n % 65536 >= 0 /\ n % 65536 \in Int
  BY SMT
<1>2. n = (n \div 65536) * 65536 + (n % 65536)
  BY Z3
<1>3. n \div 65536 \in Int
  BY Z3
<1>. QED
  BY <1>1, <1>2, <1>3, Z3 DEF Half

\* registry.c:34: in its two halves the hash is 31 times the old one and the character, with
\* what does not fit into 32 bits lost, as in the multiplication of the machine.
THEOREM Times31PlusCorrect ==
    ASSUME NEW h \in Hash32, NEW c \in Chars
    PROVE  /\ Times31Plus(h, c) \in Hash32
           /\ Number(Times31Plus(h, c)) = (31 * Number(h) + c) % Modulus
<1>. DEFINE low == 31 * h[2] + c
            high == 31 * h[1] + low \div 65536
<1>0. c \in Nat
  BY DEF Chars
<1>1. h[1] \in Nat /\ h[2] \in Nat
  BY DEF Hash32, Half
<1>2. low \in Nat /\ low \div 65536 \in Nat /\ high \in Nat
  BY <1>0, <1>1, Z3
<1>3. 31 * Number(h) + c = 65536 * (31 * h[1]) + low
  BY <1>0, <1>1, Z3 DEF Number
<1>4. Times31Plus(h, c) = <<high % 65536, low % 65536>>
  BY DEF Times31Plus
<1>. HIDE DEF low, high
<1>5. /\ low % 65536 \in Half /\ high % 65536 \in Half
      /\ low = 65536 * (low \div 65536) + (low % 65536)
      /\ high = 65536 * (high \div 65536) + (high % 65536)
  BY <1>2, Split65536
<1>6. 31 * Number(h) + c = 65536 * high + (low % 65536)
  <2>1. high = 31 * h[1] + low \div 65536
    BY DEF high
  <2>2. low % 65536 \in Nat
    BY <1>5 DEF Half
  <2>. QED
    BY <1>1, <1>2, <1>3, <1>5, <2>1, <2>2, Z3
<1>7. Number(Times31Plus(h, c)) = 65536 * (high % 65536) + (low % 65536)
  BY <1>4, Z3 DEF Number
<1>8. (31 * Number(h) + c) % Modulus = 65536 * (high % 65536) + (low % 65536)
  BY <1>2, <1>5, <1>6, Z3 DEF Half, Modulus
<1>. QED
  BY <1>4, <1>5, <1>7, <1>8 DEF Hash32

-----------------------------------------------------------------------------
(* The hash of a whole key.  Induction is over a set of numbers, whose      *)
(* least counterexample would have a predecessor that is none.              *)

LEMMA LeastElement ==
    ASSUME NEW T, T \subseteq Nat, T # {}
    PROVE  \E n \in T : \A m \in T : ~(m < n)
<1>. DEFINE R == {p \in Nat \X Nat : p[1] < p[2]}
<1>1. IsWellFoundedOn(R, Nat)
  BY NatLessThanWellFounded DEF OpToRel
<1>. HIDE DEF R
<1>2. PICK n \in T : \A m \in T : ~(<<m, n>> \in R)
  BY <1>1, WFMin
<1>. QED
  BY <1>2 DEF R

LEMMA SetInduction ==
    ASSUME NEW G, 0 \in G, \A n \in Nat : n \in G => n + 1 \in G
    PROVE  Nat \subseteq G
<1>. DEFINE Bad == Nat \ G
<1>. SUFFICES ASSUME Bad # {} PROVE FALSE
  OBVIOUS
<1>1. PICK n \in Bad : \A m \in Bad : ~(m < n)
  BY LeastElement
<1>2. n \in Nat \ {0} /\ n - 1 \in Nat
  BY <1>1
<1>3. n - 1 \in G
  BY <1>1, <1>2
<1>. QED
  BY <1>2, <1>3

\* The values from a on, each the step from the one before and its place.
Iterates(g, S, a, step, n) ==
    /\ g \in [0 .. n -> S]
    /\ g[0] = a
    /\ \A i \in 1 .. n : g[i] = step[<<g[i - 1], i>>]

LEMMA Iterated ==
    ASSUME NEW S, NEW a \in S, NEW step \in [S \X Nat -> S], NEW n \in Nat
    PROVE  \E g : Iterates(g, S, a, step, n)
<1>. DEFINE Good == {k \in Nat : \E g : Iterates(g, S, a, step, k)}
<1>1. 0 \in Good
  <2>. DEFINE g == [i \in 0 .. 0 |-> a]
  <2>1. g \in [0 .. 0 -> S] /\ g[0] = a /\ 1 .. 0 = {}
    OBVIOUS
  <2>. HIDE DEF g
  <2>2. Iterates(g, S, a, step, 0)
    BY <2>1 DEF Iterates
  <2>. QED
    BY <2>2
<1>2. ASSUME NEW k \in Nat, k \in Good PROVE k + 1 \in Good
  <2>1. PICK g : Iterates(g, S, a, step, k)
    BY <1>2
  <2>. DEFINE next == step[<<g[k], k + 1>>]
              h == [i \in 0 .. k + 1 |-> IF i = k + 1 THEN next ELSE g[i]]
  <2>2. g[k] \in S /\ next \in S
    BY <2>1 DEF Iterates
  <2>3. h \in [0 .. k + 1 -> S] /\ h[0] = a
    BY <2>1, <2>2 DEF Iterates
  <2>4. ASSUME NEW i \in 1 .. k + 1 PROVE h[i] = step[<<h[i - 1], i>>]
    <3>1. CASE i = k + 1
      <4>1. h[i] = next /\ h[i - 1] = g[k]
        BY <3>1
      <4>. QED
        BY <3>1, <4>1
    <3>2. CASE i # k + 1
      <4>1. i \in 1 .. k /\ h[i] = g[i] /\ h[i - 1] = g[i - 1]
        BY <3>2
      <4>. QED
        BY <2>1, <4>1 DEF Iterates
    <3>. QED
      BY <3>1, <3>2
  <2>. HIDE DEF h
  <2>5. Iterates(h, S, a, step, k + 1)
    BY <2>3, <2>4 DEF Iterates
  <2>. QED
    BY <2>5
<1>. HIDE DEF Good
<1>3. Nat \subseteq Good
  BY <1>1, <1>2, SetInduction
<1>. QED
  BY <1>3 DEF Good

\* The two recursive definitions, by their equations.
LEMMA HashEquations ==
    ASSUME NEW str \in Seq(Chars)
    PROVE  \E g \in [0 .. Len(str) -> Hash32] :
               /\ g[0] = <<0, 0>>
               /\ \A i \in 1 .. Len(str) : g[i] = Times31Plus(g[i - 1], str[i])
               /\ reg_calc_hashcode(str) = g[Len(str)]
<1>. DEFINE n == Len(str)
            next(h, i) == IF i \in 1 .. n THEN Times31Plus(h, str[i]) ELSE h
            step == [x \in Hash32 \X Nat |-> next(x[1], x[2])]
            Is(f) == f = [i \in 0 .. n |->
                             IF i = 0 THEN <<0, 0>> ELSE Times31Plus(f[i - 1], str[i])]
            hash == CHOOSE f : Is(f)
<1>1. reg_calc_hashcode(str) = hash[n]
  BY DEF reg_calc_hashcode
<1>2. n \in Nat /\ \A i \in 1 .. n : str[i] \in Chars
  BY ElementOfSeq, LenProperties
<1>. HIDE DEF n
<1>3. <<0, 0>> \in Hash32
  BY DEF Hash32, Half
<1>4. ASSUME NEW h \in Hash32, NEW i \in Nat PROVE next(h, i) \in Hash32
  BY <1>2, Times31PlusCorrect
<1>5. ASSUME NEW h \in Hash32, NEW i \in Nat PROVE step[<<h, i>>] = next(h, i)
  <2>. HIDE DEF next
  <2>. QED
    OBVIOUS
<1>6. step \in [Hash32 \X Nat -> Hash32]
  <2>. HIDE DEF next
  <2>1. ASSUME NEW x \in Hash32 \X Nat PROVE next(x[1], x[2]) \in Hash32
    <3>1. x[1] \in Hash32 /\ x[2] \in Nat
      OBVIOUS
    <3>. QED
      BY <1>4, <3>1
  <2>. QED
    BY <2>1
<1>. HIDE DEF step
<1>7. PICK g : Iterates(g, Hash32, <<0, 0>>, step, n)
  BY <1>2, <1>3, <1>6, Iterated
<1>8. ASSUME NEW i \in 1 .. n PROVE g[i] = Times31Plus(g[i - 1], str[i])
  <2>1. i - 1 \in 0 .. n /\ i \in Nat
    BY <1>2
  <2>2. g[i - 1] \in Hash32
    BY <1>7, <2>1 DEF Iterates
  <2>. QED
    BY <1>5, <1>7, <2>1, <2>2 DEF Iterates
<1>9. Is(g)
  <2>1. ASSUME NEW i \in 0 .. n
        PROVE  g[i] = IF i = 0 THEN <<0, 0>> ELSE Times31Plus(g[i - 1], str[i])
    <3>1. CASE i = 0
      BY <1>7, <3>1 DEF Iterates
    <3>2. CASE i # 0
      <4>1. i \in 1 .. n
        BY <1>2, <3>2
      <4>. QED
        BY <1>8, <3>2, <4>1
    <3>. QED
      BY <3>1, <3>2
  <2>. QED
    BY <1>7, <2>1 DEF Iterates
<1>10. Is(hash)
  <2>. HIDE DEF Is
  <2>. QED
    BY <1>9
<1>11. hash = g
  <2>. DEFINE Same == {k \in Nat : k \in 0 .. n => hash[k] = g[k]}
  <2>. HIDE DEF hash
  <2>1. 0 \in Same
    BY <1>2, <1>9, <1>10
  <2>2. ASSUME NEW k \in Nat, k \in Same PROVE k + 1 \in Same
    <3>. SUFFICES ASSUME k + 1 \in 0 .. n PROVE hash[k + 1] = g[k + 1]
      OBVIOUS
    <3>1. k \in 0 .. n /\ k + 1 # 0 /\ (k + 1) - 1 = k
      BY <1>2
    <3>2. hash[k + 1] = Times31Plus(hash[k], str[k + 1]) /\ g[k + 1] = Times31Plus(g[k], str[k + 1])
      BY <1>9, <1>10, <3>1
    <3>. QED
      BY <2>2, <3>1, <3>2
  <2>. HIDE DEF Same
  <2>3. Nat \subseteq Same
    BY <2>1, <2>2, SetInduction
  <2>4. \A k \in 0 .. n : hash[k] = g[k]
    BY <1>2, <2>3 DEF Same
  <2>. QED
    BY <1>9, <1>10, <2>4
<1>. HIDE DEF hash
<1>. QED
  BY <1>1, <1>7, <1>8, <1>11 DEF n, Iterates

LEMMA SumsExist == ASSUME NEW str \in Seq(Chars) PROVE \E p : Sums(p, str)
<1>. DEFINE n == Len(str)
            next(h, i) == IF i \in 1 .. n THEN 31 * h + str[i] ELSE h
            step == [x \in Nat \X Nat |-> next(x[1], x[2])]
<1>1. n \in Nat /\ \A i \in 1 .. n : str[i] \in Nat
  BY ElementOfSeq, LenProperties DEF Chars
<1>. HIDE DEF n
<1>2. ASSUME NEW h \in Nat, NEW i \in Nat PROVE next(h, i) \in Nat
  BY <1>1
<1>. HIDE DEF next
<1>3. ASSUME NEW h \in Nat, NEW i \in Nat PROVE step[<<h, i>>] = next(h, i)
  OBVIOUS
<1>4. step \in [Nat \X Nat -> Nat]
  <2>1. ASSUME NEW x \in Nat \X Nat PROVE next(x[1], x[2]) \in Nat
    <3>1. x[1] \in Nat /\ x[2] \in Nat
      OBVIOUS
    <3>. QED
      BY <1>2, <3>1
  <2>. QED
    BY <2>1
<1>. HIDE DEF step
<1>5. PICK p : Iterates(p, Nat, 0, step, n)
  BY <1>1, <1>4, Iterated
<1>6. ASSUME NEW i \in 1 .. n PROVE p[i] = 31 * p[i - 1] + str[i]
  <2>1. i - 1 \in 0 .. n /\ i \in Nat
    BY <1>1
  <2>2. p[i - 1] \in Nat
    BY <1>5, <2>1 DEF Iterates
  <2>. QED
    BY <1>3, <1>5, <2>1, <2>2 DEF next, Iterates
<1>. QED
  BY <1>5, <1>6 DEF n, Sums, Iterates

\* Cutting a number to 32 bits before or after a step makes no difference.
LEMMA CutLater ==
    ASSUME NEW n \in Nat, NEW c \in Nat
    PROVE  (31 * (n % Modulus) + c) % Modulus = (31 * n + c) % Modulus
BY Z3 DEF Modulus

\* registry.c:28-37: the hash of a key of any length is the number of Java's String.hashCode,
\* where the comment above the function takes its method from, modulo 2^32.
THEOREM HashcodeCorrect ==
    ASSUME NEW str \in Seq(Chars)
    PROVE  /\ reg_calc_hashcode(str) \in Hash32
           /\ \E p : Sums(p, str)
           /\ \A p : Sums(p, str) =>
                  Number(reg_calc_hashcode(str)) = p[Len(str)] % Modulus
<1>1. PICK g \in [0 .. Len(str) -> Hash32] :
          /\ g[0] = <<0, 0>>
          /\ \A i \in 1 .. Len(str) : g[i] = Times31Plus(g[i - 1], str[i])
          /\ reg_calc_hashcode(str) = g[Len(str)]
  BY HashEquations
<1>. DEFINE n == Len(str)
<1>2. n \in Nat /\ \A i \in 1 .. n : str[i] \in Chars
  BY ElementOfSeq, LenProperties
<1>3. ASSUME NEW p, Sums(p, str)
      PROVE  Number(reg_calc_hashcode(str)) = p[n] % Modulus
  <2>. DEFINE Same == {k \in Nat : k \in 0 .. n => Number(g[k]) = p[k] % Modulus}
  <2>1. 0 \in Same
    <3>1. Number(g[0]) = 0 /\ p[0] = 0
      BY <1>1, <1>3, Z3 DEF Number, Sums
    <3>2. 0 % Modulus = 0
      BY Z3 DEF Modulus
    <3>. QED
      BY <3>1, <3>2
  <2>2. ASSUME NEW k \in Nat, k \in Same PROVE k + 1 \in Same
    <3>. SUFFICES ASSUME k + 1 \in 0 .. n
                  PROVE  Number(g[k + 1]) = p[k + 1] % Modulus
      OBVIOUS
    <3>1. k \in 0 .. n /\ k + 1 \in 1 .. n /\ (k + 1) - 1 = k
      BY <1>2
    <3>2. /\ g[k] \in Hash32 /\ g[k + 1] = Times31Plus(g[k], str[k + 1])
          /\ p[k] \in Nat /\ p[k + 1] = 31 * p[k] + str[k + 1]
      BY <1>1, <1>3, <3>1 DEF Sums
    <3>3. str[k + 1] \in Chars /\ str[k + 1] \in Nat
      BY <1>2, <3>1 DEF Chars
    <3>4. Number(g[k + 1]) = (31 * Number(g[k]) + str[k + 1]) % Modulus
      BY <3>2, <3>3, Times31PlusCorrect
    <3>5. Number(g[k]) = p[k] % Modulus
      BY <2>2, <3>1
    <3>6. (31 * (p[k] % Modulus) + str[k + 1]) % Modulus = (31 * p[k] + str[k + 1]) % Modulus
      BY <3>2, <3>3, CutLater
    <3>. QED
      BY <3>2, <3>4, <3>5, <3>6
  <2>. HIDE DEF Same
  <2>3. Nat \subseteq Same
    BY <2>1, <2>2, SetInduction
  <2>. QED
    BY <1>1, <1>2, <2>3 DEF Same
<1>4. reg_calc_hashcode(str) \in Hash32
  BY <1>1, <1>2
<1>. QED
  BY <1>3, <1>4, SumsExist

-----------------------------------------------------------------------------
(* The names of hashes in NVS.                                             *)

\* Half a hash is its four nibbles.
LEMMA HalfOfNibbles ==
    ASSUME NEW n \in Half
    PROVE  /\ (n \div 1) % 16 \in 0 .. 15 /\ (n \div 16) % 16 \in 0 .. 15
           /\ (n \div 256) % 16 \in 0 .. 15 /\ (n \div 4096) % 16 \in 0 .. 15
           /\ n = ((n \div 1) % 16) + 16 * ((n \div 16) % 16) +
                    256 * ((n \div 256) % 16) + 4096 * ((n \div 4096) % 16)
BY Z3 DEF Half

\* The nibbles by name.
LEMMA NibbleAt ==
    ASSUME NEW h
    PROVE  /\ Nibbles(h)[0] = (h[2] \div 1) % 16 /\ Nibbles(h)[1] = (h[2] \div 16) % 16
           /\ Nibbles(h)[2] = (h[2] \div 256) % 16 /\ Nibbles(h)[3] = (h[2] \div 4096) % 16
           /\ Nibbles(h)[4] = (h[1] \div 1) % 16 /\ Nibbles(h)[5] = (h[1] \div 16) % 16
           /\ Nibbles(h)[6] = (h[1] \div 256) % 16 /\ Nibbles(h)[7] = (h[1] \div 4096) % 16
           /\ \A p \in 8 .. 15 : Nibbles(h)[p] = 0
BY DEF Nibbles, Positions

LEMMA NibblesType == ASSUME NEW h \in Hash32 PROVE Nibbles(h) \in HashWord
<1>1. h[1] \in Half /\ h[2] \in Half
  BY DEF Hash32
<1>2. \A p \in 0 .. 7 : Nibbles(h)[p] \in 0 .. 15
  <2>1. \A p \in 0 .. 7 : p \in {0, 1, 2, 3, 4, 5, 6, 7}
    OBVIOUS
  <2>. QED
    BY <1>1, <2>1, NibbleAt, HalfOfNibbles
<1>3. Nibbles(h) = [p \in Positions |-> Nibbles(h)[p]]
  BY DEF Nibbles
<1>. QED
  BY <1>2, <1>3, NibbleAt DEF HashWord, Word, Positions

\* No two hashes have the same nibbles.
LEMMA NibblesInjective ==
    ASSUME NEW g \in Hash32, NEW h \in Hash32, Nibbles(g) = Nibbles(h)
    PROVE  g = h
<1>1. /\ g[1] \in Half /\ g[2] \in Half /\ g = <<g[1], g[2]>>
      /\ h[1] \in Half /\ h[2] \in Half /\ h = <<h[1], h[2]>>
  BY DEF Hash32
<1>2. g[2] = h[2]
  BY <1>1, NibbleAt, HalfOfNibbles
<1>3. g[1] = h[1]
  BY <1>1, NibbleAt, HalfOfNibbles
<1>. QED
  BY <1>1, <1>2, <1>3

\* Byte k of the spread word is nibble 7 - k, and its upper half is zero.
LEMMA SpreadBytes ==
    ASSUME NEW hash \in HashWord, NEW k \in 0 .. 7
    PROVE  Spread(hash)[2 * k] = hash[7 - k] /\ Spread(hash)[2 * k + 1] = 0
<1>. USE DEF HashWord, Word, Positions
<1>. DEFINE words == Joined(Moved(hash, 0 .. 3, 8), Moved(hash, 4 .. 7, -4))
            pairs == Joined(Moved(words, {2, 3, 10, 11}, -2), Moved(words, {0, 1, 8, 9}, 4))
<1>0. Spread(hash) = Joined(Moved(pairs, {1, 5, 9, 13}, -1), Moved(pairs, {0, 4, 8, 12}, 2))
  BY DEF Spread
<1>1. \A p \in Positions :
         words[p] = IF p \in 8 .. 11 THEN hash[p - 8]
                    ELSE IF p \in 0 .. 3 THEN hash[p + 4] ELSE 0
  BY DEF Joined, Moved
<1>. HIDE DEF words
<1>2. \A p \in Positions :
         pairs[p] = IF p \in {0, 1, 8, 9} THEN words[p + 2]
                    ELSE IF p \in {4, 5, 12, 13} THEN words[p - 4] ELSE 0
  BY <1>1 DEF Joined, Moved
<1>. HIDE DEF pairs
<1>3. \A p \in Positions :
         Spread(hash)[p] = IF p \in {0, 4, 8, 12} THEN pairs[p + 1]
                           ELSE IF p \in {2, 6, 10, 14} THEN pairs[p - 2] ELSE 0
  <2>1. \A p \in Positions : pairs[p] \in 0 .. 15
    BY <1>1, <1>2
  <2>. QED
    BY <1>0, <2>1 DEF Joined, Moved
<1>. QED
  BY <1>1, <1>2, <1>3

\* The string is the hexadecimal number, digit by digit, for all 2^32 hashes.
THEOREM HexCorrect ==
    ASSUME NEW hash \in HashWord
    PROVE  reg_hashcode_tostr(hash) = Hex(hash)
<1>1. ASSUME NEW k \in 0 .. 7
      PROVE  Ascii(Spread(hash)[2 * k] + 16 * Spread(hash)[2 * k + 1]) = HexDigit(hash[7 - k])
  <2>1. hash[7 - k] \in 0 .. 15
    BY DEF HashWord, Word, Positions
  <2>2. Spread(hash)[2 * k] + 16 * Spread(hash)[2 * k + 1] = hash[7 - k]
    BY SpreadBytes, <2>1
  <2>. QED
    BY <2>1, <2>2 DEF Ascii, HexDigit
<1>. QED
  BY <1>1 DEF reg_hashcode_tostr, Hex

\* Registers of different hashes never share a key of NVS.
THEOREM HexInjective ==
    ASSUME NEW g \in HashWord, NEW h \in HashWord,
           reg_hashcode_tostr(g) = reg_hashcode_tostr(h)
    PROVE  g = h
<1>1. ASSUME NEW k \in 0 .. 7 PROVE g[7 - k] = h[7 - k]
  <2>1. g[7 - k] \in 0 .. 15 /\ h[7 - k] \in 0 .. 15
    BY DEF HashWord, Word, Positions
  <2>2. HexDigit(g[7 - k]) = HexDigit(h[7 - k])
    BY HexCorrect DEF Hex
  <2>. QED
    BY <2>1, <2>2 DEF HexDigit
<1>2. ASSUME NEW p \in 0 .. 7 PROVE g[p] = h[p]
  <2>1. 7 - p \in 0 .. 7 /\ 7 - (7 - p) = p
    OBVIOUS
  <2>. QED
    BY <1>1, <2>1
<1>3. \A p \in 8 .. 15 : g[p] = h[p]
  BY DEF HashWord
<1>. QED
  BY <1>2, <1>3 DEF HashWord, Word, Positions
=============================================================================

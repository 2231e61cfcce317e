------------------------------- MODULE Words --------------------------------
(***************************************************************************)
(* Machine words as the sets of the places of their 1 bits: a byte is a    *)
(* subset of 0..7, a uint32_t one of 0..31.  Sums are taken over halves of *)
(* 16 bits, which TLC's integers hold.                                     *)
(***************************************************************************)
EXTENDS Naturals, Sequences, SequencesExt

BitsOf(n, v) == {i \in 0..(n - 1) : (v \div 2^i) % 2 = 1}

Byte(v) == BitsOf(8, v)

(* The same sequence, with its elements computed.                          *)
AsTuple(s) == <<>> \o s

(* A word from its upper and its lower half.                               *)
Word(hi, lo) == BitsOf(16, lo) \cup {i + 16 : i \in BitsOf(16, hi)}

Words(halves) ==
    AsTuple([i \in DOMAIN halves |-> Word(halves[i][1], halves[i][2])])

ByteTable(values) == AsTuple([i \in DOMAIN values |-> Byte(values[i])])

Xor(x, y) == (x \ y) \cup (y \ x)
Xor3(x, y, z) == Xor(Xor(x, y), z)

RotrTheOtherWay(x, n) == {(i + n) % 32 : i \in x}
Rotr(x, n) == {(i + 32 - n) % 32 : i \in x}
Shr(x, n) == {i - n : i \in {j \in x : j >= n}}

(* Bitwise (f AND g) XOR (NOT f AND h), and the majority of three.         *)
Ch(x, y, z) == Xor(x \cap y, z \ x)
Maj(x, y, z) == Xor3(x \cap y, x \cap z, y \cap z)

(* A word, and each half of it, from places to numbers.                    *)
Half(x) == SumFunctionOnSet([i \in 0..15 |-> 2^i], x)
Lower(x) == {i \in x : i < 16}
Upper(x) == {i - 16 : i \in {j \in x : j >= 16}}

(* The sum of words, before it is cut to 32 bits.                          *)
Total(words) ==
    LET hi == SumFunction([k \in DOMAIN words |-> Half(Upper(words[k]))])
        lo == SumFunction([k \in DOMAIN words |-> Half(Lower(words[k]))])
    IN  <<hi + (lo \div 2^16), lo % 2^16>>

Sum32(words) ==
    LET sum == Total(words) IN Word(sum[1] % 2^16, sum[2])

(* How often 2^32 goes into the sum.                                       *)
Carries(words) == Total(words)[1] \div 2^16
=============================================================================

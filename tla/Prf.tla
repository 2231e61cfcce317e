-------------------------------- MODULE Prf ---------------------------------
(***************************************************************************)
(* The pseudo-random function behind Fiat-Shamir challenges in the         *)
(* WebAssembly build: AES-256 of shims/util/crypto.cc, its key expansion a *)
(* word at a time and the rounds of each block one by one.  Every other    *)
(* build takes AES from OpenSSL, and a prover and a verifier of different  *)
(* builds must draw the same challenges.                                   *)
(***************************************************************************)
EXTENDS Words, FiniteSets

CONSTANT kMaxBlocks   \* no more blocks are drawn under one key

(* 2^40 in the source, a number out of TLC's reach; no more is needed.     *)
ASSUME MaxBlocksAssumption ==
    kMaxBlocks \in Nat /\ kMaxBlocks \div 1073741824 <= 1024

VARIABLES
    roundKey,   \* the round key, as far as it is expanded; <<>> before
    nblock,     \* blocks that FSPRF has begun
    state,      \* the block in work, or the last one
    round       \* rounds done of it; 14 when it is complete

prf == <<roundKey, nblock, state, round>>

-----------------------------------------------------------------------------
kAesSBox ==
    ByteTable(<<99, 124, 119, 123, 242, 107, 111, 197, 48, 1, 103, 43,
      254, 215, 171, 118, 202, 130, 201, 125, 250, 89, 71, 240,
      173, 212, 162, 175, 156, 164, 114, 192, 183, 253, 147, 38,
      54, 63, 247, 204, 52, 165, 229, 241, 113, 216, 49, 21,
      4, 199, 35, 195, 24, 150, 5, 154, 7, 18, 128, 226,
      235, 39, 178, 117, 9, 131, 44, 26, 27, 110, 90, 160,
      82, 59, 214, 179, 41, 227, 47, 132, 83, 209, 0, 237,
      32, 252, 177, 91, 106, 203, 190, 57, 74, 76, 88, 207,
      208, 239, 170, 251, 67, 77, 51, 133, 69, 249, 2, 127,
      80, 60, 159, 168, 81, 163, 64, 143, 146, 157, 56, 245,
      188, 182, 218, 33, 16, 255, 243, 210, 205, 12, 19, 236,
      95, 151, 68, 23, 196, 167, 126, 61, 100, 93, 25, 115,
      96, 129, 79, 220, 34, 42, 144, 136, 70, 238, 184, 20,
      222, 94, 11, 219, 224, 50, 58, 10, 73, 6, 36, 92,
      194, 211, 172, 98, 145, 149, 228, 121, 231, 200, 55, 109,
      141, 213, 78, 169, 108, 86, 244, 234, 101, 122, 174, 8,
      186, 120, 37, 46, 28, 166, 180, 198, 232, 221, 116, 31,
      75, 189, 139, 138, 112, 62, 181, 102, 72, 3, 246, 14,
      97, 53, 87, 185, 134, 193, 29, 158, 225, 248, 152, 17,
      105, 217, 142, 148, 155, 30, 135, 233, 206, 85, 40, 223,
      140, 161, 137, 13, 191, 230, 66, 104, 65, 153, 45, 15,
      176, 84, 187, 22>>)

kAesRcon ==
    ByteTable(<<0, 1, 2, 4, 8, 16, 32, 64, 128, 27, 54, 108, 216, 171, 77>>)

Value(x) == SumFunctionOnSet([i \in 0..7 |-> 2^i], x)

SBox(x) == kAesSBox[Value(x) + 1]

(* Shifted left by one, and reduced where a bit is shifted out.            *)
Xtime(x) ==
    Xor({i + 1 : i \in x \ {7}}, IF 7 \in x THEN Byte(27) ELSE {})

SubBytes(s) == [i \in 1..16 |-> SBox(s[i])]

ShiftRowsUp(s) ==
    LET from == <<0, 13, 10, 7, 4, 1, 14, 11, 8, 5, 2, 15, 12, 9, 6, 3>>
    IN  [i \in 1..16 |-> s[from[i] + 1]]

ShiftRows(s) ==
    LET from == <<0, 5, 10, 15, 4, 9, 14, 3, 8, 13, 2, 7, 12, 1, 6, 11>>
    IN  [i \in 1..16 |-> s[from[i] + 1]]

MixColumns(s) ==
    [i \in 1..16 |->
        LET c == 4 * ((i - 1) \div 4)
            next == c + (i % 4) + 1
            t == Xor(Xor(s[c + 1], s[c + 2]), Xor(s[c + 3], s[c + 4]))
        IN  Xor3(s[i], t, Xtime(Xor(s[i], s[next])))]

AddRoundKey(s, n) == [i \in 1..16 |-> Xor(s[i], roundKey[16 * n + i])]

(* The next four bytes of the key; n bytes are there.                      *)
NextKeyWord(key, n) ==
    LET last == SubSeq(key, n - 3, n)
        temp == IF n % 32 = 0
                THEN <<Xor(SBox(last[2]), kAesRcon[(n \div 32) + 1]),
                       SBox(last[3]), SBox(last[4]), SBox(last[1])>>
                ELSE IF n % 32 = 16
                THEN [i \in 1..4 |-> SBox(last[i])]
                ELSE last
    IN  [i \in 1..4 |-> Xor(key[n - 32 + i], temp[i])]

-----------------------------------------------------------------------------
NoBlock == [i \in 1..16 |-> {}]

InitPrf ==
    /\ roundKey = <<>>
    /\ nblock = 0
    /\ state = NoBlock
    /\ round = 14

NewPrf(key) ==
    /\ roundKey = <<>>
    /\ roundKey' = key
    /\ UNCHANGED <<nblock, state, round>>

(* aes_key_expansion_256.                                                  *)
ExpandKey ==
    /\ roundKey # <<>>
    /\ Len(roundKey) < 240
    /\ roundKey' = roundKey \o NextKeyWord(roundKey, Len(roundKey))
    /\ UNCHANGED <<nblock, state, round>>

CounterBlockOfOneByte(n) == [NoBlock EXCEPT ![1] = Byte(n)]

(* The quotients that u64_to_le takes the bytes of n from, the lowest      *)
(* first, and the block with the 64 bits of the counter.                   *)
Shifted(n) ==
    LET n1 == n \div 256     n2 == n1 \div 256    n3 == n2 \div 256
        n4 == n3 \div 256    n5 == n4 \div 256    n6 == n5 \div 256
    IN  <<n, n1, n2, n3, n4, n5, n6, n6 \div 256>>

CounterBlock(n) == [i \in 1..16 |-> IF i <= 8 THEN Byte(Shifted(n)[i]) ELSE {}]

(* FSPRF::refill, as far as the first round key; past the last block it    *)
(* ends the process.                                                       *)
Refill ==
    /\ Len(roundKey) = 240
    /\ round = 14
    /\ nblock < kMaxBlocks
    /\ state' = AddRoundKey(CounterBlock(nblock), 0)
    /\ round' = 0
    /\ nblock' = nblock + 1
    /\ UNCHANGED roundKey

AesRound ==
    /\ round < 13
    /\ state' = AddRoundKey(MixColumns(ShiftRows(SubBytes(state))), round + 1)
    /\ round' = round + 1
    /\ UNCHANGED <<roundKey, nblock>>

LastRound ==
    /\ round = 13
    /\ state' = AddRoundKey(ShiftRows(SubBytes(state)), 14)
    /\ round' = 14
    /\ UNCHANGED <<roundKey, nblock>>

NextPrf == ExpandKey \/ Refill \/ AesRound \/ LastRound

-----------------------------------------------------------------------------
(* AES-256 as FIPS 197 defines it: over GF(2^8), by rows and columns.      *)

(* Each byte times 1, x, x^2, ... x^7.                                     *)
Multiples ==
    LET append(p, i) == Append(p, Xtime(Last(p)))
    IN  AsTuple([v \in 1..256 |->
            FoldLeft(append, <<Byte(v - 1)>>, <<1, 2, 3, 4, 5, 6, 7>>)])

Times(x, y) ==
    {i \in 0..7 :
        Cardinality({j \in x : i \in Multiples[Value(y) + 1][j + 1]}) % 2 = 1}

Inverse8(x) ==
    IF x = {} THEN {} ELSE CHOOSE y \in SUBSET (0..7) : Times(x, y) = {0}

Affine(b) ==
    Xor(Byte(99),
        {i \in 0..7 : Cardinality({j \in {0, 4, 5, 6, 7} :
                                        (i + j) % 8 \in b}) % 2 = 1})

StandardSBox ==
    AsTuple([v \in 1..256 |-> Affine(Inverse8(Byte(v - 1)))])

StandardSub(x) == StandardSBox[Value(x) + 1]

(* The tables of the source, and the first columns of the one above: no    *)
(* constant is in them, so that TLC decides it for every byte.             *)
ASSUME TablesAssumption ==
    /\ kAesSBox = StandardSBox
    /\ \A i \in 1..7 : kAesRcon[i + 1] = Multiples[2][i]
    /\ \A v \in 1..256 : /\ Multiples[v][1] = Byte(v - 1)
                         /\ Multiples[v][2] = Xtime(Byte(v - 1))

At(s, row, column) == s[4 * (column % 4) + (row % 4) + 1]

(* What round n makes of s; the last one does not mix columns.             *)
StandardRound(s, n) ==
    LET shifted(r, c) == StandardSub(At(s, r, c + (r % 4)))
        mixed(r, c) == Xor(Xor3(Times({1}, shifted(r, c)),
                                Times({0, 1}, shifted(r + 1, c)),
                                shifted(r + 2, c)),
                           shifted(r + 3, c))
        out(r, c) == IF n = 14 THEN shifted(r, c) ELSE mixed(r, c)
    IN  [i \in 1..16 |-> Xor(out((i - 1) % 4, (i - 1) \div 4),
                             roundKey[16 * n + i])]

(* A block that counts n: a 64-bit integer, and nothing above it.          *)
CountsBlock(s, n) ==
    /\ n = Value(s[1]) + 256 * (Value(s[2]) + 256 * (Value(s[3])
            + 256 * (Value(s[4]) + 256 * (Value(s[5]) + 256 * (Value(s[6])
            + 256 * (Value(s[7]) + 256 * Value(s[8])))))))
    /\ \A i \in 9..16 : s[i] = {}

KeyWord(i) == SubSeq(roundKey, 4 * i + 1, 4 * i + 4)

(* Round constant i is x^(i - 1).                                          *)
StandardKeyWord(i) ==
    LET temp == KeyWord(i - 1)
        changed == IF i % 8 = 0
                   THEN <<Xor(StandardSub(temp[2]), Multiples[2][i \div 8]),
                          StandardSub(temp[3]), StandardSub(temp[4]),
                          StandardSub(temp[1])>>
                   ELSE IF i % 8 = 4 THEN [j \in 1..4 |-> StandardSub(temp[j])]
                   ELSE temp
    IN  [j \in 1..4 |-> Xor(KeyWord(i - 8)[j], changed[j])]

-----------------------------------------------------------------------------
(* shims/util/crypto.cc, aes_key_expansion_256, aes_encrypt_block_256: the *)
(* round keys, S-box and round constants included, are those of AES-256;   *)
(* every round, written there with tables of places and without a          *)
(* multiplication, is one of AES; each block is that of the next counter.  *)
DrawsAes256OfTheCounter ==
    [][/\ roundKey' # roundKey =>
            \A i \in 8..((Len(roundKey') \div 4) - 1) :
                KeyWord(i)' = StandardKeyWord(i)'
       /\ round' # 0 /\ state' # state => state' = StandardRound(state, round')
       /\ nblock' # nblock =>
            CountsBlock([i \in 1..16 |-> Xor(state'[i], roundKey[i])], nblock)]_prf
=============================================================================

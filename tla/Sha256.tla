------------------------------- MODULE Sha256 -------------------------------
(***************************************************************************)
(* One message hashed twice, side by side: by the SHA-256 that replaces    *)
(* OpenSSL in WebAssembly, and by the code that makes the witness of the   *)
(* hash for the circuit; and what the circuit asserts of that witness.     *)
(*                                                                         *)
(* WitnessBuilder takes the digest a signature is checked against from the *)
(* former, the circuit computes it from the latter.  The two are written   *)
(* apart, pad apart and have their own tables.                             *)
(***************************************************************************)
EXTENDS Words, FiniteSets

CONSTANTS
    Messages,      \* messages to hash, as sequences of byte values
    CircuitBlocks  \* kApprovalProofV1CircuitHashBlocks

VARIABLES
    msg,    \* the message
    block,  \* the block in work, counted from 0
    shim,   \* sha256_digest: [w, r, h]
    wit,    \* transform_and_witness_message: [w, r, h]
    done    \* no block is left

hash == <<msg, block, shim, wit, done>>

-----------------------------------------------------------------------------
(* Tables.                                                                 *)

ShimK ==
    Words(<<<<\h428a, \h2f98>>, <<\h7137, \h4491>>, <<\hb5c0, \hfbcf>>, <<\he9b5, \hdba5>>,
      <<\h3956, \hc25b>>, <<\h59f1, \h11f1>>, <<\h923f, \h82a4>>, <<\hab1c, \h5ed5>>,
      <<\hd807, \haa98>>, <<\h1283, \h5b01>>, <<\h2431, \h85be>>, <<\h550c, \h7dc3>>,
      <<\h72be, \h5d74>>, <<\h80de, \hb1fe>>, <<\h9bdc, \h06a7>>, <<\hc19b, \hf174>>,
      <<\he49b, \h69c1>>, <<\hefbe, \h4786>>, <<\h0fc1, \h9dc6>>, <<\h240c, \ha1cc>>,
      <<\h2de9, \h2c6f>>, <<\h4a74, \h84aa>>, <<\h5cb0, \ha9dc>>, <<\h76f9, \h88da>>,
      <<\h983e, \h5152>>, <<\ha831, \hc66d>>, <<\hb003, \h27c8>>, <<\hbf59, \h7fc7>>,
      <<\hc6e0, \h0bf3>>, <<\hd5a7, \h9147>>, <<\h06ca, \h6351>>, <<\h1429, \h2967>>,
      <<\h27b7, \h0a85>>, <<\h2e1b, \h2138>>, <<\h4d2c, \h6dfc>>, <<\h5338, \h0d13>>,
      <<\h650a, \h7354>>, <<\h766a, \h0abb>>, <<\h81c2, \hc92e>>, <<\h9272, \h2c85>>,
      <<\ha2bf, \he8a1>>, <<\ha81a, \h664b>>, <<\hc24b, \h8b70>>, <<\hc76c, \h51a3>>,
      <<\hd192, \he819>>, <<\hd699, \h0624>>, <<\hf40e, \h3585>>, <<\h106a, \ha070>>,
      <<\h19a4, \hc116>>, <<\h1e37, \h6c08>>, <<\h2748, \h774c>>, <<\h34b0, \hbcb5>>,
      <<\h391c, \h0cb3>>, <<\h4ed8, \haa4a>>, <<\h5b9c, \hca4f>>, <<\h682e, \h6ff3>>,
      <<\h748f, \h82ee>>, <<\h78a5, \h636f>>, <<\h84c8, \h7814>>, <<\h8cc7, \h0208>>,
      <<\h90be, \hfffa>>, <<\ha450, \h6ceb>>, <<\hbef9, \ha3f7>>, <<\hc671, \h78f2>>>>)

kSha256Round ==
    Words(<<<<\h428a, \h2f98>>, <<\h7137, \h4491>>, <<\hb5c0, \hfbcf>>, <<\he9b5, \hdba5>>,
      <<\h3956, \hc25b>>, <<\h59f1, \h11f1>>, <<\h923f, \h82a4>>, <<\hab1c, \h5ed5>>,
      <<\hd807, \haa98>>, <<\h1283, \h5b01>>, <<\h2431, \h85be>>, <<\h550c, \h7dc3>>,
      <<\h72be, \h5d74>>, <<\h80de, \hb1fe>>, <<\h9bdc, \h06a7>>, <<\hc19b, \hf174>>,
      <<\he49b, \h69c1>>, <<\hefbe, \h4786>>, <<\h0fc1, \h9dc6>>, <<\h240c, \ha1cc>>,
      <<\h2de9, \h2c6f>>, <<\h4a74, \h84aa>>, <<\h5cb0, \ha9dc>>, <<\h76f9, \h88da>>,
      <<\h983e, \h5152>>, <<\ha831, \hc66d>>, <<\hb003, \h27c8>>, <<\hbf59, \h7fc7>>,
      <<\hc6e0, \h0bf3>>, <<\hd5a7, \h9147>>, <<\h06ca, \h6351>>, <<\h1429, \h2967>>,
      <<\h27b7, \h0a85>>, <<\h2e1b, \h2138>>, <<\h4d2c, \h6dfc>>, <<\h5338, \h0d13>>,
      <<\h650a, \h7354>>, <<\h766a, \h0abb>>, <<\h81c2, \hc92e>>, <<\h9272, \h2c85>>,
      <<\ha2bf, \he8a1>>, <<\ha81a, \h664b>>, <<\hc24b, \h8b70>>, <<\hc76c, \h51a3>>,
      <<\hd192, \he819>>, <<\hd699, \h0624>>, <<\hf40e, \h3585>>, <<\h106a, \ha070>>,
      <<\h19a4, \hc116>>, <<\h1e37, \h6c08>>, <<\h2748, \h774c>>, <<\h34b0, \hbcb5>>,
      <<\h391c, \h0cb3>>, <<\h4ed8, \haa4a>>, <<\h5b9c, \hca4f>>, <<\h682e, \h6ff3>>,
      <<\h748f, \h82ee>>, <<\h78a5, \h636f>>, <<\h84c8, \h7814>>, <<\h8cc7, \h0208>>,
      <<\h90be, \hfffa>>, <<\ha450, \h6ceb>>, <<\hbef9, \ha3f7>>, <<\hc671, \h78f2>>>>)

InitialH ==
    Words(<<<<\h6a09, \he667>>, <<\hbb67, \hae85>>, <<\h3c6e, \hf372>>, <<\ha54f, \hf53a>>,
      <<\h510e, \h527f>>, <<\h9b05, \h688c>>, <<\h1f83, \hd9ab>>, <<\h5be0, \hcd19>>>>)

-----------------------------------------------------------------------------
(* Padding.                                                                *)

Zeros(n) == [i \in 1..n |-> 0]

(* The length in bits, as eight bytes, the most significant first.         *)
BitLength(n) == Zeros(6) \o <<(8 * n) \div 256, (8 * n) % 256>>

CeilDiv(a, b) == (a + (b - 1)) \div b

FillAtLeastOnce(n) == CHOOSE z \in 1..64 : (n + 1 + z) % 64 = 56

Fill(n) == CHOOSE z \in 0..63 : (n + 1 + z) % 64 = 56

ShimPadded(m) == m \o <<128>> \o Zeros(Fill(Len(m))) \o BitLength(Len(m))

ShimBlocks(m) == Len(ShimPadded(m)) \div 64

WitnessPadded(m) ==
    LET ii == Len(m) + 1
        toBlock == IF (ii % 64) = 0 \/ (ii % 64) > 56 THEN (64 - (ii % 64)) % 64
                   ELSE 0
        toLength == 56 - ((ii + toBlock) % 64)
        padded == m \o <<128>> \o Zeros(toBlock + toLength)
                    \o BitLength(Len(m))
    IN  padded \o Zeros(64 * CircuitBlocks - Len(padded))

(* "numb", the number of blocks the message needs.                         *)
WitnessBlocks(m) == CeilDiv(Len(m) + 9, 64)

(* Bytes, few enough for BitLength, that fit in the circuit's blocks.  The *)
(* program's messages are two structures of a fixed size, of those blocks. *)
ASSUME MessagesAssumption ==
    /\ CircuitBlocks \in Nat
    /\ \A m \in Messages :
        /\ m \in Seq(0..255)
        /\ Len(m) < 8192
        /\ WitnessBlocks(m) <= CircuitBlocks

(* WitnessBuilder::compute refuses every other number of blocks.           *)
Compute(m) == WitnessBlocks(m) = CircuitBlocks

Load(bytes, offset) ==
    [i \in 1..16 |->
        LET at == offset + 4 * (i - 1)
        IN  Word(256 * bytes[at + 1] + bytes[at + 2],
                 256 * bytes[at + 3] + bytes[at + 4])]

-----------------------------------------------------------------------------
(* One step of each of the two loops, and the end of a block.              *)

ShimSigma0(x) == Xor3(Rotr(x, 2), Rotr(x, 13), Rotr(x, 22))
ShimSigma1(x) == Xor3(Rotr(x, 6), Rotr(x, 11), Rotr(x, 25))
ShimSmall0(x) == Xor3(Rotr(x, 7), Rotr(x, 18), Shr(x, 3))
ShimSmall1(x) == Xor3(Rotr(x, 17), Rotr(x, 19), Shr(x, 10))

ShimWord(w) ==
    LET i == Len(w) + 1
    IN  Sum32(<<w[i - 16], ShimSmall0(w[i - 15]), w[i - 7],
                ShimSmall1(w[i - 2])>>)

(* The registers a, b, c, d, e, f, g, h are r[1] to r[8].                  *)
ShimRound(r, w, t) ==
    LET temp1 == Sum32(<<r[8], ShimSigma1(r[5]), Ch(r[5], r[6], r[7]),
                         ShimK[t + 1], w[t + 1]>>)
        temp2 == Sum32(<<ShimSigma0(r[1]), Maj(r[1], r[2], r[3])>>)
    IN  <<Sum32(<<temp1, temp2>>), r[1], r[2], r[3],
          Sum32(<<r[4], temp1>>), r[5], r[6], r[7]>>

Sigma0(x) == Xor3(Rotr(x, 2), Rotr(x, 13), Rotr(x, 22))
Sigma1(x) == Xor3(Rotr(x, 6), Rotr(x, 11), Rotr(x, 25))
sigma0(x) == Xor3(Rotr(x, 7), Rotr(x, 18), Shr(x, 3))
sigma1(x) == Xor3(Rotr(x, 17), Rotr(x, 19), Shr(x, 10))

WitnessWord(w) ==
    LET i == Len(w) + 1
    IN  Sum32(<<sigma1(w[i - 2]), w[i - 7], sigma0(w[i - 15]), w[i - 16]>>)

WitnessRound(r, w, t) ==
    LET t1 == Sum32(<<r[8], Sigma1(r[5]), Ch(r[5], r[6], r[7]),
                      kSha256Round[t + 1], w[t + 1]>>)
        t2 == Sum32(<<Sigma0(r[1]), Maj(r[1], r[2], r[3])>>)
    IN  <<Sum32(<<t1, t2>>), r[1], r[2], r[3],
          Sum32(<<r[4], t1>>), r[5], r[6], r[7]>>

AddedTo(h, r) == [i \in 1..8 |-> Sum32(<<h[i], r[i]>>)]

-----------------------------------------------------------------------------
ShimWorks == block < ShimBlocks(msg)

InitHash ==
    /\ msg \in Messages
    /\ block = 0
    /\ shim = [w |-> Load(ShimPadded(msg), 0), r |-> InitialH, t |-> 0,
               h |-> InitialH]
    /\ wit = [w |-> Load(WitnessPadded(msg), 0), r |-> InitialH, t |-> 0,
              h |-> InitialH]
    /\ done = FALSE

Extended(s, word) == [s EXCEPT !.w = Append(@, word)]

Extend ==
    /\ ~done
    /\ Len(wit.w) < 64
    /\ shim' = IF ShimWorks THEN Extended(shim, ShimWord(shim.w)) ELSE shim
    /\ wit' = Extended(wit, WitnessWord(wit.w))
    /\ UNCHANGED <<msg, block, done>>

Rounded(s, r) == [s EXCEPT !.r = r, !.t = @ + 1]

Round ==
    /\ ~done
    /\ Len(wit.w) = 64
    /\ wit.t < 64
    /\ shim' = IF ShimWorks
               THEN Rounded(shim, ShimRound(shim.r, shim.w, shim.t))
               ELSE shim
    /\ wit' = Rounded(wit, WitnessRound(wit.r, wit.w, wit.t))
    /\ UNCHANGED <<msg, block, done>>

(* The hash so far, and the next of "blocks" blocks if there is one.       *)
NextBlock(s, padded, blocks) ==
    LET h == AddedTo(s.h, s.r)
    IN  IF block + 1 < blocks
        THEN [w |-> Load(padded, 64 * (block + 1)), r |-> h, t |-> 0, h |-> h]
        ELSE [s EXCEPT !.h = h]

EndBlock ==
    /\ ~done
    /\ wit.t = 64
    /\ shim' = IF ShimWorks
               THEN NextBlock(shim, ShimPadded(msg), ShimBlocks(msg))
               ELSE shim
    /\ wit' = NextBlock(wit, WitnessPadded(msg), CircuitBlocks)
    /\ block' = block + 1
    /\ done' = (block + 1 = CircuitBlocks)
    /\ UNCHANGED msg

NextHash == Extend \/ Round \/ EndBlock

-----------------------------------------------------------------------------
(* The circuit.                                                            *)

AssertEqmodOneLess(a, summands, k) ==
    Sum32(summands) = a /\ Carries(summands) < k - 1

(* b = a + i * 2^32 for some i below k.                                    *)
AssertEqmod(a, summands, k) == Sum32(summands) = a /\ Carries(summands) < k

VCh(x, y, z) == {i \in x : i \in y} \cup {i \in z : i \notin x}
VMaj(x, y, z) ==
    {i \in x \cup y \cup z : Cardinality({s \in 1..3 : i \in <<x, y, z>>[s]}) > 1}

AssertWord(w, outw) ==
    LET i == Len(w) + 1
    IN  AssertEqmod(outw, <<sigma1(w[i - 2]), w[i - 7], sigma0(w[i - 15]),
                            w[i - 16]>>, 4)

AssertRound(r, w, t, oute, outa) ==
    LET t1 == <<r[8], Sigma1(r[5]), VCh(r[5], r[6], r[7]),
                kSha256Round[t + 1], w[t + 1]>>
        t2 == <<Sigma0(r[1]), VMaj(r[1], r[2], r[3])>>
    IN  /\ AssertEqmod(oute, t1 \o <<r[4]>>, 6)
        /\ AssertEqmod(outa, t1 \o t2, 7)

AssertSha256Padding(n, in) ==
    /\ in[n + 1] = 128
    /\ \A i \in (n + 2)..(Len(in) - 8) : in[i] = 0
    /\ SubSeq(in, Len(in) - 7, Len(in)) = BitLength(n)

AssertZeroPadding(nb, in) ==
    \A i \in DOMAIN in : i > 64 * nb => in[i] = 0

-----------------------------------------------------------------------------
(* shims/util/crypto.cc and flatsha256_witness.cc hash alike: at every word*)
(* of the schedule, at every round and after every block, whatever the     *)
(* length of the message leaves of the last block.  What the circuit is    *)
(* given to hash is the padded message, so that for a message that         *)
(* WitnessBuilder::compute does not refuse it finds the digest the         *)
(* signature was checked against.                                          *)
HashInStep ==
    /\ ShimBlocks(msg) = WitnessBlocks(msg)
    /\ ShimWorks => shim = wit
    /\ Compute(msg) =>
        /\ AssertSha256Padding(Len(msg), WitnessPadded(msg))
        /\ AssertZeroPadding(CircuitBlocks, WitnessPadded(msg))
        /\ done => wit.h = shim.h

(* What the witness builder makes passes every assertion of the circuit's  *)
(* assert_transform_block: no sum has more carries than are allowed for.   *)
CircuitAcceptsTheWitness ==
    [][/\ Extend => AssertWord(wit.w, wit'.w[Len(wit'.w)])
       /\ Round => AssertRound(wit.r, wit.w, wit.t, wit'.r[5], wit'.r[1])
       /\ EndBlock => \A i \in 1..8 :
            AssertEqmod(wit'.h[i], <<wit.h[i], wit.r[i]>>, 2)]_hash
=============================================================================

-------------------------------- MODULE Shim --------------------------------
(***************************************************************************)
(* How a challenge comes about in the WebAssembly build: the transcript is *)
(* hashed, by Sha256, and the digest is the key of the pseudo-random       *)
(* function, by Prf, whose blocks are the challenges.                      *)
(***************************************************************************)
EXTENDS Sha256, Prf

CONSTANT Blocks   \* bound: blocks drawn for each message

vars == <<hash, prf>>

(* store_be32.                                                             *)
BytesOf(word) ==
    [j \in 1..4 |-> {b \in 0..7 : b + (8 * (4 - j)) \in word}]

DigestData(h) ==
    AsTuple([k \in 1..32 |->
                BytesOf(h[((k - 1) \div 4) + 1])[((k - 1) % 4) + 1]])

Init == InitHash /\ InitPrf

Hash == NextHash /\ UNCHANGED prf

(* Transcript::bytes, the first time after a write.                        *)
Get == done /\ NewPrf(DigestData(shim.h)) /\ UNCHANGED hash

Draw == NextPrf /\ nblock' <= Blocks[msg] /\ UNCHANGED hash

Next == Hash \/ Get \/ Draw

Spec == Init /\ [][Next]_vars
=============================================================================

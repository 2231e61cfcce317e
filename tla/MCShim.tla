------------------------------- MODULE MCShim -------------------------------
(***************************************************************************)
(* Values for TLC: the messages of FIPS 180-4's examples, with the digests *)
(* published for them, and messages around every length at which padding   *)
(* takes a block more.                                                     *)
(***************************************************************************)
EXTENDS Shim

Abc == <<97, 98, 99>>

(* "abcdbcdecdefdefgefghfghighijhijkijkljklmklmnlmnomnopnopq"              *)
TwoBlocks == [i \in 1..56 |-> 97 + ((i - 1) \div 4) + ((i - 1) % 4)]

Counting(n) == [i \in 1..n |-> (i * 37) % 256]

MCMessages ==
    {<<>>, Abc, TwoBlocks} \cup
    {Counting(n) : n \in {55, 63, 64, 119, 120, 136, 183}}

(* One digest is the key of more blocks than a byte counts.                *)
MCBlocks == [m \in MCMessages |-> IF m = Abc THEN 258 ELSE 2]

Published ==
    LET abc == <<<<\hba78, \h16bf>>, <<\h8f01, \hcfea>>, <<\h4141, \h40de>>,
                 <<\h5dae, \h2223>>, <<\hb003, \h61a3>>, <<\h9617, \h7a9c>>,
                 <<\hb410, \hff61>>, <<\hf200, \h15ad>>>>
        twoBlocks ==
               <<<<\h248d, \h6a61>>, <<\hd206, \h38b8>>, <<\he5c0, \h2693>>,
                 <<\h0c3e, \h6039>>, <<\ha33c, \he459>>, <<\h64ff, \h2167>>,
                 <<\hf6ec, \hedd4>>, <<\h19db, \h06c1>>>>
        empty ==
               <<<<\he3b0, \hc442>>, <<\h98fc, \h1c14>>, <<\h9afb, \hf4c8>>,
                 <<\h996f, \hb924>>, <<\h27ae, \h41e4>>, <<\h649b, \h934c>>,
                 <<\ha495, \h991b>>, <<\h7852, \hb855>>>>
    IN  {<<Abc, Words(abc)>>, <<TwoBlocks, Words(twoBlocks)>>,
         <<<<>>, Words(empty)>>}

(* shims/util/crypto.cc: the digests are those of SHA-256, which OpenSSL   *)
(* computes in every other build.                                          *)
DigestIsSha256 ==
    \A known \in Published :
        (msg = known[1] /\ ~ShimWorks) => shim.h = known[2]
=============================================================================

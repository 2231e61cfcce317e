---------------------------- MODULE MCProofCodec ----------------------------
(***************************************************************************)
(* Five columns of two elements, so that leaves are at two depths, of     *)
(* which two are opened; one layer of two rounds.                          *)
(***************************************************************************)
EXTENDS ProofCodec

Blob(nonce, first, second) ==
    [nonce |-> nonce, column |-> [k \in 0..1 |-> IF k = 0 THEN first ELSE second]]
A == Blob(70, 200, 3)
B == Blob(71, 0, 201)

MCBlobs == [nonce : 0..Base * Base - 1, column : [0..1 -> 0..Modulus - 1]]
MCContents ==
    {[k \in 0..Leaves - 1 |-> IF k % 2 = 0 THEN A ELSE B],
     [k \in 0..Leaves - 1 |-> IF k < 2 THEN A ELSE B]}
MCForeign == {<<"foreign", v>> : v \in (0..Base * Base - 1) \ Nodes}

MCLogw == <<2>>
MCElementOf(place) ==
    CASE place[1] = "hp" -> (65 * place[5]) + (2 * place[4]) + place[3]
      [] place[1] = "wc" -> 10 + place[3]
      [] place[1] = "y_ldt" -> 1000 + place[2]
      [] place[1] = "y_dot" -> 1010 + place[2]
      [] place[1] = "y_quad_0" -> 1020 + place[2]
      [] place[1] = "y_quad_2" -> 1030 + place[2]

(* Openings that differ from the true one in their columns, or in one      *)
(* digest or the length of the path, or in both.                           *)
MCSends(o, digests) ==
    LET path == o.path
        few == {layers[k] : k \in Nodes} \cup {<<"foreign", 99>>}
        paths == {path}
            \cup {[path EXCEPT ![k] = d] : k \in DOMAIN path, d \in few}
            \cup {SubSeq(path, 1, k) : k \in 0..Len(path)}
            \cup {Append(path, d) : d \in few}
    IN  [blobs : {o.blobs, [o.blobs EXCEPT ![2] = IF @ = A THEN B ELSE A]},
         path : paths]
            \cup [blobs : [1..NReq -> {A, B}], path : {path}]

(* A unit that is another, the end missing, or something after it.         *)
MCDamages(bytes) ==
    {[bytes EXCEPT ![k] = u] : k \in 3..Len(bytes), u \in {0, 2, Base - 1}}
        \cup {SubSeq(bytes, 1, k) : k \in 0..Len(bytes) - 1}
        \cup {Append(bytes, 1)}
=============================================================================

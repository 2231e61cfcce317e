--------------------------- MODULE MerkleOpening ---------------------------
(***************************************************************************)
(* How LigeroProver opens columns of the tableau it committed to, and how  *)
(* LigeroVerifier checks them: MerkleTree and its compressed proofs over a *)
(* heap of 2 * Leaves - 1 nodes, for the columns RandomEngine::choose drew.*)
(* Each loop of the code is an action, one turn a step; i is its index.    *)
(*                                                                         *)
(* SHA-256 is ideal: a digest is what was hashed.                          *)
(***************************************************************************)
EXTENDS Naturals, Sequences, FiniteSets

CONSTANTS
    Leaves,       \* columns of the tableau that may be opened: block_ext
    NReq,         \* columns that are
    Contents,     \* what the leaves may hold, a nonce and a column each
    Blobs,        \* what an opening may claim they hold
    Foreign       \* digests of nothing in the tree

ASSUME LeavesAssumption ==
    /\ Leaves \in Nat /\ NReq \in Nat /\ 1 <= NReq /\ NReq <= Leaves
    /\ Contents \subseteq [0..Leaves - 1 -> Blobs]

VARIABLES
    at,           \* the loop that runs, or how the check ended
    i,            \* its index
    contents,     \* nonce and column of each leaf
    layers,       \* MerkleTree::layers_
    shuffled,     \* A of RandomEngine::choose
    idx,          \* the columns to open, so far
    tree,         \* the nodes marked by compressed_merkle_proof_tree
    opening,      \* what the prover opens: columns with nonces, and path
    received,     \* what the verifier reads
    used,         \* digests of the path read so far
    rebuilt,      \* layers of the verifier
    defined       \* those that have a value

prover == <<contents, layers, shuffled, idx, tree, opening>>
verifier == <<received, used, rebuilt, defined>>
vars == <<at, i, prover, verifier>>

-----------------------------------------------------------------------------
Nodes == 1..2 * Leaves - 1
Zero == <<"zero">>
Leaf(blob) == <<"leaf", blob>>
Hash2(l, r) == <<"node", l, r>>

Halvings[x \in Nat] == IF x <= 1 THEN 0 ELSE 1 + Halvings[x \div 2]
PathLen == 1 + Halvings[(Leaves - 1) + Leaves]

Init ==
    /\ at = "build" /\ i = Leaves - 1
    /\ contents \in Contents
    /\ layers = [k \in Nodes |->
            IF k >= Leaves THEN Leaf(contents[k - Leaves]) ELSE Zero]
    /\ shuffled = [k \in 0..Leaves - 1 |-> k]
    /\ idx = <<>> /\ tree = {}
    /\ opening = [blobs |-> <<>>, path |-> <<>>]
    /\ received = [blobs |-> <<>>, path |-> <<>>]
    /\ used = 0 /\ rebuilt = [k \in Nodes |-> Zero] /\ defined = {}

Turn(loop) == at = loop /\ i >= 1 /\ i' = i - 1 /\ at' = loop
Over(loop) == at = loop /\ i = 0
Start(loop) == at' = loop /\ i' = Leaves - 1

(* MerkleTree::build_tree.                                                 *)
BuildTree ==
    /\ Turn("build")
    /\ layers' = [layers EXCEPT ![i] = Hash2(layers[2 * i], layers[2 * i + 1])]
    /\ UNCHANGED <<contents, shuffled, idx, tree, opening, verifier>>

BeginChoosing ==
    /\ Over("build") /\ at' = "choose"
    /\ UNCHANGED <<i, prover, verifier>>

(* RandomEngine::choose.  The randomness comes from the transcript.        *)
SwapFrom(k, j) == [shuffled EXCEPT ![k] = shuffled[j], ![j] = shuffled[k]]

TakesBefore(k, j) == shuffled[k]
Takes(k, j) == SwapFrom(k, j)[k]

Choose ==
    /\ at = "choose" /\ Len(idx) < NReq
    /\ \E j \in Len(idx)..Leaves - 1 :
        /\ shuffled' = SwapFrom(Len(idx), j)
        /\ idx' = Append(idx, Takes(Len(idx), j))
    /\ UNCHANGED <<at, i, contents, layers, tree, opening, verifier>>

(* compressed_merkle_proof_tree, which prover and verifier both compute.   *)
BeginMarking ==
    /\ at = "choose" /\ Len(idx) = NReq /\ Start("mark")
    /\ tree' = {Leaves + idx[r] : r \in 1..NReq}
    /\ UNCHANGED <<contents, layers, shuffled, idx, opening, verifier>>

Mark ==
    /\ Turn("mark")
    /\ tree' = IF 2 * i \in tree \/ 2 * i + 1 \in tree
               THEN tree \cup {i} ELSE tree
    /\ UNCHANGED <<contents, layers, shuffled, idx, opening, verifier>>

-----------------------------------------------------------------------------
(* MerkleCommitment::open, MerkleTree::generate_compressed_proof.          *)
BeginOpening ==
    /\ Over("mark") /\ Start("open")
    /\ opening' = [opening EXCEPT !.blobs = [r \in 1..NReq |-> contents[idx[r]]]]
    /\ UNCHANGED <<contents, layers, shuffled, idx, tree, verifier>>

OtherChild == IF 2 * i \in tree THEN 2 * i + 1 ELSE 2 * i
LacksChild == i \in tree /\ OtherChild \notin tree

PushDigest ==
    /\ Turn("open")
    /\ opening' = IF LacksChild
                  THEN [opening EXCEPT !.path = Append(@, layers[OtherChild])]
                  ELSE opening
    /\ UNCHANGED <<contents, layers, shuffled, idx, tree, verifier>>

(* What is sent: any columns, and any path.                                *)
Digests == {layers[k] : k \in Nodes} \cup Foreign
Openings == [blobs : [1..NReq -> Blobs], path : Seq(Digests)]

(* ZkProof::read refuses paths no opening can have, by its reckoning.      *)
Readable(path) == NReq <= Len(path) /\ Len(path) <= NReq * PathLen

Receive ==
    /\ Over("open")
    /\ received' \in Openings
    /\ IF Readable(received'.path) THEN Start("read")
       ELSE at' = "unreadable" /\ i' = i
    /\ UNCHANGED <<prover, used, rebuilt, defined>>

-----------------------------------------------------------------------------
(* MerkleTreeVerifier::verify_compressed_proof.                            *)
TakesFromTheEnd(path, k) == path[Len(path) - k]
NextDigest(path, k) == path[k + 1]

ReadDigest ==
    /\ at = "read" /\ i >= 1
    /\ IF LacksChild /\ used >= Len(received.path)
       THEN at' = "rejected" /\ UNCHANGED <<i, used, rebuilt, defined>>
       ELSE /\ Turn("read")
            /\ IF LacksChild
               THEN /\ used' = used + 1
                    /\ rebuilt' = [rebuilt EXCEPT ![OtherChild] =
                            NextDigest(received.path, used)]
                    /\ defined' = defined \cup {OtherChild}
               ELSE UNCHANGED <<used, rebuilt, defined>>
    /\ UNCHANGED <<prover, received>>

SetLeaves ==
    /\ Over("read") /\ Start("rebuild")
    /\ rebuilt' = [k \in Nodes |->
            IF \E r \in 1..NReq : k = Leaves + idx[r]
            THEN Leaf(received.blobs[CHOOSE r \in 1..NReq : k = Leaves + idx[r]])
            ELSE rebuilt[k]]
    /\ defined' = defined \cup {Leaves + idx[r] : r \in 1..NReq}
    /\ UNCHANGED <<prover, received, used>>

Rebuild ==
    /\ Turn("rebuild")
    /\ IF {2 * i, 2 * i + 1} \subseteq defined
       THEN /\ rebuilt' = [rebuilt EXCEPT ![i] =
                    Hash2(rebuilt[2 * i], rebuilt[2 * i + 1])]
            /\ defined' = defined \cup {i}
       ELSE UNCHANGED <<rebuilt, defined>>
    /\ UNCHANGED <<prover, received, used>>

RootIsDefined == 1 \in defined
RootMatches == 1 \in defined /\ rebuilt[1] = layers[1]

Decide ==
    /\ Over("rebuild")
    /\ at' = IF RootMatches THEN "accepted" ELSE "rejected"
    /\ UNCHANGED <<i, prover, verifier>>

Next ==
    \/ BuildTree \/ BeginChoosing \/ Choose
    \/ BeginMarking \/ Mark \/ BeginOpening \/ PushDigest
    \/ Receive \/ ReadDigest \/ SetLeaves \/ Rebuild \/ Decide

Spec == Init /\ [][Next]_vars

-----------------------------------------------------------------------------
(* merkle_tree.h asserts it on both sides: no column is opened twice, and  *)
(* none that does not exist.                                               *)
ChosenOnce ==
    /\ \A r \in DOMAIN idx : idx[r] \in 0..Leaves - 1
    /\ \A r, s \in DOMAIN idx : idx[r] = idx[s] => r = s

(* An opening that LigeroVerifier::merkle_check accepts shows the columns  *)
(* that were committed to, with their nonces, whatever path came with it.  *)
AcceptedIsCommitted ==
    at = "accepted" =>
        \A r \in 1..NReq : received.blobs[r] = contents[idx[r]]

(* An opening that is read as it was made is accepted.  Read it is unless  *)
(* its path is shorter than NReq, which ZkProof::read refuses unseen: the  *)
(* upper bound there, computed by a formula of its own, refuses none that  *)
(* was made.                                                               *)
HonestOpeningVerifies ==
    at \in {"rejected", "unreadable"} /\ received = opening =>
        Len(opening.path) < NReq
=============================================================================

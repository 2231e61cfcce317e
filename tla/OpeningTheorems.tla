-------------------------- MODULE OpeningTheorems --------------------------
(***************************************************************************)
(* Opening columns and sending the opening, for every number of columns    *)
(* and of openings.  First MerkleOpening, for everything a prover may      *)
(* send: the columns opened are distinct, those accepted are those that    *)
(* were committed to, and an opening read as it was made is accepted.      *)
(* Then ProofCodec, for every layout of a proof, which carries it out:     *)
(* whatever the bytes have become, its reader stops before their end and   *)
(* reads an opening, and untouched bytes give back what was written.       *)
(*                                                                         *)
(* The assumptions of ProofCodec are used in the second half only.         *)
(***************************************************************************)
EXTENDS ProofCodec, FiniteSetTheorems, WellFoundedInduction, TLAPS

Inner == 1..Leaves - 1
Chosen == {Leaves + idx[r] : r \in 1..NReq}

AfterMark == {"open", "unreadable", "read", "rejected", "rebuild", "accepted"}
AfterBuild == AfterMark \cup {"choose", "mark"}

Typed ==
    /\ at \in AfterBuild \cup {"build"}
    /\ i \in 0..Leaves - 1
    /\ DOMAIN layers = Nodes /\ DOMAIN rebuilt = Nodes
    /\ tree \subseteq Nodes /\ defined \subseteq Nodes

(* choose() shuffles: what it has given away are the first of a            *)
(* permutation.                                                            *)
Shuffled ==
    /\ shuffled \in [0..Leaves - 1 -> 0..Leaves - 1]
    /\ \A j, k \in 0..Leaves - 1 : shuffled[j] = shuffled[k] => j = k
    /\ idx \in Seq(0..Leaves - 1) /\ Len(idx) <= NReq
    /\ \A r \in 1..Len(idx) : idx[r] = shuffled[r - 1]
    /\ at \in AfterMark \cup {"mark"} => Len(idx) = NReq

(* The prover's tree, above i while it is built.                           *)
Built ==
    /\ \A k \in Nodes : k >= Leaves => layers[k] = Leaf(contents[k - Leaves])
    /\ \A k \in Inner : k > i \/ at # "build" =>
            layers[k] = Hash2(layers[2 * k], layers[2 * k + 1])

(* The marked nodes are the ancestors of the chosen leaves.                *)
Marked ==
    at \in AfterMark \cup {"mark"} =>
        /\ \A k \in Nodes : k >= Leaves => (k \in tree <=> k \in Chosen)
        /\ \A k \in Inner : k \in tree <=>
                /\ k > i \/ at # "mark"
                /\ 2 * k \in tree \/ 2 * k + 1 \in tree

(* Below a marked node, each child is marked or was in the path.           *)
SiblingsRead ==
    at \in {"read", "rebuild", "accepted"} =>
        \A k \in Inner : k \in tree /\ (k > i \/ at # "read") =>
            {2 * k, 2 * k + 1} \subseteq tree \cup defined

(* What the verifier hashed.                                               *)
Rehashed ==
    at \in {"rebuild", "accepted"} =>
        /\ Chosen \subseteq defined
        /\ \A r \in 1..NReq : rebuilt[Leaves + idx[r]] = Leaf(received.blobs[r])
        /\ \A k \in Inner : k \in tree /\ k > i =>
            /\ k \in defined
            /\ rebuilt[k] = Hash2(rebuilt[2 * k], rebuilt[2 * k + 1])

SameRoot == at = "accepted" => i = 0 /\ rebuilt[1] = layers[1]

IInv ==
    Typed /\ Shuffled /\ Built /\ Marked /\ SiblingsRead /\ Rehashed /\ SameRoot

-----------------------------------------------------------------------------
LEMMA Numbers ==
    /\ Leaves \in Nat /\ NReq \in Nat /\ 1 <= NReq /\ NReq <= Leaves
    /\ \A k \in Inner : 2 * k \in Nodes /\ 2 * k + 1 \in Nodes /\ k \in Nodes
    /\ 1 \in Nodes
BY LeavesAssumption DEF Inner, Nodes

(* A digest tells what was hashed.                                         *)
LEMMA Hash2Injective ==
    \A a, b, c, d : Hash2(a, b) = Hash2(c, d) => a = c /\ b = d
BY DEF Hash2

LEMMA LeafInjective ==
    ASSUME NEW a, NEW b, Leaf(a) = Leaf(b)
    PROVE  a = b
BY DEF Leaf

LEMMA IdxInRange ==
    ASSUME Shuffled, NEW r \in 1..Len(idx)
    PROVE  /\ idx[r] \in 0..Leaves - 1
           /\ Leaves + idx[r] \in Nodes
           /\ \A s \in 1..Len(idx) : idx[r] = idx[s] => r = s
<1>1. r - 1 \in 0..Leaves - 1
  BY Numbers DEF Shuffled
<1>2. \A s \in 1..Len(idx) : s - 1 \in 0..Leaves - 1
  BY Numbers DEF Shuffled
<1>3. idx[r] = shuffled[r - 1] /\ idx[r] \in 0..Leaves - 1
  BY <1>1 DEF Shuffled
<1>4. ASSUME NEW s \in 1..Len(idx), idx[r] = idx[s] PROVE r = s
  <2>1. shuffled[r - 1] = shuffled[s - 1]
    BY <1>3, <1>4 DEF Shuffled
  <2>2. r - 1 = s - 1
    BY <2>1, <1>1, <1>2 DEF Shuffled
  <2> QED BY <2>2
<1> QED BY <1>3, <1>4, Numbers DEF Nodes

LEMMA InitIInv == Init => IInv
<1> SUFFICES ASSUME Init PROVE IInv
  OBVIOUS
<1>1. Typed
  BY Numbers DEF Init, Typed, Nodes
<1>2. Shuffled
  BY Numbers DEF Init, Shuffled, AfterMark
<1>3. Built
  BY Numbers DEF Init, Built, Inner, Nodes
<1>4. Marked /\ SiblingsRead /\ Rehashed /\ SameRoot
  BY DEF Init, Marked, SiblingsRead, Rehashed, SameRoot, AfterMark
<1> QED BY <1>1, <1>2, <1>3, <1>4 DEF IInv

-----------------------------------------------------------------------------
(* The prover, one lemma for each loop.                                    *)

LEMMA BuildTreeStep == IInv /\ BuildTree => IInv'
<1> SUFFICES ASSUME IInv, BuildTree PROVE IInv'
  OBVIOUS
<1> USE DEF BuildTree, Turn
<1>1. i \in Inner /\ i' = i - 1 /\ at = "build" /\ at' = "build"
  BY Numbers DEF IInv, Typed, Inner
<1>2. Typed'
  BY <1>1, Numbers DEF IInv, Typed, verifier, Inner
<1>3. Shuffled'
  BY <1>1 DEF IInv, Shuffled, AfterMark
<1>4. Built'
  <2>1. ASSUME NEW k \in Nodes, k >= Leaves
        PROVE  layers'[k] = Leaf(contents'[k - Leaves])
    BY <1>1, <2>1, Numbers DEF IInv, Built, Typed, Inner, Nodes
  <2>2. ASSUME NEW k \in Inner, k > i'
        PROVE  layers'[k] = Hash2(layers'[2 * k], layers'[2 * k + 1])
    <3>1. 2 * k > i /\ 2 * k \in Nodes /\ 2 * k + 1 \in Nodes /\ k \in Nodes
      BY <1>1, <2>2, Numbers DEF Inner
    <3>2. layers'[2 * k] = layers[2 * k] /\ layers'[2 * k + 1] = layers[2 * k + 1]
      BY <1>1, <3>1 DEF IInv, Typed, Inner, Nodes
    <3>3. CASE k = i
      BY <3>1, <3>2, <3>3 DEF IInv, Typed
    <3>4. CASE k # i
      BY <1>1, <2>2, <3>1, <3>2, <3>4 DEF IInv, Typed, Built, Inner
    <3> QED BY <3>3, <3>4
  <2> QED BY <1>1, <2>1, <2>2 DEF Built
<1>5. Marked' /\ SiblingsRead' /\ Rehashed' /\ SameRoot'
  BY <1>1 DEF Marked, SiblingsRead, Rehashed, SameRoot, AfterMark
<1> QED BY <1>2, <1>3, <1>4, <1>5 DEF IInv

LEMMA BeginChoosingStep == IInv /\ BeginChoosing => IInv'
<1> SUFFICES ASSUME IInv, BeginChoosing PROVE IInv'
  OBVIOUS
<1> USE DEF BeginChoosing, Over, prover, verifier
<1>1. Typed'
  BY DEF IInv, Typed, AfterBuild
<1>2. Shuffled'
  BY DEF IInv, Shuffled, AfterMark
<1>3. Built'
  BY Numbers DEF IInv, Built, Inner, Nodes
<1>4. Marked' /\ SiblingsRead' /\ Rehashed' /\ SameRoot'
  BY DEF Marked, SiblingsRead, Rehashed, SameRoot, AfterMark
<1> QED BY <1>1, <1>2, <1>3, <1>4 DEF IInv

LEMMA ChooseStep == IInv /\ Choose => IInv'
<1> SUFFICES ASSUME IInv, Choose PROVE IInv'
  OBVIOUS
<1>1. PICK j \in Len(idx)..Leaves - 1 :
        /\ shuffled' = SwapFrom(Len(idx), j)
        /\ idx' = Append(idx, Takes(Len(idx), j))
  BY DEF Choose
<1>2. /\ at = "choose" /\ at' = "choose" /\ Len(idx) < NReq
      /\ UNCHANGED <<i, contents, layers, tree, opening, verifier>>
  BY DEF Choose
<1>3. Len(idx) \in 0..Leaves - 1 /\ j \in 0..Leaves - 1 /\ j >= Len(idx)
  <2>1. Len(idx) \in Nat
    BY DEF IInv, Shuffled
  <2>2. j \in Int /\ j >= Len(idx) /\ j <= Leaves - 1
    BY <2>1, Numbers
  <2> QED BY <1>2, <2>1, <2>2, Numbers
<1>4. /\ shuffled' \in [0..Leaves - 1 -> 0..Leaves - 1]
      /\ shuffled'[Len(idx)] = shuffled[j]
      /\ shuffled'[j] = shuffled[Len(idx)]
      /\ \A k \in 0..Leaves - 1 :
            k # Len(idx) /\ k # j => shuffled'[k] = shuffled[k]
  BY <1>1, <1>3 DEF IInv, Shuffled, SwapFrom
<1>5. \A k, l \in 0..Leaves - 1 : shuffled'[k] = shuffled'[l] => k = l
  BY <1>3, <1>4 DEF IInv, Shuffled
<1>6. /\ idx' \in Seq(0..Leaves - 1) /\ Len(idx') = Len(idx) + 1
      /\ idx'[Len(idx) + 1] = shuffled'[Len(idx)]
      /\ \A r \in 1..Len(idx) : idx'[r] = idx[r]
  BY <1>1, <1>3, <1>4 DEF IInv, Shuffled, Takes
<1>7. ASSUME NEW r \in 1..Len(idx') PROVE idx'[r] = shuffled'[r - 1]
  <2>1. CASE r = Len(idx) + 1
    BY <1>3, <1>6, <2>1
  <2>2. CASE r # Len(idx) + 1
    <3>1. r \in 1..Len(idx) /\ r - 1 \in 0..Leaves - 1
              /\ r - 1 # Len(idx) /\ r - 1 # j
      BY <1>3, <1>6, <2>2, Numbers
    <3> QED BY <1>4, <1>6, <3>1 DEF IInv, Shuffled
  <2> QED BY <2>1, <2>2
<1>8. Shuffled'
  <2>1. Len(idx') <= NReq
    BY <1>2, <1>3, <1>6, Numbers
  <2> QED BY <1>2, <1>4, <1>5, <1>6, <1>7, <2>1 DEF Shuffled, AfterMark
<1>9. Typed' /\ Built'
  BY <1>2 DEF IInv, Typed, Built, verifier
<1>10. Marked' /\ SiblingsRead' /\ Rehashed' /\ SameRoot'
  BY <1>2 DEF Marked, SiblingsRead, Rehashed, SameRoot, AfterMark
<1> QED BY <1>8, <1>9, <1>10 DEF IInv

LEMMA BeginMarkingStep == IInv /\ BeginMarking => IInv'
<1> SUFFICES ASSUME IInv, BeginMarking PROVE IInv'
  OBVIOUS
<1>1. /\ at = "choose" /\ at' = "mark" /\ i' = Leaves - 1 /\ Len(idx) = NReq
      /\ tree' = Chosen
      /\ UNCHANGED <<contents, layers, shuffled, idx, opening, verifier>>
  BY DEF BeginMarking, Start, Chosen
<1>2. \A r \in 1..NReq : Leaves + idx[r] \in Nodes /\ Leaves + idx[r] >= Leaves
  BY <1>1, IdxInRange, Numbers DEF IInv
<1>3. Typed'
  BY <1>1, <1>2, Numbers DEF IInv, Typed, Chosen, verifier, AfterBuild
<1>4. Shuffled'
  BY <1>1 DEF IInv, Shuffled
<1>5. Built'
  BY <1>1 DEF IInv, Built
<1>6. Marked'
  <2>1. Chosen' = Chosen
    BY <1>1 DEF Chosen
  <2>2. \A k \in Inner : k \notin Chosen /\ ~(k > i')
    BY <1>1, <1>2, Numbers DEF Inner, Chosen
  <2> QED BY <1>1, <2>1, <2>2 DEF Marked
<1>7. SiblingsRead' /\ Rehashed' /\ SameRoot'
  BY <1>1 DEF SiblingsRead, Rehashed, SameRoot
<1> QED BY <1>3, <1>4, <1>5, <1>6, <1>7 DEF IInv

LEMMA MarkStep == IInv /\ Mark => IInv'
<1> SUFFICES ASSUME IInv, Mark PROVE IInv'
  OBVIOUS
<1>1. /\ i \in Inner /\ i' = i - 1 /\ at = "mark" /\ at' = "mark"
      /\ UNCHANGED <<contents, layers, shuffled, idx, opening, verifier>>
  BY Numbers DEF IInv, Typed, Inner, Mark, Turn
<1>2. \A k \in Nodes : k \in tree' <=>
        k \in tree \/ (k = i /\ (2 * i \in tree \/ 2 * i + 1 \in tree))
  BY DEF Mark
<1>3. Typed'
  BY <1>1, Numbers DEF IInv, Typed, Mark, Inner, verifier
<1>4. Shuffled' /\ Built'
  BY <1>1, Numbers DEF IInv, Shuffled, Built, Inner, AfterMark
<1>5. Marked'
  <2>1. Chosen' = Chosen
    BY <1>1 DEF Chosen
  <2>2. ASSUME NEW k \in Nodes, k >= Leaves PROVE k \in tree' <=> k \in Chosen
    BY <1>1, <1>2, <2>2, Numbers DEF IInv, Marked, Inner, Nodes
  <2>3. ASSUME NEW k \in Inner
        PROVE  k \in tree' <=>
                    k > i' /\ (2 * k \in tree' \/ 2 * k + 1 \in tree')
    <3>1. /\ 2 * k \in Nodes /\ 2 * k + 1 \in Nodes /\ k \in Nodes
          /\ k > i' => 2 * k # i /\ 2 * k + 1 # i
      BY <1>1, Numbers DEF Inner
    <3>2. k > i' => /\ 2 * k \in tree' <=> 2 * k \in tree
                    /\ 2 * k + 1 \in tree' <=> 2 * k + 1 \in tree
      BY <1>2, <3>1
    <3>3. k \in tree <=> k > i /\ (2 * k \in tree \/ 2 * k + 1 \in tree)
      BY <1>1 DEF IInv, Marked
    <3>4. k > i' <=> k > i \/ k = i
      BY <1>1 DEF Inner
    <3> QED BY <1>2, <3>1, <3>2, <3>3, <3>4
  <2> QED BY <1>1, <2>1, <2>2, <2>3 DEF Marked
<1>6. SiblingsRead' /\ Rehashed' /\ SameRoot'
  BY <1>1 DEF SiblingsRead, Rehashed, SameRoot
<1> QED BY <1>3, <1>4, <1>5, <1>6 DEF IInv

(* Once the nodes are marked, the prover's side stands still.              *)
LEMMA ProverStands ==
    ASSUME IInv, at \in AfterMark \cup {"mark"}, at = "mark" => i = 0,
           at' \in AfterMark,
           UNCHANGED <<contents, layers, shuffled, idx, tree>>
    PROVE  Shuffled' /\ Built' /\ Marked'
<1>1. Shuffled'
  BY DEF IInv, Shuffled
<1>2. Built'
  BY DEF IInv, Built, AfterMark
<1>3. Marked'
  <2>1. Chosen' = Chosen
    BY DEF Chosen
  <2>2. \A k \in Inner : k > i \/ at # "mark"
    BY Numbers DEF Inner
  <2> QED BY <2>1, <2>2 DEF IInv, Marked, AfterMark
<1> QED BY <1>1, <1>2, <1>3

LEMMA BeginOpeningStep == IInv /\ BeginOpening => IInv'
<1> SUFFICES ASSUME IInv, BeginOpening PROVE IInv'
  OBVIOUS
<1> USE DEF BeginOpening, Over, Start, verifier
<1>1. Typed'
  BY Numbers DEF IInv, Typed, AfterBuild, AfterMark
<1>2. Shuffled' /\ Built' /\ Marked'
  BY ProverStands DEF AfterMark
<1>3. SiblingsRead' /\ Rehashed' /\ SameRoot'
  BY DEF SiblingsRead, Rehashed, SameRoot
<1> QED BY <1>1, <1>2, <1>3 DEF IInv

LEMMA PushDigestStep == IInv /\ PushDigest => IInv'
<1> SUFFICES ASSUME IInv, PushDigest PROVE IInv'
  OBVIOUS
<1> USE DEF PushDigest, Turn, verifier
<1>1. Typed'
  BY Numbers DEF IInv, Typed, AfterBuild, AfterMark
<1>2. Shuffled' /\ Built' /\ Marked'
  BY ProverStands DEF AfterMark
<1>3. SiblingsRead' /\ Rehashed' /\ SameRoot'
  BY DEF SiblingsRead, Rehashed, SameRoot
<1> QED BY <1>1, <1>2, <1>3 DEF IInv

-----------------------------------------------------------------------------
(* The verifier.                                                           *)

LEMMA ReceiveStep == IInv /\ Receive => IInv'
<1> SUFFICES ASSUME IInv, Receive PROVE IInv'
  OBVIOUS
<1>1. /\ at = "open" /\ UNCHANGED <<prover, used, rebuilt, defined>>
      /\ \/ at' = "read" /\ i' = Leaves - 1
         \/ at' = "unreadable" /\ i' = i
  BY DEF Receive, Over, Start
<1>2. Typed'
  BY <1>1, Numbers DEF IInv, Typed, AfterBuild, AfterMark, prover
<1>3. Shuffled' /\ Built' /\ Marked'
  BY <1>1, ProverStands DEF AfterMark, prover
<1>4. SiblingsRead' /\ Rehashed' /\ SameRoot'
  BY <1>1, Numbers DEF SiblingsRead, Rehashed, SameRoot, Inner
<1> QED BY <1>2, <1>3, <1>4 DEF IInv

LEMMA ReadDigestStep == IInv /\ ReadDigest => IInv'
<1> SUFFICES ASSUME IInv, ReadDigest PROVE IInv'
  OBVIOUS
<1>1. /\ i \in Inner /\ at = "read"
      /\ UNCHANGED <<contents, layers, shuffled, idx, tree, received>>
      /\ \/ at' = "rejected" /\ UNCHANGED <<i, used, rebuilt, defined>>
         \/ /\ at' = "read" /\ i' = i - 1 /\ DOMAIN rebuilt' = DOMAIN rebuilt
            /\ IF LacksChild THEN defined' = defined \cup {OtherChild}
                             ELSE defined' = defined
  BY Numbers DEF IInv, Typed, ReadDigest, Turn, prover, Inner
<1>2. 2 * i \in Nodes /\ 2 * i + 1 \in Nodes
  BY <1>1, Numbers
<1>3. Typed'
  BY <1>1, <1>2, Numbers DEF IInv, Typed, AfterBuild, AfterMark, Inner, OtherChild
<1>4. Shuffled' /\ Built' /\ Marked'
  BY <1>1, ProverStands DEF AfterMark
<1>5. SiblingsRead'
  <2> SUFFICES ASSUME at' = "read", NEW k \in Inner, k \in tree', k > i'
               PROVE  {2 * k, 2 * k + 1} \subseteq tree' \cup defined'
    BY <1>1 DEF SiblingsRead
  <2>1. defined \subseteq defined' /\ tree' = tree /\ i' = i - 1
    BY <1>1
  <2>2. CASE k = i
    <3>1. 2 * i \in tree \/ 2 * i + 1 \in tree
      BY <1>1, <2>1, <2>2 DEF IInv, Marked, AfterMark
    <3>2. LacksChild => OtherChild \in defined'
      BY <1>1, <2>1
    <3> QED BY <2>1, <2>2, <3>1, <3>2 DEF LacksChild, OtherChild
  <2>3. CASE k # i
    BY <1>1, <2>1, <2>3 DEF IInv, SiblingsRead, Inner
  <2> QED BY <2>2, <2>3
<1>6. Rehashed' /\ SameRoot'
  BY <1>1 DEF Rehashed, SameRoot
<1> QED BY <1>3, <1>4, <1>5, <1>6 DEF IInv

LEMMA SetLeavesStep == IInv /\ SetLeaves => IInv'
<1> SUFFICES ASSUME IInv, SetLeaves PROVE IInv'
  OBVIOUS
<1> DEFINE Opener(k) == CHOOSE r \in 1..NReq : k = Leaves + idx[r]
<1>1. /\ at = "read" /\ i = 0 /\ at' = "rebuild" /\ i' = Leaves - 1
      /\ UNCHANGED <<contents, layers, shuffled, idx, tree, received>>
      /\ defined' = defined \cup Chosen
      /\ DOMAIN rebuilt' = Nodes
      /\ \A k \in Nodes : k \in Chosen =>
            rebuilt'[k] = Leaf(received.blobs[Opener(k)])
  BY DEF SetLeaves, Over, Start, prover, Chosen
<1>2. Len(idx) = NReq
  BY <1>1 DEF IInv, Shuffled, AfterMark
<1>3. \A r \in 1..NReq : Leaves + idx[r] \in Nodes
  BY <1>2, IdxInRange DEF IInv
<1>4. Typed'
  BY <1>1, <1>3, Numbers DEF IInv, Typed, AfterBuild, AfterMark, Chosen
<1>5. Shuffled' /\ Built' /\ Marked'
  BY <1>1, ProverStands DEF AfterMark
<1>6. Chosen' = Chosen
  BY <1>1 DEF Chosen
<1>7. ASSUME NEW r \in 1..NReq
      PROVE  rebuilt'[Leaves + idx[r]] = Leaf(received.blobs[r])
  <2>1. \E s \in 1..NReq : Leaves + idx[r] = Leaves + idx[s]
    BY <1>7
  <2>2. /\ Opener(Leaves + idx[r]) \in 1..NReq
        /\ Leaves + idx[r] = Leaves + idx[Opener(Leaves + idx[r])]
    BY <2>1
  <2> HIDE DEF Opener
  <2>3. idx[r] = idx[Opener(Leaves + idx[r])]
    BY <1>2, <2>2, IdxInRange, Numbers DEF IInv
  <2>4. Opener(Leaves + idx[r]) = r
    BY <1>2, <2>2, <2>3, IdxInRange DEF IInv
  <2>5. Leaves + idx[r] \in Chosen
    BY DEF Chosen
  <2> QED BY <1>1, <1>3, <2>4, <2>5
<1>8. SiblingsRead'
  <2>1. \A k \in Inner : k > i
    BY <1>1, Numbers DEF Inner
  <2> QED BY <1>1, <2>1 DEF IInv, SiblingsRead
<1>9. Rehashed'
  <2>1. \A k \in Inner : ~(k > i')
    BY <1>1, Numbers DEF Inner
  <2> QED BY <1>1, <1>6, <1>7, <2>1 DEF Rehashed
<1>10. SameRoot'
  BY <1>1 DEF SameRoot
<1> QED BY <1>4, <1>5, <1>8, <1>9, <1>10 DEF IInv

LEMMA RebuildStep == IInv /\ Rebuild => IInv'
<1> SUFFICES ASSUME IInv, Rebuild PROVE IInv'
  OBVIOUS
<1>1. /\ i \in Inner /\ i' = i - 1 /\ at = "rebuild" /\ at' = "rebuild"
      /\ UNCHANGED <<contents, layers, shuffled, idx, tree, received>>
  BY Numbers DEF IInv, Typed, Inner, Rebuild, Turn, prover
<1>2. /\ defined \subseteq defined' /\ defined' \subseteq defined \cup {i}
      /\ DOMAIN rebuilt' = Nodes
      /\ \A k \in Nodes : k # i => rebuilt'[k] = rebuilt[k]
      /\ {2 * i, 2 * i + 1} \subseteq defined =>
            i \in defined' /\ rebuilt'[i] = Hash2(rebuilt[2 * i], rebuilt[2 * i + 1])
  BY <1>1, Numbers DEF Rebuild, IInv, Typed
<1>3. Typed'
  BY <1>1, <1>2, Numbers DEF IInv, Typed, AfterBuild, AfterMark, Inner
<1>4. Shuffled' /\ Built' /\ Marked'
  BY <1>1, ProverStands DEF AfterMark
<1>5. SiblingsRead'
  BY <1>1, <1>2 DEF IInv, SiblingsRead
<1>6. Rehashed'
  <2>1. Chosen' = Chosen /\ Chosen \subseteq defined'
    BY <1>1, <1>2 DEF Chosen, IInv, Rehashed
  <2>2. ASSUME NEW r \in 1..NReq
        PROVE  rebuilt'[Leaves + idx[r]] = Leaf(received.blobs[r])
    <3>1. Len(idx) = NReq
      BY <1>1 DEF IInv, Shuffled, AfterMark
    <3>2. Leaves + idx[r] \in Nodes /\ idx[r] \in 0..Leaves - 1
      BY <3>1, IdxInRange DEF IInv
    <3>3. Leaves + idx[r] # i
      BY <1>1, <3>2, Numbers DEF Inner
    <3> QED BY <1>1, <1>2, <3>2, <3>3 DEF IInv, Rehashed
  <2>3. ASSUME NEW k \in Inner, k \in tree, k > i'
        PROVE  /\ k \in defined'
               /\ rebuilt'[k] = Hash2(rebuilt'[2 * k], rebuilt'[2 * k + 1])
    <3>1. /\ 2 * k \in Nodes /\ 2 * k + 1 \in Nodes /\ k \in Nodes
          /\ 2 * k > i /\ 2 * k + 1 > i /\ 2 * k # i /\ 2 * k + 1 # i
      BY <1>1, <2>3, Numbers DEF Inner
    <3>2. rebuilt'[2 * k] = rebuilt[2 * k] /\ rebuilt'[2 * k + 1] = rebuilt[2 * k + 1]
      BY <1>2, <3>1
    <3>3. CASE k # i
      <4>1. k > i
        BY <1>1, <2>3, <3>3 DEF Inner
      <4>2. k \in defined /\ rebuilt[k] = Hash2(rebuilt[2 * k], rebuilt[2 * k + 1])
        BY <1>1, <2>3, <4>1 DEF IInv, Rehashed
      <4> QED BY <1>2, <3>1, <3>2, <3>3, <4>2
    <3>4. CASE k = i
      <4>1. ASSUME NEW c \in Nodes, c \in tree, c > i PROVE c \in defined
        <5>1. CASE c >= Leaves
          BY <1>1, <4>1, <5>1 DEF IInv, Marked, Rehashed, AfterMark
        <5>2. CASE ~(c >= Leaves)
          <6>1. c \in Inner
            BY <5>2, Numbers DEF Inner, Nodes
          <6> QED BY <1>1, <4>1, <6>1 DEF IInv, Rehashed
        <5> QED BY <5>1, <5>2
      <4>2. {2 * i, 2 * i + 1} \subseteq tree \cup defined
        BY <1>1, <2>3, <3>4 DEF IInv, SiblingsRead
      <4>3. {2 * i, 2 * i + 1} \subseteq defined
        BY <3>1, <3>4, <4>1, <4>2
      <4> QED BY <1>2, <3>2, <3>4, <4>3
    <3> QED BY <3>3, <3>4
  <2> QED BY <1>1, <2>1, <2>2, <2>3 DEF Rehashed
<1>7. SameRoot'
  BY <1>1 DEF SameRoot
<1> QED BY <1>3, <1>4, <1>5, <1>6, <1>7 DEF IInv

LEMMA DecideStep == IInv /\ Decide => IInv'
<1> SUFFICES ASSUME IInv, Decide PROVE IInv'
  OBVIOUS
<1>1. /\ at = "rebuild" /\ i = 0 /\ UNCHANGED <<i, prover, verifier>>
      /\ \/ at' = "accepted" /\ RootMatches
         \/ at' = "rejected"
  BY DEF Decide, Over
<1>2. Typed'
  BY <1>1 DEF IInv, Typed, AfterBuild, AfterMark, prover, verifier
<1>3. Shuffled' /\ Built' /\ Marked'
  BY <1>1, ProverStands DEF AfterMark, prover
<1>4. SiblingsRead' /\ Rehashed' /\ SameRoot'
  BY <1>1 DEF IInv, SiblingsRead, Rehashed, SameRoot, RootMatches, Chosen,
              prover, verifier
<1> QED BY <1>2, <1>3, <1>4 DEF IInv

LEMMA NextIInv == IInv /\ [Next]_vars => IInv'
<1> SUFFICES ASSUME IInv, [Next]_vars PROVE IInv'
  OBVIOUS
<1>1. CASE UNCHANGED vars
  BY <1>1 DEF IInv, Typed, Shuffled, Built, Marked, SiblingsRead, Rehashed,
              SameRoot, Chosen, vars, prover, verifier
<1> QED
  BY <1>1, BuildTreeStep, BeginChoosingStep, ChooseStep, BeginMarkingStep,
     MarkStep, BeginOpeningStep, PushDigestStep, ReceiveStep, ReadDigestStep,
     SetLeavesStep, RebuildStep, DecideStep DEF Next

-----------------------------------------------------------------------------
(* LigeroTranscript::gen_idx opens distinct columns of the tableau.        *)
THEOREM Distinct == Spec => []ChosenOnce
<1>1. IInv => ChosenOnce
  <2> SUFFICES ASSUME IInv PROVE ChosenOnce
    OBVIOUS
  <2>1. DOMAIN idx = 1..Len(idx)
    BY DEF IInv, Shuffled
  <2> QED BY <2>1, IdxInRange DEF ChosenOnce, IInv
<1> QED BY <1>1, InitIInv, NextIInv, PTL DEF Spec

(* From the root down, each marked node the verifier hashed is the one the *)
(* prover committed to: there is no topmost one that is not.               *)
LEMMA SameDigests ==
    ASSUME IInv, at = "accepted"
    PROVE  \A k \in tree : rebuilt[k] = layers[k]
<1> DEFINE Differ == {k \in tree : rebuilt[k] # layers[k]}
<1> SUFFICES ASSUME Differ # {} PROVE FALSE
  OBVIOUS
<1>1. Differ \subseteq Nat
  <2>1. tree \subseteq Nodes
    BY DEF IInv, Typed
  <2>2. Nodes \subseteq Nat
    BY Numbers DEF Nodes
  <2> QED  BY <2>1, <2>2
<1>2. PICK k \in Differ : \A l \in Differ : ~(<<l, k>> \in OpToRel(<, Nat))
  BY <1>1, WFMin, NatLessThanWellFounded
<1>3. \A l \in Differ : ~(l < k)
  BY <1>1, <1>2 DEF OpToRel
<1>4. k \in Nodes /\ k \in tree /\ rebuilt[k] # layers[k]
  BY <1>2 DEF IInv, Typed
<1>5. k # 1
  BY <1>4 DEF IInv, SameRoot
<1>6. PICK p \in Inner : k = 2 * p \/ k = 2 * p + 1
  <2>1. k \div 2 \in Inner /\ (k = 2 * (k \div 2) \/ k = 2 * (k \div 2) + 1)
    BY <1>4, <1>5, Numbers DEF Inner, Nodes
  <2> QED BY <2>1
<1>7. p \in tree
  BY <1>4, <1>6 DEF IInv, Marked, AfterMark
<1>8. p < k
  BY <1>6 DEF Inner
<1>9. rebuilt[p] = layers[p]
  BY <1>3, <1>7, <1>8
<1>10. rebuilt[p] = Hash2(rebuilt[2 * p], rebuilt[2 * p + 1])
  BY <1>6, <1>7 DEF IInv, Rehashed, SameRoot, Inner
<1>11. layers[p] = Hash2(layers[2 * p], layers[2 * p + 1])
  BY <1>6 DEF IInv, Built
<1>12. rebuilt[2 * p] = layers[2 * p] /\ rebuilt[2 * p + 1] = layers[2 * p + 1]
  <2>1. Hash2(rebuilt[2 * p], rebuilt[2 * p + 1])
            = Hash2(layers[2 * p], layers[2 * p + 1])
    BY <1>9, <1>10, <1>11
  <2> QED BY <2>1, Hash2Injective
<1> QED BY <1>4, <1>6, <1>12

(* LigeroVerifier::merkle_check passes for no column but the committed one.*)
THEOREM Binding == Spec => []AcceptedIsCommitted
<1>1. IInv => AcceptedIsCommitted
  <2> SUFFICES ASSUME IInv, at = "accepted", NEW r \in 1..NReq
               PROVE  received.blobs[r] = contents[idx[r]]
    BY DEF AcceptedIsCommitted
  <2>1. Len(idx) = NReq
    BY DEF IInv, Shuffled, AfterMark
  <2>2. idx[r] \in 0..Leaves - 1 /\ Leaves + idx[r] \in Nodes
    BY <2>1, IdxInRange DEF IInv
  <2>3. Leaves + idx[r] \in Chosen
    BY DEF Chosen
  <2>4. Leaves + idx[r] \in tree /\ (Leaves + idx[r]) - Leaves = idx[r]
    BY <2>2, <2>3, Numbers DEF IInv, Marked, AfterMark
  <2>5. rebuilt[Leaves + idx[r]] = layers[Leaves + idx[r]]
    BY <2>4, SameDigests
  <2>6. rebuilt[Leaves + idx[r]] = Leaf(received.blobs[r])
    BY DEF IInv, Rehashed
  <2>7. layers[Leaves + idx[r]] = Leaf(contents[(Leaves + idx[r]) - Leaves])
    BY <2>2, Numbers DEF IInv, Built
  <2> QED BY <2>4, <2>5, <2>6, <2>7, LeafInjective
<1> QED BY <1>1, InitIInv, NextIInv, PTL DEF Spec

-----------------------------------------------------------------------------
(* Induction, by way of a least counterexample.                            *)
LEMMA Climb ==
    ASSUME NEW Good, 0 \in Good, \A n \in Nat : n \in Good => n + 1 \in Good
    PROVE  \A n \in Nat : n \in Good
<1> DEFINE Bad == {n \in Nat : n \notin Good}
<1> SUFFICES ASSUME Bad # {} PROVE FALSE
  OBVIOUS
<1>1. PICK n \in Bad : \A m \in Bad : ~ (<<m, n>> \in OpToRel(<, Nat))
  <2>1. Bad \subseteq Nat
    OBVIOUS
  <2> HIDE DEF Bad
  <2> QED  BY <2>1, WFMin, NatLessThanWellFounded
<1>2. n \in Nat /\ n # 0 /\ \A m \in Bad : ~ (m < n)
  BY <1>1 DEF OpToRel
<1>3. n - 1 \in Nat /\ n - 1 \notin Bad
  BY <1>2
<1>4. (n - 1) + 1 \in Good
  BY <1>3
<1>5. (n - 1) + 1 = n
  BY <1>2
<1> QED  BY <1>1, <1>4, <1>5

(* The same from n downwards.                                              *)
LEMMA ClimbFrom ==
    ASSUME NEW Good,
           \A n \in Nat : (\A m \in 0..n - 1 : m \in Good) => n \in Good
    PROVE  \A n \in Nat : n \in Good
<1> DEFINE Below == {n \in Nat : \A m \in 0..n : m \in Good}
<1>1. 0 \in Below
  <2>1. 0..0 - 1 = {} /\ 0..0 = {0}
    OBVIOUS
  <2> QED  BY <2>1
<1>2. ASSUME NEW n \in Nat, n \in Below  PROVE n + 1 \in Below
  <2>1. 0..(n + 1) - 1 = 0..n /\ n + 1 \in Nat
    OBVIOUS
  <2>2. n + 1 \in Good
    BY <1>2, <2>1
  <2>3. \A m \in 0..n + 1 : m \in 0..n \/ m = n + 1
    OBVIOUS
  <2> QED  BY <1>2, <2>1, <2>2, <2>3
<1> HIDE DEF Below
<1>3. \A n \in Nat : n \in Below
  BY <1>1, <1>2, Climb
<1>4. \A n \in Nat : n \in 0..n
  OBVIOUS
<1> QED  BY <1>3, <1>4 DEF Below

(* Up to n, f is the recursion of Halvings.                                *)
HalvesTo(f, n) ==
    \A x \in 0..n : f[x] = IF x <= 1 THEN 0 ELSE 1 + f[x \div 2]

(* Every such recursion is a function on Nat, as far as one goes.          *)
LEMMA HalvesExist == \A n \in Nat : \E f \in [Nat -> Nat] : HalvesTo(f, n)
<1> DEFINE Good == {n \in Nat : \E f \in [Nat -> Nat] : HalvesTo(f, n)}
<1>1. 0 \in Good
  <2>1. [x \in Nat |-> 0] \in [Nat -> Nat] /\ HalvesTo([x \in Nat |-> 0], 0)
    BY DEF HalvesTo
  <2> QED  BY <2>1
<1>2. ASSUME NEW n \in Nat, n \in Good PROVE n + 1 \in Good
  <2>1. PICK f \in [Nat -> Nat] : HalvesTo(f, n)
    BY <1>2
  <2> DEFINE last == IF n + 1 <= 1 THEN 0 ELSE 1 + f[(n + 1) \div 2]
             g == [f EXCEPT ![n + 1] = last]
  <2>2. last \in Nat /\ (n + 1) \div 2 \in Nat
    OBVIOUS
  <2>3. /\ g \in [Nat -> Nat] /\ g[n + 1] = last
        /\ \A x \in 0..n : g[x] = f[x]
    BY <2>2
  <2>4. ASSUME NEW x \in 0..n + 1
        PROVE  g[x] = IF x <= 1 THEN 0 ELSE 1 + g[x \div 2]
    <3>1. x > 1 => x \div 2 \in 0..n
      OBVIOUS
    <3>2. CASE x \in 0..n
      <4>1. g[x] = f[x] /\ (x > 1 => g[x \div 2] = f[x \div 2])
        BY <2>3, <3>1, <3>2
      <4> HIDE DEF g
      <4> QED  BY <2>1, <3>2, <4>1 DEF HalvesTo
    <3>3. CASE x = n + 1
      <4>1. g[x] = last /\ (x > 1 => g[x \div 2] = f[x \div 2])
        BY <2>3, <3>1, <3>3
      <4> HIDE DEF g
      <4> QED  BY <3>3, <4>1
    <3> QED  BY <3>2, <3>3
  <2> HIDE DEF g, last
  <2>5. HalvesTo(g, n + 1)
    BY <2>4 DEF HalvesTo
  <2> QED  BY <2>3, <2>5
<1> HIDE DEF Good
<1>3. \A n \in Nat : n \in Good
  BY <1>1, <1>2, Climb
<1> QED  BY <1>3 DEF Good

(* Two of them agree as far as both go.                                    *)
LEMMA HalvesAgree ==
    ASSUME NEW f, NEW n \in Nat, HalvesTo(f, n),
           NEW g, NEW m \in Nat, HalvesTo(g, m)
    PROVE  \A x \in Nat : x <= n /\ x <= m => f[x] = g[x]
<1> DEFINE Good == {x \in Nat : x <= n /\ x <= m => f[x] = g[x]}
<1>1. ASSUME NEW x \in Nat, \A y \in 0..x - 1 : y \in Good
      PROVE  x \in Good
  <2> SUFFICES ASSUME x <= n, x <= m  PROVE f[x] = g[x]
    OBVIOUS
  <2>1. x \in 0..n /\ x \in 0..m
    OBVIOUS
  <2>2. x > 1 => x \div 2 \in 0..x - 1
    OBVIOUS
  <2>3. x > 1 => f[x \div 2] = g[x \div 2]
    BY <1>1, <2>2
  <2>4. f[x] = IF x <= 1 THEN 0 ELSE 1 + f[x \div 2]
    BY <2>1 DEF HalvesTo
  <2>5. g[x] = IF x <= 1 THEN 0 ELSE 1 + g[x \div 2]
    BY <2>1 DEF HalvesTo
  <2> HIDE DEF Good
  <2> QED  BY <2>3, <2>4, <2>5
<1> HIDE DEF Good
<1>2. \A x \in Nat : x \in Good
  BY <1>1, ClimbFrom
<1> QED  BY <1>2 DEF Good

(* The recursion defines Halvings.                                         *)
LEMMA Halve ==
    /\ Halvings \in [Nat -> Nat]
    /\ \A x \in Nat :
        Halvings[x] = IF x <= 1 THEN 0 ELSE 1 + Halvings[x \div 2]
<1> DEFINE h(n) == CHOOSE f \in [Nat -> Nat] : HalvesTo(f, n)
           F == [x \in Nat |-> h(x)[x]]
<1>1. \A n \in Nat : h(n) \in [Nat -> Nat] /\ HalvesTo(h(n), n)
  BY HalvesExist
<1> HIDE DEF h
<1>2. ASSUME NEW x \in Nat
      PROVE  F[x] = IF x <= 1 THEN 0 ELSE 1 + F[x \div 2]
  <2>1. x \div 2 \in Nat /\ x \div 2 <= x /\ x \in 0..x
    OBVIOUS
  <2>2. h(x)[x] = IF x <= 1 THEN 0 ELSE 1 + h(x)[x \div 2]
    BY <1>1, <2>1 DEF HalvesTo
  <2>3. h(x)[x \div 2] = h(x \div 2)[x \div 2]
    <3> DEFINE y == x \div 2
    <3>1. y \in Nat /\ y <= x /\ y <= y
      BY <2>1
    <3>2. HalvesTo(h(x), x) /\ HalvesTo(h(y), y)
      BY <1>1, <3>1
    <3> HIDE DEF y
    <3>3. h(x)[y] = h(y)[y]
      BY <3>1, <3>2, HalvesAgree
    <3> QED  BY <3>3 DEF y
  <2> QED  BY <2>1, <2>2, <2>3
<1>3. F \in [Nat -> Nat]
  BY <1>1
<1>4. F = [x \in Nat |-> IF x <= 1 THEN 0 ELSE 1 + F[x \div 2]]
  <2> DEFINE Next1(x) == IF x <= 1 THEN 0 ELSE 1 + F[x \div 2]
  <2>1. F = [x \in Nat |-> F[x]]
    OBVIOUS
  <2>2. \A x \in Nat : F[x] = Next1(x)
    BY <1>2
  <2> HIDE DEF F
  <2>3. [x \in Nat |-> F[x]] = [x \in Nat |-> Next1(x)]
    <3> HIDE DEF Next1
    <3> QED  BY <2>2
  <2> QED  BY <2>1, <2>3
<1> HIDE DEF F
<1>5. Halvings = [x \in Nat |-> IF x <= 1 THEN 0 ELSE 1 + Halvings[x \div 2]]
  <2>1. Halvings =
          CHOOSE f : f = [x \in Nat |-> IF x <= 1 THEN 0 ELSE 1 + f[x \div 2]]
    BY Zenon DEF Halvings
  <2>2. \E f : f = [x \in Nat |-> IF x <= 1 THEN 0 ELSE 1 + f[x \div 2]]
    BY <1>4, Zenon
  <2> QED  BY ONLY <2>1, <2>2, Zenon
<1>6. \A x \in Nat :
        Halvings[x] = IF x <= 1 THEN 0 ELSE 1 + Halvings[x \div 2]
  <2> DEFINE G == Halvings
  <2>1. G = [x \in Nat |-> IF x <= 1 THEN 0 ELSE 1 + G[x \div 2]]
    BY <1>5, Zenon
  <2> HIDE DEF G
  <2>2. \A x \in Nat : G[x] = IF x <= 1 THEN 0 ELSE 1 + G[x \div 2]
    BY ONLY <2>1, Zenon
  <2> QED  BY <2>2, Zenon DEF G
<1>7. \A x \in Nat : Halvings[x] = F[x]
  <2>1. ASSUME NEW x \in Nat  PROVE Halvings[x] = F[x]
    <3>1. HalvesTo(Halvings, x)
      BY <1>6 DEF HalvesTo
    <3>2. HalvesTo(F, x)
      <4>1. \A y \in 0..x : F[y] = IF y <= 1 THEN 0 ELSE 1 + F[y \div 2]
        BY <1>2
      <4> QED  BY <4>1 DEF HalvesTo
    <3>3. x <= x
      OBVIOUS
    <3> QED  BY <3>1, <3>2, <3>3, HalvesAgree
  <2> QED  BY <2>1
<1>8. Halvings \in [Nat -> Nat]
  <2>1. \A x \in Nat : Halvings[x] \in Nat
    BY <1>3, <1>7
  <2>2. DOMAIN Halvings = Nat /\ Halvings = [x \in Nat |-> Halvings[x]]
    BY <1>5, Zenon
  <2> QED  BY <2>1, <2>2
<1> QED  BY <1>6, <1>8

(* Halving is monotone, so no column is deeper than merkle_tree_len says.  *)
LEMMA HalvingsMonotone ==
    \A x, y \in Nat : x <= y => Halvings[x] <= Halvings[y]
<1> DEFINE Good == {y \in Nat : \A x \in 0..y : Halvings[x] <= Halvings[y]}
<1>1. ASSUME NEW y \in Nat, \A z \in 0..y - 1 : z \in Good
      PROVE  y \in Good
  <2> SUFFICES ASSUME NEW x \in 0..y  PROVE Halvings[x] <= Halvings[y]
    OBVIOUS
  <2>1. CASE x <= 1
    <3>1. Halvings[x] = 0 /\ Halvings[y] \in Nat
      BY <2>1, Halve
    <3> QED  BY <3>1
  <2>2. CASE x > 1
    <3>1. x \div 2 \in 0..y \div 2 /\ y \div 2 \in 0..y - 1 /\ y > 1
      BY <2>2
    <3>2. Halvings[x \div 2] <= Halvings[y \div 2]
      BY <1>1, <3>1
    <3>3. /\ Halvings[x] = 1 + Halvings[x \div 2]
          /\ Halvings[y] = 1 + Halvings[y \div 2]
          /\ Halvings[x \div 2] \in Nat /\ Halvings[y \div 2] \in Nat
      BY <2>2, <3>1, Halve
    <3> QED  BY <3>2, <3>3
  <2> QED  BY <2>1, <2>2
<1> HIDE DEF Good
<1>2. \A y \in Nat : y \in Good
  BY <1>1, ClimbFrom
<1>3. \A x, y \in Nat : x <= y => x \in 0..y
  OBVIOUS
<1> QED  BY <1>2, <1>3 DEF Good

(* The way from a node to the root, n steps of it.                         *)
Climbs(f, k, n) ==
    /\ f \in [0..n -> Nat]
    /\ f[0] = k
    /\ \A d \in 0..n - 1 : f[d + 1] = f[d] \div 2

(* There is one, from every node.                                          *)
LEMMA WaysUp ==
    ASSUME NEW k \in Nat
    PROVE  \A n \in Nat : \E f : Climbs(f, k, n)
<1> DEFINE Good == {n \in Nat : \E f : Climbs(f, k, n)}
<1>1. 0 \in Good
  <2>1. Climbs([d \in 0..0 |-> k], k, 0)
    BY DEF Climbs
  <2> QED  BY <2>1
<1>2. ASSUME NEW n \in Nat, n \in Good  PROVE n + 1 \in Good
  <2>1. PICK f : Climbs(f, k, n)
    BY <1>2
  <2> DEFINE g == [d \in 0..n + 1 |-> IF d = n + 1 THEN f[n] \div 2 ELSE f[d]]
  <2>2. f[n] \in Nat /\ f[n] \div 2 \in Nat
    BY <2>1 DEF Climbs
  <2>3. g \in [0..n + 1 -> Nat]
    <3>1. \A d \in 0..n + 1 : d # n + 1 => d \in 0..n
      OBVIOUS
    <3> QED  BY <2>1, <2>2, <3>1 DEF Climbs
  <2>4. g[0] = k
    BY <2>1 DEF Climbs
  <2>5. ASSUME NEW d \in 0..(n + 1) - 1  PROVE g[d + 1] = g[d] \div 2
    <3>1. CASE d = n
      BY <3>1
    <3>2. CASE d # n
      <4>1. d \in 0..n - 1 /\ d + 1 \in 0..n /\ d + 1 # n + 1 /\ d # n + 1
        BY <3>2
      <4>2. g[d + 1] = f[d + 1] /\ g[d] = f[d]
        BY <4>1
      <4> HIDE DEF g
      <4> QED  BY <2>1, <4>1, <4>2 DEF Climbs
    <3> QED  BY <3>1, <3>2
  <2> HIDE DEF g
  <2>6. Climbs(g, k, n + 1)
    BY <2>3, <2>4, <2>5 DEF Climbs
  <2> QED  BY <2>6
<1> HIDE DEF Good
<1>3. \A n \in Nat : n \in Good
  BY <1>1, <1>2, Climb
<1> QED  BY <1>3 DEF Good

(* A step up is a halving less to go.                                      *)
LEMMA StepsUp ==
    ASSUME NEW k \in Nat, NEW n \in Nat, NEW f, Climbs(f, k, n)
    PROVE  \A d \in 0..n : f[d] >= 1 => d + Halvings[f[d]] = Halvings[k]
<1> DEFINE Good ==
        {d \in Nat : d <= n /\ f[d] >= 1 => d + Halvings[f[d]] = Halvings[k]}
<1>1. 0 \in Good
  BY Halve DEF Climbs
<1>2. ASSUME NEW d \in Nat, d \in Good  PROVE d + 1 \in Good
  <2> SUFFICES ASSUME d + 1 <= n, f[d + 1] >= 1
               PROVE  (d + 1) + Halvings[f[d + 1]] = Halvings[k]
    OBVIOUS
  <2>1. d \in 0..n - 1 /\ d \in 0..n /\ d + 1 \in 0..n /\ d <= n
    OBVIOUS
  <2>2. f[d] \in Nat /\ f[d + 1] \in Nat /\ f[d + 1] = f[d] \div 2
    BY <2>1 DEF Climbs
  <2>3. f[d] > 1
    BY <2>2
  <2>4. d + Halvings[f[d]] = Halvings[k]
    BY <1>2, <2>1, <2>2, <2>3
  <2>5. Halvings[f[d]] = 1 + Halvings[f[d + 1]] /\ Halvings[f[d + 1]] \in Nat
    BY <2>2, <2>3, Halve
  <2> QED  BY <2>4, <2>5
<1> HIDE DEF Good
<1>3. \A d \in Nat : d \in Good
  BY <1>1, <1>2, Climb
<1>4. \A d \in 0..n : d \in Nat /\ d <= n
  OBVIOUS
<1> QED  BY <1>3, <1>4 DEF Good

(* Every marked node is on the way up from one of the chosen leaves; there *)
(* are no more of them than there are steps on these ways.                 *)
LEMMA FewMarked ==
    ASSUME IInv, at \in AfterMark
    PROVE  /\ IsFiniteSet(tree)
           /\ Cardinality(tree) \in Nat
           /\ Cardinality(tree) <= NReq * PathLen
<1> DEFINE H == Halvings[(Leaves - 1) + Leaves]
           way(r) == CHOOSE f : Climbs(f, Leaves + idx[r], H)
<1>1. H \in Nat /\ PathLen = 1 + H /\ NReq \in Nat
  BY Numbers, Halve DEF PathLen
<1>2. /\ Leaves \in Nat
      /\ \A r \in 1..NReq : Leaves + idx[r] \in Nat /\ Leaves + idx[r] \in Nodes
  <2>1. Shuffled /\ Len(idx) = NReq
    BY DEF IInv, Shuffled
  <2>2. \A r \in 1..NReq : Leaves + idx[r] \in Nodes
    BY <2>1, IdxInRange
  <2> QED  BY <2>2, Numbers DEF Nodes
<1> HIDE DEF H
<1>3. \A r \in 1..NReq : Climbs(way(r), Leaves + idx[r], H)
  BY <1>1, <1>2, WaysUp
<1> HIDE DEF way
<1> DEFINE Ways == (1..NReq) \X (0..H)
           up == [p \in Ways |-> way(p[1])[p[2]]]
           Reached == {up[p] : p \in Ways}
<1>4. ASSUME NEW k \in Nodes, k \in tree
      PROVE  \E r \in 1..NReq, d \in 0..H : way(r)[d] = k
  <2> DEFINE Good ==
        {m \in Nat : 2 * Leaves - 1 - m \in tree =>
            \E r \in 1..NReq, d \in 0..H : way(r)[d] = 2 * Leaves - 1 - m}
  <2>1. ASSUME NEW m \in Nat, \A n \in 0..m - 1 : n \in Good
        PROVE  m \in Good
    <3> DEFINE j == 2 * Leaves - 1 - m
    <3> SUFFICES ASSUME j \in tree
                 PROVE  \E r \in 1..NReq, d \in 0..H : way(r)[d] = j
      OBVIOUS
    <3>1. j \in Nodes /\ j \in Nat /\ 1 <= j /\ j <= 2 * Leaves - 1
      BY <1>2 DEF IInv, Typed, Nodes
    <3>2. CASE j >= Leaves
      <4>1. j \in Chosen
        BY <3>1, <3>2 DEF IInv, Marked
      <4>2. PICK r \in 1..NReq : j = Leaves + idx[r]
        BY <4>1 DEF Chosen
      <4>3. way(r)[0] = j /\ 0 \in 0..H
        BY <1>1, <1>3, <4>2 DEF Climbs
      <4> QED  BY <4>3
    <3>3. CASE j < Leaves
      <4>1. j \in Inner
        BY <1>2, <3>1, <3>3 DEF Inner
      <4>2. PICK c \in {2 * j, 2 * j + 1} : c \in tree
        BY <4>1 DEF IInv, Marked, AfterMark
      <4>3. c \in Nodes /\ c \div 2 = j /\ c > j /\ c > 1
        BY <3>1, <4>1, <4>2, Numbers
      <4>4. /\ 2 * Leaves - 1 - c \in 0..m - 1
            /\ 2 * Leaves - 1 - (2 * Leaves - 1 - c) = c
        BY <1>2, <3>1, <4>3 DEF Nodes
      <4>5. PICK r \in 1..NReq, d \in 0..H : way(r)[d] = c
        BY <2>1, <4>2, <4>4
      <4>6. d + Halvings[c] = Halvings[Leaves + idx[r]]
        BY <1>1, <1>2, <1>3, <4>3, <4>5, StepsUp
      <4>7. Halvings[Leaves + idx[r]] <= H
        <5>1. /\ Leaves + idx[r] <= (Leaves - 1) + Leaves
              /\ (Leaves - 1) + Leaves \in Nat
          BY <1>2, Numbers DEF Nodes
        <5> QED  BY <1>2, <5>1, HalvingsMonotone DEF H
      <4>8. Halvings[c] = 1 + Halvings[c \div 2] /\ Halvings[c \div 2] \in Nat
        <5>1. c \in Nat /\ c \div 2 \in Nat /\ c > 1
          BY <3>1, <4>3 DEF Nodes
        <5> QED  BY <5>1, Halve
      <4>9. Halvings[Leaves + idx[r]] \in Nat
        BY <1>2, Halve
      <4>10. d \in 0..H - 1 /\ d + 1 \in 0..H
        BY <1>1, <4>6, <4>7, <4>8, <4>9
      <4>11. way(r)[d + 1] = j
        BY <1>3, <4>3, <4>5, <4>10 DEF Climbs
      <4> QED  BY <4>10, <4>11
    <3> QED  BY <1>2, <3>1, <3>2, <3>3
  <2> HIDE DEF Good
  <2>2. \A m \in Nat : m \in Good
    BY <2>1, ClimbFrom
  <2>3. 2 * Leaves - 1 - k \in Nat /\ 2 * Leaves - 1 - (2 * Leaves - 1 - k) = k
    BY <1>2 DEF Nodes
  <2> QED  BY <1>4, <2>2, <2>3 DEF Good
<1>5. tree \subseteq Reached
  <2> SUFFICES ASSUME NEW k \in tree  PROVE k \in Reached
    OBVIOUS
  <2>1. PICK r \in 1..NReq, d \in 0..H : way(r)[d] = k
    BY <1>4 DEF IInv, Typed
  <2>2. <<r, d>> \in Ways /\ up[<<r, d>>] = k
    BY <2>1
  <2> QED  BY <2>2
<1>6. /\ IsFiniteSet(1..NReq) /\ Cardinality(1..NReq) = NReq
      /\ IsFiniteSet(0..H) /\ Cardinality(0..H) = PathLen
  <2>1. /\ IsFiniteSet(1..NReq)
        /\ Cardinality(1..NReq) = IF 1 > NReq THEN 0 ELSE NReq - 1 + 1
    BY <1>1, FS_Interval
  <2>2. /\ IsFiniteSet(0..H)
        /\ Cardinality(0..H) = IF 0 > H THEN 0 ELSE H - 0 + 1
    BY <1>1, FS_Interval
  <2>3. (IF 1 > NReq THEN 0 ELSE NReq - 1 + 1) = NReq
    BY <1>1
  <2>4. (IF 0 > H THEN 0 ELSE H - 0 + 1) = 1 + H
    BY <1>1
  <2> QED  BY <1>1, <2>1, <2>2, <2>3, <2>4
<1>7. IsFiniteSet(Ways) /\ Cardinality(Ways) = NReq * PathLen
  BY <1>6, FS_Product
<1>8. up \in Surjection(Ways, Reached)
  BY DEF Surjection
<1> HIDE DEF Ways, up, Reached
<1>9. IsFiniteSet(Reached) /\ Cardinality(Reached) <= Cardinality(Ways)
  BY <1>7, <1>8, FS_Surjection
<1>10. IsFiniteSet(tree) /\ Cardinality(tree) <= Cardinality(Reached)
  BY <1>5, <1>9, FS_Subset
<1>11. /\ Cardinality(tree) \in Nat /\ Cardinality(Reached) \in Nat
       /\ Cardinality(Ways) \in Nat
  BY <1>7, <1>9, <1>10, FS_CardinalityType
<1> QED  BY <1>7, <1>9, <1>10, <1>11

-----------------------------------------------------------------------------
(* An honest opening.  The marked nodes above j with one child not marked: *)
(* a digest of that child is in the path.                                  *)
Other(k) == IF 2 * k \in tree THEN 2 * k + 1 ELSE 2 * k
Lacking(j) == {k \in Inner : k > j /\ k \in tree /\ Other(k) \notin tree}

(* They are as many as the steps down to j have found.                     *)
LEMMA LackingCounts ==
    /\ \A j \in Nat : /\ IsFiniteSet(Lacking(j))
                      /\ Cardinality(Lacking(j)) \in Nat
    /\ \A j \in Inner :
            Cardinality(Lacking(j - 1)) =
                Cardinality(Lacking(j)) +
                    (IF j \in tree /\ Other(j) \notin tree THEN 1 ELSE 0)
    /\ Lacking(Leaves - 1) = {}
    /\ \A j, k \in Nat : j <= k => Cardinality(Lacking(k)) <= Cardinality(Lacking(j))
<1>1. \A j : IsFiniteSet(Lacking(j)) /\ Cardinality(Lacking(j)) \in Nat
  <2> SUFFICES ASSUME NEW j
               PROVE  IsFiniteSet(Lacking(j)) /\ Cardinality(Lacking(j)) \in Nat
    OBVIOUS
  <2>1. IsFiniteSet(Inner)
    <3>1. 1 \in Int /\ Leaves - 1 \in Int
      BY Numbers
    <3> QED  BY <3>1, FS_Interval DEF Inner
  <2>2. Lacking(j) \subseteq Inner
    BY DEF Lacking
  <2>3. IsFiniteSet(Lacking(j))
    BY <2>1, <2>2, FS_Subset
  <2> QED  BY <2>3, FS_CardinalityType
<1>2. ASSUME NEW j \in Inner
      PROVE  Cardinality(Lacking(j - 1)) =
                Cardinality(Lacking(j)) +
                    (IF j \in tree /\ Other(j) \notin tree THEN 1 ELSE 0)
  <2>1. /\ j \in Nat /\ j - 1 \in Nat /\ j > j - 1 /\ ~(j > j)
        /\ \A k \in Inner : k > j - 1 <=> k > j \/ k = j
    BY Numbers DEF Inner
  <2>2. CASE j \in tree /\ Other(j) \notin tree
    <3>1. Lacking(j - 1) = Lacking(j) \cup {j} /\ j \notin Lacking(j)
      BY <2>1, <2>2 DEF Lacking
    <3>2. Cardinality(Lacking(j) \cup {j}) = Cardinality(Lacking(j)) + 1
      BY <1>1, <3>1, FS_AddElement
    <3> QED  BY <2>2, <3>1, <3>2
  <2>3. CASE ~(j \in tree /\ Other(j) \notin tree)
    <3>1. Lacking(j - 1) = Lacking(j)
      BY <2>1, <2>3 DEF Lacking
    <3> QED  BY <1>1, <2>3, <3>1
  <2> QED  BY <2>2, <2>3
<1>3. Lacking(Leaves - 1) = {}
  <2>1. \A k \in Inner : ~(k > Leaves - 1)
    BY Numbers DEF Inner
  <2> QED  BY <2>1 DEF Lacking
<1>4. \A j, k \in Nat :
        j <= k => Cardinality(Lacking(k)) <= Cardinality(Lacking(j))
  <2> SUFFICES ASSUME NEW j \in Nat, NEW k \in Nat, j <= k
               PROVE  Cardinality(Lacking(k)) <= Cardinality(Lacking(j))
    OBVIOUS
  <2>1. \A n \in Inner : n > k => n > j
    BY Numbers DEF Inner
  <2>2. Lacking(k) \subseteq Lacking(j)
    BY <2>1 DEF Lacking
  <2> QED  BY <1>1, <2>2, FS_Subset
<1> QED  BY <1>1, <1>2, <1>3, <1>4

(* How far the prover is with the path.                                    *)
Lim == IF at = "open" THEN i ELSE 0

PathMade ==
    /\ opening.path \in Seq({layers[k] : k \in Nodes})
    /\ at \in AfterMark =>
        /\ opening.blobs = [r \in 1..NReq |-> contents[idx[r]]]
        /\ Len(opening.path) = Cardinality(Lacking(Lim))
        /\ \A k \in Lacking(Lim) :
            opening.path[Cardinality(Lacking(k - 1))] = layers[Other(k)]
    /\ at \notin AfterMark => opening.path = <<>>

(* What the verifier has of an opening that is as it was made is right.    *)
Faithful ==
    received = opening =>
        /\ at # "rejected"
        /\ at = "unreadable" => Len(opening.path) < NReq
        /\ at = "read" => used = Cardinality(Lacking(i))
        /\ at \in {"read", "rebuild"} =>
            \A k \in defined : rebuilt[k] = layers[k]

(* Nothing is rebuilt before something was received.                       *)
Pristine == at \notin AfterMark \/ at = "open" => used = 0 /\ defined = {}

HInv == PathMade /\ Faithful /\ Pristine

(* Nothing is opened or received yet.                                      *)
LEMMA HonestInitially == Init => HInv
<1> SUFFICES ASSUME Init  PROVE HInv
  OBVIOUS
<1>1. at \notin AfterMark /\ at = "build"
  BY DEF Init, AfterMark
<1>2. opening.path = <<>> /\ <<>> \in Seq({layers[k] : k \in Nodes})
  BY DEF Init
<1> QED  BY <1>1, <1>2 DEF Init, HInv, PathMade, Faithful, Pristine

(* While the path is made, or after that, and nothing else is touched.     *)
LEMMA SamePath ==
    ASSUME PathMade, at \in AfterMark, at' \in AfterMark, Lim' = Lim,
           UNCHANGED prover
    PROVE  PathMade'
<1>1. \A j : Lacking(j)' = Lacking(j)
  BY DEF prover, Lacking, Other
<1>2. \A k : Other(k)' = Other(k)
  BY DEF prover, Other
<1>3. UNCHANGED <<opening, contents, idx, layers>>
  BY DEF prover
<1> QED  BY <1>1, <1>2, <1>3 DEF PathMade

(* Until the nodes are marked nothing is opened.                           *)
LEMMA EarlyHonest ==
    ASSUME IInv, HInv,
           BuildTree \/ BeginChoosing \/ Choose \/ BeginMarking \/ Mark
    PROVE  HInv'
<1>1. /\ at \notin AfterMark /\ at' \notin AfterMark
      /\ UNCHANGED <<opening, used, defined>>
  BY DEF BuildTree, BeginChoosing, Choose, BeginMarking, Mark, Turn, Over,
     Start, AfterMark, prover, verifier
<1>2. opening.path = <<>>
  BY <1>1 DEF HInv, PathMade
<1>3. opening'.path \in Seq({layers'[k] : k \in Nodes})
  BY <1>1, <1>2
<1> QED
  BY <1>1, <1>2, <1>3 DEF HInv, PathMade, Faithful, Pristine, AfterMark

(* The prover opens the columns drawn, with an empty path.                 *)
LEMMA BeginOpeningHonest ==
    ASSUME IInv, HInv, BeginOpening  PROVE HInv'
<1>1. /\ at = "mark" /\ at' = "open" /\ i' = Leaves - 1
      /\ opening' = [opening EXCEPT !.blobs = [r \in 1..NReq |-> contents[idx[r]]]]
      /\ UNCHANGED <<contents, layers, idx, tree, used, defined>>
  BY DEF BeginOpening, Over, Start, verifier
<1>2. opening.path = <<>>
  BY <1>1 DEF HInv, PathMade, AfterMark
<1>3. /\ opening'.blobs = [r \in 1..NReq |-> contents[idx[r]]]
      /\ opening'.path = <<>>
  BY <1>1, <1>2
<1>4. Lim' = Leaves - 1 /\ Lacking(Leaves - 1)' = {}
  <2>1. Lacking(Leaves - 1)' = Lacking(Leaves - 1)
    BY <1>1 DEF Lacking, Other
  <2> QED  BY <1>1, <2>1, LackingCounts DEF Lim
<1>5. PathMade'
  <2>1. Lacking(Lim)' = {} /\ Cardinality(Lacking(Lim))' = 0
    BY <1>4, FS_EmptySet
  <2>2. opening'.path \in Seq({layers'[k] : k \in Nodes})
    BY <1>3
  <2>3. Len(opening'.path) = 0
    BY <1>3
  <2>4. opening'.blobs = [r \in 1..NReq |-> contents'[idx'[r]]]
    BY <1>1, <1>3
  <2> QED  BY <1>1, <2>1, <2>2, <2>3, <2>4 DEF PathMade, AfterMark
<1> QED  BY <1>1, <1>5 DEF HInv, Faithful, Pristine, AfterMark

(* A marked node that lacks a child puts that child's digest next.         *)
LEMMA PushDigestHonest ==
    ASSUME IInv, HInv, PushDigest  PROVE HInv'
<1>1. /\ at = "open" /\ at' = "open" /\ i \in Inner /\ i' = i - 1
      /\ UNCHANGED <<contents, layers, idx, tree, used, defined>>
  BY Numbers DEF PushDigest, Turn, IInv, Typed, Inner, verifier
<1>2. opening' = IF LacksChild
                 THEN [opening EXCEPT !.path = Append(@, layers[OtherChild])]
                 ELSE opening
  BY DEF PushDigest
<1>3. OtherChild = Other(i) /\ LacksChild = (i \in tree /\ Other(i) \notin tree)
  BY DEF OtherChild, LacksChild, Other
<1>4. /\ \A j : Lacking(j)' = Lacking(j)
      /\ \A k : Other(k)' = Other(k)
      /\ Lim = i /\ Lim' = i - 1
  BY <1>1 DEF Lacking, Other, Lim
<1> DEFINE Layered == {layers[k] : k \in Nodes}
           path == opening.path
           n == Cardinality(Lacking(i))
<1>5. /\ path \in Seq(Layered) /\ n \in Nat /\ Len(path) = n
      /\ opening.blobs = [r \in 1..NReq |-> contents[idx[r]]]
      /\ \A k \in Lacking(i) :
            path[Cardinality(Lacking(k - 1))] = layers[Other(k)]
  <2>1. i \in Nat
    BY <1>1, Numbers DEF Inner
  <2> QED  BY <1>1, <1>4, <2>1, LackingCounts DEF HInv, PathMade, AfterMark
<1>6. /\ i \in Nat /\ i - 1 \in Nat /\ i > i - 1
      /\ \A k \in Inner : k > i - 1 <=> k > i \/ k = i
  BY <1>1, Numbers DEF Inner
<1>7. Cardinality(Lacking(i - 1)) =
         n + (IF i \in tree /\ Other(i) \notin tree THEN 1 ELSE 0)
  BY <1>1, LackingCounts
<1> HIDE DEF n
<1>8. CASE ~LacksChild
  <2>1. Lacking(i - 1) = Lacking(i)
    BY <1>3, <1>6, <1>8 DEF Lacking
  <2>2. opening' = opening
    BY <1>2, <1>8
  <2>3. PathMade'
    BY <1>1, <1>4, <1>5, <2>1, <2>2 DEF HInv, PathMade, AfterMark, n
  <2> QED  BY <1>1, <2>3 DEF HInv, Faithful, Pristine
<1>9. CASE LacksChild
  <2>1. Lacking(i - 1) = Lacking(i) \cup {i}
    BY <1>1, <1>3, <1>6, <1>9 DEF Lacking
  <2>2. /\ opening'.path = Append(path, layers[Other(i)])
        /\ opening'.blobs = opening.blobs
    BY <1>2, <1>3, <1>9
  <2>3. layers[Other(i)] \in Layered
    <3>1. Other(i) \in Nodes
      BY <1>1, Numbers DEF Other
    <3> QED  BY <3>1
  <2>4. Cardinality(Lacking(i - 1)) = n + 1
    BY <1>3, <1>7, <1>9
  <2>5. /\ opening'.path \in Seq(Layered) /\ Len(opening'.path) = n + 1
        /\ opening'.path[n + 1] = layers[Other(i)]
        /\ \A m \in 1..n : opening'.path[m] = path[m]
    <3> HIDE DEF Layered, path
    <3> QED  BY <1>5, <2>2, <2>3
  <2>6. ASSUME NEW k \in Lacking(i - 1)
        PROVE  opening'.path[Cardinality(Lacking(k - 1))] = layers[Other(k)]
    <3>1. CASE k = i
      BY <2>4, <2>5, <3>1
    <3>2. CASE k \in Lacking(i)
      <4>1. /\ k \in Inner /\ k > i /\ k \in tree /\ Other(k) \notin tree
            /\ k - 1 \in Nat /\ k \in Nat /\ i <= k - 1
        BY <1>6, <3>2, Numbers DEF Lacking, Inner
      <4>2. /\ Cardinality(Lacking(k - 1)) = Cardinality(Lacking(k)) + 1
            /\ Cardinality(Lacking(k)) \in Nat
        BY <4>1, LackingCounts
      <4>3. Cardinality(Lacking(k - 1)) <= n
        BY <1>6, <4>1, LackingCounts DEF n
      <4>4. Cardinality(Lacking(k - 1)) \in 1..n
        BY <1>5, <4>2, <4>3
      <4> QED  BY <1>5, <2>5, <3>2, <4>4
    <3> QED  BY <2>1, <3>1, <3>2
  <2>7. PathMade'
    <3>1. opening'.path \in Seq({layers'[k] : k \in Nodes})
      BY <1>1, <2>5
    <3>2. Lacking(Lim)' = Lacking(i - 1)
      BY <1>4
    <3>3. \A k \in Lacking(i - 1) :
            opening'.path[Cardinality(Lacking(k - 1)')] = layers'[Other(k)']
      BY <1>1, <1>4, <2>6
    <3> QED  BY <1>1, <1>5, <2>2, <2>4, <2>5, <3>1, <3>2, <3>3
             DEF PathMade, AfterMark
  <2> QED  BY <1>1, <2>7 DEF HInv, Faithful, Pristine
<1> QED  BY <1>8, <1>9

(* A path that was made has at most one digest for each marked node: the   *)
(* reader's upper bound on paths is one.                                   *)
LEMMA PathsFit ==
    ASSUME IInv, HInv, Over("open")
    PROVE  /\ Len(opening.path) \in Nat /\ NReq * PathLen \in Nat
           /\ Len(opening.path) <= NReq * PathLen
<1>1. at = "open" /\ i = 0 /\ at \in AfterMark
  BY DEF Over, AfterMark
<1>2. Len(opening.path) = Cardinality(Lacking(0))
  BY <1>1 DEF HInv, PathMade, Lim
<1>3. /\ IsFiniteSet(tree) /\ Cardinality(tree) \in Nat
      /\ Cardinality(tree) <= NReq * PathLen
  BY <1>1, FewMarked
<1>4. /\ Cardinality(Lacking(0)) \in Nat
      /\ Cardinality(Lacking(0)) <= Cardinality(tree)
  <2>1. Lacking(0) \subseteq tree
    BY DEF Lacking
  <2>2. Cardinality(Lacking(0)) <= Cardinality(tree)
    BY <1>3, <2>1, FS_Subset
  <2>3. 0 \in Nat
    OBVIOUS
  <2> QED  BY <2>2, <2>3, LackingCounts
<1>5. NReq * PathLen \in Nat
  <2>1. (Leaves - 1) + Leaves \in Nat /\ NReq \in Nat
    BY Numbers
  <2>2. PathLen \in Nat
    BY <2>1, Halve DEF PathLen
  <2> QED  BY <2>1, <2>2
<1> DEFINE bound == NReq * PathLen
<1>6. bound \in Nat /\ Cardinality(tree) <= bound
  BY <1>3, <1>5
<1> HIDE DEF bound
<1>7. Len(opening.path) \in Nat /\ Len(opening.path) <= bound
  BY <1>2, <1>3, <1>4, <1>6
<1> QED  BY <1>5, <1>7 DEF bound

(* The verifier begins at the top of an honest path, or refused a short    *)
(* one.                                                                    *)
LEMMA ReceiveHonest ==
    ASSUME IInv, HInv, Receive  PROVE HInv'
<1>1. /\ at = "open" /\ i = 0 /\ UNCHANGED <<prover, used, defined>>
      /\ IF Readable(received'.path) THEN at' = "read" /\ i' = Leaves - 1
         ELSE at' = "unreadable" /\ i' = i
  BY DEF Receive, Over, Start
<1>2. PathMade'
  <2>1. Lim' = Lim /\ at \in AfterMark /\ at' \in AfterMark
    BY <1>1 DEF Lim, AfterMark
  <2> QED  BY <1>1, <2>1, SamePath DEF HInv
<1>3. used = 0 /\ defined = {}
  BY <1>1 DEF HInv, Pristine
<1>4. opening' = opening /\ tree' = tree
  BY <1>1 DEF prover
<1>5. CASE at' = "read"
  <2>1. Lacking(i)' = Lacking(Leaves - 1)
    BY <1>1, <1>4, <1>5 DEF Lacking, Other
  <2>2. Cardinality(Lacking(i))' = 0
    BY <2>1, LackingCounts, FS_EmptySet
  <2> QED
    BY <1>1, <1>2, <1>3, <1>5, <2>2 DEF HInv, Faithful, Pristine, AfterMark
<1>6. CASE at' # "read" /\ received' = opening
  <2>1. at' = "unreadable" /\ ~Readable(opening.path)
    BY <1>1, <1>6
  <2>2. /\ Len(opening.path) \in Nat /\ NReq * PathLen \in Nat
        /\ Len(opening.path) <= NReq * PathLen
    BY <1>1, PathsFit DEF Over
  <2>3. NReq \in Nat
    BY Numbers
  <2>4. Len(opening.path) < NReq
    <3> DEFINE bound == NReq * PathLen
    <3>1. ~(NReq <= Len(opening.path) /\ Len(opening.path) <= bound)
      BY <2>1 DEF Readable
    <3>2. bound \in Nat /\ Len(opening.path) <= bound
      BY <2>2
    <3> HIDE DEF bound
    <3> QED  BY <2>2, <2>3, <3>1, <3>2
  <2> QED
    BY <1>2, <1>4, <2>1, <2>4 DEF HInv, Faithful, Pristine, AfterMark
<1>7. CASE at' # "read" /\ received' # opening
  <2>1. at' = "unreadable"
    BY <1>1, <1>7
  <2> QED
    BY <1>2, <1>4, <1>7, <2>1 DEF HInv, Faithful, Pristine, AfterMark
<1> QED  BY <1>5, <1>6, <1>7

(* It takes from the path, for each such node, the digest put there.       *)
LEMMA ReadDigestHonest ==
    ASSUME IInv, HInv, ReadDigest  PROVE HInv'
<1>1. /\ at = "read" /\ i \in Inner /\ at' \in {"read", "rejected"}
      /\ UNCHANGED <<prover, received>>
  BY Numbers DEF ReadDigest, Turn, IInv, Typed, Inner
<1>2. PathMade'
  <2>1. Lim' = Lim /\ at \in AfterMark /\ at' \in AfterMark
    BY <1>1 DEF Lim, AfterMark
  <2> QED  BY <1>1, <2>1, SamePath DEF HInv
<1>3. /\ OtherChild = Other(i)
      /\ LacksChild <=> i \in tree /\ Other(i) \notin tree
  BY DEF OtherChild, LacksChild, Other
<1>4. Faithful'
  <2> SUFFICES ASSUME received = opening  PROVE Faithful'
    BY <1>1 DEF prover, Faithful
  <2>1. /\ used = Cardinality(Lacking(i))
        /\ \A k \in defined : rebuilt[k] = layers[k]
        /\ DOMAIN rebuilt = Nodes
    BY <1>1 DEF HInv, Faithful, IInv, Typed
  <2>2. /\ Len(opening.path) = Cardinality(Lacking(0))
        /\ \A k \in Lacking(0) :
            opening.path[Cardinality(Lacking(k - 1))] = layers[Other(k)]
    BY <1>1 DEF HInv, PathMade, Lim, AfterMark
  <2>3. /\ i \in Nat /\ i - 1 \in Nat /\ 0 <= i - 1 /\ i > 0 /\ 0 \in Nat
    BY <1>1, Numbers DEF Inner
  <2>4. /\ Cardinality(Lacking(i - 1)) <= Cardinality(Lacking(0))
        /\ Cardinality(Lacking(i)) \in Nat /\ Cardinality(Lacking(0)) \in Nat
        /\ Cardinality(Lacking(i - 1)) \in Nat
        /\ Cardinality(Lacking(i - 1)) =
                Cardinality(Lacking(i)) +
                    (IF i \in tree /\ Other(i) \notin tree THEN 1 ELSE 0)
    BY <1>1, <2>3, LackingCounts
  <2>5. /\ \A j : Lacking(j)' = Lacking(j)
        /\ UNCHANGED <<opening, layers>>
    BY <1>1 DEF prover, Lacking, Other
  <2>6. CASE LacksChild
    <3>0. /\ i \in tree /\ Other(i) \notin tree
          /\ Cardinality(Lacking(i - 1)) = used + 1
      <4>1. i \in tree /\ Other(i) \notin tree
        BY <1>3, <2>6
      <4> QED  BY <2>1, <2>4, <4>1
    <3>1. used < Len(received.path)
      <4> HIDE DEF Lacking
      <4>1. Len(received.path) = Cardinality(Lacking(0)) /\ used \in Nat
        BY <2>1, <2>2, <2>4
      <4> QED  BY <2>4, <3>0, <4>1
    <3>2. /\ at' = "read" /\ i' = i - 1 /\ used' = used + 1
          /\ rebuilt' = [rebuilt EXCEPT ![Other(i)] = received.path[used + 1]]
          /\ defined' = defined \cup {Other(i)}
      <4>1. Cardinality(Lacking(0)) \in Nat /\ used \in Nat
            /\ Len(received.path) \in Nat
        BY <2>1, <2>2, <2>4
      <4>2. ~(used >= Len(received.path))
        BY <3>1, <4>1
      <4> QED  BY <1>3, <2>6, <4>2 DEF ReadDigest, Turn, NextDigest
    <3>3. i \in Lacking(0)
      BY <1>1, <1>3, <2>3, <2>6 DEF Lacking
    <3>4. received.path[used + 1] = layers[Other(i)]
      BY <2>2, <3>0, <3>3
    <3>5. Other(i) \in Nodes
      BY <1>1, Numbers DEF Other
    <3>6. \A k \in defined' : rebuilt'[k] = layers[k]
      BY <2>1, <3>2, <3>4, <3>5 DEF IInv, Typed
    <3>7. used' = Cardinality(Lacking(i'))
      BY <3>0, <3>2
    <3> QED  BY <2>5, <3>2, <3>6, <3>7 DEF Faithful
  <2>7. CASE ~LacksChild
    <3>1. at' = "read" /\ i' = i - 1 /\ UNCHANGED <<used, rebuilt, defined>>
      BY <2>7 DEF ReadDigest, Turn
    <3>2. Cardinality(Lacking(i - 1)) = Cardinality(Lacking(i))
      <4>1. ~(i \in tree /\ Other(i) \notin tree)
        BY <1>3, <2>7
      <4> QED  BY <2>4, <4>1
    <3>3. used' = Cardinality(Lacking(i'))
      BY <2>1, <3>1, <3>2
    <3> QED  BY <2>1, <2>5, <3>1, <3>3 DEF Faithful
  <2> QED  BY <2>6, <2>7
<1> QED  BY <1>1, <1>2, <1>4 DEF HInv, Pristine, AfterMark

(* The leaves it hashes are those of the columns drawn.                    *)
LEMMA SetLeavesHonest ==
    ASSUME IInv, HInv, SetLeaves  PROVE HInv'
<1> DEFINE Opener(k) == CHOOSE r \in 1..NReq : k = Leaves + idx[r]
<1>1. /\ at = "read" /\ at' = "rebuild" /\ i = 0
      /\ UNCHANGED <<prover, received>>
      /\ rebuilt' = [k \in Nodes |->
            IF \E r \in 1..NReq : k = Leaves + idx[r]
            THEN Leaf(received.blobs[Opener(k)]) ELSE rebuilt[k]]
      /\ defined' = defined \cup Chosen
  BY DEF SetLeaves, Over, Start, Chosen
<1>2. PathMade'
  <2>1. Lim' = Lim /\ at \in AfterMark /\ at' \in AfterMark
    BY <1>1 DEF Lim, AfterMark
  <2> QED  BY <1>1, <2>1, SamePath DEF HInv
<1>3. Faithful'
  <2> SUFFICES ASSUME received = opening  PROVE Faithful'
    BY <1>1 DEF prover, Faithful
  <2>1. /\ \A k \in defined : rebuilt[k] = layers[k]
        /\ defined \subseteq Nodes
        /\ opening.blobs = [r \in 1..NReq |-> contents[idx[r]]]
        /\ Len(idx) = NReq
    BY <1>1 DEF HInv, PathMade, Faithful, AfterMark, IInv, Typed, Shuffled
  <2>2. ASSUME NEW k \in defined'  PROVE rebuilt'[k] = layers[k]
    <3>1. CASE \E r \in 1..NReq : k = Leaves + idx[r]
      <4>1. Opener(k) \in 1..NReq /\ k = Leaves + idx[Opener(k)]
        BY <3>1
      <4> DEFINE r == Opener(k)
      <4> HIDE DEF r
      <4>2. r \in 1..NReq /\ k = Leaves + idx[r]
        BY <4>1 DEF r
      <4>3. idx[r] \in 0..Leaves - 1 /\ k \in Nodes
        BY <2>1, <4>2, IdxInRange DEF IInv
      <4>4. rebuilt'[k] = Leaf(received.blobs[r])
        BY <1>1, <3>1, <4>3 DEF r
      <4>5. received.blobs[r] = contents[idx[r]]
        BY <2>1, <4>2
      <4>6. k >= Leaves /\ k - Leaves = idx[r]
        BY <4>2, <4>3, Numbers
      <4>7. layers[k] = Leaf(contents[idx[r]])
        BY <4>3, <4>6 DEF IInv, Built
      <4> QED  BY <4>4, <4>5, <4>7
    <3>2. CASE ~ \E r \in 1..NReq : k = Leaves + idx[r]
      <4>1. k \in defined /\ k \in Nodes
        BY <1>1, <2>1, <3>2 DEF Chosen
      <4>2. rebuilt'[k] = rebuilt[k]
        BY <1>1, <3>2, <4>1
      <4> QED  BY <2>1, <4>1, <4>2
    <3> QED  BY <3>1, <3>2
  <2>3. layers' = layers
    BY <1>1 DEF prover
  <2> QED  BY <1>1, <2>2, <2>3 DEF Faithful
<1> QED  BY <1>1, <1>2, <1>3 DEF HInv, Pristine, AfterMark

(* A node rebuilt from two right ones is right.                            *)
LEMMA RebuildHonest ==
    ASSUME IInv, HInv, Rebuild  PROVE HInv'
<1>1. /\ at = "rebuild" /\ at' = "rebuild" /\ i \in Inner
      /\ UNCHANGED <<prover, received, used>>
  BY Numbers DEF Rebuild, Turn, IInv, Typed, Inner
<1>2. PathMade'
  <2>1. Lim' = Lim /\ at \in AfterMark /\ at' \in AfterMark
    BY <1>1 DEF Lim, AfterMark
  <2> QED  BY <1>1, <2>1, SamePath DEF HInv
<1>3. Faithful'
  <2> SUFFICES ASSUME received = opening  PROVE Faithful'
    BY <1>1 DEF prover, Faithful
  <2>1. /\ \A k \in defined : rebuilt[k] = layers[k]
        /\ DOMAIN rebuilt = Nodes /\ defined \subseteq Nodes
        /\ layers[i] = Hash2(layers[2 * i], layers[2 * i + 1])
    BY <1>1 DEF HInv, Faithful, IInv, Typed, Built
  <2>2. layers' = layers
    BY <1>1 DEF prover
  <2>3. CASE {2 * i, 2 * i + 1} \subseteq defined
    <3>1. /\ rebuilt' = [rebuilt EXCEPT ![i] =
                            Hash2(rebuilt[2 * i], rebuilt[2 * i + 1])]
          /\ defined' = defined \cup {i}
      BY <2>3 DEF Rebuild
    <3>2. Hash2(rebuilt[2 * i], rebuilt[2 * i + 1]) = layers[i]
      BY <2>1, <2>3
    <3>3. \A k \in defined' : rebuilt'[k] = layers[k]
      <4> SUFFICES ASSUME NEW k \in defined'  PROVE rebuilt'[k] = layers[k]
        OBVIOUS
      <4>1. i \in Nodes
        BY <1>1, Numbers
      <4> HIDE DEF Nodes, Hash2
      <4>2. CASE k = i
        <5>1. rebuilt'[i] = Hash2(rebuilt[2 * i], rebuilt[2 * i + 1])
          BY <2>1, <3>1, <4>1
        <5> QED  BY <3>2, <4>2, <5>1
      <4>3. CASE k # i
        <5>1. k \in defined /\ k \in Nodes
          BY <2>1, <3>1, <4>3
        <5>2. rebuilt'[k] = rebuilt[k]
          BY <2>1, <3>1, <4>3, <5>1
        <5> QED  BY <2>1, <5>1, <5>2
      <4> QED  BY <4>2, <4>3
    <3> QED  BY <1>1, <2>2, <3>3 DEF Faithful
  <2>4. CASE ~({2 * i, 2 * i + 1} \subseteq defined)
    <3>1. UNCHANGED <<rebuilt, defined>>
      BY <2>4 DEF Rebuild
    <3> QED  BY <1>1, <2>1, <2>2, <3>1 DEF Faithful
  <2> QED  BY <2>3, <2>4
<1> QED  BY <1>1, <1>2, <1>3 DEF HInv, Pristine, AfterMark

(* The root is marked: a least marked node has no parent.                  *)
LEMMA RootMarked ==
    ASSUME IInv, at \in AfterMark  PROVE 1 \in tree
<1>1. tree \subseteq Nat /\ tree # {}
  <2>1. /\ 1 \in 1..NReq /\ Leaves + idx[1] \in Chosen
        /\ Leaves + idx[1] \in Nodes /\ Leaves + idx[1] >= Leaves
    <3>1. 1 \in 1..NReq /\ Len(idx) = NReq /\ Shuffled
      BY Numbers DEF IInv, Shuffled
    <3>2. idx[1] \in 0..Leaves - 1 /\ Leaves + idx[1] \in Nodes
      BY <3>1, IdxInRange
    <3> QED  BY <3>1, <3>2, Numbers DEF Chosen
  <2>2. Leaves + idx[1] \in tree
    BY <2>1 DEF IInv, Marked
  <2> QED  BY <2>2 DEF IInv, Typed, Nodes
<1>2. PICK m \in tree : \A n \in tree : ~ (<<n, m>> \in OpToRel(<, Nat))
  BY <1>1, WFMin, NatLessThanWellFounded
<1>3. m \in Nodes /\ m \in Nat /\ \A n \in tree : ~(n < m)
  BY <1>1, <1>2 DEF OpToRel, IInv, Typed
<1>4. CASE m = 1
  BY <1>4
<1>5. CASE m # 1
  <2> DEFINE k == m \div 2
  <2>1. /\ k \in Inner /\ k < m
        /\ m = 2 * k \/ m = 2 * k + 1
    BY <1>3, <1>5, Numbers DEF Nodes, Inner
  <2> HIDE DEF k
  <2>2. k \in tree
    BY <2>1 DEF IInv, Marked, AfterMark
  <2> QED  BY <1>3, <2>1, <2>2
<1> QED  BY <1>4, <1>5

(* The root is marked, so rebuilt, and it is the committed one.            *)
LEMMA DecideHonest ==
    ASSUME IInv, HInv, Decide  PROVE HInv'
<1>1. /\ at = "rebuild" /\ i = 0 /\ UNCHANGED <<prover, verifier>>
      /\ at' = IF RootMatches THEN "accepted" ELSE "rejected"
  BY DEF Decide, Over
<1>2. PathMade'
  <2>1. Lim' = Lim /\ at \in AfterMark /\ at' \in AfterMark
    BY <1>1 DEF Lim, AfterMark
  <2> QED  BY <1>1, <2>1, SamePath DEF HInv
<1>3. ASSUME received = opening  PROVE RootMatches
  <2>1. 1 \in tree
    BY <1>1, RootMarked DEF AfterMark
  <2>2. 1 \in defined
    <3>1. CASE 1 \in Inner
      BY <1>1, <2>1, <3>1 DEF IInv, Rehashed
    <3>2. CASE 1 \notin Inner
      <4>1. 1 \in Nodes /\ 1 >= Leaves
        BY <3>2, Numbers DEF Inner
      <4>2. 1 \in Chosen
        BY <1>1, <2>1, <4>1 DEF IInv, Marked, AfterMark
      <4> QED  BY <1>1, <4>2 DEF IInv, Rehashed
    <3> QED  BY <3>1, <3>2
  <2>3. rebuilt[1] = layers[1]
    BY <1>1, <1>3, <2>2 DEF HInv, Faithful
  <2> QED  BY <2>2, <2>3 DEF RootMatches
<1>4. Faithful'
  BY <1>1, <1>3 DEF Faithful, prover, verifier
<1> QED  BY <1>1, <1>2, <1>4 DEF HInv, Pristine, AfterMark

(* No step of the prover or the verifier leaves the invariant.             *)
LEMMA HonestInductive == IInv /\ HInv /\ [Next]_vars => HInv'
<1> SUFFICES ASSUME IInv, HInv, [Next]_vars  PROVE HInv'
  OBVIOUS
<1>1. CASE UNCHANGED vars
  BY <1>1 DEF vars, prover, verifier, HInv, PathMade, Faithful, Pristine,
     Lim, Lacking, Other
<1>2. CASE Next
  BY <1>2, EarlyHonest, BeginOpeningHonest, PushDigestHonest, ReceiveHonest,
     ReadDigestHonest, SetLeavesHonest, RebuildHonest, DecideHonest
     DEF Next
<1> QED  BY <1>1, <1>2

(* For every size of the tree and every draw of columns: an opening that   *)
(* is read as it was made is accepted, unless its path is shorter than     *)
(* NReq; no path is longer than ZkProof::read's own formula allows.        *)
THEOREM HonestVerifies == Spec => []HonestOpeningVerifies
<1>1. HInv => HonestOpeningVerifies
  BY DEF HInv, Faithful, HonestOpeningVerifies
<1>2. Spec => []IInv
  BY InitIInv, NextIInv, PTL DEF Spec
<1> QED  BY <1>1, <1>2, HonestInitially, HonestInductive, PTL DEF Spec

-----------------------------------------------------------------------------
(* FlattenSeq appends what it is given, one after the other.               *)
Steps(f, s, n) ==
    /\ DOMAIN f = 0..n
    /\ f[0] = <<>>
    /\ \A k \in 1..n : f[k] = f[k - 1] \o s[k]

(* Such sums there are, up to every length.                                *)
LEMMA StepsExist ==
    ASSUME NEW S, NEW s \in Seq(Seq(S))
    PROVE  \A n \in Nat : n <= Len(s) => \E f \in [0..n -> Seq(S)] : Steps(f, s, n)
<1> DEFINE Good ==
        {n \in Nat : n <= Len(s) => \E f \in [0..n -> Seq(S)] : Steps(f, s, n)}
<1>1. 0 \in Good
  <2>1. /\ [k \in 0..0 |-> <<>>] \in [0..0 -> Seq(S)]
        /\ Steps([k \in 0..0 |-> <<>>], s, 0)
    BY DEF Steps
  <2> QED  BY <2>1
<1>2. ASSUME NEW n \in Nat, n \in Good  PROVE n + 1 \in Good
  <2> SUFFICES ASSUME n + 1 <= Len(s)
               PROVE  \E f \in [0..n + 1 -> Seq(S)] : Steps(f, s, n + 1)
    OBVIOUS
  <2>1. PICK f \in [0..n -> Seq(S)] : Steps(f, s, n)
    BY <1>2
  <2> DEFINE last == f[n] \o s[n + 1]
             g == [k \in 0..n + 1 |-> IF k = n + 1 THEN last ELSE f[k]]
  <2>2. f[n] \in Seq(S) /\ s[n + 1] \in Seq(S) /\ last \in Seq(S)
    <3>1. n \in 0..n /\ n + 1 \in 1..Len(s)
      OBVIOUS
    <3>2. f[n] \in Seq(S) /\ s[n + 1] \in Seq(S)
      BY <3>1
    <3> QED  BY <3>2
  <2> HIDE DEF last
  <2>3. \A k \in 0..n + 1 : k # n + 1 => k \in 0..n
    OBVIOUS
  <2>4. /\ g \in [0..n + 1 -> Seq(S)]
        /\ g[n + 1] = last
        /\ \A k \in 0..n : g[k] = f[k]
    BY <2>2, <2>3
  <2> HIDE DEF g
  <2>5. ASSUME NEW k \in 1..n + 1  PROVE g[k] = g[k - 1] \o s[k]
    <3>1. CASE k = n + 1
      <4>1. k - 1 = n /\ n \in 0..n
        BY <3>1
      <4> QED  BY <2>4, <3>1, <4>1 DEF last
    <3>2. CASE k # n + 1
      <4>1. k \in 1..n /\ k \in 0..n /\ k - 1 \in 0..n
        BY <3>2
      <4> QED  BY <2>1, <2>4, <4>1 DEF Steps
    <3> QED  BY <3>1, <3>2
  <2>6. g[0] = <<>> /\ DOMAIN g = 0..n + 1
    BY <2>1, <2>4 DEF Steps
  <2> QED  BY <2>4, <2>5, <2>6 DEF Steps
<1> HIDE DEF Good
<1>3. \A n \in Nat : n \in Good
  BY <1>1, <1>2, Climb
<1> QED  BY <1>3 DEF Good

Joins(a, b, c) ==
    /\ Len(c) = Len(a) + Len(b) /\ Len(a) \in Nat /\ Len(b) \in Nat
    /\ \A m \in 1..Len(a) : c[m] = a[m]
    /\ \A m \in 1..Len(b) : c[Len(a) + m] = b[m]

LEMMA Joined ==
    ASSUME NEW S, NEW a \in Seq(S), NEW b \in Seq(S)
    PROVE  a \o b \in Seq(S) /\ Joins(a, b, a \o b)
  BY DEF Joins

(* The last of them is what FlattenSeq computes.                           *)
LEMMA FlattenSteps ==
    ASSUME NEW S, NEW s \in Seq(Seq(S))
    PROVE  \E f \in [0..Len(s) -> Seq(S)] :
                Steps(f, s, Len(s)) /\ f[Len(s)] = FlattenSeq(s)
<1> DEFINE N == Len(s)
<1>1. N \in Nat
  OBVIOUS
<1>2. PICK f \in [0..N -> Seq(S)] : Steps(f, s, N)
  BY <1>1, StepsExist
<1>3. CASE N = 0
  <2>1. FlattenSeq(s) = s /\ s = <<>>
    BY <1>3 DEF FlattenSeq
  <2> QED  BY <1>2, <1>3, <2>1 DEF Steps
<1>4. CASE N # 0
  <2> DEFINE Rec(g) == [k \in 1..N |-> IF k = 1 THEN s[k] ELSE g[k - 1] \o s[k]]
             flat == CHOOSE g : g = Rec(g)
             h == [k \in 1..N |-> f[k]]
  <2>1. FlattenSeq(s) = flat[N]
    BY <1>4, Zenon DEF FlattenSeq
  <2>2. s[1] \in Seq(S) /\ f[1] = s[1]
    <3>1. 1 \in 1..N /\ 1 - 1 = 0
      BY <1>1, <1>4
    <3>2. f[1] = f[0] \o s[1] /\ f[0] = <<>>
      BY <1>2, <3>1 DEF Steps
    <3>3. s[1] \in Seq(S)
      BY <3>1
    <3>4. <<>> \o s[1] = s[1]
      BY <3>3
    <3> QED  BY <3>2, <3>3, <3>4
  <2>3. h = Rec(h)
    <3>1. ASSUME NEW k \in 1..N
          PROVE  f[k] = IF k = 1 THEN s[k] ELSE h[k - 1] \o s[k]
      <4>1. CASE k = 1
        BY <2>2, <4>1
      <4>2. CASE k # 1
        <5>1. k - 1 \in 1..N
          BY <1>1, <4>2
        <5> QED  BY <1>2, <4>2, <5>1 DEF Steps
      <4> QED  BY <4>1, <4>2
    <3> HIDE DEF h
    <3>2. h = [k \in 1..N |-> f[k]]
      BY DEF h
    <3> HIDE DEF N
    <3> QED  BY <3>1, <3>2
  <2> HIDE DEF h, Rec
  <2>4. flat = Rec(flat)
    BY <2>3, Zenon
  <2> HIDE DEF flat
  <2> DEFINE Good == {k \in Nat : k + 1 \in 1..N => flat[k + 1] = f[k + 1]}
  <2>5. \A k \in 1..N :
            flat[k] = IF k = 1 THEN s[k] ELSE flat[k - 1] \o s[k]
    <3> DEFINE G == flat
    <3>1. G = [k \in 1..N |-> IF k = 1 THEN s[k] ELSE G[k - 1] \o s[k]]
      BY <2>4 DEF Rec
    <3> HIDE DEF G
    <3> HIDE DEF N
    <3>2. \A k \in 1..N : G[k] = IF k = 1 THEN s[k] ELSE G[k - 1] \o s[k]
      BY ONLY <3>1, Zenon
    <3> QED  BY <3>2 DEF G
  <2>6. 0 \in Good
    <3>1. 0 + 1 = 1
      OBVIOUS
    <3> QED  BY <2>2, <2>5, <3>1
  <2>7. ASSUME NEW k \in Nat, k \in Good  PROVE k + 1 \in Good
    <3> SUFFICES ASSUME (k + 1) + 1 \in 1..N
                 PROVE  flat[(k + 1) + 1] = f[(k + 1) + 1]
      OBVIOUS
    <3>1. k + 1 \in 1..N /\ (k + 1) + 1 # 1 /\ ((k + 1) + 1) - 1 = k + 1
      BY <1>1
    <3>2. flat[(k + 1) + 1] = flat[k + 1] \o s[(k + 1) + 1]
      BY <2>5, <3>1
    <3>3. f[(k + 1) + 1] = f[k + 1] \o s[(k + 1) + 1]
      BY <1>2, <3>1 DEF Steps
    <3> QED  BY <2>7, <3>1, <3>2, <3>3
  <2> HIDE DEF Good
  <2>8. \A k \in Nat : k \in Good
    BY <2>6, <2>7, Climb
  <2>9. N - 1 \in Nat /\ (N - 1) + 1 = N /\ N \in 1..N
    BY <1>1, <1>4
  <2>10. flat[N] = f[N]
    BY <2>8, <2>9 DEF Good
  <2> QED  BY <1>2, <2>1, <2>10
<1> QED  BY <1>3, <1>4

(* Where each of them is.                                                  *)
Laid(f, s) ==
    \A k \in 1..Len(s) :
        /\ Len(f[k]) = Len(f[k - 1]) + Len(s[k])
        /\ Len(f[k]) <= Len(FlattenSeq(s))
        /\ \A j \in 1..Len(s[k]) :
            FlattenSeq(s)[Len(f[k - 1]) + j] = s[k][j]

(* Nothing that follows disturbs what was appended before.                 *)
LEMMA FlattenAt ==
    ASSUME NEW S, NEW s \in Seq(Seq(S)),
           NEW f \in [0..Len(s) -> Seq(S)], Steps(f, s, Len(s)),
           f[Len(s)] = FlattenSeq(s)
    PROVE  Laid(f, s)
<1> SUFFICES ASSUME NEW k \in 1..Len(s)
             PROVE  /\ Len(f[k]) = Len(f[k - 1]) + Len(s[k])
                    /\ Len(f[k]) <= Len(FlattenSeq(s))
                    /\ \A j \in 1..Len(s[k]) :
                        FlattenSeq(s)[Len(f[k - 1]) + j] = s[k][j]
  BY DEF Laid
<1>1. /\ k - 1 \in 0..Len(s) /\ k \in 0..Len(s) /\ k \in Nat
      /\ f[k] = f[k - 1] \o s[k]
      /\ f[k] \in Seq(S) /\ f[k - 1] \in Seq(S) /\ s[k] \in Seq(S)
  <2>1. k - 1 \in 0..Len(s) /\ k \in 0..Len(s) /\ k \in Nat
    OBVIOUS
  <2>2. s[k] \in Seq(S)
    OBVIOUS
  <2> QED  BY <2>1, <2>2 DEF Steps
<1>2. /\ Len(f[k]) = Len(f[k - 1]) + Len(s[k])
      /\ Len(f[k - 1]) \in Nat /\ Len(s[k]) \in Nat /\ Len(f[k]) \in Nat
      /\ \A j \in 1..Len(s[k]) : f[k][Len(f[k - 1]) + j] = s[k][j]
  <2> DEFINE a == f[k - 1]
             b == s[k]
             c == f[k]
  <2>1. a \in Seq(S) /\ b \in Seq(S) /\ c = a \o b
    BY <1>1
  <2> HIDE DEF a, b, c
  <2>2. /\ Len(c) = Len(a) + Len(b)
        /\ Len(a) \in Nat /\ Len(b) \in Nat /\ Len(c) \in Nat
        /\ \A j \in 1..Len(b) : c[Len(a) + j] = b[j]
    BY ONLY <2>1
  <2> QED  BY <2>2 DEF a, b, c
<1> DEFINE Good ==
        {d \in Nat : k + d <= Len(s) =>
            /\ Len(f[k]) <= Len(f[k + d])
            /\ \A m \in 1..Len(f[k]) : f[k + d][m] = f[k][m]}
<1>3. 0 \in Good
  <2>1. k + 0 = k /\ Len(f[k]) <= Len(f[k])
    BY <1>1, <1>2
  <2> QED  BY <2>1
<1>4. ASSUME NEW d \in Nat, d \in Good  PROVE d + 1 \in Good
  <2> SUFFICES ASSUME k + (d + 1) <= Len(s)
               PROVE  /\ Len(f[k]) <= Len(f[k + (d + 1)])
                      /\ \A m \in 1..Len(f[k]) : f[k + (d + 1)][m] = f[k][m]
    OBVIOUS
  <2> DEFINE e == k + d
  <2>1. /\ e \in 0..Len(s) /\ e + 1 \in 1..Len(s) /\ e + 1 \in 0..Len(s)
        /\ k + (d + 1) = e + 1 /\ (e + 1) - 1 = e /\ e <= Len(s)
    BY <1>1
  <2>2. Len(f[k]) <= Len(f[e]) /\ \A m \in 1..Len(f[k]) : f[e][m] = f[k][m]
    BY <1>4, <2>1
  <2> HIDE DEF e
  <2>3. f[e + 1] = f[e] \o s[e + 1] /\ f[e] \in Seq(S) /\ s[e + 1] \in Seq(S)
    <3>1. s[e + 1] \in Seq(S)
      BY <2>1
    <3> QED  BY <2>1, <3>1 DEF Steps
  <2>4. /\ Len(f[e + 1]) = Len(f[e]) + Len(s[e + 1])
        /\ Len(f[e]) \in Nat /\ Len(s[e + 1]) \in Nat
        /\ \A m \in 1..Len(f[e]) : f[e + 1][m] = f[e][m]
    <3> DEFINE a == f[e]
               b == s[e + 1]
               c == f[e + 1]
    <3>1. a \in Seq(S) /\ b \in Seq(S) /\ c = a \o b
      BY <2>3
    <3> HIDE DEF a, b, c
    <3>2. /\ Len(c) = Len(a) + Len(b)
          /\ Len(a) \in Nat /\ Len(b) \in Nat
          /\ \A m \in 1..Len(a) : c[m] = a[m]
      BY ONLY <3>1
    <3> QED  BY <3>2 DEF a, b, c
  <2>5. Len(f[k]) <= Len(f[e + 1]) /\ \A m \in 1..Len(f[k]) : m \in 1..Len(f[e])
    <3> DEFINE x == Len(f[k])
               y == Len(f[e])
               z == Len(f[e + 1])
               w == Len(s[e + 1])
    <3>1. x \in Nat /\ y \in Nat /\ w \in Nat /\ z = y + w /\ x <= y
      BY <1>2, <2>2, <2>4
    <3> HIDE DEF x, y, z, w
    <3>2. x <= z /\ \A m \in 1..x : m \in 1..y
      BY ONLY <3>1
    <3> QED  BY <3>2 DEF x, y, z
  <2> QED  BY <2>1, <2>2, <2>4, <2>5
<1> HIDE DEF Good
<1>5. \A d \in Nat : d \in Good
  BY <1>3, <1>4, Climb
<1>6. Len(s) - k \in Nat /\ k + (Len(s) - k) = Len(s)
  BY <1>1
<1>7. /\ Len(f[k]) <= Len(f[Len(s)])
      /\ \A m \in 1..Len(f[k]) : f[Len(s)][m] = f[k][m]
  <2>1. Len(s) - k \in Good
    BY <1>5, <1>6
  <2>2. Len(s) <= Len(s)
    OBVIOUS
  <2> QED  BY <1>6, <2>1, <2>2 DEF Good
<1>8. \A j \in 1..Len(s[k]) : Len(f[k - 1]) + j \in 1..Len(f[k])
  BY <1>1, <1>2
<1> QED  BY <1>2, <1>7, <1>8

(* Elements of two units, rounds of four.                                  *)
LEMMA Flattened ==
    ASSUME NEW S, NEW s \in Seq(Seq(S))
    PROVE  \E f \in [0..Len(s) -> Seq(S)] :
            /\ Steps(f, s, Len(s)) /\ Laid(f, s)
            /\ f[Len(s)] = FlattenSeq(s)
<1>1. PICK f \in [0..Len(s) -> Seq(S)] :
            Steps(f, s, Len(s)) /\ f[Len(s)] = FlattenSeq(s)
  BY FlattenSteps
<1>2. Laid(f, s)
  BY <1>1, FlattenAt, Zenon
<1> QED  BY <1>1, <1>2

(* Of members of one length, each is where a multiplication says.          *)
LEMMA FlattenEven ==
    ASSUME NEW S, NEW n \in {2, 4}, NEW s \in Seq(Seq(S)),
           \A k \in 1..Len(s) : Len(s[k]) = n
    PROVE  /\ FlattenSeq(s) \in Seq(S)
           /\ Len(FlattenSeq(s)) = n * Len(s)
           /\ \A k \in 1..Len(s), j \in 1..n :
                FlattenSeq(s)[(n * (k - 1)) + j] = s[k][j]
<1>1. PICK f \in [0..Len(s) -> Seq(S)] :
            /\ Steps(f, s, Len(s)) /\ Laid(f, s)
            /\ f[Len(s)] = FlattenSeq(s)
  BY Flattened, Zenon
<1>2. \A k \in 1..Len(s) :
        /\ Len(f[k]) = Len(f[k - 1]) + Len(s[k])
        /\ \A j \in 1..Len(s[k]) :
            FlattenSeq(s)[Len(f[k - 1]) + j] = s[k][j]
  BY <1>1 DEF Laid
<1> DEFINE Good == {k \in Nat : k <= Len(s) => Len(f[k]) = n * k}
<1>3. 0 \in Good
  <2>1. Len(f[0]) = 0 /\ n * 0 = 0
    BY <1>1 DEF Steps
  <2> QED  BY <2>1
<1>4. ASSUME NEW k \in Nat, k \in Good  PROVE k + 1 \in Good
  <2> SUFFICES ASSUME k + 1 <= Len(s)  PROVE Len(f[k + 1]) = n * (k + 1)
    OBVIOUS
  <2>1. k + 1 \in 1..Len(s) /\ (k + 1) - 1 = k /\ k <= Len(s)
    OBVIOUS
  <2>2. Len(f[k + 1]) = Len(f[k]) + n
    BY <1>2, <2>1
  <2>3. Len(f[k]) = n * k
    BY <1>4, <2>1
  <2>4. n * (k + 1) = (n * k) + n
    <3>1. CASE n = 2
      BY <3>1
    <3>2. CASE n = 4
      BY <3>2
    <3> QED  BY <3>1, <3>2
  <2> QED  BY <2>2, <2>3, <2>4
<1> HIDE DEF Good
<1>5. \A k \in Nat : k \in Good
  BY <1>3, <1>4, Climb
<1>6. \A k \in 0..Len(s) : Len(f[k]) = n * k
  <2>1. \A k \in 0..Len(s) : k \in Nat /\ k <= Len(s)
    OBVIOUS
  <2> QED  BY <1>5, <2>1 DEF Good
<1>7. FlattenSeq(s) \in Seq(S) /\ Len(FlattenSeq(s)) = n * Len(s)
  <2>1. Len(s) \in 0..Len(s)
    OBVIOUS
  <2> QED  BY <1>1, <1>6, <2>1
<1>8. ASSUME NEW k \in 1..Len(s), NEW j \in 1..n
      PROVE  FlattenSeq(s)[(n * (k - 1)) + j] = s[k][j]
  <2>1. k - 1 \in 0..Len(s)
    OBVIOUS
  <2>2. Len(f[k - 1]) = n * (k - 1)
    BY <1>6, <2>1
  <2>3. j \in 1..Len(s[k])
    OBVIOUS
  <2>4. FlattenSeq(s)[Len(f[k - 1]) + j] = s[k][j]
    BY <1>2, <2>3
  <2> QED  BY <2>2, <2>4
<1> QED  BY <1>7, <1>8

-----------------------------------------------------------------------------
(* The parts of fixed length.                                              *)
Rows == {"y_ldt", "y_dot", "y_quad_0", "y_quad_2", "nonce"}
Places ==
    {<<"root">>} \cup ({"hp"} \X Nat \X {0, 1} \X Nat \X {0, 2})
        \cup ({"wc"} \X Nat \X {0, 1}) \cup ((Rows \ {"nonce"}) \X Nat)
        \cup ({"nonce"} \X (1..NReq))
Zeros == {"hp"} \X Nat \X {0, 1} \X Nat \X {1}
PartSet == [places : Seq(Places), zero : SUBSET Zeros, need : Nat]

(* The assumptions, as the arithmetic below needs them.                    *)
LEMMA Sizes ==
    /\ Base \in Nat /\ Base >= 2 /\ Base * Base \in Nat
    /\ SizeRange \in Nat /\ Base <= SizeRange
    /\ Modulus \in Nat /\ Modulus <= Base * Base
    /\ MaxRunLen \in Nat /\ 2 * MaxRunLen <= SizeRange /\ MaxRunLen <= Base
    /\ MaxNumDigests \in Nat /\ 2 * MaxNumDigests <= SizeRange
    /\ NReq \in Nat /\ NReq >= 1 /\ NRow \in Nat /\ NRow >= 1
    /\ Total \in Nat /\ Total >= 1 /\ Total < MaxRunLen
    /\ Block \in Nat /\ DBlock \in Nat /\ R \in Nat /\ DBlock - Block \in Nat
    /\ Logw \in Seq(Nat)
<1>1. Total \in Nat /\ Total >= 1
  <2>1. NReq \in Nat /\ NReq >= 1 /\ NRow \in Nat /\ NRow >= 1
    BY CodecAssumption, LeavesAssumption
  <2> QED  BY <2>1 DEF Total
<1>2. Base * Base \in Nat
  BY CodecAssumption
<1> QED
  BY <1>1, <1>2, CodecAssumption, ContentsAssumption, LeavesAssumption DEF Total

(* Writer and reader go over a round in one order, whatever their loops    *)
(* look like: the first hazard of two halves written by hand.              *)
LEMMA RoundIs ==
    ASSUME NEW l \in Nat, NEW wi \in Nat
    PROVE  /\ ReadRound(l, wi) = WriteRound(l, wi)
           /\ WriteRound(l, wi) \in Seq(Places)
           /\ Len(WriteRound(l, wi)) = 4
<1>1. WriteRound(l, wi) \in Seq(Places) /\ Len(WriteRound(l, wi)) = 4
  BY DEF WriteRound, Places
<1>2. ASSUME NEW n \in 1..4  PROVE ReadRound(l, wi)[n] = WriteRound(l, wi)[n]
  <2>1. CASE n = 1
    BY <2>1 DEF ReadRound, WriteRound
  <2>2. CASE n = 2
    BY <2>2 DEF ReadRound, WriteRound
  <2>3. CASE n = 3
    BY <2>3 DEF ReadRound, WriteRound
  <2>4. CASE n = 4
    BY <2>4 DEF ReadRound, WriteRound
  <2> QED  BY <2>1, <2>2, <2>3, <2>4
<1>3. ReadRound(l, wi) = WriteRound(l, wi)
  <2>1. ReadRound(l, wi) = [n \in 1..4 |-> ReadRound(l, wi)[n]]
    BY DEF ReadRound
  <2>2. WriteRound(l, wi) = [n \in 1..4 |-> WriteRound(l, wi)[n]]
    BY DEF WriteRound
  <2> QED  BY <1>2, <2>1, <2>2
<1> QED  BY <1>1, <1>3

(* So they do for a layer, and the reader asks for as many bytes.          *)
LEMMA LayerIs ==
    ASSUME NEW l \in DOMAIN Logw
    PROVE  /\ ReadLayer(l).places = WriteLayer(l)
           /\ ReadLayer(l) \in PartSet
           /\ ReadLayer(l).need = kBytes * Len(ReadLayer(l).places)
<1> DEFINE rounds == [wi \in 1..Logw[l] |-> WriteRound(l, wi)]
           flat == FlattenSeq(rounds)
           ends == <<<<"wc", l, 0>>, <<"wc", l, 1>>>>
<1>1. l \in Nat /\ Logw[l] \in Nat
  BY Sizes
<1>2. /\ rounds \in Seq(Seq(Places)) /\ Len(rounds) = Logw[l]
      /\ \A wi \in 1..Len(rounds) : Len(rounds[wi]) = 4
  <2>1. \A wi \in 1..Logw[l] :
            /\ WriteRound(l, wi) \in Seq(Places)
            /\ Len(WriteRound(l, wi)) = 4
    BY <1>1, RoundIs
  <2> QED  BY <1>1, <2>1
<1>3. rounds = [wi \in 1..Logw[l] |-> ReadRound(l, wi)]
  <2>1. \A wi \in 1..Logw[l] : ReadRound(l, wi) = WriteRound(l, wi)
    BY <1>1, RoundIs
  <2> QED  BY <2>1
<1> HIDE DEF rounds
<1>4. flat \in Seq(Places) /\ Len(flat) = 4 * Logw[l]
  BY <1>2, FlattenEven
<1>5. ends \in Seq(Places) /\ Len(ends) = 2
  BY <1>1 DEF Places
<1>6. ReadLayer(l).places = flat \o ends /\ WriteLayer(l) = flat \o ends
  <2>1. WriteLayer(l) = flat \o ends
    BY Zenon DEF WriteLayer, rounds
  <2>2. ReadLayer(l).places =
            FlattenSeq([wi \in 1..Logw[l] |-> ReadRound(l, wi)]) \o ends
    BY DEF ReadLayer
  <2> HIDE DEF ends
  <2> QED  BY <1>3, <2>1, <2>2
<1>7. /\ ReadLayer(l).need = 2 * ((4 * Logw[l]) + 2)
      /\ ReadLayer(l).need \in Nat
  BY <1>1 DEF ReadLayer, RoundNeed, kBytes
<1>8. ReadLayer(l).zero \subseteq Zeros
  BY <1>1 DEF ReadLayer, Zeros
<1> HIDE DEF flat, ends
<1>9. flat \o ends \in Seq(Places) /\ Len(flat \o ends) = (4 * Logw[l]) + 2
  <2> DEFINE n == 4 * Logw[l]
  <2>1. n \in Nat /\ Len(flat) = n
    BY <1>1, <1>4
  <2> HIDE DEF n
  <2>2. Len(flat \o ends) = n + 2 /\ flat \o ends \in Seq(Places)
    <3>1. flat \o ends \in Seq(Places) /\ Joins(flat, ends, flat \o ends)
      BY <1>4, <1>5, Joined, Zenon
    <3> QED  BY <1>5, <2>1, <3>1 DEF Joins
  <2> QED  BY <2>2 DEF n
<1>10. ReadLayer(l) = [places |-> ReadLayer(l).places, zero |-> ReadLayer(l).zero,
                       need |-> ReadLayer(l).need]
  BY DEF ReadLayer
<1> QED  BY <1>6, <1>7, <1>8, <1>9, <1>10 DEF PartSet, kBytes

(* And for each row of elements or nonces.                                 *)
LEMMA RowIs ==
    ASSUME NEW name \in Rows, NEW n \in Nat, name = "nonce" => n = NReq
    PROVE  /\ ReadRow(name, n).places = Row(name, n)
           /\ ReadRow(name, n) \in PartSet
           /\ Row(name, n) \in Seq(Places) /\ Len(Row(name, n)) = n
           /\ ReadRow(name, n).need = kBytes * Len(ReadRow(name, n).places)
<1>1. Row(name, n) \in Seq(Places) /\ Len(Row(name, n)) = n
  <2>1. \A k \in 1..n : <<name, k>> \in Places
    BY DEF Places
  <2> QED  BY <2>1 DEF Row
<1> QED  BY <1>1 DEF ReadRow, PartSet, kBytes

RootPart == [places |-> <<<<"root">>>>, zero |-> {}, need |-> kBytes]

(* The parts one by one, and that their sizes do not wrap around.          *)
LEMMA PartsAre ==
    LET L == Len(Logw) IN
    /\ L \in Nat
    /\ Parts \in Seq(PartSet) /\ Len(Parts) = L + 6
    /\ Parts[1] = RootPart
    /\ \A l \in 1..L : Parts[l + 1] = ReadLayer(l)
    /\ Parts[L + 2] = ReadRow("y_ldt", Block)
    /\ Parts[L + 3] = ReadRow("y_dot", DBlock)
    /\ Parts[L + 4] = ReadRow("y_quad_0", R)
    /\ Parts[L + 5] = ReadRow("y_quad_2", DBlock - Block)
    /\ Parts[L + 6] = ReadRow("nonce", NReq)
    /\ \A n \in 1..L + 6 :
        /\ Parts[n] \in PartSet
        /\ Parts[n].need = kBytes * Len(Parts[n].places)
        /\ Parts[n].need < SizeRange
<1> DEFINE L == Len(Logw)
           root == <<RootPart>>
           mid == [l \in DOMAIN Logw |-> ReadLayer(l)]
           rows == <<ReadRow("y_ldt", Block), ReadRow("y_dot", DBlock),
                     ReadRow("y_quad_0", R), ReadRow("y_quad_2", DBlock - Block),
                     ReadRow("nonce", NReq)>>
<1>1. L \in Nat /\ DOMAIN Logw = 1..L
  BY Sizes
<1>2. RootPart \in PartSet /\ root \in Seq(PartSet) /\ Len(root) = 1
  BY DEF RootPart, PartSet, Places, kBytes
<1>3. mid \in Seq(PartSet) /\ Len(mid) = L /\ \A l \in 1..L : mid[l] = ReadLayer(l)
  BY <1>1, LayerIs
<1>4. /\ ReadRow("y_ldt", Block) \in PartSet
      /\ ReadRow("y_dot", DBlock) \in PartSet
      /\ ReadRow("y_quad_0", R) \in PartSet
      /\ ReadRow("y_quad_2", DBlock - Block) \in PartSet
      /\ ReadRow("nonce", NReq) \in PartSet
  BY Sizes, RowIs DEF Rows
<1>5. rows \in Seq(PartSet) /\ Len(rows) = 5
  BY <1>4
<1>6. Parts = (root \o mid) \o rows
  BY DEF Parts, RootPart
<1>7. /\ root[1] = RootPart
      /\ rows[1] = ReadRow("y_ldt", Block) /\ rows[2] = ReadRow("y_dot", DBlock)
      /\ rows[3] = ReadRow("y_quad_0", R)
      /\ rows[4] = ReadRow("y_quad_2", DBlock - Block)
      /\ rows[5] = ReadRow("nonce", NReq)
  OBVIOUS
<1> HIDE DEF root, mid, rows, L
<1>8. /\ Parts \in Seq(PartSet) /\ Len(Parts) = L + 6
      /\ Parts[1] = root[1]
      /\ \A l \in 1..L : Parts[l + 1] = mid[l]
      /\ Parts[L + 2] = rows[1] /\ Parts[L + 3] = rows[2]
      /\ Parts[L + 4] = rows[3] /\ Parts[L + 5] = rows[4]
      /\ Parts[L + 6] = rows[5]
  <2> DEFINE both == root \o mid
  <2>1. /\ both \in Seq(PartSet) /\ Len(both) = L + 1
        /\ both[1] = root[1]
        /\ \A l \in 1..L : both[l + 1] = mid[l]
    <3>1. /\ both \in Seq(PartSet) /\ Len(both) = 1 + L
          /\ \A m \in 1..1 : both[m] = root[m]
          /\ \A m \in 1..L : both[1 + m] = mid[m]
      <4>1. both \in Seq(PartSet) /\ Joins(root, mid, both)
        BY <1>2, <1>3, Joined, Zenon
      <4> QED  BY <1>2, <1>3, <4>1 DEF Joins
    <3>2. 1 + L = L + 1 /\ 1 \in 1..1 /\ \A l \in 1..L : 1 + l = l + 1
      BY <1>1
    <3> QED  BY <3>1, <3>2
  <2> HIDE DEF both
  <2>2. Parts = both \o rows
    BY <1>6 DEF both
  <2>3. /\ Parts \in Seq(PartSet) /\ Len(Parts) = L + 6
        /\ \A n \in 1..L + 1 : Parts[n] = both[n]
        /\ \A n \in 1..5 : Parts[(L + 1) + n] = rows[n]
    <3>1. /\ Parts \in Seq(PartSet) /\ Len(Parts) = (L + 1) + 5
          /\ \A n \in 1..L + 1 : Parts[n] = both[n]
          /\ \A n \in 1..5 : Parts[(L + 1) + n] = rows[n]
      <4>1. Parts \in Seq(PartSet) /\ Joins(both, rows, Parts)
        BY <1>5, <2>1, <2>2, Joined, Zenon
      <4> QED  BY <1>5, <2>1, <4>1 DEF Joins
    <3>2. (L + 1) + 5 = L + 6
      BY <1>1
    <3> QED  BY <3>1, <3>2
  <2>4. 1 \in 1..L + 1 /\ \A l \in 1..L : l + 1 \in 1..L + 1
    BY <1>1
  <2>5. /\ Parts[(L + 1) + 1] = rows[1] /\ Parts[(L + 1) + 2] = rows[2]
        /\ Parts[(L + 1) + 3] = rows[3] /\ Parts[(L + 1) + 4] = rows[4]
        /\ Parts[(L + 1) + 5] = rows[5]
    BY <2>3
  <2>6. /\ (L + 1) + 1 = L + 2 /\ (L + 1) + 2 = L + 3 /\ (L + 1) + 3 = L + 4
        /\ (L + 1) + 4 = L + 5 /\ (L + 1) + 5 = L + 6
    BY <1>1
  <2> QED  BY <2>1, <2>3, <2>4, <2>5, <2>6
<1>9. ASSUME NEW n \in 1..L + 6
      PROVE  /\ Parts[n] \in PartSet
             /\ Parts[n].need = kBytes * Len(Parts[n].places)
             /\ Parts[n].need < SizeRange
  <2>1. Parts[n] \in PartSet
    BY <1>8
  <2>2. Parts[n].need = kBytes * Len(Parts[n].places)
    <3>1. CASE n = 1
      <4>1. RootPart.need = kBytes * Len(RootPart.places)
        BY DEF RootPart, kBytes
      <4> QED  BY <1>7, <1>8, <3>1, <4>1
    <3>2. CASE n \in 2..L + 1
      <4>1. n - 1 \in 1..L /\ (n - 1) + 1 = n
        BY <1>1, <3>2
      <4>2. Parts[n] = ReadLayer(n - 1)
        BY <1>3, <1>8, <4>1
      <4> QED  BY <1>1, <4>1, <4>2, LayerIs
    <3>3. CASE n \in L + 2..L + 6
      <4>1. n = L + 2 \/ n = L + 3 \/ n = L + 4 \/ n = L + 5 \/ n = L + 6
        BY <1>1, <3>3
      <4>2. ReadRow("y_ldt", Block).need = kBytes * Len(ReadRow("y_ldt", Block).places)
        BY Sizes, RowIs DEF Rows
      <4>3. ReadRow("y_dot", DBlock).need = kBytes * Len(ReadRow("y_dot", DBlock).places)
        BY Sizes, RowIs DEF Rows
      <4>4. ReadRow("y_quad_0", R).need = kBytes * Len(ReadRow("y_quad_0", R).places)
        BY Sizes, RowIs DEF Rows
      <4>5. ReadRow("y_quad_2", DBlock - Block).need =
                kBytes * Len(ReadRow("y_quad_2", DBlock - Block).places)
        BY Sizes, RowIs DEF Rows
      <4>6. ReadRow("nonce", NReq).need = kBytes * Len(ReadRow("nonce", NReq).places)
        BY Sizes, RowIs DEF Rows
      <4> QED  BY <1>7, <1>8, <4>1, <4>2, <4>3, <4>4, <4>5, <4>6
    <3> QED  BY <1>1, <3>1, <3>2, <3>3
  <2>3. kBytes * Len(Parts[n].places) < SizeRange
    BY <1>8, PartsAssumption
  <2> QED  BY <2>1, <2>2, <2>3
<1> QED  BY <1>1, <1>3, <1>7, <1>8, <1>9 DEF L

-----------------------------------------------------------------------------
(* A value of two units.                                                   *)
Values == 0..Base * Base - 1

(* Two units make a value below Base * Base.                               *)
LEMMA TwoUnits ==
    ASSUME NEW a \in Units, NEW b \in Units
    PROVE  a + (Base * b) \in Values
<1>1. a \in Nat /\ b \in Nat /\ Base \in Nat /\ a + 1 <= Base /\ b + 1 <= Base
  BY Sizes DEF Units
<1>2. Base * (b + 1) <= Base * Base
  BY <1>1
<1>3. Base * (b + 1) = (Base * b) + Base
  BY <1>1
<1>4. Base * b \in Nat /\ Base * Base \in Nat
  BY <1>1
<1> QED  BY <1>1, <1>2, <1>3, <1>4 DEF Values

(* What Bytes makes of a value gives it back.                              *)
LEMMA BytesAre ==
    ASSUME NEW v \in Values
    PROVE  /\ Bytes(v) \in Seq(Units) /\ Len(Bytes(v)) = 2
           /\ Bytes(v)[1] + (Base * Bytes(v)[2]) = v
<1> DEFINE q == v \div Base
           m == v % Base
<1>1. v \in Nat /\ Base \in Nat /\ Base >= 2 /\ v < Base * Base
  BY Sizes DEF Values
<1>2. q \in Nat /\ m \in Nat /\ m < Base /\ v = m + (Base * q)
  BY <1>1
<1> HIDE DEF q, m
<1>3. q < Base
  <2> SUFFICES ASSUME q >= Base  PROVE FALSE
    BY <1>1, <1>2
  <2>1. Base * q >= Base * Base
    BY <1>1, <1>2
  <2>2. Base * q \in Nat /\ Base * Base \in Nat
    BY <1>1, <1>2
  <2> QED  BY <1>1, <1>2, <2>1, <2>2
<1>4. Bytes(v) = <<m, q>>
  BY DEF Bytes, m, q
<1>5. m \in Units /\ q \in Units
  BY <1>1, <1>2, <1>3 DEF Units
<1>6. <<m, q>> \in Seq(Units) /\ Len(<<m, q>>) = 2
  BY <1>5
<1>7. Bytes(v)[1] = m /\ Bytes(v)[2] = q
  BY <1>4
<1> QED  BY <1>2, <1>4, <1>6, <1>7, Zenon

(* Two units tell their value.                                             *)
LEMMA UnitsTell ==
    ASSUME NEW a \in Units, NEW b \in Units, NEW v \in Values,
           Bytes(v) = <<a, b>>
    PROVE  a + (Base * b) = v
  BY BytesAre

(* The two runs of a proof: an empty one of full elements, and all of the  *)
(* elements.                                                               *)
Run(elts, ci, n) ==
    <<n>> \o FlattenSeq([k \in 1..n |-> Bytes(elts[ci + k - 1])])

(* All elements being of the subfield, a run of others is empty, and one   *)
(* of theirs goes to the end.                                              *)
LEMMA RunLens ==
    ASSUME NEW elts, NEW ci \in 0..Total - 1
    PROVE  /\ RunLen(elts, ci, FALSE) = 0
           /\ RunLen(elts, ci, TRUE) = Total - ci
<1>1. /\ Total \in Nat /\ ci \in Nat /\ ci < Total /\ Total - ci \in Nat
      /\ MaxRunLen \in Nat /\ Total < MaxRunLen
  BY Sizes
<1> HIDE DEF Total
<1>2. RunLen(elts, ci, FALSE) = 0
  <2> DEFINE P(n) == /\ n <= MaxRunLen
                     /\ \A k \in ci..ci + n - 1 : InSubfield(elts[k]) = FALSE
                     /\ \/ n = MaxRunLen \/ ci + n = Total
                        \/ InSubfield(elts[ci + n]) # FALSE
  <2>1. 0 \in 0..Total - ci /\ P(0)
    BY <1>1 DEF InSubfield
  <2>2. ASSUME NEW n \in 0..Total - ci, P(n)  PROVE n = 0
    <3> SUFFICES ASSUME n # 0  PROVE FALSE
      OBVIOUS
    <3>1. ci \in ci..ci + n - 1
      BY <1>1
    <3> QED  BY <2>2, <3>1 DEF InSubfield
  <2>3. RunLen(elts, ci, FALSE) = CHOOSE n \in 0..Total - ci : P(n)
    BY Zenon DEF RunLen
  <2> HIDE DEF P
  <2> QED  BY <2>1, <2>2, <2>3
<1>3. RunLen(elts, ci, TRUE) = Total - ci
  <2> DEFINE P(n) == /\ n <= MaxRunLen
                     /\ \A k \in ci..ci + n - 1 : InSubfield(elts[k]) = TRUE
                     /\ \/ n = MaxRunLen \/ ci + n = Total
                        \/ InSubfield(elts[ci + n]) # TRUE
  <2>1. Total - ci \in 0..Total - ci /\ P(Total - ci)
    BY <1>1 DEF InSubfield
  <2>2. ASSUME NEW n \in 0..Total - ci, P(n)  PROVE n = Total - ci
    BY <1>1, <2>2 DEF InSubfield
  <2>3. RunLen(elts, ci, TRUE) = CHOOSE n \in 0..Total - ci : P(n)
    BY Zenon DEF RunLen
  <2> HIDE DEF P
  <2> QED  BY <2>1, <2>2, <2>3
<1> QED  BY <1>2, <1>3

(* Hence write_com_proof writes two runs.                                  *)
LEMMA RunsAre ==
    ASSUME NEW elts
    PROVE  WriteRuns(elts) = Run(elts, 0, 0) \o (Run(elts, 0, Total) \o <<>>)
<1> DEFINE RunSet == [ci : 0..Total, subfield : BOOLEAN]
           Rec(g) ==
            [r \in RunSet |->
                IF r.ci = Total THEN <<>>
                ELSE Run(elts, r.ci, RunLen(elts, r.ci, r.subfield))
                    \o g[[ci |-> r.ci + RunLen(elts, r.ci, r.subfield),
                          subfield |-> ~r.subfield]]]
           runs == CHOOSE g : g = Rec(g)
           all(ci) == Run(elts, ci, Total - ci) \o <<>>
           h == [r \in RunSet |->
                    IF r.ci = Total THEN <<>>
                    ELSE IF r.subfield THEN all(r.ci)
                    ELSE Run(elts, r.ci, 0) \o all(r.ci)]
           At(c, b) == [ci |-> c, subfield |-> b]
<1>1. Total \in Nat /\ Total >= 1
  BY Sizes
<1>2. WriteRuns(elts) = runs[At(0, FALSE)]
  BY Zenon DEF WriteRuns, Run
<1> HIDE DEF Total, all
<1>3. ASSUME NEW r \in RunSet
      PROVE  h[r] = IF r.ci = Total THEN <<>>
                    ELSE Run(elts, r.ci, RunLen(elts, r.ci, r.subfield))
                        \o h[[ci |-> r.ci + RunLen(elts, r.ci, r.subfield),
                              subfield |-> ~r.subfield]]
  <2>1. r.ci \in 0..Total /\ r.subfield \in BOOLEAN
    OBVIOUS
  <2>2. CASE r.ci = Total
    BY <2>2
  <2>3. CASE r.ci # Total /\ r.subfield
    <3>1. r.ci \in 0..Total - 1 /\ r.subfield = TRUE
      BY <1>1, <2>1, <2>3
    <3>2. RunLen(elts, r.ci, r.subfield) = Total - r.ci
      BY <3>1, RunLens
    <3>3. r.ci + (Total - r.ci) = Total /\ Total \in 0..Total
      BY <1>1, <2>1
    <3>4. h[[ci |-> Total, subfield |-> ~r.subfield]] = <<>>
      BY <2>1, <3>3
    <3> QED  BY <2>3, <3>2, <3>3, <3>4 DEF all
  <2>4. CASE r.ci # Total /\ ~r.subfield
    <3>1. r.ci \in 0..Total - 1 /\ r.subfield = FALSE
      BY <1>1, <2>1, <2>4
    <3>2. RunLen(elts, r.ci, r.subfield) = 0
      BY <3>1, RunLens
    <3>3. r.ci + 0 = r.ci
      BY <2>1
    <3>4. h[[ci |-> r.ci, subfield |-> ~r.subfield]] = all(r.ci)
      BY <2>1, <2>4
    <3> QED  BY <2>4, <3>2, <3>3, <3>4
  <2> QED  BY <2>2, <2>3, <2>4
<1>4. h = Rec(h)
  <2>1. h = [r \in RunSet |-> h[r]]
    OBVIOUS
  <2> HIDE DEF h, RunSet
  <2> QED  BY <1>3, <2>1
<1> HIDE DEF h
<1>5. runs = Rec(runs)
  <2> HIDE DEF Rec
  <2> QED  BY <1>4, Zenon
<1> HIDE DEF runs
<1>6. \A r \in RunSet :
        runs[r] = IF r.ci = Total THEN <<>>
                  ELSE Run(elts, r.ci, RunLen(elts, r.ci, r.subfield))
                    \o runs[[ci |-> r.ci + RunLen(elts, r.ci, r.subfield),
                             subfield |-> ~r.subfield]]
  <2> HIDE DEF RunSet
  <2> QED  BY ONLY <1>5, Zenon
<1>7. /\ At(0, FALSE) \in RunSet /\ At(0, TRUE) \in RunSet
      /\ At(Total, FALSE) \in RunSet
  BY <1>1
<1>8. RunLen(elts, 0, FALSE) = 0 /\ RunLen(elts, 0, TRUE) = Total
  <2>1. 0 \in 0..Total - 1 /\ Total - 0 = Total
    BY <1>1
  <2> QED  BY <2>1, RunLens
<1>9. runs[At(Total, FALSE)] = <<>>
  BY <1>6, <1>7
<1>10. runs[At(0, TRUE)] = Run(elts, 0, Total) \o runs[At(Total, FALSE)]
  <2>1. 0 + Total = Total /\ 0 # Total
    BY <1>1
  <2> QED  BY <1>6, <1>7, <1>8, <2>1
<1>11. runs[At(0, FALSE)] = Run(elts, 0, 0) \o runs[At(0, TRUE)]
  <2>1. 0 + 0 = 0 /\ 0 # Total
    BY <1>1
  <2> QED  BY <1>6, <1>7, <1>8, <2>1
<1> QED  BY <1>2, <1>9, <1>10, <1>11

-----------------------------------------------------------------------------
(* What comes first is what the parts say, one after the other.            *)
PartPlaces == [n \in 1..Len(Parts) |-> Parts[n].places]

Follows(f) ==
    /\ f \in [0..Len(Parts) -> Seq(Places)]
    /\ Steps(f, PartPlaces, Len(Parts)) /\ Laid(f, PartPlaces)
    /\ f[Len(Parts)] = FlattenSeq(PartPlaces)

(* The writer's places are those of the parts, in their order.             *)
LEMMA PartsFollow ==
    /\ \E f : Follows(f)
    /\ \A f : Follows(f) => f[Len(Parts)] = WrittenFirst
<1> DEFINE L == Len(Logw)
<1>1. /\ L \in Nat /\ Len(Parts) = L + 6
      /\ \A n \in 1..L + 6 : Parts[n] \in PartSet
  BY PartsAre
<1>2. PartPlaces \in Seq(Seq(Places)) /\ Len(PartPlaces) = L + 6
  <2>1. \A n \in 1..L + 6 : Parts[n].places \in Seq(Places)
    BY <1>1 DEF PartSet
  <2> QED  BY <1>1, <2>1 DEF PartPlaces
<1>3. \E f : Follows(f)
  BY <1>1, <1>2, Flattened DEF Follows
<1>4. ASSUME NEW f, Follows(f)  PROVE f[Len(Parts)] = WrittenFirst
  <2> DEFINE layers_ == [l \in DOMAIN Logw |-> WriteLayer(l)]
             root == <<<<"root">>>>
  <2>1. /\ layers_ \in Seq(Seq(Places)) /\ Len(layers_) = L
        /\ \A l \in 1..L : layers_[l] = WriteLayer(l)
    <3>1. DOMAIN Logw = 1..L
      BY Sizes
    <3>2. \A l \in 1..L : WriteLayer(l) \in Seq(Places)
      BY <3>1, LayerIs DEF PartSet
    <3> QED  BY <1>1, <3>1, <3>2
  <2>2. PICK g \in [0..L -> Seq(Places)] :
            Steps(g, layers_, L) /\ g[L] = FlattenSeq(layers_)
    <3>1. \E g \in [0..Len(layers_) -> Seq(Places)] :
            /\ Steps(g, layers_, Len(layers_)) /\ Laid(g, layers_)
            /\ g[Len(layers_)] = FlattenSeq(layers_)
      BY <2>1, Flattened, Zenon
    <3> QED  BY <2>1, <3>1
  <2>3. /\ f[0] = <<>>
        /\ \A n \in 1..L + 6 : f[n] = f[n - 1] \o Parts[n].places
    BY <1>1, <1>4 DEF Follows, Steps, PartPlaces
  <2>4. \A n \in 0..L + 6 : f[n] \in Seq(Places)
    BY <1>1, <1>4 DEF Follows
  <2>5. root \in Seq(Places)
    BY DEF Places
  <2> HIDE DEF root, layers_
  <2>6. f[1] = root
    <3>1. f[1] = f[0] \o Parts[1].places
      <4>1. 1 \in 1..L + 6 /\ 1 - 1 = 0
        BY <1>1
      <4> HIDE DEF L
      <4> QED  BY <2>3, <4>1
    <3>2. Parts[1].places = root
      BY PartsAre DEF RootPart, root
    <3> QED  BY <2>3, <2>5, <3>1, <3>2
  <2> DEFINE Good == {l \in Nat : l <= L => f[l + 1] = root \o g[l]}
  <2>7. 0 \in Good
    BY <2>2, <2>5, <2>6 DEF Steps
  <2>8. ASSUME NEW l \in Nat, l \in Good  PROVE l + 1 \in Good
    <3> SUFFICES ASSUME l + 1 <= L  PROVE f[(l + 1) + 1] = root \o g[l + 1]
      OBVIOUS
    <3>1. /\ l + 1 \in 1..L /\ (l + 1) - 1 = l /\ l <= L /\ l \in 0..L
          /\ (l + 1) + 1 \in 1..L + 6 /\ ((l + 1) + 1) - 1 = l + 1
      BY <1>1
    <3>2. f[(l + 1) + 1] = f[l + 1] \o Parts[(l + 1) + 1].places
      BY <2>3, <3>1
    <3>3. Parts[(l + 1) + 1].places = layers_[l + 1]
      <4>1. l + 1 \in DOMAIN Logw
        BY <3>1, Sizes
      <4>2. Parts[(l + 1) + 1] = ReadLayer(l + 1)
        BY <3>1, PartsAre
      <4>3. ReadLayer(l + 1).places = WriteLayer(l + 1)
        BY <4>1, LayerIs
      <4> QED  BY <2>1, <3>1, <4>2, <4>3
    <3>4. g[l + 1] = g[l] \o layers_[l + 1]
      BY <2>2, <3>1 DEF Steps
    <3>5. f[l + 1] = root \o g[l]
      BY <2>8, <3>1
    <3>6. g[l] \in Seq(Places) /\ layers_[l + 1] \in Seq(Places)
      <4>1. g[l] \in Seq(Places)
        BY <2>2, <3>1
      <4>2. layers_[l + 1] \in Seq(Places)
        <5> HIDE DEF L
        <5>1. l + 1 \in 1..Len(layers_)
          BY <2>1, <3>1
        <5> QED  BY <2>1, <5>1
      <4> QED  BY <4>1, <4>2
    <3>7. (root \o g[l]) \o layers_[l + 1] = root \o (g[l] \o layers_[l + 1])
      <4> DEFINE a == g[l]
                 b == layers_[l + 1]
      <4>1. a \in Seq(Places) /\ b \in Seq(Places)
        BY <3>6
      <4> HIDE DEF a, b
      <4>2. (root \o a) \o b = root \o (a \o b)
        BY ONLY <2>5, <4>1
      <4> QED  BY <4>2 DEF a, b
    <3> QED  BY <3>2, <3>3, <3>4, <3>5, <3>7
  <2> HIDE DEF Good
  <2>9. \A l \in Nat : l \in Good
    BY <2>7, <2>8, Climb
  <2>10. f[L + 1] = root \o FlattenSeq(layers_)
    <3>1. L <= L
      BY <1>1
    <3> QED  BY <1>1, <2>2, <2>9, <3>1 DEF Good
  <2>11. /\ Parts[L + 2].places = Row("y_ldt", Block)
         /\ Parts[L + 3].places = Row("y_dot", DBlock)
         /\ Parts[L + 4].places = Row("y_quad_0", R)
         /\ Parts[L + 5].places = Row("y_quad_2", DBlock - Block)
         /\ Parts[L + 6].places = Row("nonce", NReq)
    BY PartsAre DEF ReadRow
  <2>12. /\ f[L + 2] = f[L + 1] \o Parts[L + 2].places
         /\ f[L + 3] = f[L + 2] \o Parts[L + 3].places
         /\ f[L + 4] = f[L + 3] \o Parts[L + 4].places
         /\ f[L + 5] = f[L + 4] \o Parts[L + 5].places
         /\ f[L + 6] = f[L + 5] \o Parts[L + 6].places
    <3>1. /\ L + 2 \in 1..L + 6 /\ (L + 2) - 1 = L + 1
          /\ L + 3 \in 1..L + 6 /\ (L + 3) - 1 = L + 2
          /\ L + 4 \in 1..L + 6 /\ (L + 4) - 1 = L + 3
          /\ L + 5 \in 1..L + 6 /\ (L + 5) - 1 = L + 4
          /\ L + 6 \in 1..L + 6 /\ (L + 6) - 1 = L + 5
      BY <1>1
    <3> HIDE DEF L
    <3> QED  BY <2>3, <3>1
  <2>13. WrittenFirst =
            (((((root \o FlattenSeq(layers_)) \o Row("y_ldt", Block))
                \o Row("y_dot", DBlock)) \o Row("y_quad_0", R))
                \o Row("y_quad_2", DBlock - Block)) \o Row("nonce", NReq)
    BY Zenon DEF WrittenFirst, root, layers_
  <2> QED  BY <1>1, <2>10, <2>11, <2>12, <2>13
<1> QED  BY <1>3, <1>4

LEMMA FirstTyped == WrittenFirst \in Seq(Places) /\ Len(WrittenFirst) \in Nat
<1>1. PICK f : Follows(f)
  BY PartsFollow
<1>2. Len(Parts) \in 0..Len(Parts)
  BY PartsAre
<1> QED  BY <1>1, <1>2, PartsFollow DEF Follows

-----------------------------------------------------------------------------
(* What is written at a place reads back.                                  *)
LEMMA DigestsRead ==
    ASSUME NEW d \in Digests
    PROVE  \E v \in Values : DigestBytes(d) = Bytes(v) /\ DigestOf(v) = d
<1>1. Nodes \subseteq Values
  BY Numbers, Sizes, ContentsAssumption DEF Nodes, Values
<1>2. CASE \E k \in Nodes : layers[k] = d
  <2> DEFINE k == CHOOSE k \in Nodes : layers[k] = d
  <2>1. k \in Nodes /\ layers[k] = d
    BY <1>2
  <2>2. DigestBytes(d) = Bytes(k)
    BY <1>2 DEF DigestBytes
  <2> HIDE DEF k
  <2> QED  BY <1>1, <2>1, <2>2 DEF DigestOf
<1>3. CASE ~ \E k \in Nodes : layers[k] = d
  <2>1. PICK v \in (0..Base * Base - 1) \ Nodes : d = <<"foreign", v>>
    BY <1>3, ContentsAssumption DEF Digests
  <2>2. DigestBytes(d) = Bytes(v)
    BY <1>3, <2>1 DEF DigestBytes
  <2> QED  BY <2>1, <2>2 DEF DigestOf, Values
<1> QED  BY <1>2, <1>3

Exempt == {"root", "nonce"}

(* What is held at a place is a value the reader takes there.              *)
LEMMA HeldReads ==
    ASSUME NEW o \in Openings, NEW k \in DOMAIN WrittenFirst
    PROVE  \E v \in Values :
            /\ Held(WrittenFirst[k], o) = Bytes(v)
            /\ WrittenFirst[k][1] \in Exempt \/ v < Modulus
<1> DEFINE place == WrittenFirst[k]
<1>1. place \in Places
  BY FirstTyped
<1>2. CASE place[1] = "root"
  <2>1. layers[1] \in Digests
    <3>1. 1 \in Nodes
      BY Numbers DEF Nodes
    <3> QED  BY <3>1 DEF Digests
  <2>2. Held(place, o) = DigestBytes(layers[1])
    BY <1>2, Zenon DEF Held
  <2> QED  BY <1>2, <2>1, <2>2, DigestsRead DEF Exempt
<1>3. CASE place[1] = "nonce"
  <2>1. place[2] \in 1..NReq
    BY <1>1, <1>3 DEF Places, Rows
  <2>2. o.blobs[place[2]].nonce \in Values
    BY <2>1, ContentsAssumption DEF Openings, Values
  <2>3. Held(place, o) = Bytes(o.blobs[place[2]].nonce)
    <3>1. place[1] # "root"
      BY <1>3, Zenon
    <3> QED  BY <1>3, <3>1, Zenon DEF Held
  <2> QED  BY <1>3, <2>2, <2>3 DEF Exempt
<1>4. CASE place[1] \notin Exempt
  <2>1. ElementOf(place) \in 0..Modulus - 1
    BY <1>4, PartsAssumption DEF Exempt
  <2>2. Held(place, o) = Bytes(ElementOf(place))
    BY <1>4, Zenon DEF Held, Exempt
  <2>3. ElementOf(place) \in Values /\ ElementOf(place) < Modulus
    BY <2>1, Sizes DEF Values
  <2> QED  BY <2>2, <2>3
<1> QED  BY <1>2, <1>3, <1>4 DEF Exempt

-----------------------------------------------------------------------------
(* What is at each place of a proof.                                       *)
Spells(w, p, s) == w[p + 1] = s[1] /\ w[p + 2] = s[2]

Spelled(w, p, each) ==
    \A k \in 1..Len(each) : Spells(w, p + (2 * (k - 1)), each[k])

Pairs(each) ==
    each \in Seq(Seq(Units)) /\ \A k \in 1..Len(each) : Len(each[k]) = 2

(* Values of two units each follow one another.                            *)
LEMMA PairsFlatten ==
    ASSUME NEW each, Pairs(each)
    PROVE  /\ FlattenSeq(each) \in Seq(Units)
           /\ Len(FlattenSeq(each)) = 2 * Len(each)
           /\ Len(each) \in Nat
           /\ Spelled(FlattenSeq(each), 0, each)
<1>1. each \in Seq(Seq(Units)) /\ \A k \in 1..Len(each) : Len(each[k]) = 2
  BY DEF Pairs
<1>2. /\ FlattenSeq(each) \in Seq(Units)
      /\ Len(FlattenSeq(each)) = 2 * Len(each)
      /\ \A k \in 1..Len(each), j \in 1..2 :
            FlattenSeq(each)[(2 * (k - 1)) + j] = each[k][j]
  BY <1>1, FlattenEven
<1>3. ASSUME NEW k \in 1..Len(each)
      PROVE  Spells(FlattenSeq(each), 0 + (2 * (k - 1)), each[k])
  <2>1. 0 + (2 * (k - 1)) = 2 * (k - 1) /\ 1 \in 1..2 /\ 2 \in 1..2
    OBVIOUS
  <2> QED  BY <1>2, <2>1 DEF Spells
<1>4. Len(each) \in Nat
  BY <1>1
<1> QED  BY <1>2, <1>3, <1>4 DEF Spelled

(* What follows something is as far on as that is long.                    *)
LEMMA SpelledBefore ==
    ASSUME NEW a \in Seq(Units), NEW b \in Seq(Units), NEW p \in Nat,
           NEW each, Len(each) \in Nat,
           Spelled(a, p, each), p + (2 * Len(each)) <= Len(a)
    PROVE  Spelled(a \o b, p, each)
<1> SUFFICES ASSUME NEW k \in 1..Len(each)
             PROVE  Spells(a \o b, p + (2 * (k - 1)), each[k])
  BY DEF Spelled
<1> DEFINE q == p + (2 * (k - 1))
           c == a \o b
<1>1. Len(a) \in Nat /\ \A m \in 1..Len(a) : c[m] = a[m]
  OBVIOUS
<1>2. Spells(a, q, each[k])
  BY DEF Spelled
<1>3. q + 1 \in 1..Len(a) /\ q + 2 \in 1..Len(a)
  BY <1>1
<1> HIDE DEF q, c
<1>4. Spells(c, q, each[k])
  BY <1>1, <1>2, <1>3 DEF Spells
<1> QED  BY <1>4 DEF q, c

(* And what comes before moves it on by its length.                        *)
LEMMA SpelledAfter ==
    ASSUME NEW a \in Seq(Units), NEW b \in Seq(Units), NEW p \in Nat,
           NEW each, Len(each) \in Nat,
           Spelled(b, p, each), p + (2 * Len(each)) <= Len(b)
    PROVE  Spelled(a \o b, Len(a) + p, each)
<1> SUFFICES ASSUME NEW k \in 1..Len(each)
             PROVE  Spells(a \o b, (Len(a) + p) + (2 * (k - 1)), each[k])
  BY DEF Spelled
<1> DEFINE q == p + (2 * (k - 1))
           c == a \o b
           n == Len(a)
<1>1. n \in Nat /\ Len(b) \in Nat /\ \A m \in 1..Len(b) : c[n + m] = b[m]
  OBVIOUS
<1>2. Spells(b, q, each[k])
  BY DEF Spelled
<1>3. /\ q \in Nat /\ q + 1 \in 1..Len(b) /\ q + 2 \in 1..Len(b)
      /\ (n + p) + (2 * (k - 1)) = n + q
  BY <1>1
<1> HIDE DEF q, c, n
<1>4. Spells(c, n + q, each[k])
  <2>1. (n + q) + 1 = n + (q + 1) /\ (n + q) + 2 = n + (q + 2)
    BY <1>1, <1>3
  <2> QED  BY <1>1, <1>2, <1>3, <2>1 DEF Spells
<1> QED  BY <1>3, <1>4 DEF q, c, n

(* A size and what it is the size of.                                      *)
Sized(w, n, each) ==
    /\ w \in Seq(Units) /\ Len(w) = 1 + (2 * Len(each))
    /\ w[1] = n /\ Spelled(w, 1, each)

(* A size before the values.                                               *)
LEMMA SizedIs ==
    ASSUME NEW each, Pairs(each), NEW n \in Units
    PROVE  Sized(<<n>> \o FlattenSeq(each), n, each)
<1> DEFINE b == FlattenSeq(each)
           a == <<n>>
<1>1. b \in Seq(Units) /\ Len(b) = 2 * Len(each) /\ Len(each) \in Nat
  BY PairsFlatten
<1>2. Spelled(b, 0, each)
  BY PairsFlatten
<1>3. a \in Seq(Units) /\ Len(a) = 1 /\ a[1] = n
  OBVIOUS
<1> HIDE DEF a, b
<1>4. a \o b \in Seq(Units) /\ Len(a \o b) = 1 + (2 * Len(each)) /\ (a \o b)[1] = n
  <2>1. a \o b \in Seq(Units) /\ Joins(a, b, a \o b)
    BY <1>1, <1>3, Joined, Zenon
  <2>2. 1 \in 1..Len(a)
    BY <1>3
  <2> QED  BY <1>1, <1>3, <2>1, <2>2 DEF Joins
<1>5. Spelled(a \o b, 1, each)
  <2>1. 0 + (2 * Len(each)) <= Len(b) /\ 0 \in Nat /\ Len(a) + 0 = 1
    BY <1>1, <1>3
  <2>2. Spelled(a \o b, Len(a) + 0, each)
    BY <1>1, <1>2, <1>3, <2>1, SpelledAfter
  <2> QED  BY <2>1, <2>2
<1> QED  BY <1>4, <1>5 DEF Sized, a, b

FirstBytes(o) == [k \in DOMAIN WrittenFirst |-> Held(WrittenFirst[k], o)]
ReqBytes(o) == [k \in 1..Total |-> Bytes(ReqOf(o)[k - 1])]
PathBytes(o) == [k \in DOMAIN o.path |-> DigestBytes(o.path[k])]

Column(k) == k % NReq
RowOf(k) == k \div NReq

(* Element k of req is one of an opened column.                            *)
LEMMA ReqTyped ==
    ASSUME NEW o \in Openings, NEW k \in 0..Total - 1
    PROVE  /\ Column(k) + 1 \in 1..NReq /\ RowOf(k) \in 0..NRow - 1
           /\ ReqOf(o)[k] = o.blobs[Column(k) + 1].column[RowOf(k)]
           /\ ReqOf(o)[k] \in Values /\ ReqOf(o)[k] \in 0..Modulus - 1
<1> DEFINE m == Column(k)
           q == RowOf(k)
<1>1. /\ NReq \in Nat /\ NReq >= 1 /\ NRow \in Nat /\ NRow >= 1
      /\ k \in Nat /\ k < NReq * NRow
  BY Sizes DEF Total
<1>2. m \in Nat /\ m < NReq /\ q \in Nat /\ k = m + (NReq * q)
  BY <1>1 DEF Column, RowOf
<1>3. ReqOf(o)[k] = o.blobs[m + 1].column[q]
  BY DEF ReqOf, Column, RowOf
<1> HIDE DEF m, q
<1>4. q < NRow
  <2> SUFFICES ASSUME q >= NRow  PROVE FALSE
    BY <1>1, <1>2
  <2>1. NReq * q >= NReq * NRow
    BY <1>1, <1>2
  <2>2. NReq * q \in Nat /\ NReq * NRow \in Nat
    BY <1>1, <1>2
  <2> QED  BY <1>1, <1>2, <2>1, <2>2
<1>5. m + 1 \in 1..NReq /\ q \in 0..NRow - 1
  BY <1>1, <1>2, <1>4
<1>6. o.blobs[m + 1] \in Blobs
  BY <1>5 DEF Openings
<1>7. o.blobs[m + 1].column[q] \in 0..Modulus - 1
  BY <1>5, <1>6, ContentsAssumption
<1>8. 0..Modulus - 1 \subseteq Values
  BY Sizes DEF Values
<1> QED  BY <1>3, <1>5, <1>7, <1>8 DEF m, q

(* Everything but sizes takes two units.                                   *)
LEMMA AllPairs ==
    ASSUME NEW o \in Openings
    PROVE  /\ Pairs(FirstBytes(o)) /\ Len(FirstBytes(o)) = Len(WrittenFirst)
           /\ Pairs(ReqBytes(o)) /\ Len(ReqBytes(o)) = Total
           /\ Pairs(PathBytes(o)) /\ Len(PathBytes(o)) = Len(o.path)
           /\ Len(o.path) \in Nat
<1>1. Pairs(FirstBytes(o)) /\ Len(FirstBytes(o)) = Len(WrittenFirst)
  <2>1. DOMAIN WrittenFirst = 1..Len(WrittenFirst) /\ Len(WrittenFirst) \in Nat
    BY FirstTyped
  <2>2. \A k \in DOMAIN WrittenFirst :
            /\ Held(WrittenFirst[k], o) \in Seq(Units)
            /\ Len(Held(WrittenFirst[k], o)) = 2
    BY HeldReads, BytesAre
  <2> QED  BY <2>1, <2>2 DEF Pairs, FirstBytes
<1>2. Pairs(ReqBytes(o)) /\ Len(ReqBytes(o)) = Total
  <2>1. Total \in Nat
    BY Sizes
  <2>2. \A k \in 1..Total : k - 1 \in 0..Total - 1
    BY <2>1
  <2>3. \A k \in 1..Total :
            /\ Bytes(ReqOf(o)[k - 1]) \in Seq(Units)
            /\ Len(Bytes(ReqOf(o)[k - 1])) = 2
    BY <2>2, ReqTyped, BytesAre
  <2> HIDE DEF Total
  <2> QED  BY <2>1, <2>3 DEF Pairs, ReqBytes
<1>3. Pairs(PathBytes(o)) /\ Len(PathBytes(o)) = Len(o.path) /\ Len(o.path) \in Nat
  <2>1. o.path \in Seq(Digests)
    BY DEF Openings
  <2>2. DOMAIN o.path = 1..Len(o.path) /\ Len(o.path) \in Nat
    BY <2>1
  <2>3. \A k \in 1..Len(o.path) :
            /\ DigestBytes(o.path[k]) \in Seq(Units)
            /\ Len(DigestBytes(o.path[k])) = 2
    <3> TAKE k \in 1..Len(o.path)
    <3>1. o.path[k] \in Digests
      BY <2>1
    <3> QED  BY <3>1, DigestsRead, BytesAre
  <2> QED  BY <2>2, <2>3 DEF Pairs, PathBytes
<1> QED  BY <1>1, <1>2, <1>3

(* The whole of it: where the runs begin, and where the path does.         *)
First == 2 * Len(WrittenFirst)
PathAt == First + 2 + (2 * Total)

Written(o, w) ==
    /\ w \in Seq(Units)
    /\ Len(w) = PathAt + 1 + (2 * Len(o.path))
    /\ Spelled(w, 0, FirstBytes(o))
    /\ w[First + 1] = 0 /\ w[First + 2] = Total
    /\ Spelled(w, First + 2, ReqBytes(o))
    /\ w[PathAt + 1] = Len(o.path)
    /\ Spelled(w, PathAt + 1, PathBytes(o))

(* ZkProof::write puts everything there.                                   *)
LEMMA Layout ==
    ASSUME NEW o \in Openings, Len(o.path) < Base
    PROVE  Written(o, Write(o))
<1> DEFINE A == FlattenSeq(FirstBytes(o))
           Z == <<0>>
           Q == <<Total>> \o FlattenSeq(ReqBytes(o))
           P == <<Len(o.path)>> \o FlattenSeq(PathBytes(o))
           N == Len(WrittenFirst)
           T == Total
           L == Len(o.path)
           F == First
           U == PathAt
<1>1. /\ Pairs(FirstBytes(o)) /\ Len(FirstBytes(o)) = N
      /\ Pairs(ReqBytes(o)) /\ Len(ReqBytes(o)) = T
      /\ Pairs(PathBytes(o)) /\ Len(PathBytes(o)) = L
      /\ L \in Nat /\ N \in Nat /\ T \in Nat
  BY AllPairs, FirstTyped, Sizes
<1>2. 0 \in Units /\ Total \in Units /\ Len(o.path) \in Units
  <2>1. Base \in Nat /\ Base >= 2 /\ T < Base /\ L < Base
    BY Sizes
  <2> HIDE DEF T, L
  <2>2. 0 \in Units /\ T \in Units /\ L \in Units
    BY <1>1, <2>1 DEF Units
  <2> QED  BY <2>2 DEF T, L
<1>3. A \in Seq(Units) /\ Len(A) = 2 * N /\ Spelled(A, 0, FirstBytes(o))
  BY <1>1, PairsFlatten
<1>4. Sized(Q, T, ReqBytes(o))
  BY <1>1, <1>2, SizedIs
<1>5. Sized(P, L, PathBytes(o))
  BY <1>1, <1>2, SizedIs
<1>6. Write(o) = A \o (Z \o (Q \o P))
  <2>1. Write(o) = ((A \o WriteRuns(ReqOf(o))) \o <<L>>) \o FlattenSeq(PathBytes(o))
    BY Zenon DEF Write, FirstBytes, PathBytes
  <2>2. WriteRuns(ReqOf(o)) = Run(ReqOf(o), 0, 0) \o (Run(ReqOf(o), 0, T) \o <<>>)
    BY RunsAre
  <2>3. Run(ReqOf(o), 0, 0) = Z
    <3>1. [k \in 1..0 |-> Bytes(ReqOf(o)[0 + k - 1])] = <<>>
      OBVIOUS
    <3>2. FlattenSeq(<<>>) = <<>>
      BY DEF FlattenSeq
    <3>3. Run(ReqOf(o), 0, 0) = <<0>> \o <<>>
      BY <3>1, <3>2, Zenon DEF Run
    <3> QED  BY <3>3
  <2>4. Run(ReqOf(o), 0, T) = Q
    <3>1. \A k \in 1..Total : 0 + k - 1 = k - 1
      BY <1>1
    <3>2. [k \in 1..Total |-> Bytes(ReqOf(o)[0 + k - 1])] = ReqBytes(o)
      BY <3>1, Zenon DEF ReqBytes
    <3> QED  BY <3>2, Zenon DEF Run
  <2> DEFINE l == <<L>>
             p == FlattenSeq(PathBytes(o))
  <2>5. l \in Seq(Units) /\ p \in Seq(Units) /\ P = l \o p
    BY <1>1, <1>2, PairsFlatten
  <2>6. Q \in Seq(Units) /\ Z \in Seq(Units)
    BY <1>2, <1>4 DEF Sized
  <2>7. Write(o) = ((A \o (Z \o (Q \o <<>>))) \o l) \o p
    BY <2>1, <2>2, <2>3, <2>4, Zenon
  <2> HIDE DEF A, Z, Q, P, l, p
  <2>8. Q \o <<>> = Q
    BY ONLY <2>6
  <2>9. ((A \o (Z \o Q)) \o l) \o p = A \o (Z \o (Q \o (l \o p)))
    <3> DEFINE zq == Z \o Q
               lp == l \o p
    <3>1. zq \in Seq(Units) /\ lp \in Seq(Units)
      BY ONLY <2>5, <2>6
    <3>2. zq \o lp = Z \o (Q \o lp)
      <4> HIDE DEF lp
      <4> QED  BY ONLY <2>6, <3>1
    <3> HIDE DEF zq
    <3>3. ((A \o zq) \o l) \o p = (A \o zq) \o (l \o p)
      BY ONLY <1>3, <2>5, <3>1
    <3> HIDE DEF lp
    <3>4. (A \o zq) \o lp = A \o (zq \o lp)
      BY ONLY <1>3, <3>1
    <3> QED  BY <3>2, <3>3, <3>4, Zenon DEF zq, lp
  <2> QED  BY <2>5, <2>7, <2>8, <2>9, Zenon
<1>7. /\ Z \in Seq(Units) /\ Len(Z) = 1 /\ Z[1] = 0
      /\ Q \in Seq(Units) /\ Len(Q) = 1 + (2 * T) /\ Q[1] = T
      /\ P \in Seq(Units) /\ Len(P) = 1 + (2 * L) /\ P[1] = L
      /\ F = 2 * N /\ U = F + 2 + (2 * T)
  BY <1>1, <1>2, <1>4, <1>5 DEF Sized, First, PathAt
<1> HIDE DEF A, Z, Q, P, N, T, L, F, U
<1> DEFINE QP == Q \o P
<1>8. /\ QP \in Seq(Units) /\ Len(QP) = (2 + (2 * T)) + (2 * L)
      /\ QP[1] = T /\ QP[(1 + (2 * T)) + 1] = L
      /\ Spelled(QP, 1, ReqBytes(o))
      /\ Spelled(QP, (1 + (2 * T)) + 1, PathBytes(o))
  <2>1. QP \in Seq(Units) /\ Joins(Q, P, QP)
    BY <1>7, Joined, Zenon
  <2>2. 1 \in 1..Len(Q) /\ 1 \in 1..Len(P)
    BY <1>1, <1>7
  <2>3. Len(QP) = (2 + (2 * T)) + (2 * L) /\ QP[1] = T /\ QP[(1 + (2 * T)) + 1] = L
    BY <1>1, <1>7, <2>1, <2>2 DEF Joins
  <2>4. Spelled(QP, 1, ReqBytes(o))
    <3>1. 1 + (2 * Len(ReqBytes(o))) <= Len(Q) /\ 1 \in Nat
      BY <1>1, <1>7
    <3> QED  BY <1>1, <1>4, <1>7, <3>1, SpelledBefore DEF Sized
  <2>5. Spelled(QP, Len(Q) + 1, PathBytes(o))
    <3>1. 1 + (2 * Len(PathBytes(o))) <= Len(P) /\ 1 \in Nat
      BY <1>1, <1>7
    <3> QED  BY <1>1, <1>5, <1>7, <3>1, SpelledAfter DEF Sized
  <2> QED  BY <1>7, <2>1, <2>3, <2>4, <2>5
<1> HIDE DEF QP
<1> DEFINE ZQP == Z \o QP
<1>9. /\ ZQP \in Seq(Units) /\ Len(ZQP) = (3 + (2 * T)) + (2 * L)
      /\ ZQP[1] = 0 /\ ZQP[2] = T /\ ZQP[3 + (2 * T)] = L
      /\ Spelled(ZQP, 2, ReqBytes(o))
      /\ Spelled(ZQP, 3 + (2 * T), PathBytes(o))
  <2>1. ZQP \in Seq(Units) /\ Joins(Z, QP, ZQP)
    BY <1>7, <1>8, Joined, Zenon
  <2>2. /\ 1 \in 1..Len(Z) /\ 1 \in 1..Len(QP)
        /\ (1 + (2 * T)) + 1 \in 1..Len(QP)
        /\ 1 + ((1 + (2 * T)) + 1) = 3 + (2 * T)
    BY <1>1, <1>7, <1>8
  <2>3. ZQP[Len(Z) + 1] = QP[1] /\ ZQP[Len(Z) + ((1 + (2 * T)) + 1)] = QP[(1 + (2 * T)) + 1]
    BY <2>1, <2>2 DEF Joins
  <2>4. /\ Len(ZQP) = (3 + (2 * T)) + (2 * L)
        /\ ZQP[1] = 0 /\ ZQP[2] = T /\ ZQP[3 + (2 * T)] = L
    <3>1. Len(ZQP) = Len(Z) + Len(QP) /\ ZQP[1] = Z[1]
      BY <2>1, <2>2 DEF Joins
    <3>2. ZQP[2] = QP[1] /\ ZQP[3 + (2 * T)] = QP[(1 + (2 * T)) + 1]
      <4>1. Len(Z) + 1 = 2 /\ Len(Z) + ((1 + (2 * T)) + 1) = 3 + (2 * T)
        BY <1>7, <2>2
      <4> QED  BY <2>3, <4>1
    <3>3. Len(ZQP) = (3 + (2 * T)) + (2 * L)
      BY <1>1, <1>7, <1>8, <3>1
    <3> QED  BY <1>7, <1>8, <3>1, <3>2, <3>3
  <2>5. Spelled(ZQP, Len(Z) + 1, ReqBytes(o))
    <3>1. 1 + (2 * Len(ReqBytes(o))) <= Len(QP) /\ 1 \in Nat
      BY <1>1, <1>8
    <3> QED  BY <1>1, <1>7, <1>8, <3>1, SpelledAfter
  <2>6. Spelled(ZQP, Len(Z) + ((1 + (2 * T)) + 1), PathBytes(o))
    <3>1. /\ ((1 + (2 * T)) + 1) + (2 * Len(PathBytes(o))) <= Len(QP)
          /\ (1 + (2 * T)) + 1 \in Nat
      BY <1>1, <1>8
    <3> QED  BY <1>1, <1>7, <1>8, <3>1, SpelledAfter
  <2>7. Len(Z) + 1 = 2 /\ Len(Z) + ((1 + (2 * T)) + 1) = 3 + (2 * T)
    BY <1>7, <2>2
  <2> QED  BY <2>1, <2>4, <2>5, <2>6, <2>7
<1> HIDE DEF ZQP
<1> DEFINE W == A \o ZQP
<1>10. /\ W \in Seq(Units) /\ Len(W) = U + 1 + (2 * L)
       /\ Spelled(W, 0, FirstBytes(o))
       /\ W[F + 1] = 0 /\ W[F + 2] = T /\ W[U + 1] = L
       /\ Spelled(W, F + 2, ReqBytes(o))
       /\ Spelled(W, U + 1, PathBytes(o))
  <2>1. W \in Seq(Units) /\ Joins(A, ZQP, W)
    BY <1>3, <1>9, Joined, Zenon
  <2>2. /\ 1 \in 1..Len(ZQP) /\ 2 \in 1..Len(ZQP) /\ 3 + (2 * T) \in 1..Len(ZQP)
        /\ F \in Nat /\ F + (3 + (2 * T)) = U + 1 /\ Len(A) = F
    BY <1>1, <1>3, <1>7, <1>9
  <2>3. /\ W[Len(A) + 1] = ZQP[1] /\ W[Len(A) + 2] = ZQP[2]
        /\ W[Len(A) + (3 + (2 * T))] = ZQP[3 + (2 * T)]
    BY <2>1, <2>2 DEF Joins
  <2>4. W[F + 1] = 0 /\ W[F + 2] = T /\ W[U + 1] = L
    BY <1>9, <2>2, <2>3
  <2>5. Len(W) = U + 1 + (2 * L)
    BY <1>1, <1>7, <1>9, <2>1, <2>2 DEF Joins
  <2>6. Spelled(W, 0, FirstBytes(o))
    <3>1. 0 + (2 * Len(FirstBytes(o))) <= Len(A) /\ 0 \in Nat
      BY <1>1, <1>3
    <3> QED  BY <1>1, <1>3, <1>9, <3>1, SpelledBefore
  <2>7. Spelled(W, Len(A) + 2, ReqBytes(o))
    <3>1. 2 + (2 * Len(ReqBytes(o))) <= Len(ZQP) /\ 2 \in Nat
      BY <1>1, <1>9
    <3> QED  BY <1>1, <1>3, <1>9, <3>1, SpelledAfter
  <2>8. Spelled(W, Len(A) + (3 + (2 * T)), PathBytes(o))
    <3>1. /\ (3 + (2 * T)) + (2 * Len(PathBytes(o))) <= Len(ZQP)
          /\ 3 + (2 * T) \in Nat
      BY <1>1, <1>9
    <3> QED  BY <1>1, <1>3, <1>9, <3>1, SpelledAfter
  <2> QED  BY <2>1, <2>2, <2>4, <2>5, <2>6, <2>7, <2>8
<1>11. Write(o) = W
  BY <1>6 DEF W, ZQP, QP
<1> QED  BY <1>10, <1>11 DEF Written, T, L, F, U

-----------------------------------------------------------------------------
(* How far the reader is, and what it holds by then.                       *)
Underway == {"first", "runs", "path", "failed"}
Nonce(r) == <<"nonce", r>>
NoRun == [ci |-> 0, subfield |-> FALSE]

CodecTyped ==
    /\ reading \in Underway \cup {"nothing", "done"}
    /\ wire \in Seq(Units) /\ pos \in 0..Len(wire)
    /\ run \in [ci : 0..Total, subfield : BOOLEAN]
    /\ DOMAIN req = 0..Total - 1
    /\ \A x \in DOMAIN got : got[x] \in Values

(* While the proof is on its way, neither side does anything.              *)
InTurn ==
    /\ reading \in Underway => Over("open")
    /\ reading = "nothing" => part = 1 /\ pos = 0 /\ got = <<>>
    /\ reading \in {"nothing", "first"} => run = NoRun
    /\ reading = "first" => part \in 1..Len(Parts)
    /\ reading = "runs" => run.ci < Total
    /\ reading = "path" => run.ci = Total

ColumnsRead ==
    /\ \A k \in 0..run.ci - 1 : req[k] \in 0..Modulus - 1
    /\ reading \in {"runs", "path"} =>
        \A r \in 1..NReq : Nonce(r) \in DOMAIN got

Reads == CodecTyped /\ InTurn /\ ColumnsRead

(* Nothing has been read.                                                  *)
LEMMA ReadsInitially == CodecInit => Reads
<1> SUFFICES ASSUME CodecInit  PROVE Reads
  OBVIOUS
<1>1. Total \in Nat /\ Total >= 1
  BY Sizes
<1>2. CodecTyped
  <2>1. wire = <<>> /\ pos = 0 /\ <<>> \in Seq(Units) /\ 0 \in 0..Len(<<>>)
    BY DEF CodecInit
  <2>2. run = NoRun /\ DOMAIN req = 0..Total - 1 /\ DOMAIN got = {}
    BY DEF CodecInit, NoRun
  <2>3. NoRun \in [ci : 0..Total, subfield : BOOLEAN]
    BY <1>1 DEF NoRun
  <2>4. reading = "nothing"
    BY DEF CodecInit
  <2> QED  BY <2>1, <2>2, <2>3, <2>4 DEF CodecTyped
<1>3. InTurn
  BY DEF CodecInit, InTurn, Underway, NoRun
<1>4. ColumnsRead
  <2>1. run.ci = 0 /\ reading = "nothing"
    BY DEF CodecInit
  <2> QED  BY <2>1 DEF ColumnsRead
<1> QED  BY <1>2, <1>3, <1>4 DEF Reads

(* A value that is there is taken or refused, not run out of.              *)
LEMMA Takings ==
    ASSUME wire \in Seq(Units), NEW p \in Nat, NEW n \in Nat,
           NEW places, DOMAIN places = 1..n, p + (2 * n) <= Len(wire)
    PROVE  /\ \A k \in 1..n : /\ ValueAt(Nth(p, k)) \in Values
                              /\ Nth(p, k) = p + (2 * (k - 1))
           /\ Taking(places, p) =
                IF \E k \in 1..n : ~Fits(places[k], Nth(p, k))
                THEN "failed" ELSE "taken"
<1>1. ASSUME NEW k \in 1..n
      PROVE  /\ ValueAt(Nth(p, k)) \in Values
             /\ Nth(p, k) = p + (2 * (k - 1))
             /\ Remaining(p) >= kBytes * k
  <2> DEFINE q == p + (2 * (k - 1))
  <2>1. Nth(p, k) = q
    BY DEF Nth, kBytes
  <2>2. Len(wire) \in Nat
    OBVIOUS
  <2>3. q + 1 \in 1..Len(wire) /\ q + 2 \in 1..Len(wire)
    BY <2>2
  <2> HIDE DEF q
  <2>4. wire[q + 1] \in Units /\ wire[q + 2] \in Units
    BY <2>3
  <2>5. ValueAt(q) \in Values
    BY <2>4, TwoUnits DEF ValueAt
  <2>6. Remaining(p) >= kBytes * k
    BY <2>2 DEF Remaining, kBytes
  <2> QED  BY <2>1, <2>5, <2>6 DEF q
<1>2. {k \in DOMAIN places : Remaining(p) >= kBytes * k} = 1..n
  BY <1>1
<1>3. Taking(places, p) =
        IF \E k \in 1..n : ~Fits(places[k], Nth(p, k))
        THEN "failed" ELSE "taken"
  BY <1>2, Zenon DEF Taking
<1> QED  BY <1>1, <1>3

(* have(n) says what it means when n is a size that is not too large.      *)
LEMMA Haves ==
    ASSUME wire \in Seq(Units), NEW p \in 0..Len(wire), NEW n \in 0..SizeRange - 1
    PROVE  Have(p, n) <=> p + n <= Len(wire)
<1>1. Len(wire) \in Nat /\ SizeRange \in Nat
  BY Sizes
<1>2. n % SizeRange = n
  BY <1>1
<1> QED  BY <1>1, <1>2 DEF Have, Remaining

-----------------------------------------------------------------------------
(* What a step of the reader does.                                         *)
FirstFails ==
    /\ \/ pos + (2 * Len(Parts[part].places)) > Len(wire)
       \/ \E k \in 1..Len(Parts[part].places) :
            ~Fits(Parts[part].places[k], Nth(pos, k))
    /\ reading' = "failed" /\ UNCHANGED <<part, pos, got, req, run>>

FirstTakes ==
    LET places == Parts[part].places
        zero == Parts[part].zero
    IN  /\ pos' = pos + (2 * Len(places)) /\ pos' <= Len(wire)
        /\ part' = part + 1 /\ UNCHANGED <<req, run>>
        /\ reading' = IF part = Len(Parts) THEN "runs" ELSE "first"
        /\ DOMAIN got' = DOMAIN got \cup zero \cup ToSet(places)
        /\ \A x \in ToSet(places) :
            \E k \in 1..Len(places) :
                /\ places[k] = x
                /\ got'[x] = ValueAt(pos + (2 * (k - 1)))
                /\ got'[x] \in Values
        /\ \A x \in zero \ ToSet(places) : got'[x] = 0
        /\ \A x \in DOMAIN got : x \notin zero \cup ToSet(places) =>
            got'[x] = got[x]

(* The check before a part of fixed length is enough for all of it.        *)
LEMMA FirstStep ==
    ASSUME Reads, ReadFirst
    PROVE  FirstFails \/ FirstTakes
<1> DEFINE p == Parts[part]
           n == Len(p.places)
           place(x) == CHOOSE k \in DOMAIN p.places : p.places[k] = x
<1>1. /\ reading = "first" /\ part \in 1..Len(Parts)
      /\ wire \in Seq(Units) /\ pos \in 0..Len(wire) /\ pos \in Nat
      /\ Len(wire) \in Nat
  BY DEF Reads, CodecTyped, InTurn, ReadFirst
<1>2. p \in PartSet /\ p.need = kBytes * n /\ p.need < SizeRange
  BY <1>1, PartsAre
<1>3. n \in Nat /\ DOMAIN p.places = 1..n /\ p.need = 2 * n /\ p.need \in 0..SizeRange - 1
  <2>1. p.places \in Seq(Places)
    BY <1>2 DEF PartSet
  <2>2. n \in Nat /\ DOMAIN p.places = 1..n
    BY <2>1
  <2> HIDE DEF n, p
  <2> QED  BY <1>2, <2>2, Sizes DEF kBytes
<1>4. Have(pos, p.need) <=> pos + (2 * n) <= Len(wire)
  BY <1>1, <1>3, Haves
<1>5. CASE ~Have(pos, p.need)
  <2>1. pos + (2 * n) > Len(wire)
    BY <1>1, <1>3, <1>4, <1>5
  <2>2. Ends("failed")
    BY <1>5, Zenon DEF ReadFirst
  <2> QED  BY <2>1, <2>2 DEF FirstFails, Ends
<1>6. CASE Have(pos, p.need)
  <2>1. pos + (2 * n) <= Len(wire)
    BY <1>4, <1>6
  <2>2. /\ \A k \in 1..n : /\ ValueAt(Nth(pos, k)) \in Values
                           /\ Nth(pos, k) = pos + (2 * (k - 1))
        /\ Taking(p.places, pos) =
            IF \E k \in 1..n : ~Fits(p.places[k], Nth(pos, k))
            THEN "failed" ELSE "taken"
    BY <1>1, <1>3, <2>1, Takings
  <2>3. CASE \E k \in 1..n : ~Fits(p.places[k], Nth(pos, k))
    <3>1. Taking(p.places, pos) = "failed" /\ "failed" # "taken"
      BY <2>2, <2>3
    <3>2. Ends(Taking(p.places, pos))
      BY <1>6, <3>1, Zenon DEF ReadFirst
    <3> QED  BY <2>3, <3>1, <3>2 DEF FirstFails, Ends
  <2>4. CASE ~ \E k \in 1..n : ~Fits(p.places[k], Nth(pos, k))
    <3>1. Taking(p.places, pos) = "taken"
      BY <2>2, <2>4
    <3>2. /\ got' = [x \in DOMAIN got \cup p.zero \cup ToSet(p.places) |->
                        IF x \in ToSet(p.places) THEN ValueAt(Nth(pos, place(x)))
                        ELSE IF x \in p.zero THEN 0 ELSE got[x]]
          /\ pos' = pos + (kBytes * Len(p.places))
          /\ part' = part + 1
          /\ reading' = IF part = Len(Parts) THEN "runs" ELSE "first"
          /\ UNCHANGED <<req, run>>
      BY <1>6, <3>1, Zenon DEF ReadFirst
    <3>3. pos' = pos + (2 * n) /\ pos' <= Len(wire)
      BY <2>1, <3>2 DEF kBytes
    <3>4. ASSUME NEW x \in ToSet(p.places)
          PROVE  \E k \in 1..n : /\ p.places[k] = x
                                 /\ got'[x] = ValueAt(pos + (2 * (k - 1)))
                                 /\ got'[x] \in Values
      <4>1. \E k \in DOMAIN p.places : p.places[k] = x
        BY DEF ToSet
      <4>2. place(x) \in 1..n /\ p.places[place(x)] = x
        BY <1>3, <4>1
      <4> HIDE DEF place
      <4>3. got'[x] = ValueAt(Nth(pos, place(x)))
        BY <3>2
      <4> QED  BY <2>2, <4>2, <4>3
    <3> HIDE DEF place
    <3>5. /\ DOMAIN got' = DOMAIN got \cup p.zero \cup ToSet(p.places)
          /\ \A x \in p.zero \ ToSet(p.places) : got'[x] = 0
          /\ \A x \in DOMAIN got : x \notin p.zero \cup ToSet(p.places) =>
                got'[x] = got[x]
      BY <3>2
    <3> QED  BY <3>2, <3>3, <3>4, <3>5, Zenon DEF FirstTakes
  <2> QED  BY <2>3, <2>4
<1> QED  BY <1>5, <1>6

RunFails ==
    /\ \/ pos + 1 > Len(wire)
       \/ wire[pos + 1] >= MaxRunLen
       \/ run.ci + wire[pos + 1] > Total
       \/ (pos + 1) + (2 * wire[pos + 1]) > Len(wire)
       \/ \E k \in 1..wire[pos + 1] :
            ValueAt((pos + 1) + (2 * (k - 1))) >= Modulus
    /\ reading' = "failed" /\ UNCHANGED <<part, pos, got, req, run>>

RunTakes(n) ==
    LET end == run.ci + n IN
    /\ pos + 1 <= Len(wire) /\ n = wire[pos + 1] /\ end <= Total
    /\ pos' = (pos + 1) + (2 * n) /\ pos' <= Len(wire)
    /\ run' = [ci |-> end, subfield |-> ~run.subfield]
    /\ DOMAIN req' = DOMAIN req
    /\ \A k \in DOMAIN req :
        IF k \in run.ci..end - 1
        THEN /\ req'[k] = ValueAt((pos + 1) + (2 * (k - run.ci)))
             /\ req'[k] \in 0..Modulus - 1
        ELSE req'[k] = req[k]
    /\ reading' = IF end < Total THEN "runs" ELSE "path"
    /\ UNCHANGED <<part, got>>

(* A run that passes the checks on its length has its bytes, and its end   *)
(* does not wrap around.                                                   *)
LEMMA RunStep ==
    ASSUME Reads, ReadRun
    PROVE  RunFails \/ \E n \in Units : RunTakes(n)
<1> DEFINE n == wire[pos + 1]
           end == (run.ci + n) % SizeRange
           elts == [k \in 1..n |-> <<"req">>]
<1>1. /\ reading = "runs" /\ wire \in Seq(Units) /\ pos \in 0..Len(wire)
      /\ pos \in Nat /\ Len(wire) \in Nat
      /\ run \in [ci : 0..Total, subfield : BOOLEAN]
      /\ run.ci \in 0..Total /\ DOMAIN req = 0..Total - 1
  BY DEF Reads, CodecTyped, InTurn, ReadRun
<1>2. Have(pos, 1) <=> pos + 1 <= Len(wire)
  <2>1. 1 \in 0..SizeRange - 1
    BY Sizes
  <2> QED  BY <1>1, <2>1, Haves
<1>3. CASE ~Have(pos, 1)
  <2>1. pos + 1 > Len(wire)
    BY <1>1, <1>2, <1>3
  <2>2. Ends("failed")
    BY <1>3, Zenon DEF ReadRun
  <2> QED  BY <2>1, <2>2 DEF RunFails, Ends
<1>4. CASE Have(pos, 1)
  <2>1. pos + 1 \in 1..Len(wire) /\ n \in Units /\ n \in Nat /\ n < Base
    <3>1. pos + 1 \in 1..Len(wire)
      BY <1>1, <1>2, <1>4
    <3>2. wire[pos + 1] \in Units
      BY <1>1, <3>1
    <3> QED  BY <3>1, <3>2, Sizes DEF Units
  <2>2. /\ MaxRunLen \in Nat /\ SizeRange \in Nat /\ 2 * MaxRunLen <= SizeRange
        /\ Total \in Nat /\ Total < MaxRunLen /\ Modulus \in Nat
        /\ run.ci \in Nat /\ run.ci <= Total
    BY <1>1, Sizes
  <2>3. n < MaxRunLen =>
            /\ end = run.ci + n
            /\ n * kBytes = 2 * n /\ 2 * n \in 0..SizeRange - 1
    <3> SUFFICES ASSUME n < MaxRunLen
                 PROVE  /\ end = run.ci + n
                        /\ n * kBytes = 2 * n /\ 2 * n \in 0..SizeRange - 1
      OBVIOUS
    <3> DEFINE c == run.ci
    <3>1. end = (c + n) % SizeRange /\ n * kBytes = n * 2
      BY DEF kBytes
    <3> HIDE DEF n, Total, c, end
    <3>2. c \in Nat /\ c <= Total
      BY <2>2 DEF c
    <3>3. /\ c + n \in Nat /\ c + n < SizeRange
          /\ n * 2 = 2 * n /\ 2 * n \in 0..SizeRange - 1
      BY <2>1, <2>2, <3>2
    <3>4. (c + n) % SizeRange = c + n
      BY <2>2, <3>3
    <3> QED  BY <3>1, <3>3, <3>4 DEF c
  <2>4. CASE \/ n >= MaxRunLen \/ end > Total \/ ~Have(pos + 1, n * kBytes)
    <3>1. Ends("failed")
      BY <1>4, <2>4, Zenon DEF ReadRun
    <3>2. \/ n >= MaxRunLen \/ run.ci + n > Total
          \/ (pos + 1) + (2 * n) > Len(wire)
      <4> SUFFICES ASSUME ~(n >= MaxRunLen), ~(run.ci + n > Total)
                   PROVE  (pos + 1) + (2 * n) > Len(wire)
        OBVIOUS
      <4>1. n < MaxRunLen
        BY <2>1, <2>2
      <4>2. ~Have(pos + 1, 2 * n)
        BY <2>3, <2>4, <4>1
      <4>3. pos + 1 \in 0..Len(wire)
        BY <1>1, <2>1
      <4>4. ~((pos + 1) + (2 * n) <= Len(wire))
        BY <1>1, <2>3, <4>1, <4>2, <4>3, Haves
      <4> QED  BY <1>1, <2>1, <4>4
    <3> QED  BY <3>1, <3>2 DEF RunFails, Ends
  <2>5. CASE ~(\/ n >= MaxRunLen \/ end > Total \/ ~Have(pos + 1, n * kBytes))
    <3>1. /\ n < MaxRunLen /\ end = run.ci + n /\ end <= Total
          /\ (pos + 1) + (2 * n) <= Len(wire)
      <4>1. n < MaxRunLen
        BY <2>1, <2>2, <2>5
      <4>2. end = run.ci + n /\ end <= Total
        BY <2>1, <2>2, <2>3, <2>5, <4>1
      <4>3. Have(pos + 1, 2 * n)
        BY <2>3, <2>5, <4>1
      <4>4. pos + 1 \in 0..Len(wire)
        BY <1>1, <2>1
      <4> QED  BY <1>1, <2>3, <4>1, <4>2, <4>3, <4>4, Haves
    <3>2. DOMAIN elts = 1..n /\ pos + 1 \in Nat
      BY <1>1
    <3>3. /\ \A k \in 1..n :
                /\ ValueAt(Nth(pos + 1, k)) \in Values
                /\ Nth(pos + 1, k) = (pos + 1) + (2 * (k - 1))
          /\ Taking(elts, pos + 1) =
                IF \E k \in 1..n : ~Fits(elts[k], Nth(pos + 1, k))
                THEN "failed" ELSE "taken"
      <4> HIDE DEF elts, n
      <4> QED  BY <1>1, <2>1, <3>1, <3>2, Takings
    <3>4. \A k \in 1..n : Fits(elts[k], Nth(pos + 1, k)) <=>
                ValueAt((pos + 1) + (2 * (k - 1))) < Modulus
      <4> TAKE k \in 1..n
      <4>1. elts[k] = <<"req">> /\ elts[k][1] = "req"
        OBVIOUS
      <4>2. elts[k][1] \notin {"root", "nonce", "digest"}
        BY <4>1
      <4> HIDE DEF elts, n
      <4> QED  BY <3>3, <4>2 DEF Fits
    <3>5. CASE \E k \in 1..n : ~Fits(elts[k], Nth(pos + 1, k))
      <4>1. Taking(elts, pos + 1) = "failed" /\ "failed" # "taken"
        BY <3>3, <3>5
      <4>2. Ends(Taking(elts, pos + 1))
        BY <1>4, <2>5, <4>1, Zenon DEF ReadRun
      <4>3. \E k \in 1..n : ValueAt((pos + 1) + (2 * (k - 1))) >= Modulus
        <5>1. PICK k \in 1..n : ~Fits(elts[k], Nth(pos + 1, k))
          BY <3>5
        <5>2. ~(ValueAt((pos + 1) + (2 * (k - 1))) < Modulus)
          BY <3>4, <5>1
        <5>3. ValueAt((pos + 1) + (2 * (k - 1))) \in Nat
          BY <3>3 DEF Values
        <5> QED  BY <2>2, <5>2, <5>3
      <4> QED  BY <4>1, <4>2, <4>3 DEF RunFails, Ends
    <3>6. CASE ~ \E k \in 1..n : ~Fits(elts[k], Nth(pos + 1, k))
      <4>1. Taking(elts, pos + 1) = "taken"
        BY <3>3, <3>6
      <4>2. /\ req' = [k \in DOMAIN req |->
                        IF k \in run.ci..end - 1
                        THEN ValueAt(Nth(pos + 1, k - run.ci + 1)) ELSE req[k]]
            /\ pos' = pos + 1 + (kBytes * n)
            /\ run' = [ci |-> end, subfield |-> ~run.subfield]
            /\ reading' = IF end < Total THEN "runs" ELSE "path"
            /\ UNCHANGED <<part, got>>
        BY <1>4, <2>5, <4>1, Zenon DEF ReadRun
      <4>3. pos' = (pos + 1) + (2 * n) /\ pos' <= Len(wire)
        BY <3>1, <4>2 DEF kBytes
      <4>4. ASSUME NEW k \in DOMAIN req
            PROVE  IF k \in run.ci..(run.ci + n) - 1
                   THEN /\ req'[k] = ValueAt((pos + 1) + (2 * (k - run.ci)))
                        /\ req'[k] \in 0..Modulus - 1
                   ELSE req'[k] = req[k]
        <5>1. CASE k \notin run.ci..(run.ci + n) - 1
          BY <3>1, <4>2, <5>1
        <5>2. CASE k \in run.ci..(run.ci + n) - 1
          <6> DEFINE m == k - run.ci + 1
          <6>1. m \in 1..n /\ m - 1 = k - run.ci
            <7> HIDE DEF n
            <7> QED  BY <2>1, <2>2, <5>2
          <6>2. req'[k] = ValueAt(Nth(pos + 1, m))
            BY <3>1, <4>2, <5>2
          <6> HIDE DEF m, elts, n, end
          <6>3. /\ Nth(pos + 1, m) = (pos + 1) + (2 * (m - 1))
                /\ ValueAt(Nth(pos + 1, m)) \in Values
            BY <3>3, <6>1
          <6>4. ValueAt((pos + 1) + (2 * (m - 1))) < Modulus
            BY <3>4, <3>6, <6>1
          <6>5. req'[k] \in 0..Modulus - 1
            BY <2>2, <6>2, <6>3, <6>4 DEF Values
          <6>6. req'[k] = ValueAt((pos + 1) + (2 * (k - run.ci)))
            BY <6>1, <6>2, <6>3
          <6> QED  BY <5>2, <6>5, <6>6
        <5> QED  BY <5>1, <5>2
      <4>5. DOMAIN req' = DOMAIN req
        BY <4>2
      <4>6. RunTakes(n)
        <5>1. /\ pos + 1 <= Len(wire)
              /\ run' = [ci |-> run.ci + n, subfield |-> ~run.subfield]
              /\ reading' = IF run.ci + n < Total THEN "runs" ELSE "path"
              /\ UNCHANGED <<part, got>> /\ run.ci + n <= Total
          BY <1>2, <1>4, <3>1, <4>2
        <5> QED  BY <4>3, <4>4, <4>5, <5>1, Zenon DEF RunTakes
      <4> QED  BY <2>1, <4>6
    <3> QED  BY <3>5, <3>6
  <2> QED  BY <2>4, <2>5
<1> QED  BY <1>3, <1>4

BlobRead(r) ==
    [nonce |-> got[Nonce(r)],
     column |-> [k \in 0..NRow - 1 |-> req[(k * NReq) + r - 1]]]

PathFails ==
    /\ \/ pos + 1 > Len(wire) \/ PathRefused(wire[pos + 1])
       \/ (pos + 1) + (2 * wire[pos + 1]) > Len(wire)
    /\ reading' = "failed" /\ UNCHANGED <<part, pos, got, req, run, vars>>

PathTakes(sz) ==
    /\ pos + 1 <= Len(wire) /\ sz = wire[pos + 1]
    /\ NReq <= sz /\ sz <= NReq * PathLen
    /\ pos' = (pos + 1) + (2 * sz) /\ pos' <= Len(wire)
    /\ \A k \in 1..sz : ValueAt((pos + 1) + (2 * (k - 1))) \in Values
    /\ received' =
        [blobs |-> [r \in 1..NReq |-> BlobRead(r)],
         path |-> [k \in 1..sz |->
                    DigestOf(ValueAt((pos + 1) + (2 * (k - 1))))]]
    /\ reading' = "done" /\ Start("read")
    /\ UNCHANGED <<part, got, req, run>>
    /\ UNCHANGED <<prover, used, rebuilt, defined>>

(* The same for the path: the bound on its length keeps the product of the *)
(* check from wrapping around.                                             *)
LEMMA PathStep ==
    ASSUME Reads, ReadPath
    PROVE  PathFails \/ \E sz \in Units : PathTakes(sz)
<1> DEFINE sz == wire[pos + 1]
           digests == [k \in 1..sz |-> <<"digest">>]
           path == [k \in 1..sz |-> DigestOf(ValueAt(Nth(pos + 1, k)))]
<1>1. /\ wire \in Seq(Units) /\ pos \in 0..Len(wire)
      /\ pos \in Nat /\ Len(wire) \in Nat
  BY DEF Reads, CodecTyped
<1>2. Have(pos, 1) <=> pos + 1 <= Len(wire)
  <2>1. 1 \in 0..SizeRange - 1
    BY Sizes
  <2> QED  BY <1>1, <2>1, Haves
<1>3. CASE ~Have(pos, 1)
  <2>1. pos + 1 > Len(wire)
    BY <1>1, <1>2, <1>3
  <2>2. Ends("failed") /\ UNCHANGED vars
    BY <1>3, Zenon DEF ReadPath
  <2> QED  BY <2>1, <2>2, Zenon DEF PathFails, Ends
<1>4. CASE Have(pos, 1)
  <2>1. pos + 1 \in 1..Len(wire) /\ sz \in Units /\ sz \in Nat
    <3>1. pos + 1 \in 1..Len(wire)
      BY <1>1, <1>2, <1>4
    <3>2. wire[pos + 1] \in Units
      BY <1>1, <3>1
    <3> QED  BY <3>1, <3>2, Sizes DEF Units
  <2>2. /\ NReq \in Nat /\ PathLen \in Nat /\ NReq * PathLen \in Nat
        /\ MaxNumDigests \in Nat /\ SizeRange \in Nat
        /\ 2 * MaxNumDigests <= SizeRange
    <3>1. PathLen \in Nat
      <4>1. (Leaves - 1) + Leaves \in Nat
        BY LeavesAssumption
      <4>2. Halvings[(Leaves - 1) + Leaves] \in Nat
        BY <4>1, Halve
      <4> QED  BY <4>2 DEF PathLen
    <3> QED  BY <3>1, Sizes
  <2>3. ~PathRefused(sz) =>
            /\ NReq <= sz /\ sz <= NReq * PathLen
            /\ sz * kBytes = 2 * sz /\ 2 * sz \in 0..SizeRange - 1
    <3> HIDE DEF sz
    <3> DEFINE most == NReq * PathLen
    <3>1. ~PathRefused(sz) => ~(sz < NReq) /\ ~(sz >= MaxNumDigests) /\ ~(sz > most)
      BY DEF PathRefused
    <3>2. most \in Nat
      BY <2>2
    <3> HIDE DEF most
    <3>3. ~PathRefused(sz) =>
            /\ NReq <= sz /\ sz <= most
            /\ sz * kBytes = 2 * sz /\ 2 * sz \in 0..SizeRange - 1
      BY <2>1, <2>2, <3>1, <3>2 DEF kBytes
    <3> QED  BY <3>3 DEF most
  <2>4. pos + 1 \in 0..Len(wire)
    BY <1>1, <2>1
  <2>5. CASE PathRefused(sz) \/ ~Have(pos + 1, sz * kBytes)
    <3>1. Ends("failed") /\ UNCHANGED vars
      BY <1>4, <2>5, Zenon DEF ReadPath
    <3>2. PathRefused(sz) \/ (pos + 1) + (2 * sz) > Len(wire)
      <4> SUFFICES ASSUME ~PathRefused(sz)
                   PROVE  (pos + 1) + (2 * sz) > Len(wire)
        OBVIOUS
      <4>1. ~Have(pos + 1, 2 * sz)
        BY <2>3, <2>5
      <4>2. ~((pos + 1) + (2 * sz) <= Len(wire))
        BY <1>1, <2>3, <2>4, <4>1, Haves
      <4> QED  BY <1>1, <2>1, <4>2
    <3> QED  BY <3>1, <3>2, Zenon DEF PathFails, Ends
  <2>6. CASE ~(PathRefused(sz) \/ ~Have(pos + 1, sz * kBytes))
    <3>1. (pos + 1) + (2 * sz) <= Len(wire)
      <4>1. Have(pos + 1, 2 * sz)
        BY <2>3, <2>6
      <4> QED  BY <1>1, <2>3, <2>4, <2>6, <4>1, Haves
    <3>2. DOMAIN digests = 1..sz /\ pos + 1 \in Nat
      BY <1>1
    <3>3. /\ \A k \in 1..sz :
                /\ ValueAt(Nth(pos + 1, k)) \in Values
                /\ Nth(pos + 1, k) = (pos + 1) + (2 * (k - 1))
          /\ Taking(digests, pos + 1) =
                IF \E k \in 1..sz : ~Fits(digests[k], Nth(pos + 1, k))
                THEN "failed" ELSE "taken"
      <4> HIDE DEF digests, sz
      <4> QED  BY <1>1, <2>1, <3>1, <3>2, Takings
    <3>4. \A k \in 1..sz : Fits(digests[k], Nth(pos + 1, k))
      <4> TAKE k \in 1..sz
      <4>1. digests[k] = <<"digest">> /\ digests[k][1] = "digest"
        OBVIOUS
      <4> HIDE DEF digests
      <4> QED  BY <4>1, Zenon DEF Fits
    <3>5. Taking(digests, pos + 1) = "taken"
      BY <3>3, <3>4
    <3>6. /\ received' =
                [blobs |-> [r \in 1..NReq |->
                    [nonce |-> got[<<"nonce", r>>],
                     column |-> [k \in 0..NRow - 1 |-> req[(k * NReq) + r - 1]]]],
                 path |-> path]
          /\ pos' = pos + 1 + (kBytes * sz)
          /\ reading' = "done" /\ Start("read")
          /\ UNCHANGED <<part, got, req, run>>
          /\ UNCHANGED <<prover, used, rebuilt, defined>>
      BY <1>4, <2>6, <3>5, Zenon DEF ReadPath
    <3>7. path = [k \in 1..sz |-> DigestOf(ValueAt((pos + 1) + (2 * (k - 1))))]
      <4> HIDE DEF sz
      <4> QED  BY <3>3
    <3>8. received' =
            [blobs |-> [r \in 1..NReq |-> BlobRead(r)],
             path |-> [k \in 1..sz |->
                        DigestOf(ValueAt((pos + 1) + (2 * (k - 1))))]]
      BY <3>6, <3>7, Zenon DEF BlobRead, Nonce
    <3>9. pos' = (pos + 1) + (2 * sz) /\ pos' <= Len(wire)
      BY <3>1, <3>6 DEF kBytes
    <3>10. PathTakes(sz)
      <4>1. \A k \in 1..sz : ValueAt((pos + 1) + (2 * (k - 1))) \in Values
        <5> HIDE DEF sz
        <5> QED  BY <3>3
      <4>2. pos + 1 <= Len(wire)
        BY <1>2, <1>4
      <4> QED  BY <2>3, <2>6, <3>6, <3>8, <3>9, <4>1, <4>2, Zenon DEF PathTakes
    <3> QED  BY <2>1, <3>10
  <2> QED  BY <2>5, <2>6
<1> QED  BY <1>3, <1>4

(* Whatever number is read stands for a digest.                            *)
LEMMA DigestOfIs == \A v \in Values : DigestOf(v) \in Digests
<1> SUFFICES ASSUME NEW v \in Values  PROVE DigestOf(v) \in Digests
  OBVIOUS
<1>1. CASE v \in Nodes
  BY <1>1 DEF DigestOf, Digests
<1>2. CASE v \notin Nodes
  <2>1. DigestOf(v) = <<"foreign", v>>
    BY <1>2 DEF DigestOf
  <2>2. <<"foreign", v>> \in Foreign
    BY <1>2, ContentsAssumption DEF Values
  <2> QED  BY <2>1, <2>2 DEF Digests
<1> QED  BY <1>1, <1>2

(* Element r of row k.                                                     *)
LEMMA Element ==
    ASSUME NEW k \in 0..NRow - 1, NEW r \in 1..NReq
    PROVE  /\ (k * NReq) + r - 1 \in 0..Total - 1
           /\ Column((k * NReq) + r - 1) = r - 1
           /\ RowOf((k * NReq) + r - 1) = k
<1> DEFINE m == r - 1
           e == (NReq * k) + m
           T == Total
<1>1. /\ NReq \in Nat /\ NReq >= 1 /\ NRow \in Nat
      /\ k \in Nat /\ k + 1 <= NRow /\ m \in Nat /\ m < NReq
      /\ T = NReq * NRow
  BY Sizes DEF Total
<1>2. (k * NReq) + r - 1 = e
  BY <1>1
<1>3. e % NReq = m /\ e \div NReq = k
  <2> HIDE DEF m, T
  <2> DEFINE x == e
             d == x \div NReq
             c == x % NReq
  <2>1. x \in Nat /\ x = (NReq * k) + m
    BY <1>1
  <2>2. d \in Nat /\ c \in Nat /\ c < NReq /\ x = (NReq * d) + c
    <3> HIDE DEF x
    <3> QED  BY <1>1, <2>1
  <2> HIDE DEF x, d, c
  <2>3. d = k
    <3>1. CASE d < k
      <4>1. NReq * (d + 1) <= NReq * k
        BY <1>1, <2>2, <3>1
      <4>2. NReq * (d + 1) = (NReq * d) + NReq
        BY <1>1, <2>2
      <4>3. NReq * d \in Nat /\ NReq * k \in Nat
        BY <1>1, <2>2
      <4> QED  BY <1>1, <2>1, <2>2, <4>1, <4>2, <4>3
    <3>2. CASE k < d
      <4>1. NReq * (k + 1) <= NReq * d
        BY <1>1, <2>2, <3>2
      <4>2. NReq * (k + 1) = (NReq * k) + NReq
        BY <1>1
      <4>3. NReq * d \in Nat /\ NReq * k \in Nat
        BY <1>1, <2>2
      <4> QED  BY <1>1, <2>1, <2>2, <4>1, <4>2, <4>3
    <3> QED  BY <1>1, <2>2, <3>1, <3>2
  <2>4. c = m
    <3>1. NReq * k \in Nat
      BY <1>1
    <3> QED  BY <1>1, <2>1, <2>2, <2>3, <3>1
  <2> QED  BY <2>3, <2>4 DEF x, d, c
<1>4. e \in 0..T - 1
  <2> HIDE DEF m, T
  <2>1. NReq * (k + 1) <= NReq * NRow
    BY <1>1
  <2>2. NReq * (k + 1) = (NReq * k) + NReq
    BY <1>1
  <2>3. NReq * k \in Nat /\ T \in Nat
    BY <1>1
  <2> QED  BY <1>1, <2>1, <2>2, <2>3
<1> QED  BY <1>2, <1>3, <1>4 DEF Column, RowOf, T, m

(* What is read is an opening, whatever it was read from.                  *)
LEMMA PathReceives ==
    ASSUME Reads, reading = "path", NEW sz \in Units, PathTakes(sz)
    PROVE  Receive
<1>1. Over("open")
  BY DEF Reads, InTurn, Underway
<1>2. sz \in Nat
  BY Sizes DEF Units
<1>3. ASSUME NEW r \in 1..NReq  PROVE BlobRead(r) \in Blobs
  <2>1. Nonce(r) \in DOMAIN got
    BY DEF Reads, ColumnsRead
  <2>2. got[Nonce(r)] \in 0..Base * Base - 1
    BY <2>1 DEF Reads, CodecTyped, Values
  <2>3. ASSUME NEW k \in 0..NRow - 1
        PROVE  req[(k * NReq) + r - 1] \in 0..Modulus - 1
    <3>1. run.ci = Total
      BY DEF Reads, InTurn
    <3>2. (k * NReq) + r - 1 \in 0..run.ci - 1
      BY <3>1, Element
    <3> QED  BY <3>2 DEF Reads, ColumnsRead
  <2>4. [k \in 0..NRow - 1 |-> req[(k * NReq) + r - 1]] \in
            [0..NRow - 1 -> 0..Modulus - 1]
    BY <2>3
  <2> QED  BY <2>2, <2>4, ContentsAssumption DEF BlobRead
<1> DEFINE path == [k \in 1..sz |->
                        DigestOf(ValueAt((pos + 1) + (2 * (k - 1))))]
<1>4. path \in Seq(Digests) /\ Len(path) = sz
  <2>1. \A k \in 1..sz :
            DigestOf(ValueAt((pos + 1) + (2 * (k - 1)))) \in Digests
    BY DigestOfIs DEF PathTakes
  <2> QED  BY <1>2, <2>1
<1>5. received' = [blobs |-> [r \in 1..NReq |-> BlobRead(r)], path |-> path]
  BY Zenon DEF PathTakes
<1> HIDE DEF path
<1>6. received' \in Openings /\ received'.path = path
  BY <1>3, <1>4, <1>5 DEF Openings
<1>7. Readable(received'.path)
  BY <1>4, <1>6 DEF Readable, PathTakes
<1> QED  BY <1>1, <1>6, <1>7 DEF Receive, PathTakes

-----------------------------------------------------------------------------
(* Nobody but the reader moves while the proof is on its way.              *)
LEMMA OthersWait == Over("open") => ~Elsewhere
  BY DEF Over, Elsewhere, BuildTree, BeginChoosing, Choose, BeginMarking, Mark,
         BeginOpening, PushDigest, ReadDigest, SetLeaves, Rebuild, Decide,
         Turn

(* Prover and verifier do not touch what the reader has.                   *)
LEMMA ElsewhereReads == Reads /\ Elsewhere /\ UNCHANGED codec => Reads'
<1> SUFFICES ASSUME Reads, Elsewhere, UNCHANGED codec  PROVE Reads'
  OBVIOUS
<1>1. UNCHANGED <<wire, reading, part, pos, got, req, run>>
  BY DEF codec
<1>2. reading \notin Underway
  BY OthersWait DEF Reads, InTurn
<1>3. CodecTyped'
  BY <1>1 DEF Reads, CodecTyped
<1>4. InTurn'
  BY <1>1, <1>2 DEF Reads, InTurn
<1>5. ColumnsRead'
  BY <1>1 DEF Reads, ColumnsRead
<1> QED  BY <1>3, <1>4, <1>5 DEF Reads

Sent(o) ==
    /\ o \in Openings /\ Len(o.path) < Base /\ sent' = o
    /\ wire' \in Seq(Units)
    /\ intact' = (wire' = Write(o))

(* What arrives is what was written, or other units.                       *)
LEMMA SendStep == ASSUME Send  PROVE \E o \in Openings : Sent(o)
<1>1. PICK o \in Sends(opening, Digests) \cap Openings :
        /\ Len(o.path) < Base /\ sent' = o
        /\ \/ wire' = Write(o)
           \/ wire' \in Damages(Write(o)) \cap Seq(Units)
        /\ intact' = (wire' = Write(o))
  BY Zenon DEF Send
<1>2. Write(o) \in Seq(Units)
  BY <1>1, Layout DEF Written
<1>3. wire' \in Seq(Units)
  BY <1>1, <1>2
<1> QED  BY <1>1, <1>3, Zenon DEF Sent

(* The reader begins at the first byte.                                    *)
LEMMA SendReads == Reads /\ Send => Reads'
<1> SUFFICES ASSUME Reads, Send  PROVE Reads'
  OBVIOUS
<1>1. /\ reading = "nothing" /\ reading' = "first" /\ Over("open")
      /\ UNCHANGED <<part, pos, got, req, run, at, i>>
  BY DEF Send, vars
<1>2. part = 1 /\ pos = 0 /\ run = NoRun /\ NoRun.ci = 0
  BY <1>1 DEF Reads, InTurn, NoRun
<1>3. wire' \in Seq(Units)
  BY SendStep DEF Sent
<1>4. pos' \in 0..Len(wire')
  BY <1>1, <1>2, <1>3
<1>5. CodecTyped'
  BY <1>1, <1>3, <1>4 DEF Reads, CodecTyped, Underway
<1>6. 1 \in 1..Len(Parts)
  BY PartsAre
<1>7. InTurn'
  BY <1>1, <1>2, <1>6 DEF InTurn, Over, Underway
<1>8. ColumnsRead'
  BY <1>1, <1>2 DEF ColumnsRead
<1> QED  BY <1>5, <1>7, <1>8 DEF Reads

(* The nonces are the last part.                                           *)
LEMMA NoncesLast ==
    /\ Parts[Len(Parts)].places = Row("nonce", NReq)
    /\ \A r \in 1..NReq : Nonce(r) \in ToSet(Row("nonce", NReq))
<1>1. Parts[Len(Parts)] = ReadRow("nonce", NReq)
  BY PartsAre
<1>2. ASSUME NEW r \in 1..NReq  PROVE Nonce(r) \in ToSet(Row("nonce", NReq))
  BY DEF Nonce, ToSet, Row
<1> QED  BY <1>1, <1>2 DEF ReadRow

(* A part of fixed length.                                                 *)
LEMMA ReadFirstReads == Reads /\ ReadFirst => Reads'
<1> SUFFICES ASSUME Reads, ReadFirst  PROVE Reads'
  OBVIOUS
<1>1. /\ reading = "first" /\ UNCHANGED <<wire, at, i>>
      /\ part \in 1..Len(Parts) /\ run = NoRun /\ Over("open")
      /\ wire \in Seq(Units) /\ pos \in 0..Len(wire)
      /\ \A x \in DOMAIN got : got[x] \in Values
      /\ DOMAIN req = 0..Total - 1
      /\ run \in [ci : 0..Total, subfield : BOOLEAN]
  BY DEF Reads, InTurn, CodecTyped, ReadFirst, vars, Underway
<1>2. NoRun.ci = 0 /\ Total \in Nat /\ Total >= 1 /\ Len(Parts) \in Nat
  BY Sizes, PartsAre DEF NoRun
<1>3. CASE FirstFails
  <2>1. UNCHANGED <<part, pos, got, req, run>> /\ reading' = "failed"
    BY <1>3 DEF FirstFails
  <2>2. CodecTyped'
    BY <1>1, <2>1 DEF CodecTyped, Underway
  <2>3. InTurn'
    BY <1>1, <2>1 DEF InTurn, Over
  <2>4. ColumnsRead'
    BY <1>1, <1>2, <2>1 DEF ColumnsRead
  <2> QED  BY <2>2, <2>3, <2>4 DEF Reads
<1>4. CASE FirstTakes
  <2> DEFINE places == Parts[part].places
             zero == Parts[part].zero
             n == Len(places)
  <2>1. Parts[part] \in PartSet
    BY <1>1, PartsAre
  <2>2. n \in Nat
    BY <2>1 DEF PartSet
  <2>3. /\ pos' = pos + (2 * n) /\ pos' <= Len(wire)
        /\ part' = part + 1 /\ UNCHANGED <<req, run>>
        /\ reading' = IF part = Len(Parts) THEN "runs" ELSE "first"
        /\ DOMAIN got' = DOMAIN got \cup zero \cup ToSet(places)
        /\ \A x \in ToSet(places) : got'[x] \in Values
        /\ \A x \in zero \ ToSet(places) : got'[x] = 0
        /\ \A x \in DOMAIN got : x \notin zero \cup ToSet(places) =>
            got'[x] = got[x]
    BY <1>4 DEF FirstTakes
  <2> HIDE DEF n, places, zero
  <2>4. 0 \in Values
    BY Sizes DEF Values
  <2>5. ASSUME NEW x \in DOMAIN got'  PROVE got'[x] \in Values
    <3>1. CASE x \in ToSet(places)
      BY <2>3, <3>1
    <3>2. CASE x \in zero \ ToSet(places)
      BY <2>3, <2>4, <3>2
    <3>3. CASE x \notin zero \cup ToSet(places)
      <4>1. x \in DOMAIN got
        BY <2>3, <3>3
      <4> QED  BY <1>1, <2>3, <3>3, <4>1
    <3> QED  BY <3>1, <3>2, <3>3
  <2>6. pos' \in 0..Len(wire)
    <3>1. Len(wire) \in Nat
      BY <1>1
    <3> QED  BY <1>1, <2>2, <2>3, <3>1
  <2>7. reading' \in {"first", "runs"}
    BY <2>3
  <2>8. CodecTyped'
    BY <1>1, <2>3, <2>5, <2>6, <2>7 DEF CodecTyped, Underway
  <2>9. InTurn'
    <3>1. CASE part = Len(Parts)
      <4>1. reading' = "runs"
        BY <2>3, <3>1
      <4> QED  BY <1>1, <1>2, <2>3, <4>1 DEF InTurn, Over
    <3>2. CASE part # Len(Parts)
      <4>1. reading' = "first" /\ part' \in 1..Len(Parts)
        BY <1>1, <1>2, <2>3, <3>2
      <4> QED  BY <1>1, <2>3, <4>1 DEF InTurn, Over
    <3> QED  BY <3>1, <3>2
  <2>10. ColumnsRead'
    <3>1. ASSUME reading' \in {"runs", "path"}, NEW r \in 1..NReq
          PROVE  Nonce(r) \in DOMAIN got'
      <4>1. part = Len(Parts)
        BY <2>3, <3>1
      <4>2. Nonce(r) \in ToSet(places)
        BY <4>1, NoncesLast DEF places
      <4> QED  BY <2>3, <4>2
    <3> QED  BY <1>1, <1>2, <2>3, <3>1 DEF ColumnsRead
  <2> QED  BY <2>8, <2>9, <2>10 DEF Reads
<1> QED  BY <1>3, <1>4, FirstStep

(* A run of req.                                                           *)
LEMMA ReadRunReads == Reads /\ ReadRun => Reads'
<1> SUFFICES ASSUME Reads, ReadRun  PROVE Reads'
  OBVIOUS
<1>1. /\ reading = "runs" /\ UNCHANGED <<wire, at, i>> /\ Over("open")
      /\ wire \in Seq(Units) /\ pos \in 0..Len(wire) /\ Len(wire) \in Nat
      /\ \A x \in DOMAIN got : got[x] \in Values
      /\ DOMAIN req = 0..Total - 1
      /\ run \in [ci : 0..Total, subfield : BOOLEAN] /\ run.ci < Total
      /\ ColumnsRead
  BY DEF Reads, InTurn, CodecTyped, ReadRun, vars, Underway
<1>2. Total \in Nat /\ run.ci \in 0..Total /\ run.subfield \in BOOLEAN
  BY <1>1, Sizes
<1>3. CASE RunFails
  <2>1. UNCHANGED <<part, pos, got, req, run>> /\ reading' = "failed"
    BY <1>3 DEF RunFails
  <2>2. CodecTyped'
    BY <1>1, <2>1 DEF CodecTyped, Underway
  <2>3. InTurn'
    BY <1>1, <2>1 DEF InTurn, Over
  <2>4. ColumnsRead'
    BY <1>1, <2>1 DEF ColumnsRead
  <2> QED  BY <2>2, <2>3, <2>4 DEF Reads
<1>4. ASSUME NEW n \in Units, RunTakes(n)  PROVE Reads'
  <2> DEFINE end == run.ci + n
  <2>1. n \in Nat
    BY Sizes DEF Units
  <2>2. /\ end <= Total /\ end \in 0..Total
        /\ pos' = (pos + 1) + (2 * n) /\ pos' <= Len(wire)
        /\ run' = [ci |-> end, subfield |-> ~run.subfield]
        /\ DOMAIN req' = DOMAIN req
        /\ reading' = IF end < Total THEN "runs" ELSE "path"
        /\ UNCHANGED <<part, got>>
    <3>1. end <= Total
      BY <1>4 DEF RunTakes
    <3>2. end \in 0..Total
      BY <1>2, <2>1, <3>1
    <3> QED  BY <1>4, <3>1, <3>2 DEF RunTakes
  <2>3. ASSUME NEW k \in 0..end - 1  PROVE req'[k] \in 0..Modulus - 1
    <3>1. k \in DOMAIN req
      BY <1>1, <1>2, <2>2
    <3>2. CASE k \in run.ci..end - 1
      BY <1>4, <3>1, <3>2 DEF RunTakes
    <3>3. CASE k \notin run.ci..end - 1
      <4>1. k \in 0..run.ci - 1
        BY <1>2, <2>2, <3>3
      <4>2. req'[k] = req[k]
        BY <1>4, <3>1, <3>3 DEF RunTakes
      <4> QED  BY <1>1, <4>1, <4>2 DEF ColumnsRead
    <3> QED  BY <3>2, <3>3
  <2> HIDE DEF end
  <2>4. pos' \in 0..Len(wire)
    BY <1>1, <2>1, <2>2
  <2>5. run' \in [ci : 0..Total, subfield : BOOLEAN] /\ run'.ci = end
    BY <1>2, <2>2
  <2>6. CodecTyped'
    BY <1>1, <2>2, <2>4, <2>5 DEF CodecTyped, Underway
  <2>7. InTurn'
    <3>1. CASE end < Total
      BY <1>1, <2>2, <2>5, <3>1 DEF InTurn, Over
    <3>2. CASE ~(end < Total)
      <4>1. end = Total
        BY <1>2, <2>2, <3>2
      <4> QED  BY <1>1, <2>2, <2>5, <3>2, <4>1 DEF InTurn, Over
    <3> QED  BY <3>1, <3>2
  <2>8. ColumnsRead'
    BY <1>1, <2>2, <2>3, <2>5 DEF ColumnsRead
  <2> QED  BY <2>6, <2>7, <2>8 DEF Reads
<1> QED  BY <1>3, <1>4, RunStep

(* The path, which is the end.                                             *)
LEMMA ReadPathReads == Reads /\ ReadPath => Reads'
<1> SUFFICES ASSUME Reads, ReadPath  PROVE Reads'
  OBVIOUS
<1>1. /\ reading = "path" /\ UNCHANGED wire /\ Over("open")
      /\ wire \in Seq(Units) /\ pos \in 0..Len(wire) /\ Len(wire) \in Nat
      /\ CodecTyped /\ ColumnsRead /\ run.ci = Total
  BY DEF Reads, InTurn, CodecTyped, ReadPath, Underway
<1>2. CASE PathFails
  <2>1. UNCHANGED <<part, pos, got, req, run, at, i>> /\ reading' = "failed"
    BY <1>2 DEF PathFails, vars
  <2>2. CodecTyped'
    BY <1>1, <2>1 DEF CodecTyped, Underway
  <2>3. InTurn'
    BY <1>1, <2>1 DEF InTurn, Over
  <2>4. ColumnsRead'
    BY <1>1, <2>1 DEF ColumnsRead
  <2> QED  BY <2>2, <2>3, <2>4 DEF Reads
<1>3. ASSUME NEW sz \in Units, PathTakes(sz)  PROVE Reads'
  <2>1. sz \in Nat
    BY Sizes DEF Units
  <2>2. /\ pos' = (pos + 1) + (2 * sz) /\ pos' <= Len(wire)
        /\ reading' = "done" /\ UNCHANGED <<part, got, req, run>>
    BY <1>3 DEF PathTakes
  <2>3. pos' \in 0..Len(wire)
    BY <1>1, <2>1, <2>2
  <2>4. CodecTyped'
    BY <1>1, <2>2, <2>3 DEF CodecTyped
  <2>5. InTurn'
    BY <2>2 DEF InTurn, Underway
  <2>6. ColumnsRead'
    BY <1>1, <2>2 DEF ColumnsRead
  <2> QED  BY <2>4, <2>5, <2>6 DEF Reads
<1> QED  BY <1>2, <1>3, PathStep

(* The reader's invariant is inductive by itself.                          *)
LEMMA ReadsInductive == Reads /\ [CodecNext]_<<vars, codec>> => Reads'
<1> SUFFICES ASSUME Reads, [CodecNext]_<<vars, codec>>  PROVE Reads'
  OBVIOUS
<1>1. CASE Elsewhere /\ UNCHANGED codec
  BY <1>1, ElsewhereReads
<1>2. CASE Send
  BY <1>2, SendReads
<1>3. CASE ReadFirst
  BY <1>3, ReadFirstReads
<1>4. CASE ReadRun
  BY <1>4, ReadRunReads
<1>5. CASE ReadPath
  BY <1>5, ReadPathReads
<1>6. CASE UNCHANGED <<vars, codec>>
  BY <1>6 DEF Reads, CodecTyped, InTurn, ColumnsRead, vars, codec, Over
<1> QED  BY <1>1, <1>2, <1>3, <1>4, <1>5, <1>6 DEF CodecNext

(* NeverReadsPastTheEnd, for every layout of a proof that the sizes allow  *)
(* and whatever its bytes have become: ReadBuffer::next never ends the     *)
(* process.                                                                *)
THEOREM NeverPastTheEnd == CodecSpec => []NeverReadsPastTheEnd
<1>1. Reads => NeverReadsPastTheEnd
  BY DEF Reads, CodecTyped, Underway, NeverReadsPastTheEnd
<1> QED  BY <1>1, ReadsInitially, ReadsInductive, PTL DEF CodecSpec

(* CarriesOutTheOpening: what is read of any bytes is an opening           *)
(* MerkleOpening allows for, so that what is proved of it, AcceptedIs-     *)
(* Committed above all, holds of what arrives as bytes.                    *)
THEOREM ReadIsAnOpening == CodecSpec => CarriesOutTheOpening
<1>1. CodecInit => Init
  BY DEF CodecInit
<1>2. ASSUME Reads, [CodecNext]_<<vars, codec>>  PROVE [Next]_vars
  <2>1. CASE Elsewhere
    BY <2>1 DEF Elsewhere, Next
  <2>2. CASE Send
    BY <2>2, Zenon DEF Send
  <2>3. CASE ReadFirst
    BY <2>3, Zenon DEF ReadFirst
  <2>4. CASE ReadRun
    BY <2>4, Zenon DEF ReadRun
  <2>5. CASE ReadPath
    <3>1. CASE PathFails
      BY <3>1, Zenon DEF PathFails
    <3>2. ASSUME NEW sz \in Units, PathTakes(sz)  PROVE Receive
      <4>1. reading = "path"
        BY <2>5 DEF ReadPath
      <4> QED  BY <1>2, <3>2, <4>1, PathReceives
    <3> QED  BY <1>2, <2>5, <3>1, <3>2, PathStep DEF Next
  <2>6. CASE UNCHANGED <<vars, codec>>
    BY <2>6
  <2> QED  BY <1>2, <2>1, <2>2, <2>3, <2>4, <2>5, <2>6 DEF CodecNext
<1> QED
  BY <1>1, <1>2, ReadsInitially, ReadsInductive, PTL
    DEF CodecSpec, CarriesOutTheOpening, Spec

-----------------------------------------------------------------------------
(* Bytes as they were written.                                             *)
Before == CHOOSE f : Follows(f)

(* Where each part begins among the writer's places.                       *)
LEMMA BeforeIs ==
    /\ Before[0] = <<>> /\ Before[Len(Parts)] = WrittenFirst
    /\ Len(Parts) \in Nat
    /\ \A n \in 0..Len(Parts) : Before[n] \in Seq(Places)
    /\ \A n \in 1..Len(Parts) :
        /\ Before[n] = Before[n - 1] \o Parts[n].places
        /\ Parts[n].places \in Seq(Places) /\ Parts[n].zero \subseteq Zeros
        /\ Len(Before[n]) = Len(Before[n - 1]) + Len(Parts[n].places)
        /\ Len(Before[n]) <= Len(WrittenFirst)
        /\ \A k \in 1..Len(Parts[n].places) :
            WrittenFirst[Len(Before[n - 1]) + k] = Parts[n].places[k]
<1>1. Follows(Before)
  BY PartsFollow DEF Before
<1>2. Len(Parts) \in Nat /\ \A n \in 1..Len(Parts) : Parts[n] \in PartSet
  BY PartsAre
<1>3. Before[Len(Parts)] = WrittenFirst
  BY <1>1, PartsFollow
<1>4. FlattenSeq(PartPlaces) = WrittenFirst
  BY <1>1, <1>3 DEF Follows
<1>5. /\ Before \in [0..Len(Parts) -> Seq(Places)]
      /\ Before[0] = <<>>
      /\ \A n \in 1..Len(Parts) : Before[n] = Before[n - 1] \o PartPlaces[n]
  BY <1>1 DEF Follows, Steps
<1>6. \A n \in 1..Len(Parts) :
        PartPlaces[n] = Parts[n].places /\ PartPlaces[n] \in Seq(Places)
  BY <1>2 DEF PartPlaces, PartSet
<1>7. Len(PartPlaces) = Len(Parts)
  BY <1>2 DEF PartPlaces
<1>8. \A n \in 1..Len(Parts) :
        /\ Len(Before[n]) = Len(Before[n - 1]) + Len(PartPlaces[n])
        /\ Len(Before[n]) <= Len(WrittenFirst)
        /\ \A k \in 1..Len(PartPlaces[n]) :
            WrittenFirst[Len(Before[n - 1]) + k] = PartPlaces[n][k]
  BY <1>1, <1>4, <1>7 DEF Follows, Laid
<1>9. \A n \in 1..Len(Parts) : Parts[n].zero \subseteq Zeros
  BY <1>2 DEF PartSet
<1> QED  BY <1>2, <1>3, <1>5, <1>6, <1>8, <1>9

(* p(1) is not sent.                                                       *)
LEMMA ZerosApart == Zeros \cap Places = {}
<1> SUFFICES ASSUME NEW x \in Zeros, x \in Places  PROVE FALSE
  OBVIOUS
<1>1. x[1] = "hp" /\ x[5] = 1 /\ Len(x) = 5
  BY DEF Zeros
<1>2. CASE x = <<"root">>
  BY <1>1, <1>2
<1>3. CASE x \in {"hp"} \X Nat \X {0, 1} \X Nat \X {0, 2}
  BY <1>1, <1>3
<1>4. CASE x \in {"wc"} \X Nat \X {0, 1}
  BY <1>1, <1>4
<1>5. CASE x \in (Rows \ {"nonce"}) \X Nat
  BY <1>1, <1>5 DEF Rows
<1>6. CASE x \in {"nonce"} \X (1..NReq)
  BY <1>1, <1>6
<1> QED  BY <1>2, <1>3, <1>4, <1>5, <1>6 DEF Places

(* The members of two sequences are those of both together.                *)
LEMMA ToSetJoins ==
    ASSUME NEW S, NEW a \in Seq(S), NEW b \in Seq(S)
    PROVE  ToSet(a \o b) = ToSet(a) \cup ToSet(b) /\ ToSet(a) \subseteq S
<1> DEFINE c == a \o b
<1>1. c \in Seq(S) /\ Joins(a, b, c)
  BY Joined, Zenon
<1>2. DOMAIN a = 1..Len(a) /\ DOMAIN b = 1..Len(b) /\ DOMAIN c = 1..Len(c)
  BY <1>1
<1> HIDE DEF c
<1>3. ASSUME NEW x \in ToSet(c)  PROVE x \in ToSet(a) \cup ToSet(b)
  <2>1. PICK m \in 1..Len(c) : x = c[m]
    BY <1>2 DEF ToSet
  <2>2. CASE m \in 1..Len(a)
    BY <1>1, <1>2, <2>1, <2>2 DEF ToSet, Joins
  <2>3. CASE m \notin 1..Len(a)
    <3>1. m - Len(a) \in 1..Len(b) /\ m = Len(a) + (m - Len(a))
      BY <1>1, <2>3 DEF Joins
    <3>2. x = b[m - Len(a)]
      BY <1>1, <2>1, <3>1 DEF Joins
    <3> QED  BY <1>2, <3>1, <3>2 DEF ToSet
  <2> QED  BY <2>2, <2>3
<1>4. ASSUME NEW x \in ToSet(a)  PROVE x \in ToSet(c)
  <2>1. PICK m \in 1..Len(a) : x = a[m]
    BY <1>2 DEF ToSet
  <2>2. m \in 1..Len(c) /\ c[m] = x
    BY <1>1, <2>1 DEF Joins
  <2> QED  BY <1>2, <2>2 DEF ToSet
<1>5. ASSUME NEW x \in ToSet(b)  PROVE x \in ToSet(c)
  <2>1. PICK m \in 1..Len(b) : x = b[m]
    BY <1>2 DEF ToSet
  <2>2. Len(a) + m \in 1..Len(c) /\ c[Len(a) + m] = x
    BY <1>1, <2>1 DEF Joins
  <2> QED  BY <1>2, <2>2 DEF ToSet
<1>6. ToSet(a) \subseteq S
  <2>1. \A m \in DOMAIN a : a[m] \in S
    OBVIOUS
  <2> QED  BY <2>1 DEF ToSet
<1>7. ToSet(c) = ToSet(a) \cup ToSet(b)
  BY <1>3, <1>4, <1>5
<1> QED  BY <1>6, <1>7 DEF c

(* What was spelled is what is read.                                       *)
LEMMA SpelledValue ==
    ASSUME NEW p, NEW v \in Values, Spells(wire, p, Bytes(v))
    PROVE  ValueAt(p) = v
  BY BytesAre DEF Spells, ValueAt

(* No two values have the same bytes.                                      *)
LEMMA SameBytes ==
    ASSUME NEW v \in Values, NEW w \in Values, Bytes(v) = Bytes(w)
    PROVE  v = w
<1>1. Bytes(v)[1] + (Base * Bytes(v)[2]) = v
  BY BytesAre
<1>2. Bytes(w)[1] + (Base * Bytes(w)[2]) = w
  BY BytesAre
<1> QED  BY <1>1, <1>2

(* The places of a part hold what was written there.                       *)
LEMMA FirstHeld ==
    ASSUME sent \in Openings, Written(sent, wire), part \in 1..Len(Parts),
           pos = 2 * Len(Before[part - 1]),
           NEW k \in 1..Len(Parts[part].places)
    PROVE  \E v \in Values :
            /\ Held(Parts[part].places[k], sent) = Bytes(v)
            /\ ValueAt(pos + (2 * (k - 1))) = v
            /\ Parts[part].places[k][1] \in Exempt \/ v < Modulus
<1> DEFINE m == Len(Before[part - 1]) + k
           N == Len(WrittenFirst)
           b == Len(Before[part - 1])
           n == Len(Parts[part].places)
<1>1. /\ WrittenFirst[m] = Parts[part].places[k]
      /\ Len(Before[part]) = b + n /\ Len(Before[part]) <= N
  BY BeforeIs
<1>2. b \in Nat /\ n \in Nat /\ N \in Nat /\ DOMAIN WrittenFirst = 1..N
  <2>1. part - 1 \in 0..Len(Parts)
    BY BeforeIs
  <2>2. Before[part - 1] \in Seq(Places) /\ Parts[part].places \in Seq(Places)
    BY <2>1, BeforeIs
  <2> QED  BY <2>2, FirstTyped
<1>3. m \in 1..N /\ 0 + (2 * (m - 1)) = pos + (2 * (k - 1))
  <2>1. m = b + k /\ pos = 2 * b /\ k \in 1..n /\ b + n <= N
    BY <1>1
  <2>2. b \in Nat /\ n \in Nat /\ N \in Nat
    BY <1>2
  <2> HIDE DEF m, b, n, N
  <2>3. m \in 1..N
    BY ONLY <2>1, <2>2
  <2>4. 0 + (2 * (m - 1)) = pos + (2 * (k - 1))
    BY ONLY <2>1, <2>2
  <2> QED  BY <2>3, <2>4
<1> HIDE DEF m
<1>4. PICK v \in Values :
        /\ Held(WrittenFirst[m], sent) = Bytes(v)
        /\ WrittenFirst[m][1] \in Exempt \/ v < Modulus
  BY <1>2, <1>3, HeldReads
<1>5. Spells(wire, 0 + (2 * (m - 1)), FirstBytes(sent)[m])
  <2>1. Len(FirstBytes(sent)) = N
    BY AllPairs
  <2> QED  BY <1>3, <2>1 DEF Written, Spelled
<1>6. FirstBytes(sent)[m] = Bytes(v)
  BY <1>2, <1>3, <1>4 DEF FirstBytes
<1>7. ValueAt(0 + (2 * (m - 1))) = v
  BY <1>5, <1>6, SpelledValue
<1> QED  BY <1>1, <1>3, <1>4, <1>7

-----------------------------------------------------------------------------
(* Where the reader is in an untouched proof, and what it has of it.       *)
Known(places) ==
    \A x \in ToSet(places) : x \in DOMAIN got /\ Bytes(got[x]) = Held(x, sent)

Zeroed(n) ==
    \A m \in 1..n : \A x \in Parts[m].zero : x \in DOMAIN got /\ got[x] = 0

AfterReading == {"read", "rebuild", "accepted", "rejected"}

WireAsSent ==
    reading \in Underway => sent \in Openings /\ Written(sent, wire)

FirstAsSent ==
    /\ reading = "first" =>
        /\ pos = 2 * Len(Before[part - 1])
        /\ Known(Before[part - 1]) /\ Zeroed(part - 1)
    /\ reading \in {"runs", "path", "done"} =>
        Known(WrittenFirst) /\ Zeroed(Len(Parts))

RestAsSent ==
    /\ reading = "runs" =>
        run.ci = 0 /\ pos = IF run.subfield THEN First + 1 ELSE First
    /\ reading = "path" =>
        pos = PathAt /\ \A k \in 0..Total - 1 : req[k] = ReqOf(sent)[k]
    /\ reading = "done" => received = sent /\ pos = Len(wire)
    /\ reading = "failed" =>
        Len(sent.path) < NReq \/ Len(sent.path) > Len(opening.path)

AsSent ==
    /\ reading = "done" => at \in AfterReading
    /\ intact => WireAsSent /\ FirstAsSent /\ RestAsSent

(* Nothing has been sent.                                                  *)
LEMMA AsSentInitially == CodecInit => AsSent
  BY DEF CodecInit, AsSent, WireAsSent, FirstAsSent, RestAsSent, Underway

(* The bytes mean what they meant as long as the tree stands.              *)
LEMMA SameLayout ==
    ASSUME UNCHANGED <<layers, sent, wire>>
    PROVE  /\ WireAsSent /\ reading \in Underway =>
                sent' \in Openings' /\ Written(sent, wire)'
           /\ \A x : Held(x, sent)' = Held(x, sent)
<1> sent' = sent /\ wire' = wire /\ layers' = layers
  OBVIOUS
<1>1. \A d : DigestBytes(d)' = DigestBytes(d)
  BY Zenon DEF DigestBytes
<1>2. \A x : Held(x, sent)' = Held(x, sent)
  <2> TAKE x
  <2>1. DigestBytes(layers[1])' = DigestBytes(layers[1])
    BY Zenon DEF DigestBytes
  <2> QED  BY <2>1, Zenon DEF Held
<1>3. Openings' = Openings
  BY Zenon DEF Openings, Digests
<1>4. FirstBytes(sent)' = FirstBytes(sent)
  BY <1>2, Zenon DEF FirstBytes
<1>5. PathBytes(sent)' = PathBytes(sent)
  BY Zenon DEF PathBytes, DigestBytes
<1>6. ReqBytes(sent)' = ReqBytes(sent)
  BY DEF ReqBytes, ReqOf
<1>7. Written(sent, wire) => Written(sent, wire)'
  BY <1>4, <1>5, <1>6, Zenon DEF Written, Spelled, Spells
<1> QED  BY <1>2, <1>3, <1>7 DEF WireAsSent

(* Others leave alone what was read, and the digests it was read with.     *)
LEMMA ElsewhereAsSent ==
    ASSUME Reads, AsSent, Elsewhere, UNCHANGED codec
    PROVE  AsSent'
<1>1. /\ UNCHANGED <<sent, wire, intact, reading, part, pos, got, req, run>>
      /\ reading \notin Underway
  BY OthersWait DEF codec, Reads, InTurn
<1>2. CASE reading # "done"
  <2>1. reading = "nothing"
    BY <1>1, <1>2 DEF Reads, CodecTyped
  <2> QED
    BY <1>1, <2>1 DEF AsSent, WireAsSent, FirstAsSent, RestAsSent, Underway
<1>3. CASE reading = "done"
  <2>1. at \in AfterReading
    BY <1>3 DEF AsSent
  <2>2. /\ ReadDigest \/ SetLeaves \/ Rebuild \/ Decide
    BY <2>1 DEF Elsewhere, BuildTree, BeginChoosing, Choose, BeginMarking,
                Mark, BeginOpening, PushDigest, Turn, Over, AfterReading
  <2>3. UNCHANGED <<layers, received>> /\ at' \in AfterReading
    BY <2>2 DEF ReadDigest, SetLeaves, Rebuild, Decide, Turn, Start,
                AfterReading, prover, verifier
  <2>4. \A x : Held(x, sent)' = Held(x, sent)
    BY <1>1, <2>3, SameLayout
  <2>5. Known(WrittenFirst) => Known(WrittenFirst)'
    BY <1>1, <2>4, Zenon DEF Known
  <2>6. Zeroed(Len(Parts)) => Zeroed(Len(Parts))'
    BY <1>1, Zenon DEF Zeroed
  <2>7. intact => FirstAsSent /\ RestAsSent
    BY DEF AsSent
  <2> QED
    BY <1>1, <1>3, <2>3, <2>5, <2>6, <2>7
        DEF AsSent, WireAsSent, FirstAsSent, RestAsSent, Underway
<1> QED  BY <1>2, <1>3

(* The reader of an untouched proof begins where it does.                  *)
LEMMA SendAsSent ==
    ASSUME Reads, Send
    PROVE  AsSent'
<1>1. /\ reading = "nothing" /\ reading' = "first"
      /\ UNCHANGED <<part, pos, got, layers>>
  BY DEF Send, vars, prover
<1>2. part = 1 /\ pos = 0
  BY <1>1 DEF Reads, InTurn
<1>3. PICK o \in Openings : Sent(o)
  BY SendStep
<1>4. ASSUME intact'  PROVE WireAsSent'
  <2>1. wire' = Write(o) /\ sent' = o
    BY <1>3, <1>4 DEF Sent
  <2>2. Written(o, wire')
    BY <1>3, <2>1, Layout DEF Sent
  <2>3. Openings' = Openings
    BY <1>1, Zenon DEF Openings, Digests
  <2>4. Written(sent, wire)'
    <3>1. FirstBytes(sent)' = FirstBytes(o)
      BY <1>1, <2>1, Zenon DEF FirstBytes, Held, DigestBytes
    <3>2. PathBytes(sent)' = PathBytes(o)
      BY <1>1, <2>1, Zenon DEF PathBytes, DigestBytes
    <3>3. ReqBytes(sent)' = ReqBytes(o)
      BY <2>1 DEF ReqBytes, ReqOf
    <3> QED  BY <2>1, <2>2, <3>1, <3>2, <3>3, Zenon DEF Written, Spelled, Spells
  <2> QED  BY <2>1, <2>3, <2>4 DEF WireAsSent
<1>5. FirstAsSent'
  <2>1. part' - 1 = 0 /\ Before[0] = <<>> /\ ToSet(<<>>) = {}
    BY <1>1, <1>2, BeforeIs DEF ToSet
  <2>2. Known(Before[part - 1])' /\ Zeroed(part - 1)'
    BY <2>1 DEF Known, Zeroed
  <2>3. pos' = 2 * Len(Before[part' - 1])
    BY <1>1, <1>2, <2>1
  <2> QED  BY <1>1, <2>2, <2>3 DEF FirstAsSent
<1>6. RestAsSent'
  BY <1>1 DEF RestAsSent
<1> QED  BY <1>1, <1>4, <1>5, <1>6 DEF AsSent

(* Each part of fixed length is found at its beginning and in order, and   *)
(* no check refuses it.                                                    *)
LEMMA ReadFirstAsSent ==
    ASSUME Reads, AsSent, ReadFirst
    PROVE  AsSent'
<1>1. /\ reading = "first" /\ reading' # "done"
      /\ UNCHANGED <<sent, wire, intact, layers>>
      /\ part \in 1..Len(Parts)
      /\ \A x \in DOMAIN got : got[x] \in Values
      /\ Len(wire) \in Nat /\ wire \in Seq(Units)
  <2>1. reading' # "done"
    BY FirstStep DEF FirstFails, FirstTakes
  <2> QED
    BY <2>1 DEF Reads, InTurn, CodecTyped, ReadFirst, vars, prover
<1>2. SUFFICES ASSUME intact  PROVE WireAsSent' /\ FirstAsSent' /\ RestAsSent'
  BY <1>1 DEF AsSent
<1>3. /\ sent \in Openings /\ Written(sent, wire)
      /\ pos = 2 * Len(Before[part - 1])
      /\ Known(Before[part - 1]) /\ Zeroed(part - 1) /\ WireAsSent
  BY <1>1, <1>2 DEF AsSent, WireAsSent, FirstAsSent, Underway
<1> DEFINE places == Parts[part].places
           zero == Parts[part].zero
           n == Len(places)
           b == Len(Before[part - 1])
           N == Len(WrittenFirst)
<1>4. /\ Len(Parts) \in Nat
      /\ Before[part] = Before[part - 1] \o places
      /\ Before[part - 1] \in Seq(Places)
      /\ places \in Seq(Places) /\ zero \subseteq Zeros
      /\ Len(Before[part]) = b + n /\ Len(Before[part]) <= N
      /\ n \in Nat /\ b \in Nat /\ N \in Nat
  <2>1. part - 1 \in 0..Len(Parts)
    BY <1>1, BeforeIs
  <2>2. Before[part - 1] \in Seq(Places) /\ places \in Seq(Places)
    BY <1>1, <2>1, BeforeIs
  <2>3. n \in Nat /\ b \in Nat /\ N \in Nat
    BY <2>2, FirstTyped
  <2>4. /\ Before[part] = Before[part - 1] \o places /\ zero \subseteq Zeros
        /\ Len(Before[part]) = b + n /\ Len(Before[part]) <= N
    BY <1>1, BeforeIs
  <2> HIDE DEF n, b, N, places, zero
  <2> QED  BY <2>2, <2>3, <2>4, BeforeIs
<1>5. \A k \in 1..n :
        \E v \in Values :
            /\ Held(places[k], sent) = Bytes(v)
            /\ ValueAt(pos + (2 * (k - 1))) = v
            /\ places[k][1] \in Exempt \/ v < Modulus
  BY <1>1, <1>3, FirstHeld
<1>6. WireAsSent'
  BY <1>1, <1>3, SameLayout DEF WireAsSent, Underway
<1>7. ~FirstFails
  <2> SUFFICES ASSUME FirstFails  PROVE FALSE
    OBVIOUS
  <2>1. pos + (2 * n) <= Len(wire)
    <3>1. Len(wire) = PathAt + 1 + (2 * Len(sent.path)) /\ Len(sent.path) \in Nat
      BY <1>3, AllPairs DEF Written
    <3>2. PathAt = ((2 * N) + 2) + (2 * Total) /\ Total \in Nat
      BY Sizes DEF PathAt, First
    <3> DEFINE T == Total
               L == Len(sent.path)
               W == Len(wire)
               U == PathAt
    <3>3. b + n <= N /\ pos = 2 * b /\ n \in Nat /\ b \in Nat /\ N \in Nat
      BY <1>3, <1>4
    <3>4. /\ W = U + 1 + (2 * L) /\ L \in Nat
          /\ U = ((2 * N) + 2) + (2 * T) /\ T \in Nat
      BY <3>1, <3>2
    <3> HIDE DEF n, b, N, T, L, W, U
    <3>5. pos + (2 * n) <= W
      BY ONLY <3>3, <3>4
    <3> QED  BY <3>5 DEF W
  <2>2. PICK k \in 1..n : ~Fits(places[k], Nth(pos, k))
    <3>1. ~(pos + (2 * n) > Len(wire))
      <4>1. pos \in Nat
        BY <1>3, <1>4
      <4> QED  BY <1>1, <1>4, <2>1, <4>1
    <3> QED  BY <3>1 DEF FirstFails
  <2>3. Nth(pos, k) = pos + (2 * (k - 1))
    BY DEF Nth, kBytes
  <2>4. Fits(places[k], Nth(pos, k))
    BY <1>5, <2>3 DEF Fits, Exempt
  <2> QED  BY <2>2, <2>4
<1>8. FirstTakes
  BY <1>7, FirstStep
<1>9. /\ pos' = pos + (2 * n) /\ part' = part + 1 /\ UNCHANGED run
      /\ reading' = IF part = Len(Parts) THEN "runs" ELSE "first"
      /\ DOMAIN got' = DOMAIN got \cup zero \cup ToSet(places)
      /\ \A x \in ToSet(places) :
            \E k \in 1..n : /\ places[k] = x
                            /\ got'[x] = ValueAt(pos + (2 * (k - 1)))
      /\ \A x \in zero \ ToSet(places) : got'[x] = 0
      /\ \A x \in DOMAIN got : x \notin zero \cup ToSet(places) =>
            got'[x] = got[x]
  BY <1>8 DEF FirstTakes
<1>10. /\ ToSet(Before[part]) = ToSet(Before[part - 1]) \cup ToSet(places)
       /\ ToSet(Before[part - 1]) \subseteq Places /\ ToSet(places) \subseteq Places
  <2>1. ToSet(Before[part]) = ToSet(Before[part - 1]) \cup ToSet(places)
    BY <1>4, ToSetJoins
  <2>2. ToSet(Before[part - 1]) \subseteq Places
    BY <1>4, ToSetJoins
  <2>3. ToSet(places) \subseteq Places
    BY <1>4, ToSetJoins
  <2> QED  BY <2>1, <2>2, <2>3
<1> HIDE DEF places, zero, n, b, N
<1>11. ASSUME NEW x \in ToSet(Before[part])
       PROVE  x \in DOMAIN got' /\ Bytes(got'[x]) = Held(x, sent)
  <2>1. CASE x \in ToSet(places)
    <3>1. PICK k \in 1..n : /\ places[k] = x
                            /\ got'[x] = ValueAt(pos + (2 * (k - 1)))
      BY <1>9, <2>1
    <3> QED  BY <1>5, <1>9, <2>1, <3>1
  <2>2. CASE x \notin ToSet(places)
    <3>1. x \in ToSet(Before[part - 1]) /\ x \notin zero
      BY <1>4, <1>10, <2>2, ZerosApart
    <3>2. x \in DOMAIN got /\ Bytes(got[x]) = Held(x, sent)
      BY <1>3, <3>1 DEF Known
    <3> QED  BY <1>9, <2>2, <3>1, <3>2
  <2> QED  BY <2>1, <2>2
<1>12. ASSUME NEW m \in 1..part, NEW x \in Parts[m].zero
       PROVE  x \in DOMAIN got' /\ got'[x] = 0
  <2>1. m \in 1..Len(Parts) /\ x \in Zeros
    <3>1. m \in 1..Len(Parts)
      BY <1>1, <1>4
    <3> QED  BY <3>1, BeforeIs
  <2>2. x \notin ToSet(places)
    BY <1>10, <2>1, ZerosApart
  <2>3. CASE x \in zero
    BY <1>9, <2>2, <2>3
  <2>4. CASE x \notin zero
    <3>1. m \in 1..part - 1
      BY <1>1, <2>4 DEF zero
    <3>2. x \in DOMAIN got /\ got[x] = 0
      BY <1>3, <3>1 DEF Zeroed
    <3> QED  BY <1>9, <2>2, <2>4, <3>2
  <2> QED  BY <2>3, <2>4
<1>13. Known(Before[part - 1])' /\ Zeroed(part - 1)' /\ part' - 1 = part
  <2>1. \A x : Held(x, sent)' = Held(x, sent)
    BY <1>1, SameLayout
  <2> HIDE DEF Before
  <2>2. \A x \in ToSet(Before[part]) :
            x \in DOMAIN got' /\ Bytes(got'[x]) = Held(x, sent)'
    BY <1>11, <2>1
  <2>3. part' - 1 = part
    BY <1>1, <1>4, <1>9
  <2>4. Known(Before[part - 1])'
    BY <2>2, <2>3, Zenon DEF Known
  <2>5. Zeroed(part - 1)'
    BY <1>12, <2>3, Zenon DEF Zeroed
  <2> QED  BY <2>3, <2>4, <2>5
<1>14. FirstAsSent'
  <2>1. CASE part = Len(Parts)
    <3>1. reading' = "runs" /\ Before[part' - 1] = WrittenFirst
      BY <1>9, <1>13, <2>1, BeforeIs
    <3>2. Known(WrittenFirst)' /\ Zeroed(Len(Parts))'
      <4>1. Known(WrittenFirst)'
        BY <1>13, <3>1, Zenon DEF Known
      <4>2. Zeroed(Len(Parts))'
        BY <1>13, <2>1, Zenon DEF Zeroed
      <4> QED  BY <4>1, <4>2
    <3> QED  BY <3>1, <3>2 DEF FirstAsSent
  <2>2. CASE part # Len(Parts)
    <3>1. reading' = "first"
      BY <1>9, <2>2
    <3>2. pos' = 2 * Len(Before[part' - 1])
      <4>1. pos' = (2 * b) + (2 * n)
        BY <1>3, <1>9 DEF b
      <4>2. Len(Before[part' - 1]) = b + n
        BY <1>4, <1>13
      <4> QED  BY <1>4, <4>1, <4>2
    <3> QED  BY <1>13, <3>1, <3>2 DEF FirstAsSent
  <2> QED  BY <2>1, <2>2
<1>15. RestAsSent'
  <2>1. CASE part = Len(Parts)
    <3>1. run = NoRun /\ run.ci = 0 /\ run.subfield = FALSE
      BY <1>1 DEF Reads, InTurn, NoRun
    <3>2. Len(Before[part]) = N
      BY <2>1, BeforeIs DEF N
    <3>3. pos' = First
      <4>1. pos' = (2 * b) + (2 * n) /\ b + n = N /\ First = 2 * N
        BY <1>3, <1>4, <1>9, <3>2 DEF First, N, b
      <4> QED  BY <1>4, <4>1
    <3>4. reading' = "runs"
      BY <1>9, <2>1
    <3> QED  BY <1>9, <3>1, <3>3, <3>4 DEF RestAsSent
  <2>2. CASE part # Len(Parts)
    BY <1>9, <2>2 DEF RestAsSent
  <2> QED  BY <2>1, <2>2
<1> QED  BY <1>6, <1>14, <1>15

(* The runs: none of full elements, then all of them from the subfield.    *)
LEMMA ReadRunAsSent ==
    ASSUME Reads, AsSent, ReadRun
    PROVE  AsSent'
<1>1. /\ reading = "runs" /\ reading' # "done"
      /\ UNCHANGED <<sent, wire, intact, layers>>
      /\ Len(wire) \in Nat /\ DOMAIN req = 0..Total - 1
      /\ run \in [ci : 0..Total, subfield : BOOLEAN]
  <2>1. reading' # "done"
    BY RunStep DEF RunFails, RunTakes
  <2> QED
    BY <2>1 DEF Reads, InTurn, CodecTyped, ReadRun, vars, prover
<1>2. SUFFICES ASSUME intact  PROVE WireAsSent' /\ FirstAsSent' /\ RestAsSent'
  BY <1>1 DEF AsSent
<1>3. /\ sent \in Openings /\ Written(sent, wire) /\ WireAsSent
      /\ Known(WrittenFirst) /\ Zeroed(Len(Parts))
      /\ run.ci = 0 /\ pos = IF run.subfield THEN First + 1 ELSE First
  BY <1>1, <1>2 DEF AsSent, WireAsSent, FirstAsSent, RestAsSent, Underway
<1>4. WireAsSent'
  BY <1>1, <1>3, SameLayout DEF WireAsSent, Underway
<1> DEFINE T == Total
           F == First
           L == Len(sent.path)
           W == Len(wire)
<1>5. /\ T \in Nat /\ T >= 1 /\ F \in Nat /\ L \in Nat /\ W \in Nat
      /\ W = ((F + 2) + (2 * T)) + 1 + (2 * L)
      /\ wire[F + 1] = 0 /\ wire[F + 2] = T /\ T < MaxRunLen
      /\ MaxRunLen \in Nat /\ PathAt = (F + 2) + (2 * T)
  <2>1. F \in Nat
    BY FirstTyped DEF First
  <2> QED  BY <1>1, <1>3, <2>1, AllPairs, Sizes DEF Written, PathAt
<1>6. \A k \in 1..T :
        /\ ReqOf(sent)[k - 1] \in 0..Modulus - 1
        /\ ValueAt((F + 2) + (2 * (k - 1))) = ReqOf(sent)[k - 1]
  <2> TAKE k \in 1..T
  <2>1. k - 1 \in 0..Total - 1
    BY <1>5
  <2>2. /\ ReqOf(sent)[k - 1] \in Values
        /\ ReqOf(sent)[k - 1] \in 0..Modulus - 1
    BY <1>3, <2>1, ReqTyped
  <2>3. Len(ReqBytes(sent)) = Total
    BY <1>3, AllPairs
  <2>4. Spells(wire, (F + 2) + (2 * (k - 1)), ReqBytes(sent)[k])
    BY <1>3, <2>3 DEF Written, Spelled
  <2>5. ReqBytes(sent)[k] = Bytes(ReqOf(sent)[k - 1])
    BY DEF ReqBytes
  <2> QED  BY <2>2, <2>4, <2>5, SpelledValue
<1>7. (Known(WrittenFirst)' /\ Zeroed(Len(Parts))') \/ RunFails
  <2>1. CASE RunFails
    BY <2>1
  <2>2. ASSUME NEW n \in Units, RunTakes(n)
        PROVE  Known(WrittenFirst)' /\ Zeroed(Len(Parts))'
    <3>1. got' = got
      BY <2>2 DEF RunTakes
    <3>2. \A x : Held(x, sent)' = Held(x, sent)
      BY <1>1, SameLayout
    <3>3. Known(WrittenFirst)'
      BY <1>3, <3>1, <3>2, Zenon DEF Known
    <3>4. Zeroed(Len(Parts))'
      BY <1>3, <3>1, Zenon DEF Zeroed
    <3> QED  BY <3>3, <3>4
  <2> QED  BY <2>1, <2>2, RunStep
<1> HIDE DEF T, F, L, W
<1>8. CASE ~run.subfield
  <2>1. pos = F /\ wire[pos + 1] = 0
    BY <1>3, <1>5, <1>8 DEF F
  <2>2. ~RunFails
    <3>1. pos + 1 <= W /\ (pos + 1) + (2 * 0) <= W /\ run.ci + 0 <= T /\ 0 < MaxRunLen
      BY <1>3, <1>5, <2>1
    <3>2. ~(pos + 1 > W) /\ ~(0 >= MaxRunLen) /\ ~(run.ci + 0 > T)
      BY <1>3, <1>5, <2>1, <3>1
    <3>3. ~((pos + 1) + (2 * 0) > W)
      BY <1>5, <2>1, <3>1
    <3>4. ~ \E k \in 1..0 : ValueAt((pos + 1) + (2 * (k - 1))) >= Modulus
      OBVIOUS
    <3> QED  BY <2>1, <3>2, <3>3, <3>4 DEF RunFails, W, T
  <2>3. RunTakes(0)
    <3>1. PICK n \in Units : RunTakes(n)
      BY <2>2, RunStep
    <3>2. n = 0
      BY <2>1, <3>1 DEF RunTakes
    <3> QED  BY <3>1, <3>2
  <2>4. /\ pos' = F + 1 /\ run'.ci = 0 /\ run'.subfield
        /\ reading' = "runs"
    <3>1. pos' = (pos + 1) + (2 * 0) /\ run.ci + 0 = 0
      BY <1>3, <2>3 DEF RunTakes
    <3>2. run'.ci = run.ci + 0 /\ run'.subfield = ~run.subfield
      BY <2>3 DEF RunTakes
    <3>3. reading' = "runs"
      <4>1. run.ci + 0 < Total
        BY <1>5, <3>1 DEF T
      <4> QED  BY <2>3, <4>1 DEF RunTakes
    <3>4. run'.subfield
      BY <1>8, <3>2, Zenon
    <3>5. pos' = F + 1 /\ run'.ci = 0
      BY <1>5, <2>1, <3>1, <3>2
    <3> QED  BY <3>3, <3>4, <3>5
  <2>5. FirstAsSent'
    BY <1>7, <2>2, <2>4 DEF FirstAsSent
  <2>6. RestAsSent'
    BY <2>4 DEF RestAsSent, F
  <2> QED  BY <1>4, <2>5, <2>6
<1>9. CASE run.subfield
  <2>1. pos = F + 1 /\ pos + 1 = F + 2 /\ wire[pos + 1] = T
    BY <1>3, <1>5, <1>9 DEF F
  <2>2. ~RunFails
    <3>1. ~(pos + 1 > W) /\ ~(T >= MaxRunLen) /\ ~(run.ci + T > T)
      BY <1>3, <1>5, <2>1
    <3>2. ~((pos + 1) + (2 * T) > W)
      BY <1>5, <2>1
    <3>3. \A k \in 1..T : ~(ValueAt((pos + 1) + (2 * (k - 1))) >= Modulus)
      <4> TAKE k \in 1..T
      <4>1. ValueAt((pos + 1) + (2 * (k - 1))) \in 0..Modulus - 1
        BY <1>6, <2>1
      <4> QED  BY <4>1, Sizes
    <3> QED  BY <2>1, <3>1, <3>2, <3>3 DEF RunFails, W, T
  <2>3. RunTakes(T)
    <3>1. PICK n \in Units : RunTakes(n)
      BY <2>2, RunStep
    <3>2. n = T
      BY <2>1, <3>1 DEF RunTakes
    <3> QED  BY <3>1, <3>2
  <2>4. /\ pos' = PathAt /\ reading' = "path"
    <3>1. pos' = (pos + 1) + (2 * T) /\ run.ci + T = T
      BY <1>3, <1>5, <2>3 DEF RunTakes
    <3>2. reading' = "path"
      <4>1. ~(run.ci + T < Total)
        BY <1>5, <3>1 DEF T
      <4> QED  BY <2>3, <4>1 DEF RunTakes
    <3> QED  BY <1>5, <2>1, <3>1, <3>2
  <2>5. ASSUME NEW k \in 0..Total - 1  PROVE req'[k] = ReqOf(sent)[k]
    <3>1. k \in run.ci..(run.ci + T) - 1 /\ k \in DOMAIN req
      <4>1. run.ci + T = T
        BY <1>3, <1>5
      <4> QED  BY <1>1, <1>3, <1>5, <4>1 DEF T
    <3>2. req'[k] = ValueAt((pos + 1) + (2 * (k - run.ci)))
      BY <2>3, <3>1 DEF RunTakes
    <3>3. k + 1 \in 1..T /\ (k + 1) - 1 = k /\ k - run.ci = k
      BY <1>3, <1>5 DEF T
    <3>4. ValueAt((F + 2) + (2 * k)) = ReqOf(sent)[k]
      BY <1>6, <3>3
    <3> QED  BY <2>1, <3>2, <3>3, <3>4
  <2>6. FirstAsSent'
    BY <1>7, <2>2, <2>4 DEF FirstAsSent
  <2>7. RestAsSent'
    <3>1. ReqOf(sent)' = ReqOf(sent)
      BY <1>1 DEF ReqOf
    <3> QED  BY <2>4, <2>5, <3>1 DEF RestAsSent
  <2> QED  BY <1>4, <2>6, <2>7
<1> QED  BY <1>8, <1>9

(* The columns put together of the runs, each with its nonce, are those    *)
(* that were opened.                                                       *)
LEMMA BlobsAsSent ==
    ASSUME Reads, sent \in Openings, Known(WrittenFirst), reading = "path",
           \A k \in 0..Total - 1 : req[k] = ReqOf(sent)[k],
           NEW r \in 1..NReq
    PROVE  BlobRead(r) = sent.blobs[r]
<1>1. sent.blobs[r] \in Blobs
  BY DEF Openings
<1>2. got[Nonce(r)] = sent.blobs[r].nonce
  <2>1. Nonce(r) \in ToSet(WrittenFirst)
    <3> DEFINE n == Len(Parts)
               p == Before[n - 1]
    <3>1. n \in 1..Len(Parts) /\ n - 1 \in 0..Len(Parts)
      BY PartsAre
    <3>2. /\ p \in Seq(Places) /\ Row("nonce", NReq) \in Seq(Places)
          /\ WrittenFirst = p \o Row("nonce", NReq)
      <4>1. p \in Seq(Places)
        BY <3>1, BeforeIs
      <4>2. Parts[n].places = Row("nonce", NReq)
        BY NoncesLast
      <4> QED  BY <3>1, <4>1, <4>2, BeforeIs
    <3> HIDE DEF p, n
    <3>3. ToSet(WrittenFirst) = ToSet(p) \cup ToSet(Row("nonce", NReq))
      BY <3>2, ToSetJoins
    <3> QED  BY <3>3, NoncesLast
  <2>2. Nonce(r) \in DOMAIN got /\ Bytes(got[Nonce(r)]) = Held(Nonce(r), sent)
    BY <2>1 DEF Known
  <2>3. Held(Nonce(r), sent) = Bytes(sent.blobs[r].nonce)
    <3>1. Nonce(r)[1] = "nonce" /\ Nonce(r)[2] = r /\ "nonce" # "root"
      BY DEF Nonce
    <3> QED  BY <3>1, Zenon DEF Held
  <2>4. got[Nonce(r)] \in Values /\ sent.blobs[r].nonce \in Values
    BY <1>1, <2>2, ContentsAssumption DEF Reads, CodecTyped, Values
  <2> QED  BY <2>2, <2>3, <2>4, SameBytes
<1> DEFINE column == [k \in 0..NRow - 1 |-> req[(k * NReq) + r - 1]]
<1>3. column = sent.blobs[r].column
  <2>1. ASSUME NEW k \in 0..NRow - 1
        PROVE  req[(k * NReq) + r - 1] = sent.blobs[r].column[k]
    <3> DEFINE e == (k * NReq) + r - 1
    <3>1. e \in 0..Total - 1 /\ Column(e) = r - 1 /\ RowOf(e) = k
      BY Element
    <3> HIDE DEF e
    <3>2. ReqOf(sent)[e] = sent.blobs[Column(e) + 1].column[RowOf(e)]
      BY <3>1, ReqTyped
    <3>3. (r - 1) + 1 = r
      OBVIOUS
    <3> QED  BY <3>1, <3>2, <3>3 DEF e
  <2>2. /\ sent.blobs[r].column =
            [k \in 0..NRow - 1 |-> sent.blobs[r].column[k]]
    BY <1>1, ContentsAssumption
  <2> QED  BY <2>1, <2>2
<1>4. sent.blobs[r] =
        [nonce |-> sent.blobs[r].nonce, column |-> sent.blobs[r].column]
  BY <1>1, ContentsAssumption
<1>5. BlobRead(r) = [nonce |-> got[Nonce(r)], column |-> column]
  BY Zenon DEF BlobRead
<1> HIDE DEF column
<1> QED  BY <1>2, <1>3, <1>4, <1>5, Zenon

(* The path ends the proof; only its length can have it refused.           *)
LEMMA ReadPathAsSent ==
    ASSUME IInv, HInv, Reads, AsSent, ReadPath
    PROVE  AsSent'
<1>1. /\ reading = "path" /\ Over("open") /\ UNCHANGED <<sent, wire, intact, layers, opening>>
      /\ Len(wire) \in Nat
  <2>1. UNCHANGED <<layers, opening>>
    BY PathStep DEF PathFails, PathTakes, vars, prover
  <2> QED
    BY <2>1 DEF Reads, InTurn, CodecTyped, ReadPath, Underway
<1>2. CASE ~intact
  <2>1. reading' = "done" => at' \in AfterReading
    BY PathStep DEF PathFails, PathTakes, Start, AfterReading
  <2> QED  BY <1>1, <1>2, <2>1 DEF AsSent
<1>3. CASE intact
  <2>1. /\ sent \in Openings /\ Written(sent, wire) /\ WireAsSent
        /\ Known(WrittenFirst) /\ Zeroed(Len(Parts))
        /\ pos = PathAt /\ \A k \in 0..Total - 1 : req[k] = ReqOf(sent)[k]
    BY <1>1, <1>3 DEF AsSent, WireAsSent, FirstAsSent, RestAsSent, Underway
  <2> DEFINE L == Len(sent.path)
             W == Len(wire)
             U == PathAt
  <2>2. /\ L \in Nat /\ U \in Nat /\ W \in Nat
        /\ wire[pos + 1] = L /\ W = U + 1 + (2 * L)
    <3>1. U \in Nat
      BY FirstTyped, Sizes DEF PathAt, First
    <3> QED  BY <1>1, <2>1, <3>1, AllPairs DEF Written
  <2>3. CASE PathFails
    <3>1. PathRefused(L)
      <4> HIDE DEF L, W, U
      <4>1. pos + 1 <= W /\ (pos + 1) + (2 * L) <= W
        BY <2>1, <2>2 DEF U
      <4>2. ~(pos + 1 > W) /\ ~((pos + 1) + (2 * L) > W)
        BY <2>1, <2>2, <4>1 DEF U
      <4> QED  BY <2>2, <2>3, <4>2 DEF PathFails, W
    <3>2. L < NReq \/ L > Len(opening.path)
      <4> DEFINE most == NReq * PathLen
                 H == Len(opening.path)
      <4>1. H \in Nat /\ most \in Nat /\ H <= most /\ most < MaxNumDigests
        BY <1>1, PathsFit, PartsAssumption
      <4>2. L < NReq \/ L >= MaxNumDigests \/ L > most
        BY <3>1 DEF PathRefused
      <4>3. MaxNumDigests \in Nat
        BY Sizes
      <4>4. L \in Nat
        BY <2>2
      <4> HIDE DEF L, H, most
      <4>5. L < NReq \/ L > H
        BY ONLY <4>1, <4>2, <4>3, <4>4
      <4> QED  BY <4>5 DEF H
    <3>3. /\ reading' = "failed"
      BY <2>3 DEF PathFails
    <3>4. WireAsSent'
      BY <1>1, <2>1, SameLayout DEF WireAsSent, Underway
    <3>5. FirstAsSent' /\ RestAsSent'
      BY <1>1, <3>2, <3>3 DEF FirstAsSent, RestAsSent
    <3> QED  BY <3>3, <3>4, <3>5 DEF AsSent
  <2>4. ASSUME NEW sz \in Units, PathTakes(sz)  PROVE AsSent'
    <3>1. /\ sz = L /\ pos' = (pos + 1) + (2 * sz) /\ reading' = "done"
          /\ got' = got /\ at' = "read"
          /\ received' =
                [blobs |-> [r \in 1..NReq |-> BlobRead(r)],
                 path |-> [k \in 1..sz |->
                            DigestOf(ValueAt((pos + 1) + (2 * (k - 1))))]]
      BY <2>2, <2>4 DEF PathTakes, Start
    <3>2. pos' = Len(wire)
      BY <2>1, <2>2, <3>1
    <3>3. ASSUME NEW k \in 1..L
          PROVE  DigestOf(ValueAt((pos + 1) + (2 * (k - 1)))) = sent.path[k]
      <4>1. sent.path[k] \in Digests /\ k \in DOMAIN sent.path
        <5>1. sent.path \in Seq(Digests)
          BY <2>1 DEF Openings
        <5> QED  BY <5>1
      <4>2. PICK v \in Values :
                DigestBytes(sent.path[k]) = Bytes(v) /\ DigestOf(v) = sent.path[k]
        BY <4>1, DigestsRead
      <4>3. Len(PathBytes(sent)) = L
        BY <2>1, AllPairs
      <4>4. Spells(wire, (PathAt + 1) + (2 * (k - 1)), PathBytes(sent)[k])
        BY <2>1, <4>3 DEF Written, Spelled
      <4>5. PathBytes(sent)[k] = Bytes(v)
        BY <4>1, <4>2 DEF PathBytes
      <4>6. ValueAt((PathAt + 1) + (2 * (k - 1))) = v
        BY <4>4, <4>5, SpelledValue
      <4> QED  BY <2>1, <4>2, <4>6
    <3>4. sent.path = [k \in 1..L |-> sent.path[k]]
      <4>1. sent.path \in Seq(Digests)
        BY <2>1 DEF Openings
      <4> QED  BY <4>1
    <3>5. [k \in 1..sz |-> DigestOf(ValueAt((pos + 1) + (2 * (k - 1))))] = sent.path
      <4> HIDE DEF L
      <4> QED  BY <3>1, <3>3, <3>4
    <3>6. [r \in 1..NReq |-> BlobRead(r)] = sent.blobs
      <4>1. \A r \in 1..NReq : BlobRead(r) = sent.blobs[r]
        BY <1>1, <2>1, BlobsAsSent
      <4>2. sent.blobs = [r \in 1..NReq |-> sent.blobs[r]]
        BY <2>1 DEF Openings
      <4> QED  BY <4>1, <4>2
    <3>7. received' = sent
      <4>1. sent = [blobs |-> sent.blobs, path |-> sent.path]
        BY <2>1 DEF Openings
      <4> QED  BY <3>1, <3>5, <3>6, <4>1, Zenon
    <3>8. Known(WrittenFirst)' /\ Zeroed(Len(Parts))'
      <4>1. \A x : Held(x, sent)' = Held(x, sent)
        BY <1>1, SameLayout
      <4>2. Known(WrittenFirst)'
        BY <2>1, <3>1, <4>1, Zenon DEF Known
      <4>3. Zeroed(Len(Parts))'
        BY <2>1, <3>1, Zenon DEF Zeroed
      <4> QED  BY <4>2, <4>3
    <3>9. WireAsSent' /\ FirstAsSent' /\ RestAsSent'
      BY <1>1, <3>1, <3>2, <3>7, <3>8
        DEF WireAsSent, FirstAsSent, RestAsSent, Underway
    <3> QED  BY <3>1, <3>9 DEF AsSent, AfterReading
  <2> QED  BY <2>3, <2>4, PathStep
<1> QED  BY <1>2, <1>3

(* Together with what holds of the opening, the invariant is inductive.    *)
LEMMA AsSentInductive ==
    IInv /\ HInv /\ Reads /\ AsSent /\ [CodecNext]_<<vars, codec>> => AsSent'
<1> SUFFICES ASSUME IInv, HInv, Reads, AsSent, [CodecNext]_<<vars, codec>>
             PROVE  AsSent'
  OBVIOUS
<1>1. CASE Elsewhere /\ UNCHANGED codec
  BY <1>1, ElsewhereAsSent
<1>2. CASE Send
  BY <1>2, SendAsSent
<1>3. CASE ReadFirst
  BY <1>3, ReadFirstAsSent
<1>4. CASE ReadRun
  BY <1>4, ReadRunAsSent
<1>5. CASE ReadPath
  BY <1>5, ReadPathAsSent
<1>6. CASE UNCHANGED <<vars, codec>>
  <2>1. /\ UNCHANGED <<sent, wire, intact, reading, part, pos, got, req, run>>
        /\ UNCHANGED <<at, layers, opening, received>>
    BY <1>6 DEF vars, codec, prover, verifier
  <2>2. \A x : Held(x, sent)' = Held(x, sent)
    BY <2>1, SameLayout
  <2>3. ASSUME intact  PROVE WireAsSent' /\ FirstAsSent' /\ RestAsSent'
    <3>1. WireAsSent /\ FirstAsSent /\ RestAsSent
      BY <2>3 DEF AsSent
    <3>2. WireAsSent'
      BY <2>1, <3>1, SameLayout DEF WireAsSent
    <3>3. Known(Before[part - 1]) => Known(Before[part - 1])'
      BY <2>1, <2>2, Zenon DEF Known
    <3>4. Known(WrittenFirst) => Known(WrittenFirst)'
      BY <2>1, <2>2, Zenon DEF Known
    <3>5. Zeroed(part - 1) => Zeroed(part - 1)'
      BY <2>1, Zenon DEF Zeroed
    <3>6. Zeroed(Len(Parts)) => Zeroed(Len(Parts))'
      BY <2>1, Zenon DEF Zeroed
    <3>7. FirstAsSent'
      BY <2>1, <3>1, <3>3, <3>4, <3>5, <3>6 DEF FirstAsSent
    <3>8. ReqOf(sent)' = ReqOf(sent)
      BY <2>1 DEF ReqOf
    <3>9. RestAsSent'
      BY <2>1, <3>1, <3>8 DEF RestAsSent
    <3> QED  BY <3>2, <3>7, <3>9
  <2> QED  BY <2>1, <2>3 DEF AsSent
<1> QED  BY <1>1, <1>2, <1>3, <1>4, <1>5, <1>6 DEF CodecNext

(* ReadsWhatWasWritten, for every layout and every opening sent: the two   *)
(* halves of ZkProof walk the same places in the same order, and the       *)
(* reader refuses an untouched proof for the length of its path alone.     *)
THEOREM WrittenIsRead == CodecSpec => []ReadsWhatWasWritten
<1>1. Reads /\ AsSent => ReadsWhatWasWritten
  <2> SUFFICES ASSUME Reads, AsSent, intact
               PROVE  /\ reading = "failed" =>
                            \/ Len(sent.path) < NReq
                            \/ Len(sent.path) > Len(opening.path)
                      /\ reading = "done" =>
                            /\ received = sent
                            /\ pos = Len(wire)
                            /\ \A x \in ToSet(WrittenFirst) :
                                Bytes(got[x]) = Held(x, sent)
                            /\ \A l \in DOMAIN Logw, hi \in {0, 1} :
                                \A wi \in 1..Logw[l] :
                                    got[<<"hp", l, hi, wi, 1>>] = 0
    BY Zenon DEF ReadsWhatWasWritten
  <2>1. FirstAsSent /\ RestAsSent
    BY DEF AsSent
  <2>2. ASSUME reading = "done",
               NEW l \in DOMAIN Logw, NEW hi \in {0, 1}, NEW wi \in 1..Logw[l]
        PROVE  got[<<"hp", l, hi, wi, 1>>] = 0
    <3>1. l \in 1..Len(Logw) /\ l + 1 \in 1..Len(Parts)
      <4>1. l \in 1..Len(Logw)
        BY Sizes
      <4>2. Len(Logw) \in Nat /\ Len(Parts) = Len(Logw) + 6
        BY PartsAre
      <4> QED  BY <4>1, <4>2
    <3>2. Parts[l + 1] = ReadLayer(l)
      BY <3>1, PartsAre
    <3>3. <<"hp", l, hi, wi, 1>> \in ReadLayer(l).zero
      BY DEF ReadLayer
    <3>4. Zeroed(Len(Parts))
      BY <2>1, <2>2 DEF FirstAsSent
    <3> QED  BY <3>1, <3>2, <3>3, <3>4 DEF Zeroed
  <2> QED  BY <2>1, <2>2 DEF FirstAsSent, RestAsSent, Known
<1>2. CodecSpec => []IInv /\ []HInv
  <2>1. Spec => []IInv
    BY InitIInv, NextIInv, PTL DEF Spec
  <2>2. Spec => []HInv
    BY <2>1, HonestInitially, HonestInductive, PTL DEF Spec
  <2>3. CodecSpec => Spec
    BY ReadIsAnOpening DEF CarriesOutTheOpening
  <2> QED  BY <2>1, <2>2, <2>3, PTL
<1> QED
  BY <1>1, <1>2, ReadsInitially, ReadsInductive, AsSentInitially,
     AsSentInductive, PTL DEF CodecSpec

(* AcceptedIsCommitted, of what arrives as bytes: no damage to a proof and *)
(* no choice of its sender makes the verifier accept other columns.        *)
THEOREM AcceptedBytesAreCommitted == CodecSpec => []AcceptedIsCommitted
<1>1. CodecSpec => Spec
  BY ReadIsAnOpening DEF CarriesOutTheOpening
<1> QED  BY <1>1, Binding, PTL
=============================================================================

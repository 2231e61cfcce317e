-------------------------- MODULE AgreementTheorems --------------------------
(***************************************************************************)
(* What prover and verifier have to come to each on its own, for nothing   *)
(* of it is sent: the size of the tableau and the challenges.              *)
(*                                                                         *)
(* For every circuit, every list of doubling sizes and every SIZE_MAX, the *)
(* builds that come out of the search of LigeroParam agree, hold nothing   *)
(* stale, and have the dimensions the rest of the library counts on.       *)
(*                                                                         *)
(* Whatever the circuit, the messages and the number of challenges, a      *)
(* proof that arrives as sent is checked with the challenges it was made   *)
(* with, the sumcheck and the constraints about it are given the same ones,*)
(* and one that both sides drew settles everything said before it.         *)
(***************************************************************************)
EXTENDS FiatShamir, LigeroParam, FiniteSetTheorems, NaturalsInduction,
        WellFoundedInduction, TLAPS

-----------------------------------------------------------------------------
(* The size of the tableau.                                                *)

Lists == 1..Len(Sizes)

(* What a search has found: nothing yet, or the smallest of those tried.   *)
FoundNothing(m) ==
    /\ best[m] = [block_enc |-> 1, size |-> SizeMax[m]]
    /\ \A i \in Lists : i < e[m] /\ LaidOut(ask, Sizes[i]) =>
            SizeMax[m] <= ProofSize(ask, Sizes[i])

FoundAt(m, j) ==
    /\ j \in Lists /\ j < e[m]
    /\ best[m].block_enc = Sizes[j]
    /\ LaidOut(ask, Sizes[j])
    /\ best[m].size = ProofSize(ask, Sizes[j]) /\ best[m].size < SizeMax[m]
    /\ \A i \in Lists : i < e[m] /\ LaidOut(ask, Sizes[i]) =>
            /\ best[m].size <= ProofSize(ask, Sizes[i])
            /\ i < j => best[m].size < ProofSize(ask, Sizes[i])

Searching(m) ==
    /\ e[m] \in Nat /\ e[m] >= 1 /\ e[m] <= Len(Sizes) + 1
    /\ FoundNothing(m) \/ \E j \in Lists : FoundAt(m, j)
    /\ DOMAIN param[m] = Members

(* Once a size was tried that some code fits in, block is never garbage.   *)
BlockAssigned(m) ==
    (e[m] > Len(Sizes) \/ Sizes[e[m]] >= 2 * (ask.rateinv + 1)) =>
        param[m].block \in Nat /\ param[m].block >= 1

(* A build that ended well ended on a size that was found.                 *)
Settled(m) ==
    Built(m) =>
        /\ e[m] = Len(Sizes) + 1
        /\ \E j \in Lists : FoundAt(m, j)
        /\ param[m] = [x \in Members |-> Value(ask, best[m].block_enc, x)]

SearchIInv ==
    /\ ask \in Requests
    /\ at \in [Machines -> {"search", "built", "panicked"}]
    /\ DOMAIN e = Machines /\ DOMAIN best = Machines /\ DOMAIN param = Machines
    /\ \A m \in Machines : Searching(m) /\ BlockAssigned(m) /\ Settled(m)

-----------------------------------------------------------------------------
(* Arithmetic of layout().                                                 *)

LEMMA DivBounds ==
    ASSUME NEW a \in Nat, NEW b \in Nat, b >= 1
    PROVE  /\ a \div b \in Nat
           /\ b * (a \div b) <= a
           /\ a < b * (a \div b) + b
OBVIOUS

LEMMA TimesMonotone ==
    ASSUME NEW a \in Nat, NEW b \in Nat, NEW c \in Nat, b <= c
    PROVE  a * b <= a * c
OBVIOUS

LEMMA RequestNumbers ==
    ASSUME NEW q \in Requests
    PROVE  /\ q.nw \in Nat /\ q.nq \in Nat /\ q.rateinv \in Nat
           /\ q.nreq \in Nat /\ q.nreq >= 1 /\ q.rateinv >= 3
BY RequestAssumption DEF RequestFields

LEMMA SizeNumbers ==
    /\ \A i \in Lists : Sizes[i] \in Nat
    /\ Len(Sizes) \in Nat /\ Len(Sizes) >= 1 /\ Len(Sizes) \in Lists
    /\ MaxSize \in Nat
BY SizeAssumption, SMTT(20) DEF Lists

LEMMA BlockBounds ==
    ASSUME NEW q \in Requests, NEW size \in Nat
    PROVE  /\ Block(q, size) \in Nat
           /\ 5 * Block(q, size) <= size + 1
           /\ Encodable(q, size) => Block(q, size) >= 1
<1> DEFINE b == Block(q, size)
<1> DEFINE d == 2 + q.rateinv
<1>0. b = (size + 1) \div d /\ size + 1 \in Nat
    BY DEF Block
<1>1. d \in Nat /\ d >= 5
    BY RequestNumbers
<1> HIDE DEF b, d
<1>2. /\ b \in Nat
      /\ d * b <= size + 1
      /\ size + 1 < d * b + d
    BY <1>0, <1>1, DivBounds
<1>3. b * 5 <= b * d
    BY <1>1, <1>2, TimesMonotone
<1>4. 5 * b <= size + 1
    BY <1>1, <1>2, <1>3
<1>5. ASSUME size + 1 >= d PROVE b >= 1
    <2>1. b # 0
        BY <1>1, <1>2, <1>5
    <2> QED  BY <2>1, <1>2
<1> QED  BY <1>2, <1>4, <1>5 DEF b, d, Encodable

(* Half of each block is randomness, the rest of a row at least three      *)
(* blocks more.                                                            *)
LEMMA RowBounds ==
    ASSUME NEW q \in Requests, NEW size \in Nat, HoldsDBlock(q, size)
    PROVE  /\ W(q, size) \in Nat /\ W(q, size) >= 1
           /\ q.nreq <= BlockExt(q, size)
           /\ 8 * q.nreq <= size
<1>1. /\ Block(q, size) \in Nat
      /\ Block(q, size) >= q.nreq
      /\ Block(q, size) - q.nreq >= q.nreq
    BY BlockBounds DEF HoldsDBlock, HalfFull, HoldsRandomness, W
<1>2. 5 * Block(q, size) <= size + 1
    BY BlockBounds
<1> QED  BY <1>1, <1>2, RequestNumbers DEF W, BlockExt, DBlock

LEMMA CeilDivCovers ==
    ASSUME NEW a \in Nat, NEW b \in Nat, b >= 1
    PROVE  /\ CeilDiv(a, b) \in Nat
           /\ a <= CeilDiv(a, b) * b
           /\ \A i \in Nat : i < CeilDiv(a, b) => i * b < a
<1> DEFINE c == CeilDiv(a, b)
<1>1. a + (b - 1) \in Nat
    OBVIOUS
<1>2. /\ c \in Nat
      /\ b * c <= a + (b - 1)
      /\ a + (b - 1) < b * c + b
    BY <1>1, DivBounds DEF CeilDiv
<1> HIDE DEF c
<1>3. a <= c * b
    BY <1>2
<1>4. ASSUME NEW i \in Nat, i < c PROVE i * b < a
    <2>1. b * (i + 1) <= b * c
        BY <1>2, <1>4, TimesMonotone
    <2>2. i * b + b <= a + (b - 1)
        BY <2>1, <1>2
    <2> QED  BY <2>2
<1> QED  BY <1>2, <1>3, <1>4 DEF c

LEMMA RowCounts ==
    ASSUME NEW q \in Requests, NEW size \in Nat, HoldsDBlock(q, size)
    PROVE  NWRow(q, size) \in Nat /\ NQTriples(q, size) \in Nat
           /\ NRow(q, size) \in Nat
<1>1. /\ W(q, size) \in Nat /\ W(q, size) >= 1
      /\ q.nw \in Nat /\ q.nq \in Nat
    BY RowBounds, RequestNumbers
<1>2. NWRow(q, size) \in Nat
    BY <1>1, CeilDivCovers DEF NWRow
<1>3. NQTriples(q, size) \in Nat
    BY <1>1, CeilDivCovers DEF NQTriples
<1> QED  BY <1>2, <1>3 DEF NRow

LEMMA ProofSizeNumbers ==
    ASSUME NEW q \in Requests, NEW size \in Nat, HoldsDBlock(q, size)
    PROVE  ProofSize(q, size) \in Nat
<1>1. MerkleTreeLen(BlockExt(q, size)) \in Nat
    <2> DEFINE n == BlockExt(q, size)
    <2> DEFINE reached == {i \in 2..Len(Sizes) : Sizes[i] <= (n - 1) + n}
    <2>1. IsFiniteSet(2..Len(Sizes))
        BY FS_Interval, SizeNumbers
    <2>2. IsFiniteSet(reached)
        BY <2>1, FS_Subset
    <2>3. Cardinality(reached) \in Nat
        BY <2>2, FS_CardinalityType
    <2> HIDE DEF n
    <2>4. MerkleTreeLen(n) \in Nat
        BY <2>3 DEF MerkleTreeLen
    <2> QED  BY <2>4 DEF n
<1>2. /\ Block(q, size) \in Nat /\ Block(q, size) >= 1
      /\ W(q, size) \in Nat /\ W(q, size) <= Block(q, size)
      /\ q.nreq \in Nat /\ NRow(q, size) \in Nat
    BY BlockBounds, RowBounds, RowCounts, RequestNumbers
        DEF W, HoldsDBlock, HalfFull, HoldsRandomness
<1>3. DBlock(q, size) \in Nat /\ DBlock(q, size) - W(q, size) \in Nat
    BY <1>2 DEF DBlock
<1>4. /\ ElementBytes \in Nat /\ SubfieldBytes \in Nat
      /\ DigestBytes \in Nat /\ NonceBytes \in Nat
    BY SizeAssumption
<1>5. MerkleTreeLen(BlockExt(q, size)) \div 2 \in Nat
    BY <1>1, DivBounds
<1> DEFINE openings == (MerkleTreeLen(BlockExt(q, size)) \div 2) * q.nreq
<1> DEFINE responses == Block(q, size) + DBlock(q, size)
                            + (DBlock(q, size) - W(q, size))
<1> DEFINE opened == NRow(q, size) * q.nreq
<1>6. openings \in Nat /\ responses \in Nat /\ opened \in Nat
    BY <1>2, <1>3, <1>5
<1>7. ProofSize(q, size) =
        DigestBytes + openings * DigestBytes + responses * ElementBytes
            + q.nreq * NonceBytes + opened * SubfieldBytes
    BY DEF ProofSize
<1> HIDE DEF openings, responses, opened
<1> QED  BY <1>2, <1>4, <1>6, <1>7

LEMMA LayoutSizes ==
    ASSUME NEW m \in Machines, NEW q \in Requests, NEW size \in Nat
    PROVE  /\ SizeMax[m] \in Nat
           /\ LayoutSize(m, q, size) \in Nat
           /\ LayoutSize(m, q, size) <= SizeMax[m]
           /\ LayoutSize(m, q, size) < SizeMax[m] =>
                    /\ LaidOut(q, size)
                    /\ LayoutSize(m, q, size) = ProofSize(q, size)
           /\ LaidOut(q, size) =>
                    /\ ProofSize(q, size) \in Nat
                    /\ LayoutSize(m, q, size) <= ProofSize(q, size)
<1>1. SizeMax[m] \in Nat
    BY SizeAssumption
<1>2. LaidOut(q, size) => ProofSize(q, size) \in Nat
    BY ProofSizeNumbers DEF LaidOut
<1> QED  BY <1>1, <1>2 DEF LayoutSize, Capped

LEMMA AssignsAll ==
    ASSUME NEW q, NEW size, LaidOut(q, size), NEW p
    PROVE  Layout(p, q, size) = [x \in Members |-> Value(q, size, x)]
<1>1. ASSUME NEW x \in Members PROVE Reaches(q, size, x)
    BY DEF Reaches, Members, LaidOut, HoldsDBlock, HalfFull, HoldsRandomness
<1> QED  BY <1>1 DEF Layout

(* A refused first size leaves everything but block_enc as it was.         *)
LEMMA RefusesOne ==
    ASSUME NEW q \in Requests, NEW p
    PROVE  /\ Layout(p, q, 1).block = p.block
           /\ Layout(p, q, 1).block_enc = 1
<1>1. ~Encodable(q, 1)
    BY RequestNumbers DEF Encodable
<1> QED  BY <1>1 DEF Layout, Members, Reaches, Value

(* Once block is assigned it stays so, whatever is tried next.             *)
LEMMA BlockStays ==
    ASSUME NEW q \in Requests, NEW size \in Nat, NEW p, DOMAIN p = Members,
           Encodable(q, size) \/ (p.block \in Nat /\ p.block >= 1)
    PROVE  /\ Layout(p, q, size).block \in Nat
           /\ Layout(p, q, size).block >= 1
<1>1. Layout(p, q, size).block =
            IF Encodable(q, size) THEN Block(q, size) ELSE p.block
    BY DEF Layout, Members, Reaches, Value
<1> QED  BY <1>1, BlockBounds

-----------------------------------------------------------------------------
(* Nothing is found, and nothing promised, before the first size.          *)
LEMMA InitIInv == InitSearch => SearchIInv
<1> SUFFICES ASSUME InitSearch PROVE SearchIInv
    OBVIOUS
<1>1. ask \in Requests
    BY DEF InitSearch
<1>2. ASSUME NEW m \in Machines
      PROVE  Searching(m) /\ BlockAssigned(m) /\ Settled(m)
    <2>1. e[m] = 1 /\ at[m] = "search" /\ DOMAIN param[m] = Members
          /\ FoundNothing(m)
        BY GarbageAssumption DEF InitSearch, FoundNothing, Lists
    <2>2. Searching(m)
        BY <2>1, SizeNumbers DEF Searching
    <2>3. BlockAssigned(m)
        BY <2>1, SizeNumbers, SizeAssumption, <1>1, RequestNumbers, SMTT(20)
            DEF BlockAssigned
    <2> QED  BY <2>1, <2>2, <2>3 DEF Settled, Built
<1> QED  BY <1>1, <1>2 DEF InitSearch, SearchIInv

(* A machine that does not move keeps what it has.                         *)
LEMMA OthersKeep ==
    ASSUME NEW n \in Machines, ask' = ask, at'[n] = at[n], e'[n] = e[n],
           best'[n] = best[n], param'[n] = param[n],
           Searching(n), BlockAssigned(n), Settled(n)
    PROVE  Searching(n)' /\ BlockAssigned(n)' /\ Settled(n)'
BY DEF Searching, BlockAssigned, Settled, Built, FoundNothing, FoundAt

(* One more size tried.                                                    *)
LEMMA TryKeeps ==
    ASSUME SearchIInv, NEW m \in Machines, Try(m)
    PROVE  SearchIInv'
<1>0. e[m] \in Lists
    BY SizeNumbers DEF SearchIInv, Searching, Try, Lists
<1> PICK i \in Lists : i = e[m]
    BY <1>0
<1> DEFINE size == LayoutSize(m, ask, Sizes[i])
<1>1. /\ ask \in Requests /\ ask' = ask /\ at' = at /\ at[m] = "search"
      /\ i \in Lists /\ i = e[m] /\ Sizes[i] \in Nat
      /\ e'[m] = i + 1 /\ DOMAIN e' = Machines
      /\ DOMAIN best' = Machines /\ DOMAIN param' = Machines
    BY SizeNumbers DEF SearchIInv, Searching, Try, Lists
<1>2. /\ best'[m] = IF size < best[m].size
                    THEN [block_enc |-> Sizes[i], size |-> size] ELSE best[m]
      /\ param'[m] = Layout(param[m], ask, Sizes[i])
    BY DEF SearchIInv, Try, Improves
<1>3. Searching(m)'
    <2> DEFINE found == best[m].size
    <2>1. /\ size \in Nat /\ size <= SizeMax[m] /\ SizeMax[m] \in Nat
          /\ size < SizeMax[m] =>
                LaidOut(ask, Sizes[i]) /\ size = ProofSize(ask, Sizes[i])
          /\ \A k \in Lists : LaidOut(ask, Sizes[k]) =>
                /\ ProofSize(ask, Sizes[k]) \in Nat
                /\ LayoutSize(m, ask, Sizes[k]) <= ProofSize(ask, Sizes[k])
        BY <1>1, LayoutSizes, SizeNumbers
    <2>2. ASSUME NEW k \in Lists, k < e'[m]
          PROVE  k < e[m] \/ k = i
        BY <1>1, <2>2 DEF Lists
    <2>3. ASSUME FoundNothing(m), size >= SizeMax[m]
          PROVE  FoundNothing(m)'
        <3>1. best'[m] = best[m]
            BY <1>2, <2>1, <2>3 DEF FoundNothing
        <3>2. ASSUME NEW k \in Lists, k < e'[m], LaidOut(ask, Sizes[k])
              PROVE  SizeMax[m] <= ProofSize(ask, Sizes[k])
            BY <2>1, <2>2, <2>3, <3>2 DEF FoundNothing
        <3> QED  BY <1>1, <2>3, <3>1, <3>2 DEF FoundNothing
    <2>4. ASSUME FoundNothing(m), size < SizeMax[m]
          PROVE  FoundAt(m, i)'
        <3>1. best'[m] = [block_enc |-> Sizes[i], size |-> size]
            BY <1>2, <2>4 DEF FoundNothing
        <3>2. ASSUME NEW k \in Lists, k < e'[m], LaidOut(ask, Sizes[k])
              PROVE  /\ size <= ProofSize(ask, Sizes[k])
                     /\ k < i => size < ProofSize(ask, Sizes[k])
            BY <2>1, <2>2, <2>4, <3>2 DEF FoundNothing
        <3> QED  BY <1>1, <2>1, <2>4, <3>1, <3>2 DEF FoundAt, Lists
    <2>5. ASSUME NEW j \in Lists, FoundAt(m, j), size < found
          PROVE  FoundAt(m, i)'
        <3>1. best'[m] = [block_enc |-> Sizes[i], size |-> size]
            BY <1>2, <2>5
        <3>2. found \in Nat /\ found < SizeMax[m]
            BY <2>1, <2>5 DEF FoundAt
        <3>3. ASSUME NEW k \in Lists, k < e'[m], LaidOut(ask, Sizes[k])
              PROVE  /\ size <= ProofSize(ask, Sizes[k])
                     /\ k < i => size < ProofSize(ask, Sizes[k])
            BY <2>1, <2>2, <2>5, <3>2, <3>3 DEF FoundAt
        <3> QED  BY <1>1, <2>1, <2>5, <3>1, <3>2, <3>3 DEF FoundAt, Lists
    <2>6. ASSUME NEW j \in Lists, FoundAt(m, j), size >= found
          PROVE  FoundAt(m, j)'
        <3>1. found \in Nat /\ j < i
            BY <2>1, <2>6 DEF FoundAt
        <3>2. best'[m] = best[m]
            BY <1>2, <2>1, <2>6, <3>1
        <3>3. ASSUME NEW k \in Lists, k < e'[m], LaidOut(ask, Sizes[k])
              PROVE  /\ found <= ProofSize(ask, Sizes[k])
                     /\ k < j => found < ProofSize(ask, Sizes[k])
            BY <2>1, <2>2, <2>6, <3>1, <3>3 DEF FoundAt, Lists
        <3> QED  BY <1>1, <2>6, <3>1, <3>2, <3>3 DEF FoundAt, Lists
    <2>7. FoundNothing(m)' \/ \E j \in Lists : FoundAt(m, j)'
        <3>1. CASE FoundNothing(m)
            BY <2>1, <2>3, <2>4, <1>1, <3>1
        <3>2. ASSUME NEW j \in Lists, FoundAt(m, j)
              PROVE  FoundNothing(m)' \/ \E k \in Lists : FoundAt(m, k)'
            <4>1. found \in Nat
                BY <2>1, <3>2 DEF FoundAt
            <4> QED  BY <1>1, <2>1, <2>5, <2>6, <3>2, <4>1
        <3> QED  BY <3>1, <3>2 DEF SearchIInv, Searching
    <2>8. DOMAIN param'[m] = Members
        BY <1>2 DEF Layout
    <2> QED  BY <1>1, <2>7, <2>8, SizeNumbers DEF Searching, Lists
<1>4. BlockAssigned(m)'
    <2> DEFINE rate == ask.rateinv
    <2> DEFINE enough == 2 * (rate + 1)
    <2>1. /\ rate \in Nat
          /\ enough <= MaxSize /\ enough <= SubfieldSize
          /\ MaxSize \in Nat /\ SubfieldSize \in Nat
        <3>1. enough <= MaxSize /\ enough <= SubfieldSize
            BY <1>1, RequestAssumption
        <3>2. rate \in Nat
            BY <1>1, RequestNumbers
        <3> QED  BY <3>1, <3>2, SizeAssumption, SizeNumbers
    <2>2. SUFFICES ASSUME i + 1 > Len(Sizes) \/ Sizes[i + 1] >= enough
                   PROVE  /\ param'[m].block \in Nat
                          /\ param'[m].block >= 1
        BY <1>1 DEF BlockAssigned
    <2>3. Sizes[i] >= rate + 1
        <3>1. CASE i = Len(Sizes)
            BY <2>1, <3>1, SizeAssumption, SMTT(20)
        <3>2. CASE i # Len(Sizes)
            <4>1. i \in 1..Len(Sizes) - 1
                BY <1>1, <3>2, SizeNumbers DEF Lists
            <4>2. Sizes[i + 1] = 2 * Sizes[i]
                BY <4>1, SizeAssumption
            <4> QED  BY <1>1, <2>1, <2>2, <4>1, <4>2, SizeNumbers, SMTT(20)
        <3> QED  BY <3>1, <3>2
    <2>4. CASE Sizes[i] >= enough
        BY <1>1, <1>2, <2>4, BlockStays DEF SearchIInv, BlockAssigned, Searching
    <2>5. CASE Sizes[i] < enough
        <3>1. Encodable(ask, Sizes[i])
            BY <1>1, <2>1, <2>3, <2>5 DEF Encodable
        <3> QED  BY <1>1, <1>2, <3>1, BlockStays DEF SearchIInv, Searching
    <2> QED  BY <1>1, <2>1, <2>4, <2>5
<1>5. ASSUME NEW n \in Machines
      PROVE  Searching(n)' /\ BlockAssigned(n)' /\ Settled(n)'
    <2>1. CASE n = m
        BY <2>1, <1>1, <1>3, <1>4 DEF Settled, Built
    <2>2. CASE n # m
        BY <2>2, OthersKeep DEF SearchIInv, Try
    <2> QED  BY <2>1, <2>2
<1> QED  BY <1>1, <1>5 DEF SearchIInv

(* The search is over: what was found is computed again, and a search that *)
(* found nothing does not come out of sanity().                            *)
LEMMA FinishKeeps ==
    ASSUME SearchIInv, NEW m \in Machines, Finish(m)
    PROVE  SearchIInv'
<1> DEFINE p == Layout(param[m], ask, best[m].block_enc)
<1>1. /\ ask \in Requests /\ ask' = ask /\ e' = e /\ best' = best
      /\ at[m] = "search" /\ e[m] = Len(Sizes) + 1
      /\ DOMAIN param' = Machines
    BY SizeNumbers DEF SearchIInv, Searching, Finish
<1>2. /\ param'[m] = p
      /\ at'[m] = IF Sanity(p) THEN "built" ELSE "panicked"
      /\ at' \in [Machines -> {"search", "built", "panicked"}]
    BY DEF SearchIInv, Finish, Recompute
<1>3. DOMAIN p = Members
    BY DEF Layout
<1>4. Searching(m)'
    BY <1>1, <1>2, <1>3 DEF SearchIInv, Searching, FoundNothing, FoundAt
<1>5. ASSUME FoundNothing(m)
      PROVE  BlockAssigned(m)' /\ Settled(m)'
    <2>1. p.block_enc = 1 /\ p.block = param[m].block
        BY <1>1, <1>5, RefusesOne DEF FoundNothing
    <2>2. p.block \in Nat /\ p.block >= 1
        BY <1>1, <2>1, SizeNumbers DEF SearchIInv, BlockAssigned
    <2>3. ~Sanity(p)
        BY <2>1, <2>2 DEF Sanity
    <2>4. at'[m] = "panicked"
        BY <1>2, <2>3
    <2> QED  BY <1>1, <1>2, <2>2, <2>4 DEF BlockAssigned, Settled, Built
<1>6. ASSUME NEW j \in Lists, FoundAt(m, j)
      PROVE  BlockAssigned(m)' /\ Settled(m)'
    <2>1. /\ best[m].block_enc = Sizes[j] /\ LaidOut(ask, Sizes[j])
          /\ Sizes[j] \in Nat
        BY <1>6, SizeNumbers DEF FoundAt
    <2>2. p = [x \in Members |-> Value(ask, best[m].block_enc, x)]
        BY <2>1, AssignsAll
    <2>3. FoundAt(m, j)'
        BY <1>1, <1>6 DEF FoundAt
    <2>4. Settled(m)'
        BY <1>1, <1>2, <2>2, <2>3 DEF Settled
    <2>5. Encodable(ask, Sizes[j])
        BY <2>1 DEF LaidOut, HoldsDBlock, HalfFull, HoldsRandomness
    <2>6. p.block \in Nat /\ p.block >= 1
        BY <1>1, <2>1, <2>5, BlockStays DEF SearchIInv, Searching
    <2> QED  BY <1>1, <1>2, <2>4, <2>6 DEF BlockAssigned
<1>7. BlockAssigned(m)' /\ Settled(m)'
    BY <1>5, <1>6 DEF SearchIInv, Searching
<1>8. ASSUME NEW n \in Machines
      PROVE  Searching(n)' /\ BlockAssigned(n)' /\ Settled(n)'
    <2>1. CASE n = m
        BY <2>1, <1>4, <1>7
    <2>2. CASE n # m
        BY <2>2, OthersKeep DEF SearchIInv, Finish
    <2> QED  BY <2>1, <2>2
<1> QED  BY <1>1, <1>2, <1>8 DEF SearchIInv

LEMMA NextIInv == SearchIInv /\ [NextSearch]_searchVars => SearchIInv'
<1> SUFFICES ASSUME SearchIInv, [NextSearch]_searchVars PROVE SearchIInv'
    OBVIOUS
<1>1. ASSUME NEW m \in Machines, Try(m) PROVE SearchIInv'
    BY <1>1, TryKeeps
<1>2. ASSUME NEW m \in Machines, Finish(m) PROVE SearchIInv'
    BY <1>2, FinishKeeps
<1>3. CASE UNCHANGED searchVars
    BY <1>3 DEF searchVars, SearchIInv, Searching, BlockAssigned, Settled, Built,
        FoundNothing, FoundAt
<1> QED  BY <1>1, <1>2, <1>3 DEF NextSearch

LEMMA Invariant == SearchSpec => []SearchIInv
BY InitIInv, NextIInv, PTL DEF SearchSpec

(* What a build that came out holds.                                       *)
LEMMA BuiltValues ==
    ASSUME SearchIInv, NEW m \in Machines, Built(m)
    PROVE  \E j \in Lists :
            /\ FoundAt(m, j) /\ Sizes[j] \in Nat /\ LaidOut(ask, Sizes[j])
            /\ param[m] = [x \in Members |-> Value(ask, Sizes[j], x)]
<1>1. PICK j \in Lists : FoundAt(m, j)
    BY DEF SearchIInv, Settled
<1>2. best[m].block_enc = Sizes[j]
    BY <1>1 DEF FoundAt
<1> QED  BY <1>1, <1>2, SizeNumbers DEF SearchIInv, Settled, FoundAt

-----------------------------------------------------------------------------
(* LigeroParam's constructor never leaves with members of two sizes.       *)
THEOREM OneSize == SearchSpec => []NothingStale
<1>1. SearchIInv => NothingStale
    <2> SUFFICES ASSUME SearchIInv, NEW m \in Machines, Built(m)
                 PROVE  /\ LaidOut(ask, param[m].block_enc)
                        /\ \A x \in Members :
                            param[m][x] = Value(ask, param[m].block_enc, x)
        BY DEF NothingStale
    <2>1. PICK j \in Lists :
            /\ LaidOut(ask, Sizes[j])
            /\ param[m] = [x \in Members |-> Value(ask, Sizes[j], x)]
        BY BuiltValues
    <2>2. param[m].block_enc = Sizes[j]
        BY <2>1 DEF Members, Value
    <2> QED  BY <2>1, <2>2
<1> QED  BY <1>1, Invariant, PTL

(* A prover on one architecture and a verifier on another use the same     *)
(* tableau whenever both have one.                                         *)
THEOREM SameTableau == SearchSpec => []ParametersAgree
<1>1. SearchIInv => ParametersAgree
    <2> SUFFICES ASSUME SearchIInv, NEW m \in Machines, NEW n \in Machines,
                        Built(m), Built(n)
                 PROVE  param[m] = param[n]
        BY DEF ParametersAgree
    <2>1. PICK j \in Lists :
            /\ FoundAt(m, j) /\ Sizes[j] \in Nat /\ LaidOut(ask, Sizes[j])
            /\ param[m] = [x \in Members |-> Value(ask, Sizes[j], x)]
        BY BuiltValues
    <2>2. PICK k \in Lists :
            /\ FoundAt(n, k) /\ Sizes[k] \in Nat /\ LaidOut(ask, Sizes[k])
            /\ param[n] = [x \in Members |-> Value(ask, Sizes[k], x)]
        BY BuiltValues
    <2>3. /\ ProofSize(ask, Sizes[j]) \in Nat
          /\ ProofSize(ask, Sizes[k]) \in Nat
        BY <2>1, <2>2, LayoutSizes DEF SearchIInv
    <2>4. /\ e[m] = Len(Sizes) + 1 /\ e[n] = Len(Sizes) + 1
          /\ j < e[m] /\ k < e[m] /\ j < e[n] /\ k < e[n]
        BY SizeNumbers DEF SearchIInv, Settled, Lists
    <2>5. /\ ProofSize(ask, Sizes[j]) <= ProofSize(ask, Sizes[k])
          /\ k < j => ProofSize(ask, Sizes[j]) < ProofSize(ask, Sizes[k])
        BY <2>1, <2>2, <2>4 DEF FoundAt
    <2>6. /\ ProofSize(ask, Sizes[k]) <= ProofSize(ask, Sizes[j])
          /\ j < k => ProofSize(ask, Sizes[k]) < ProofSize(ask, Sizes[j])
        BY <2>1, <2>2, <2>4 DEF FoundAt
    <2>7. j = k
        BY <2>3, <2>5, <2>6 DEF Lists
    <2> QED  BY <2>1, <2>2, <2>7
<1> QED  BY <1>1, Invariant, PTL

(* What gen_idx, the Merkle tree, the rows of the tableau and the codec of *)
(* proofs count on, from the inequalities layout() checks.                 *)
THEOREM Dimensions == SearchSpec => []DimensionsHold
<1>1. SearchIInv => DimensionsHold
    <2> SUFFICES ASSUME SearchIInv, NEW m \in Machines, Built(m)
          PROVE  /\ 1 <= ask.nreq /\ ask.nreq <= param[m].block_ext
                 /\ ask.nw <= param[m].nwrow * param[m].w
                 /\ ask.nq <= param[m].nqtriples * param[m].w
                 /\ \A i \in 0..param[m].nwrow - 1 :
                        i * param[m].w < ask.nw
                 /\ ask.nreq * param[m].nrow < MaxRunLen
        BY DEF DimensionsHold, EnoughColumns, RowsTile, OpenedColumnsFitOneRun
    <2>1. PICK j \in Lists :
            /\ Sizes[j] \in Nat /\ LaidOut(ask, Sizes[j])
            /\ param[m] = [x \in Members |-> Value(ask, Sizes[j], x)]
        BY BuiltValues
    <2> DEFINE size == Sizes[j]
    <2>2. /\ param[m].block_ext = BlockExt(ask, size)
          /\ param[m].w = W(ask, size)
          /\ param[m].nwrow = NWRow(ask, size)
          /\ param[m].nqtriples = NQTriples(ask, size)
          /\ param[m].nrow = NRow(ask, size)
        BY <2>1 DEF Members, Value
    <2>3. ask \in Requests /\ HoldsDBlock(ask, size) /\ size \in Nat
        BY <2>1 DEF SearchIInv, LaidOut
    <2>4. /\ ask.nw \in Nat /\ ask.nq \in Nat
          /\ ask.nreq \in Nat /\ ask.nreq >= 1
          /\ W(ask, size) \in Nat /\ W(ask, size) >= 1
          /\ NRow(ask, size) \in Nat /\ NWRow(ask, size) \in Nat
          /\ ask.nreq <= BlockExt(ask, size) /\ 8 * ask.nreq <= size
        BY <2>3, RequestNumbers, RowBounds, RowCounts
    <2>5. /\ ask.nw <= NWRow(ask, size) * W(ask, size)
          /\ \A i \in Nat : i < NWRow(ask, size) =>
                i * W(ask, size) < ask.nw
        BY <2>4, CeilDivCovers DEF NWRow
    <2>6. ask.nq <= NQTriples(ask, size) * W(ask, size)
        BY <2>4, CeilDivCovers DEF NQTriples
    <2>7. ask.nreq * NRow(ask, size) < MaxRunLen
        <3> DEFINE rows == NRow(ask, size)
        <3> DEFINE most == MaxSize \div size
        <3>0. /\ rows < most /\ rows \in Nat
              /\ size \in Nat /\ size >= 8 /\ MaxSize \in Nat
            BY <2>1, <2>3, <2>4, SizeNumbers DEF LaidOut, RowsFit
        <3> HIDE DEF rows, size
        <3>1. /\ rows < most /\ most \in Nat /\ size * most <= MaxSize
              /\ rows \in Nat /\ size \in Nat /\ size >= 8
            BY <3>0, DivBounds
        <3> HIDE DEF most
        <3>2. size * (rows + 1) <= size * most
            BY <3>1, TimesMonotone
        <3>3. size * rows < MaxSize
            BY <3>1, <3>2, SizeNumbers
        <3>4. rows * (8 * ask.nreq) <= rows * size
            BY <2>4, <3>1, TimesMonotone
        <3>5. 8 * (ask.nreq * rows) < 8 * MaxRunLen
            <4>1. rows * (8 * ask.nreq) = 8 * (ask.nreq * rows)
                BY <2>4, <3>1
            <4>2. rows * size = size * rows /\ size * rows \in Nat
                BY <3>1
            <4>3. ask.nreq * rows \in Nat
                BY <2>4, <3>1
            <4> HIDE DEF rows
            <4> QED
                BY <3>3, <3>4, <4>1, <4>2, <4>3, SizeAssumption, SizeNumbers, SMTT(20)
        <3>6. ask.nreq * rows \in Nat
            BY <2>4, <3>1
        <3> QED  BY <3>5, <3>6, SizeAssumption DEF rows
    <2> QED  BY <2>2, <2>4, <2>5, <2>6, <2>7
<1> QED  BY <1>1, Invariant, PTL

-----------------------------------------------------------------------------
(* The challenges.  Each side's end is a function of its version, its      *)
(* statement and the proof it holds, and the invariant says which (IInv).  *)
(* What two ends have in common is proved along the code: two walks are    *)
(* kept together, draw by draw, by an induction over the rounds and one    *)
(* over the layers.                                                        *)

Committed(v, p) == WriteCommitment(NewTranscript(v), p)

Begun(v, st, p) == InitializeSumcheckFiatShamir(Committed(v, p), st)

Constrained(v, st, p) == VerifierConstraints(Walk(Begun(v, st, p)), p)

(* What the sumcheck is given, on its clone.                               *)
SumcheckEnd(v, st, p) == ProveSumcheck(Walk(Clone(Begun(v, st, p))), p)
ProverEnd(v, st, p) == LigeroProve(Constrained(v, st, p), p)
VerifierEnd(v, st, p) == LigeroVerify(Constrained(v, st, p), p)

(* Both sides are on record.                                               *)
Shapes ==
    /\ {"sent", "received"} \subseteq DOMAIN proof
    /\ {"prover", "verifier"} \subseteq DOMAIN transcript
    /\ {"sumcheck", "prover", "verifier"} \subseteq DOMAIN challenges
    /\ statement.prover \in Statements /\ statement.verifier \in Statements
    /\ stage \in {"begun", "committed", "proved", "received", "verified"}

ProverOnCourse ==
    /\ stage = "committed" =>
            transcript.prover = Committed(version.prover, proof.sent)
    /\ stage \in {"begun", "committed"} =>
            challenges.sumcheck = <<>> /\ challenges.prover = <<>>
    /\ stage \in {"proved", "received", "verified"} =>
            LET end == ProverEnd(version.prover, statement.prover, proof.sent)
                sumcheck == SumcheckEnd(version.prover, statement.prover,
                                        proof.sent)
            IN  /\ transcript.prover = end.t /\ challenges.prover = end.drew
                /\ challenges.sumcheck = sumcheck.drew

VerifierOnCourse ==
    /\ stage # "verified" => challenges.verifier = <<>>
    /\ stage = "received" =>
            transcript.verifier = Committed(version.verifier, proof.received)
    /\ stage = "verified" =>
            LET end == VerifierEnd(version.verifier, statement.verifier,
                                   proof.received)
            IN  transcript.verifier = end.t /\ challenges.verifier = end.drew

IInv == Shapes /\ ProverOnCourse /\ VerifierOnCourse

-----------------------------------------------------------------------------
(* Before anything is said, both sides are on course.                      *)
LEMMA InitOnCourse == Init => IInv
BY DEF Init, IInv, Shapes, ProverOnCourse, VerifierOnCourse, Nobody

(* Every step of either side keeps both on course.                         *)
LEMMA StepsStayOnCourse == IInv /\ [Next]_vars => IInv'
<1> SUFFICES ASSUME IInv, [Next]_vars PROVE IInv'
    OBVIOUS
<1> USE DEF IInv, Shapes
<1>1. CASE Commit
    BY <1>1 DEF Commit, ProverOnCourse, VerifierOnCourse, Committed
<1>2. CASE Prove
    <2>1. /\ version' = version /\ statement' = statement /\ proof' = proof
          /\ stage = "committed" /\ stage' = "proved"
        BY <1>2 DEF Prove
    <2>2. LET end == ProverEnd(version.prover, statement.prover, proof.sent)
              sumcheck == SumcheckEnd(version.prover, statement.prover,
                                      proof.sent)
          IN  /\ transcript'.prover = end.t
              /\ challenges'.prover = end.drew
              /\ challenges'.sumcheck = sumcheck.drew
        <3>1. transcript.prover = Committed(version.prover, proof.sent)
            BY <2>1 DEF ProverOnCourse
        <3> QED  BY <1>2, <3>1 DEF Prove, ProverEnd, SumcheckEnd, Constrained, Begun
    <2>3. Shapes'
        BY <1>2 DEF Prove
    <2>4. challenges'.verifier = <<>>
        BY <1>2, <2>1 DEF Prove, VerifierOnCourse
    <2> QED  BY <2>1, <2>2, <2>3, <2>4 DEF ProverOnCourse, VerifierOnCourse
<1>3. CASE RecvCommitment
    BY <1>3 DEF RecvCommitment, ProverOnCourse, VerifierOnCourse, Committed
<1>4. CASE Verify
    <2>1. /\ version' = version /\ statement' = statement /\ proof' = proof
          /\ stage = "received" /\ stage' = "verified"
          /\ transcript'.prover = transcript.prover
          /\ challenges'.prover = challenges.prover
          /\ challenges'.sumcheck = challenges.sumcheck
        BY <1>4 DEF Verify
    <2>2. LET end == VerifierEnd(version.verifier, statement.verifier,
                                 proof.received)
          IN  /\ transcript'.verifier = end.t
              /\ challenges'.verifier = end.drew
        <3>1. transcript.verifier = Committed(version.verifier, proof.received)
            BY <2>1 DEF VerifierOnCourse
        <3> QED  BY <1>4, <3>1 DEF Verify, VerifierEnd, Constrained, Begun
    <2>3. Shapes'
        BY <1>4 DEF Verify
    <2> QED  BY <2>1, <2>2, <2>3 DEF ProverOnCourse, VerifierOnCourse
<1>5. CASE UNCHANGED vars
    BY <1>5 DEF vars, ProverOnCourse, VerifierOnCourse
<1> QED  BY <1>1, <1>2, <1>3, <1>4, <1>5 DEF Next

(* LigeroVerifier::verify replays what LigeroProver::prove interleaves with*)
(* its work, in the same order.                                            *)
LEMMA SameEnd ==
    ASSUME NEW v, NEW st, NEW p
    PROVE  VerifierEnd(v, st, p) = ProverEnd(v, st, p)
BY DEF VerifierEnd, ProverEnd, LigeroVerify, LigeroProve

-----------------------------------------------------------------------------
(* Sequences of anything.                                                  *)

IsSeq(s) == \E S : s \in Seq(S)

(* What is appended is kept, and appended to the same length it tells what *)
(* it was appended to.                                                     *)
LEMMA AppendKeeps ==
    ASSUME NEW s, IsSeq(s), NEW elt
    PROVE  /\ IsSeq(Append(s, elt))
           /\ Len(Append(s, elt)) = Len(s) + 1
           /\ Len(s) \in Nat
           /\ Append(s, elt)[Len(s) + 1] = elt
           /\ \A i \in 1..Len(s) : Append(s, elt)[i] = s[i]
<1>1. PICK S : s \in Seq(S)
    BY DEF IsSeq
<1>2. s \in Seq(S \cup {elt}) /\ elt \in S \cup {elt}
    BY <1>1
<1>3. Append(s, elt) \in Seq(S \cup {elt})
    BY <1>2
<1> QED  BY <1>2, <1>3 DEF IsSeq

(* Appended to sequences as long, items tell them apart.                   *)
LEMMA AppendTells ==
    ASSUME NEW s, IsSeq(s), NEW r, IsSeq(r), NEW elt, NEW f,
           Append(s, elt) = Append(r, f), Len(s) = Len(r)
    PROVE  s = r /\ elt = f
<1>1. /\ s = [i \in 1..Len(s) |-> s[i]]
      /\ r = [i \in 1..Len(r) |-> r[i]]
      /\ Len(s) \in Nat
    BY DEF IsSeq
<1>2. \A i \in 1..Len(s) : s[i] = r[i]
    BY AppendKeeps
<1>3. [i \in 1..Len(s) |-> s[i]] = [i \in 1..Len(s) |-> r[i]]
    BY <1>2
<1>4. s = r
    BY <1>1, <1>3, Zenon
<1>5. elt = f
    BY AppendKeeps
<1> QED  BY <1>4, <1>5

-----------------------------------------------------------------------------
(* Recursion over the rounds and the layers.                               *)

(* Induction, for a set of numbers.                                        *)
LEMMA Climb ==
    ASSUME NEW Good, 0 \in Good, \A n \in Nat : n \in Good => n + 1 \in Good
    PROVE  \A n \in Nat : n \in Good
<1> DEFINE Bad == {n \in Nat : n \notin Good}
<1> SUFFICES ASSUME Bad # {} PROVE FALSE
    OBVIOUS
<1>1. PICK n \in Bad : \A m \in Bad : ~ (<<m, n>> \in OpToRel(<, Nat))
    <2>1. Bad \subseteq Nat
        OBVIOUS
    <2> HIDE DEF Bad
    <2> QED  BY <2>1, WFMin, NatLessThanWellFounded
<1>2. n \in Nat /\ n # 0 /\ \A m \in Bad : ~ (m < n)
    BY <1>1 DEF OpToRel
<1>3. n - 1 \in Nat /\ n - 1 \notin Bad
    BY <1>2
<1>4. (n - 1) + 1 \in Good
    BY <1>3
<1>5. (n - 1) + 1 = n
    BY <1>2
<1> QED  BY <1>1, <1>4, <1>5

(* The walk before the first round, after each, up to the n-th.            *)
IsRun(run, n, w, p, ly) ==
    run = [i \in 0..n |->
              IF i = 0 THEN w
              ELSE Round(run[i - 1], p, ly, (i + 1) \div 2, (i + 1) % 2)]

(* The recursion over the rounds defines a function, for any number of     *)
(* them,                                                                   *)
LEMMA RunsExist ==
    ASSUME NEW w, NEW p, NEW ly
    PROVE  \A n \in Nat : \E run : IsRun(run, n, w, p, ly)
<1> DEFINE Good == {n \in Nat : \E run : IsRun(run, n, w, p, ly)}
<1>1. 0 \in Good
    <2>1. IsRun([i \in 0..0 |-> w], 0, w, p, ly)
        BY DEF IsRun
    <2> QED  BY <2>1
<1>2. ASSUME NEW n \in Nat, n \in Good PROVE n + 1 \in Good
    <2>1. PICK run : IsRun(run, n, w, p, ly)
        BY <1>2
    <2> DEFINE last == Round(run[n], p, ly, (n + 2) \div 2, (n + 2) % 2)
               longer == [i \in 0..n + 1 |-> IF i = n + 1 THEN last ELSE run[i]]
    <2>2. ASSUME NEW i \in 0..n + 1
          PROVE  longer[i] =
                    IF i = 0 THEN w
                    ELSE Round(longer[i - 1], p, ly, (i + 1) \div 2, (i + 1) % 2)
        <3>1. CASE i = 0
            BY <2>1, <3>1 DEF IsRun
        <3>2. CASE i \in 1..n
            <4>1. longer[i] = run[i] /\ longer[i - 1] = run[i - 1]
                BY <3>2
            <4>2. i \in 0..n /\ i # 0
                BY <3>2
            <4> HIDE DEF longer
            <4> QED  BY <2>1, <4>1, <4>2 DEF IsRun
        <3>3. CASE i = n + 1
            <4>1. longer[i] = last /\ longer[i - 1] = run[n] /\ i # 0
                  /\ i + 1 = n + 2
                BY <3>3
            <4> HIDE DEF longer
            <4> QED  BY <4>1
        <3> QED  BY <3>1, <3>2, <3>3
    <2>3. IsRun(longer, n + 1, w, p, ly)
        <3> DEFINE NextOne(i) == IF i = 0 THEN w
                ELSE Round(longer[i - 1], p, ly, (i + 1) \div 2, (i + 1) % 2)
        <3>1. longer = [i \in 0..n + 1 |-> longer[i]]
            OBVIOUS
        <3>2. \A i \in 0..n + 1 : longer[i] = NextOne(i)
            BY <2>2
        <3> HIDE DEF longer
        <3>3. [i \in 0..n + 1 |-> longer[i]] = [i \in 0..n + 1 |-> NextOne(i)]
            <4> HIDE DEF NextOne
            <4> QED  BY <3>2
        <3> QED  BY <3>1, <3>3, Zenon DEF IsRun
    <2> HIDE DEF longer
    <2> QED  BY <2>3
<1> HIDE DEF Good
<1>3. \A n \in Nat : n \in Good
    BY <1>1, <1>2, Climb
<1> QED  BY <1>3 DEF Good

(* and that function is what the replay of a layer unrolls.                *)
LEMMA RoundsAreRun ==
    ASSUME NEW w, NEW p, NEW ly \in LayerIds
    PROVE  \E run : /\ IsRun(run, 2 * LogW[ly], w, p, ly)
                    /\ ConstrainRounds(w, p, ly) = run[2 * LogW[ly]]
<1> DEFINE L == 2 * LogW[ly]
<1>1. L \in Nat
    BY ShapeAssumption DEF LayerIds
<1>2. \E run : IsRun(run, L, w, p, ly)
    <2> HIDE DEF L
    <2> QED  BY <1>1, RunsExist
<1> DEFINE run == CHOOSE run : run = [i \in 0..L |-> IF i = 0 THEN w
                ELSE Round(run[i - 1], p, ly, (i + 1) \div 2, (i + 1) % 2)]
<1>3. run = [i \in 0..L |-> IF i = 0 THEN w
                ELSE Round(run[i - 1], p, ly, (i + 1) \div 2, (i + 1) % 2)]
    <2>1. \E r : r = [i \in 0..L |-> IF i = 0 THEN w
                ELSE Round(r[i - 1], p, ly, (i + 1) \div 2, (i + 1) % 2)]
        BY <1>2, Zenon DEF IsRun
    <2> QED  BY ONLY <2>1, Zenon
<1>4. ConstrainRounds(w, p, ly) = run[L]
    BY Zenon DEF ConstrainRounds
<1>5. IsRun(run, L, w, p, ly)
    <2> HIDE DEF run, L
    <2> QED  BY <1>3, Zenon DEF IsRun
<1> HIDE DEF run
<1> QED  BY <1>4, <1>5

(* The walk after each layer.                                              *)
IsWalked(layer, n, w, p) ==
    layer = [ly \in 0..n |->
                IF ly = 0 THEN BeginCircuit(w)
                ELSE ConstrainLayer(layer[ly - 1], p, ly)]

(* So does the recursion over the layers,                                  *)
LEMMA WalksExist ==
    ASSUME NEW w, NEW p
    PROVE  \A n \in Nat : \E layer : IsWalked(layer, n, w, p)
<1> DEFINE Good == {n \in Nat : \E layer : IsWalked(layer, n, w, p)}
<1>1. 0 \in Good
    <2>1. IsWalked([i \in 0..0 |-> BeginCircuit(w)], 0, w, p)
        BY DEF IsWalked
    <2> QED  BY <2>1
<1>2. ASSUME NEW n \in Nat, n \in Good PROVE n + 1 \in Good
    <2>1. PICK layer : IsWalked(layer, n, w, p)
        BY <1>2
    <2> DEFINE last == ConstrainLayer(layer[n], p, n + 1)
               longer == [i \in 0..n + 1 |-> IF i = n + 1 THEN last
                                             ELSE layer[i]]
    <2>2. ASSUME NEW i \in 0..n + 1
          PROVE  longer[i] = IF i = 0 THEN BeginCircuit(w)
                             ELSE ConstrainLayer(longer[i - 1], p, i)
        <3>1. CASE i = 0
            BY <2>1, <3>1 DEF IsWalked
        <3>2. CASE i \in 1..n
            <4>1. longer[i] = layer[i] /\ longer[i - 1] = layer[i - 1]
                BY <3>2
            <4>2. i \in 0..n /\ i # 0
                BY <3>2
            <4> HIDE DEF longer
            <4> QED  BY <2>1, <4>1, <4>2 DEF IsWalked
        <3>3. CASE i = n + 1
            <4>1. longer[i] = last /\ longer[i - 1] = layer[n] /\ i # 0
                BY <3>3
            <4> HIDE DEF longer
            <4> QED  BY <3>3, <4>1
        <3> QED  BY <3>1, <3>2, <3>3
    <2>3. IsWalked(longer, n + 1, w, p)
        <3> DEFINE NextOne(i) == IF i = 0 THEN BeginCircuit(w)
                               ELSE ConstrainLayer(longer[i - 1], p, i)
        <3>1. longer = [i \in 0..n + 1 |-> longer[i]]
            OBVIOUS
        <3>2. \A i \in 0..n + 1 : longer[i] = NextOne(i)
            BY <2>2
        <3> HIDE DEF longer
        <3>3. [i \in 0..n + 1 |-> longer[i]] = [i \in 0..n + 1 |-> NextOne(i)]
            <4> HIDE DEF NextOne
            <4> QED  BY <3>2
        <3> QED  BY <3>1, <3>3, Zenon DEF IsWalked
    <2> HIDE DEF longer
    <2> QED  BY <2>3
<1> HIDE DEF Good
<1>3. \A n \in Nat : n \in Good
    BY <1>1, <1>2, Climb
<1> QED  BY <1>3 DEF Good

(* the same one for the prover and for the constraints: the rounds of layer*)
(* and end_layer do what the replay of a layer does.                       *)
LEMMA LayersAreWalked ==
    ASSUME NEW w, NEW p
    PROVE  \E layer :
              /\ IsWalked(layer, Len(LogW), w, p)
              /\ VerifierConstraints(w, p) =
                    Draws(layer[Len(LogW)], <<"alpha_in">>, 1)
              /\ ProveSumcheck(w, p) = layer[Len(LogW)]
<1> DEFINE L == Len(LogW)
<1>1. L \in Nat
    BY ShapeAssumption
<1>2. \E layer : IsWalked(layer, L, w, p)
    <2> HIDE DEF L
    <2> QED  BY <1>1, WalksExist
<1> DEFINE walked == CHOOSE layer : layer = [ly \in 0..L |->
                IF ly = 0 THEN BeginCircuit(w)
                ELSE ConstrainLayer(layer[ly - 1], p, ly)]
<1>3. walked = [ly \in 0..L |-> IF ly = 0 THEN BeginCircuit(w)
                ELSE ConstrainLayer(walked[ly - 1], p, ly)]
    <2>1. \E r : r = [ly \in 0..L |-> IF ly = 0 THEN BeginCircuit(w)
                ELSE ConstrainLayer(r[ly - 1], p, ly)]
        BY <1>2, Zenon DEF IsWalked
    <2> QED  BY ONLY <2>1, Zenon
<1>4. VerifierConstraints(w, p) = Draws(walked[L], <<"alpha_in">>, 1)
    BY Zenon DEF VerifierConstraints
<1>5. ProveSumcheck(w, p) = walked[L]
    BY Zenon DEF ProveSumcheck, ProveLayer, ConstrainLayer, ProveRounds,
                 ConstrainRounds
<1>6. IsWalked(walked, L, w, p)
    <2> HIDE DEF walked, L
    <2> QED  BY <1>3, Zenon DEF IsWalked
<1> HIDE DEF walked
<1> QED  BY <1>4, <1>5, <1>6

-----------------------------------------------------------------------------
(* Two walks of the protocol, step by step: w says the messages of p about *)
(* the statement st, x those of q about su.                                *)

IsWalk(w) ==
    /\ w = [t |-> [absorbed |-> w.t.absorbed, prf |-> w.t.prf],
            drew |-> w.drew]
    /\ IsSeq(w.t.absorbed) /\ IsSeq(w.drew)
    /\ w.t.prf.drawn \in Nat
    /\ \/ w.t.prf = NoPrf
       \/ w.t.prf = [key |-> w.t.absorbed, drawn |-> w.t.prf.drawn]

(* A draw is before a point of the walk: less was absorbed, or as much, and*)
(* less drawn since.                                                       *)
IsBefore(said, drawn, saidThen, drawnThen) ==
    said < saidThen \/ (said = saidThen /\ drawn < drawnThen)

(* The walks say as much, draw as much, and by the same names; and no two  *)
(* draws are from the same place.                                          *)
InStep(w, x) ==
    /\ Len(w.t.absorbed) = Len(x.t.absorbed)
    /\ w.t.prf.drawn = x.t.prf.drawn
    /\ Len(w.drew) = Len(x.drew)
    /\ \A i \in 1..Len(w.drew) :
        /\ w.drew[i].name = x.drew[i].name
        /\ Len(w.drew[i].after) \in Nat /\ w.drew[i].from \in Nat
        /\ Len(w.drew[i].after) = Len(x.drew[i].after)
        /\ w.drew[i].from = x.drew[i].from
        /\ IsBefore(Len(w.drew[i].after), w.drew[i].from,
                    Len(w.t.absorbed), w.t.prf.drawn)
        /\ \A j \in 1..Len(w.drew) :
            i < j => IsBefore(Len(w.drew[i].after), w.drew[i].from,
                              Len(w.drew[j].after), w.drew[j].from)

Alike(p, q, st, su, said) == st = su /\ \A m \in said : p[m] = q[m]

(* What was absorbed tells the statement and what was said of the proof,   *)
(* and so it was at every draw.                                            *)
Tells(w, x, p, q, st, su, said) ==
    /\ w.t.absorbed = x.t.absorbed => Alike(p, q, st, su, said)
    /\ \A i \in 1..Len(w.drew) :
        w.drew[i].after = x.drew[i].after =>
            Alike(p, q, st, su, SaidBefore(w.drew[i].name))

Together(w, x, p, q, st, su, said) ==
    /\ IsWalk(w) /\ IsWalk(x)
    /\ InStep(w, x)
    /\ Tells(w, x, p, q, st, su, said)

(* What less was said tells less.                                          *)
LEMMA SaidLess ==
    ASSUME NEW w, NEW x, NEW p, NEW q, NEW st, NEW su, NEW said, NEW less,
           Together(w, x, p, q, st, su, said), less \subseteq said
    PROVE  Together(w, x, p, q, st, su, less)
BY DEF Together, Tells, Alike

(* What a walk is after saying something, and after a draw.                *)
LEMMA SaysIs ==
    ASSUME NEW w, IsWalk(w), NEW tag, NEW elt
    PROVE  Says(w, tag, elt) =
              [t |-> [absorbed |-> Append(w.t.absorbed, <<tag, elt>>),
                      prf |-> NoPrf],
               drew |-> w.drew]
<1> DEFINE u == Write(w.t, tag, elt)
<1>1. w = [t |-> w.t, drew |-> w.drew]
    BY DEF IsWalk
<1>2. [w EXCEPT !.t = u] = [t |-> u, drew |-> w.drew]
    <2> HIDE DEF u
    <2>1. \A v, d : [[t |-> v, drew |-> d] EXCEPT !.t = u]
                        = [t |-> u, drew |-> d]
        OBVIOUS
    <2> QED  BY <1>1, <2>1
<1> QED  BY <1>2, Zenon DEF Says, Write

(* A draw absorbs nothing, and is from a generator keyed with what was     *)
(* absorbed so far: none is left from before a write.                      *)
LEMMA DrawsIs ==
    ASSUME NEW w, IsWalk(w), NEW name, NEW n
    PROVE  Draws(w, name, n) =
              [t |-> [absorbed |-> w.t.absorbed,
                      prf |-> [key |-> w.t.absorbed,
                               drawn |-> w.t.prf.drawn + n]],
               drew |-> Append(w.drew,
                               [name |-> name, after |-> w.t.absorbed,
                                from |-> w.t.prf.drawn,
                                to |-> w.t.prf.drawn + n])]
<1> DEFINE now == [key |-> w.t.absorbed, drawn |-> w.t.prf.drawn + n]
<1>1. w.t = [absorbed |-> w.t.absorbed, prf |-> w.t.prf]
    BY DEF IsWalk
<1>2. [w.t EXCEPT !.prf = now] = [absorbed |-> w.t.absorbed, prf |-> now]
    <2> HIDE DEF now
    <2>1. \A a, d, m : [[absorbed |-> a, prf |-> d] EXCEPT !.prf = m]
                        = [absorbed |-> a, prf |-> m]
        OBVIOUS
    <2> QED  BY <1>1, <2>1
<1>3. /\ Generator(w.t).key = w.t.absorbed
      /\ Generator(w.t).drawn = w.t.prf.drawn
    BY DEF IsWalk, Generator, NoPrf
<1> QED  BY <1>2, <1>3, Zenon DEF Draws

(* Both keep a walk a walk.                                                *)
LEMMA WalksOn ==
    ASSUME NEW w, IsWalk(w), NEW tag, NEW elt, NEW name, NEW n \in Nat
    PROVE  IsWalk(Says(w, tag, elt)) /\ IsWalk(Draws(w, name, n))
<1>1. /\ IsSeq(w.t.absorbed) /\ IsSeq(w.drew) /\ w.t.prf.drawn \in Nat
    BY DEF IsWalk
<1>2. \A a, d : IsSeq(a) /\ IsSeq(d) =>
            IsWalk([t |-> [absorbed |-> a, prf |-> NoPrf], drew |-> d])
    BY DEF IsWalk, NoPrf
<1>3. \A a, k, d : IsSeq(a) /\ k \in Nat /\ IsSeq(d) =>
            IsWalk([t |-> [absorbed |-> a, prf |-> [key |-> a, drawn |-> k]],
                    drew |-> d])
    BY DEF IsWalk
<1> DEFINE a == Append(w.t.absorbed, <<tag, elt>>)
           d == Append(w.drew, [name |-> name, after |-> w.t.absorbed,
                                from |-> w.t.prf.drawn,
                                to |-> w.t.prf.drawn + n])
<1>4. IsSeq(a) /\ IsSeq(d)
    BY <1>1, AppendKeeps
<1>5. Says(w, tag, elt) = [t |-> [absorbed |-> a, prf |-> NoPrf],
                           drew |-> w.drew]
    BY SaysIs
<1>6. Draws(w, name, n) = [t |-> [absorbed |-> w.t.absorbed,
                                  prf |-> [key |-> w.t.absorbed,
                                           drawn |-> w.t.prf.drawn + n]],
                           drew |-> d]
    BY DrawsIs
<1> HIDE DEF a, d
<1>7. w.t.prf.drawn + n \in Nat
    BY <1>1
<1> QED  BY <1>1, <1>2, <1>3, <1>4, <1>5, <1>6, <1>7

(* The next item absorbed tells what it was made of.                       *)
LEMMA SaysTogether ==
    ASSUME NEW w, NEW x, NEW p, NEW q, NEW st, NEW su, NEW said, NEW more,
           Together(w, x, p, q, st, su, said),
           NEW tag, NEW elt, NEW f, elt = f => \A m \in more : p[m] = q[m]
    PROVE  Together(Says(w, tag, elt), Says(x, tag, f), p, q, st, su,
                    said \cup more)
<1> DEFINE a == w.t.absorbed
           b == x.t.absorbed
           w2 == Says(w, tag, elt)
           x2 == Says(x, tag, f)
<1>1. /\ IsSeq(a) /\ IsSeq(b) /\ Len(a) = Len(b)
      /\ Len(a) \in Nat
      /\ w.t.prf.drawn \in Nat
    BY AppendKeeps DEF Together, IsWalk, InStep
<1>2. /\ w2 = [t |-> [absorbed |-> Append(a, <<tag, elt>>), prf |-> NoPrf],
               drew |-> w.drew]
      /\ x2 = [t |-> [absorbed |-> Append(b, <<tag, f>>), prf |-> NoPrf],
               drew |-> x.drew]
    BY SaysIs, Zenon DEF Together
<1>3. /\ w2.t.absorbed = Append(a, <<tag, elt>>) /\ w2.t.prf = NoPrf
      /\ x2.t.absorbed = Append(b, <<tag, f>>) /\ x2.t.prf = NoPrf
      /\ w2.drew = w.drew /\ x2.drew = x.drew
    <2> HIDE DEF w2, x2, a, b
    <2> QED  BY <1>2
<1>4. /\ IsSeq(Append(a, <<tag, elt>>)) /\ IsSeq(Append(b, <<tag, f>>))
      /\ Len(Append(a, <<tag, elt>>)) = Len(a) + 1
      /\ Len(Append(b, <<tag, f>>)) = Len(a) + 1
    <2> HIDE DEF a, b
    <2>1. IsSeq(Append(a, <<tag, elt>>)) /\ Len(Append(a, <<tag, elt>>)) = Len(a) + 1
        BY <1>1, AppendKeeps
    <2>2. IsSeq(Append(b, <<tag, f>>)) /\ Len(Append(b, <<tag, f>>)) = Len(b) + 1
        BY <1>1, AppendKeeps
    <2> QED  BY <1>1, <2>1, <2>2
<1>5. IsWalk(w2) /\ IsWalk(x2)
    BY WalksOn DEF Together
<1>6. InStep(w2, x2)
    <2> HIDE DEF w2, x2, a, b
    <2>1. ASSUME NEW i \in 1..Len(w.drew)
          PROVE  IsBefore(Len(w.drew[i].after), w.drew[i].from,
                          Len(a) + 1, 0)
        BY <1>1 DEF Together, InStep, IsBefore, a
    <2>2. w2.t.prf.drawn = 0 /\ x2.t.prf.drawn = 0
        BY <1>3 DEF NoPrf
    <2> QED  BY <1>1, <1>3, <1>4, <2>1, <2>2 DEF Together, InStep
<1>7. Tells(w2, x2, p, q, st, su, said \cup more)
    <2> HIDE DEF w2, x2
    <2>1. ASSUME Append(a, <<tag, elt>>) = Append(b, <<tag, f>>)
          PROVE  Alike(p, q, st, su, said \cup more)
        <3>1. a = b /\ <<tag, elt>> = <<tag, f>>
            <4> HIDE DEF a, b
            <4> QED  BY <1>1, <2>1, AppendTells
        <3> QED  BY <3>1 DEF Together, Tells, Alike
    <2> QED  BY <1>3, <2>1 DEF Together, Tells
<1> HIDE DEF w2, x2
<1> QED  BY <1>5, <1>6, <1>7 DEF Together, w2, x2

(* A draw is from a place of its own, and tells what was said before it.   *)
LEMMA DrawsTogether ==
    ASSUME NEW w, NEW x, NEW p, NEW q, NEW st, NEW su, NEW said,
           Together(w, x, p, q, st, su, said),
           NEW name, SaidBefore(name) \subseteq said, NEW n \in Nat \ {0}
    PROVE  Together(Draws(w, name, n), Draws(x, name, n), p, q, st, su, said)
<1> DEFINE d == [name |-> name, after |-> w.t.absorbed, from |-> w.t.prf.drawn,
                 to |-> w.t.prf.drawn + n]
           c == [name |-> name, after |-> x.t.absorbed, from |-> x.t.prf.drawn,
                 to |-> x.t.prf.drawn + n]
           w2 == Draws(w, name, n)
           x2 == Draws(x, name, n)
           k == Len(w.drew)
           keyed(v) == [key |-> v.t.absorbed, drawn |-> v.t.prf.drawn + n]
<1>1. /\ IsSeq(w.drew) /\ IsSeq(x.drew) /\ k = Len(x.drew) /\ k \in Nat
      /\ IsSeq(w.t.absorbed) /\ IsSeq(x.t.absorbed)
      /\ Len(w.t.absorbed) \in Nat /\ Len(x.t.absorbed) = Len(w.t.absorbed)
      /\ w.t.prf.drawn \in Nat /\ x.t.prf.drawn = w.t.prf.drawn
    BY AppendKeeps DEF Together, IsWalk, InStep
<1>2. /\ w2 = [t |-> [absorbed |-> w.t.absorbed, prf |-> keyed(w)],
               drew |-> Append(w.drew, d)]
      /\ x2 = [t |-> [absorbed |-> x.t.absorbed, prf |-> keyed(x)],
               drew |-> Append(x.drew, c)]
    <2>1. w2 = [t |-> [absorbed |-> w.t.absorbed, prf |-> keyed(w)],
                drew |-> Append(w.drew, d)]
        BY DrawsIs, Zenon DEF Together
    <2>2. x2 = [t |-> [absorbed |-> x.t.absorbed, prf |-> keyed(x)],
                drew |-> Append(x.drew, c)]
        BY DrawsIs, Zenon DEF Together
    <2> QED  BY <2>1, <2>2
<1>3. /\ w2.t.absorbed = w.t.absorbed /\ w2.t.prf.drawn = w.t.prf.drawn + n
      /\ x2.t.absorbed = x.t.absorbed /\ x2.t.prf.drawn = x.t.prf.drawn + n
      /\ w2.drew = Append(w.drew, d) /\ x2.drew = Append(x.drew, c)
    <2> HIDE DEF w2, x2, c, d
    <2> QED  BY <1>2
<1>4. /\ IsSeq(w2.drew) /\ IsSeq(x2.drew)
      /\ Len(w2.drew) = k + 1 /\ Len(x2.drew) = k + 1
      /\ w2.drew[k + 1] = d /\ x2.drew[k + 1] = c
      /\ \A i \in 1..k : w2.drew[i] = w.drew[i] /\ x2.drew[i] = x.drew[i]
    <2> HIDE DEF w2, x2, d, c
    <2> QED  BY <1>1, <1>3, AppendKeeps
<1>5. IsWalk(w2) /\ IsWalk(x2)
    BY WalksOn DEF Together
<1>6. /\ d.name = name /\ d.after = w.t.absorbed /\ d.from = w.t.prf.drawn
      /\ c.name = name /\ c.after = x.t.absorbed /\ c.from = x.t.prf.drawn
    OBVIOUS
<1>7. 1..Len(w2.drew) = 1..k \cup {k + 1}
    <2> HIDE DEF w2, k
    <2> QED  BY <1>1, <1>4
<1> HIDE DEF w2, x2, d, c, k
<1>8. InStep(w2, x2)
    <2> DEFINE place(i) == Len(w2.drew[i].after)
               of(i) == w2.drew[i].from
    <2>1. place(k + 1) = Len(w.t.absorbed) /\ of(k + 1) = w.t.prf.drawn
        BY <1>4, <1>6
    <2>2. ASSUME NEW i \in 1..k
          PROVE  /\ w2.drew[i].name = x2.drew[i].name
                 /\ place(i) \in Nat /\ of(i) \in Nat
                 /\ place(i) = Len(x2.drew[i].after)
                 /\ of(i) = x2.drew[i].from
                 /\ IsBefore(place(i), of(i), Len(w.t.absorbed), w.t.prf.drawn)
                 /\ \A j \in 1..k : i < j => IsBefore(place(i), of(i), place(j), of(j))
        BY <1>4 DEF Together, InStep, k
    <2>3. ASSUME NEW i \in 1..k
          PROVE  IsBefore(place(i), of(i), Len(w.t.absorbed), w.t.prf.drawn + n)
        <3> HIDE DEF place, of
        <3> QED  BY <1>1, <2>2 DEF IsBefore
    <2>4. IsBefore(place(k + 1), of(k + 1), Len(w.t.absorbed), w.t.prf.drawn + n)
        BY <1>1, <2>1 DEF IsBefore
    <2>5. ASSUME NEW i \in 1..k + 1
          PROVE  /\ w2.drew[i].name = x2.drew[i].name
                 /\ place(i) \in Nat /\ of(i) \in Nat
                 /\ place(i) = Len(x2.drew[i].after)
                 /\ of(i) = x2.drew[i].from
                 /\ IsBefore(place(i), of(i), Len(w.t.absorbed), w.t.prf.drawn + n)
        <3>1. CASE i = k + 1
            BY <1>1, <1>4, <1>6, <2>4, <3>1
        <3>2. CASE i \in 1..k
            <4> HIDE DEF place, of
            <4> QED  BY <2>2, <2>3, <3>2
        <3> QED  BY <1>1, <3>1, <3>2, SMTT(20)
    <2>6. ASSUME NEW i \in 1..k + 1, NEW j \in 1..k + 1, i < j
          PROVE  IsBefore(place(i), of(i), place(j), of(j))
        <3>1. i \in 1..k
            BY <1>1, <2>6
        <3>2. CASE j = k + 1
            <4> HIDE DEF place, of
            <4> QED  BY <2>1, <2>2, <3>1, <3>2
        <3>3. CASE j \in 1..k
            <4> HIDE DEF place, of
            <4> QED  BY <2>2, <2>6, <3>1, <3>3
        <3> QED  BY <1>1, <3>2, <3>3
    <2>7. /\ Len(w2.t.absorbed) = Len(x2.t.absorbed)
          /\ w2.t.prf.drawn = x2.t.prf.drawn
          /\ Len(w2.drew) = Len(x2.drew)
        BY <1>1, <1>3, <1>4
    <2> QED  BY <1>3, <1>4, <2>5, <2>6, <2>7 DEF InStep
<1>9. Tells(w2, x2, p, q, st, su, said)
    <2>1. ASSUME NEW i \in 1..k + 1, w2.drew[i].after = x2.drew[i].after
          PROVE  Alike(p, q, st, su, SaidBefore(w2.drew[i].name))
        <3>1. CASE i = k + 1
            BY <1>4, <1>6, <2>1, <3>1 DEF Together, Tells, Alike
        <3>2. CASE i \in 1..k
            BY <1>4, <2>1, <3>2 DEF Together, Tells, k
        <3> QED  BY <1>1, <3>1, <3>2
    <2> QED  BY <1>3, <1>4, <2>1 DEF Together, Tells
<1> QED  BY <1>5, <1>8, <1>9 DEF Together, w2, x2

-----------------------------------------------------------------------------
(* What is said, layer by layer and round by round.                        *)

UpTo(n) == {<<"root">>} \cup LayersUpTo(n)

RoundsUpTo(ly, i) ==
    UNION {RoundPoly(ly, rh[1], rh[2]) :
              rh \in {rh \in Rounds(ly) \X Hands : 2 * rh[1] + rh[2] <= i + 1}}

(* The i-th of a layer's rounds, each of two hands.                        *)
LEMMA RoundAndHand ==
    ASSUME NEW i \in Nat \ {0}
    PROVE  /\ (i + 1) \div 2 \in Nat \ {0}
           /\ (i + 1) % 2 \in Hands
           /\ 2 * ((i + 1) \div 2) + ((i + 1) % 2) = i + 1
           /\ \A n \in Nat : i \in 1..2 * n => (i + 1) \div 2 \in 1..n
<1> DEFINE k == i + 1
           r == k \div 2
           h == k % 2
<1>1. k \in Nat /\ k >= 2
    OBVIOUS
<1> HIDE DEF k
<1>2. r \in Nat /\ h \in 0..1 /\ k = 2 * r + h
    BY <1>1
<1> HIDE DEF r, h
<1>3. r # 0
    BY <1>1, <1>2
<1>4. ASSUME NEW n \in Nat, i \in 1..2 * n PROVE r \in 1..n
    <2>1. k <= 2 * n + 1
        BY <1>4 DEF k
    <2> QED  BY <1>1, <1>2, <1>3, <2>1
<1>5. r \in Nat \ {0} /\ h \in Hands /\ 2 * r + h = k
    BY <1>2, <1>3 DEF Hands
<1>6. r \in Nat \ {0} /\ \A n \in Nat : i \in 1..2 * n => r \in 1..n
    BY <1>4, <1>5
<1>7. (i + 1) \div 2 = r /\ (i + 1) % 2 = h /\ i + 1 = k
    BY Zenon DEF r, h, k
<1> QED  BY <1>5, <1>6, <1>7

(* A round adds its own polynomial, and no other.                          *)
LEMMA OneRoundMore ==
    ASSUME NEW ly \in LayerIds, NEW i \in 1..2 * LogW[ly]
    PROVE  RoundsUpTo(ly, i) \subseteq
              RoundsUpTo(ly, i - 1) \cup
                  RoundPoly(ly, (i + 1) \div 2, (i + 1) % 2)
<1> DEFINE r == (i + 1) \div 2
           h == (i + 1) % 2
<1>1. LogW[ly] \in Nat /\ i \in Nat \ {0}
    BY ShapeAssumption DEF LayerIds
<1>2. r \in Nat /\ h \in {0, 1} /\ 2 * r + h = i + 1
    BY <1>1, RoundAndHand DEF Hands
<1> HIDE DEF r, h
<1>3. ASSUME NEW a \in Rounds(ly), NEW b \in Hands, 2 * a + b <= i + 1,
             ~ (2 * a + b <= (i - 1) + 1)
      PROVE  a = r /\ b = h
    <2>1. a \in Nat /\ b \in {0, 1}
        BY <1>1 DEF Rounds, Hands
    <2>2. 2 * a + b = 2 * r + h
        BY <1>1, <1>2, <1>3, <2>1
    <2> QED  BY <1>2, <2>1, <2>2
<1>4. ASSUME NEW m \in RoundsUpTo(ly, i)
      PROVE  m \in RoundsUpTo(ly, i - 1) \cup RoundPoly(ly, r, h)
    <2>1. PICK rh \in Rounds(ly) \X Hands :
              2 * rh[1] + rh[2] <= i + 1 /\ m \in RoundPoly(ly, rh[1], rh[2])
        BY <1>4, Zenon DEF RoundsUpTo
    <2>2. rh[1] \in Rounds(ly) /\ rh[2] \in Hands
        BY <2>1
    <2>3. CASE 2 * rh[1] + rh[2] <= (i - 1) + 1
        BY <2>1, <2>3, Zenon DEF RoundsUpTo
    <2>4. CASE ~ (2 * rh[1] + rh[2] <= (i - 1) + 1)
        <3>1. rh[1] = r /\ rh[2] = h
            BY <1>3, <2>1, <2>2, <2>4
        <3> QED  BY <2>1, <3>1, Zenon
    <2> QED  BY <2>3, <2>4
<1> QED  BY <1>4, Zenon DEF r, h

(* Before the first round, no polynomial was sent.                         *)
LEMMA NoRoundYet ==
    ASSUME NEW ly \in LayerIds
    PROVE  RoundsUpTo(ly, 0) = {}
<1>1. LogW[ly] \in Nat
    BY ShapeAssumption DEF LayerIds
<1>2. \A rh \in Rounds(ly) \X Hands : ~ (2 * rh[1] + rh[2] <= 0 + 1)
    BY <1>1 DEF Rounds, Hands
<1>3. {rh \in Rounds(ly) \X Hands : 2 * rh[1] + rh[2] <= 0 + 1} = {}
    BY <1>2, Zenon
<1> QED  BY <1>3 DEF RoundsUpTo

(* A layer is its rounds and its claims.                                   *)
LEMMA LayerIsSaid ==
    ASSUME NEW ly \in LayerIds
    PROVE  LayerMessages(ly) \subseteq
              RoundsUpTo(ly, 2 * LogW[ly]) \cup {<<"wc", ly>>}
<1>1. LogW[ly] \in Nat
    BY ShapeAssumption DEF LayerIds
<1>2. \A rh \in Rounds(ly) \X Hands : 2 * rh[1] + rh[2] <= 2 * LogW[ly] + 1
    BY <1>1 DEF Rounds, Hands
<1> QED  BY <1>2, Zenon DEF LayerMessages, RoundsUpTo

(* A layer adds its own messages, and no other.                            *)
LEMMA OneLayerMore ==
    ASSUME NEW n \in LayerIds
    PROVE  UpTo(n) \subseteq UpTo(n - 1) \cup LayerMessages(n)
<1>1. n \in Nat
    BY ShapeAssumption DEF LayerIds
<1>2. \A ly \in LayerIds \cap (1..n) : ly = n \/ ly \in LayerIds \cap (1..(n - 1))
    BY <1>1, ShapeAssumption DEF LayerIds
<1> QED  BY <1>2, Zenon DEF UpTo, LayersUpTo

(* Before the first layer, only the root was sent.                         *)
LEMMA NoLayerYet == UpTo(0) = {<<"root">>}
<1>1. LayerIds \cap (1..0) = {}
    OBVIOUS
<1> QED  BY <1>1 DEF UpTo, LayersUpTo

(* After all layers, only the responses are left.                          *)
LEMMA AllIsSaid ==
    Messages \subseteq UpTo(Len(LogW)) \cup Responses
<1>1. \A ly \in LayerIds : ly \in LayerIds \cap (1..Len(LogW))
    BY ShapeAssumption DEF LayerIds
<1>2. UNION {LayerMessages(ly) : ly \in LayerIds} \subseteq UpTo(Len(LogW))
    BY <1>1, Zenon DEF UpTo, LayersUpTo
<1>3. {<<"root">>} \subseteq UpTo(Len(LogW))
    BY DEF UpTo
<1>4. ASSUME NEW m \in Messages
      PROVE  m \in UpTo(Len(LogW)) \cup Responses
    <2>1. \/ m \in {<<"root">>} \/ m \in Responses
          \/ m \in UNION {LayerMessages(ly) : ly \in LayerIds}
        BY <1>4 DEF Messages
    <2> QED  BY <1>2, <1>3, <2>1, Zenon
<1> QED  BY <1>4

(* SaidBefore, name by name.                                               *)
LEMMA BeforeCircuit ==
    /\ SaidBefore(<<"Q">>) = {<<"root">>}
    /\ SaidBefore(<<"G">>) = {<<"root">>}
BY DEF SaidBefore

(* alpha and beta come after the layers before.                            *)
LEMMA BeforeLayer ==
    ASSUME NEW ly
    PROVE  /\ SaidBefore(<<"alpha", ly>>) = UpTo(ly - 1)
           /\ SaidBefore(<<"beta", ly>>) = UpTo(ly - 1)
BY DEF SaidBefore, UpTo

(* The point of the i-th round comes after the polynomials up to it.       *)
LEMMA BeforeHand ==
    ASSUME NEW ly \in LayerIds, NEW i \in Nat \ {0}
    PROVE  SaidBefore(<<"hb", ly, (i + 1) \div 2, (i + 1) % 2>>)
              = UpTo(ly - 1) \cup RoundsUpTo(ly, i)
<1> DEFINE r == (i + 1) \div 2
           h == (i + 1) % 2
           name == <<"hb", ly, r, h>>
<1>1. 2 * r + h = i + 1
    BY RoundAndHand
<1>2. name[1] = "hb" /\ name[2] = ly /\ name[3] = r /\ name[4] = h
    OBVIOUS
<1> HIDE DEF r, h, name
<1> DEFINE Part(a, k) ==
        UNION {RoundPoly(a, rh[1], rh[2]) :
                  rh \in {rh \in Rounds(a) \X Hands : 2 * rh[1] + rh[2] <= k}}
<1>3. SaidBefore(name) = {<<"root">>} \cup (LayersUpTo(name[2] - 1) \cup
                            Part(name[2], 2 * name[3] + name[4]))
    BY <1>2 DEF SaidBefore
<1>4. Part(ly, i + 1) = RoundsUpTo(ly, i)
    BY DEF RoundsUpTo
<1> HIDE DEF Part
<1>5. SaidBefore(name) = UpTo(ly - 1) \cup RoundsUpTo(ly, i)
    <2>1. 2 * name[3] + name[4] = i + 1
        BY <1>1, <1>2
    <2>2. SaidBefore(name) = {<<"root">>} \cup
                (LayersUpTo(ly - 1) \cup Part(ly, i + 1))
        BY <1>2, <1>3, <2>1, Zenon
    <2> QED  BY <1>4, <2>2 DEF UpTo
<1> QED  BY <1>5 DEF name, r, h

(* What is drawn after the last layer, and the columns at the very end.    *)
LEMMA BeforeTheEnd ==
    /\ SaidBefore(<<"alpha_in">>) = UpTo(Len(LogW))
    /\ SaidBefore(<<"u_ldt">>) = UpTo(Len(LogW))
    /\ SaidBefore(<<"alphal">>) = UpTo(Len(LogW))
    /\ SaidBefore(<<"alphaq">>) = UpTo(Len(LogW))
    /\ SaidBefore(<<"u_quad">>) = UpTo(Len(LogW))
    /\ SaidBefore(<<"idx">>) = {<<"root">>} \cup Messages
BY DEF SaidBefore, UpTo

-----------------------------------------------------------------------------
(* Two walks of the whole protocol.                                        *)

(* begin_circuit.                                                          *)
LEMMA CircuitTogether ==
    ASSUME NEW w, NEW x, NEW p, NEW q, NEW st, NEW su,
           Together(w, x, p, q, st, su, UpTo(0))
    PROVE  Together(BeginCircuit(w), BeginCircuit(x), p, q, st, su, UpTo(0))
<1>1. SaidBefore(<<"Q">>) \subseteq UpTo(0) /\ SaidBefore(<<"G">>) \subseteq UpTo(0)
    BY BeforeCircuit, NoLayerYet
<1>2. Together(Draws(w, <<"Q">>, 1), Draws(x, <<"Q">>, 1), p, q, st, su, UpTo(0))
    BY <1>1, DrawsTogether
<1>3. Together(Draws(Draws(w, <<"Q">>, 1), <<"G">>, 1),
               Draws(Draws(x, <<"Q">>, 1), <<"G">>, 1), p, q, st, su, UpTo(0))
    BY <1>1, <1>2, DrawsTogether
<1> QED  BY <1>3, Zenon DEF BeginCircuit

(* begin_layer.                                                            *)
LEMMA BeginTogether ==
    ASSUME NEW w, NEW x, NEW p, NEW q, NEW st, NEW su, NEW ly,
           Together(w, x, p, q, st, su, UpTo(ly - 1))
    PROVE  Together(BeginLayer(w, ly), BeginLayer(x, ly), p, q, st, su,
                    UpTo(ly - 1))
<1> DEFINE a == <<"alpha", ly>>
           b == <<"beta", ly>>
<1>1. SaidBefore(a) \subseteq UpTo(ly - 1) /\ SaidBefore(b) \subseteq UpTo(ly - 1)
    BY BeforeLayer
<1> HIDE DEF a, b
<1>2. Together(Draws(w, a, 1), Draws(x, a, 1), p, q, st, su, UpTo(ly - 1))
    BY <1>1, DrawsTogether
<1>3. Together(Draws(Draws(w, a, 1), b, 1), Draws(Draws(x, a, 1), b, 1),
               p, q, st, su, UpTo(ly - 1))
    BY <1>1, <1>2, DrawsTogether
<1> QED  BY <1>3, Zenon DEF BeginLayer, a, b

(* Both coefficients are absorbed before the point they are evaluated at.  *)
LEMMA RoundTogether ==
    ASSUME NEW w, NEW x, NEW p, NEW q, NEW st, NEW su,
           NEW ly \in LayerIds, NEW i \in 1..2 * LogW[ly],
           Together(w, x, p, q, st, su, UpTo(ly - 1) \cup RoundsUpTo(ly, i - 1))
    PROVE  Together(Round(w, p, ly, (i + 1) \div 2, (i + 1) % 2),
                    Round(x, q, ly, (i + 1) \div 2, (i + 1) % 2),
                    p, q, st, su, UpTo(ly - 1) \cup RoundsUpTo(ly, i))
<1> DEFINE r == (i + 1) \div 2
           h == (i + 1) % 2
           m0 == <<"hp", ly, r, h, 0>>
           m2 == <<"hp", ly, r, h, 2>>
           name == <<"hb", ly, r, h>>
           was == UpTo(ly - 1) \cup RoundsUpTo(ly, i - 1)
           now == UpTo(ly - 1) \cup RoundsUpTo(ly, i)
           w0 == Says(w, "element", p[m0])
           x0 == Says(x, "element", q[m0])
           w2 == Says(w0, "element", p[m2])
           x2 == Says(x0, "element", q[m2])
<1>1. i \in Nat \ {0}
    BY ShapeAssumption DEF LayerIds
<1>2. SaidBefore(name) \subseteq now
    BY <1>1, BeforeHand
<1>3. now \subseteq (was \cup {m0}) \cup {m2}
    <2>1. RoundPoly(ly, r, h) = {m0, m2}
        BY DEF RoundPoly
    <2>2. RoundsUpTo(ly, i) \subseteq RoundsUpTo(ly, i - 1) \cup {m0, m2}
        <3> HIDE DEF m0, m2
        <3> QED  BY <2>1, OneRoundMore
    <2> HIDE DEF m0, m2
    <2> QED  BY <2>2
<1>4. Round(w, p, ly, r, h) = Draws(w2, name, 1)
      /\ Round(x, q, ly, r, h) = Draws(x2, name, 1)
    BY Zenon DEF Round
<1> HIDE DEF r, h, m0, m2, name, was, now
<1>5. Together(w0, x0, p, q, st, su, was \cup {m0})
    BY SaysTogether DEF was
<1> HIDE DEF w0, x0
<1>6. Together(w2, x2, p, q, st, su, (was \cup {m0}) \cup {m2})
    BY <1>5, SaysTogether
<1> HIDE DEF w2, x2
<1>7. Together(w2, x2, p, q, st, su, now)
    BY <1>3, <1>6, SaidLess
<1>8. Together(Draws(w2, name, 1), Draws(x2, name, 1), p, q, st, su, now)
    BY <1>2, <1>7, DrawsTogether
<1> QED  BY <1>4, <1>8 DEF now, r, h

(* All rounds of a layer, by induction.                                    *)
LEMMA RoundsTogether ==
    ASSUME NEW w, NEW x, NEW p, NEW q, NEW st, NEW su, NEW ly \in LayerIds,
           Together(w, x, p, q, st, su, UpTo(ly - 1))
    PROVE  Together(ConstrainRounds(w, p, ly), ConstrainRounds(x, q, ly), p, q, st, su,
                    UpTo(ly - 1) \cup RoundsUpTo(ly, 2 * LogW[ly]))
<1> DEFINE L == 2 * LogW[ly]
           said(i) == UpTo(ly - 1) \cup RoundsUpTo(ly, i)
<1>1. PICK run : IsRun(run, L, w, p, ly) /\ ConstrainRounds(w, p, ly) = run[L]
    BY RoundsAreRun
<1>2. PICK ran : IsRun(ran, L, x, q, ly) /\ ConstrainRounds(x, q, ly) = ran[L]
    BY RoundsAreRun
<1>3. L \in Nat
    BY ShapeAssumption DEF LayerIds
<1> DEFINE Good == {i \in Nat : i <= L =>
                        Together(run[i], ran[i], p, q, st, su, said(i))}
<1>4. 0 \in Good
    <2>1. run[0] = w /\ ran[0] = x
        <3> HIDE DEF L
        <3> QED  BY <1>1, <1>2, <1>3 DEF IsRun
    <2>2. said(0) = UpTo(ly - 1)
        BY NoRoundYet
    <2> HIDE DEF said
    <2> QED  BY <2>1, <2>2
<1>5. ASSUME NEW n \in Nat, n \in Good PROVE n + 1 \in Good
    <2> DEFINE i == n + 1
    <2> SUFFICES ASSUME i <= L
                 PROVE  Together(run[i], ran[i], p, q, st, su, said(i))
        OBVIOUS
    <2>1. i \in 1..L /\ i - 1 = n /\ n <= L /\ i \in 0..L /\ i # 0
        BY <1>3
    <2>2. Together(run[n], ran[n], p, q, st, su, said(n))
        BY <1>5, <2>1
    <2>3. /\ run[i] = Round(run[i - 1], p, ly, (i + 1) \div 2, (i + 1) % 2)
          /\ ran[i] = Round(ran[i - 1], q, ly, (i + 1) \div 2, (i + 1) % 2)
        <3> HIDE DEF i, L, said
        <3> QED  BY <1>1, <1>2, <2>1 DEF IsRun
    <2>4. i \in 1..2 * LogW[ly]
        BY <2>1
    <2>5. Together(run[i - 1], ran[i - 1], p, q, st, su,
                   UpTo(ly - 1) \cup RoundsUpTo(ly, i - 1))
        BY <2>1, <2>2
    <2> HIDE DEF i, L
    <2>6. Together(Round(run[i - 1], p, ly, (i + 1) \div 2, (i + 1) % 2),
                   Round(ran[i - 1], q, ly, (i + 1) \div 2, (i + 1) % 2),
                   p, q, st, su, UpTo(ly - 1) \cup RoundsUpTo(ly, i))
        BY <2>4, <2>5, RoundTogether
    <2> QED  BY <2>3, <2>6
<1> HIDE DEF Good, L
<1>6. L \in Good
    BY <1>3, <1>4, <1>5, Climb
<1>7. Together(run[L], ran[L], p, q, st, su, said(L))
    BY <1>3, <1>6 DEF Good
<1> QED  BY <1>1, <1>2, <1>7 DEF L

(* A whole layer: its rounds, and its claims before the next.              *)
LEMMA LayerTogether ==
    ASSUME NEW w, NEW x, NEW p, NEW q, NEW st, NEW su, NEW ly \in LayerIds,
           Together(w, x, p, q, st, su, UpTo(ly - 1))
    PROVE  Together(ConstrainLayer(w, p, ly), ConstrainLayer(x, q, ly),
                    p, q, st, su, UpTo(ly))
<1> DEFINE w1 == ConstrainRounds(BeginLayer(w, ly), p, ly)
           x1 == ConstrainRounds(BeginLayer(x, ly), q, ly)
           wc == <<"wc", ly>>
           was == UpTo(ly - 1) \cup RoundsUpTo(ly, 2 * LogW[ly])
<1>1. Together(w1, x1, p, q, st, su, was)
    <2>1. Together(BeginLayer(w, ly), BeginLayer(x, ly), p, q, st, su,
                   UpTo(ly - 1))
        BY BeginTogether
    <2> QED  BY <2>1, RoundsTogether
<1>2. /\ ConstrainLayer(w, p, ly) = Says(w1, "array", p[wc])
      /\ ConstrainLayer(x, q, ly) = Says(x1, "array", q[wc])
    BY Zenon DEF ConstrainLayer, WriteClaims
<1>3. UpTo(ly) \subseteq was \cup {wc}
    <2>1. LayerMessages(ly) \subseteq RoundsUpTo(ly, 2 * LogW[ly]) \cup {wc}
        BY LayerIsSaid
    <2>2. UpTo(ly) \subseteq UpTo(ly - 1) \cup LayerMessages(ly)
        BY OneLayerMore
    <2> HIDE DEF wc
    <2> QED  BY <2>1, <2>2
<1> HIDE DEF w1, x1, wc, was
<1>4. Together(Says(w1, "array", p[wc]), Says(x1, "array", q[wc]),
               p, q, st, su, was \cup {wc})
    BY <1>1, SaysTogether
<1>5. Together(Says(w1, "array", p[wc]), Says(x1, "array", q[wc]),
               p, q, st, su, UpTo(ly))
    BY <1>3, <1>4, SaidLess
<1> QED  BY <1>2, <1>5

(* The sumcheck, in the code of the prover and in that of the constraints. *)
LEMMA SumcheckTogether ==
    ASSUME NEW w, NEW x, NEW p, NEW q, NEW st, NEW su,
           Together(w, x, p, q, st, su, UpTo(0))
    PROVE  Together(ProveSumcheck(w, p), ProveSumcheck(x, q), p, q, st, su,
                    UpTo(Len(LogW)))
<1> DEFINE L == Len(LogW)
<1>1. PICK layer : IsWalked(layer, L, w, p) /\ ProveSumcheck(w, p) = layer[L]
    BY LayersAreWalked
<1>2. PICK other : IsWalked(other, L, x, q) /\ ProveSumcheck(x, q) = other[L]
    BY LayersAreWalked
<1>3. L \in Nat /\ LayerIds = 1..L
    BY ShapeAssumption DEF LayerIds
<1> HIDE DEF L
<1> DEFINE Good == {i \in Nat : i <= L =>
                        Together(layer[i], other[i], p, q, st, su, UpTo(i))}
<1>4. 0 \in Good
    <2>1. layer[0] = BeginCircuit(w) /\ other[0] = BeginCircuit(x)
        BY <1>1, <1>2, <1>3 DEF IsWalked
    <2> QED  BY <2>1, CircuitTogether
<1>5. ASSUME NEW n \in Nat, n \in Good PROVE n + 1 \in Good
    <2> DEFINE i == n + 1
    <2> SUFFICES ASSUME i <= L
                 PROVE  Together(layer[i], other[i], p, q, st, su, UpTo(i))
        OBVIOUS
    <2>1. i \in 1..L /\ i - 1 = n /\ n <= L /\ i \in 0..L /\ i # 0
        BY <1>3
    <2>2. Together(layer[n], other[n], p, q, st, su, UpTo(n))
        BY <1>5, <2>1
    <2> HIDE DEF i
    <2>3. /\ layer[i] = ConstrainLayer(layer[i - 1], p, i)
          /\ other[i] = ConstrainLayer(other[i - 1], q, i)
        BY <1>1, <1>2, <2>1 DEF IsWalked
    <2>4. Together(layer[i - 1], other[i - 1], p, q, st, su, UpTo(i - 1))
        BY <2>1, <2>2
    <2>5. Together(ConstrainLayer(layer[i - 1], p, i),
                   ConstrainLayer(other[i - 1], q, i), p, q, st, su, UpTo(i))
        BY <1>3, <2>1, <2>4, LayerTogether
    <2> QED  BY <2>3, <2>5
<1> HIDE DEF Good
<1>6. L \in Good
    BY <1>3, <1>4, <1>5, Climb
<1>7. Together(layer[L], other[L], p, q, st, su, UpTo(L))
    BY <1>3, <1>6 DEF Good
<1> QED  BY <1>1, <1>2, <1>7 DEF L

(* verifier_constraints.                                                   *)
LEMMA ConstraintsTogether ==
    ASSUME NEW w, NEW x, NEW p, NEW q, NEW st, NEW su,
           Together(w, x, p, q, st, su, UpTo(0))
    PROVE  Together(VerifierConstraints(w, p), VerifierConstraints(x, q),
                    p, q, st, su, UpTo(Len(LogW)))
<1>1. /\ VerifierConstraints(w, p) = Draws(ProveSumcheck(w, p), <<"alpha_in">>, 1)
      /\ VerifierConstraints(x, q) = Draws(ProveSumcheck(x, q), <<"alpha_in">>, 1)
    BY LayersAreWalked
<1>2. Together(ProveSumcheck(w, p), ProveSumcheck(x, q), p, q, st, su,
               UpTo(Len(LogW)))
    BY SumcheckTogether
<1>3. SaidBefore(<<"alpha_in">>) \subseteq UpTo(Len(LogW))
    BY BeforeTheEnd
<1>4. Together(Draws(ProveSumcheck(w, p), <<"alpha_in">>, 1),
               Draws(ProveSumcheck(x, q), <<"alpha_in">>, 1),
               p, q, st, su, UpTo(Len(LogW)))
    BY <1>2, <1>3, DrawsTogether
<1> QED  BY <1>1, <1>4

-----------------------------------------------------------------------------
(* The ends of the walks.                                                  *)

(* gen_uldt, gen_alphal, gen_alphaq and gen_uquad.                         *)
LEMMA ChallengesTogether ==
    ASSUME NEW w, NEW x, NEW p, NEW q, NEW st, NEW su,
           Together(w, x, p, q, st, su, UpTo(Len(LogW)))
    PROVE  Together(LigeroChallenges(w), LigeroChallenges(x), p, q, st, su,
                    UpTo(Len(LogW)))
<1> DEFINE said == UpTo(Len(LogW))
           D1(u) == Draws(u, <<"u_ldt">>, 1)
           D2(u) == Draws(D1(u), <<"alphal">>, 1)
           D3(u) == Draws(D2(u), <<"alphaq">>, 1)
           D4(u) == Draws(D3(u), <<"u_quad">>, 1)
<1>1. /\ SaidBefore(<<"u_ldt">>) \subseteq said
      /\ SaidBefore(<<"alphal">>) \subseteq said
      /\ SaidBefore(<<"alphaq">>) \subseteq said
      /\ SaidBefore(<<"u_quad">>) \subseteq said
    BY BeforeTheEnd
<1>2. /\ LigeroChallenges(w) = D4(w) /\ LigeroChallenges(x) = D4(x)
    BY Zenon DEF LigeroChallenges
<1> HIDE DEF said
<1>3. Together(D1(w), D1(x), p, q, st, su, said)
    BY <1>1, DrawsTogether DEF said
<1> HIDE DEF D1
<1>4. Together(D2(w), D2(x), p, q, st, su, said)
    BY <1>1, <1>3, DrawsTogether
<1> HIDE DEF D2
<1>5. Together(D3(w), D3(x), p, q, st, su, said)
    BY <1>1, <1>4, DrawsTogether
<1> HIDE DEF D3
<1>6. Together(D4(w), D4(x), p, q, st, su, said)
    BY <1>1, <1>5, DrawsTogether
<1> QED  BY <1>2, <1>6 DEF said

(* The four responses, after which everything is said.                     *)
LEMMA ResponsesTogether ==
    ASSUME NEW w, NEW x, NEW p, NEW q, NEW st, NEW su,
           Together(w, x, p, q, st, su, UpTo(Len(LogW)))
    PROVE  Together(WriteResponses(w, p), WriteResponses(x, q), p, q, st, su,
                    {<<"root">>} \cup Messages)
<1> DEFINE S0 == UpTo(Len(LogW))
           m1 == <<"y_ldt">>
           m2 == <<"y_dot">>
           m3 == <<"y_quad_0">>
           m4 == <<"y_quad_2">>
           S1 == S0 \cup {m1}
           S2 == S1 \cup {m2}
           S3 == S2 \cup {m3}
           S4 == S3 \cup {m4}
           W1(u, r) == Says(u, "array", r[m1])
           W2(u, r) == Says(W1(u, r), "array", r[m2])
           W3(u, r) == Says(W2(u, r), "array", r[m3])
           W4(u, r) == Says(W3(u, r), "array", r[m4])
<1>1. WriteResponses(w, p) = W4(w, p) /\ WriteResponses(x, q) = W4(x, q)
    BY Zenon DEF WriteResponses
<1>2. {<<"root">>} \cup Messages \subseteq S4
    <2>1. Responses = {m1, m2, m3, m4}
        BY DEF Responses
    <2>2. Messages \subseteq S0 \cup Responses /\ <<"root">> \in S0
        BY AllIsSaid DEF UpTo
    <2> HIDE DEF S0, m1, m2, m3, m4
    <2> QED  BY <2>1, <2>2
<1> HIDE DEF S0, m1, m2, m3, m4
<1>3. Together(W1(w, p), W1(x, q), p, q, st, su, S1)
    BY SaysTogether DEF S0
<1> HIDE DEF W1, S1
<1>4. Together(W2(w, p), W2(x, q), p, q, st, su, S2)
    BY <1>3, SaysTogether
<1> HIDE DEF W2, S2
<1>5. Together(W3(w, p), W3(x, q), p, q, st, su, S3)
    BY <1>4, SaysTogether
<1> HIDE DEF W3, S3
<1>6. Together(W4(w, p), W4(x, q), p, q, st, su, S4)
    BY <1>5, SaysTogether
<1> HIDE DEF W4, S4
<1>7. Together(W4(w, p), W4(x, q), p, q, st, su, {<<"root">>} \cup Messages)
    BY <1>2, <1>6, SaidLess
<1> QED  BY <1>1, <1>7

(* LigeroProver::prove and LigeroVerifier::verify, up to the columns.      *)
LEMMA LigeroTogether ==
    ASSUME NEW w, NEW x, NEW p, NEW q, NEW st, NEW su,
           Together(w, x, p, q, st, su, UpTo(Len(LogW)))
    PROVE  Together(LigeroProve(w, p), LigeroVerify(x, q), p, q, st, su,
                    {<<"root">>} \cup Messages)
<1> DEFINE w1 == Says(w, "bytes", "hash_of_A")
           x1 == Says(x, "bytes", "hash_of_A")
           w2 == LigeroChallenges(w1)
           x2 == LigeroChallenges(x1)
           w3 == WriteResponses(w2, p)
           x3 == WriteResponses(x2, q)
           said == {<<"root">>} \cup Messages
<1>1. Together(w1, x1, p, q, st, su, UpTo(Len(LogW)))
    <2>1. Together(w1, x1, p, q, st, su, UpTo(Len(LogW)) \cup {})
        BY SaysTogether
    <2> HIDE DEF w1, x1
    <2> QED  BY <2>1, SaidLess
<1>2. /\ LigeroProve(w, p) = Draws(w3, <<"idx">>, NReq)
      /\ LigeroVerify(x, q) = Draws(x3, <<"idx">>, NReq)
    BY Zenon DEF LigeroProve, LigeroVerify
<1> HIDE DEF w1, x1
<1>3. Together(w2, x2, p, q, st, su, UpTo(Len(LogW)))
    BY <1>1, ChallengesTogether
<1> HIDE DEF w2, x2
<1>4. Together(w3, x3, p, q, st, su, said)
    BY <1>3, ResponsesTogether
<1> HIDE DEF w3, x3
<1>5. SaidBefore(<<"idx">>) \subseteq said /\ NReq \in Nat \ {0}
    BY BeforeTheEnd, ShapeAssumption
<1> HIDE DEF said
<1>6. Together(Draws(w3, <<"idx">>, NReq), Draws(x3, <<"idx">>, NReq),
               p, q, st, su, said)
    BY <1>4, <1>5, DrawsTogether
<1> QED  BY <1>2, <1>6 DEF said

-----------------------------------------------------------------------------
(* Where the walks begin.                                                  *)

PerInput(f) == f = [i \in 1..NPub |-> f[i]]

(* A sequence, and n elements after it.                                    *)
LEMMA Joined ==
    ASSUME NEW T, NEW s \in Seq(T), NEW f \in Seq(T), NEW n \in Nat,
           Len(f) = n
    PROVE  /\ s \o f \in Seq(T) /\ Len(s \o f) = Len(s) + n
           /\ \A i \in 1..Len(s) : (s \o f)[i] = s[i]
           /\ \A i \in 1..n : (s \o f)[Len(s) + i] = f[i]
           /\ Len(s) \in Nat
OBVIOUS

(* As many items appended at once tell what each of them was.              *)
LEMMA ConcatTells ==
    ASSUME NEW s, IsSeq(s), NEW r, IsSeq(r), Len(s) = Len(r),
           NEW f, PerInput(f), NEW g, PerInput(g)
    PROVE  /\ IsSeq(s \o f)
           /\ Len(s \o f) = Len(s) + NPub
           /\ s \o f = r \o g => s = r /\ f = g
<1>1. NPub \in Nat
    BY ShapeAssumption
<1>2. PICK S : s \in Seq(S)
    BY DEF IsSeq
<1>3. PICK R : r \in Seq(R)
    BY DEF IsSeq
<1> DEFINE T == S \cup R \cup {f[i] : i \in 1..NPub} \cup {g[i] : i \in 1..NPub}
<1>4. s \in Seq(T) /\ r \in Seq(T)
    BY <1>2, <1>3
<1>5. f \in [1..NPub -> T] /\ g \in [1..NPub -> T]
    BY DEF PerInput
<1> HIDE DEF T
<1>6. f \in Seq(T) /\ g \in Seq(T) /\ Len(f) = NPub /\ Len(g) = NPub
    BY <1>1, <1>5
<1>7. /\ s \o f \in Seq(T) /\ Len(s \o f) = Len(s) + NPub
      /\ \A i \in 1..Len(s) : (s \o f)[i] = s[i]
      /\ \A i \in 1..NPub : (s \o f)[Len(s) + i] = f[i]
      /\ Len(s) \in Nat
    BY ONLY <1>1, <1>4, <1>6, Joined, SMTT(20)
<1>8. /\ r \o g \in Seq(T)
      /\ \A i \in 1..Len(r) : (r \o g)[i] = r[i]
      /\ \A i \in 1..NPub : (r \o g)[Len(r) + i] = g[i]
    BY ONLY <1>1, <1>4, <1>6, Joined, SMTT(20)
<1>9. ASSUME s \o f = r \o g PROVE s = r /\ f = g
    <2>1. \A i \in 1..Len(s) : s[i] = r[i]
        BY <1>7, <1>8, <1>9
    <2>2. \A i \in 1..NPub : f[i] = g[i]
        BY <1>7, <1>8, <1>9
    <2>3. s = [i \in 1..Len(s) |-> s[i]] /\ r = [i \in 1..Len(s) |-> r[i]]
        BY <1>4
    <2> QED  BY <2>1, <2>2, <2>3 DEF PerInput
<1> QED  BY <1>7, <1>9 DEF IsSeq

(* Items appended to sequences as long, which tell them apart.             *)
LEMMA AppendBoth ==
    ASSUME NEW s, IsSeq(s), NEW r, IsSeq(r), Len(s) = Len(r),
           NEW elt, NEW f
    PROVE  /\ IsSeq(Append(s, elt)) /\ IsSeq(Append(r, f))
           /\ Len(Append(s, elt)) = Len(Append(r, f))
           /\ Append(s, elt) = Append(r, f) => s = r /\ elt = f
BY AppendKeeps, AppendTells

(* Nothing absorbed is a sequence, too.                                    *)
LEMMA EmptyIsSeq == IsSeq(<<>>)
<1>1. <<>> \in Seq({})
    OBVIOUS
<1> QED  BY <1>1 DEF IsSeq

(* After the root, the circuit's id and the public inputs, the transcripts *)
(* tell them apart.                                                        *)
LEMMA BegunTells ==
    ASSUME NEW v, NEW u, NEW st \in Statements, NEW su \in Statements,
           NEW p, NEW q
    PROVE  LET a == Begun(v, st, p).absorbed
               b == Begun(u, su, q).absorbed
           IN  /\ IsSeq(a) /\ IsSeq(b) /\ Len(a) = Len(b)
               /\ a = b => st = su /\ p[<<"root">>] = q[<<"root">>]
               /\ Begun(v, st, p) = [absorbed |-> a, prf |-> NoPrf]
               /\ Begun(u, su, q) = [absorbed |-> b, prf |-> NoPrf]
<1> DEFINE none == <<>>
           l == Append(none, <<"bytes", "label">>)
           a1 == Append(l, <<"bytes", p[<<"root">>]>>)
           b1 == Append(l, <<"bytes", q[<<"root">>]>>)
           a2 == Append(a1, <<"bytes", st.id>>)
           b2 == Append(b1, <<"bytes", su.id>>)
           f == [i \in 1..NPub |-> <<"element", st.pub[i]>>]
           g == [i \in 1..NPub |-> <<"element", su.pub[i]>>]
           a3 == a2 \o f
           b3 == b2 \o g
           a4 == Append(a3, <<"element", 0>>)
           b4 == Append(b3, <<"element", 0>>)
           a5 == Append(a4, <<"bytes", "zeros">>)
           b5 == Append(b4, <<"bytes", "zeros">>)
<1>1. /\ Begun(v, st, p) = [absorbed |-> a5, prf |-> NoPrf]
      /\ Begun(u, su, q) = [absorbed |-> b5, prf |-> NoPrf]
    BY DEF Begun, InitializeSumcheckFiatShamir, WriteInputs, Write, Committed,
        WriteCommitment, NewTranscript, Fresh
<1>2. IsSeq(none)
    BY EmptyIsSeq
<1> HIDE DEF none
<1>3. IsSeq(l)
    BY <1>2, AppendKeeps
<1> HIDE DEF l
<1>4. /\ IsSeq(a1) /\ IsSeq(b1) /\ Len(a1) = Len(b1)
      /\ a1 = b1 => <<"bytes", p[<<"root">>]>> = <<"bytes", q[<<"root">>]>>
    BY <1>3, AppendBoth
<1> HIDE DEF a1, b1
<1>5. /\ IsSeq(a2) /\ IsSeq(b2) /\ Len(a2) = Len(b2)
      /\ a2 = b2 => a1 = b1 /\ <<"bytes", st.id>> = <<"bytes", su.id>>
    BY <1>4, AppendBoth, SMTT(20)
<1> HIDE DEF a2, b2
<1>6. /\ IsSeq(a3) /\ IsSeq(b3) /\ Len(a3) = Len(b3)
      /\ a3 = b3 => a2 = b2 /\ f = g
    <2>1. PerInput(f) /\ PerInput(g)
        BY DEF PerInput
    <2> HIDE DEF f, g
    <2>2. IsSeq(b2 \o g) /\ Len(b2 \o g) = Len(b2) + NPub
        BY <1>5, <2>1, ConcatTells, ZenonT(20)
    <2>3. /\ IsSeq(a2 \o f) /\ Len(a2 \o f) = Len(a2) + NPub
          /\ a2 \o f = b2 \o g => a2 = b2 /\ f = g
        BY <1>5, <2>1, ConcatTells, ZenonT(20)
    <2> QED  BY <1>5, <2>2, <2>3
<1>7. f = g => \A i \in 1..NPub : st.pub[i] = su.pub[i]
    <2> SUFFICES ASSUME f = g, NEW i \in 1..NPub PROVE st.pub[i] = su.pub[i]
        OBVIOUS
    <2>1. f[i] = <<"element", st.pub[i]>> /\ g[i] = <<"element", su.pub[i]>>
        OBVIOUS
    <2> HIDE DEF f, g
    <2>2. <<"element", st.pub[i]>> = <<"element", su.pub[i]>>
        BY <2>1
    <2> QED  BY <2>2
<1> HIDE DEF f, g, a3, b3
<1>8. /\ IsSeq(a4) /\ IsSeq(b4) /\ Len(a4) = Len(b4)
      /\ a4 = b4 => a3 = b3
    BY <1>6, AppendBoth
<1> HIDE DEF a4, b4
<1>9. /\ IsSeq(a5) /\ IsSeq(b5) /\ Len(a5) = Len(b5)
      /\ a5 = b5 => a4 = b4
    BY <1>8, AppendBoth
<1> HIDE DEF a5, b5
<1>10. ASSUME <<"bytes", st.id>> = <<"bytes", su.id>>,
              \A i \in 1..NPub : st.pub[i] = su.pub[i]
       PROVE  st = su
    <2>1. PICK y \in [1..NPub -> Values] : st = [id |-> st.id, pub |-> y]
        BY ContentAssumption
    <2>2. PICK z \in [1..NPub -> Values] : su = [id |-> su.id, pub |-> z]
        BY ContentAssumption
    <2>3. st.pub = y /\ su.pub = z
        BY <2>1, <2>2
    <2>4. y = z
        <3>1. \A i \in 1..NPub : y[i] = z[i]
            BY <1>10, <2>3
        <3>2. y = [i \in 1..NPub |-> y[i]] /\ z = [i \in 1..NPub |-> z[i]]
            OBVIOUS
        <3>3. [i \in 1..NPub |-> y[i]] = [i \in 1..NPub |-> z[i]]
            BY <3>1
        <3> QED  BY <3>2, <3>3, Zenon
    <2>5. st.id = su.id
        BY <1>10
    <2>6. [id |-> st.id, pub |-> y] = [id |-> su.id, pub |-> z]
        BY <2>4, <2>5
    <2> QED  BY <2>1, <2>2, <2>6, Zenon
<1>11. <<"bytes", p[<<"root">>]>> = <<"bytes", q[<<"root">>]>>
            => p[<<"root">>] = q[<<"root">>]
    OBVIOUS
<1>12. a5 = b5 => st = su /\ p[<<"root">>] = q[<<"root">>]
    BY <1>4, <1>5, <1>6, <1>7, <1>8, <1>9, <1>10, <1>11, Zenon
<1>13. Begun(v, st, p).absorbed = a5 /\ Begun(u, su, q).absorbed = b5
    BY <1>1
<1> QED  BY <1>1, <1>9, <1>12, <1>13, Zenon

(* A walk that begins there is together with another, and a clone of it is *)
(* no different: nothing was drawn.                                        *)
LEMMA BegunTogether ==
    ASSUME NEW v, NEW u, NEW st \in Statements, NEW su \in Statements,
           NEW p, NEW q
    PROVE  /\ Together(Walk(Begun(v, st, p)), Walk(Begun(u, su, q)),
                       p, q, st, su, UpTo(0))
           /\ Clone(Begun(v, st, p)) = Begun(v, st, p)
<1> DEFINE a == Begun(v, st, p).absorbed
           b == Begun(u, su, q).absorbed
           w == Walk(Begun(v, st, p))
           x == Walk(Begun(u, su, q))
<1>1. /\ IsSeq(a) /\ IsSeq(b) /\ Len(a) = Len(b)
      /\ a = b => st = su /\ p[<<"root">>] = q[<<"root">>]
      /\ Begun(v, st, p) = [absorbed |-> a, prf |-> NoPrf]
      /\ Begun(u, su, q) = [absorbed |-> b, prf |-> NoPrf]
    BY BegunTells
<1>2. /\ w = [t |-> [absorbed |-> a, prf |-> NoPrf], drew |-> <<>>]
      /\ x = [t |-> [absorbed |-> b, prf |-> NoPrf], drew |-> <<>>]
    BY <1>1, Zenon DEF Walk
<1>3. Clone(Begun(v, st, p)) = Begun(v, st, p)
    <2> HIDE DEF a
    <2>1. [[absorbed |-> a, prf |-> NoPrf] EXCEPT !.prf = NoPrf]
            = [absorbed |-> a, prf |-> NoPrf]
        OBVIOUS
    <2> QED  BY <1>1, <2>1, Zenon DEF Clone
<1> HIDE DEF a, b, w, x
<1>4. /\ w.t.absorbed = a /\ w.t.prf = NoPrf /\ w.drew = <<>>
      /\ x.t.absorbed = b /\ x.t.prf = NoPrf /\ x.drew = <<>>
      /\ NoPrf.drawn = 0
    BY <1>2 DEF NoPrf
<1>5. /\ w = [t |-> [absorbed |-> w.t.absorbed, prf |-> w.t.prf],
              drew |-> w.drew]
      /\ x = [t |-> [absorbed |-> x.t.absorbed, prf |-> x.t.prf],
              drew |-> x.drew]
    BY <1>2
<1>6. IsWalk(w) /\ IsWalk(x)
    BY <1>1, <1>4, <1>5, EmptyIsSeq DEF IsWalk
<1>7. InStep(w, x)
    BY <1>1, <1>4 DEF InStep
<1>8. Tells(w, x, p, q, st, su, UpTo(0))
    BY <1>1, <1>4, NoLayerYet DEF Tells, Alike
<1> QED  BY <1>3, <1>6, <1>7, <1>8 DEF Together, w, x

-----------------------------------------------------------------------------
(* What the ends have in common.                                           *)

(* The ends of prover and verifier, whatever each of them holds.           *)
LEMMA EndsTogether ==
    ASSUME NEW v, NEW u, NEW st \in Statements, NEW su \in Statements,
           NEW p, NEW q
    PROVE  Together(ProverEnd(v, st, p), VerifierEnd(u, su, q),
                    p, q, st, su, {<<"root">>} \cup Messages)
<1>1. Together(Walk(Begun(v, st, p)), Walk(Begun(u, su, q)),
               p, q, st, su, UpTo(0))
    BY BegunTogether
<1>2. Together(Constrained(v, st, p), Constrained(u, su, q),
               p, q, st, su, UpTo(Len(LogW)))
    <2>1. Together(VerifierConstraints(Walk(Begun(v, st, p)), p),
                   VerifierConstraints(Walk(Begun(u, su, q)), q),
                   p, q, st, su, UpTo(Len(LogW)))
        BY <1>1, ConstraintsTogether
    <2> QED  BY <2>1, Zenon DEF Constrained
<1>3. Together(LigeroProve(Constrained(v, st, p), p),
               LigeroVerify(Constrained(u, su, q), q),
               p, q, st, su, {<<"root">>} \cup Messages)
    BY <1>2, LigeroTogether
<1> QED  BY <1>3, Zenon DEF ProverEnd, VerifierEnd

(* Two draws from the same place are the same step of the protocol.        *)
LEMMA SameStep ==
    ASSUME NEW w, NEW x, NEW p, NEW q, NEW st, NEW su, NEW said,
           Together(w, x, p, q, st, su, said),
           NEW i \in DOMAIN w.drew, NEW j \in DOMAIN x.drew,
           SameDraw(w.drew[i], x.drew[j])
    PROVE  /\ w.drew[i].name = x.drew[j].name
           /\ Alike(p, q, st, su, SaidBefore(w.drew[i].name))
<1>1. /\ DOMAIN w.drew = 1..Len(w.drew) /\ DOMAIN x.drew = 1..Len(w.drew)
      /\ Len(w.drew) \in Nat
    BY DEF Together, IsWalk, InStep, IsSeq
<1> DEFINE place(k) == Len(w.drew[k].after)
           of(k) == w.drew[k].from
<1>2. place(i) = place(j) /\ of(i) = of(j)
    <2>1. place(j) = Len(x.drew[j].after) /\ of(j) = x.drew[j].from
        BY <1>1 DEF Together, InStep
    <2> QED  BY <2>1 DEF SameDraw
<1>3. place(i) \in Nat /\ of(i) \in Nat
    BY <1>1 DEF Together, InStep
<1>4. \A k, l \in 1..Len(w.drew) : k < l => IsBefore(place(k), of(k), place(l), of(l))
    BY DEF Together, InStep
<1> HIDE DEF place, of
<1>5. /\ ~ IsBefore(place(i), of(i), place(j), of(j))
      /\ ~ IsBefore(place(j), of(j), place(i), of(i))
    BY <1>2, <1>3 DEF IsBefore
<1>6. ~ (i < j) /\ ~ (j < i)
    BY <1>1, <1>4, <1>5
<1>7. i = j
    BY <1>1, <1>6
<1>8. w.drew[i].name = x.drew[i].name
    BY <1>1 DEF Together, InStep
<1>9. Alike(p, q, st, su, SaidBefore(w.drew[i].name))
    BY <1>1, <1>7 DEF Together, Tells, SameDraw
<1> QED  BY <1>7, <1>8, <1>9

(* SPEC.md, Fiat-Shamir transcript, for every circuit, statement and proof:*)
(* a challenge that prover and verifier share was drawn by both at the same*)
(* step, about the same statement, after the same messages.                *)
THEOREM ChallengesSettle == Spec => []ChallengesSettleThePast
<1>1. IInv => ChallengesSettleThePast
    <2> SUFFICES ASSUME IInv,
                        NEW i \in DOMAIN challenges.prover,
                        NEW j \in DOMAIN challenges.verifier,
                        SameDraw(challenges.prover[i], challenges.verifier[j])
                 PROVE  /\ challenges.prover[i].name = challenges.verifier[j].name
                        /\ statement.prover = statement.verifier
                        /\ \A m \in SaidBefore(challenges.prover[i].name) :
                                proof.sent[m] = proof.received[m]
        BY DEF ChallengesSettleThePast
    <2> DEFINE w == ProverEnd(version.prover, statement.prover, proof.sent)
               x == VerifierEnd(version.verifier, statement.verifier,
                                proof.received)
    <2>1. stage = "verified"
        BY DEF IInv, VerifierOnCourse
    <2>2. challenges.prover = w.drew /\ challenges.verifier = x.drew
        BY <2>1 DEF IInv, ProverOnCourse, VerifierOnCourse
    <2>3. Together(w, x, proof.sent, proof.received,
                   statement.prover, statement.verifier,
                   {<<"root">>} \cup Messages)
        BY EndsTogether DEF IInv, Shapes
    <2> HIDE DEF w, x
    <2>4. /\ w.drew[i].name = x.drew[j].name
          /\ Alike(proof.sent, proof.received,
                   statement.prover, statement.verifier,
                   SaidBefore(w.drew[i].name))
        BY <2>2, <2>3, SameStep
    <2> QED  BY <2>2, <2>4 DEF Alike
<1> QED  BY InitOnCourse, StepsStayOnCourse, <1>1, PTL DEF Spec

-----------------------------------------------------------------------------
(* What is drawn stays drawn.                                              *)

Continues(u, w) ==
    /\ IsWalk(u) /\ IsWalk(w)
    /\ Len(u.drew) <= Len(w.drew)
    /\ \A i \in 1..Len(u.drew) : w.drew[i] = u.drew[i]

(* A later draw leaves the earlier ones,                                   *)
LEMMA DrawsContinue ==
    ASSUME NEW u, NEW w, Continues(u, w), NEW name, NEW n \in Nat
    PROVE  Continues(u, Draws(w, name, n))
<1> DEFINE d == [name |-> name, after |-> w.t.absorbed, from |-> w.t.prf.drawn,
                 to |-> w.t.prf.drawn + n]
<1>1. Draws(w, name, n).drew = Append(w.drew, d)
    BY DrawsIs DEF Continues
<1>2. IsWalk(Draws(w, name, n))
    BY WalksOn DEF Continues
<1> HIDE DEF d
<1>3. IsSeq(u.drew) /\ IsSeq(w.drew) /\ Len(u.drew) \in Nat
    BY AppendKeeps DEF Continues, IsWalk
<1>4. /\ Len(Append(w.drew, d)) = Len(w.drew) + 1
      /\ Len(w.drew) \in Nat
      /\ \A i \in 1..Len(w.drew) : Append(w.drew, d)[i] = w.drew[i]
    BY <1>3, AppendKeeps
<1> QED  BY <1>1, <1>2, <1>3, <1>4 DEF Continues

(* and so does what is said.                                               *)
LEMMA SaysContinue ==
    ASSUME NEW u, NEW w, Continues(u, w), NEW tag, NEW elt
    PROVE  Continues(u, Says(w, tag, elt))
<1>1. IsWalk(w)
    BY DEF Continues
<1>2. Says(w, tag, elt).drew = w.drew
    BY <1>1, SaysIs
<1>3. IsWalk(Says(w, tag, elt))
    BY <1>1, WalksOn
<1> QED  BY <1>2, <1>3 DEF Continues

(* LigeroProver::prove, from what it is given.                             *)
LEMMA LigeroContinues ==
    ASSUME NEW u, NEW w, Continues(u, w), NEW p
    PROVE  Continues(u, LigeroProve(w, p))
<1> DEFINE w0 == Says(w, "bytes", "hash_of_A")
           w1 == Draws(w0, <<"u_ldt">>, 1)
           w2 == Draws(w1, <<"alphal">>, 1)
           w3 == Draws(w2, <<"alphaq">>, 1)
           w4 == Draws(w3, <<"u_quad">>, 1)
           w5 == Says(w4, "array", p[<<"y_ldt">>])
           w6 == Says(w5, "array", p[<<"y_dot">>])
           w7 == Says(w6, "array", p[<<"y_quad_0">>])
           w8 == Says(w7, "array", p[<<"y_quad_2">>])
<1>1. LigeroProve(w, p) = Draws(w8, <<"idx">>, NReq)
    BY Zenon DEF LigeroProve, WriteResponses, LigeroChallenges
<1>2. Continues(u, w0)
    BY SaysContinue
<1> HIDE DEF w0
<1>3. Continues(u, w1)
    BY <1>2, DrawsContinue
<1> HIDE DEF w1
<1>4. Continues(u, w2)
    BY <1>3, DrawsContinue
<1> HIDE DEF w2
<1>5. Continues(u, w3)
    BY <1>4, DrawsContinue
<1> HIDE DEF w3
<1>6. Continues(u, w4)
    BY <1>5, DrawsContinue
<1> HIDE DEF w4
<1>7. Continues(u, w5)
    BY <1>6, SaysContinue
<1> HIDE DEF w5
<1>8. Continues(u, w6)
    BY <1>7, SaysContinue
<1> HIDE DEF w6
<1>9. Continues(u, w7)
    BY <1>8, SaysContinue
<1> HIDE DEF w7
<1>10. Continues(u, w8)
    BY <1>9, SaysContinue
<1> HIDE DEF w8
<1> QED  BY <1>1, <1>10, DrawsContinue, ShapeAssumption

(* ProverLayers::prove on the clone and ZkCommon::verifier_constraints on  *)
(* the transcript itself.                                                  *)
LEMMA ProverContinues ==
    ASSUME NEW v, NEW st \in Statements, NEW p
    PROVE  Continues(SumcheckEnd(v, st, p), ProverEnd(v, st, p))
<1> DEFINE w == Walk(Begun(v, st, p))
           u == ProveSumcheck(w, p)
<1>1. SumcheckEnd(v, st, p) = u
    BY BegunTogether, Zenon DEF SumcheckEnd
<1>2. Together(w, w, p, p, st, st, UpTo(0))
    BY BegunTogether
<1>3. Constrained(v, st, p) = Draws(u, <<"alpha_in">>, 1)
    BY LayersAreWalked DEF Constrained
<1> HIDE DEF w
<1>4. IsWalk(u)
    BY <1>2, SumcheckTogether DEF Together
<1> HIDE DEF u
<1>5. Continues(u, u)
    <2>1. Len(u.drew) \in Nat
        BY <1>4, AppendKeeps DEF IsWalk
    <2> QED  BY <1>4, <2>1 DEF Continues
<1>6. Continues(u, Draws(u, <<"alpha_in">>, 1))
    BY <1>5, DrawsContinue
<1>7. Continues(u, LigeroProve(Draws(u, <<"alpha_in">>, 1), p))
    BY <1>6, LigeroContinues
<1> QED  BY <1>1, <1>3, <1>7 DEF ProverEnd

(* zk_prover.h, "5. Simulate the verifier", for every circuit and proof:   *)
(* the sumcheck on the clone is given the challenges its constraints are   *)
(* drawn with, in the same order.                                          *)
THEOREM LockStep == Spec => []SumcheckInLockStep
<1>1. ASSUME NEW s, NEW r, IsSeq(s), IsSeq(r), Len(s) <= Len(r),
             \A i \in 1..Len(s) : r[i] = s[i]
      PROVE  IsPrefix(s, r)
    <2>1. Len(s) \in Nat /\ Len(r) \in Nat
        BY <1>1, AppendKeeps
    <2>2. SubSeq(s, 1, Len(s)) = SubSeq(r, 1, Len(s))
        BY <1>1, <2>1
    <2> QED  BY <1>1, <2>2 DEF IsPrefix
<1>2. IInv => SumcheckInLockStep
    <2> SUFFICES ASSUME IInv PROVE IsPrefix(challenges.sumcheck, challenges.prover)
        BY DEF SumcheckInLockStep
    <2>1. CASE stage \in {"begun", "committed"}
        <3>1. challenges.sumcheck = <<>> /\ challenges.prover = <<>>
            BY <2>1 DEF IInv, ProverOnCourse
        <3>2. Len(<<>>) = 0
            OBVIOUS
        <3>3. IsPrefix(<<>>, <<>>)
            BY <1>1, <3>2, EmptyIsSeq
        <3> QED  BY <3>1, <3>3
    <2>2. CASE stage \in {"proved", "received", "verified"}
        <3> DEFINE u == SumcheckEnd(version.prover, statement.prover, proof.sent)
                   w == ProverEnd(version.prover, statement.prover, proof.sent)
        <3>1. challenges.sumcheck = u.drew /\ challenges.prover = w.drew
            BY <2>2 DEF IInv, ProverOnCourse
        <3>2. Continues(u, w)
            BY ProverContinues DEF IInv, Shapes
        <3> HIDE DEF u, w
        <3>3. IsPrefix(u.drew, w.drew)
            BY <1>1, <3>2 DEF Continues, IsWalk
        <3> QED  BY <3>1, <3>3
    <2> QED  BY <2>1, <2>2 DEF IInv, Shapes
<1> QED  BY InitOnCourse, StepsStayOnCourse, <1>2, PTL DEF Spec

(* The two transcripts of zk_prover.h and zk_verifier.h never depend on    *)
(* anything but the version, the statement and the proof.                  *)
THEOREM Replay == Spec => []HonestProofReplays
<1>1. IInv => HonestProofReplays
    BY SameEnd DEF IInv, HonestProofReplays, ProverOnCourse, VerifierOnCourse,
        ProverEnd, VerifierEnd, Constrained, Begun, Committed, NewTranscript
<1> QED  BY InitOnCourse, StepsStayOnCourse, <1>1, PTL DEF Spec
==============================================================================

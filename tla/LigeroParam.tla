---------------------------- MODULE LigeroParam ----------------------------
(***************************************************************************)
(* LigeroParam: prover and verifier each search, on their own, for the     *)
(* size of the tableau that gives the smallest proof of a circuit.  Nothing*)
(* of the result is in the proof, so the two must come to the same one,    *)
(* also when one is a 32-bit build (WebAssembly) and the other is not.     *)
(*                                                                         *)
(* layout() writes into the members of the object as it goes and returns   *)
(* SIZE_MAX from the middle when a size does not work, so what an earlier  *)
(* call left behind is still there.                                        *)
(***************************************************************************)
EXTENDS Naturals, Sequences, FiniteSets

CONSTANTS
    Machines,        \* builds of the library that meet over a proof
    SizeMax,         \* SIZE_MAX of each
    Sizes,           \* the sizes tried: 1, 2, 4, ... 2^28
    MaxSize,         \* the largest dimension: 2^28
    SubfieldSize,    \* elements of the subfield
    MaxRunLen,       \* ZkProof::kMaxRunLen: 2^25
    Requests,        \* what a circuit and the library ask for
    ElementBytes, SubfieldBytes, DigestBytes, NonceBytes,
    Garbage          \* what the members may hold before anything is written

RequestFields == {"nw", "nq", "rateinv", "nreq"}

ASSUME SizeAssumption ==
    /\ Sizes \in Seq(Nat) /\ Sizes # <<>> /\ Sizes[1] = 1
    /\ \A i \in 1..Len(Sizes) - 1 : Sizes[i + 1] = 2 * Sizes[i]
    /\ MaxSize = Sizes[Len(Sizes)]
    /\ MaxRunLen \in Nat /\ 8 * MaxRunLen = MaxSize
    /\ SizeMax \in [Machines -> Nat] /\ SubfieldSize \in Nat
    /\ {ElementBytes, SubfieldBytes, DigestBytes, NonceBytes} \subseteq Nat

(* The library asks for rateinv = 7 and nreq = 132, for a circuit of some  *)
(* 10^5 witnesses: none of the numbers below needs 32 bits but the size of *)
(* a proof, which the code adds up in 64.                                  *)
ASSUME RequestAssumption ==
    /\ Requests \subseteq [RequestFields -> Nat]
    /\ \A q \in Requests :
        /\ q.nreq >= 1 /\ q.rateinv >= 3
        /\ 2 * (q.rateinv + 1) <= MaxSize /\ 2 * (q.rateinv + 1) <= SubfieldSize

VARIABLES
    ask,       \* the request, the same on every machine
    at,        \* what each machine does: "search", "built" or "panicked"
    e,         \* which of Sizes it tries next
    best,      \* best_block_enc and min_proof_size
    param      \* the members of its LigeroParam

searchVars == <<ask, at, e, best, param>>

-----------------------------------------------------------------------------
CeilDiv(a, b) == (a + (b - 1)) \div b

(* How often the last node of n leaves can be halved before it is the root,*)
(* plus one: the powers of two, 2 and up, that it reaches.                 *)
MerkleTreeLen(n) ==
    1 + Cardinality({i \in 2..Len(Sizes) : Sizes[i] <= (n - 1) + n})

(* layout(size), as far as nothing makes it return.                        *)
Block(q, size) == (size + 1) \div (2 + q.rateinv)
W(q, size) == Block(q, size) - q.nreq
DBlock(q, size) == 2 * Block(q, size) - 1
BlockExt(q, size) == size - DBlock(q, size)
NWRow(q, size) == CeilDiv(q.nw, W(q, size))
NQTriples(q, size) == CeilDiv(q.nq, W(q, size))
NRow(q, size) == NWRow(q, size) + 3 * NQTriples(q, size) + 3

RowsFitAlways(q, size) == TRUE
Encodable(q, size) ==
    /\ SubfieldSize <= MaxSize => size < SubfieldSize
    /\ size <= MaxSize /\ q.rateinv <= MaxSize /\ size + 1 >= 2 + q.rateinv
HoldsRandomness(q, size) == Encodable(q, size) /\ Block(q, size) >= q.nreq
HalfFull(q, size) == HoldsRandomness(q, size) /\ W(q, size) >= q.nreq
HoldsDBlock(q, size) == HalfFull(q, size) /\ size >= DBlock(q, size)
RowsFit(q, size) == NRow(q, size) < MaxSize \div size
LaidOut(q, size) == HoldsDBlock(q, size) /\ RowsFit(q, size)

ProofSize(q, size) ==
    LET block == Block(q, size)
        dblock == DBlock(q, size)
        openings == (MerkleTreeLen(BlockExt(q, size)) \div 2) * q.nreq
    IN  DigestBytes + openings * DigestBytes
        + (block + dblock + (dblock - W(q, size))) * ElementBytes
        + q.nreq * NonceBytes
        + NRow(q, size) * q.nreq * SubfieldBytes

Capped(m, n) == IF n < SizeMax[m] THEN n ELSE SizeMax[m]
LayoutSize(m, q, size) ==
    IF LaidOut(q, size) THEN Capped(m, ProofSize(q, size)) ELSE SizeMax[m]

(* The members, each with the condition under which layout() gets to it.   *)
Members == {"block_enc", "block", "w", "dblock", "block_ext", "nwrow",
            "nqtriples", "nrow", "mc_pathlen"}

ASSUME GarbageAssumption == Garbage \subseteq [Members -> Nat]

Reaches(q, size, x) ==
    CASE x = "block_enc" -> TRUE
      [] x = "block" -> Encodable(q, size)
      [] x = "w" -> HoldsRandomness(q, size)
      [] x = "dblock" -> HalfFull(q, size)
      [] x \in {"block_ext", "nwrow", "nqtriples", "nrow"} ->
            HoldsDBlock(q, size)
      [] x = "mc_pathlen" -> LaidOut(q, size)

Value(q, size, x) ==
    CASE x = "block_enc" -> size
      [] x = "block" -> Block(q, size)
      [] x = "w" -> W(q, size)
      [] x = "dblock" -> DBlock(q, size)
      [] x = "block_ext" -> BlockExt(q, size)
      [] x = "nwrow" -> NWRow(q, size)
      [] x = "nqtriples" -> NQTriples(q, size)
      [] x = "nrow" -> NRow(q, size)
      [] x = "mc_pathlen" -> MerkleTreeLen(BlockExt(q, size))

Layout(p, q, size) ==
    [x \in Members |-> IF Reaches(q, size, x) THEN Value(q, size, x) ELSE p[x]]

(* sanity(), which also numbers the rows.                                  *)
IW == 3
IQ(p) == IW + p.nwrow
Sanity(p) == p.block_enc > p.block /\ p.nrow = IQ(p) + 3 * p.nqtriples
-----------------------------------------------------------------------------
InitSearch ==
    /\ ask \in Requests
    /\ at = [m \in Machines |-> "search"]
    /\ e = [m \in Machines |-> 1]
    /\ best = [m \in Machines |-> [block_enc |-> 1, size |-> SizeMax[m]]]
    /\ param \in [Machines -> Garbage]   \* on each machine its own

ImprovesOrTies(size, found) == size <= found.size
Improves(size, found) == size < found.size

(* One turn of the search.                                                 *)
Try(m) ==
    /\ at[m] = "search" /\ e[m] <= Len(Sizes)
    /\ LET block_enc == Sizes[e[m]]
           size == LayoutSize(m, ask, block_enc)
       IN  /\ param' = [param EXCEPT ![m] = Layout(@, ask, block_enc)]
           /\ best' = [best EXCEPT ![m] =
                    IF Improves(size, @)
                    THEN [block_enc |-> block_enc, size |-> size] ELSE @]
    /\ e' = [e EXCEPT ![m] = @ + 1]
    /\ UNCHANGED <<ask, at>>

KeepLastTried(p, q, size) == p
Recompute(p, q, size) == Layout(p, q, size)

(* The search is over; a check that fails ends the program.                *)
Finish(m) ==
    /\ at[m] = "search" /\ e[m] > Len(Sizes)
    /\ LET p == Recompute(param[m], ask, best[m].block_enc)
       IN  /\ param' = [param EXCEPT ![m] = p]
           /\ at' = [at EXCEPT ![m] = IF Sanity(p) THEN "built" ELSE "panicked"]
    /\ UNCHANGED <<ask, e, best>>

NextSearch == \E m \in Machines : Try(m) \/ Finish(m)

SearchSpec == InitSearch /\ [][NextSearch]_searchVars

-----------------------------------------------------------------------------
Built(m) == at[m] = "built"

(* No member of a LigeroParam that was built is left from another size:    *)
(* when every size was refused sanity() stops the program.                 *)
NothingStale ==
    \A m \in Machines : Built(m) =>
        /\ LaidOut(ask, param[m].block_enc)
        /\ \A x \in Members :
            param[m][x] = Value(ask, param[m].block_enc, x)

(* Prover and verifier agree on every dimension, whatever their SIZE_MAX.  *)
ParametersAgree ==
    \A m, n \in Machines : Built(m) /\ Built(n) => param[m] = param[n]

(* LigeroTranscript::gen_idx and the Merkle tree: there are enough distinct*)
(* columns to open, at least one.                                          *)
EnoughColumns ==
    \A m \in Machines : Built(m) =>
        1 <= ask.nreq /\ ask.nreq <= param[m].block_ext

(* LigeroProver::layout_witness_rows computes nw - i * w without a sign,   *)
(* layout_quadratic_rows stops at nqtriples rows: the rows hold all, and   *)
(* none starts past the end.                                               *)
RowsTile ==
    \A m \in Machines : Built(m) =>
        /\ ask.nw <= param[m].nwrow * param[m].w
        /\ ask.nq <= param[m].nqtriples * param[m].w
        /\ \A i \in 0..param[m].nwrow - 1 : i * param[m].w < ask.nw

(* ZkProof::read refuses a run of kMaxRunLen elements, which write may make*)
(* of the opened columns: there are never so many.                         *)
OpenedColumnsFitOneRun ==
    \A m \in Machines : Built(m) => ask.nreq * param[m].nrow < MaxRunLen

(* What prover, verifier and codec divide and subtract by, and never check *)
(* again, holds of every tableau that is built.                            *)
DimensionsHold == EnoughColumns /\ RowsTile /\ OpenedColumnsFitOneRun
=============================================================================

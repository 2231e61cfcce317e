----------------------------- MODULE ProofCodec -----------------------------
(***************************************************************************)
(* The bytes of a proof: ZkProof::write, what may become of them on their  *)
(* way, and ZkProof::read with its ReadBuffer, between the two halves of   *)
(* MerkleOpening, which this module carries out in more detail.            *)
(*                                                                         *)
(* A unit of the buffer stands for the four bytes of a size; an element, a *)
(* digest and a nonce are kBytes units long, two here and eight in the     *)
(* code.  Nothing in the bytes says where one of them begins.              *)
(***************************************************************************)
EXTENDS MerkleOpening, SequencesExt

CONSTANTS
    Logw,             \* rounds of each layer of the sumcheck
    Block, DBlock, R, \* what Ligero answers with: block, dblock, r
    NRow,             \* rows of the tableau
    Base,             \* a unit is below this, and so is a size
    Modulus,          \* of the field
    SizeRange,        \* size_t counts modulo this
    MaxRunLen, MaxNumDigests,
    ElementOf(_),     \* the elements of a proof that are not columns
    Sends(_, _),      \* openings that may be sent, given the true one and
                      \* the digests there are to make one of
    Damages(_)        \* what the bytes may turn into

(* A run that is as long as MaxRunLen would be written and not read:       *)
(* LigeroParam's DimensionsHold says there is none.  Both limits are 2^25, *)
(* of elements and digests of 32 bytes; sizes take four.                   *)
ASSUME CodecAssumption ==
    /\ Logw \in Seq(Nat) /\ NRow \in Nat \ {0}
    /\ Block \in Nat /\ DBlock \in Nat /\ R \in Nat /\ DBlock >= Block
    /\ Base \in Nat \ {0, 1} /\ SizeRange \in Nat /\ Base <= SizeRange
    /\ MaxRunLen \in Nat /\ 2 * MaxRunLen <= SizeRange /\ MaxRunLen <= Base
    /\ MaxNumDigests \in Nat /\ 2 * MaxNumDigests <= SizeRange
    /\ NReq * NRow < MaxRunLen

(* An element, a nonce and the number of a digest fit their two units, and *)
(* an opening that is read has in it what such units can hold.             *)
ASSUME ContentsAssumption ==
    /\ Modulus \in Nat /\ Modulus <= Base * Base
    /\ 2 * Leaves <= Base * Base
    /\ Blobs = [nonce : 0..Base * Base - 1,
                column : [0..NRow - 1 -> 0..Modulus - 1]]
    /\ Foreign = {<<"foreign", v>> : v \in (0..Base * Base - 1) \ Nodes}

VARIABLES
    sent,      \* the opening in the proof that was written
    wire,      \* the bytes as they are read
    intact,    \* they are as they were written
    reading,   \* how far ZkProof::read is
    part,      \* the part that is read next, of those of fixed length
    pos,       \* next_ of ReadBuffer
    got,       \* what was read of these parts
    req,       \* the columns, row by row, as far as they were read
    run        \* ci and subfield_run

codec == <<sent, wire, intact, reading, part, pos, got, req, run>>

-----------------------------------------------------------------------------
Units == 0..Base - 1
kBytes == 2
Total == NReq * NRow

Bytes(v) == <<v % Base, v \div Base>>
ValueAt(p) == wire[p + 1] + (Base * wire[p + 2])

(* Prime fields are their own subfield.                                    *)
InSubfield(v) == TRUE

(* Digests are numbered as the nodes are.                                  *)
DigestBytes(d) ==
    IF \E k \in Nodes : layers[k] = d
    THEN Bytes(CHOOSE k \in Nodes : layers[k] = d) ELSE Bytes(d[2])
DigestOf(v) == IF v \in Nodes THEN layers[v] ELSE <<"foreign", v>>

Row(name, n) == [k \in 1..n |-> <<name, k>>]

-----------------------------------------------------------------------------
(* ZkProof::write.  p(1) is left out.                                      *)

WriteRound(l, wi) ==
    <<<<"hp", l, 0, wi, 0>>, <<"hp", l, 1, wi, 0>>,
      <<"hp", l, 0, wi, 2>>, <<"hp", l, 1, wi, 2>>>>

WriteLayer(l) ==
    FlattenSeq([wi \in 1..Logw[l] |-> WriteRound(l, wi)])
        \o <<<<"wc", l, 0>>, <<"wc", l, 1>>>>

WrittenFirst ==
    <<<<"root">>>> \o FlattenSeq([l \in DOMAIN Logw |-> WriteLayer(l)])
        \o Row("y_ldt", Block) \o Row("y_dot", DBlock)
        \o Row("y_quad_0", R) \o Row("y_quad_2", DBlock - Block)
        \o Row("nonce", NReq)

(* What a place holds in the proof for this opening.                       *)
Held(place, o) ==
    CASE place[1] = "root" -> DigestBytes(layers[1])
      [] place[1] = "nonce" -> Bytes(o.blobs[place[2]].nonce)
      [] OTHER -> Bytes(ElementOf(place))

(* Element i of req is in row i / nreq of column i % nreq.                 *)
ReqOf(o) ==
    [k \in 0..Total - 1 |-> o.blobs[(k % NReq) + 1].column[k \div NReq]]

RunLen(elts, ci, subfield) ==
    CHOOSE n \in 0..Total - ci :
        /\ n <= MaxRunLen
        /\ \A k \in ci..ci + n - 1 : InSubfield(elts[k]) = subfield
        /\ \/ n = MaxRunLen \/ ci + n = Total
           \/ InSubfield(elts[ci + n]) # subfield

WriteRuns(elts) ==
    LET Run(ci, n) == <<n>> \o FlattenSeq([k \in 1..n |-> Bytes(elts[ci + k - 1])])
        runs[r \in [ci : 0..Total, subfield : BOOLEAN]] ==
            LET n == RunLen(elts, r.ci, r.subfield) IN
            IF r.ci = Total THEN <<>>
            ELSE Run(r.ci, n)
                    \o runs[[ci |-> r.ci + n, subfield |-> ~r.subfield]]
    IN  runs[[ci |-> 0, subfield |-> FALSE]]

Write(o) ==
    FlattenSeq([k \in DOMAIN WrittenFirst |-> Held(WrittenFirst[k], o)])
        \o WriteRuns(ReqOf(o))
        \o <<Len(o.path)>>
        \o FlattenSeq([k \in DOMAIN o.path |-> DigestBytes(o.path[k])])

(* A proof with another root is another commitment, which has columns of   *)
(* its own drawn: the root stays.  Sizes fit into four bytes, write_size   *)
(* assumes.                                                                *)
Send ==
    /\ Over("open") /\ reading = "nothing"
    /\ \E o \in Sends(opening, Digests) \cap Openings :
       \E bytes \in {Write(o)} :
        /\ Len(o.path) < Base
        /\ sent' = o
        /\ \/ wire' = bytes
           \/ o = opening /\ wire' \in Damages(bytes) \cap Seq(Units)
        /\ intact' = (wire' = bytes)
    /\ reading' = "first"
    /\ UNCHANGED <<part, pos, got, req, run, vars>>

-----------------------------------------------------------------------------
(* ZkProof::read.                                                          *)

RoundNeedOneHand(logw) == logw * 2
RoundNeed(logw) == logw * (3 - 1) * 2

ReadRoundByHands(l, wi) ==
    [n \in 1..4 |-> <<"hp", l, (n - 1) \div 2, wi, 2 * ((n - 1) % 2)>>]

(* In the loops' order; p(1) becomes zero.                                 *)
ReadRound(l, wi) ==
    [n \in 1..4 |-> <<"hp", l, (n - 1) % 2, wi, 2 * ((n - 1) \div 2)>>]

ReadLayer(l) ==
    [places |-> FlattenSeq([wi \in 1..Logw[l] |-> ReadRound(l, wi)])
                    \o <<<<"wc", l, 0>>, <<"wc", l, 1>>>>,
     zero |-> {<<"hp", l, hi, wi, 1>> : hi \in {0, 1}, wi \in 1..Logw[l]},
     need |-> (RoundNeed(Logw[l]) + 2) * kBytes]

ReadRow(name, n) ==
    [places |-> Row(name, n), zero |-> {}, need |-> n * kBytes]

Parts ==
    <<[places |-> <<<<"root">>>>, zero |-> {}, need |-> kBytes]>>
        \o [l \in DOMAIN Logw |-> ReadLayer(l)]
        \o <<ReadRow("y_ldt", Block), ReadRow("y_dot", DBlock),
             ReadRow("y_quad_0", R), ReadRow("y_quad_2", DBlock - Block),
             ReadRow("nonce", NReq)>>

(* The elements that LigeroParam and the circuit ask for are in the proof, *)
(* and their bytes can be counted.                                         *)
ASSUME PartsAssumption ==
    /\ \A k \in DOMAIN WrittenFirst :
        WrittenFirst[k][1] \notin {"root", "nonce"} =>
            ElementOf(WrittenFirst[k]) \in 0..Modulus - 1
    /\ \A n \in DOMAIN Parts : kBytes * Len(Parts[n].places) < SizeRange
    /\ NReq * PathLen < MaxNumDigests

Remaining(p) == Len(wire) - p
Have(p, n) == Remaining(p) >= n % SizeRange

(* of_bytes_field takes what is below the modulus; next() checks once more *)
(* that the bytes are there, and ends the process if they are not.         *)
Fits(place, p) ==
    place[1] \in {"root", "nonce", "digest"} \/ ValueAt(p) < Modulus

Nth(p, k) == p + (kBytes * (k - 1))

Taking(places, p) ==
    LET there == {k \in DOMAIN places : Remaining(p) >= kBytes * k}
    IN  IF \E k \in there : ~Fits(places[k], Nth(p, k)) THEN "failed"
        ELSE IF there # DOMAIN places THEN "aborted" ELSE "taken"

Ends(how) ==
    /\ reading' = how
    /\ UNCHANGED <<part, pos, got, req, run>>

ReadFirst ==
    /\ reading = "first"
    /\ LET p == Parts[part]
           place(x) == CHOOSE k \in DOMAIN p.places : p.places[k] = x
       IN  IF ~Have(pos, p.need) THEN Ends("failed")
           ELSE IF Taking(p.places, pos) # "taken"
           THEN Ends(Taking(p.places, pos))
           ELSE /\ got' = [x \in DOMAIN got \cup p.zero \cup ToSet(p.places) |->
                        IF x \in ToSet(p.places) THEN ValueAt(Nth(pos, place(x)))
                        ELSE IF x \in p.zero THEN 0 ELSE got[x]]
                /\ pos' = pos + (kBytes * Len(p.places))
                /\ part' = part + 1
                /\ reading' = IF part = Len(Parts) THEN "runs" ELSE "first"
                /\ UNCHANGED <<req, run>>
    /\ UNCHANGED <<sent, wire, intact, vars>>

ReadRun ==
    /\ reading = "runs"
    /\ LET runlen == wire[pos + 1]
           end == (run.ci + runlen) % SizeRange
           elts == [k \in 1..runlen |-> <<"req">>]
       IN  IF ~Have(pos, 1) THEN Ends("failed")
           ELSE IF \/ runlen >= MaxRunLen \/ end > Total
                   \/ ~Have(pos + 1, runlen * kBytes)
           THEN Ends("failed")
           ELSE IF Taking(elts, pos + 1) # "taken"
           THEN Ends(Taking(elts, pos + 1))
           ELSE /\ req' = [k \in DOMAIN req |->
                        IF k \in run.ci..end - 1
                        THEN ValueAt(Nth(pos + 1, k - run.ci + 1)) ELSE req[k]]
                /\ pos' = pos + 1 + (kBytes * runlen)
                /\ run' = [ci |-> end, subfield |-> ~run.subfield]
                /\ reading' = IF end < Total THEN "runs" ELSE "path"
                /\ UNCHANGED <<part, got>>
    /\ UNCHANGED <<sent, wire, intact, vars>>

PathRefusedUpwards(sz) == sz >= MaxNumDigests \/ sz > NReq * PathLen
PathRefused(sz) == sz < NReq \/ sz >= MaxNumDigests \/ sz > NReq * PathLen

ReadPath ==
    /\ reading = "path"
    /\ LET sz == wire[pos + 1]
           digests == [k \in 1..sz |-> <<"digest">>]
           path == [k \in 1..sz |-> DigestOf(ValueAt(Nth(pos + 1, k)))]
           blobs == [r \in 1..NReq |->
                        [nonce |-> got[<<"nonce", r>>],
                         column |-> [k \in 0..NRow - 1 |->
                                        req[(k * NReq) + r - 1]]]]
       IN  IF ~Have(pos, 1) THEN Ends("failed") /\ UNCHANGED vars
           ELSE IF PathRefused(sz) \/ ~Have(pos + 1, sz * kBytes)
           THEN Ends("failed") /\ UNCHANGED vars
           ELSE IF Taking(digests, pos + 1) # "taken"
           THEN Ends(Taking(digests, pos + 1)) /\ UNCHANGED vars
           ELSE /\ received' = [blobs |-> blobs, path |-> path]
                /\ pos' = pos + 1 + (kBytes * sz)
                /\ reading' = "done"
                /\ Start("read")
                /\ UNCHANGED <<part, got, req, run>>
                /\ UNCHANGED <<prover, used, rebuilt, defined>>
    /\ UNCHANGED <<sent, wire, intact>>

-----------------------------------------------------------------------------
CodecInit ==
    /\ Init
    /\ sent = opening /\ wire = <<>> /\ intact = TRUE
    /\ reading = "nothing" /\ part = 1 /\ pos = 0
    /\ got = <<>>
    /\ req = [k \in 0..Total - 1 |-> "unset"]
    /\ run = [ci |-> 0, subfield |-> FALSE]

Elsewhere ==
    \/ BuildTree \/ BeginChoosing \/ Choose
    \/ BeginMarking \/ Mark \/ BeginOpening \/ PushDigest
    \/ ReadDigest \/ SetLeaves \/ Rebuild \/ Decide

CodecNext ==
    \/ Elsewhere /\ UNCHANGED codec
    \/ Send \/ ReadFirst \/ ReadRun \/ ReadPath

CodecSpec == CodecInit /\ [][CodecNext]_<<vars, codec>>

-----------------------------------------------------------------------------
(* zk_proof.h: what write writes, read reads: every element in its place,  *)
(* p(1), which is not sent, as zero, all of the bytes and no more.  Only a *)
(* path shorter than NReq is refused; the upper bound on paths, computed   *)
(* by a formula of its own, refuses none that was made.                    *)
ReadsWhatWasWritten ==
    intact =>
        /\ reading = "failed" =>
            Len(sent.path) < NReq \/ Len(sent.path) > Len(opening.path)
        /\ reading = "done" =>
            /\ received = sent
            /\ pos = Len(wire)
            /\ \A x \in ToSet(WrittenFirst) :
                Bytes(got[x]) = Held(x, sent)
            /\ \A l \in DOMAIN Logw, hi \in {0, 1} :
                \A wi \in 1..Logw[l] : got[<<"hp", l, hi, wi, 1>>] = 0

(* util/readbuffer.h:46: next() ends the process where bytes are missing.  *)
(* However a proof is cut short or changed, its reader has asked before,   *)
(* sizes that wrap around included.                                        *)
NeverReadsPastTheEnd == reading # "aborted"

(* Whatever becomes of the bytes, the opening that is read is one of those *)
(* MerkleOpening allows for.                                               *)
CarriesOutTheOpening == Spec
=============================================================================

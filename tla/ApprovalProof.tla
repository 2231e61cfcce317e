---------------------------- MODULE ApprovalProof ----------------------------
(***************************************************************************)
(* The C ABI of src/approval_proof_v1_zk.cc: the canonical circuit's       *)
(* statement, run_approval_proof_v1_prover, run_approval_proof_v1_verifier *)
(* and approval_proof_v1_circuit_id, with every check in the order the     *)
(* code makes it, among signers, provers and a verifier.                   *)
(*                                                                         *)
(* The proof system itself (longfellow-zk) is ideal here: a proof for a    *)
(* circuit and a vector of public inputs exists when some witness          *)
(* satisfies the circuit, and verifies for that circuit and vector alone.  *)
(***************************************************************************)
EXTENDS ApprovalTypes, Sequences, FiniteSetsExt

CONSTANTS
    MalformedSig,   \* r or s is 0 or not below the group order
    ForgedSig,      \* r and s in range, but signs nothing
    MaxSignatures,  \* bound: signatures made
    MaxProofs       \* bound: proofs on the wire

(* Neither value is a signature that a key, good or bad, is said to make.  *)
ASSUME SigValueAssumption ==
    /\ MalformedSig \notin [by: PublicKeys, over: Messages]
    /\ ForgedSig \notin [by: PublicKeys, over: Messages]

VARIABLES
    signatures,     \* who has signed what
    proofs,         \* serialized proofs that exist
    accepted        \* statements the verifier returned SUCCESS for

vars == <<signatures, proofs, accepted>>

-----------------------------------------------------------------------------
(* A handler is a sequence of checks: it succeeds when none fails, and     *)
(* returns the code of the first one that does.                            *)

Check(fails, code) == [fails |-> fails, code |-> code]

Succeeds(checks) == \A i \in DOMAIN checks : ~checks[i].fails

ResultCode(checks) ==
    IF Succeeds(checks) THEN "SUCCESS"
    ELSE checks[Min({i \in DOMAIN checks : checks[i].fails})].code

(* Circuit bytes, up to what the parser and the id comparison tell apart.  *)
(* "tampered" bytes hold another circuit followed by the canonical id; a   *)
(* "substitute" is another circuit that carries its own id.                *)
CircuitArgs ==
    {"null", "empty", "too_large", "truncated", "tampered", "substitute",
     "canonical"}
ReadableCircuits == {"tampered", "substitute", "canonical"}

(* circuit_id recomputed over the structure, which it determines.          *)
CircuitIdOf(bytes) == bytes
(* The id stored at the end of the bytes; circuit->id once parsed.         *)
EmbeddedId(bytes) == IF bytes = "tampered" THEN "canonical" ELSE bytes

(* kApprovalProofV1ExpectedCircuitId, the id of make_circuit().            *)
ExpectedCircuitId == "canonical"

(* CircuitReader::from_bytes with kEnforceCircuitId.                       *)
ParsesCircuitWithoutEnforcement(bytes) == bytes \in ReadableCircuits
ParsesCircuit(bytes) ==
    /\ bytes \in ReadableCircuits
    /\ EmbeddedId(bytes) = CircuitIdOf(bytes)

(* The C ABI's memcmp of circuit->id against the expected id.              *)
MatchesAnyId(bytes) == TRUE
MatchesExpectedId(bytes) == EmbeddedId(bytes) = ExpectedCircuitId

-----------------------------------------------------------------------------
(* Public inputs: the filler writes a vector, the circuit reads it back by *)
(* position.                                                               *)

ParsesFieldElement(pk) == pk # Unreduced
IsOnCurve(pk) == pk \in Keys
Reduce(pk) == IF pk = Unreduced THEN Alias ELSE pk

FillPublicInputsAudienceTwice(st) ==
    <<1, st.issuerPk, st.appIdHash, st.policyVersion, st.now,
      st.audienceHash, st.audienceHash, st.approvalHash>>

FillPublicInputs(st) ==
    <<1, st.issuerPk, st.appIdHash, st.policyVersion, st.now,
      st.challengeNonce, st.audienceHash, st.approvalHash>>

PublicInput(v) ==
    [issuerPk |-> v[2], appIdHash |-> v[3], policyVersion |-> v[4],
     now |-> v[5], challengeNonce |-> v[6], audienceHash |-> v[7],
     approvalHash |-> v[8]]

-----------------------------------------------------------------------------
(* The circuit.  The multi-scalar equation of verify_signature3 means      *)
(* nothing off the curve, which is why the curve equation is asserted too. *)

GroupEquation(pk, msg, sig) ==
    pk \in Keys => sig = [by |-> pk, over |-> msg]

VerifySignature3WithoutCurve(pk, msg, sig) ==
    /\ GroupEquation(pk, msg, sig)
    /\ sig # MalformedSig

VerifySignature3(pk, msg, sig) ==
    /\ GroupEquation(pk, msg, sig)
    /\ IsOnCurve(pk)
    /\ sig # MalformedSig

AssertSha256Padding(msgLen, msg) == msg.len = msgLen

CoordinatesBelowP(pk) == pk # Unreduced

AssertAttestation(pub, att) ==
    /\ AssertSha256Padding(AttestationLength, att)
    /\ att.domain = AttestationDomain
    /\ att.appIdHash = pub.appIdHash
    /\ att.policyVersion = pub.policyVersion
    /\ att.keyClass = KeyClassSecureHardwareP256
    /\ att.reserved = 0
    /\ att.notBefore <= pub.now
    /\ pub.now <= att.notAfter
    /\ CoordinatesBelowP(att.devicePk)

AssertApprovalAssertionStrict(pub, asr) ==
    /\ AssertSha256Padding(ApprovalAssertionLength, asr)
    /\ asr.domain = ApprovalAssertionDomain
    /\ asr.challengeNonce = pub.challengeNonce
    /\ asr.audienceHash = pub.audienceHash
    /\ asr.approvalHash = pub.approvalHash
    /\ pub.now < asr.expiresAt

AssertApprovalAssertion(pub, asr) ==
    /\ AssertSha256Padding(ApprovalAssertionLength, asr)
    /\ asr.domain = ApprovalAssertionDomain
    /\ asr.challengeNonce = pub.challengeNonce
    /\ asr.audienceHash = pub.audienceHash
    /\ asr.approvalHash = pub.approvalHash
    /\ pub.now <= asr.expiresAt

AssertStatement(pub, w) ==
    /\ AssertAttestation(pub, w.attestation)
    /\ AssertApprovalAssertion(pub, w.assertion)
    /\ VerifySignature3(pub.issuerPk, w.attestation, w.attestationSig)
    /\ VerifySignature3(Reduce(w.attestation.devicePk), w.assertion,
                        w.assertionSig)

(* A substitute circuit constrains nothing here: the worst case.           *)
Satisfies(circuit, v, w) ==
    circuit = "canonical" => AssertStatement(PublicInput(v), w)

-----------------------------------------------------------------------------
(* run_approval_proof_v1_prover[_from_bytes].                              *)

(* The witnesses a holder can put together from the signatures made so     *)
(* far.  A signature over another message is no better than ForgedSig.     *)
KnownSigs(msg) ==
    {sig \in signatures : sig.over = msg} \cup {MalformedSig, ForgedSig}

WitnessesFor(att, asr) ==
    [attestation: {att}, attestationSig: KnownSigs(att),
     assertion: {asr}, assertionSig: KnownSigs(asr)]

KnownWitnesses ==
    UNION {WitnessesFor(m[1], m[2]) : m \in AttestationMsgs \X AssertionMsgs}

(* ApprovalProofV1ProverInput holds messages of the two fixed lengths.     *)
ProverWitnesses ==
    {w \in KnownWitnesses : /\ w.attestation.len = AttestationLength
                            /\ w.assertion.len = ApprovalAssertionLength}

(* Some witness, of whatever shape, satisfies the circuit.                 *)
Provable(circuit, v) == {w \in KnownWitnesses : Satisfies(circuit, v, w)} # {}

ValidSignatureScalars(sig) == sig # MalformedSig
ValidIssuerPk(st) == ParsesFieldElement(st.issuerPk) /\ IsOnCurve(st.issuerPk)

(* VerifyWitness3::compute_witness reports whether the multi-scalar sum is *)
(* the identity, which off the curve it is only by accident.               *)
ComputeWitness(pk, msg, sig) == sig = [by |-> pk, over |-> msg]

BuilderComputeOneSignature(st, w) ==
    /\ ParsesFieldElement(st.issuerPk)
    /\ ParsesFieldElement(w.attestation.devicePk)
    /\ ComputeWitness(st.issuerPk, w.attestation, w.attestationSig)

BuilderCompute(st, w) ==
    /\ ParsesFieldElement(st.issuerPk)
    /\ ParsesFieldElement(w.attestation.devicePk)
    /\ ComputeWitness(st.issuerPk, w.attestation, w.attestationSig)
    /\ ComputeWitness(w.attestation.devicePk, w.assertion, w.assertionSig)

Prove(st, w) == Satisfies(ExpectedCircuitId, FillPublicInputs(st), w)

(* A call: "input" is "null", "wrong_length" or "bytes"; in the last case  *)
(* the bytes hold the statement and the witness.                           *)
ProverChecks(c) ==
    <<Check(c.input = "null", "NULL_INPUT"),
      Check(c.input = "wrong_length", "INVALID_INPUT"),
      Check(c.circuit = "null" \/ c.out = "null", "NULL_INPUT"),
      Check(c.circuit = "empty", "INVALID_INPUT"),
      Check(c.circuit = "too_large", "INPUT_TOO_LARGE"),
      Check(~ValidSignatureScalars(c.witness.attestationSig)
                \/ ~ValidSignatureScalars(c.witness.assertionSig)
                \/ ~ValidIssuerPk(c.statement), "MALFORMED_SIGNATURE"),
      Check(~ParsesCircuit(c.circuit), "CIRCUIT_PARSING_FAILURE"),
      Check(~MatchesExpectedId(c.circuit), "CIRCUIT_ID_MISMATCH"),
      Check(~ParsesFieldElement(c.statement.issuerPk), "INVALID_INPUT"),
      Check(~BuilderCompute(c.statement, c.witness),
            "WITNESS_CREATION_FAILURE"),
      Check(~Prove(c.statement, c.witness), "PROOF_FAILURE"),
      Check(~c.mallocOk, "MEMORY_ALLOCATION_FAILURE")>>

(* A call with sound pointers and enough memory.                           *)
ProverCall(circuit, st, w) ==
    [circuit |-> circuit, input |-> "bytes", out |-> "ok", statement |-> st,
     witness |-> w, mallocOk |-> TRUE]

ProofWithoutConstantWire(circuit, v) ==
    [circuit |-> circuit, pub |-> Tail(v)]
Proof(circuit, v) == [circuit |-> circuit, pub |-> v]

-----------------------------------------------------------------------------
(* run_approval_proof_v1_verifier[_from_bytes].                            *)

(* ZkVerifier::verify over the parsed circuit and the filled inputs.       *)
Verify(circuit, v, p) == p.circuit = circuit /\ p.pub = v

(* "proofArg" says whether the proof pointer and length name a readable    *)
(* proof; if so it is c.proof.                                             *)
VerifierChecks(c) ==
    <<Check(c.input = "null", "NULL_INPUT"),
      Check(c.input = "wrong_length", "INVALID_INPUT"),
      Check(c.circuit = "null" \/ c.proofArg = "null", "NULL_INPUT"),
      Check(c.circuit = "empty" \/ c.proofArg = "empty", "INVALID_INPUT"),
      Check(c.circuit = "too_large" \/ c.proofArg = "too_large",
            "INPUT_TOO_LARGE"),
      Check(~ParsesCircuit(c.circuit), "CIRCUIT_PARSING_FAILURE"),
      Check(~MatchesExpectedId(c.circuit), "CIRCUIT_ID_MISMATCH"),
      Check(~ParsesFieldElement(c.statement.issuerPk), "INVALID_INPUT"),
      Check(c.proofArg = "unreadable", "PROOF_PARSING_FAILURE"),
      Check(~Verify(c.circuit, FillPublicInputs(c.statement), c.proof),
            "VERIFICATION_FAILURE")>>

VerifierCall(circuit, st, p) ==
    [circuit |-> circuit, input |-> "bytes", proofArg |-> "bytes",
     statement |-> st, proof |-> p]

-----------------------------------------------------------------------------
(* approval_proof_v1_circuit_id: the id of whatever circuit the bytes hold.*)
CircuitIdChecks(circuit) ==
    <<Check(circuit = "null", "NULL_INPUT"),
      Check(circuit = "empty", "INVALID_INPUT"),
      Check(circuit = "too_large", "INPUT_TOO_LARGE"),
      Check(~ParsesCircuit(circuit), "CIRCUIT_PARSING_FAILURE")>>

-----------------------------------------------------------------------------
Init ==
    /\ signatures = {}
    /\ proofs = {}
    /\ accepted = {}

(* An issuer, a device or any other holder of a key signs a message.       *)
Sign ==
    /\ Cardinality(signatures) < MaxSignatures
    /\ \E sig \in Signature : signatures' = signatures \cup {sig}
    /\ UNCHANGED <<proofs, accepted>>

(* A holder calls the prover; a successful call writes the proof out, and  *)
(* one that fails leaves nothing behind (so unreadable circuits are not    *)
(* enumerated here).                                                       *)
RunProver ==
    /\ Cardinality(proofs) < MaxProofs
    /\ \E circuit \in ReadableCircuits, st \in Statements,
          w \in ProverWitnesses :
        LET c == ProverCall(circuit, st, w) IN
        /\ Succeeds(ProverChecks(c))
        /\ proofs' = proofs \cup
                        {Proof(c.circuit, FillPublicInputs(c.statement))}
    /\ UNCHANGED <<signatures, accepted>>

(* A proof made by other code than run_prover: another implementation, or  *)
(* a build with another circuit.  Soundness of the proof system is all     *)
(* that binds it.                                                          *)
ForeignProof ==
    /\ Cardinality(proofs) < MaxProofs
    /\ \E circuit \in ReadableCircuits, st \in Statements :
        /\ Provable(circuit, FillPublicInputs(st))
        /\ proofs' = proofs \cup {Proof(circuit, FillPublicInputs(st))}
    /\ UNCHANGED <<signatures, accepted>>

RunVerifier ==
    /\ \E circuit \in CircuitArgs, st \in Statements, p \in proofs :
        /\ Succeeds(VerifierChecks(VerifierCall(circuit, st, p)))
        /\ accepted' = accepted \cup {st}
    /\ UNCHANGED <<signatures, proofs>>

Next == Sign \/ RunProver \/ ForeignProof \/ RunVerifier

Spec == Init /\ [][Next]_vars

-----------------------------------------------------------------------------
(* Proofs on the wire are for a circuit that can be read and for the public*)
(* inputs of some statement; accepted statements are ones that were asked. *)
TypeOK ==
    /\ signatures \subseteq Signature
    /\ proofs \subseteq [circuit: ReadableCircuits,
                         pub: {FillPublicInputs(st) : st \in Statements}]
    /\ accepted \subseteq Statements

(* SPEC.md, "This library proves the following statement": SUCCESS from the*)
(* verifier means the issuer attested a device key under the statement's   *)
(* policy, in its validity window, and that key approved this context.     *)
AcceptedJustified == \A st \in accepted : Justified(signatures, st)

(* What makes it so: every proof for the canonical circuit has a witness   *)
(* of signatures that were really made.                                    *)
CanonicalProofsWitnessed ==
    \A p \in proofs :
        p.circuit = ExpectedCircuitId => Provable(p.circuit, p.pub)

(* SPEC.md, "A proof for one nonce is useless for another nonce", and the  *)
(* same for audience, request, time and policy: no proof ever verifies for *)
(* two statements.                                                         *)
ProofFitsOneStatement ==
    \A p \in proofs : \A st1, st2 \in Statements :
        (/\ Succeeds(VerifierChecks(VerifierCall("canonical", st1, p)))
         /\ Succeeds(VerifierChecks(VerifierCall("canonical", st2, p))))
        => st1 = st2

(* Completeness, boundaries of the time window included: whoever holds an  *)
(* attestation and an assertion that match the statement gets a proof, and *)
(* the verifier accepts that proof for that statement.                     *)
HonestApprovalVerifies ==
    \A st \in Statements, att \in AttestationMsgs, asr \in AssertionMsgs :
        (/\ AttestationMatches(att, st)
         /\ AssertionMatches(asr, st)
         /\ Signed(signatures, st.issuerPk, att)
         /\ Signed(signatures, att.devicePk, asr))
        =>
        LET w == [attestation |-> att,
                  attestationSig |-> [by |-> st.issuerPk, over |-> att],
                  assertion |-> asr,
                  assertionSig |-> [by |-> att.devicePk, over |-> asr]]
            p == Proof("canonical", FillPublicInputs(st))
        IN  /\ Succeeds(ProverChecks(ProverCall("canonical", st, w)))
            /\ Succeeds(VerifierChecks(VerifierCall("canonical", st, p)))

(* tests/approval_proof_v1_zk_test.cc, prover_rejects_witness: which code  *)
(* the prover answers with, given the canonical circuit and messages of the*)
(* two lengths.  Values that cannot be a signature or a key are            *)
(* MALFORMED_SIGNATURE; a signature that could be one and does not verify  *)
(* is WITNESS_CREATION_FAILURE; with both signatures genuine, a violated   *)
(* policy assertion, and nothing else, is PROOF_FAILURE.                   *)
ProverCodeNamesTheCause ==
    \A w \in ProverWitnesses, st \in Statements :
        LET code == ResultCode(ProverChecks(ProverCall("canonical", st, w)))
            wellFormed == /\ ValidSignatureScalars(w.attestationSig)
                          /\ ValidSignatureScalars(w.assertionSig)
                          /\ ValidIssuerPk(st)
            genuine == /\ Signed({w.attestationSig}, st.issuerPk,
                                 w.attestation)
                       /\ Signed({w.assertionSig}, w.attestation.devicePk,
                                 w.assertion)
            matches == /\ AttestationMatches(w.attestation, st)
                       /\ AssertionMatches(w.assertion, st)
        IN  /\ code = "MALFORMED_SIGNATURE" <=> ~wellFormed
            /\ code = "WITNESS_CREATION_FAILURE" <=> wellFormed /\ ~genuine
            /\ code = "PROOF_FAILURE" <=> genuine /\ ~matches
            /\ code = "SUCCESS" <=> genuine /\ matches

(* include/attested_key_zk/approval_proof_v1_zk.h: a relying party can pin *)
(* circuit bytes with approval_proof_v1_circuit_id.  The bytes that pass   *)
(* the pin are exactly those the verifier will run with, for every proof   *)
(* and every statement whose issuer key can be read, and exactly those the *)
(* prover will run with, for every statement and witness of well-formed    *)
(* keys and signatures.                                                    *)
PinnedCircuitIsUsable ==
    LET wellFormed == {w \in ProverWitnesses :
                          /\ ValidSignatureScalars(w.attestationSig)
                          /\ ValidSignatureScalars(w.assertionSig)}
    IN  \A circuit \in CircuitArgs, st \in Statements :
            LET pinned == /\ Succeeds(CircuitIdChecks(circuit))
                          /\ CircuitIdOf(circuit) = ExpectedCircuitId
            IN  /\ ParsesFieldElement(st.issuerPk) => \A p \in proofs :
                    pinned <=>
                        ResultCode(VerifierChecks(
                                       VerifierCall(circuit, st, p)))
                            \in {"SUCCESS", "VERIFICATION_FAILURE"}
                /\ ValidIssuerPk(st) => \A w \in wellFormed :
                    pinned <=>
                        ResultCode(ProverChecks(
                                       ProverCall(circuit, st, w)))
                            \in {"WITNESS_CREATION_FAILURE",
                                 "PROOF_FAILURE", "SUCCESS"}

(* The abstract promise is kept: hide the proofs, and every step is a      *)
(* signature, a justified acceptance, or nothing.                          *)
Promise == INSTANCE ApprovalPromise WITH signatures <- signatures,
                                          accepted <- accepted
KeepsPromise == Promise!Spec
=============================================================================

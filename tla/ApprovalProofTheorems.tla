------------------------ MODULE ApprovalProofTheorems ------------------------
(***************************************************************************)
(* For every set of keys, hashes, messages and statements: a statement the *)
(* verifier accepts is justified by signatures that were really made.      *)
(***************************************************************************)
EXTENDS ApprovalProof, TLAPS

(* The parts of a witness, and that its parts are all there is to it.      *)
LEMMA KnownWitnessParts ==
    ASSUME NEW w
    PROVE  w \in KnownWitnesses <=>
              \E att \in AttestationMsgs, asr \in AssertionMsgs :
                  w \in WitnessesFor(att, asr)
  <1>1. ASSUME w \in KnownWitnesses
        PROVE  \E att \in AttestationMsgs, asr \in AssertionMsgs :
                  w \in WitnessesFor(att, asr)
    <2>1. PICK m \in AttestationMsgs \X AssertionMsgs :
              w \in WitnessesFor(m[1], m[2])
      BY <1>1 DEF KnownWitnesses
    <2>2. m[1] \in AttestationMsgs /\ m[2] \in AssertionMsgs
      BY <2>1
    <2>3. QED
      BY <2>1, <2>2
  <1>2. ASSUME NEW att \in AttestationMsgs, NEW asr \in AssertionMsgs,
               w \in WitnessesFor(att, asr)
        PROVE  w \in KnownWitnesses
    <2>1. /\ <<att, asr>> \in AttestationMsgs \X AssertionMsgs
          /\ <<att, asr>>[1] = att
          /\ <<att, asr>>[2] = asr
      OBVIOUS
    <2>2. QED
      BY <1>2, <2>1 DEF KnownWitnesses
  <1>3. QED
    BY <1>1, <1>2

LEMMA KnownSigsType ==
    ASSUME NEW w \in KnownWitnesses
    PROVE  /\ w.attestation \in AttestationMsgs
           /\ w.assertion \in AssertionMsgs
           /\ w.attestationSig \in KnownSigs(w.attestation)
           /\ w.assertionSig \in KnownSigs(w.assertion)
  <1>1. PICK att \in AttestationMsgs, asr \in AssertionMsgs :
            w \in WitnessesFor(att, asr)
    BY KnownWitnessParts
  <1>2. QED
    BY <1>1 DEF WitnessesFor

(* What a holder knows to be a key's signature, the key's holder made.     *)
LEMMA KnownSigIsMade ==
    ASSUME TypeOK, NEW pk \in PublicKeys, NEW msg \in Messages,
           NEW sig \in KnownSigs(msg), sig = [by |-> pk, over |-> msg]
    PROVE  /\ sig \in signatures
           /\ pk \in Keys
           /\ sig # MalformedSig
  <1>1. sig \in [by: PublicKeys, over: Messages]
    OBVIOUS
  <1>2. sig # MalformedSig /\ sig # ForgedSig
    BY <1>1, SigValueAssumption
  <1>3. sig \in signatures
    BY <1>2 DEF KnownSigs
  <1>4. sig \in Signature /\ sig.by = pk
    BY <1>3 DEF TypeOK
  <1>5. QED
    BY <1>2, <1>3, <1>4 DEF Signature

(* Public inputs read back by the circuit are the ones the filler wrote.   *)
LEMMA PublicInputReadsFill ==
    ASSUME NEW st \in Statement
    PROVE  PublicInput(FillPublicInputs(st)) = st
  BY DEF PublicInput, FillPublicInputs, Statement

(* The filler loses nothing: equal vectors mean equal statements.          *)
LEMMA FillPublicInputsInjective ==
    ASSUME NEW st1 \in Statement, NEW st2 \in Statement,
           FillPublicInputs(st1) = FillPublicInputs(st2)
    PROVE  st1 = st2
  BY PublicInputReadsFill

(* The two id checks together leave the canonical structure only.          *)
LEMMA ParsedWithExpectedId ==
    ASSUME NEW circuit, ParsesCircuit(circuit), MatchesExpectedId(circuit)
    PROVE  circuit = ExpectedCircuitId
  BY DEF ParsesCircuit, MatchesExpectedId, CircuitIdOf

(* What the verifier's checks leave of a call that returns SUCCESS.        *)
LEMMA VerifierSuccess ==
    ASSUME NEW circuit, NEW st, NEW p,
           Succeeds(VerifierChecks(VerifierCall(circuit, st, p)))
    PROVE  /\ circuit = ExpectedCircuitId
           /\ Verify(circuit, FillPublicInputs(st), p)
  <1> DEFINE c == VerifierCall(circuit, st, p)
             checks == VerifierChecks(c)
  <1>1. DOMAIN checks = 1..10
    BY DEF VerifierChecks
  <1>2. ~checks[6].fails /\ ~checks[7].fails /\ ~checks[10].fails
    BY <1>1 DEF Succeeds
  <1>3. /\ checks[6].fails = ~ParsesCircuit(c.circuit)
        /\ checks[7].fails = ~MatchesExpectedId(c.circuit)
        /\ checks[10].fails =
              ~Verify(c.circuit, FillPublicInputs(c.statement), c.proof)
    BY DEF VerifierChecks, Check
  <1>4. c.circuit = circuit /\ c.statement = st /\ c.proof = p
    BY DEF VerifierCall
  <1>5. ParsesCircuit(circuit) /\ MatchesExpectedId(circuit)
    BY <1>2, <1>3, <1>4
  <1>6. QED
    BY <1>2, <1>3, <1>4, <1>5, ParsedWithExpectedId

(* And what the prover's leave.                                            *)
LEMMA ProverSuccess ==
    ASSUME NEW circuit, NEW st, NEW w,
           Succeeds(ProverChecks(ProverCall(circuit, st, w)))
    PROVE  /\ circuit = ExpectedCircuitId
           /\ Satisfies(circuit, FillPublicInputs(st), w)
  <1> DEFINE c == ProverCall(circuit, st, w)
             checks == ProverChecks(c)
  <1>1. DOMAIN checks = 1..12
    BY DEF ProverChecks
  <1>2. ~checks[7].fails /\ ~checks[8].fails /\ ~checks[11].fails
    BY <1>1 DEF Succeeds
  <1>3. /\ checks[7].fails = ~ParsesCircuit(c.circuit)
        /\ checks[8].fails = ~MatchesExpectedId(c.circuit)
        /\ checks[11].fails = ~Prove(c.statement, c.witness)
    BY DEF ProverChecks, Check
  <1>4. c.circuit = circuit /\ c.statement = st /\ c.witness = w
    BY DEF ProverCall
  <1>5. ParsesCircuit(circuit) /\ MatchesExpectedId(circuit)
    BY <1>2, <1>3, <1>4
  <1>6. QED
    BY <1>2, <1>3, <1>4, <1>5, ParsedWithExpectedId DEF Prove

(* The heart: what the circuit asserts about a witness of real signatures  *)
(* is what SPEC.md says a proof means.                                     *)
LEMMA CircuitImpliesJustified ==
    ASSUME TypeOK, NEW st \in Statements, NEW w \in KnownWitnesses,
           Satisfies(ExpectedCircuitId, FillPublicInputs(st), w)
    PROVE  Justified(signatures, st)
  <1> DEFINE att == w.attestation
             asr == w.assertion
  <1>1. st \in Statement /\ PublicInput(FillPublicInputs(st)) = st
    BY MessageAssumption, PublicInputReadsFill
  <1>2. AssertStatement(st, w)
    BY <1>1 DEF Satisfies, ExpectedCircuitId
  <1>3. /\ att \in AttestationMsgs /\ att \in Attestation
        /\ asr \in AssertionMsgs /\ asr \in Assertion
        /\ w.attestationSig \in KnownSigs(att)
        /\ w.assertionSig \in KnownSigs(asr)
    BY KnownSigsType, MessageAssumption
  <1>4. AssertAttestation(st, att) /\ AssertApprovalAssertion(st, asr)
    BY <1>2 DEF AssertStatement
  <1>5. /\ VerifySignature3(st.issuerPk, att, w.attestationSig)
        /\ VerifySignature3(Reduce(att.devicePk), asr, w.assertionSig)
    BY <1>2 DEF AssertStatement
  <1>6. Reduce(att.devicePk) = att.devicePk
    BY <1>4 DEF AssertAttestation, CoordinatesBelowP, Reduce
  <1>7. /\ st.issuerPk \in Keys /\ att.devicePk \in Keys
        /\ w.attestationSig = [by |-> st.issuerPk, over |-> att]
        /\ w.assertionSig = [by |-> att.devicePk, over |-> asr]
    BY <1>5, <1>6 DEF VerifySignature3, IsOnCurve, GroupEquation
  <1>8. w.attestationSig \in signatures /\ w.assertionSig \in signatures
    BY <1>3, <1>7, KnownSigIsMade DEF PublicKeys, Messages
  <1>9. AttestationMatches(att, st)
    BY <1>1, <1>3, <1>4, <1>7
       DEF AssertAttestation, AttestationMatches, AssertSha256Padding,
           Attestation, Statement
  <1>10. AssertionMatches(asr, st)
    BY <1>4
       DEF AssertApprovalAssertion, AssertionMatches, AssertSha256Padding
  <1>11. Signed(signatures, st.issuerPk, att)
             /\ Signed(signatures, att.devicePk, asr)
    BY <1>7, <1>8 DEF Signed
  <1>12. QED
    BY <1>3, <1>9, <1>10, <1>11 DEF Justified

(* A witness stays one when more signatures are made.                      *)
LEMMA WitnessesGrow ==
    ASSUME NEW w \in KnownWitnesses, signatures \subseteq signatures'
    PROVE  w \in KnownWitnesses'
  <1>1. PICK att \in AttestationMsgs, asr \in AssertionMsgs :
            w \in WitnessesFor(att, asr)
    BY KnownWitnessParts
  <1>2. KnownSigs(att) \subseteq KnownSigs(att)'
            /\ KnownSigs(asr) \subseteq KnownSigs(asr)'
    BY DEF KnownSigs
  <1>3. w \in WitnessesFor(att, asr)'
    BY <1>1, <1>2 DEF WitnessesFor
  <1>4. /\ <<att, asr>> \in AttestationMsgs \X AssertionMsgs
        /\ <<att, asr>>[1] = att
        /\ <<att, asr>>[2] = asr
    OBVIOUS
  <1>5. QED
    BY <1>3, <1>4 DEF KnownWitnesses

-----------------------------------------------------------------------------
(* The inductive invariant.  Acceptance alone is not inductive: what the   *)
(* verifier may accept next depends on which proofs exist.                 *)
IInv == TypeOK /\ CanonicalProofsWitnessed /\ AcceptedJustified

THEOREM InitIInv == Init => IInv
  BY DEF Init, IInv, TypeOK, CanonicalProofsWitnessed, AcceptedJustified

(* Signing keeps every witness and every justification.                    *)
LEMMA SignKeepsIInv ==
    ASSUME IInv, Sign
    PROVE  IInv'
  <1>1. /\ signatures \subseteq signatures'
        /\ signatures' \subseteq Signature
        /\ proofs' = proofs /\ accepted' = accepted
    BY DEF Sign, IInv, TypeOK
  <1>2. TypeOK'
    BY <1>1 DEF IInv, TypeOK
  <1>3. CanonicalProofsWitnessed'
    BY <1>1, WitnessesGrow DEF IInv, CanonicalProofsWitnessed, Provable
  <1>4. AcceptedJustified'
    BY <1>1 DEF IInv, AcceptedJustified, Justified, Signed
  <1>5. QED
    BY <1>2, <1>3, <1>4 DEF IInv

(* A new proof, whoever makes it, has a witness.                           *)
LEMMA NewProofKeepsIInv ==
    ASSUME IInv, NEW circuit \in ReadableCircuits, NEW st \in Statements,
           NEW w \in KnownWitnesses,
           Satisfies(circuit, FillPublicInputs(st), w),
           proofs' = proofs \cup {Proof(circuit, FillPublicInputs(st))},
           UNCHANGED <<signatures, accepted>>
    PROVE  IInv'
  <1>1. TypeOK'
    BY DEF IInv, TypeOK, Proof
  <1>2. KnownWitnesses' = KnownWitnesses
    BY DEF KnownWitnesses, WitnessesFor, KnownSigs
  <1>3. CanonicalProofsWitnessed'
    BY <1>2 DEF IInv, CanonicalProofsWitnessed, Proof, Provable
  <1>4. AcceptedJustified'
    BY DEF IInv, AcceptedJustified, Justified
  <1>5. QED
    BY <1>1, <1>3, <1>4 DEF IInv

(* The verifier's SUCCESS is justified.                                    *)
LEMMA VerifierAcceptsJustified ==
    ASSUME IInv, NEW circuit, NEW st \in Statements, NEW p \in proofs,
           Succeeds(VerifierChecks(VerifierCall(circuit, st, p)))
    PROVE  Justified(signatures, st)
  <1>1. p.circuit = ExpectedCircuitId /\ p.pub = FillPublicInputs(st)
    BY VerifierSuccess DEF Verify
  <1>2. PICK w \in KnownWitnesses : Satisfies(p.circuit, p.pub, w)
    BY <1>1 DEF IInv, CanonicalProofsWitnessed, Provable
  <1>3. QED
    BY <1>1, <1>2, CircuitImpliesJustified DEF IInv

THEOREM NextIInv == IInv /\ [Next]_vars => IInv'
  <1> SUFFICES ASSUME IInv, [Next]_vars
               PROVE  IInv'
    OBVIOUS
  <1>1. CASE Sign
    BY <1>1, SignKeepsIInv
  <1>2. CASE RunProver
    <2>1. PICK circuit \in ReadableCircuits, st \in Statements,
               w \in KnownWitnesses :
            /\ Succeeds(ProverChecks(ProverCall(circuit, st, w)))
            /\ proofs' = proofs \cup {Proof(circuit, FillPublicInputs(st))}
      BY <1>2 DEF RunProver, ProverCall, ProverWitnesses
    <2>2. circuit \in ReadableCircuits
              /\ Satisfies(circuit, FillPublicInputs(st), w)
      BY <2>1, ProverSuccess DEF ReadableCircuits, ExpectedCircuitId
    <2>3. UNCHANGED <<signatures, accepted>>
      BY <1>2 DEF RunProver
    <2>4. QED
      BY <2>1, <2>2, <2>3, NewProofKeepsIInv
  <1>3. CASE ForeignProof
    <2>1. PICK circuit \in ReadableCircuits, st \in Statements :
            /\ Provable(circuit, FillPublicInputs(st))
            /\ proofs' = proofs \cup {Proof(circuit, FillPublicInputs(st))}
      BY <1>3 DEF ForeignProof
    <2>2. PICK w \in KnownWitnesses :
              Satisfies(circuit, FillPublicInputs(st), w)
      BY <2>1 DEF Provable
    <2>3. UNCHANGED <<signatures, accepted>>
      BY <1>3 DEF ForeignProof
    <2>4. QED
      BY <2>1, <2>2, <2>3, NewProofKeepsIInv
  <1>4. CASE RunVerifier
    <2>1. PICK circuit \in CircuitArgs, st \in Statements, p \in proofs :
            /\ Succeeds(VerifierChecks(VerifierCall(circuit, st, p)))
            /\ accepted' = accepted \cup {st}
      BY <1>4 DEF RunVerifier
    <2>2. Justified(signatures, st)
      BY <2>1, VerifierAcceptsJustified
    <2>3. UNCHANGED <<signatures, proofs>>
      BY <1>4 DEF RunVerifier
    <2>4. TypeOK' /\ AcceptedJustified'
      BY <2>1, <2>2, <2>3
         DEF IInv, TypeOK, AcceptedJustified, Justified
    <2>5. CanonicalProofsWitnessed'
      BY <2>3 DEF IInv, CanonicalProofsWitnessed, Provable, KnownWitnesses,
             WitnessesFor, KnownSigs
    <2>6. QED
      BY <2>4, <2>5 DEF IInv
  <1>5. CASE UNCHANGED vars
    BY <1>5
       DEF vars, IInv, TypeOK, CanonicalProofsWitnessed, Provable, KnownWitnesses,
           WitnessesFor, KnownSigs, AcceptedJustified, Justified
  <1>6. QED
    BY <1>1, <1>2, <1>3, <1>4, <1>5 DEF Next

-----------------------------------------------------------------------------
(* Type correctness of the model of the C ABI.                             *)
THEOREM TypeCorrect == Spec => []TypeOK
  <1>1. IInv => TypeOK
    BY DEF IInv
  <1>2. QED
    BY <1>1, InitIInv, NextIInv, PTL DEF Spec

(* Soundness: SUCCESS from run_approval_proof_v1_verifier always stands    *)
(* for an attestation and an approval that were really signed.             *)
THEOREM Soundness == Spec => []AcceptedJustified
  <1>1. IInv => AcceptedJustified
    BY DEF IInv
  <1>2. QED
    BY <1>1, InitIInv, NextIInv, PTL DEF Spec

(* Every proof for the canonical circuit has a witness of real signatures. *)
THEOREM ProofsHaveWitnesses == Spec => []CanonicalProofsWitnessed
  <1>1. IInv => CanonicalProofsWitnessed
    BY DEF IInv
  <1>2. QED
    BY <1>1, InitIInv, NextIInv, PTL DEF Spec

(* One proof, one statement: nonce, audience, request, time and policy are *)
(* all bound.                                                              *)
THEOREM Binding == Spec => []ProofFitsOneStatement
  <1>1. ProofFitsOneStatement
    BY VerifierSuccess, FillPublicInputsInjective, MessageAssumption
       DEF ProofFitsOneStatement, Verify
  <1>2. QED
    BY <1>1, PTL

(* Completeness: whoever holds a matching attestation and assertion gets a *)
(* proof, and the verifier accepts it, at the edges of the window too.     *)
THEOREM Completeness == Spec => []HonestApprovalVerifies
  <1>1. TypeOK => HonestApprovalVerifies
    <2> SUFFICES
          ASSUME TypeOK, NEW st \in Statements, NEW att \in AttestationMsgs,
                 NEW asr \in AssertionMsgs,
                 AttestationMatches(att, st), AssertionMatches(asr, st),
                 Signed(signatures, st.issuerPk, att),
                 Signed(signatures, att.devicePk, asr),
                 NEW w,
                 w = [attestation |-> att,
                      attestationSig |-> [by |-> st.issuerPk, over |-> att],
                      assertion |-> asr,
                      assertionSig |-> [by |-> att.devicePk, over |-> asr]],
                 NEW v, v = FillPublicInputs(st)
          PROVE  /\ Succeeds(ProverChecks(ProverCall("canonical", st, w)))
                 /\ Succeeds(VerifierChecks(
                       VerifierCall("canonical", st, Proof("canonical", v))))
      BY DEF HonestApprovalVerifies
    <2>1. /\ st \in Statement /\ att \in Attestation /\ asr \in Assertion
          /\ PublicInput(v) = st
      BY MessageAssumption, PublicInputReadsFill
    <2>2. /\ w.attestationSig \in Signature /\ w.assertionSig \in Signature
          /\ st.issuerPk \in Keys /\ att.devicePk \in Keys
          /\ w.attestationSig = [by |-> st.issuerPk, over |-> att]
          /\ w.assertionSig = [by |-> att.devicePk, over |-> asr]
      BY DEF TypeOK, Signed, Signature
    <2>3. st.issuerPk # Unreduced /\ att.devicePk # Unreduced
      BY <2>2, KeyAssumption
    <2>4. /\ w.attestationSig # MalformedSig
          /\ w.assertionSig # MalformedSig
      BY <2>2, SigValueAssumption DEF Signature, PublicKeys
    <2>5. AssertStatement(st, w)
      <3>1. AssertAttestation(st, att)
        BY <2>1, <2>3
           DEF AttestationMatches, AssertAttestation, AssertSha256Padding,
               CoordinatesBelowP, Attestation, Statement
      <3>2. AssertApprovalAssertion(st, asr)
        BY DEF AssertionMatches, AssertApprovalAssertion, AssertSha256Padding
      <3>3. /\ VerifySignature3(st.issuerPk, att, w.attestationSig)
            /\ VerifySignature3(Reduce(att.devicePk), asr, w.assertionSig)
        BY <2>2, <2>3, <2>4
           DEF VerifySignature3, GroupEquation, IsOnCurve, Reduce
      <3>4. w.attestation = att /\ w.assertion = asr
        OBVIOUS
      <3>5. QED
        BY <3>1, <3>2, <3>3, <3>4 DEF AssertStatement
    <2>6. Prove(st, w)
      BY <2>1, <2>5 DEF Prove, Satisfies
    <2>7. BuilderCompute(st, w)
      BY <2>2, <2>3 DEF BuilderCompute, ParsesFieldElement, ComputeWitness
    <2>8. Succeeds(ProverChecks(ProverCall("canonical", st, w)))
      <3>1. ValidIssuerPk(st)
        BY <2>2, <2>3 DEF ValidIssuerPk, ParsesFieldElement, IsOnCurve
      <3> DEFINE c == ProverCall("canonical", st, w)
                 checks == ProverChecks(c)
      <3>2. /\ c.circuit = "canonical" /\ c.input = "bytes" /\ c.out = "ok"
            /\ c.statement = st /\ c.witness = w /\ c.mallocOk = TRUE
        BY DEF ProverCall
      <3> HIDE DEF c
      <3>3. DOMAIN checks = 1..12
        BY DEF ProverChecks
      <3>4. /\ ~checks[1].fails /\ ~checks[2].fails /\ ~checks[3].fails
            /\ ~checks[4].fails /\ ~checks[5].fails /\ ~checks[7].fails
            /\ ~checks[8].fails /\ ~checks[12].fails
        BY <3>2
           DEF ProverChecks, Check, ParsesCircuit, ReadableCircuits,
               MatchesExpectedId, EmbeddedId, CircuitIdOf, ExpectedCircuitId
      <3>5. /\ ~checks[6].fails /\ ~checks[9].fails /\ ~checks[10].fails
            /\ ~checks[11].fails
        BY <2>3, <2>4, <2>6, <2>7, <3>1, <3>2
           DEF ProverChecks, Check, ValidSignatureScalars, ParsesFieldElement
      <3>6. QED
        BY <3>3, <3>4, <3>5 DEF Succeeds, c
    <2>9. Succeeds(VerifierChecks(
             VerifierCall("canonical", st, Proof("canonical", v))))
      <3> DEFINE c == VerifierCall("canonical", st, Proof("canonical", v))
                 checks == VerifierChecks(c)
      <3>1. /\ c.circuit = "canonical" /\ c.input = "bytes"
            /\ c.proofArg = "bytes" /\ c.statement = st
            /\ c.proof.circuit = "canonical" /\ c.proof.pub = v
        BY DEF VerifierCall, Proof
      <3> HIDE DEF c
      <3>2. DOMAIN checks = 1..10
        BY DEF VerifierChecks
      <3>3. /\ ~checks[1].fails /\ ~checks[2].fails /\ ~checks[3].fails
            /\ ~checks[4].fails /\ ~checks[5].fails /\ ~checks[6].fails
            /\ ~checks[7].fails /\ ~checks[9].fails
        BY <3>1
           DEF VerifierChecks, Check, ParsesCircuit, ReadableCircuits,
               MatchesExpectedId, EmbeddedId, CircuitIdOf, ExpectedCircuitId
      <3>4. ~checks[8].fails /\ ~checks[10].fails
        BY <2>3, <3>1 DEF VerifierChecks, Check, ParsesFieldElement, Verify
      <3>5. QED
        BY <3>2, <3>3, <3>4 DEF Succeeds, c
    <2>10. QED
      BY <2>8, <2>9
  <1>2. QED
    BY <1>1, TypeCorrect, PTL

-----------------------------------------------------------------------------
(* Result codes: a check that fails after checks that pass gives the code, *)
(* and a call without a failing check succeeds.                            *)
LEMMA FirstFailure ==
    ASSUME NEW checks, NEW n \in Nat, DOMAIN checks = 1..n,
           NEW k \in 1..n, checks[k].fails,
           \A i \in 1..(k - 1) : ~checks[i].fails
    PROVE  ResultCode(checks) = checks[k].code
  <1> DEFINE failing == {i \in DOMAIN checks : checks[i].fails}
  <1>1. k \in failing
    OBVIOUS
  <1>2. \A i \in failing : i \in 1..n /\ k <= i
    OBVIOUS
  <1>3. Min(failing) = k
    <2>1. /\ Min(failing) \in failing
          /\ \A i \in failing : Min(failing) <= i
      BY <1>1, <1>2 DEF Min
    <2>2. Min(failing) \in Nat /\ k \in Nat
      BY <1>2, <2>1
    <2>3. Min(failing) <= k /\ k <= Min(failing)
      BY <1>1, <1>2, <2>1
    <2>4. QED
      BY <2>2, <2>3
  <1>4. ~Succeeds(checks)
    BY <1>1 DEF Succeeds
  <1>5. QED
    BY <1>3, <1>4 DEF ResultCode

(* Whether the bytes run: what both id checks leave.                       *)
LEMMA CanonicalParses ==
    ASSUME NEW circuit
    PROVE  (ParsesCircuit(circuit) /\ MatchesExpectedId(circuit))
              <=> circuit = "canonical"
  BY DEF ParsesCircuit, MatchesExpectedId, CircuitIdOf, EmbeddedId,
         ExpectedCircuitId, ReadableCircuits

(* The codes of a verifier call that reaches the proof: the circuit is the *)
(* canonical one, and then it is the proof that decides.                   *)
LEMMA VerifierCode ==
    ASSUME NEW circuit \in CircuitArgs, NEW st, NEW p,
           ParsesFieldElement(st.issuerPk)
    PROVE  ResultCode(VerifierChecks(VerifierCall(circuit, st, p)))
              \in {"SUCCESS", "VERIFICATION_FAILURE"}
           <=> circuit = "canonical"
  <1> DEFINE c == VerifierCall(circuit, st, p)
             checks == VerifierChecks(c)
  <1>1. /\ c.circuit = circuit /\ c.input = "bytes" /\ c.proofArg = "bytes"
        /\ c.statement = st /\ c.proof = p
    BY DEF VerifierCall
  <1> HIDE DEF c
  <1>2. DOMAIN checks = 1..10
    BY DEF VerifierChecks
  <1>3. /\ ~checks[1].fails /\ ~checks[2].fails
        /\ ~checks[8].fails /\ ~checks[9].fails
        /\ checks[3].fails <=> circuit = "null"
        /\ checks[4].fails <=> circuit = "empty"
        /\ checks[5].fails <=> circuit = "too_large"
        /\ checks[6].fails <=> ~ParsesCircuit(circuit)
        /\ checks[7].fails <=> ~MatchesExpectedId(circuit)
        /\ checks[10].fails <=> ~Verify(circuit, FillPublicInputs(st), p)
    BY <1>1 DEF VerifierChecks, Check
  <1>4. /\ checks[3].code = "NULL_INPUT" /\ checks[4].code = "INVALID_INPUT"
        /\ checks[5].code = "INPUT_TOO_LARGE"
        /\ checks[6].code = "CIRCUIT_PARSING_FAILURE"
        /\ checks[7].code = "CIRCUIT_ID_MISMATCH"
        /\ checks[10].code = "VERIFICATION_FAILURE"
    BY DEF VerifierChecks, Check
  <1> HIDE DEF checks
  <1>5. ASSUME circuit = "canonical"
        PROVE  ResultCode(checks) \in {"SUCCESS", "VERIFICATION_FAILURE"}
    <2>1. \A i \in 1..9 : ~checks[i].fails
      BY <1>3, <1>5, CanonicalParses
    <2>2. CASE checks[10].fails
      <3>1. 10 \in 1..10 /\ 10 \in Nat /\ 10 - 1 = 9
        OBVIOUS
      <3>2. ResultCode(checks) = checks[10].code
        BY ONLY <1>2, <2>1, <2>2, <3>1, FirstFailure
      <3>3. QED
        BY <1>4, <3>2
    <2>3. CASE ~checks[10].fails
      BY <1>2, <2>1, <2>3 DEF ResultCode, Succeeds
    <2>4. QED
      BY <2>2, <2>3
  <1>6. ASSUME circuit # "canonical"
        PROVE  ResultCode(checks) \notin {"SUCCESS", "VERIFICATION_FAILURE"}
    <2>1. PICK k \in 3..7 : /\ checks[k].fails
                            /\ \A i \in 1..(k - 1) : ~checks[i].fails
      <3>1. checks[6].fails \/ checks[7].fails
        BY <1>3, <1>6, CanonicalParses
      <3>2. \E k \in {3, 4, 5, 6, 7} :
                /\ checks[k].fails
                /\ \A i \in 1..(k - 1) : ~checks[i].fails
        BY <1>3, <3>1
      <3>3. QED
        BY <3>2
    <2>2. ResultCode(checks) = checks[k].code
      <3>1. k \in 1..10 /\ 10 \in Nat
        OBVIOUS
      <3>2. QED
        BY ONLY <1>2, <2>1, <3>1, FirstFailure
    <2>3. QED
      BY <1>4, <2>2
  <1>7. QED
    BY <1>5, <1>6 DEF checks, c

(* The codes of a prover call of well-formed keys and signatures: the      *)
(* circuit is the canonical one, and then the witness decides.             *)
LEMMA ProverRuns ==
    ASSUME NEW circuit \in CircuitArgs, NEW st, NEW w,
           ValidSignatureScalars(w.attestationSig),
           ValidSignatureScalars(w.assertionSig), ValidIssuerPk(st)
    PROVE  ResultCode(ProverChecks(ProverCall(circuit, st, w)))
              \in {"WITNESS_CREATION_FAILURE", "PROOF_FAILURE", "SUCCESS"}
           <=> circuit = "canonical"
  <1> DEFINE c == ProverCall(circuit, st, w)
             checks == ProverChecks(c)
             Runs == {"WITNESS_CREATION_FAILURE", "PROOF_FAILURE", "SUCCESS"}
  <1>1. /\ c.circuit = circuit /\ c.input = "bytes" /\ c.out = "ok"
        /\ c.statement = st /\ c.witness = w /\ c.mallocOk = TRUE
    BY DEF ProverCall
  <1> HIDE DEF c
  <1>2. DOMAIN checks = 1..12
    BY DEF ProverChecks
  <1>3. /\ ~checks[1].fails /\ ~checks[2].fails /\ ~checks[6].fails
        /\ ~checks[9].fails /\ ~checks[12].fails
        /\ checks[3].fails <=> circuit = "null"
        /\ checks[4].fails <=> circuit = "empty"
        /\ checks[5].fails <=> circuit = "too_large"
        /\ checks[7].fails <=> ~ParsesCircuit(circuit)
        /\ checks[8].fails <=> ~MatchesExpectedId(circuit)
    BY <1>1 DEF ProverChecks, Check, ValidIssuerPk
  <1>4. /\ checks[3].code = "NULL_INPUT" /\ checks[4].code = "INVALID_INPUT"
        /\ checks[5].code = "INPUT_TOO_LARGE"
        /\ checks[7].code = "CIRCUIT_PARSING_FAILURE"
        /\ checks[8].code = "CIRCUIT_ID_MISMATCH"
        /\ checks[10].code = "WITNESS_CREATION_FAILURE"
        /\ checks[11].code = "PROOF_FAILURE"
    BY DEF ProverChecks, Check
  <1> HIDE DEF checks
  <1>5. ASSUME circuit = "canonical"
        PROVE  ResultCode(checks) \in Runs
    <2>1. \A i \in 1..9 : ~checks[i].fails
      BY <1>3, <1>5, CanonicalParses
    <2>2. CASE checks[10].fails \/ checks[11].fails
      <3>1. PICK k \in {10, 11} : /\ checks[k].fails
                                 /\ \A i \in 1..(k - 1) : ~checks[i].fails
        BY <2>1, <2>2
      <3>2. k \in 1..12 /\ 12 \in Nat
        OBVIOUS
      <3>3. ResultCode(checks) = checks[k].code
        BY ONLY <1>2, <3>1, <3>2, FirstFailure
      <3>4. QED
        BY <1>4, <3>3
    <2>3. CASE ~checks[10].fails /\ ~checks[11].fails
      <3>1. \A i \in 1..12 : ~checks[i].fails
        BY <1>3, <2>1, <2>3
      <3>2. QED
        BY <1>2, <3>1 DEF ResultCode, Succeeds
    <2>4. QED
      BY <2>2, <2>3
  <1>6. ASSUME circuit # "canonical"
        PROVE  ResultCode(checks) \notin Runs
    <2>1. PICK k \in {3, 4, 5, 7, 8} :
                /\ checks[k].fails
                /\ \A i \in 1..(k - 1) : ~checks[i].fails
      <3>1. checks[7].fails \/ checks[8].fails
        BY <1>3, <1>6, CanonicalParses
      <3>2. QED
        BY <1>3, <3>1
    <2>2. ResultCode(checks) = checks[k].code
      <3>1. k \in 1..12 /\ 12 \in Nat
        OBVIOUS
      <3>2. QED
        BY ONLY <1>2, <2>1, <3>1, FirstFailure
    <2>3. QED
      BY <1>4, <2>2
  <1>7. QED
    BY <1>5, <1>6 DEF checks, c

(* The pin is right: the bytes whose approval_proof_v1_circuit_id is the   *)
(* expected one are those the verifier runs with, whatever the proof, and  *)
(* those the prover runs with, whatever the witness of well-formed values. *)
THEOREM PinnedCircuit == Spec => []PinnedCircuitIsUsable
  <1>1. ASSUME NEW circuit \in CircuitArgs
        PROVE  (/\ Succeeds(CircuitIdChecks(circuit))
                /\ CircuitIdOf(circuit) = ExpectedCircuitId)
               <=> circuit = "canonical"
    <2> DEFINE checks == CircuitIdChecks(circuit)
    <2>1. DOMAIN checks = 1..4
      BY DEF CircuitIdChecks
    <2>2. /\ checks[1].fails <=> circuit = "null"
          /\ checks[2].fails <=> circuit = "empty"
          /\ checks[3].fails <=> circuit = "too_large"
          /\ checks[4].fails <=> ~ParsesCircuit(circuit)
      BY DEF CircuitIdChecks, Check
    <2>3. circuit = "canonical" => Succeeds(checks)
      <3> HIDE DEF checks
      <3>1. QED
        BY <2>1, <2>2, CanonicalParses DEF Succeeds
    <2>4. QED
      BY <2>3 DEF CircuitIdOf, ExpectedCircuitId
  <1>2. PinnedCircuitIsUsable
    BY <1>1, VerifierCode, ProverRuns DEF PinnedCircuitIsUsable
  <1>3. QED
    BY <1>2, PTL

(* The code of a prover call with sound pointers, the canonical circuit    *)
(* and enough memory, by what the call is about.                           *)
LEMMA ProverCode ==
    ASSUME NEW st, NEW w
    PROVE  LET code == ResultCode(
                           ProverChecks(ProverCall("canonical", st, w)))
               scalars == /\ ValidSignatureScalars(w.attestationSig)
                          /\ ValidSignatureScalars(w.assertionSig)
                          /\ ValidIssuerPk(st)
               built == scalars /\ BuilderCompute(st, w)
           IN  /\ code = "MALFORMED_SIGNATURE" <=> ~scalars
               /\ code = "WITNESS_CREATION_FAILURE" <=>
                      scalars /\ ~BuilderCompute(st, w)
               /\ code = "PROOF_FAILURE" <=> built /\ ~Prove(st, w)
               /\ code = "SUCCESS" <=> built /\ Prove(st, w)
  <1> DEFINE c == ProverCall("canonical", st, w)
             checks == ProverChecks(c)
             scalars == /\ ValidSignatureScalars(w.attestationSig)
                        /\ ValidSignatureScalars(w.assertionSig)
                        /\ ValidIssuerPk(st)
             code == ResultCode(checks)
  <1>1. /\ c.circuit = "canonical" /\ c.input = "bytes" /\ c.out = "ok"
        /\ c.statement = st /\ c.witness = w /\ c.mallocOk = TRUE
    BY DEF ProverCall
  <1> HIDE DEF c
  <1>2. DOMAIN checks = 1..12
    BY DEF ProverChecks
  <1>3. /\ ~checks[1].fails /\ ~checks[2].fails /\ ~checks[3].fails
        /\ ~checks[4].fails /\ ~checks[5].fails /\ ~checks[12].fails
        /\ checks[7].fails <=> ~ParsesCircuit("canonical")
        /\ checks[8].fails <=> ~MatchesExpectedId("canonical")
    BY <1>1 DEF ProverChecks, Check
  <1>4. /\ checks[6].fails <=> ~scalars
        /\ checks[9].fails <=> ~ParsesFieldElement(st.issuerPk)
        /\ checks[10].fails <=> ~BuilderCompute(st, w)
        /\ checks[11].fails <=> ~Prove(st, w)
    BY <1>1 DEF ProverChecks, Check
  <1>5. /\ checks[6].code = "MALFORMED_SIGNATURE"
        /\ checks[9].code = "INVALID_INPUT"
        /\ checks[10].code = "WITNESS_CREATION_FAILURE"
        /\ checks[11].code = "PROOF_FAILURE"
    BY DEF ProverChecks, Check
  <1> HIDE DEF checks
  <1>6. \A i \in 1..12 :
            checks[i].fails => i \in {6, 9, 10, 11}
    BY <1>3, CanonicalParses
  <1>7. CASE \E k \in {6, 10, 11} :
                /\ checks[k].fails
                /\ \A i \in 1..(k - 1) : ~checks[i].fails
    <2>1. PICK k \in {6, 10, 11} :
                /\ checks[k].fails
                /\ \A i \in 1..(k - 1) : ~checks[i].fails
      BY <1>7
    <2>2. code = checks[k].code
      <3>1. k \in 1..12 /\ 12 \in Nat
        OBVIOUS
      <3>2. ResultCode(checks) = checks[k].code
        BY ONLY <1>2, <2>1, <3>1, FirstFailure
      <3>3. QED
        BY <3>2
    <2>3. /\ code # "SUCCESS"
          /\ code = "MALFORMED_SIGNATURE" <=> k = 6
          /\ code = "WITNESS_CREATION_FAILURE" <=> k = 10
          /\ code = "PROOF_FAILURE" <=> k = 11
      BY <1>5, <2>2
    <2>4. k = 6 => ~scalars
      BY <1>4, <2>1
    <2>5. k = 10 => scalars /\ ~BuilderCompute(st, w)
      BY <1>4, <2>1
    <2>6. k = 11 => scalars /\ BuilderCompute(st, w) /\ ~Prove(st, w)
      BY <1>4, <2>1
    <2>7. QED
      BY <2>3, <2>4, <2>5, <2>6 DEF checks, c
  <1>8. CASE \A i \in 1..12 : ~checks[i].fails
    <2>1. code = "SUCCESS"
      BY <1>2, <1>8 DEF ResultCode, Succeeds
    <2>2. scalars /\ BuilderCompute(st, w) /\ Prove(st, w)
      BY <1>4, <1>8
    <2>3. QED
      BY <2>1, <2>2 DEF checks, c
  <1>9. checks[9].fails => checks[6].fails
    BY <1>4 DEF ValidIssuerPk
  <1>10. QED
    BY <1>6, <1>7, <1>8, <1>9

(* With both signatures genuine, the circuit asserts what SPEC.md says.    *)
LEMMA CircuitIsTheStatement ==
    ASSUME NEW st \in Statements, NEW w,
           w.attestation \in AttestationMsgs, w.assertion \in AssertionMsgs,
           st.issuerPk \in Keys, w.attestation.devicePk \in Keys,
           ComputeWitness(st.issuerPk, w.attestation, w.attestationSig),
           ComputeWitness(w.attestation.devicePk, w.assertion,
                          w.assertionSig),
           w.attestationSig # MalformedSig, w.assertionSig # MalformedSig
    PROVE  Prove(st, w) <=> /\ AttestationMatches(w.attestation, st)
                            /\ AssertionMatches(w.assertion, st)
  <1> DEFINE att == w.attestation
             asr == w.assertion
  <1>1. /\ st \in Statement /\ att \in Attestation /\ asr \in Assertion
        /\ PublicInput(FillPublicInputs(st)) = st
    BY MessageAssumption, PublicInputReadsFill
  <1>2. Prove(st, w) <=> AssertStatement(st, w)
    BY <1>1 DEF Prove, Satisfies, ExpectedCircuitId
  <1>3. att.devicePk # Unreduced /\ Reduce(att.devicePk) = att.devicePk
    BY KeyAssumption DEF Reduce
  <1>4. /\ VerifySignature3(st.issuerPk, att, w.attestationSig)
        /\ VerifySignature3(Reduce(att.devicePk), asr, w.assertionSig)
    BY <1>3 DEF VerifySignature3, GroupEquation, IsOnCurve, ComputeWitness
  <1>5. AssertAttestation(st, att) <=> AttestationMatches(att, st)
    BY <1>1, <1>3
       DEF AssertAttestation, AttestationMatches, AssertSha256Padding,
           CoordinatesBelowP, Attestation, Statement
  <1>6. AssertApprovalAssertion(st, asr) <=> AssertionMatches(asr, st)
    BY DEF AssertApprovalAssertion, AssertionMatches, AssertSha256Padding
  <1>7. QED
    BY <1>2, <1>4, <1>5, <1>6 DEF AssertStatement

(* The error says what was wrong, of messages of the two lengths and the   *)
(* canonical circuit: malformed values, a signature that does not verify,  *)
(* a violated policy under two genuine signatures, or nothing.             *)
THEOREM ErrorNamesTheCause == Spec => []ProverCodeNamesTheCause
  <1>1. TypeOK => ProverCodeNamesTheCause
    <2> DEFINE Code(w, st) == ResultCode(ProverChecks(
                                     ProverCall("canonical", st, w)))
               WellFormed(w, st) == /\ ValidSignatureScalars(w.attestationSig)
                                    /\ ValidSignatureScalars(w.assertionSig)
                                    /\ ValidIssuerPk(st)
               Genuine(w, st) == /\ Signed({w.attestationSig}, st.issuerPk,
                                           w.attestation)
                                 /\ Signed({w.assertionSig},
                                           w.attestation.devicePk,
                                           w.assertion)
               Matches(w, st) == /\ AttestationMatches(w.attestation, st)
                                 /\ AssertionMatches(w.assertion, st)
    <2> SUFFICES
          ASSUME TypeOK, NEW w \in ProverWitnesses, NEW st \in Statements
          PROVE  /\ Code(w, st) = "MALFORMED_SIGNATURE" <=>
                        ~WellFormed(w, st)
                 /\ Code(w, st) = "WITNESS_CREATION_FAILURE" <=>
                        WellFormed(w, st) /\ ~Genuine(w, st)
                 /\ Code(w, st) = "PROOF_FAILURE" <=>
                        Genuine(w, st) /\ ~Matches(w, st)
                 /\ Code(w, st) = "SUCCESS" <=>
                        Genuine(w, st) /\ Matches(w, st)
      BY DEF ProverCodeNamesTheCause
    <2> DEFINE code == Code(w, st)
               wellFormed == WellFormed(w, st)
               genuine == Genuine(w, st)
               matches == Matches(w, st)
               built == wellFormed /\ BuilderCompute(st, w)
    <2>1. /\ code = "MALFORMED_SIGNATURE" <=> ~wellFormed
          /\ code = "WITNESS_CREATION_FAILURE" <=>
                 wellFormed /\ ~BuilderCompute(st, w)
          /\ code = "PROOF_FAILURE" <=> built /\ ~Prove(st, w)
          /\ code = "SUCCESS" <=> built /\ Prove(st, w)
      BY ProverCode
    <2>2. /\ w.attestation \in AttestationMsgs
          /\ w.assertion \in AssertionMsgs
          /\ w.attestationSig \in KnownSigs(w.attestation)
          /\ w.assertionSig \in KnownSigs(w.assertion)
      BY KnownSigsType DEF ProverWitnesses
    <2>3. /\ st.issuerPk \in PublicKeys
          /\ w.attestation.devicePk \in PublicKeys
          /\ w.attestation \in Messages /\ w.assertion \in Messages
      BY <2>2, MessageAssumption DEF Statement, Attestation, Messages
    <2>4. genuine <=>
             /\ ComputeWitness(st.issuerPk, w.attestation, w.attestationSig)
             /\ ComputeWitness(w.attestation.devicePk, w.assertion,
                               w.assertionSig)
      BY DEF Signed, ComputeWitness
    <2>5. built => genuine
      BY <2>4 DEF BuilderCompute
    <2>6. ASSUME genuine
          PROVE  built /\ (Prove(st, w) <=> matches)
      <3>1. /\ st.issuerPk \in Keys /\ w.attestation.devicePk \in Keys
            /\ w.attestationSig # MalformedSig
            /\ w.assertionSig # MalformedSig
        BY <2>2, <2>3, <2>4, <2>6, KnownSigIsMade DEF ComputeWitness
      <3>2. /\ st.issuerPk # Unreduced
            /\ w.attestation.devicePk # Unreduced
        BY <3>1, KeyAssumption
      <3>3. built
        BY <2>4, <2>6, <3>1, <3>2
           DEF ValidSignatureScalars, ValidIssuerPk, BuilderCompute,
               ParsesFieldElement, IsOnCurve
      <3>4. Prove(st, w) <=> matches
        BY <2>2, <2>4, <2>6, <3>1, CircuitIsTheStatement
      <3>5. QED
        BY <3>3, <3>4
    <2>7. QED
      BY <2>1, <2>5, <2>6
  <1>2. QED
    BY <1>1, TypeCorrect, PTL

(* The C ABI implements the abstract promise.                              *)
THEOREM Refinement == Spec => KeepsPromise
  <1>1. Init => Promise!Init
    BY DEF Init, Promise!Init
  <1>2. IInv /\ [Next]_vars => [Promise!Next]_(Promise!vars)
    <2> SUFFICES ASSUME IInv, [Next]_vars
                 PROVE  [Promise!Next]_(Promise!vars)
      OBVIOUS
    <2>1. CASE Sign
      BY <2>1 DEF Sign, Promise!Next, Promise!Sign, Promise!Signature,
                  Promise!Messages, Signature, Messages
    <2>2. CASE RunProver \/ ForeignProof
      BY <2>2 DEF RunProver, ForeignProof, Promise!vars
    <2>3. CASE RunVerifier
      <3>1. PICK circuit \in CircuitArgs, st \in Statements, p \in proofs :
              /\ Succeeds(VerifierChecks(VerifierCall(circuit, st, p)))
              /\ accepted' = accepted \cup {st}
        BY <2>3 DEF RunVerifier
      <3>2. Promise!Justified(signatures, st)
        <4>1. Justified(signatures, st)
          BY <3>1, VerifierAcceptsJustified
        <4>2. QED
          BY <4>1 DEF Justified, AttestationMatches, AssertionMatches, Signed,
                AttestationLength, AttestationDomain,
                KeyClassSecureHardwareP256, ApprovalAssertionLength,
                ApprovalAssertionDomain,
                Promise!Justified, Promise!AttestationMatches,
                Promise!AssertionMatches, Promise!Signed,
                Promise!AttestationLength, Promise!AttestationDomain,
                Promise!KeyClassSecureHardwareP256,
                Promise!ApprovalAssertionLength,
                Promise!ApprovalAssertionDomain
      <3>3. QED
        BY <3>1, <3>2, <2>3 DEF RunVerifier, Promise!Next, Promise!Accept
    <2>4. CASE UNCHANGED vars
      BY <2>4 DEF vars, Promise!vars
    <2>5. QED
      BY <2>1, <2>2, <2>3, <2>4 DEF Next
  <1>3. QED
    BY <1>1, <1>2, InitIInv, NextIInv, PTL
       DEF Spec, KeepsPromise, Promise!Spec
=============================================================================

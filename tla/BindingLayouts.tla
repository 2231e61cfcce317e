--------------------------- MODULE BindingLayouts ---------------------------
(***************************************************************************)
(* What the bindings repeat of the C header by hand: where each field of   *)
(* the statement and of the prover input lies, and what each code number   *)
(* and message means.  Each table is written out as its own source has it. *)
(***************************************************************************)
EXTENDS Naturals, Sequences, FiniteSets

Langs == {"go", "swift", "wasm"}

-----------------------------------------------------------------------------
(* Byte offsets.  The coordinates of the issuer's key are one field here.  *)

StatementFields ==
    {"issuerPk", "appIdHash", "policyVersion", "now", "challengeNonce",
     "audienceHash", "approvalHash"}

InputParts ==
    {"statement", "attestation", "attestationSig", "assertion", "assertionSig"}

CStatement ==
    [issuerPk |-> 0, appIdHash |-> 64, policyVersion |-> 96, now |-> 100,
     challengeNonce |-> 108, audienceHash |-> 140, approvalHash |-> 172]

CProverInput ==
    [statement |-> 0, attestation |-> 204, attestationSig |-> 340,
     assertion |-> 404, assertionSig |-> 524]

GoStatement ==
    [issuerPk |-> 0, appIdHash |-> 64, policyVersion |-> 96, now |-> 100,
     challengeNonce |-> 108, audienceHash |-> 140, approvalHash |-> 172]

GoProverInput ==
    LET assertion == 204 + 136 + 64 IN
    [statement |-> 0, attestation |-> 204, attestationSig |-> 204 + 136,
     assertion |-> assertion, assertionSig |-> assertion + 120]

TsStatementNonceAfterAudience ==
    [issuerPk |-> 0, appIdHash |-> 64, policyVersion |-> 96, now |-> 100,
     challengeNonce |-> 140, audienceHash |-> 108, approvalHash |-> 172]

TsStatement ==
    [issuerPk |-> 0, appIdHash |-> 64, policyVersion |-> 96, now |-> 100,
     challengeNonce |-> 108, audienceHash |-> 140, approvalHash |-> 172]

TsProverInput ==
    [statement |-> 0, attestation |-> 204, attestationSig |-> 340,
     assertion |-> 404, assertionSig |-> 524]

(* Swift appends the fields one after another.                             *)
LengthOf ==
    [issuerPk |-> 64, appIdHash |-> 32, policyVersion |-> 4, now |-> 8,
     challengeNonce |-> 32, audienceHash |-> 32, approvalHash |-> 32,
     statement |-> 204, attestation |-> 136, attestationSig |-> 64,
     assertion |-> 120, assertionSig |-> 64]

SwiftStatement ==
    LET appIdHash == LengthOf.issuerPk
        policyVersion == appIdHash + LengthOf.appIdHash
        now == policyVersion + LengthOf.policyVersion
        challengeNonce == now + LengthOf.now
        audienceHash == challengeNonce + LengthOf.challengeNonce
        approvalHash == audienceHash + LengthOf.audienceHash
    IN  [issuerPk |-> 0, appIdHash |-> appIdHash,
         policyVersion |-> policyVersion, now |-> now,
         challengeNonce |-> challengeNonce, audienceHash |-> audienceHash,
         approvalHash |-> approvalHash]

SwiftProverInput ==
    LET attestation == LengthOf.statement
        attestationSig == attestation + LengthOf.attestation
        assertion == attestationSig + LengthOf.attestationSig
        assertionSig == assertion + LengthOf.assertion
    IN  [statement |-> 0, attestation |-> attestation,
         attestationSig |-> attestationSig, assertion |-> assertion,
         assertionSig |-> assertionSig]

StatementLayout ==
    [go |-> GoStatement, swift |-> SwiftStatement, wasm |-> TsStatement]

InputLayout ==
    [go |-> GoProverInput, swift |-> SwiftProverInput, wasm |-> TsProverInput]

(* copy_struct_from_bytes: the field at offset o is what the binding put   *)
(* there.                                                                  *)
Read(written, layout, expected) ==
    [f \in DOMAIN expected |->
        written[CHOOSE g \in DOMAIN layout : layout[g] = expected[f]]]

ReadStatement(lang, st) == Read(st, StatementLayout[lang], CStatement)

ReadProverInput(lang, st, w) ==
    LET parts == Read([statement |-> ReadStatement(lang, st),
                       attestation |-> w.attestation,
                       attestationSig |-> w.attestationSig,
                       assertion |-> w.assertion,
                       assertionSig |-> w.assertionSig],
                      InputLayout[lang], CProverInput)
    IN  [statement |-> parts.statement,
         witness |-> [attestation |-> parts.attestation,
                      attestationSig |-> parts.attestationSig,
                      assertion |-> parts.assertion,
                      assertionSig |-> parts.assertionSig]]

-----------------------------------------------------------------------------
(* Result codes: a code's number is its place, counted from 0.             *)

ProverCodes ==
    <<"SUCCESS", "NULL_INPUT", "INVALID_INPUT", "CIRCUIT_PARSING_FAILURE",
      "WITNESS_CREATION_FAILURE", "PROOF_FAILURE",
      "MEMORY_ALLOCATION_FAILURE", "CIRCUIT_ID_MISMATCH", "INPUT_TOO_LARGE",
      "MALFORMED_SIGNATURE">>

VerifierCodes ==
    <<"SUCCESS", "NULL_INPUT", "INVALID_INPUT", "CIRCUIT_PARSING_FAILURE",
      "PROOF_PARSING_FAILURE", "VERIFICATION_FAILURE", "CIRCUIT_ID_MISMATCH",
      "INPUT_TOO_LARGE">>

GenerationCodes ==
    <<"SUCCESS", "NULL_INPUT", "MEMORY_ALLOCATION_FAILURE",
      "GENERAL_FAILURE">>

CircuitIdCodes ==
    <<"SUCCESS", "NULL_INPUT", "INVALID_INPUT", "CIRCUIT_PARSING_FAILURE",
      "INPUT_TOO_LARGE">>

CCodes ==
    [prove |-> ProverCodes, verify |-> VerifierCodes,
     generate |-> GenerationCodes, circuitId |-> CircuitIdCodes]

TsCodes ==
    [prove |->
        <<"SUCCESS", "NULL_INPUT", "INVALID_INPUT", "CIRCUIT_PARSING_FAILURE",
          "WITNESS_CREATION_FAILURE", "PROOF_FAILURE",
          "MEMORY_ALLOCATION_FAILURE", "CIRCUIT_ID_MISMATCH",
          "INPUT_TOO_LARGE", "MALFORMED_SIGNATURE">>,
     verify |->
        <<"SUCCESS", "NULL_INPUT", "INVALID_INPUT", "CIRCUIT_PARSING_FAILURE",
          "PROOF_PARSING_FAILURE", "VERIFICATION_FAILURE",
          "CIRCUIT_ID_MISMATCH", "INPUT_TOO_LARGE">>,
     generate |->
        <<"SUCCESS", "NULL_INPUT", "MEMORY_ALLOCATION_FAILURE",
          "GENERAL_FAILURE">>,
     circuitId |->
        <<"SUCCESS", "NULL_INPUT", "INVALID_INPUT", "CIRCUIT_PARSING_FAILURE",
          "INPUT_TOO_LARGE">>]

Codes(op) == {CCodes[op][i] : i \in DOMAIN CCodes[op]}

Number(op, code) == CHOOSE i \in DOMAIN CCodes[op] : CCodes[op][i] = code

NameCountedFromOne(lang, op, code) ==
    IF lang = "wasm" /\ Number(op, code) < Len(TsCodes[op])
    THEN TsCodes[op][Number(op, code) + 1] ELSE code

(* Go and Swift compile the header's names; TypeScript has its own.        *)
NameInBinding(lang, op, code) ==
    IF lang = "wasm" THEN TsCodes[op][Number(op, code)] ELSE code

(* approval_proof_v1_*_error_string, up to the one word that differs.      *)
ErrorString(op, code) ==
    CASE code = "SUCCESS" -> "success"
      [] code = "NULL_INPUT" -> "null input"
      [] code = "INVALID_INPUT" -> "invalid input"
      [] code = "CIRCUIT_PARSING_FAILURE" -> "circuit parsing failure"
      [] code = "PROOF_PARSING_FAILURE" -> "proof parsing failure"
      [] code = "WITNESS_CREATION_FAILURE" -> "witness creation failure"
      [] code = "PROOF_FAILURE" -> "proof generation failure"
      [] code = "VERIFICATION_FAILURE" -> "verification failure"
      [] code = "MEMORY_ALLOCATION_FAILURE" -> "memory allocation failure"
      [] code = "CIRCUIT_ID_MISMATCH" ->
            "circuit id does not match canonical expected id"
      [] code = "INPUT_TOO_LARGE" -> "input exceeds maximum supported length"
      [] code = "MALFORMED_SIGNATURE" ->
            "malformed signature or off-curve issuer public key"
      [] code = "GENERAL_FAILURE" -> "general failure"
      [] OTHER -> "unknown"
=============================================================================

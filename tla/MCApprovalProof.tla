--------------------------- MODULE MCApprovalProof ---------------------------
(***************************************************************************)
(* Values for TLC.  Around one good attestation, assertion and statement,  *)
(* every other one breaks one clause of what the circuit asserts, so that  *)
(* a clause the circuit forgot would let that message through, or accept a *)
(* proof for another nonce, request or policy.                             *)
(***************************************************************************)
EXTENDS ApprovalProof

CONSTANTS issuer, device, h1, h2

MCKeys == {issuer, device}
MCHashes == {h1, h2}

GoodAttestation ==
    [len |-> 136, domain |-> AttestationDomain, appIdHash |-> h1,
     policyVersion |-> 1, keyClass |-> 1, reserved |-> 0, notBefore |-> 1,
     notAfter |-> 2, devicePk |-> device]

MCAttestationMsgs ==
    {GoodAttestation,
     [GoodAttestation EXCEPT !.len = 137],
     [GoodAttestation EXCEPT !.domain = "another-protocol"],
     [GoodAttestation EXCEPT !.appIdHash = h2],
     [GoodAttestation EXCEPT !.keyClass = 2],
     [GoodAttestation EXCEPT !.reserved = 1],
     [GoodAttestation EXCEPT !.devicePk = Unreduced],
     [GoodAttestation EXCEPT !.devicePk = OffCurve]}

GoodAssertion ==
    [len |-> 120, domain |-> ApprovalAssertionDomain, challengeNonce |-> h1,
     audienceHash |-> h1, approvalHash |-> h1, expiresAt |-> 3]

MCAssertionMsgs ==
    {GoodAssertion,
     [GoodAssertion EXCEPT !.len = 121],
     [GoodAssertion EXCEPT !.domain = "another-protocol"],
     [GoodAssertion EXCEPT !.audienceHash = h2, !.expiresAt = 1]}

GoodStatement ==
    [issuerPk |-> issuer, appIdHash |-> h1, policyVersion |-> 1, now |-> 2,
     challengeNonce |-> h1, audienceHash |-> h1, approvalHash |-> h1]

MCStatements ==
    {GoodStatement,
     [GoodStatement EXCEPT !.policyVersion = 2],
     [GoodStatement EXCEPT !.challengeNonce = h2],
     [GoodStatement EXCEPT !.approvalHash = h2],
     [GoodStatement EXCEPT !.now = 3],
     [GoodStatement EXCEPT !.audienceHash = h2],
     [GoodStatement EXCEPT !.audienceHash = h2, !.now = 1],
     [GoodStatement EXCEPT !.audienceHash = h2, !.now = 0],
     [GoodStatement EXCEPT !.issuerPk = OffCurve]}
=============================================================================

----------------------------- MODULE MCBindings -----------------------------
(***************************************************************************)
(* Values for TLC: one attestation, one assertion, the statement they      *)
(* justify and the one with nonce and audience exchanged.                  *)
(***************************************************************************)
EXTENDS Bindings

CONSTANTS issuer, device, h1, h2, a, b

MCKeys == {issuer, device}
MCHashes == {h1, h2}
MCCallers == {a, b}

TheAttestation ==
    [len |-> 136, domain |-> AttestationDomain, appIdHash |-> h1,
     policyVersion |-> 1, keyClass |-> 1, reserved |-> 0, notBefore |-> 1,
     notAfter |-> 2, devicePk |-> device]

TheAssertion ==
    [len |-> 120, domain |-> ApprovalAssertionDomain, challengeNonce |-> h1,
     audienceHash |-> h2, approvalHash |-> h1, expiresAt |-> 3]

TheStatement ==
    [issuerPk |-> issuer, appIdHash |-> h1, policyVersion |-> 1, now |-> 2,
     challengeNonce |-> h1, audienceHash |-> h2, approvalHash |-> h1]

MCAttestationMsgs == {TheAttestation}
MCAssertionMsgs == {TheAssertion}
MCStatements ==
    {TheStatement,
     [TheStatement EXCEPT !.challengeNonce = h2, !.audienceHash = h1]}

MCSignatures ==
    {[by |-> issuer, over |-> TheAttestation],
     [by |-> device, over |-> TheAssertion]}

MCWitnesses ==
    {[attestation |-> TheAttestation,
      attestationSig |-> [by |-> issuer, over |-> TheAttestation],
      assertion |-> TheAssertion,
      assertionSig |-> [by |-> device, over |-> TheAssertion]]}

MCCircuits == {"empty", "canonical"}
=============================================================================

---------------------------- MODULE ApprovalTypes ----------------------------
(***************************************************************************)
(* The vocabulary of the approval proof: keys, signed messages, public     *)
(* statements, and the sentence of SPEC.md that a verified proof stands    *)
(* for.  Byte strings are abstracted to the fields at their fixed offsets. *)
(***************************************************************************)
EXTENDS Naturals, FiniteSets

CONSTANTS
    Keys,             \* P-256 public keys: coordinates below p, on the curve,
                      \* x not 0 (the two points with x = 0 are left out)
    OffCurve,         \* coordinates below p that are not on the curve
    Unreduced,        \* coordinates not below p that reduce to Alias modulo p
    Alias,
    Hashes,           \* 32-byte strings
    AttestationMsgs,  \* the attestation-shaped byte strings in play
    AssertionMsgs,    \* the assertion-shaped byte strings in play
    Statements        \* the public statements in play

PublicKeys == Keys \cup {OffCurve, Unreduced}

AttestationDomain == "AKZK-ATTEST-KEY1"
ApprovalAssertionDomain == "AKZK-APPROVAL-V1"
Domains == {AttestationDomain, ApprovalAssertionDomain, "another-protocol"}

AttestationLength == 136
ApprovalAssertionLength == 120
KeyClassSecureHardwareP256 == 1

(* AttestationV1; "reserved" is the big-endian value of bytes 53..55.      *)
Attestation ==
    [len: Nat, domain: Domains, appIdHash: Hashes, policyVersion: Nat,
     keyClass: Nat, reserved: Nat, notBefore: Nat, notAfter: Nat,
     devicePk: PublicKeys]

(* ApprovalAssertionV1.                                                    *)
Assertion ==
    [len: Nat, domain: Domains, challengeNonce: Hashes, audienceHash: Hashes,
     approvalHash: Hashes, expiresAt: Nat]

(* ApprovalProofV1Statement.                                               *)
Statement ==
    [issuerPk: PublicKeys, appIdHash: Hashes, policyVersion: Nat, now: Nat,
     challengeNonce: Hashes, audienceHash: Hashes, approvalHash: Hashes]

Messages == AttestationMsgs \cup AssertionMsgs

(* A signature is identified with who signed what.                         *)
Signature == [by: Keys, over: Messages]

ASSUME KeyAssumption ==
    /\ OffCurve \notin Keys
    /\ Unreduced \notin Keys
    /\ OffCurve # Unreduced
    /\ Alias \in Keys

ASSUME MessageAssumption ==
    /\ AttestationMsgs \subseteq Attestation
    /\ AssertionMsgs \subseteq Assertion
    /\ Statements \subseteq Statement

-----------------------------------------------------------------------------
(* What SPEC.md says the library proves, clause by clause: a device key    *)
(* exists such that the issuer attested it under the expected policy       *)
(* fields, and it signed an assertion that carries the verifier's context. *)

AttestationMatches(att, st) ==
    /\ att.len = AttestationLength
    /\ att.domain = AttestationDomain
    /\ att.appIdHash = st.appIdHash
    /\ att.policyVersion = st.policyVersion
    /\ att.keyClass = KeyClassSecureHardwareP256
    /\ att.reserved = 0
    /\ st.now \in att.notBefore .. att.notAfter
    /\ att.devicePk \in Keys

AssertionMatches(asr, st) ==
    /\ asr.len = ApprovalAssertionLength
    /\ asr.domain = ApprovalAssertionDomain
    /\ asr.challengeNonce = st.challengeNonce
    /\ asr.audienceHash = st.audienceHash
    /\ asr.approvalHash = st.approvalHash
    /\ st.now <= asr.expiresAt

Signed(sigs, pk, msg) == [by |-> pk, over |-> msg] \in sigs

Justified(sigs, st) ==
    \E att \in AttestationMsgs, asr \in AssertionMsgs :
        /\ AttestationMatches(att, st)
        /\ AssertionMatches(asr, st)
        /\ Signed(sigs, st.issuerPk, att)
        /\ Signed(sigs, att.devicePk, asr)
=============================================================================

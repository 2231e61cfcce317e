----------------------------- MODULE FiatShamir -----------------------------
(***************************************************************************)
(* The transcripts of one proof: ZkProver::commit and ::prove on one side, *)
(* ZkVerifier::recv_commitment and ::verify on the other, down to every    *)
(* value absorbed and every challenge drawn.  Three pieces of code walk    *)
(* the same protocol separately: ProverLayers::prove on a clone of the     *)
(* prover's transcript, ZkCommon::verifier_constraints on the transcript   *)
(* itself, and the verifier.                                               *)
(*                                                                         *)
(* The hash is ideal: a challenge is the key of the generator it was drawn *)
(* from, and how much was drawn from that before.  Whether the checks pass *)
(* is not modelled here.                                                   *)
(***************************************************************************)
EXTENDS Naturals, SequencesExt

CONSTANTS
    LogW,         \* number of rounds of each layer
    NPub,         \* public inputs of the circuit
    NReq,         \* columns opened at the end
    Versions,     \* proof versions in use; kProofVersion is one
    Statements,   \* circuit ids with public inputs
    Proofs,       \* bound: proofs a prover may send
    Values        \* what a message of the prover or a public input may be

ASSUME ShapeAssumption ==
    /\ LogW \in Seq(Nat \ {0}) /\ LogW # <<>>
    /\ NPub \in Nat /\ NReq \in Nat \ {0}

VARIABLES
    version,      \* of each side
    stage,        \* how far the protocol has come
    statement,    \* circuit and public inputs of each side
    proof,        \* what the prover sent, and what the verifier received
    transcript,   \* of each side
    challenges    \* what each walk of the protocol drew, by name

vars == <<version, statement, stage, proof, transcript, challenges>>

-----------------------------------------------------------------------------
(* Names of what is said.                                                  *)

LayerIds == DOMAIN LogW
Rounds(ly) == 1..LogW[ly]
Hands == 0..1

(* Round polynomials are sent without p(1), which the claim implies.       *)
RoundPoly(ly, round, hand) == {<<"hp", ly, round, hand, k>> : k \in {0, 2}}
LayerMessages(ly) ==
    {<<"wc", ly>>} \cup
    UNION {RoundPoly(ly, rh[1], rh[2]) : rh \in Rounds(ly) \X Hands}
Responses == {<<"y_ldt">>, <<"y_dot">>, <<"y_quad_0">>, <<"y_quad_2">>}
Messages ==
    {<<"root">>} \cup Responses \cup
    UNION {LayerMessages(ly) : ly \in LayerIds}

ASSUME ContentAssumption ==
    /\ Proofs \subseteq [Messages -> Values]
    /\ \A st \in Statements : \E pub \in [1..NPub -> Values] :
            st = [id |-> st.id, pub |-> pub]

-----------------------------------------------------------------------------
(* class Transcript.  Items carry their tag.  Random bytes come from a      *)
(* generator (prf_, an FSPRF) that is keyed with a snapshot of what was    *)
(* absorbed at the first draw, and goes on until a write drops it; a clone *)
(* inherits none.                                                          *)

NoPrf == [key |-> <<>>, drawn |-> 0]
Fresh == [absorbed |-> <<>>, prf |-> NoPrf]

WriteKeepsPrf(t, tag, value) ==
    [t EXCEPT !.absorbed = Append(@, <<tag, value>>)]

Write(t, tag, value) ==
    [absorbed |-> Append(t.absorbed, <<tag, value>>), prf |-> NoPrf]

Clone(t) == [t EXCEPT !.prf = NoPrf]

(* The generator the next draw reads from.                                 *)
Generator(t) ==
    IF t.prf = NoPrf THEN [key |-> t.absorbed, drawn |-> 0] ELSE t.prf

(* One piece of code walks the protocol: it has a transcript, and keeps    *)
(* the challenges it draws.                                                *)
Walk(t) == [t |-> t, drew |-> <<>>]

Says(w, tag, value) == [w EXCEPT !.t = Write(w.t, tag, value)]

Draws(w, name, n) ==
    LET prf == Generator(w.t)
        now == prf.drawn + n
    IN  [t |-> [w.t EXCEPT !.prf = [key |-> prf.key, drawn |-> now]],
         drew |-> Append(w.drew, [name |-> name, after |-> prf.key,
                                  from |-> prf.drawn, to |-> now])]

(* The constructor absorbs the label, and only keeps the version.          *)
NewTranscript(v) == Write(Fresh, "bytes", "label")

WriteCommitment(t, p) == Write(t, "bytes", p[<<"root">>])

(* One write for every public input.                                       *)
WriteInputs(t, pub) ==
    [absorbed |-> t.absorbed \o [i \in 1..NPub |-> <<"element", pub[i]>>],
     prf |-> NoPrf]

InitializeSumcheckFiatShamir(t, st) ==
    LET id == Write(t, "bytes", st.id)
        inputs == WriteInputs(id, st.pub)
    IN  Write(Write(inputs, "element", 0), "bytes", "zeros")

-----------------------------------------------------------------------------
(* TranscriptSumcheck.                                                     *)

BeginCircuit(w) == Draws(Draws(w, <<"Q">>, 1), <<"G">>, 1)

BeginLayer(w, ly) ==
    Draws(Draws(w, <<"alpha", ly>>, 1), <<"beta", ly>>, 1)

Round(w, p, ly, round, hand) ==
    LET sent0 == Says(w, "element", p[<<"hp", ly, round, hand, 0>>])
        sent2 == Says(sent0, "element", p[<<"hp", ly, round, hand, 2>>])
    IN  Draws(sent2, <<"hb", ly, round, hand>>, 1)

WriteClaims(w, p, ly) == Says(w, "array", p[<<"wc", ly>>])

(* ProverLayers::layer: its rounds, both hands in each.                    *)
ProveRounds(w, p, ly) ==
    LET run[i \in 0..2 * LogW[ly]] ==
            IF i = 0 THEN w
            ELSE Round(run[i - 1], p, ly, (i + 1) \div 2, (i + 1) % 2)
    IN  run[2 * LogW[ly]]

(* ProverLayers::prove, ::layer and ::end_layer.                           *)
ProveLayer(w, p, ly) ==
    LET proved == ProveRounds(BeginLayer(w, ly), p, ly)
    IN  WriteClaims(proved, p, ly)

ProveSumcheck(w, p) ==
    LET layer[ly \in 0..Len(LogW)] ==
            IF ly = 0 THEN BeginCircuit(w) ELSE ProveLayer(layer[ly - 1], p, ly)
    IN  layer[Len(LogW)]

(* ZkCommon::verifier_constraints, without its algebra: the loop over the  *)
(* rounds of a layer is written out there once more.                       *)
ConstrainRoundsHandByHand(w, p, ly) ==
    LET run[i \in 0..2 * LogW[ly]] ==
            IF i = 0 THEN w
            ELSE Round(run[i - 1], p, ly,
                       ((i - 1) % LogW[ly]) + 1, (i - 1) \div LogW[ly])
    IN  run[2 * LogW[ly]]

ConstrainRounds(w, p, ly) ==
    LET run[i \in 0..2 * LogW[ly]] ==
            IF i = 0 THEN w
            ELSE Round(run[i - 1], p, ly, (i + 1) \div 2, (i + 1) % 2)
    IN  run[2 * LogW[ly]]

ConstrainLayer(w, p, ly) ==
    LET replayed == ConstrainRounds(BeginLayer(w, ly), p, ly)
    IN  WriteClaims(replayed, p, ly)

VerifierConstraints(w, p) ==
    LET layer[ly \in 0..Len(LogW)] ==
            IF ly = 0 THEN BeginCircuit(w)
            ELSE ConstrainLayer(layer[ly - 1], p, ly)
    IN  Draws(layer[Len(LogW)], <<"alpha_in">>, 1)

-----------------------------------------------------------------------------
(* LigeroProver::prove draws what a response answers just before it; the   *)
(* verifier replays everything first.                                      *)

WriteResponses(w, p) ==
    LET ldt == Says(w, "array", p[<<"y_ldt">>])
        dot == Says(ldt, "array", p[<<"y_dot">>])
        quad0 == Says(dot, "array", p[<<"y_quad_0">>])
    IN  Says(quad0, "array", p[<<"y_quad_2">>])

LigeroChallenges(w) ==
    LET u_ldt == Draws(w, <<"u_ldt">>, 1)
        alphal == Draws(u_ldt, <<"alphal">>, 1)
        alphaq == Draws(alphal, <<"alphaq">>, 1)
    IN  Draws(alphaq, <<"u_quad">>, 1)

LigeroProve(w, p) ==
    LET begun == LigeroChallenges(Says(w, "bytes", "hash_of_A"))
    IN  Draws(WriteResponses(begun, p), <<"idx">>, NReq)

LigeroVerifyOpensEarly(w, p) ==
    LET begun == LigeroChallenges(Says(w, "bytes", "hash_of_A"))
    IN  WriteResponses(Draws(begun, <<"idx">>, NReq), p)

LigeroVerify(w, p) ==
    LET begun == LigeroChallenges(Says(w, "bytes", "hash_of_A"))
    IN  Draws(WriteResponses(begun, p), <<"idx">>, NReq)
-----------------------------------------------------------------------------
Nobody == [prover |-> Fresh, verifier |-> Fresh]
NoProof == <<>>

Init ==
    /\ version \in [prover : Versions, verifier : Versions]
    /\ statement \in [prover : Statements, verifier : Statements]
    /\ stage = "begun"
    /\ proof = [sent |-> NoProof, received |-> NoProof]
    /\ transcript = Nobody
    /\ challenges = [sumcheck |-> <<>>, prover |-> <<>>, verifier |-> <<>>]

(* ZkProver::commit; what the prover will say is settled here, for every   *)
(* challenge can only come after it.                                       *)
Commit ==
    /\ stage = "begun" /\ stage' = "committed"
    /\ \E p \in Proofs :
        /\ proof' = [proof EXCEPT !.sent = p]
        /\ transcript' = [transcript EXCEPT !.prover =
                WriteCommitment(NewTranscript(version.prover), p)]
    /\ UNCHANGED <<version, statement, challenges>>

(* ZkProver::prove: the sumcheck on a clone, then its constraints, then the*)
(* proof about what was committed.  One that fails sends nothing.          *)
Prove ==
    /\ stage = "committed" /\ stage' = "proved"
    /\ LET begun == InitializeSumcheckFiatShamir(transcript.prover,
                                                 statement.prover)
           sumcheck == ProveSumcheck(Walk(Clone(begun)), proof.sent)
           constrained == VerifierConstraints(Walk(begun), proof.sent)
           proved == LigeroProve(constrained, proof.sent)
       IN  /\ transcript' = [transcript EXCEPT !.prover = proved.t]
           /\ challenges' = [challenges EXCEPT !.sumcheck = sumcheck.drew,
                                               !.prover = proved.drew]
    /\ UNCHANGED <<version, statement, proof>>

(* The verifier reads a proof, the one sent or one that differs somewhere, *)
(* and ZkVerifier::recv_commitment takes its root.                         *)
Altered(p) == {p} \cup {[p EXCEPT ![m] = v] : m \in Messages, v \in Values}

RecvCommitment ==
    /\ stage = "proved" /\ stage' = "received"
    /\ \E p \in Altered(proof.sent) :
        /\ proof' = [proof EXCEPT !.received = p]
        /\ transcript' = [transcript EXCEPT !.verifier =
                WriteCommitment(NewTranscript(version.verifier), p)]
    /\ UNCHANGED <<version, statement, challenges>>

(* ZkVerifier::verify.                                                     *)
Verify ==
    /\ stage = "received" /\ stage' = "verified"
    /\ LET begun == InitializeSumcheckFiatShamir(transcript.verifier,
                                                 statement.verifier)
           constrained == VerifierConstraints(Walk(begun), proof.received)
           verified == LigeroVerify(constrained, proof.received)
       IN  /\ transcript' = [transcript EXCEPT !.verifier = verified.t]
           /\ challenges' = [challenges EXCEPT !.verifier = verified.drew]
    /\ UNCHANGED <<version, statement, proof>>

Next == Commit \/ Prove \/ RecvCommitment \/ Verify

Spec == Init /\ [][Next]_vars

-----------------------------------------------------------------------------
(* What must have been said before a challenge is drawn, by the protocol:  *)
(* each layer's claims before the next layer, each round polynomial before *)
(* the point it is evaluated at, all responses before the columns to open. *)
LayersUpTo(n) == UNION {LayerMessages(ly) : ly \in LayerIds \cap (1..n)}

SaidBefore(name) ==
    {<<"root">>} \cup
    CASE name[1] \in {"Q", "G"} -> {}
      [] name[1] \in {"alpha", "beta"} -> LayersUpTo(name[2] - 1)
      [] name[1] = "hb" ->
            LayersUpTo(name[2] - 1) \cup
            UNION {RoundPoly(name[2], rh[1], rh[2]) :
                   rh \in {rh \in Rounds(name[2]) \X Hands :
                            2 * rh[1] + rh[2] <= 2 * name[3] + name[4]}}
      [] name[1] \in {"alpha_in", "u_ldt", "alphal", "alphaq", "u_quad"} ->
            LayersUpTo(Len(LogW))
      [] name[1] = "idx" -> Messages

SameDraw(a, b) == a.after = b.after /\ a.from = b.from

(* SPEC.md, Fiat-Shamir transcript: a challenge settles everything said    *)
(* before it.  Two sides that draw the same one, wherever in their         *)
(* protocol, are at the same point of it, about the same circuit and the   *)
(* same public inputs, and heard the same messages up to there.            *)
ChallengesSettleThePast ==
    \A i \in DOMAIN challenges.prover, j \in DOMAIN challenges.verifier :
        LET a == challenges.prover[i]
            b == challenges.verifier[j]
        IN  SameDraw(a, b) =>
                /\ a.name = b.name
                /\ statement.prover = statement.verifier
                /\ \A m \in SaidBefore(a.name) :
                        proof.sent[m] = proof.received[m]

(* zk_prover.h, "5. Simulate the verifier": the sumcheck on the clone and  *)
(* the constraints about it use the same challenges, one by one.           *)
SumcheckInLockStep == IsPrefix(challenges.sumcheck, challenges.prover)

(* A proof that arrives as sent, for the statement and the version it was  *)
(* made for, is checked with exactly the challenges it was made with.      *)
HonestProofReplays ==
    (/\ stage = "verified"
     /\ proof.received = proof.sent
     /\ statement.verifier = statement.prover
     /\ version.verifier = version.prover)
    => /\ challenges.verifier = challenges.prover
       /\ transcript.verifier = transcript.prover
=============================================================================

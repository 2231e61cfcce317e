------------------------------ MODULE Bindings ------------------------------
(***************************************************************************)
(* Applications that call the C ABI through the Go, Swift or WebAssembly   *)
(* binding: what is put into native memory, what the native call does with *)
(* it, what is copied out, and who frees what on which path.  ABI is the   *)
(* C ABI of module ApprovalProof.                                          *)
(*                                                                         *)
(* Callers share one process: goroutines, threads, or the one thread of a  *)
(* WebAssembly module.  Any allocation may fail, and the process may end   *)
(* at any time.                                                            *)
(***************************************************************************)
EXTENDS ApprovalTypes, BindingLayouts

CONSTANTS
    MalformedSig, ForgedSig, MaxSignatures, MaxProofs,  \* of ApprovalProof
    Callers,
    Signatures,         \* the signatures that were made
    Circuits,           \* circuit arguments, among ApprovalProof's
    Witnesses,          \* witnesses that callers hold
    Nothing             \* no argument of this kind

VARIABLES
    lang,      \* the binding in use
    pc,        \* where each caller is
    call,      \* what it asked for
    todo,      \* WebAssembly: buffers it has yet to allocate
    null,      \* WebAssembly: buffers malloc returned 0 for
    live,      \* native blocks of the present call
    code,      \* what the call will end with
    result,    \* what was copied out of native memory
    left,      \* blocks no call will free any more
    wild,      \* a block was read or freed that was not there
    spoiled,   \* WebAssembly: something was written through a null pointer
    proofs,    \* proofs the applications were given
    accepted   \* statements the applications were told are verified

process == <<lang, left, wild, spoiled>>
caller == <<pc, call, todo, null, live, code, result>>
vars == <<process, caller, proofs, accepted>>

ABI == INSTANCE ApprovalProof WITH signatures <- Signatures,
                                   proofs <- proofs, accepted <- accepted

(* Nobody passes a null pointer on purpose, and a witness is two messages  *)
(* of the lengths the bindings check, each with some signature.            *)
SigsFor(msg) ==
    {sig \in Signatures : sig.over = msg} \cup {MalformedSig, ForgedSig}

ASSUME CallerAssumption ==
    /\ Circuits \subseteq ABI!CircuitArgs \ {"null"}
    /\ \A w \in Witnesses : \E att \in AttestationMsgs, asr \in AssertionMsgs :
        /\ w \in [attestation: {att}, attestationSig: SigsFor(att),
                  assertion: {asr}, assertionSig: SigsFor(asr)]
        /\ att.len = AttestationLength /\ asr.len = ApprovalAssertionLength

(* MaxProofs is a bound of ApprovalProof's and none of the code's; here it *)
(* is out of the way.                                                      *)
ASSUME BoundAssumption ==
    /\ IsFiniteSet(Statements)
    /\ MaxProofs \in Nat
    /\ Cardinality(Statements) < MaxProofs

-----------------------------------------------------------------------------
(* Calls.  A proof argument is "bytes", "unreadable" or "empty".           *)

CallOf(op, circuit, st, w, proofArg, proof) ==
    [op |-> op, circuit |-> circuit, statement |-> st, witness |-> w,
     proofArg |-> proofArg, proof |-> proof]

NoProof == [circuit |-> "none", pub |-> <<>>]
NoCall == CallOf("none", "none", Nothing, Nothing, "none", NoProof)

Calls ==
    {CallOf("generate", "none", Nothing, Nothing, "none", NoProof)} \cup
    {CallOf("prove", c, st, w, "none", NoProof) :
        c \in Circuits, st \in Statements, w \in Witnesses} \cup
    {CallOf("verify", c, st, Nothing, "bytes", p) :
        c \in Circuits, st \in Statements, p \in proofs} \cup
    {CallOf("verify", c, st, Nothing, arg, NoProof) :
        c \in Circuits, st \in Statements, arg \in {"empty", "unreadable"}}
    \cup
    {CallOf("circuitId", c, Nothing, Nothing, "none", NoProof) :
        c \in Circuits}

(* The buffers a call needs in native memory before it can be made.  Go    *)
(* and Swift pass pointers into memory of their own.                       *)
InputsOf(op) ==
    CASE op = "prove" -> <<"circuit", "input">>
      [] op = "verify" -> <<"circuit", "statement", "proof">>
      [] op = "circuitId" -> <<"circuit">>
      [] OTHER -> <<>>

CellsOf(op) ==
    CASE op \in {"generate", "prove"} -> <<"outPtr", "outLen">>
      [] op = "circuitId" -> <<"id">>
      [] OTHER -> <<>>

BuffersOf(op) ==
    IF lang = "wasm" THEN InputsOf(op) \o CellsOf(op) ELSE <<>>

Elements(s) == {s[i] : i \in DOMAIN s}

(* What an allocating call returns, it returns in a block of its own.      *)
ReturnsBlock(op) == op \in {"generate", "prove"}
Copies(op) == ReturnsBlock(op) \/ (lang = "wasm" /\ op = "circuitId")

EmptyRoles(k) ==
    {r \in {"circuit", "proof"} : \/ r = "circuit" /\ k.circuit = "empty"
                                  \/ r = "proof" /\ k.proofArg = "empty"}

-----------------------------------------------------------------------------
(* The native call.                                                        *)

(* bytePtr is nil for an empty slice; a failed malloc is a null pointer.   *)
NullPointers(c) ==
    null[c] \cup (IF lang = "go" THEN EmptyRoles(call[c]) ELSE {})

GenerateChecksTrusting(out, mallocOk) ==
    <<ABI!Check(~mallocOk, "MEMORY_ALLOCATION_FAILURE")>>

GenerateChecks(out, mallocOk) ==
    <<ABI!Check(out = "null", "NULL_INPUT"),
      ABI!Check(~mallocOk, "MEMORY_ALLOCATION_FAILURE")>>

(* "nulls" are the buffers whose pointer is null.                          *)
NativeChecks(k, st, w, nulls, mallocOk) ==
    LET or(role, value) == IF role \in nulls THEN "null" ELSE value
        out == or("outPtr", or("outLen", "ok"))
    IN  CASE k.op = "generate" -> GenerateChecks(out, mallocOk)
          [] k.op = "prove" ->
                ABI!ProverChecks(
                    [circuit |-> or("circuit", k.circuit), out |-> out,
                     input |-> or("input", "bytes"), statement |-> st,
                     witness |-> w, mallocOk |-> mallocOk])
          [] k.op = "verify" ->
                ABI!VerifierChecks(
                    [circuit |-> or("circuit", k.circuit),
                     input |-> or("statement", "bytes"), statement |-> st,
                     proofArg |-> or("proof", k.proofArg),
                     proof |-> k.proof])
          [] k.op = "circuitId" ->
                ABI!CircuitIdChecks(or("id", or("circuit", k.circuit)))

(* The call as the native side reads it out of the binding's bytes.        *)
Received(k) ==
    CASE k.op = "prove" -> ReadProverInput(lang, k.statement, k.witness)
      [] k.op = "verify" ->
            [statement |-> ReadStatement(lang, k.statement),
             witness |-> Nothing]
      [] OTHER -> [statement |-> Nothing, witness |-> Nothing]

Checks(c, got, mallocOk) ==
    NativeChecks(call[c], got.statement, got.witness, NullPointers(c),
                 mallocOk)

(* What the C ABI answers to the same arguments without a binding.         *)
DirectAnswer(k) ==
    ABI!ResultCode(NativeChecks(k, k.statement, k.witness, {}, TRUE))

(* The codes of the checks made before anything is allocated.              *)
EarlyCodes == {"NULL_INPUT", "INVALID_INPUT", "INPUT_TOO_LARGE"}

(* What the block of a successful call holds.                              *)
BlockContent(k) ==
    IF k.op = "prove"
    THEN ABI!Proof(k.circuit, ABI!FillPublicInputs(Received(k).statement))
    ELSE NoProof

-----------------------------------------------------------------------------
Idle == [c \in Callers |-> "idle"]

Init ==
    /\ lang \in Langs
    /\ pc = Idle
    /\ call = [c \in Callers |-> NoCall]
    /\ todo = [c \in Callers |-> <<>>]
    /\ null = [c \in Callers |-> {}]
    /\ live = [c \in Callers |-> {}]
    /\ code = [c \in Callers |-> "none"]
    /\ result = [c \in Callers |-> NoProof]
    /\ left = {}
    /\ wild = FALSE
    /\ spoiled = FALSE
    /\ proofs = {}
    /\ accepted = {}

Goto(c, where) == pc' = [pc EXCEPT ![c] = where]

(* A process may end at any time, or a page be left and loaded again; what *)
(* it held in native memory goes with it.                                  *)
ProcessEnds ==
    /\ pc' = Idle
    /\ call' = [c \in Callers |-> NoCall]
    /\ todo' = [c \in Callers |-> <<>>]
    /\ null' = [c \in Callers |-> {}]
    /\ live' = [c \in Callers |-> {}]
    /\ code' = [c \in Callers |-> "none"]
    /\ result' = [c \in Callers |-> NoProof]
    /\ left' = {}
    /\ wild' = FALSE
    /\ spoiled' = FALSE
    /\ UNCHANGED <<lang, proofs, accepted>>

(* Someone makes a call.  A WebAssembly module has one thread, and its     *)
(* functions run to their end once they have begun.                        *)
Start(c) ==
    /\ pc[c] = "idle"
    /\ lang = "wasm" => pc = Idle
    /\ \E k \in Calls :
        /\ call' = [call EXCEPT ![c] = k]
        /\ todo' = [todo EXCEPT ![c] = BuffersOf(k.op)]
        /\ Goto(c, IF BuffersOf(k.op) = <<>> THEN "native" ELSE "marshal")
    /\ UNCHANGED <<process, null, live, code, result, proofs, accepted>>

RemainingRetriedLater(buffers, failed) ==
    IF failed THEN Tail(buffers) \o <<Head(buffers)>> ELSE Tail(buffers)

Remaining(buffers, failed) == Tail(buffers)

(* WebAssembly: malloc, and the copy of an input to where it points.       *)
Malloc(c) ==
    LET rest == Remaining(todo[c], FALSE) IN
    /\ pc[c] = "marshal"
    /\ todo' = [todo EXCEPT ![c] = rest]
    /\ live' = [live EXCEPT ![c] = @ \cup {Head(todo[c])}]
    /\ Goto(c, IF rest = <<>> THEN "native" ELSE "marshal")
    /\ UNCHANGED <<process, call, null, code, result, proofs, accepted>>

InputsWithBytes(k) == Elements(InputsOf(k.op)) \ EmptyRoles(k)

(* There is no memory: malloc returns 0, and nobody looks.  The bytes of an*)
(* input go to address 0, over whatever the module keeps there, unless it  *)
(* is longer than the whole of HEAPU8 and set() throws a RangeError.       *)
MallocFails(c) ==
    LET role == Head(todo[c])
        rest == Remaining(todo[c], TRUE)
        hasBytes == role \in InputsWithBytes(call[c])
    IN  /\ pc[c] = "marshal"
        /\ todo' = [todo EXCEPT ![c] = rest]
        /\ null' = [null EXCEPT ![c] = @ \cup {role}]
        /\ \/ /\ spoiled' = hasBytes
              /\ Goto(c, IF rest = <<>> THEN "native" ELSE "marshal")
              /\ UNCHANGED code
           \/ /\ hasBytes
              /\ code' = [code EXCEPT ![c] = "thrown"]
              /\ Goto(c, "finish")
              /\ UNCHANGED spoiled
        /\ UNCHANGED <<lang, left, wild, call, live, result, proofs, accepted>>

(* What follows a successful native call: the copy is made before the block*)
(* is freed.                                                               *)
StageAfterFreeingFirst(stage, op) ==
    CASE stage = "native" -> IF ReturnsBlock(op) THEN "release"
                             ELSE IF Copies(op) THEN "copy" ELSE "finish"
      [] stage = "release" -> "copy"
      [] stage = "copy" -> "finish"

StageAfter(stage, op) ==
    CASE stage = "native" -> IF Copies(op) THEN "copy" ELSE "finish"
      [] stage = "copy" -> IF ReturnsBlock(op) THEN "release" ELSE "finish"
      [] stage = "release" -> "finish"

(* The native call returns; on success it may have made a block.           *)
NativeReturns(c) ==
    /\ pc[c] = "native"
    /\ \E mallocOk \in BOOLEAN, got \in {Received(call[c])} :
       \E checks \in {Checks(c, got, mallocOk)} :
        /\ code' = [code EXCEPT ![c] = ABI!ResultCode(checks)]
        /\ IF ABI!Succeeds(checks)
           THEN /\ live' = [live EXCEPT ![c] =
                                @ \cup (IF ReturnsBlock(call[c].op)
                                        THEN {"out"} ELSE {})]
                /\ Goto(c, StageAfter("native", call[c].op))
           ELSE Goto(c, "finish") /\ UNCHANGED live
    /\ UNCHANGED <<process, call, todo, null, result, proofs, accepted>>

(* operator new finds no memory, or the parser meets what it aborts on:    *)
(* the process ends, or WebAssembly unwinds without running destructors.   *)
NativeAborts(c) ==
    /\ pc[c] = "native"
    /\ \E got \in {Received(call[c])} : \E checks \in {Checks(c, got, TRUE)} :
        ABI!ResultCode(checks) \notin EarlyCodes
    /\ \/ /\ lang = "wasm"
          /\ code' = [code EXCEPT ![c] = "trap"]
          /\ live' = [live EXCEPT ![c] = @ \cup {"temporaries"}]
          /\ Goto(c, "finish")
          /\ UNCHANGED <<process, call, todo, null, result, proofs, accepted>>
       \/ lang # "wasm" /\ ProcessEnds

(* GoBytes, Data(bytes:count:), HEAPU8.slice: an application that has no   *)
(* memory for the copy ends, or in JavaScript throws a RangeError.         *)
CopyOut(c) ==
    LET k == call[c]
        source == IF ReturnsBlock(k.op) THEN "out" ELSE "id"
    IN  /\ pc[c] = "copy"
        /\ result' = [result EXCEPT ![c] = BlockContent(k)]
        /\ wild' = (wild \/ source \notin live[c])
        /\ Goto(c, StageAfter("copy", k.op))
        /\ UNCHANGED <<lang, left, spoiled, call, todo, null, live, code,
                       proofs, accepted>>

CopyFails(c) ==
    /\ pc[c] = "copy"
    /\ \/ /\ lang = "wasm"
          /\ code' = [code EXCEPT ![c] = "copy failed"]
          /\ Goto(c, "finish")
          /\ UNCHANGED <<process, call, todo, null, live, result, proofs,
                         accepted>>
       \/ lang # "wasm" /\ ProcessEnds

(* approval_proof_v1_free.                                                 *)
Release(c) ==
    /\ pc[c] = "release"
    /\ live' = [live EXCEPT ![c] = @ \ {"out"}]
    /\ wild' = (wild \/ "out" \notin live[c])
    /\ Goto(c, StageAfter("release", call[c].op))
    /\ UNCHANGED <<lang, left, spoiled, call, todo, null, code, result,
                   proofs, accepted>>

FreedAtTheEndButOne(c) ==
    Elements(InputsOf(call[c].op)) \ (null[c] \cup Elements(todo[c]))

(* The finally blocks of the buffers the call got to; free(0) does nothing.*)
FreedAtTheEnd(c) ==
    Elements(BuffersOf(call[c].op)) \ (null[c] \cup Elements(todo[c]))

(* The call ends, and the caller has its answer (what a spoiled module     *)
(* said is not recorded).                                                  *)
Finish(c) ==
    LET k == call[c]
        succeeded(op) == k.op = op /\ code[c] = "SUCCESS" /\ ~spoiled
    IN  /\ pc[c] = "finish"
        /\ wild' = (wild \/ ~(FreedAtTheEnd(c) \subseteq live[c]))
        /\ left' = left \cup (live[c] \ FreedAtTheEnd(c))
        /\ proofs' = proofs \cup
                        {p \in {result[c]} : succeeded("prove")}
        /\ accepted' = accepted \cup
                        {st \in {k.statement} : succeeded("verify")}
        /\ Goto(c, "idle")
        /\ call' = [call EXCEPT ![c] = NoCall]
        /\ todo' = [todo EXCEPT ![c] = <<>>]
        /\ null' = [null EXCEPT ![c] = {}]
        /\ live' = [live EXCEPT ![c] = {}]
        /\ code' = [code EXCEPT ![c] = "none"]
        /\ result' = [result EXCEPT ![c] = NoProof]
        /\ UNCHANGED <<lang, spoiled>>

(* A module that has overwritten its own memory: malloc, the native call,  *)
(* free and the text of an error do anything, so that the very call that   *)
(* overwrote it, or a later one, ends with any answer, traps or throws.    *)
AnythingHappens(c) ==
    /\ pc[c] \notin {"idle", "finish"}
    /\ \E answer \in Codes(call[c].op) \cup {"unknown", "trap", "thrown"} :
            code' = [code EXCEPT ![c] = answer]
    /\ Goto(c, "finish")
    /\ UNCHANGED <<process, call, todo, null, live, result, proofs, accepted>>

GoesOn(c) ==
    \/ Malloc(c)
    \/ MallocFails(c)
    \/ NativeReturns(c)
    \/ NativeAborts(c)
    \/ CopyOut(c)
    \/ CopyFails(c)
    \/ Release(c)
    \/ Finish(c)

Step(c) ==
    \/ ~spoiled /\ GoesOn(c)
    \/ spoiled /\ (AnythingHappens(c) \/ Finish(c))

Next == ProcessEnds \/ \E c \in Callers : Start(c) \/ Step(c)

(* A call that has begun goes on: its thread is scheduled, and the native  *)
(* code's loops are bounded, as long as its memory is its own.  Nobody has *)
(* to make a call.  A step always changes one of these two.                *)
Fairness == \A c \in Callers : WF_<<pc, todo>>(~spoiled /\ GoesOn(c))

Spec == Init /\ [][Next]_vars /\ Fairness

-----------------------------------------------------------------------------
Roles ==
    {"circuit", "input", "statement", "proof", "outPtr", "outLen", "id",
     "out", "temporaries"}

TypeOK ==
    /\ lang \in Langs
    /\ pc \in [Callers -> {"idle", "marshal", "native", "copy", "release",
                            "finish"}]
    /\ null \in [Callers -> SUBSET Roles]
    /\ live \in [Callers -> SUBSET Roles]
    /\ left \subseteq Roles
    /\ wild \in BOOLEAN
    /\ spoiled \in BOOLEAN

(* bindings/*: whichever way a call ends, its native buffers are freed.    *)
(* Two ways out of WebAssembly leave a block behind: a copy that throws    *)
(* skips approval_proof_v1_free, and an abort runs no destructors.         *)
BuffersFreed ==
    /\ lang # "wasm" => left = {}
    /\ ~spoiled =>
        /\ left \subseteq {"out", "temporaries"}
        /\ \A c \in Callers : pc[c] = "finish" =>
            /\ "out" \in live[c] => code[c] = "copy failed"
            /\ "temporaries" \in live[c] => code[c] = "trap"

(* No path frees a buffer twice, frees a pointer that was never set, or    *)
(* copies a result out of a buffer it has freed.                           *)
OnlyLiveBlocksTouched == wild => spoiled

(* The same call gives the same answer in every language, and under the    *)
(* same name: what the C ABI says to the same bytes.  One exception, which *)
(* is what cgo.go's bytePtr makes of an empty slice.                       *)
AnswersLikeTheCAbi ==
    \A c \in Callers :
        LET k == call[c] IN
        (/\ pc[c] = "finish"
         /\ ~spoiled
         /\ null[c] = {}
         /\ code[c] \in Codes(k.op) \ {"MEMORY_ALLOCATION_FAILURE"})
        =>
        /\ NameInBinding(lang, k.op, code[c]) =
                IF lang = "go" /\ EmptyRoles(k) # {} THEN "NULL_INPUT"
                ELSE DirectAnswer(k)
        /\ \A other \in Codes(k.op) \ {code[c]} :
                ErrorString(k.op, other) # ErrorString(k.op, code[c])

(* index.ts never checks what malloc returns.  As long as that overwrote   *)
(* nothing, the call still does not pass for an answer about its arguments:*)
(* it threw, or the native side found the null pointer before all else.    *)
FailedMallocIsReported ==
    \A c \in Callers :
        (pc[c] = "finish" /\ null[c] # {} /\ ~spoiled) =>
            code[c] = IF null[c] \cap InputsWithBytes(call[c]) # {}
                      THEN "thrown" ELSE "NULL_INPUT"

(* Each binding implements the C ABI of ApprovalProof: the proofs and the  *)
(* verdicts applications obtain are those of one call of the prover or the *)
(* verifier with the caller's own arguments, and nothing else shows.       *)
ImplementsTheCAbi ==
    [][/\ <<proofs, accepted>>' # <<proofs, accepted>>
       /\ ABI!RunProver \/ ABI!RunVerifier]_<<proofs, accepted>>

(* Every call ends, if only with its process.  Of a module that overwrote  *)
(* its memory nothing is known, not even that.                             *)
EveryCallEnds ==
    \A c \in Callers : pc[c] # "idle" ~> (pc[c] = "idle" \/ spoiled)
=============================================================================

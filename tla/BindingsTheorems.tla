-------------------------- MODULE BindingsTheorems --------------------------
(***************************************************************************)
(* For any number of callers and any arguments: who owns which block of    *)
(* native memory at every point of a call, whatever fails; what            *)
(* applications obtain is what the C ABI gives; and so is what they are    *)
(* told.                                                                   *)
(***************************************************************************)
EXTENDS Bindings, TLAPS, FiniteSetTheorems, WellFoundedInduction

Ops == {"none", "generate", "prove", "verify", "circuitId"}

(* The buffers of an operation in a WebAssembly module.                    *)
Needs(op) ==
    CASE op = "generate" -> {"outPtr", "outLen"}
      [] op = "prove" -> {"circuit", "input", "outPtr", "outLen"}
      [] op = "verify" -> {"circuit", "statement", "proof"}
      [] op = "circuitId" -> {"circuit", "id"}
      [] OTHER -> {}

Distinct(s) == \A i, j \in DOMAIN s : s[i] = s[j] => i = j

LEMMA Joined ==
    ASSUME NEW s \in Seq(Roles), NEW t \in Seq(Roles),
           Distinct(s), Distinct(t), Elements(s) \cap Elements(t) = {}
    PROVE  /\ s \o t \in Seq(Roles)
           /\ Distinct(s \o t)
           /\ Elements(s \o t) = Elements(s) \cup Elements(t)
<1> DEFINE m == Len(s)
           n == Len(t)
<1>1. /\ m \in Nat /\ n \in Nat
      /\ DOMAIN s = 1..m /\ DOMAIN t = 1..n
      /\ s \o t \in Seq(Roles) /\ DOMAIN (s \o t) = 1..m + n
      /\ \A i \in 1..m : (s \o t)[i] = s[i]
      /\ \A i \in m + 1..m + n : i - m \in 1..n /\ (s \o t)[i] = t[i - m]
  OBVIOUS
<1> HIDE DEF m, n
<1>2. \A i \in 1..m + n : i \in 1..m \/ i \in m + 1..m + n
  BY <1>1
<1>3. \A i \in 1..n : i + m \in m + 1..m + n /\ (i + m) - m = i
  BY <1>1
<1>4. Elements(s \o t) = Elements(s) \cup Elements(t)
  <2>1. ASSUME NEW i \in 1..m + n
        PROVE  (s \o t)[i] \in Elements(s) \cup Elements(t)
    <3>1. CASE i \in 1..m
      BY <1>1, <3>1 DEF Elements
    <3>2. CASE i \in m + 1..m + n
      BY <1>1, <3>2 DEF Elements
    <3> QED  BY <1>2, <3>1, <3>2
  <2>2. Elements(s) \subseteq Elements(s \o t)
    BY <1>1 DEF Elements
  <2>3. ASSUME NEW i \in 1..n
        PROVE  t[i] \in Elements(s \o t)
    <3>1. t[i] = (s \o t)[i + m] /\ i + m \in 1..m + n
      BY <1>1, <1>3
    <3> QED  BY <1>1, <3>1 DEF Elements
  <2>4. Elements(s \o t) \subseteq Elements(s) \cup Elements(t)
    BY <1>1, <2>1 DEF Elements
  <2>5. Elements(t) \subseteq Elements(s \o t)
    BY <1>1, <2>3 DEF Elements
  <2> QED  BY <2>2, <2>4, <2>5
<1>5. Distinct(s \o t)
  <2> SUFFICES ASSUME NEW i \in 1..m + n, NEW j \in 1..m + n,
                      (s \o t)[i] = (s \o t)[j]
               PROVE  i = j
    BY <1>1 DEF Distinct
  <2>1. CASE i \in 1..m /\ j \in 1..m
    BY <1>1, <2>1 DEF Distinct
  <2>2. CASE i \in m + 1..m + n /\ j \in m + 1..m + n
    <3>1. /\ i - m \in 1..n /\ j - m \in 1..n
          /\ t[i - m] = t[j - m]
      BY <1>1, <2>2
    <3>2. i - m = j - m
      BY <1>1, <3>1 DEF Distinct
    <3> QED  BY <1>1, <3>2
  <2>3. CASE i \in 1..m /\ j \in m + 1..m + n
    BY <1>1, <2>3 DEF Elements
  <2>4. CASE i \in m + 1..m + n /\ j \in 1..m
    BY <1>1, <2>4 DEF Elements
  <2> QED  BY <1>2, <2>1, <2>2, <2>3, <2>4
<1> QED  BY <1>1, <1>4, <1>5

LEMMA BufferList ==
    ASSUME lang = "wasm", NEW op \in Ops
    PROVE  /\ BuffersOf(op) \in Seq(Roles)
           /\ Distinct(BuffersOf(op))
           /\ Elements(BuffersOf(op)) = Needs(op)
<1>1. /\ InputsOf(op) \in Seq(Roles)
      /\ CellsOf(op) \in Seq(Roles)
  <2>1. /\ <<>> \in Seq(Roles) /\ <<"circuit">> \in Seq(Roles)
        /\ <<"id">> \in Seq(Roles) /\ <<"circuit", "input">> \in Seq(Roles)
        /\ <<"outPtr", "outLen">> \in Seq(Roles)
    BY DEF Roles
  <2>2. <<"circuit", "statement", "proof">> \in Seq(Roles)
    BY DEF Roles
  <2> QED  BY <2>1, <2>2 DEF InputsOf, CellsOf
<1>2. /\ DOMAIN InputsOf(op) = IF op = "prove" THEN 1..2
                               ELSE IF op = "verify" THEN 1..3
                               ELSE IF op = "circuitId" THEN 1..1 ELSE {}
      /\ DOMAIN CellsOf(op) = IF op \in {"generate", "prove"} THEN 1..2
                              ELSE IF op = "circuitId" THEN 1..1 ELSE {}
  BY DEF InputsOf, CellsOf
<1>3. Distinct(InputsOf(op)) /\ Distinct(CellsOf(op))
  BY <1>2 DEF Distinct, InputsOf, CellsOf
<1>4. /\ Elements(InputsOf(op)) =
            CASE op = "prove" -> {"circuit", "input"}
              [] op = "verify" -> {"circuit", "statement", "proof"}
              [] op = "circuitId" -> {"circuit"}
              [] OTHER -> {}
      /\ Elements(CellsOf(op)) =
            CASE op \in {"generate", "prove"} -> {"outPtr", "outLen"}
              [] op = "circuitId" -> {"id"}
              [] OTHER -> {}
  BY <1>2 DEF Elements, InputsOf, CellsOf
<1>5. /\ Elements(InputsOf(op)) \cap Elements(CellsOf(op)) = {}
      /\ Elements(InputsOf(op)) \cup Elements(CellsOf(op)) = Needs(op)
  BY <1>4 DEF Needs, Ops
<1>6. BuffersOf(op) = InputsOf(op) \o CellsOf(op)
  BY DEF BuffersOf
<1> QED  BY <1>1, <1>3, <1>5, <1>6, Joined

(* Taking the first of a list of distinct buffers.                         *)
LEMMA HeadAndTail ==
    ASSUME NEW s \in Seq(Roles), s # <<>>, Distinct(s)
    PROVE  /\ Tail(s) \in Seq(Roles) /\ Distinct(Tail(s))
           /\ Head(s) \in Roles
           /\ Head(s) \notin Elements(Tail(s))
           /\ Elements(s) = {Head(s)} \cup Elements(Tail(s))
<1>1. /\ Len(s) \in Nat /\ Len(s) >= 1
      /\ \A i \in 1..Len(s) : s[i] \in Roles
      /\ Tail(s) \in Seq(Roles) /\ Len(Tail(s)) = Len(s) - 1
      /\ \A i \in 1..Len(s) - 1 : Tail(s)[i] = s[i + 1]
      /\ Head(s) = s[1]
  OBVIOUS
<1>2. DOMAIN s = 1..Len(s) /\ DOMAIN Tail(s) = 1..Len(s) - 1
  BY <1>1
<1>3. \A i \in 1..Len(s) :
        i = 1 \/ (i - 1 \in 1..Len(s) - 1 /\ s[i] = Tail(s)[i - 1])
  <2>1. \A i \in 1..Len(s) :
            i = 1 \/ (i - 1 \in 1..Len(s) - 1 /\ (i - 1) + 1 = i)
    BY <1>1
  <2> QED  BY <1>1, <2>1
<1>4. /\ Distinct(Tail(s))
      /\ Head(s) \notin Elements(Tail(s))
  <2>1. /\ \A i \in 1..Len(s) - 1 : i + 1 \in 1..Len(s) /\ i + 1 # 1
        /\ 1 \in 1..Len(s)
    BY <1>1
  <2>2. Head(s) \notin Elements(Tail(s))
    BY <1>1, <1>2, <2>1 DEF Distinct, Elements
  <2>3. Distinct(Tail(s))
    BY <1>1, <1>2, <2>1 DEF Distinct
  <2> QED  BY <2>2, <2>3
<1>5. Elements(s) \subseteq {Head(s)} \cup Elements(Tail(s))
  <2>1. \A i \in 1..Len(s) : s[i] \in {Head(s)} \cup Elements(Tail(s))
    BY <1>1, <1>2, <1>3 DEF Elements
  <2> QED  BY <1>2, <2>1 DEF Elements
<1>6. {Head(s)} \cup Elements(Tail(s)) \subseteq Elements(s)
  BY <1>1, <1>2 DEF Elements
<1>7. QED  BY <1>1, <1>4, <1>5, <1>6

-----------------------------------------------------------------------------
(* What the native code says of null pointers.                             *)

LEMMA FirstFailure ==
    ASSUME NEW checks, DOMAIN checks \subseteq Nat,
           NEW i \in DOMAIN checks, checks[i].fails,
           \A j \in DOMAIN checks : checks[j].fails => i <= j
    PROVE  ~ABI!Succeeds(checks) /\ ABI!ResultCode(checks) = checks[i].code
<1> DEFINE failing == {j \in DOMAIN checks : checks[j].fails}
<1>1. i \in failing /\ \A j \in failing : i <= j /\ j \in Nat /\ i \in Nat
  OBVIOUS
<1>2. ABI!Min(failing) = i
  BY <1>1 DEF ABI!Min
<1>3. ~ABI!Succeeds(checks)
  BY DEF ABI!Succeeds
<1> QED  BY <1>2, <1>3 DEF ABI!ResultCode

(* The first failing check of a list that fails: Min is well defined.      *)
LEMMA FirstIsThere ==
    ASSUME NEW checks, DOMAIN checks \subseteq Nat, ~ABI!Succeeds(checks)
    PROVE  \E i \in DOMAIN checks :
              /\ checks[i].fails
              /\ \A j \in DOMAIN checks : checks[j].fails => i <= j
<1> DEFINE failing == {i \in DOMAIN checks : checks[i].fails}
<1>1. failing # {} /\ failing \subseteq Nat
  BY DEF ABI!Succeeds
<1>2. PICK i \in failing : \A j \in failing : ~(<<j, i>> \in OpToRel(<, Nat))
  BY <1>1, WFMin, NatLessThanWellFounded
<1>3. \A j \in failing : i <= j
  <2>1. \A j \in failing : ~(j < i)
    BY <1>1, <1>2 DEF OpToRel
  <2> HIDE DEF failing
  <2> QED  BY <1>1, <2>1
<1> QED  BY <1>3

(* A buffer that malloc had no memory for is refused before all else.      *)
LEMMA NullIsReported ==
    ASSUME NEW k, k.op \in Ops \ {"none"}, NEW st, NEW w, NEW nulls,
           NEW mallocOk \in BOOLEAN, nulls \subseteq Needs(k.op), nulls # {}
    PROVE  LET checks == NativeChecks(k, st, w, nulls, mallocOk) IN
           ~ABI!Succeeds(checks) /\ ABI!ResultCode(checks) = "NULL_INPUT"
<1> DEFINE checks == NativeChecks(k, st, w, nulls, mallocOk)
           or(role, value) == IF role \in nulls THEN "null" ELSE value
           out == or("outPtr", or("outLen", "ok"))
<1>1. CASE k.op = "generate"
  <2>1. out = "null"
    BY <1>1 DEF Needs
  <2>2. checks = GenerateChecks(out, mallocOk)
    BY <1>1 DEF NativeChecks
  <2> HIDE DEF out
  <2>3. /\ DOMAIN checks = 1..2 /\ checks[1].fails = (out = "null")
        /\ checks[1].code = "NULL_INPUT"
    BY <2>2 DEF GenerateChecks, ABI!Check
  <2> HIDE DEF checks
  <2>4. /\ DOMAIN checks \subseteq Nat /\ 1 \in DOMAIN checks
        /\ \A j \in DOMAIN checks : checks[j].fails => 1 <= j
    BY <2>3
  <2> QED  BY <2>1, <2>3, <2>4, FirstFailure DEF checks
<1>2. CASE k.op = "prove"
  <2> DEFINE c == [circuit |-> or("circuit", k.circuit), out |-> out,
                   input |-> or("input", "bytes"), statement |-> st,
                   witness |-> w, mallocOk |-> mallocOk]
  <2>1. checks = ABI!ProverChecks(c)
    BY <1>2 DEF NativeChecks
  <2>2. c.input = "null" \/ (c.input = "bytes" /\ (c.circuit = "null" \/ c.out = "null"))
    BY <1>2 DEF Needs
  <2> HIDE DEF c
  <2>3. /\ DOMAIN checks = 1..12
        /\ checks[1].fails = (c.input = "null")
        /\ checks[2].fails = (c.input = "wrong_length")
        /\ checks[3].fails = (c.circuit = "null" \/ c.out = "null")
        /\ checks[1].code = "NULL_INPUT" /\ checks[3].code = "NULL_INPUT"
    BY <2>1 DEF ABI!ProverChecks, ABI!Check
  <2> HIDE DEF checks
  <2>4. CASE c.input = "null"
    <3>1. /\ DOMAIN checks \subseteq Nat /\ 1 \in DOMAIN checks
          /\ \A j \in DOMAIN checks : checks[j].fails => 1 <= j
      BY <2>3
    <3> QED  BY <2>3, <2>4, <3>1, FirstFailure DEF checks
  <2>5. CASE c.input = "bytes" /\ (c.circuit = "null" \/ c.out = "null")
    <3>1. ~checks[1].fails /\ ~checks[2].fails /\ checks[3].fails
      BY <2>3, <2>5
    <3>2. /\ DOMAIN checks \subseteq Nat /\ 3 \in DOMAIN checks
          /\ \A j \in DOMAIN checks : j = 1 \/ j = 2 \/ 3 <= j
      BY <2>3
    <3>3. \A j \in DOMAIN checks : checks[j].fails => 3 <= j
      BY <3>1, <3>2
    <3> QED  BY <2>3, <3>1, <3>2, <3>3, FirstFailure DEF checks
  <2> QED  BY <2>2, <2>4, <2>5
<1>3. CASE k.op = "verify"
  <2> DEFINE c == [circuit |-> or("circuit", k.circuit),
                   input |-> or("statement", "bytes"), statement |-> st,
                   proofArg |-> or("proof", k.proofArg), proof |-> k.proof]
  <2>1. checks = ABI!VerifierChecks(c)
    BY <1>3 DEF NativeChecks
  <2>2. c.input = "null" \/ (c.input = "bytes" /\ (c.circuit = "null" \/ c.proofArg = "null"))
    BY <1>3 DEF Needs
  <2> HIDE DEF c
  <2>3. /\ DOMAIN checks = 1..10
        /\ checks[1].fails = (c.input = "null")
        /\ checks[2].fails = (c.input = "wrong_length")
        /\ checks[3].fails = (c.circuit = "null" \/ c.proofArg = "null")
        /\ checks[1].code = "NULL_INPUT" /\ checks[3].code = "NULL_INPUT"
    BY <2>1 DEF ABI!VerifierChecks, ABI!Check
  <2> HIDE DEF checks
  <2>4. CASE c.input = "null"
    <3>1. /\ DOMAIN checks \subseteq Nat /\ 1 \in DOMAIN checks
          /\ \A j \in DOMAIN checks : checks[j].fails => 1 <= j
      BY <2>3
    <3> QED  BY <2>3, <2>4, <3>1, FirstFailure DEF checks
  <2>5. CASE c.input = "bytes" /\ (c.circuit = "null" \/ c.proofArg = "null")
    <3>1. ~checks[1].fails /\ ~checks[2].fails /\ checks[3].fails
      BY <2>3, <2>5
    <3>2. /\ DOMAIN checks \subseteq Nat /\ 3 \in DOMAIN checks
          /\ \A j \in DOMAIN checks : j = 1 \/ j = 2 \/ 3 <= j
      BY <2>3
    <3>3. \A j \in DOMAIN checks : checks[j].fails => 3 <= j
      BY <3>1, <3>2
    <3> QED  BY <2>3, <3>1, <3>2, <3>3, FirstFailure DEF checks
  <2> QED  BY <2>2, <2>4, <2>5
<1>4. CASE k.op = "circuitId"
  <2> DEFINE circuit == or("id", or("circuit", k.circuit))
  <2>1. checks = ABI!CircuitIdChecks(circuit)
    BY <1>4 DEF NativeChecks
  <2>2. circuit = "null"
    BY <1>4 DEF Needs
  <2> HIDE DEF circuit
  <2>3. /\ DOMAIN checks = 1..4 /\ checks[1].fails = (circuit = "null")
        /\ checks[1].code = "NULL_INPUT"
    BY <2>1 DEF ABI!CircuitIdChecks, ABI!Check
  <2> HIDE DEF checks
  <2>4. /\ DOMAIN checks \subseteq Nat /\ 1 \in DOMAIN checks
        /\ \A j \in DOMAIN checks : checks[j].fails => 1 <= j
    BY <2>3
  <2> QED  BY <2>2, <2>3, <2>4, FirstFailure DEF checks
<1> QED  BY <1>1, <1>2, <1>3, <1>4 DEF Ops

-----------------------------------------------------------------------------
(* The inductive invariant: which blocks a call owns at each of its steps. *)

Owned(c) ==
    IF lang = "wasm"
    THEN Needs(call[c].op) \ (null[c] \cup Elements(todo[c])) ELSE {}

(* What holds whatever was overwritten.                                    *)
OnItsWay(c) ==
    /\ call[c].op \in Ops
    /\ todo[c] \in Seq(Roles) /\ Distinct(todo[c])
    /\ Elements(todo[c]) \subseteq Needs(call[c].op) \ null[c]
    /\ pc[c] = "idle" => null[c] = {}
    /\ pc[c] # "idle" => call[c].op # "none"
    /\ null[c] # {} => lang = "wasm" /\ null[c] \subseteq Needs(call[c].op)
    /\ pc[c] = "marshal" => lang = "wasm" /\ todo[c] # <<>>
    /\ pc[c] = "native" => todo[c] = <<>>
    /\ pc[c] = "copy" =>
        null[c] = {} /\ todo[c] = <<>> /\ Copies(call[c].op)
    /\ pc[c] = "release" =>
        null[c] = {} /\ todo[c] = <<>> /\ ReturnsBlock(call[c].op)

OutBlock(c) == IF ReturnsBlock(call[c].op) THEN {"out"} ELSE {}

(* What holds as long as the module's memory is its own.                   *)
Accounted(c) ==
    /\ pc[c] = "idle" => live[c] = {}
    /\ pc[c] \in {"marshal", "native"} =>
        live[c] = Owned(c) /\ null[c] \cap InputsWithBytes(call[c]) = {}
    /\ pc[c] = "copy" => live[c] = Owned(c) \cup OutBlock(c)
    /\ pc[c] = "release" => live[c] = Owned(c) \cup {"out"}
    /\ pc[c] = "finish" =>
        /\ Owned(c) \subseteq live[c]
        /\ live[c] \ Owned(c) \subseteq
                IF lang = "wasm" THEN {"out", "temporaries"} ELSE {}
        /\ "out" \in live[c] => code[c] = "copy failed"
        /\ "temporaries" \in live[c] => code[c] = "trap"
        /\ null[c] # {} =>
            code[c] = IF null[c] \cap InputsWithBytes(call[c]) # {}
                      THEN "thrown" ELSE "NULL_INPUT"

IInv ==
    /\ TypeOK
    /\ DOMAIN call = Callers /\ DOMAIN todo = Callers /\ DOMAIN code = Callers
    /\ lang # "wasm" => ~spoiled /\ left = {}
    /\ wild => spoiled
    /\ ~spoiled => left \subseteq {"out", "temporaries"}
    /\ \A c \in Callers : OnItsWay(c) /\ (~spoiled => Accounted(c))

-----------------------------------------------------------------------------
LEMMA NoBuffers == <<>> \in Seq(Roles) /\ Distinct(<<>>) /\ Elements(<<>>) = {}
  BY DEF Distinct, Elements

(* Callers are blind to each other's steps.                                *)
Untouched(d) ==
    /\ lang' = lang /\ pc'[d] = pc[d] /\ call'[d] = call[d]
    /\ todo'[d] = todo[d] /\ null'[d] = null[d] /\ live'[d] = live[d]
    /\ code'[d] = code[d]

LEMMA OthersStay ==
    ASSUME NEW d, Untouched(d), OnItsWay(d)
    PROVE  OnItsWay(d)' /\ (Accounted(d) => Accounted(d)')
<1>1. OnItsWay(d)'
  BY DEF Untouched, OnItsWay, Copies
<1>2. Owned(d)' = Owned(d) /\ OutBlock(d)' = OutBlock(d)
  BY DEF Untouched, Owned, OutBlock
<1>3. Accounted(d) => Accounted(d)'
  BY <1>2 DEF Untouched, Accounted
<1> QED  BY <1>1, <1>3

(* Conclusion of every step of one caller.                                 *)
LEMMA OneCaller ==
    ASSUME IInv, NEW c \in Callers, TypeOK',
           DOMAIN call' = Callers, DOMAIN todo' = Callers,
           DOMAIN code' = Callers,
           lang' = lang, spoiled => spoiled',
           lang # "wasm" => ~spoiled' /\ left' = {}, wild' => spoiled',
           ~spoiled' => left' \subseteq {"out", "temporaries"},
           OnItsWay(c)', ~spoiled' => Accounted(c)',
           \A d \in Callers \ {c} : Untouched(d)
    PROVE  IInv'
<1>1. \A d \in Callers : OnItsWay(d)' /\ (~spoiled' => Accounted(d)')
  <2> SUFFICES ASSUME NEW d \in Callers, d # c
               PROVE  OnItsWay(d)' /\ (~spoiled' => Accounted(d)')
    OBVIOUS
  <2>1. OnItsWay(d) /\ (~spoiled => Accounted(d))
    BY DEF IInv
  <2> QED  BY <2>1, OthersStay
<1> QED  BY <1>1 DEF IInv

LEMMA Freed ==
    ASSUME NEW c, call[c].op \in Ops
    PROVE  FreedAtTheEnd(c) = Owned(c)
<1>1. CASE lang = "wasm"
  BY <1>1, BufferList DEF FreedAtTheEnd, Owned
<1>2. CASE lang # "wasm"
  BY <1>2 DEF FreedAtTheEnd, Owned, BuffersOf, Elements
<1> QED  BY <1>1, <1>2

LEMMA CallOps == \A k \in Calls : k.op \in Ops \ {"none"}
  BY DEF Calls, CallOf, Ops

LEMMA OwnedIsNeeded ==
    ASSUME NEW c, call[c].op \in Ops
    PROVE  /\ Owned(c) \subseteq Needs(call[c].op)
           /\ Needs(call[c].op) \subseteq Roles \ {"out", "temporaries"}
  BY DEF Owned, Needs, Roles, Ops

LEMMA Initially == Init => IInv
<1> SUFFICES ASSUME Init  PROVE IInv
  OBVIOUS
<1>1. TypeOK
  BY DEF Init, TypeOK, Idle, Langs, Roles
<1>2. \A c \in Callers : OnItsWay(c) /\ Accounted(c)
  BY NoBuffers DEF Init, Idle, OnItsWay, Accounted, NoCall, CallOf, Ops
<1> QED  BY <1>1, <1>2 DEF Init, IInv

LEMMA ProcessEndsStep == ASSUME IInv, ProcessEnds  PROVE IInv'
<1>1. TypeOK'
  BY DEF ProcessEnds, IInv, TypeOK, Idle, Roles
<1>2. \A c \in Callers : OnItsWay(c)' /\ Accounted(c)'
  BY NoBuffers DEF ProcessEnds, Idle, OnItsWay, Accounted, NoCall, CallOf, Ops
<1> QED  BY <1>1, <1>2 DEF ProcessEnds, IInv

LEMMA StartStep ==
    ASSUME IInv, NEW c \in Callers, Start(c)  PROVE IInv'
<1>1. PICK k \in Calls :
        /\ call' = [call EXCEPT ![c] = k]
        /\ todo' = [todo EXCEPT ![c] = BuffersOf(k.op)]
        /\ Goto(c, IF BuffersOf(k.op) = <<>> THEN "native" ELSE "marshal")
  BY DEF Start
<1>2. k.op \in Ops /\ k.op # "none" /\ pc[c] = "idle"
  BY CallOps DEF Start
<1>3. /\ UNCHANGED <<lang, left, wild, spoiled, null, live, code>>
      /\ OnItsWay(c) /\ (~spoiled => Accounted(c))
  BY DEF Start, process, IInv
<1>4. null[c] = {} /\ (~spoiled => live[c] = {})
  BY <1>2, <1>3 DEF OnItsWay, Accounted
<1>5. /\ call'[c] = k /\ todo'[c] = BuffersOf(k.op)
      /\ pc'[c] = IF BuffersOf(k.op) = <<>> THEN "native" ELSE "marshal"
      /\ \A d \in Callers \ {c} : Untouched(d)
  BY <1>1, <1>3 DEF IInv, TypeOK, Goto, Untouched
<1>6. TypeOK'
  BY <1>1, <1>3 DEF IInv, TypeOK, Goto
<1>7. CASE lang = "wasm"
  <2>1. /\ BuffersOf(k.op) \in Seq(Roles) /\ Distinct(BuffersOf(k.op))
        /\ Elements(BuffersOf(k.op)) = Needs(k.op)
    BY <1>2, <1>7, BufferList
  <2>2. BuffersOf(k.op) # <<>>
    <3>1. Needs(k.op) # {}
      BY <1>2 DEF Needs, Ops
    <3> QED  BY <2>1, <3>1 DEF Elements
  <2>3. OnItsWay(c)'
    BY <1>2, <1>3, <1>4, <1>5, <1>7, <2>1, <2>2 DEF OnItsWay
  <2>4. ~spoiled' => Accounted(c)'
    BY <1>3, <1>4, <1>5, <1>7, <2>1, <2>2 DEF Accounted, Owned
  <2> QED  BY <1>1, <1>3, <1>5, <1>6, <2>3, <2>4, OneCaller DEF IInv
<1>8. CASE lang # "wasm"
  <2>1. BuffersOf(k.op) = <<>>
    BY <1>8 DEF BuffersOf
  <2>2. OnItsWay(c)' /\ (~spoiled' => Accounted(c)')
    BY <1>2, <1>3, <1>4, <1>5, <1>8, <2>1, NoBuffers
        DEF OnItsWay, Accounted, Owned
  <2> QED  BY <1>1, <1>3, <1>5, <1>6, <2>2, OneCaller DEF IInv
<1> QED  BY <1>7, <1>8

(* Taking the next buffer off the list, whatever became of it.             *)
LEMMA NextBuffer ==
    ASSUME IInv, NEW c \in Callers, pc[c] = "marshal"
    PROVE  LET role == Head(todo[c])
               rest == Tail(todo[c])
           IN  /\ lang = "wasm" /\ call[c].op \in Ops \ {"none"}
               /\ rest \in Seq(Roles) /\ Distinct(rest) /\ role \in Roles
               /\ role \notin Elements(rest)
               /\ Elements(todo[c]) = {role} \cup Elements(rest)
               /\ Elements(todo[c]) \subseteq Needs(call[c].op) \ null[c]
               /\ null[c] \subseteq Needs(call[c].op)
<1>1. /\ lang = "wasm" /\ call[c].op \in Ops /\ call[c].op # "none"
      /\ todo[c] \in Seq(Roles) /\ todo[c] # <<>> /\ Distinct(todo[c])
      /\ Elements(todo[c]) \subseteq Needs(call[c].op) \ null[c]
      /\ null[c] \subseteq Needs(call[c].op)
  BY DEF IInv, OnItsWay
<1> QED  BY <1>1, HeadAndTail

LEMMA MallocStep ==
    ASSUME IInv, NEW c \in Callers, Malloc(c)  PROVE IInv'
<1> DEFINE op == call[c].op
           role == Head(todo[c])
           rest == Tail(todo[c])
<1>1. /\ OnItsWay(c) /\ (~spoiled => Accounted(c)) /\ TypeOK
      /\ pc[c] = "marshal"
  BY DEF Malloc, IInv
<1>2. /\ lang = "wasm" /\ op \in Ops \ {"none"}
      /\ rest \in Seq(Roles) /\ Distinct(rest) /\ role \in Roles
      /\ role \notin Elements(rest)
      /\ Elements(todo[c]) = {role} \cup Elements(rest)
      /\ Elements(todo[c]) \subseteq Needs(op) \ null[c]
      /\ null[c] \subseteq Needs(op)
  BY <1>1, NextBuffer
<1>3. /\ todo' = [todo EXCEPT ![c] = rest]
      /\ live' = [live EXCEPT ![c] = @ \cup {role}]
      /\ Goto(c, IF rest = <<>> THEN "native" ELSE "marshal")
      /\ UNCHANGED <<lang, left, wild, spoiled, call, null, code>>
  BY DEF Malloc, Remaining, process
<1> HIDE DEF role, rest
<1>4. TypeOK'
  BY <1>1, <1>2, <1>3 DEF TypeOK, Goto
<1>5. /\ todo'[c] = rest /\ call'[c] = call[c] /\ null'[c] = null[c]
      /\ live'[c] = live[c] \cup {role}
      /\ pc'[c] = IF rest = <<>> THEN "native" ELSE "marshal"
      /\ \A d \in Callers \ {c} : Untouched(d)
  BY <1>1, <1>3 DEF IInv, TypeOK, Goto, Untouched
<1>6. OnItsWay(c)'
  BY <1>1, <1>2, <1>3, <1>5 DEF OnItsWay
<1>7. ~spoiled' => Accounted(c)'
  <2>1. /\ Owned(c) = Needs(op) \ (null[c] \cup Elements(todo[c]))
        /\ Owned(c)' = Needs(op) \ (null[c] \cup Elements(rest))
    BY <1>2, <1>3, <1>5 DEF Owned
  <2>2. Owned(c)' = Owned(c) \cup {role}
    BY <1>2, <2>1
  <2> QED  BY <1>1, <1>3, <1>5, <2>2 DEF Accounted
<1>8. /\ DOMAIN call' = Callers /\ DOMAIN todo' = Callers
      /\ DOMAIN code' = Callers
  BY <1>3 DEF IInv
<1> QED  BY <1>2, <1>3, <1>4, <1>5, <1>6, <1>7, <1>8, OneCaller DEF IInv

LEMMA MallocFailsStep ==
    ASSUME IInv, NEW c \in Callers, ~spoiled, MallocFails(c)  PROVE IInv'
<1> DEFINE op == call[c].op
           role == Head(todo[c])
           rest == Tail(todo[c])
           hasBytes == role \in InputsWithBytes(call[c])
<1>1. /\ OnItsWay(c) /\ Accounted(c) /\ TypeOK /\ pc[c] = "marshal"
  BY DEF MallocFails, IInv
<1>2. /\ lang = "wasm" /\ op \in Ops \ {"none"}
      /\ rest \in Seq(Roles) /\ Distinct(rest) /\ role \in Roles
      /\ role \notin Elements(rest)
      /\ Elements(todo[c]) = {role} \cup Elements(rest)
      /\ Elements(todo[c]) \subseteq Needs(op) \ null[c]
      /\ null[c] \subseteq Needs(op)
  BY <1>1, NextBuffer
<1>3. /\ todo' = [todo EXCEPT ![c] = rest]
      /\ null' = [null EXCEPT ![c] = @ \cup {role}]
      /\ \/ /\ spoiled' = hasBytes
            /\ Goto(c, IF rest = <<>> THEN "native" ELSE "marshal")
            /\ UNCHANGED code
         \/ /\ hasBytes
            /\ code' = [code EXCEPT ![c] = "thrown"]
            /\ Goto(c, "finish")
            /\ UNCHANGED spoiled
      /\ UNCHANGED <<lang, left, wild, call, live>>
  BY DEF MallocFails, Remaining
<1>4. hasBytes \in BOOLEAN /\ (hasBytes <=> role \in InputsWithBytes(call[c]))
  OBVIOUS
<1> HIDE DEF role, rest, hasBytes
<1>5. /\ todo'[c] = rest /\ call'[c] = call[c]
      /\ null'[c] = null[c] \cup {role} /\ live'[c] = live[c]
      /\ \/ /\ spoiled' = hasBytes
            /\ pc'[c] = IF rest = <<>> THEN "native" ELSE "marshal"
         \/ /\ hasBytes /\ code'[c] = "thrown" /\ pc'[c] = "finish"
            /\ ~spoiled'
      /\ \A d \in Callers \ {c} : Untouched(d)
  BY <1>1, <1>3 DEF IInv, TypeOK, Goto, Untouched
<1>6. TypeOK'
  <2>1. null' \in [Callers -> SUBSET Roles]
    BY <1>1, <1>2, <1>3 DEF TypeOK
  <2>2. pc' \in [Callers -> {"idle", "marshal", "native", "copy", "release",
                             "finish"}]
    BY <1>1, <1>3 DEF TypeOK, Goto
  <2>3. spoiled' \in BOOLEAN
    BY <1>1, <1>3, <1>4 DEF TypeOK
  <2> QED  BY <1>1, <1>3, <2>1, <2>2, <2>3 DEF TypeOK
<1>7. OnItsWay(c)'
  BY <1>1, <1>2, <1>3, <1>5 DEF OnItsWay
<1>8. ~spoiled' => Accounted(c)'
  <2>1. /\ Owned(c) = Needs(op) \ (null[c] \cup Elements(todo[c]))
        /\ Owned(c)' = Needs(op) \ (null'[c] \cup Elements(rest))
    BY <1>2, <1>3, <1>5 DEF Owned
  <2>2. Owned(c)' = Owned(c) /\ live'[c] = Owned(c)'
    BY <1>1, <1>2, <1>5, <2>1 DEF Accounted
  <2>3. /\ null[c] \cap InputsWithBytes(call[c]) = {}
        /\ InputsWithBytes(call'[c]) = InputsWithBytes(call[c])
    BY <1>1, <1>5 DEF Accounted
  <2>4. CASE /\ spoiled' = hasBytes
             /\ pc'[c] = IF rest = <<>> THEN "native" ELSE "marshal"
    BY <1>4, <1>5, <2>2, <2>3, <2>4 DEF Accounted
  <2>5. CASE hasBytes /\ code'[c] = "thrown" /\ pc'[c] = "finish"
    <3>1. null'[c] \cap InputsWithBytes(call'[c]) # {}
      BY <1>4, <1>5, <2>3, <2>5
    <3>2. "out" \notin Owned(c) /\ "temporaries" \notin Owned(c)
      BY <1>2, OwnedIsNeeded
    <3> QED  BY <2>2, <2>5, <3>1, <3>2 DEF Accounted
  <2> QED  BY <1>5, <2>4, <2>5
<1>9. /\ DOMAIN call' = Callers /\ DOMAIN todo' = Callers
      /\ DOMAIN code' = Callers
  BY <1>3 DEF IInv
<1>10. ~wild' /\ left' \subseteq {"out", "temporaries"}
  BY <1>3 DEF IInv
<1> QED
  BY <1>2, <1>3, <1>5, <1>6, <1>7, <1>8, <1>9, <1>10, OneCaller

LEMMA NativeReturnsStep ==
    ASSUME IInv, NEW c \in Callers, NativeReturns(c)  PROVE IInv'
<1> DEFINE op == call[c].op
<1>1. /\ OnItsWay(c) /\ (~spoiled => Accounted(c)) /\ TypeOK
      /\ pc[c] = "native" /\ op \in Ops /\ op # "none"
  BY DEF NativeReturns, IInv, OnItsWay
<1>2. PICK mallocOk \in BOOLEAN, got \in {Received(call[c])} :
      \E checks \in {Checks(c, got, mallocOk)} :
        /\ code' = [code EXCEPT ![c] = ABI!ResultCode(checks)]
        /\ IF ABI!Succeeds(checks)
           THEN /\ live' = [live EXCEPT ![c] =
                                @ \cup (IF ReturnsBlock(call[c].op)
                                        THEN {"out"} ELSE {})]
                /\ Goto(c, StageAfter("native", call[c].op))
           ELSE Goto(c, "finish") /\ UNCHANGED live
  BY DEF NativeReturns
<1> DEFINE checks == Checks(c, got, mallocOk)
<1>3. /\ code' = [code EXCEPT ![c] = ABI!ResultCode(checks)]
      /\ IF ABI!Succeeds(checks)
         THEN /\ live' = [live EXCEPT ![c] = @ \cup OutBlock(c)]
              /\ Goto(c, StageAfter("native", op))
         ELSE Goto(c, "finish") /\ UNCHANGED live
  BY <1>2 DEF OutBlock
<1>4. null[c] # {} =>
        ~ABI!Succeeds(checks) /\ ABI!ResultCode(checks) = "NULL_INPUT"
  <2> SUFFICES ASSUME null[c] # {}
               PROVE  ~ABI!Succeeds(checks)
                      /\ ABI!ResultCode(checks) = "NULL_INPUT"
    OBVIOUS
  <2>1. NullPointers(c) = null[c] /\ null[c] \subseteq Needs(op)
    BY <1>1 DEF OnItsWay, NullPointers
  <2>2. checks = NativeChecks(call[c], got.statement, got.witness, null[c],
                              mallocOk)
    BY <2>1 DEF Checks
  <2> HIDE DEF checks
  <2> QED  BY <1>1, <2>1, <2>2, NullIsReported
<1> HIDE DEF checks
<1>5. UNCHANGED <<lang, left, wild, spoiled, call, todo, null>>
  BY DEF NativeReturns, process
<1>6. OutBlock(c) \subseteq {"out"} /\ "out" \in Roles
  BY DEF OutBlock, Roles
<1>7. TypeOK'
  <2>1. StageAfter("native", op) \in {"copy", "finish"}
    BY DEF StageAfter
  <2> QED  BY <1>1, <1>3, <1>5, <1>6, <2>1 DEF TypeOK, Goto
<1>8. /\ code'[c] = ABI!ResultCode(checks)
      /\ call'[c] = call[c] /\ null'[c] = null[c]
      /\ \A d \in Callers \ {c} : Untouched(d)
      /\ \/ /\ null[c] = {} /\ pc'[c] = StageAfter("native", op)
            /\ live'[c] = live[c] \cup OutBlock(c)
         \/ pc'[c] = "finish" /\ live'[c] = live[c]
  BY <1>1, <1>3, <1>4, <1>5 DEF IInv, TypeOK, Goto, Untouched
<1>9. /\ StageAfter("native", op) = IF Copies(op) THEN "copy" ELSE "finish"
      /\ ~Copies(op) => OutBlock(c) = {}
  BY DEF StageAfter, Copies, OutBlock
<1>10. /\ Owned(c)' = Owned(c) /\ OutBlock(c)' = OutBlock(c)
       /\ Copies(op)' = Copies(op)
  BY <1>5, <1>8 DEF Owned, OutBlock, Copies
<1>11. Owned(c) \subseteq Roles \ {"out", "temporaries"}
  BY <1>1, OwnedIsNeeded
<1>12. OnItsWay(c)'
  BY <1>1, <1>4, <1>5, <1>8, <1>9, <1>10 DEF OnItsWay
<1>13. ~spoiled' => Accounted(c)'
  <2> SUFFICES ASSUME ~spoiled  PROVE Accounted(c)'
    BY <1>5
  <2>1. /\ live[c] = Owned(c) /\ null[c] \cap InputsWithBytes(call[c]) = {}
        /\ InputsWithBytes(call'[c]) = InputsWithBytes(call[c])
    BY <1>1, <1>8 DEF Accounted
  <2>2. CASE /\ null[c] = {} /\ pc'[c] = StageAfter("native", op)
             /\ live'[c] = live[c] \cup OutBlock(c)
    BY <1>8, <1>9, <1>10, <1>11, <2>1, <2>2 DEF Accounted
  <2>3. CASE pc'[c] = "finish" /\ live'[c] = live[c]
    <3>1. null'[c] # {} => code'[c] = "NULL_INPUT"
      BY <1>4, <1>8
    <3> QED  BY <1>8, <1>10, <1>11, <2>1, <2>3, <3>1 DEF Accounted
  <2> QED  BY <1>8, <2>2, <2>3
<1>14. /\ DOMAIN call' = Callers /\ DOMAIN todo' = Callers
       /\ DOMAIN code' = Callers
  BY <1>3, <1>5 DEF IInv
<1> QED
  BY <1>5, <1>7, <1>8, <1>12, <1>13, <1>14, OneCaller DEF IInv

LEMMA NativeAbortsStep ==
    ASSUME IInv, NEW c \in Callers, NativeAborts(c)  PROVE IInv'
<1> DEFINE op == call[c].op
<1>1. /\ OnItsWay(c) /\ (~spoiled => Accounted(c)) /\ TypeOK
      /\ pc[c] = "native" /\ op \in Ops /\ op # "none"
  BY DEF NativeAborts, IInv, OnItsWay
<1>2. PICK got \in {Received(call[c])} :
        ABI!ResultCode(Checks(c, got, TRUE)) \notin EarlyCodes
  BY DEF NativeAborts
<1>3. null[c] = {}
  <2> SUFFICES ASSUME null[c] # {}  PROVE FALSE
    OBVIOUS
  <2>1. NullPointers(c) = null[c] /\ null[c] \subseteq Needs(op)
    BY <1>1 DEF OnItsWay, NullPointers
  <2> DEFINE mallocOk == TRUE
  <2>2. Checks(c, got, mallocOk) =
            NativeChecks(call[c], got.statement, got.witness, null[c],
                         mallocOk)
    BY <2>1 DEF Checks
  <2>3. mallocOk \in BOOLEAN
    OBVIOUS
  <2>4. ABI!ResultCode(Checks(c, got, mallocOk)) \notin EarlyCodes
    BY <1>2
  <2> HIDE DEF mallocOk
  <2>5. ABI!ResultCode(NativeChecks(call[c], got.statement, got.witness,
                                    null[c], mallocOk)) = "NULL_INPUT"
    BY <1>1, <2>1, <2>3, NullIsReported
  <2> QED  BY <2>2, <2>4, <2>5 DEF EarlyCodes
<1>4. CASE lang # "wasm"
  BY <1>4, ProcessEndsStep DEF NativeAborts
<1>5. CASE lang = "wasm"
  <2>1. /\ code' = [code EXCEPT ![c] = "trap"]
        /\ live' = [live EXCEPT ![c] = @ \cup {"temporaries"}]
        /\ Goto(c, "finish")
        /\ UNCHANGED <<lang, left, wild, spoiled, call, todo, null>>
    BY <1>5 DEF NativeAborts, process
  <2>2. TypeOK'
    <3>1. "temporaries" \in Roles
      BY DEF Roles
    <3> QED  BY <1>1, <2>1, <3>1 DEF TypeOK, Goto
  <2>3. /\ code'[c] = "trap" /\ pc'[c] = "finish"
        /\ live'[c] = live[c] \cup {"temporaries"}
        /\ call'[c] = call[c] /\ null'[c] = {}
        /\ \A d \in Callers \ {c} : Untouched(d)
    BY <1>1, <1>3, <2>1 DEF IInv, TypeOK, Goto, Untouched
  <2>4. OnItsWay(c)'
    BY <1>1, <2>1, <2>3 DEF OnItsWay
  <2>5. ~spoiled' => Accounted(c)'
    <3>1. Owned(c)' = Owned(c)
      BY <1>3, <2>1, <2>3 DEF Owned
    <3>2. Owned(c) \subseteq Roles \ {"out", "temporaries"}
      BY <1>1, OwnedIsNeeded
    <3> QED  BY <1>1, <1>5, <2>1, <2>3, <3>1, <3>2 DEF Accounted
  <2>6. /\ DOMAIN call' = Callers /\ DOMAIN todo' = Callers
        /\ DOMAIN code' = Callers
    BY <2>1 DEF IInv
  <2> QED  BY <2>1, <2>2, <2>3, <2>4, <2>5, <2>6, OneCaller DEF IInv
<1> QED  BY <1>4, <1>5

LEMMA CopyOutStep ==
    ASSUME IInv, NEW c \in Callers, CopyOut(c)  PROVE IInv'
<1> DEFINE op == call[c].op
           source == IF ReturnsBlock(op) THEN "out" ELSE "id"
<1>1. /\ OnItsWay(c) /\ (~spoiled => Accounted(c)) /\ TypeOK
      /\ pc[c] = "copy" /\ op \in Ops /\ op # "none" /\ null[c] = {}
      /\ Copies(op)
  BY DEF CopyOut, IInv, OnItsWay
<1>2. /\ wild' = (wild \/ source \notin live[c])
      /\ Goto(c, StageAfter("copy", op))
      /\ UNCHANGED <<lang, left, spoiled, call, todo, null, live, code>>
  BY DEF CopyOut
<1>3. ~spoiled => source \in live[c]
  <2>1. ReturnsBlock(op) \/ (lang = "wasm" /\ "id" \in Needs(op))
    BY <1>1 DEF Copies, Needs
  <2>2. Elements(todo[c]) = {}
    BY <1>1, NoBuffers DEF OnItsWay
  <2> QED  BY <1>1, <2>1, <2>2 DEF Accounted, Owned, OutBlock
<1>4. StageAfter("copy", op) = IF ReturnsBlock(op) THEN "release" ELSE "finish"
  BY DEF StageAfter
<1>5. wild' \in BOOLEAN /\ (wild' => spoiled')
  BY <1>2, <1>3 DEF IInv, TypeOK
<1>6. TypeOK'
  BY <1>1, <1>2, <1>4, <1>5 DEF TypeOK, Goto
<1>7. /\ call'[c] = call[c] /\ null'[c] = {} /\ live'[c] = live[c]
      /\ pc'[c] = IF ReturnsBlock(op) THEN "release" ELSE "finish"
      /\ \A d \in Callers \ {c} : Untouched(d)
  BY <1>1, <1>2, <1>4 DEF IInv, TypeOK, Goto, Untouched
<1>8. OnItsWay(c)'
  BY <1>1, <1>2, <1>7 DEF OnItsWay
<1>9. ~spoiled' => Accounted(c)'
  <2>1. Owned(c)' = Owned(c)
    BY <1>1, <1>2, <1>7 DEF Owned
  <2>2. Owned(c) \subseteq Roles \ {"out", "temporaries"}
    BY <1>1, OwnedIsNeeded
  <2> QED  BY <1>1, <1>2, <1>7, <2>1, <2>2 DEF Accounted, OutBlock
<1> QED
  BY <1>2, <1>5, <1>6, <1>7, <1>8, <1>9, OneCaller DEF IInv

LEMMA CopyFailsStep ==
    ASSUME IInv, NEW c \in Callers, CopyFails(c)  PROVE IInv'
<1> DEFINE op == call[c].op
<1>1. /\ OnItsWay(c) /\ (~spoiled => Accounted(c)) /\ TypeOK
      /\ pc[c] = "copy" /\ op \in Ops /\ op # "none" /\ null[c] = {}
  BY DEF CopyFails, IInv, OnItsWay
<1>2. CASE lang # "wasm"
  BY <1>2, ProcessEndsStep DEF CopyFails
<1>3. CASE lang = "wasm"
  <2>1. /\ code' = [code EXCEPT ![c] = "copy failed"]
        /\ Goto(c, "finish")
        /\ UNCHANGED <<lang, left, wild, spoiled, call, todo, null, live>>
    BY <1>3 DEF CopyFails, process
  <2>2. TypeOK'
    BY <1>1, <2>1 DEF TypeOK, Goto
  <2>3. /\ code'[c] = "copy failed" /\ pc'[c] = "finish"
        /\ live'[c] = live[c] /\ call'[c] = call[c] /\ null'[c] = {}
        /\ \A d \in Callers \ {c} : Untouched(d)
    BY <1>1, <2>1 DEF IInv, TypeOK, Goto, Untouched
  <2>4. OnItsWay(c)'
    BY <1>1, <2>1, <2>3 DEF OnItsWay
  <2>5. ~spoiled' => Accounted(c)'
    <3>1. Owned(c)' = Owned(c)
      BY <1>1, <2>1, <2>3 DEF Owned
    <3>2. /\ Owned(c) \subseteq Roles \ {"out", "temporaries"}
          /\ OutBlock(c) \subseteq {"out"}
      BY <1>1, OwnedIsNeeded DEF OutBlock
    <3> QED  BY <1>1, <1>3, <2>1, <2>3, <3>1, <3>2 DEF Accounted
  <2>6. /\ DOMAIN call' = Callers /\ DOMAIN todo' = Callers
        /\ DOMAIN code' = Callers
    BY <2>1 DEF IInv
  <2> QED  BY <2>1, <2>2, <2>3, <2>4, <2>5, <2>6, OneCaller DEF IInv
<1> QED  BY <1>2, <1>3

LEMMA ReleaseStep ==
    ASSUME IInv, NEW c \in Callers, Release(c)  PROVE IInv'
<1> DEFINE op == call[c].op
<1>1. /\ OnItsWay(c) /\ (~spoiled => Accounted(c)) /\ TypeOK
      /\ pc[c] = "release" /\ op \in Ops /\ op # "none" /\ null[c] = {}
  BY DEF Release, IInv, OnItsWay
<1>2. /\ live' = [live EXCEPT ![c] = @ \ {"out"}]
      /\ wild' = (wild \/ "out" \notin live[c])
      /\ Goto(c, "finish")
      /\ UNCHANGED <<lang, left, spoiled, call, todo, null, code>>
  BY DEF Release, StageAfter
<1>3. ~spoiled => "out" \in live[c]
  BY <1>1 DEF Accounted
<1>4. wild' \in BOOLEAN /\ (wild' => spoiled')
  BY <1>2, <1>3 DEF IInv, TypeOK
<1>5. TypeOK'
  BY <1>1, <1>2, <1>4 DEF TypeOK, Goto
<1>6. /\ call'[c] = call[c] /\ null'[c] = {} /\ pc'[c] = "finish"
      /\ live'[c] = live[c] \ {"out"}
      /\ \A d \in Callers \ {c} : Untouched(d)
  BY <1>1, <1>2 DEF IInv, TypeOK, Goto, Untouched
<1>7. OnItsWay(c)'
  BY <1>1, <1>2, <1>6 DEF OnItsWay
<1>8. ~spoiled' => Accounted(c)'
  <2>1. Owned(c)' = Owned(c)
    BY <1>1, <1>2, <1>6 DEF Owned
  <2>2. Owned(c) \subseteq Roles \ {"out", "temporaries"}
    BY <1>1, OwnedIsNeeded
  <2> QED  BY <1>1, <1>2, <1>6, <2>1, <2>2 DEF Accounted
<1> QED
  BY <1>2, <1>4, <1>5, <1>6, <1>7, <1>8, OneCaller DEF IInv

LEMMA FinishStep ==
    ASSUME IInv, NEW c \in Callers, Finish(c)  PROVE IInv'
<1>1. /\ OnItsWay(c) /\ (~spoiled => Accounted(c)) /\ TypeOK
      /\ pc[c] = "finish" /\ call[c].op \in Ops
  BY DEF Finish, IInv, OnItsWay
<1>2. FreedAtTheEnd(c) = Owned(c)
  BY <1>1, Freed
<1>3. /\ wild' = (wild \/ ~(Owned(c) \subseteq live[c]))
      /\ left' = left \cup (live[c] \ Owned(c))
      /\ Goto(c, "idle")
      /\ call' = [call EXCEPT ![c] = NoCall]
      /\ todo' = [todo EXCEPT ![c] = <<>>]
      /\ null' = [null EXCEPT ![c] = {}]
      /\ live' = [live EXCEPT ![c] = {}]
      /\ code' = [code EXCEPT ![c] = "none"]
      /\ UNCHANGED <<lang, spoiled>>
  BY <1>2 DEF Finish
<1>4. wild' \in BOOLEAN /\ (wild' => spoiled')
  <2>1. ~spoiled => Owned(c) \subseteq live[c]
    BY <1>1 DEF Accounted
  <2> QED  BY <1>1, <1>3, <2>1 DEF IInv, TypeOK
<1>5. /\ left' \subseteq Roles
      /\ ~spoiled' => left' \subseteq {"out", "temporaries"}
      /\ lang # "wasm" => ~spoiled' /\ left' = {}
  BY <1>1, <1>3 DEF IInv, TypeOK, Accounted
<1>6. TypeOK'
  BY <1>1, <1>3, <1>4, <1>5 DEF TypeOK, Goto
<1>7. /\ call'[c] = NoCall /\ null'[c] = {} /\ live'[c] = {}
      /\ pc'[c] = "idle" /\ todo'[c] = <<>>
      /\ \A d \in Callers \ {c} : Untouched(d)
  BY <1>1, <1>3 DEF IInv, TypeOK, Goto, Untouched
<1>8. OnItsWay(c)' /\ Accounted(c)'
  BY <1>7, NoBuffers DEF OnItsWay, Accounted, NoCall, CallOf, Ops
<1>9. /\ DOMAIN call' = Callers /\ DOMAIN todo' = Callers
      /\ DOMAIN code' = Callers
  BY <1>3 DEF IInv
<1> QED  BY <1>3, <1>4, <1>5, <1>6, <1>7, <1>8, <1>9, OneCaller DEF IInv

LEMMA AnythingHappensStep ==
    ASSUME IInv, NEW c \in Callers, spoiled, AnythingHappens(c)  PROVE IInv'
<1>1. PICK answer :
        /\ code' = [code EXCEPT ![c] = answer] /\ Goto(c, "finish")
        /\ pc[c] # "idle"
        /\ UNCHANGED <<lang, left, wild, spoiled, call, todo, null, live>>
  BY DEF AnythingHappens, process
<1>2. OnItsWay(c) /\ TypeOK
  BY DEF IInv
<1>3. TypeOK'
  BY <1>1, <1>2 DEF TypeOK, Goto
<1>4. /\ pc'[c] = "finish" /\ call' = call /\ todo' = todo /\ null' = null
      /\ \A d \in Callers \ {c} : Untouched(d)
  BY <1>1, <1>2 DEF IInv, TypeOK, Goto, Untouched
<1>5. OnItsWay(c)'
  BY <1>1, <1>2, <1>4 DEF OnItsWay
<1>6. /\ DOMAIN call' = Callers /\ DOMAIN todo' = Callers
      /\ DOMAIN code' = Callers
  BY <1>1 DEF IInv
<1> QED  BY <1>1, <1>3, <1>4, <1>5, <1>6, OneCaller DEF IInv

-----------------------------------------------------------------------------
LEMMA Inductive == IInv /\ [Next]_vars => IInv'
<1> SUFFICES ASSUME IInv, [Next]_vars  PROVE IInv'
  OBVIOUS
<1>1. CASE UNCHANGED vars
  <2>1. \A c \in Callers : Untouched(c)
    BY <1>1 DEF vars, process, caller, Untouched
  <2>2. \A c \in Callers : OnItsWay(c)' /\ (Accounted(c) => Accounted(c)')
    BY <2>1, OthersStay DEF IInv
  <2> QED  BY <1>1, <2>2 DEF vars, process, caller, IInv, TypeOK
<1>2. CASE ProcessEnds
  BY <1>2, ProcessEndsStep
<1>3. ASSUME NEW c \in Callers, Start(c) \/ Step(c)  PROVE IInv'
  BY <1>3, StartStep, MallocStep, MallocFailsStep, NativeReturnsStep,
     NativeAbortsStep, CopyOutStep, CopyFailsStep, ReleaseStep, FinishStep,
     AnythingHappensStep DEF Step, GoesOn
<1> QED  BY <1>1, <1>2, <1>3 DEF Next

LEMMA Invariant == Spec => []IInv
  BY Initially, Inductive, PTL DEF Spec

(* Whatever fails, in whichever binding, with any number of callers: the   *)
(* buffers of a call are freed when it ends, but for the two ways out of   *)
(* WebAssembly that BuffersFreed names.                                    *)
THEOREM NothingLeaks == Spec => []BuffersFreed
<1>1. IInv => BuffersFreed
  <2> SUFFICES ASSUME IInv, ~spoiled, NEW c \in Callers, pc[c] = "finish"
               PROVE  /\ "out" \in live[c] => code[c] = "copy failed"
                      /\ "temporaries" \in live[c] => code[c] = "trap"
    BY DEF IInv, BuffersFreed
  <2> QED  BY DEF IInv, Accounted
<1> QED  BY <1>1, Invariant, PTL

(* No block is freed twice or read after it was freed, unless a failed     *)
(* malloc has let a module overwrite its own memory.                       *)
THEOREM NothingTwice == Spec => []OnlyLiveBlocksTouched
<1>1. IInv => OnlyLiveBlocksTouched
  BY DEF IInv, OnlyLiveBlocksTouched
<1> QED  BY <1>1, Invariant, PTL

(* A call that malloc had no memory for, and that overwrote nothing for it,*)
(* ends with an error of its own: it threw where an input did not fit, and *)
(* a null pointer is what the native side looks at first, whichever buffer *)
(* it is and whatever the other arguments are.                             *)
THEOREM OutOfMemoryShows == Spec => []FailedMallocIsReported
<1>1. IInv => FailedMallocIsReported
  BY DEF IInv, Accounted, FailedMallocIsReported
<1> QED  BY <1>1, Invariant, PTL

-----------------------------------------------------------------------------
(* Every call ends, as far as safety goes: it gets nearer to its end with  *)
(* each step of its own, and nobody else takes it further away.            *)

Stages == [idle |-> 0, finish |-> 1, release |-> 2, copy |-> 3, native |-> 4,
           marshal |-> 5]

(* The most steps that the call of c still has before it.                  *)
StepsLeft(c) ==
    Stages[pc[c]] + (IF pc[c] = "marshal" THEN Len(todo[c]) - 1 ELSE 0)

GetsNearer(c) ==
    /\ pc[c] # "idle" => StepsLeft(c)' <= StepsLeft(c)
    /\ Step(c) => StepsLeft(c)' < StepsLeft(c)

CallsOnlyGetNearer == [][\A c \in Callers : GetsNearer(c)]_vars

LEMMA StepsAreCounted ==
    ASSUME IInv, NEW c \in Callers
    PROVE  /\ StepsLeft(c) \in Nat
           /\ StepsLeft(c) = 0 <=> pc[c] = "idle"
<1>1. /\ pc[c] \in {"idle", "marshal", "native", "copy", "release", "finish"}
      /\ pc[c] = "marshal" => todo[c] \in Seq(Roles) /\ todo[c] # <<>>
  BY DEF IInv, TypeOK, OnItsWay
<1>2. pc[c] = "marshal" => Len(todo[c]) \in Nat \ {0}
  BY <1>1
<1> QED  BY <1>1, <1>2 DEF StepsLeft, Stages

LEMMA StageIsNearer ==
    ASSUME NEW op
    PROVE  /\ StageAfter("native", op) \in {"copy", "finish"}
           /\ StageAfter("copy", op) \in {"release", "finish"}
           /\ StageAfter("release", op) = "finish"
  BY DEF StageAfter

LEMMA MallocIsNearer ==
    ASSUME IInv, NEW c \in Callers,
           Malloc(c) \/ (MallocFails(c) /\ pc'[c] # "finish")
    PROVE  StepsLeft(c)' \in Nat /\ StepsLeft(c)' < StepsLeft(c)
<1>1. pc[c] = "marshal" /\ todo[c] \in Seq(Roles) /\ todo[c] # <<>>
  BY DEF Malloc, MallocFails, IInv, OnItsWay
<1>2. Tail(todo[c]) \in Seq(Roles) /\ Len(Tail(todo[c])) = Len(todo[c]) - 1
      /\ Len(todo[c]) \in Nat \ {0}
  BY <1>1
<1>3. /\ todo'[c] = Tail(todo[c])
      /\ pc'[c] = IF Tail(todo[c]) = <<>> THEN "native" ELSE "marshal"
  BY DEF Malloc, MallocFails, Remaining, Goto, IInv, TypeOK
<1>4. StepsLeft(c) = 5 + (Len(todo[c]) - 1)
  BY <1>1 DEF StepsLeft, Stages
<1>5. CASE Tail(todo[c]) = <<>>
  <2>1. StepsLeft(c)' = 4
    BY <1>3, <1>5 DEF StepsLeft, Stages
  <2> QED  BY <1>2, <1>4, <2>1
<1>6. CASE Tail(todo[c]) # <<>>
  <2>1. StepsLeft(c)' = 5 + (Len(Tail(todo[c])) - 1)
    BY <1>3, <1>6 DEF StepsLeft, Stages
  <2> QED  BY <1>2, <1>4, <2>1
<1> QED  BY <1>5, <1>6

(* The steps after the buffers are there only change the stage.            *)
LEMMA StepIsNearer ==
    ASSUME IInv, NEW c \in Callers, Step(c)
    PROVE  StepsLeft(c)' \in Nat /\ StepsLeft(c)' < StepsLeft(c)
<1>1. pc \in [Callers -> {"idle", "marshal", "native", "copy", "release",
                          "finish"}]
  BY DEF IInv, TypeOK
<1>2. CASE Malloc(c) \/ (MallocFails(c) /\ pc'[c] # "finish")
  BY <1>2, MallocIsNearer
<1>16. CASE pc[c] \notin {"idle", "finish"} /\ pc'[c] = "finish"
  <2>1. pc[c] = "marshal" => Len(todo[c]) \in Nat \ {0}
    <3> SUFFICES ASSUME pc[c] = "marshal"  PROVE Len(todo[c]) \in Nat \ {0}
      OBVIOUS
    <3>1. todo[c] \in Seq(Roles) /\ todo[c] # <<>>
      BY DEF IInv, OnItsWay
    <3> QED  BY <3>1
  <2>2. /\ StepsLeft(c)' = 1
        /\ pc[c] = "marshal" => StepsLeft(c) = 5 + (Len(todo[c]) - 1)
        /\ pc[c] # "marshal" => StepsLeft(c) \in {2, 3, 4}
    BY <1>1, <1>16 DEF StepsLeft, Stages
  <2> QED  BY <2>1, <2>2
<1>3. CASE pc[c] = "native" /\ pc'[c] \in {"copy", "finish", "idle"}
  <2>1. StepsLeft(c) = 4 /\ StepsLeft(c)' \in {3, 1, 0}
    BY <1>3 DEF StepsLeft, Stages
  <2> QED  BY <2>1
<1>4. CASE pc[c] = "copy" /\ pc'[c] \in {"release", "finish", "idle"}
  <2>1. StepsLeft(c) = 3 /\ StepsLeft(c)' \in {2, 1, 0}
    BY <1>4 DEF StepsLeft, Stages
  <2> QED  BY <2>1
<1>5. CASE pc[c] = "release" /\ pc'[c] = "finish"
  <2>1. StepsLeft(c) = 2 /\ StepsLeft(c)' = 1
    BY <1>5 DEF StepsLeft, Stages
  <2> QED  BY <2>1
<1>6. CASE pc[c] = "finish" /\ pc'[c] = "idle"
  <2>1. StepsLeft(c) = 1 /\ StepsLeft(c)' = 0
    BY <1>6 DEF StepsLeft, Stages
  <2> QED  BY <2>1
<1>7. ProcessEnds => pc'[c] = "idle"
  BY DEF ProcessEnds, Idle
<1>8. ASSUME NEW where, Goto(c, where)  PROVE pc'[c] = where
  BY <1>1, <1>8 DEF Goto
<1>9. CASE NativeReturns(c)
  <2>1. /\ pc[c] = "native"
        /\ \/ Goto(c, StageAfter("native", call[c].op))
           \/ Goto(c, "finish")
    BY <1>9 DEF NativeReturns
  <2> QED  BY <1>3, <1>8, <2>1, StageIsNearer
<1>10. CASE NativeAborts(c)
  <2>1. pc[c] = "native" /\ (Goto(c, "finish") \/ ProcessEnds)
    BY <1>10 DEF NativeAborts
  <2> QED  BY <1>3, <1>7, <1>8, <2>1
<1>11. CASE AnythingHappens(c) \/ (MallocFails(c) /\ pc'[c] = "finish")
  <2>1. /\ pc[c] \notin {"idle", "finish"}
        /\ Goto(c, "finish") \/ pc'[c] = "finish"
    BY <1>11 DEF AnythingHappens, MallocFails
  <2> QED  BY <1>8, <1>16, <2>1
<1>12. CASE CopyOut(c)
  <2>1. pc[c] = "copy" /\ Goto(c, StageAfter("copy", call[c].op))
    BY <1>12 DEF CopyOut
  <2> QED  BY <1>4, <1>8, <2>1, StageIsNearer
<1>13. CASE CopyFails(c)
  <2>1. pc[c] = "copy" /\ (Goto(c, "finish") \/ ProcessEnds)
    BY <1>13 DEF CopyFails
  <2> QED  BY <1>4, <1>7, <1>8, <2>1
<1>14. CASE Release(c)
  <2>1. pc[c] = "release" /\ Goto(c, StageAfter("release", call[c].op))
    BY <1>14 DEF Release
  <2> QED  BY <1>5, <1>8, <2>1, StageIsNearer
<1>15. CASE Finish(c)
  <2>1. pc[c] = "finish" /\ Goto(c, "idle")
    BY <1>15 DEF Finish
  <2> QED  BY <1>6, <1>8, <2>1
<1> QED
  BY <1>2, <1>9, <1>10, <1>11, <1>12, <1>13, <1>14, <1>15 DEF Step, GoesOn

(* The step of another call is none of this one's, or the end of both.     *)
LEMMA OthersKeepTheDistance ==
    ASSUME IInv, NEW c \in Callers, NEW d \in Callers, d # c,
           Start(d) \/ Step(d)
    PROVE  pc'[c] = "idle" \/ (pc'[c] = pc[c] /\ todo'[c] = todo[c])
<1>1. /\ DOMAIN pc = Callers /\ DOMAIN todo = Callers
  BY DEF IInv, TypeOK
<1>2. ProcessEnds => pc'[c] = "idle"
  BY DEF ProcessEnds, Idle
<1>3. ASSUME NEW where, Goto(d, where)  PROVE pc'[c] = pc[c]
  BY <1>1, <1>3 DEF Goto
<1>4. ASSUME NEW list, todo' = [todo EXCEPT ![d] = list]
      PROVE  todo'[c] = todo[c]
  BY <1>1, <1>4
<1>5. CASE Start(d)
  BY <1>3, <1>4, <1>5 DEF Start
<1>6. CASE Malloc(d) \/ MallocFails(d)
  BY <1>3, <1>4, <1>6 DEF Malloc, MallocFails
<1>7. CASE NativeReturns(d)
  BY <1>3, <1>7 DEF NativeReturns
<1>8. CASE NativeAborts(d)
  BY <1>2, <1>3, <1>8 DEF NativeAborts
<1>9. CASE AnythingHappens(d)
  BY <1>3, <1>9 DEF AnythingHappens
<1>10. CASE CopyOut(d)
  BY <1>3, <1>10 DEF CopyOut
<1>11. CASE CopyFails(d)
  BY <1>2, <1>3, <1>11 DEF CopyFails
<1>12. CASE Release(d)
  BY <1>3, <1>12 DEF Release
<1>13. CASE Finish(d)
  BY <1>3, <1>4, <1>13 DEF Finish
<1> QED
  BY <1>5, <1>6, <1>7, <1>8, <1>9, <1>10, <1>11, <1>12, <1>13
     DEF Step, GoesOn

(* Whatever fails and whoever else calls: no path through a binding, its   *)
(* nested finally blocks included, leads back to an earlier stage of the   *)
(* call.  Each step of a call leaves it fewer to take, no step of another  *)
(* caller leaves it more, and with none left the caller has its answer.    *)
THEOREM CallsWearOff == Spec => CallsOnlyGetNearer
<1>1. ASSUME IInv, [Next]_vars, NEW c \in Callers  PROVE GetsNearer(c)
  <2>1. StepsLeft(c) \in Nat
    BY <1>1, StepsAreCounted
  <2>2. Step(c) => StepsLeft(c)' < StepsLeft(c)
    BY <1>1, StepIsNearer
  <2>3. ASSUME pc'[c] = "idle"  PROVE StepsLeft(c)' <= StepsLeft(c)
    <3>1. StepsLeft(c)' = 0
      BY <2>3 DEF StepsLeft, Stages
    <3> QED  BY <2>1, <3>1
  <2>4. ASSUME pc'[c] = pc[c], todo'[c] = todo[c]
        PROVE  StepsLeft(c)' <= StepsLeft(c)
    <3>1. StepsLeft(c)' = StepsLeft(c)
      BY <2>4 DEF StepsLeft
    <3> QED  BY <2>1, <3>1
  <2>5. ASSUME pc[c] # "idle"  PROVE StepsLeft(c)' <= StepsLeft(c)
    <3>1. CASE UNCHANGED vars
      BY <2>4, <3>1 DEF vars, caller
    <3>2. CASE ProcessEnds
      BY <2>3, <3>2 DEF ProcessEnds, Idle
    <3>3. CASE Start(c)
      BY <2>5, <3>3 DEF Start
    <3>4. CASE Step(c)
      BY <1>1, <2>1, <3>4, StepIsNearer
    <3>5. ASSUME NEW d \in Callers, d # c, Start(d) \/ Step(d)
          PROVE  StepsLeft(c)' <= StepsLeft(c)
      BY <1>1, <2>3, <2>4, <3>5, OthersKeepTheDistance
    <3> QED  BY <1>1, <3>1, <3>2, <3>3, <3>4, <3>5 DEF Next
  <2> QED  BY <2>2, <2>5 DEF GetsNearer
<1>2. IInv /\ [Next]_vars => [\A c \in Callers : GetsNearer(c)]_vars
  BY <1>1
<1> QED  BY <1>2, Invariant, PTL DEF Spec, CallsOnlyGetNearer

-----------------------------------------------------------------------------
(* Refinement: what applications obtain through a binding is what the C    *)
(* ABI of ApprovalProof gives to a caller with the same arguments.         *)

(* The layouts the languages repeat are the header's.                      *)
LEMMA SameLayouts ==
    ASSUME NEW l \in Langs
    PROVE  StatementLayout[l] = CStatement /\ InputLayout[l] = CProverInput
<1>1. GoStatement = CStatement /\ GoProverInput = CProverInput
  BY DEF GoStatement, CStatement, GoProverInput, CProverInput
<1>2. TsStatement = CStatement /\ TsProverInput = CProverInput
  BY DEF TsStatement, CStatement, TsProverInput, CProverInput
<1>3. SwiftStatement = CStatement /\ SwiftProverInput = CProverInput
  BY DEF SwiftStatement, CStatement, SwiftProverInput, CProverInput, LengthOf
<1> QED  BY <1>1, <1>2, <1>3 DEF Langs, StatementLayout, InputLayout

LEMMA ReadsBack ==
    ASSUME NEW written, NEW layout, DOMAIN written = DOMAIN layout,
           written = [f \in DOMAIN layout |-> written[f]],
           \A f, g \in DOMAIN layout : layout[f] = layout[g] => f = g
    PROVE  Read(written, layout, layout) = written
<1>1. ASSUME NEW f \in DOMAIN layout
      PROVE  (CHOOSE g \in DOMAIN layout : layout[g] = layout[f]) = f
  OBVIOUS
<1> QED  BY <1>1 DEF Read

(* What the caller wrote is what the native side reads.                    *)
LEMMA StatementArrives ==
    ASSUME NEW l \in Langs, NEW st \in Statement
    PROVE  ReadStatement(l, st) = st
<1>1. StatementLayout[l] = CStatement
  BY SameLayouts
<1>2. /\ DOMAIN st = DOMAIN CStatement
      /\ st = [f \in DOMAIN CStatement |-> st[f]]
  BY DEF Statement, CStatement
<1>3. \A f, g \in DOMAIN CStatement : CStatement[f] = CStatement[g] => f = g
  BY DEF CStatement
<1> QED  BY <1>1, <1>2, <1>3, ReadsBack DEF ReadStatement

LEMMA InputArrives ==
    ASSUME NEW l \in Langs, NEW st \in Statement, NEW a, NEW b, NEW c, NEW d
    PROVE  LET w == [attestation |-> a, attestationSig |-> b,
                     assertion |-> c, assertionSig |-> d]
           IN  ReadProverInput(l, st, w) = [statement |-> st, witness |-> w]
<1> DEFINE w == [attestation |-> a, attestationSig |-> b,
                 assertion |-> c, assertionSig |-> d]
           p == [statement |-> ReadStatement(l, st), attestation |-> w.attestation,
                 attestationSig |-> w.attestationSig,
                 assertion |-> w.assertion, assertionSig |-> w.assertionSig]
<1>1. InputLayout[l] = CProverInput /\ ReadStatement(l, st) = st
  BY SameLayouts, StatementArrives
<1>2. /\ DOMAIN p = DOMAIN CProverInput
      /\ p = [f \in DOMAIN CProverInput |-> p[f]]
  BY DEF CProverInput
<1>3. \A f, g \in DOMAIN CProverInput : CProverInput[f] = CProverInput[g] => f = g
  BY DEF CProverInput
<1>4. Read(p, InputLayout[l], CProverInput) = p
  BY <1>1, <1>2, <1>3, ReadsBack
<1>5. /\ p.statement = st /\ p.attestation = a /\ p.attestationSig = b
      /\ p.assertion = c /\ p.assertionSig = d
  BY <1>1
<1>6. ReadProverInput(l, st, w) =
         [statement |-> p.statement,
          witness |-> [attestation |-> p.attestation, attestationSig |-> p.attestationSig,
                       assertion |-> p.assertion, assertionSig |-> p.assertionSig]]
  BY <1>4 DEF ReadProverInput
<1> HIDE DEF p
<1> QED  BY <1>5, <1>6

-----------------------------------------------------------------------------
(* A handler that does not succeed does not say it did.                    *)
LEMMA FailureShows ==
    ASSUME NEW checks, DOMAIN checks \subseteq Nat,
           \A i \in DOMAIN checks : checks[i].code # "SUCCESS",
           ABI!ResultCode(checks) = "SUCCESS"
    PROVE  ABI!Succeeds(checks)
<1> SUFFICES ASSUME ~ABI!Succeeds(checks)  PROVE FALSE
  OBVIOUS
<1>1. PICK i \in DOMAIN checks :
        /\ checks[i].fails
        /\ \A j \in DOMAIN checks : checks[j].fails => i <= j
  BY FirstIsThere
<1> QED  BY <1>1, FirstFailure

LEMMA CodesOfFailures ==
    ASSUME NEW k, k.op \in Ops \ {"none"}, NEW st, NEW w, NEW nulls,
           NEW mallocOk
    PROVE  LET checks == NativeChecks(k, st, w, nulls, mallocOk)
           IN  /\ DOMAIN checks \subseteq Nat
               /\ \A i \in DOMAIN checks : checks[i].code # "SUCCESS"
<1> DEFINE checks == NativeChecks(k, st, w, nulls, mallocOk)
<1>1. CASE k.op = "generate"
  <2>1. PICK out : checks = GenerateChecks(out, mallocOk)
    BY <1>1 DEF NativeChecks
  <2> QED  BY <2>1 DEF GenerateChecks, ABI!Check
<1>2. CASE k.op = "prove"
  <2>1. PICK c : checks = ABI!ProverChecks(c)
    BY <1>2 DEF NativeChecks
  <2> HIDE DEF checks
  <2>2. /\ DOMAIN checks = 1..12
        /\ \A i \in 1..12 : checks[i].code # "SUCCESS"
    BY <2>1 DEF ABI!ProverChecks, ABI!Check
  <2> QED  BY <2>2 DEF checks
<1>3. CASE k.op = "verify"
  <2>1. PICK c : checks = ABI!VerifierChecks(c)
    BY <1>3 DEF NativeChecks
  <2> HIDE DEF checks
  <2>2. /\ DOMAIN checks = 1..10
        /\ \A i \in 1..10 : checks[i].code # "SUCCESS"
    BY <2>1 DEF ABI!VerifierChecks, ABI!Check
  <2> QED  BY <2>2 DEF checks
<1>4. CASE k.op = "circuitId"
  <2>1. PICK circuit : checks = ABI!CircuitIdChecks(circuit)
    BY <1>4 DEF NativeChecks
  <2> HIDE DEF checks
  <2>2. /\ DOMAIN checks = 1..4
        /\ \A i \in 1..4 : checks[i].code # "SUCCESS"
    BY <2>1 DEF ABI!CircuitIdChecks, ABI!Check
  <2> QED  BY <2>2 DEF checks
<1> QED  BY <1>1, <1>2, <1>3, <1>4 DEF Ops

(* A prover that succeeds was given what it would have been given directly,*)
(* with sound pointers and enough memory.                                  *)
LEMMA ProverIsDirect ==
    ASSUME NEW k, k.op = "prove", NEW st, NEW w, NEW nulls,
           NEW mallocOk \in BOOLEAN,
           ABI!Succeeds(NativeChecks(k, st, w, nulls, mallocOk))
    PROVE  ABI!Succeeds(ABI!ProverChecks(ABI!ProverCall(k.circuit, st, w)))
<1> DEFINE or(role, value) == IF role \in nulls THEN "null" ELSE value
           out == or("outPtr", or("outLen", "ok"))
           c == [circuit |-> or("circuit", k.circuit), out |-> out,
                 input |-> or("input", "bytes"), statement |-> st,
                 witness |-> w, mallocOk |-> mallocOk]
           checks == ABI!ProverChecks(c)
<1>1. NativeChecks(k, st, w, nulls, mallocOk) = checks
  BY DEF NativeChecks
<1>2. /\ c.input = or("input", "bytes") /\ c.out = out
      /\ c.circuit = or("circuit", k.circuit) /\ c.mallocOk = mallocOk
  OBVIOUS
<1> HIDE DEF c
<1>3. /\ DOMAIN checks = 1..12
      /\ checks[1].fails = (c.input = "null")
      /\ checks[3].fails = (c.circuit = "null" \/ c.out = "null")
      /\ checks[12].fails = ~c.mallocOk
  BY DEF ABI!ProverChecks, ABI!Check
<1> HIDE DEF checks
<1>4. ~checks[1].fails /\ ~checks[3].fails /\ ~checks[12].fails
  BY <1>1, <1>3 DEF ABI!Succeeds
<1>5. /\ or("input", "bytes") = "bytes" /\ out = "ok"
      /\ or("circuit", k.circuit) = k.circuit /\ mallocOk = TRUE
  BY <1>2, <1>3, <1>4
<1>6. c = ABI!ProverCall(k.circuit, st, w)
  BY <1>5 DEF c, ABI!ProverCall
<1> QED  BY <1>1, <1>6 DEF checks

(* So was a verifier.                                                      *)
LEMMA VerifierIsDirect ==
    ASSUME NEW k, k.op = "verify", NEW st, NEW w, NEW nulls, NEW mallocOk,
           k.proofArg \in {"bytes", "empty", "unreadable"},
           ABI!Succeeds(NativeChecks(k, st, w, nulls, mallocOk))
    PROVE  /\ k.proofArg = "bytes"
           /\ ABI!Succeeds(ABI!VerifierChecks(
                    ABI!VerifierCall(k.circuit, st, k.proof)))
<1> DEFINE or(role, value) == IF role \in nulls THEN "null" ELSE value
           c == [circuit |-> or("circuit", k.circuit),
                 input |-> or("statement", "bytes"), statement |-> st,
                 proofArg |-> or("proof", k.proofArg), proof |-> k.proof]
           checks == ABI!VerifierChecks(c)
<1>1. NativeChecks(k, st, w, nulls, mallocOk) = checks
  BY DEF NativeChecks
<1>2. /\ c.input = or("statement", "bytes")
      /\ c.circuit = or("circuit", k.circuit)
      /\ c.proofArg = or("proof", k.proofArg)
  OBVIOUS
<1> HIDE DEF c
<1>3. /\ DOMAIN checks = 1..10
      /\ checks[1].fails = (c.input = "null")
      /\ checks[3].fails = (c.circuit = "null" \/ c.proofArg = "null")
      /\ checks[4].fails = (c.circuit = "empty" \/ c.proofArg = "empty")
      /\ checks[9].fails = (c.proofArg = "unreadable")
  BY DEF ABI!VerifierChecks, ABI!Check
<1> HIDE DEF checks
<1>4. /\ ~checks[1].fails /\ ~checks[3].fails
      /\ ~checks[4].fails /\ ~checks[9].fails
  BY <1>1, <1>3 DEF ABI!Succeeds
<1>5. /\ or("statement", "bytes") = "bytes"
      /\ or("circuit", k.circuit) = k.circuit
      /\ or("proof", k.proofArg) = "bytes" /\ k.proofArg = "bytes"
  BY <1>2, <1>3, <1>4
<1>6. c = ABI!VerifierCall(k.circuit, st, k.proof)
  BY <1>5 DEF c, ABI!VerifierCall
<1> QED  BY <1>1, <1>5, <1>6 DEF checks

-----------------------------------------------------------------------------
(* What is true of a call's arguments and of its answer, on top of IInv.   *)

ProverMay(k) ==
    ABI!Succeeds(ABI!ProverChecks(
        ABI!ProverCall(k.circuit, k.statement, k.witness)))
VerifierMay(k) ==
    /\ k.proofArg = "bytes"
    /\ ABI!Succeeds(ABI!VerifierChecks(
            ABI!VerifierCall(k.circuit, k.statement, k.proof)))
ProofOf(k) == ABI!Proof(k.circuit, ABI!FillPublicInputs(k.statement))

(* The arguments are ones a caller can have.                               *)
Asked(k, known) ==
    /\ k.op = "prove" =>
        /\ k.circuit \in Circuits /\ k.statement \in Statements
        /\ k.witness \in Witnesses
    /\ k.op = "verify" =>
        /\ k.circuit \in Circuits /\ k.statement \in Statements
        /\ \/ k.proofArg = "bytes" /\ k.proof \in known
           \/ k.proofArg \in {"empty", "unreadable"}

(* The native call at "where" has returned SUCCESS.                        *)
Returned(where, answer) ==
    where \in {"copy", "release"} \/ (where = "finish" /\ answer = "SUCCESS")

Earned(k, where, answer, got) ==
    Returned(where, answer) =>
        /\ k.op = "prove" => ProverMay(k)
        /\ k.op = "verify" => VerifierMay(k)
        /\ k.op = "prove" /\ where # "copy" => got = ProofOf(k)

Honest(c) ==
    pc[c] # "idle" =>
        /\ Asked(call[c], proofs)
        /\ ~spoiled => Earned(call[c], pc[c], code[c], result[c])

CanonicalProofs ==
    {ABI!Proof("canonical", ABI!FillPublicInputs(st)) : st \in Statements}

RInv ==
    /\ DOMAIN result = Callers
    /\ proofs \subseteq CanonicalProofs
    /\ \A c \in Callers : Honest(c)

Same(d) ==
    /\ pc'[d] = pc[d] /\ call'[d] = call[d] /\ code'[d] = code[d]
    /\ result'[d] = result[d]

LEMMA StaysHonest ==
    ASSUME NEW d, Same(d), Honest(d), proofs \subseteq proofs',
           ~spoiled' => ~spoiled
    PROVE  Honest(d)'
<1>1. Asked(call[d], proofs) => Asked(call[d], proofs')
  BY DEF Asked
<1>2. CASE pc[d] = "idle"
  BY <1>2 DEF Same, Honest
<1>3. CASE pc[d] # "idle"
  BY <1>1, <1>3 DEF Same, Honest
<1> QED  BY <1>2, <1>3

LEMMA OneHonestCaller ==
    ASSUME RInv, NEW c \in Callers, \A d \in Callers \ {c} : Same(d),
           proofs \subseteq proofs', proofs' \subseteq CanonicalProofs,
           ~spoiled' => ~spoiled, DOMAIN result' = Callers, Honest(c)'
    PROVE  RInv'
<1>1. CanonicalProofs' = CanonicalProofs
  BY DEF CanonicalProofs, ABI!Proof, ABI!FillPublicInputs
<1>2. \A d \in Callers \ {c} : Honest(d)'
  BY StaysHonest DEF RInv
<1> QED  BY <1>1, <1>2 DEF RInv

LEMMA EndHonest ==
    ASSUME RInv, ProcessEnds  PROVE RInv'
<1>1. CanonicalProofs' = CanonicalProofs
  BY DEF CanonicalProofs, ABI!Proof, ABI!FillPublicInputs
<1>2. /\ DOMAIN result' = Callers /\ proofs' = proofs
      /\ \A c \in Callers : pc'[c] = "idle"
  BY DEF ProcessEnds, Idle
<1> QED  BY <1>1, <1>2 DEF RInv, Honest

LEMMA StartHonest ==
    ASSUME IInv, RInv, NEW c \in Callers, Start(c)  PROVE RInv'
<1>1. PICK k \in Calls :
        /\ call' = [call EXCEPT ![c] = k]
        /\ Goto(c, IF BuffersOf(k.op) = <<>> THEN "native" ELSE "marshal")
  BY DEF Start
<1>2. UNCHANGED <<spoiled, code, result, proofs>>
  BY DEF Start, process
<1>3. Asked(k, proofs)
  BY DEF Calls, CallOf, Asked
<1>4. /\ call'[c] = k /\ pc'[c] \in {"native", "marshal"}
      /\ \A d \in Callers \ {c} : Same(d)
  BY <1>1, <1>2 DEF IInv, TypeOK, Goto, Same
<1>5. Honest(c)'
  BY <1>2, <1>3, <1>4 DEF Honest, Earned, Returned
<1> QED  BY <1>2, <1>4, <1>5, OneHonestCaller DEF RInv

LEMMA MallocHonest ==
    ASSUME IInv, RInv, NEW c \in Callers, ~spoiled,
           Malloc(c) \/ MallocFails(c)
    PROVE  RInv'
<1>1. /\ pc[c] = "marshal"
      /\ \/ (\E where \in {"native", "marshal"} : Goto(c, where))
            /\ UNCHANGED code
         \/ Goto(c, "finish") /\ code' = [code EXCEPT ![c] = "thrown"]
      /\ UNCHANGED <<call, result, proofs>>
  BY DEF Malloc, MallocFails
<1>2. /\ call'[c] = call[c]
      /\ \/ pc'[c] \in {"native", "marshal"}
         \/ pc'[c] = "finish" /\ code'[c] = "thrown"
      /\ \A d \in Callers \ {c} : Same(d)
  BY <1>1 DEF IInv, TypeOK, Goto, Same
<1>3. Honest(c)'
  BY <1>1, <1>2 DEF RInv, Honest, Earned, Returned
<1> QED  BY <1>1, <1>2, <1>3, OneHonestCaller DEF RInv

(* What the native side received is what the caller passed.                *)
LEMMA ReceivedIsAsked ==
    ASSUME IInv, NEW k, Asked(k, proofs), k.op = "prove" \/ k.op = "verify"
    PROVE  /\ Received(k).statement = k.statement
           /\ k.op = "prove" => Received(k).witness = k.witness
<1>1. k.statement \in Statement /\ lang \in Langs
  BY MessageAssumption DEF Asked, IInv, TypeOK
<1>2. CASE k.op = "verify"
  <2>1. Received(k) = [statement |-> ReadStatement(lang, k.statement),
                       witness |-> Nothing]
    BY <1>2 DEF Received
  <2> QED  BY <1>1, <1>2, <2>1, StatementArrives
<1>3. CASE k.op = "prove"
  <2>1. PICK att \in AttestationMsgs, asr \in AssertionMsgs :
          k.witness \in [attestation: {att}, attestationSig: SigsFor(att),
                         assertion: {asr}, assertionSig: SigsFor(asr)]
    BY <1>3, CallerAssumption DEF Asked
  <2>2. k.witness = [attestation |-> k.witness.attestation,
                     attestationSig |-> k.witness.attestationSig,
                     assertion |-> k.witness.assertion,
                     assertionSig |-> k.witness.assertionSig]
    BY <2>1
  <2>3. ReadProverInput(lang, k.statement, k.witness) =
            [statement |-> k.statement, witness |-> k.witness]
    BY <1>1, <2>2, InputArrives
  <2> QED  BY <1>3, <2>3 DEF Received
<1> QED  BY <1>2, <1>3

LEMMA NativeReturnsHonest ==
    ASSUME IInv, RInv, NEW c \in Callers, NativeReturns(c)  PROVE RInv'
<1> DEFINE k == call[c]
<1>1. /\ pc[c] = "native" /\ k.op \in Ops \ {"none"} /\ Asked(k, proofs)
  BY DEF NativeReturns, IInv, OnItsWay, RInv, Honest
<1>0. PICK mallocOk \in BOOLEAN, got \in {Received(k)} :
       \E checks \in {Checks(c, got, mallocOk)} :
        /\ code' = [code EXCEPT ![c] = ABI!ResultCode(checks)]
        /\ IF ABI!Succeeds(checks) THEN Goto(c, StageAfter("native", k.op))
           ELSE Goto(c, "finish")
  BY DEF NativeReturns
<1>2. PICK checks \in {Checks(c, got, mallocOk)} :
        /\ code' = [code EXCEPT ![c] = ABI!ResultCode(checks)]
        /\ IF ABI!Succeeds(checks) THEN Goto(c, StageAfter("native", k.op))
           ELSE Goto(c, "finish")
  BY <1>0
<1>3. UNCHANGED <<spoiled, call, result, proofs>>
  BY DEF NativeReturns, process
<1>4. checks = NativeChecks(k, got.statement, got.witness, NullPointers(c),
                            mallocOk)
  BY <1>2 DEF Checks
<1>5. StageAfter("native", k.op) = IF Copies(k.op) THEN "copy" ELSE "finish"
  BY DEF StageAfter
<1>6. /\ call'[c] = k /\ code'[c] = ABI!ResultCode(checks)
      /\ pc'[c] = IF ABI!Succeeds(checks) /\ Copies(k.op) THEN "copy"
                  ELSE "finish"
      /\ \A d \in Callers \ {c} : Same(d)
  BY <1>2, <1>3, <1>5 DEF IInv, TypeOK, Goto, Same
<1>7. ASSUME ~ABI!Succeeds(checks)
      PROVE  ABI!ResultCode(checks) # "SUCCESS"
  <2>1. /\ DOMAIN checks \subseteq Nat
        /\ \A i \in DOMAIN checks : checks[i].code # "SUCCESS"
    BY <1>1, <1>4, CodesOfFailures
  <2> QED  BY <1>7, <2>1, FailureShows
<1>8. CASE ABI!Succeeds(checks) /\ k.op = "prove"
  <2>1. got.statement = k.statement /\ got.witness = k.witness
    BY <1>1, <1>2, <1>8, ReceivedIsAsked
  <2>2. ABI!Succeeds(NativeChecks(k, k.statement, k.witness, NullPointers(c),
                                  mallocOk))
    BY <1>4, <1>8, <2>1
  <2>3. ProverMay(k)
    BY <1>8, <2>2, ProverIsDirect DEF ProverMay
  <2>4. pc'[c] = "copy"
    BY <1>6, <1>8 DEF Copies, ReturnsBlock
  <2>5. Honest(c)'
    BY <1>1, <1>3, <1>6, <1>8, <2>3, <2>4 DEF Honest, Earned
  <2> QED  BY <1>3, <1>6, <2>5, OneHonestCaller DEF RInv
<1>9. CASE ABI!Succeeds(checks) /\ k.op = "verify"
  <2>1. got.statement = k.statement
    BY <1>1, <1>2, <1>9, ReceivedIsAsked
  <2>2. ABI!Succeeds(NativeChecks(k, k.statement, got.witness,
                                  NullPointers(c), mallocOk))
    BY <1>4, <1>9, <2>1
  <2>3. k.proofArg \in {"bytes", "empty", "unreadable"}
    BY <1>1, <1>9 DEF Asked
  <2>4. VerifierMay(k)
    BY <1>9, <2>2, <2>3, VerifierIsDirect DEF VerifierMay
  <2>5. Honest(c)'
    BY <1>1, <1>3, <1>6, <1>9, <2>4 DEF Honest, Earned
  <2> QED  BY <1>3, <1>6, <2>5, OneHonestCaller DEF RInv
<1>10. CASE ~ABI!Succeeds(checks) \/ k.op \notin {"prove", "verify"}
  <2>1. Returned(pc'[c], code'[c]) => k.op \notin {"prove", "verify"}
    BY <1>6, <1>7, <1>10 DEF Returned
  <2>2. Honest(c)'
    BY <1>1, <1>3, <1>6, <2>1 DEF Honest, Earned
  <2> QED  BY <1>3, <1>6, <2>2, OneHonestCaller DEF RInv
<1> QED  BY <1>8, <1>9, <1>10

(* A call that ends without an answer of the native side's.                *)
LEMMA Unanswered ==
    ASSUME IInv, RInv, NEW c \in Callers, NEW word, word # "SUCCESS",
           pc[c] # "idle", Goto(c, "finish"),
           code' = [code EXCEPT ![c] = word],
           UNCHANGED <<spoiled, call, result, proofs>>
    PROVE  RInv'
<1>1. /\ call'[c] = call[c] /\ code'[c] # "SUCCESS" /\ pc'[c] = "finish"
      /\ \A d \in Callers \ {c} : Same(d)
  BY DEF IInv, TypeOK, Goto, Same
<1>2. Honest(c)'
  BY <1>1 DEF RInv, Honest, Earned, Returned
<1> QED  BY <1>1, <1>2, OneHonestCaller DEF RInv

LEMMA NativeAbortsHonest ==
    ASSUME IInv, RInv, NEW c \in Callers, NativeAborts(c)  PROVE RInv'
<1>1. CASE ProcessEnds
  BY <1>1, EndHonest
<1>2. CASE ~ProcessEnds
  <2>1. /\ pc[c] # "idle" /\ Goto(c, "finish")
        /\ code' = [code EXCEPT ![c] = "trap"]
        /\ UNCHANGED <<spoiled, call, result, proofs>>
    BY <1>2 DEF NativeAborts, process
  <2> QED  BY <2>1, Unanswered
<1> QED  BY <1>1, <1>2

LEMMA CopyFailsHonest ==
    ASSUME IInv, RInv, NEW c \in Callers, CopyFails(c)  PROVE RInv'
<1>1. CASE ProcessEnds
  BY <1>1, EndHonest
<1>2. CASE ~ProcessEnds
  <2>1. /\ pc[c] # "idle" /\ Goto(c, "finish")
        /\ code' = [code EXCEPT ![c] = "copy failed"]
        /\ UNCHANGED <<spoiled, call, result, proofs>>
    BY <1>2 DEF CopyFails, process
  <2> QED  BY <2>1, Unanswered
<1> QED  BY <1>1, <1>2

LEMMA AnythingHappensHonest ==
    ASSUME IInv, RInv, NEW c \in Callers, spoiled, AnythingHappens(c)
    PROVE  RInv'
<1>1. /\ pc[c] # "idle" /\ spoiled' /\ Goto(c, "finish")
      /\ \E answer : code' = [code EXCEPT ![c] = answer]
      /\ UNCHANGED <<call, result, proofs>>
  BY DEF AnythingHappens, process
<1>2. call'[c] = call[c] /\ \A d \in Callers \ {c} : Same(d)
  BY <1>1 DEF IInv, TypeOK, Goto, Same
<1>3. Honest(c)'
  BY <1>1, <1>2 DEF RInv, Honest
<1> QED  BY <1>1, <1>2, <1>3, OneHonestCaller DEF RInv

LEMMA CopyOutHonest ==
    ASSUME IInv, RInv, NEW c \in Callers, CopyOut(c)  PROVE RInv'
<1> DEFINE k == call[c]
<1>1. /\ pc[c] = "copy" /\ Goto(c, StageAfter("copy", k.op))
      /\ result' = [result EXCEPT ![c] = BlockContent(k)]
      /\ UNCHANGED <<spoiled, call, code, proofs>>
  BY DEF CopyOut
<1>2. /\ Asked(k, proofs)
      /\ ~spoiled => Earned(k, "copy", code[c], result[c])
  BY <1>1 DEF RInv, Honest
<1>3. k.op = "prove" => BlockContent(k) = ProofOf(k)
  <2> SUFFICES ASSUME k.op = "prove"  PROVE BlockContent(k) = ProofOf(k)
    OBVIOUS
  <2>1. Received(k).statement = k.statement
    BY <1>2, ReceivedIsAsked
  <2> HIDE DEF k
  <2> QED  BY <2>1 DEF BlockContent, ProofOf
<1>4. StageAfter("copy", k.op) \in {"release", "finish"}
  BY DEF StageAfter
<1>5. /\ call'[c] = k /\ pc'[c] \in {"release", "finish"}
      /\ result'[c] = BlockContent(k) /\ DOMAIN result' = Callers
      /\ \A d \in Callers \ {c} : Same(d)
  BY <1>1, <1>4 DEF RInv, IInv, TypeOK, Goto, Same
<1>6. Honest(c)'
  BY <1>1, <1>2, <1>3, <1>5 DEF Honest, Earned, Returned
<1> QED  BY <1>1, <1>5, <1>6, OneHonestCaller DEF RInv

LEMMA ReleaseHonest ==
    ASSUME IInv, RInv, NEW c \in Callers, Release(c)  PROVE RInv'
<1>1. /\ pc[c] = "release" /\ Goto(c, "finish")
      /\ UNCHANGED <<spoiled, call, code, result, proofs>>
  BY DEF Release, StageAfter
<1>2. /\ call'[c] = call[c] /\ pc'[c] = "finish"
      /\ \A d \in Callers \ {c} : Same(d)
  BY <1>1 DEF IInv, TypeOK, Goto, Same
<1>3. Honest(c)'
  BY <1>1, <1>2 DEF RInv, Honest, Earned, Returned
<1> QED  BY <1>1, <1>2, <1>3, OneHonestCaller DEF RInv

(* A circuit that passes the prover's checks is the canonical one.         *)
LEMMA OnlyCanonicalProves ==
    ASSUME NEW k, ProverMay(k)  PROVE k.circuit = "canonical"
<1> DEFINE c == ABI!ProverCall(k.circuit, k.statement, k.witness)
           checks == ABI!ProverChecks(c)
<1>1. c.circuit = k.circuit
  BY DEF ABI!ProverCall
<1> HIDE DEF c
<1>2. /\ DOMAIN checks = 1..12
      /\ checks[7].fails = ~ABI!ParsesCircuit(k.circuit)
      /\ checks[8].fails = ~ABI!MatchesExpectedId(k.circuit)
  BY <1>1 DEF ABI!ProverChecks, ABI!Check
<1> HIDE DEF checks
<1>3. ~checks[7].fails /\ ~checks[8].fails
  BY <1>2 DEF ProverMay, ABI!Succeeds, checks, c
<1> QED
  BY <1>2, <1>3 DEF ABI!ParsesCircuit, ABI!MatchesExpectedId,
     ABI!EmbeddedId, ABI!CircuitIdOf, ABI!ExpectedCircuitId

(* What the end of a call adds.                                            *)
LEMMA Outcome ==
    ASSUME IInv, RInv, NEW c \in Callers, Finish(c)
    PROVE  LET k == call[c] IN
           \/ UNCHANGED <<proofs, accepted>>
           \/ /\ k.op = "prove" /\ Asked(k, proofs) /\ ProverMay(k)
              /\ proofs' = proofs \cup {ProofOf(k)} /\ UNCHANGED accepted
           \/ /\ k.op = "verify" /\ Asked(k, proofs) /\ VerifierMay(k)
              /\ accepted' = accepted \cup {k.statement} /\ UNCHANGED proofs
<1> DEFINE k == call[c]
           ok == code[c] = "SUCCESS" /\ ~spoiled
<1>1. /\ pc[c] = "finish"
      /\ proofs' = proofs \cup {p \in {result[c]} : k.op = "prove" /\ ok}
      /\ accepted' = accepted \cup {st \in {k.statement} : k.op = "verify" /\ ok}
  BY DEF Finish
<1>2. /\ Asked(k, proofs)
      /\ ok => Earned(k, "finish", "SUCCESS", result[c])
  BY <1>1 DEF RInv, Honest
<1>3. ok => /\ k.op = "prove" => ProverMay(k) /\ result[c] = ProofOf(k)
            /\ k.op = "verify" => VerifierMay(k)
  BY <1>2 DEF Earned, Returned
<1> HIDE DEF k, ok
<1>4. CASE k.op = "prove" /\ ok
  BY <1>1, <1>2, <1>3, <1>4 DEF k
<1>5. CASE k.op = "verify" /\ ok
  BY <1>1, <1>2, <1>3, <1>5 DEF k
<1>6. CASE ~ok \/ k.op \notin {"prove", "verify"}
  BY <1>1, <1>6
<1> QED  BY <1>4, <1>5, <1>6

LEMMA FinishHonest ==
    ASSUME IInv, RInv, NEW c \in Callers, Finish(c)  PROVE RInv'
<1> DEFINE k == call[c]
<1>1. /\ Goto(c, "idle") /\ UNCHANGED spoiled
      /\ call' = [call EXCEPT ![c] = NoCall]
      /\ code' = [code EXCEPT ![c] = "none"]
      /\ result' = [result EXCEPT ![c] = NoProof]
  BY DEF Finish
<1>2. proofs \subseteq proofs' /\ proofs' \subseteq CanonicalProofs
  <2>1. CASE UNCHANGED proofs
    BY <2>1 DEF RInv
  <2>2. CASE /\ k.op = "prove" /\ Asked(k, proofs) /\ ProverMay(k)
             /\ proofs' = proofs \cup {ProofOf(k)}
    <3>1. k.circuit = "canonical" /\ k.statement \in Statements
      BY <2>2, OnlyCanonicalProves DEF Asked
    <3>2. ProofOf(k) \in CanonicalProofs
      BY <3>1 DEF ProofOf, CanonicalProofs
    <3> QED  BY <2>2, <3>2 DEF RInv
  <2> QED  BY <2>1, <2>2, Outcome
<1>3. /\ pc'[c] = "idle" /\ DOMAIN result' = Callers
      /\ \A d \in Callers \ {c} : Same(d)
  BY <1>1 DEF RInv, IInv, TypeOK, Goto, Same
<1>4. Honest(c)'
  BY <1>3 DEF Honest
<1> QED  BY <1>1, <1>2, <1>3, <1>4, OneHonestCaller

LEMMA HonestInitially == Init => RInv
  BY DEF Init, Idle, RInv, Honest

LEMMA HonestInductive == IInv /\ RInv /\ [Next]_vars => RInv'
<1> SUFFICES ASSUME IInv, RInv, [Next]_vars  PROVE RInv'
  OBVIOUS
<1>1. CASE UNCHANGED vars
  <2>1. /\ \A c \in Callers : Same(c)
        /\ UNCHANGED <<proofs, spoiled, result>>
    BY <1>1 DEF vars, process, caller, Same
  <2>2. \A c \in Callers : Honest(c)'
    BY <2>1, StaysHonest DEF RInv
  <2>3. CanonicalProofs' = CanonicalProofs
    BY DEF CanonicalProofs, ABI!Proof, ABI!FillPublicInputs
  <2> QED  BY <2>1, <2>2, <2>3 DEF RInv
<1>2. CASE ProcessEnds
  BY <1>2, EndHonest
<1>3. ASSUME NEW c \in Callers, Start(c) \/ Step(c)  PROVE RInv'
  BY <1>3, StartHonest, MallocHonest, NativeReturnsHonest,
     NativeAbortsHonest, AnythingHappensHonest, CopyOutHonest,
     CopyFailsHonest, ReleaseHonest, FinishHonest DEF Step, GoesOn
<1> QED  BY <1>1, <1>2, <1>3 DEF Next

-----------------------------------------------------------------------------
(* Every step is one of the C ABI's, or none.                              *)

LEMMA FewProofs ==
    ASSUME proofs \subseteq CanonicalProofs
    PROVE  Cardinality(proofs) < MaxProofs
<1> DEFINE f == [st \in Statements |->
                    ABI!Proof("canonical", ABI!FillPublicInputs(st))]
<1>1. f \in Surjection(Statements, CanonicalProofs)
  BY DEF Surjection, CanonicalProofs
<1>2. IsFiniteSet(Statements) /\ Cardinality(Statements) < MaxProofs
      /\ MaxProofs \in Nat
  BY BoundAssumption
<1>3. /\ IsFiniteSet(CanonicalProofs)
      /\ Cardinality(CanonicalProofs) <= Cardinality(Statements)
  BY <1>1, <1>2, FS_Surjection
<1>4. /\ IsFiniteSet(proofs)
      /\ Cardinality(proofs) <= Cardinality(CanonicalProofs)
  BY <1>3, FS_Subset
<1>5. /\ Cardinality(proofs) \in Nat /\ Cardinality(Statements) \in Nat
      /\ Cardinality(CanonicalProofs) \in Nat
  BY <1>2, <1>3, <1>4, FS_CardinalityType
<1> QED  BY <1>2, <1>3, <1>4, <1>5

LEMMA HeldIsKnown ==
    ASSUME NEW w \in Witnesses  PROVE w \in ABI!ProverWitnesses
<1>1. PICK att \in AttestationMsgs, asr \in AssertionMsgs :
        /\ w \in [attestation: {att}, attestationSig: SigsFor(att),
                  assertion: {asr}, assertionSig: SigsFor(asr)]
        /\ att.len = AttestationLength /\ asr.len = ApprovalAssertionLength
  BY CallerAssumption
<1>2. /\ SigsFor(att) = ABI!KnownSigs(att)
      /\ SigsFor(asr) = ABI!KnownSigs(asr)
  BY DEF SigsFor, ABI!KnownSigs
<1>3. w \in ABI!WitnessesFor(att, asr)
  BY <1>1, <1>2 DEF ABI!WitnessesFor
<1>4. <<att, asr>> \in AttestationMsgs \X AssertionMsgs
      /\ <<att, asr>>[1] = att /\ <<att, asr>>[2] = asr
  OBVIOUS
<1>5. w \in ABI!KnownWitnesses
  BY <1>3, <1>4 DEF ABI!KnownWitnesses
<1>6. w.attestation = att /\ w.assertion = asr
  BY <1>1
<1> QED
  BY <1>1, <1>5, <1>6 DEF ABI!ProverWitnesses, AttestationLength,
     ABI!AttestationLength, ApprovalAssertionLength,
     ABI!ApprovalAssertionLength

LEMMA FinishIsAbi ==
    ASSUME IInv, RInv, NEW c \in Callers, Finish(c)
    PROVE  ABI!RunProver \/ ABI!RunVerifier \/ UNCHANGED <<proofs, accepted>>
<1> DEFINE k == call[c]
<1>1. CASE UNCHANGED <<proofs, accepted>>
  BY <1>1
<1>2. CASE /\ k.op = "prove" /\ Asked(k, proofs) /\ ProverMay(k)
           /\ proofs' = proofs \cup {ProofOf(k)} /\ UNCHANGED accepted
  <2>1. k.circuit \in ABI!ReadableCircuits /\ k.statement \in Statements
    BY <1>2, OnlyCanonicalProves DEF Asked, ABI!ReadableCircuits
  <2>2. k.witness \in ABI!ProverWitnesses
    BY <1>2, HeldIsKnown DEF Asked
  <2>3. ABI!Cardinality(proofs) < MaxProofs
    <3>1. ABI!Cardinality(proofs) = Cardinality(proofs)
      BY DEF Cardinality, ABI!Cardinality
    <3> QED  BY <3>1, FewProofs DEF RInv
  <2> DEFINE d == ABI!ProverCall(k.circuit, k.statement, k.witness)
  <2>4. /\ ABI!Succeeds(ABI!ProverChecks(d))
        /\ d.circuit = k.circuit /\ d.statement = k.statement
    BY <1>2 DEF ProverMay, ABI!ProverCall
  <2>5. proofs' = proofs \cup
            {ABI!Proof(d.circuit, ABI!FillPublicInputs(d.statement))}
    BY <1>2, <2>4 DEF ProofOf
  <2>6. UNCHANGED <<Signatures, accepted>>
    BY <1>2
  <2> HIDE DEF d, k
  <2>7. \E circuit \in ABI!ReadableCircuits, st \in Statements,
           w \in ABI!ProverWitnesses :
          LET e == ABI!ProverCall(circuit, st, w) IN
          /\ ABI!Succeeds(ABI!ProverChecks(e))
          /\ proofs' = proofs \cup
                {ABI!Proof(e.circuit, ABI!FillPublicInputs(e.statement))}
    BY <2>1, <2>2, <2>4, <2>5 DEF d
  <2> QED  BY <2>3, <2>6, <2>7 DEF ABI!RunProver
<1>3. CASE /\ k.op = "verify" /\ Asked(k, proofs) /\ VerifierMay(k)
           /\ accepted' = accepted \cup {k.statement} /\ UNCHANGED proofs
  <2>1. /\ k.circuit \in ABI!CircuitArgs /\ k.statement \in Statements
        /\ k.proof \in proofs
    BY <1>3, CallerAssumption DEF Asked, VerifierMay
  <2>2. ABI!Succeeds(ABI!VerifierChecks(
            ABI!VerifierCall(k.circuit, k.statement, k.proof)))
    BY <1>3 DEF VerifierMay
  <2> HIDE DEF k
  <2>3. UNCHANGED <<Signatures, proofs>>
    BY <1>3
  <2> QED  BY <1>3, <2>1, <2>2, <2>3 DEF ABI!RunVerifier
<1> QED  BY <1>1, <1>2, <1>3, Outcome

LEMMA NothingElseShows ==
    ASSUME IInv, RInv, [Next]_vars
    PROVE  ABI!RunProver \/ ABI!RunVerifier \/ UNCHANGED <<proofs, accepted>>
<1>1. CASE UNCHANGED vars \/ ProcessEnds
  BY <1>1 DEF vars, ProcessEnds
<1>2. ASSUME NEW c \in Callers, Start(c) \/ (Step(c) /\ ~Finish(c))
      PROVE  UNCHANGED <<proofs, accepted>>
  BY <1>2 DEF Start, Step, GoesOn, Malloc, MallocFails, NativeReturns,
     NativeAborts, AnythingHappens, CopyOut, CopyFails, Release, ProcessEnds
<1>3. ASSUME NEW c \in Callers, Finish(c)
      PROVE  ABI!RunProver \/ ABI!RunVerifier \/ UNCHANGED <<proofs, accepted>>
  BY <1>3, FinishIsAbi
<1> QED  BY <1>1, <1>2, <1>3 DEF Next

(* Whatever the language, the callers and the failures: the proofs and the *)
(* verdicts applications obtain are those of one call of the C ABI's prover*)
(* or verifier with the caller's own arguments, and nothing else shows.    *)
THEOREM BindingsImplementTheCAbi == Spec => ImplementsTheCAbi
<1> DEFINE AbiStep == /\ <<proofs, accepted>>' # <<proofs, accepted>>
                      /\ ABI!RunProver \/ ABI!RunVerifier
<1>1. IInv /\ RInv /\ [Next]_vars => [AbiStep]_<<proofs, accepted>>
  BY NothingElseShows
<1>2. Spec => []RInv
  BY HonestInitially, HonestInductive, Invariant, PTL DEF Spec
<1>3. Spec => [][AbiStep]_<<proofs, accepted>>
  BY <1>1, <1>2, Invariant, PTL DEF Spec
<1> QED  BY <1>3 DEF ImplementsTheCAbi
-----------------------------------------------------------------------------
(* What a code is called in each binding, and what its text says.          *)

AllCodes ==
    {"SUCCESS", "NULL_INPUT", "INVALID_INPUT", "CIRCUIT_PARSING_FAILURE",
     "PROOF_PARSING_FAILURE", "WITNESS_CREATION_FAILURE", "PROOF_FAILURE",
     "VERIFICATION_FAILURE", "MEMORY_ALLOCATION_FAILURE",
     "CIRCUIT_ID_MISMATCH", "INPUT_TOO_LARGE", "MALFORMED_SIGNATURE",
     "GENERAL_FAILURE"}

(* Which code a text belongs to.                                           *)
CodeOfText(text) ==
    CASE text = "success" -> "SUCCESS"
      [] text = "null input" -> "NULL_INPUT"
      [] text = "invalid input" -> "INVALID_INPUT"
      [] text = "circuit parsing failure" -> "CIRCUIT_PARSING_FAILURE"
      [] text = "proof parsing failure" -> "PROOF_PARSING_FAILURE"
      [] text = "witness creation failure" -> "WITNESS_CREATION_FAILURE"
      [] text = "proof generation failure" -> "PROOF_FAILURE"
      [] text = "verification failure" -> "VERIFICATION_FAILURE"
      [] text = "memory allocation failure" -> "MEMORY_ALLOCATION_FAILURE"
      [] text = "circuit id does not match canonical expected id" ->
            "CIRCUIT_ID_MISMATCH"
      [] text = "input exceeds maximum supported length" -> "INPUT_TOO_LARGE"
      [] text = "malformed signature or off-curve issuer public key" ->
            "MALFORMED_SIGNATURE"
      [] text = "general failure" -> "GENERAL_FAILURE"
      [] OTHER -> "none"

(* A text tells the code apart from every other.                           *)
LEMMA TextsDiffer ==
    ASSUME NEW op, NEW a \in AllCodes
    PROVE  CodeOfText(ErrorString(op, a)) = a
<1>1. CASE a = "SUCCESS"
  BY <1>1, Zenon DEF ErrorString, CodeOfText
<1>2. CASE a = "NULL_INPUT"
  BY <1>2, Zenon DEF ErrorString, CodeOfText
<1>3. CASE a = "INVALID_INPUT"
  BY <1>3, Zenon DEF ErrorString, CodeOfText
<1>4. CASE a = "CIRCUIT_PARSING_FAILURE"
  BY <1>4, Zenon DEF ErrorString, CodeOfText
<1>5. CASE a = "PROOF_PARSING_FAILURE"
  BY <1>5, Zenon DEF ErrorString, CodeOfText
<1>6. CASE a = "WITNESS_CREATION_FAILURE"
  BY <1>6, Zenon DEF ErrorString, CodeOfText
<1>7. CASE a = "PROOF_FAILURE"
  BY <1>7, Zenon DEF ErrorString, CodeOfText
<1>8. CASE a = "VERIFICATION_FAILURE"
  BY <1>8, Zenon DEF ErrorString, CodeOfText
<1>9. CASE a = "MEMORY_ALLOCATION_FAILURE"
  BY <1>9, Zenon DEF ErrorString, CodeOfText
<1>10. CASE a = "CIRCUIT_ID_MISMATCH"
  BY <1>10, Zenon DEF ErrorString, CodeOfText
<1>11. CASE a = "INPUT_TOO_LARGE"
  BY <1>11, Zenon DEF ErrorString, CodeOfText
<1>12. CASE a = "MALFORMED_SIGNATURE"
  BY <1>12, Zenon DEF ErrorString, CodeOfText
<1>13. CASE a = "GENERAL_FAILURE"
  BY <1>13, Zenon DEF ErrorString, CodeOfText
<1> QED
  BY <1>1, <1>2, <1>3, <1>4, <1>5, <1>6, <1>7, <1>8, <1>9, <1>10, <1>11,
     <1>12, <1>13, Zenon DEF AllCodes

(* The operations have no other codes.                                     *)
LEMMA OpCodes ==
    ASSUME NEW op \in Ops \ {"none"}
    PROVE  Codes(op) \subseteq AllCodes
<1>1. \A i \in DOMAIN CCodes[op] : CCodes[op][i] \in AllCodes
  <2>1. CASE op = "prove"
    BY <2>1 DEF CCodes, ProverCodes, AllCodes
  <2>2. CASE op = "verify"
    BY <2>2 DEF CCodes, VerifierCodes, AllCodes
  <2>3. CASE op = "generate"
    BY <2>3 DEF CCodes, GenerationCodes, AllCodes
  <2>4. CASE op = "circuitId"
    BY <2>4 DEF CCodes, CircuitIdCodes, AllCodes
  <2> QED  BY <2>1, <2>2, <2>3, <2>4 DEF Ops
<1> QED  BY <1>1 DEF Codes

(* TypeScript's tables are the header's.                                   *)
LEMMA SameNames ==
    ASSUME NEW op \in Ops \ {"none"}
    PROVE  TsCodes[op] = CCodes[op]
  BY DEF Ops, TsCodes, CCodes, ProverCodes, VerifierCodes, GenerationCodes, CircuitIdCodes

LEMMA SameName ==
    ASSUME NEW l, NEW op \in Ops \ {"none"}, NEW a \in Codes(op)
    PROVE  NameInBinding(l, op, a) = a
<1>1. \E i \in DOMAIN CCodes[op] : CCodes[op][i] = a
  BY DEF Codes
<1>2. CCodes[op][Number(op, a)] = a
  BY <1>1 DEF Number
<1> QED BY <1>2, SameNames DEF NameInBinding

-----------------------------------------------------------------------------
(* A third invariant, for what a call is answered.                         *)

(* The rest of a call's arguments: none but what the operation takes.      *)
Formed(k) ==
    /\ k.op \notin {"prove", "verify"} => k.statement = Nothing
    /\ k.op # "prove" => k.witness = Nothing
    /\ EmptyRoles(k) \subseteq Needs(k.op)

(* What AnswersLikeTheCAbi says the answer is.                             *)
Expected(l, k) ==
    IF l = "go" /\ EmptyRoles(k) # {} THEN "NULL_INPUT"
    ELSE DirectAnswer(k)

Tells(l, k, answer) ==
    answer \in Codes(k.op) \ {"MEMORY_ALLOCATION_FAILURE"} =>
        answer = Expected(l, k)

(* What a caller is told is the direct answer, or that memory was short.   *)
Candid(c) ==
    pc[c] # "idle" =>
        /\ Formed(call[c])
        /\ (/\ pc[c] \in {"copy", "release", "finish"}
            /\ ~spoiled /\ null[c] = {}) => Tells(lang, call[c], code[c])

AInv == \A c \in Callers : Candid(c)

(* Every call that can be made is of this form.                            *)
LEMMA CallsFormed == \A k \in Calls : Formed(k)
<1>1. ASSUME NEW k, k.proofArg # "empty", k.circuit = "none"
      PROVE  EmptyRoles(k) = {}
  BY <1>1 DEF EmptyRoles
<1>2. ASSUME NEW k, k.proofArg # "empty"
      PROVE  EmptyRoles(k) \subseteq {"circuit"}
  BY <1>2 DEF EmptyRoles
<1>3. ASSUME NEW k  PROVE EmptyRoles(k) \subseteq {"circuit", "proof"}
  BY DEF EmptyRoles
<1> SUFFICES ASSUME NEW k \in Calls  PROVE Formed(k)
  OBVIOUS
<1>4. CASE k = CallOf("generate", "none", Nothing, Nothing, "none", NoProof)
  <2>1. /\ k.op = "generate" /\ k.circuit = "none" /\ k.proofArg = "none"
        /\ k.statement = Nothing /\ k.witness = Nothing
    BY <1>4 DEF CallOf
  <2> QED  BY <1>1, <2>1 DEF Formed
<1>5. CASE \E c \in Circuits, st \in Statements, w \in Witnesses :
             k = CallOf("prove", c, st, w, "none", NoProof)
  <2>1. k.op = "prove" /\ k.proofArg = "none"
    BY <1>5 DEF CallOf
  <2> QED  BY <1>2, <2>1 DEF Formed, Needs
<1>6. CASE \E c \in Circuits, st \in Statements : \E arg, p :
             k = CallOf("verify", c, st, Nothing, arg, p)
  <2>1. k.op = "verify" /\ k.witness = Nothing
    BY <1>6 DEF CallOf
  <2> QED  BY <1>3, <2>1 DEF Formed, Needs
<1>7. CASE \E c \in Circuits :
             k = CallOf("circuitId", c, Nothing, Nothing, "none", NoProof)
  <2>1. /\ k.op = "circuitId" /\ k.proofArg = "none"
        /\ k.statement = Nothing /\ k.witness = Nothing
    BY <1>7 DEF CallOf
  <2> QED  BY <1>2, <2>1 DEF Formed, Needs
<1> QED  BY <1>4, <1>5, <1>6, <1>7 DEF Calls

(* A shortage of memory found by the last check changes no other answer.   *)
LEMMA LastCheck ==
    ASSUME NEW n \in Nat, NEW ample, NEW short,
           DOMAIN ample = 1..n + 1, DOMAIN short = 1..n + 1,
           \A i \in 1..n : short[i] = ample[i],
           ~ample[n + 1].fails, short[n + 1].code = "MEMORY_ALLOCATION_FAILURE"
    PROVE  ABI!ResultCode(short) \in
              {ABI!ResultCode(ample), "MEMORY_ALLOCATION_FAILURE"}
<1>1. /\ 1..n + 1 \subseteq Nat
      /\ \A i \in 1..n + 1 : i \in 1..n \/ i = n + 1
      /\ \A i \in 1..n : i \in 1..n + 1 /\ i <= n + 1
  OBVIOUS
<1>2. CASE ABI!Succeeds(short)
  <2>1. ABI!Succeeds(ample)
    BY <1>1, <1>2 DEF ABI!Succeeds
  <2> QED  BY <1>2, <2>1 DEF ABI!ResultCode
<1>3. CASE ~ABI!Succeeds(short)
  <2>1. PICK i \in 1..n + 1 :
          /\ short[i].fails
          /\ \A j \in 1..n + 1 : short[j].fails => i <= j
    BY <1>1, <1>3, FirstIsThere
  <2>2. ABI!ResultCode(short) = short[i].code
    BY <1>1, <2>1, FirstFailure
  <2>3. CASE i = n + 1
    BY <2>2, <2>3
  <2>4. CASE i \in 1..n
    <3>1. ample[i].fails /\ ample[i].code = short[i].code
      BY <2>1, <2>4
    <3>2. \A j \in 1..n + 1 : ample[j].fails => i <= j
      BY <1>1, <2>1
    <3>3. ABI!ResultCode(ample) = ample[i].code
      BY <1>1, <3>1, <3>2, FirstFailure
    <3> QED  BY <2>2, <3>1, <3>3
  <2> QED  BY <1>1, <2>3, <2>4
<1> QED  BY <1>2, <1>3

(* The check for memory, with and without.                                 *)
LEMMA MemoryChecks ==
    ASSUME NEW a
    PROVE  /\ ~ABI!Check(~TRUE, a).fails
           /\ \A fails : ABI!Check(fails, a).code = a
  BY DEF ABI!Check

(* With sound pointers a binding gets the direct answer, or hears that     *)
(* there was no memory.                                                    *)
LEMMA DirectOrNoMemory ==
    ASSUME NEW k, k.op \in Ops \ {"none"}, NEW mallocOk \in BOOLEAN
    PROVE  ABI!ResultCode(NativeChecks(k, k.statement, k.witness, {}, mallocOk))
              \in {DirectAnswer(k), "MEMORY_ALLOCATION_FAILURE"}
<1> DEFINE short == NativeChecks(k, k.statement, k.witness, {}, FALSE)
           ample == NativeChecks(k, k.statement, k.witness, {}, TRUE)
<1>1. CASE mallocOk
  BY <1>1 DEF DirectAnswer
<1>2. CASE k.op \in {"verify", "circuitId"}
  <2>1. short = ample
    BY <1>2 DEF NativeChecks
  <2> QED  BY <1>1, <2>1 DEF DirectAnswer
<1>3. CASE k.op = "generate"
  <2>1. short = GenerateChecks("ok", FALSE) /\ ample = GenerateChecks("ok", TRUE)
    BY <1>3 DEF NativeChecks
  <2> HIDE DEF short, ample
  <2>2. /\ DOMAIN ample = 1..1 + 1 /\ DOMAIN short = 1..1 + 1
        /\ \A i \in 1..1 : short[i] = ample[i]
        /\ ~ample[1 + 1].fails
        /\ short[1 + 1].code = "MEMORY_ALLOCATION_FAILURE"
    <3>1. /\ DOMAIN ample = 1..2 /\ DOMAIN short = 1..2
          /\ ample[2] = ABI!Check(~TRUE, "MEMORY_ALLOCATION_FAILURE")
          /\ short[2] = ABI!Check(~FALSE, "MEMORY_ALLOCATION_FAILURE")
      BY <2>1 DEF GenerateChecks
    <3>2. short[1] = ample[1]
      BY <2>1 DEF GenerateChecks
    <3> HIDE DEF GenerateChecks
    <3>3. 1 + 1 = 2 /\ \A i \in 1..1 : i = 1
      OBVIOUS
    <3>4. ~ample[2].fails /\ short[2].code = "MEMORY_ALLOCATION_FAILURE"
      BY <3>1, MemoryChecks
    <3> QED  BY <3>1, <3>2, <3>3, <3>4
  <2>3. ABI!ResultCode(short) \in
            {ABI!ResultCode(ample), "MEMORY_ALLOCATION_FAILURE"}
    BY <2>2, LastCheck
  <2> QED  BY <1>1, <2>3 DEF DirectAnswer, short, ample
<1>4. CASE k.op = "prove"
  <2> DEFINE with(ok) ==
                [circuit |-> k.circuit, out |-> "ok", input |-> "bytes",
                 statement |-> k.statement, witness |-> k.witness,
                 mallocOk |-> ok]
             poor == with(FALSE)
             rich == with(TRUE)
  <2>1. short = ABI!ProverChecks(poor) /\ ample = ABI!ProverChecks(rich)
    BY <1>4 DEF NativeChecks
  <2>2. /\ poor.circuit = rich.circuit /\ poor.out = rich.out
        /\ poor.input = rich.input /\ poor.statement = rich.statement
        /\ poor.witness = rich.witness /\ rich.mallocOk = TRUE
    OBVIOUS
  <2> HIDE DEF short, ample, with, poor, rich
  <2>3. /\ DOMAIN ample = 1..12 /\ DOMAIN short = 1..12
        /\ ample[12] = ABI!Check(~rich.mallocOk, "MEMORY_ALLOCATION_FAILURE")
        /\ short[12] = ABI!Check(~poor.mallocOk, "MEMORY_ALLOCATION_FAILURE")
    BY <2>1 DEF ABI!ProverChecks
  <2>4. /\ short[1] = ample[1] /\ short[2] = ample[2]
        /\ short[3] = ample[3] /\ short[4] = ample[4]
    BY <2>1, <2>2 DEF ABI!ProverChecks
  <2>6. /\ short[5] = ample[5] /\ short[6] = ample[6]
        /\ short[7] = ample[7] /\ short[8] = ample[8]
    BY <2>1, <2>2 DEF ABI!ProverChecks
  <2>7. /\ short[9] = ample[9] /\ short[10] = ample[10]
        /\ short[11] = ample[11]
    BY <2>1, <2>2 DEF ABI!ProverChecks
  <2>8. \A i \in 1..11 : short[i] = ample[i]
    BY <2>4, <2>6, <2>7
  <2>9. ~ample[12].fails /\ short[12].code = "MEMORY_ALLOCATION_FAILURE"
    <3>1. rich.mallocOk = TRUE
      BY <2>2
    <3>2. ~ABI!Check(~rich.mallocOk, "MEMORY_ALLOCATION_FAILURE").fails
      BY ONLY <3>1 DEF ABI!Check
    <3> QED  BY <2>3, <3>2, MemoryChecks
  <2>10. 11 + 1 = 12
    OBVIOUS
  <2>5. ABI!ResultCode(short) \in
            {ABI!ResultCode(ample), "MEMORY_ALLOCATION_FAILURE"}
    BY <2>3, <2>8, <2>9, <2>10, LastCheck
  <2> QED  BY <1>1, <2>5 DEF DirectAnswer, short, ample
<1> QED  BY <1>2, <1>3, <1>4 DEF Ops

(* What the native side receives, whatever the operation.                  *)
LEMMA AllReceived ==
    ASSUME IInv, NEW k, Asked(k, proofs), Formed(k), k.op \in Ops \ {"none"}
    PROVE  Received(k).statement = k.statement /\ Received(k).witness = k.witness
<1>1. CASE k.op = "prove"
  BY <1>1, ReceivedIsAsked
<1>2. CASE k.op = "verify"
  <2>1. Received(k).witness = Nothing
    BY <1>2 DEF Received
  <2> QED  BY <1>2, <2>1, ReceivedIsAsked DEF Formed
<1>3. CASE k.op \notin {"prove", "verify"}
  BY <1>3 DEF Received, Formed
<1> QED  BY <1>1, <1>2, <1>3

(* Conclusion of every step of one caller.                                 *)
LEMMA OneCandidCaller ==
    ASSUME IInv, AInv, NEW c \in Callers, Candid(c)', lang' = lang,
           ~spoiled' => ~spoiled,
           \A d \in Callers \ {c} :
                /\ pc'[d] = pc[d] /\ call'[d] = call[d]
                /\ code'[d] = code[d] /\ null'[d] = null[d]
    PROVE  AInv'
<1> SUFFICES ASSUME NEW d \in Callers \ {c}  PROVE Candid(d)'
  BY DEF AInv
<1>1. Candid(d)
  BY DEF AInv
<1> QED  BY <1>1 DEF Candid

(* The native call: the one step that answers.                             *)
LEMMA NativeReturnsCandid ==
    ASSUME IInv, RInv, AInv, NEW c \in Callers, NativeReturns(c)
    PROVE  Candid(c)'
<1> DEFINE k == call[c]
<1>1. /\ pc[c] = "native" /\ k.op \in Ops \ {"none"} /\ Asked(k, proofs)
      /\ Formed(k)
  BY DEF NativeReturns, IInv, OnItsWay, RInv, Honest, AInv, Candid
<1>2. PICK mallocOk \in BOOLEAN, got \in {Received(k)} :
       \E checks \in {Checks(c, got, mallocOk)} :
          code' = [code EXCEPT ![c] = ABI!ResultCode(checks)]
  BY DEF NativeReturns
<1>3. /\ UNCHANGED <<lang, spoiled, call, null>>
      /\ code'[c] = ABI!ResultCode(Checks(c, got, mallocOk))
  BY <1>2 DEF NativeReturns, process, IInv
<1>4. Checks(c, got, mallocOk) =
        NativeChecks(k, k.statement, k.witness, NullPointers(c), mallocOk)
  BY <1>1, <1>2, AllReceived DEF Checks
<1>5. ASSUME null[c] = {}  PROVE Tells(lang, k, code'[c])
  <2>1. NullPointers(c) = IF lang = "go" THEN EmptyRoles(k) ELSE {}
    BY <1>5 DEF NullPointers
  <2>2. CASE lang = "go" /\ EmptyRoles(k) # {}
    <3>1. NullPointers(c) # {} /\ NullPointers(c) \subseteq Needs(k.op)
      BY <1>1, <2>1, <2>2 DEF Formed
    <3>2. code'[c] = "NULL_INPUT"
      BY <1>1, <1>3, <1>4, <3>1, NullIsReported
    <3> QED  BY <2>2, <3>2 DEF Tells, Expected
  <2>3. CASE ~(lang = "go" /\ EmptyRoles(k) # {})
    <3>1. NullPointers(c) = {}
      BY <2>1, <2>3
    <3>2. code'[c] \in {DirectAnswer(k), "MEMORY_ALLOCATION_FAILURE"}
      BY <1>1, <1>3, <1>4, <3>1, DirectOrNoMemory
    <3> QED  BY <2>3, <3>2 DEF Tells, Expected
  <2> QED  BY <2>2, <2>3
<1> QED  BY <1>1, <1>3, <1>5 DEF Candid

(* What a failed call of the application or of the module says is no code. *)
LEMMA NoCodes ==
    ASSUME NEW op \in Ops \ {"none"}
    PROVE  "trap" \notin Codes(op) /\ "copy failed" \notin Codes(op)
<1>1. Codes(op) \subseteq AllCodes
  BY OpCodes
<1>2. "trap" \notin AllCodes /\ "copy failed" \notin AllCodes
  BY Zenon DEF AllCodes
<1> QED  BY <1>1, <1>2, Zenon

(* One lemma for each step that sets a code, one for all of a caller's.    *)
LEMMA EndsCandid ==
    ASSUME ProcessEnds  PROVE AInv'
  BY DEF ProcessEnds, Idle, AInv, Candid

LEMMA AbortsCandid ==
    ASSUME IInv, AInv, NEW c \in Callers, NativeAborts(c), ~ProcessEnds
    PROVE  Candid(c)'
<1>1. /\ pc[c] = "native" /\ call[c].op \in Ops \ {"none"} /\ Formed(call[c])
  BY DEF NativeAborts, IInv, OnItsWay, AInv, Candid
<1>2. call' = call /\ code'[c] = "trap"
  BY DEF NativeAborts, IInv
<1>3. Tells(lang', call[c], code'[c])
  BY <1>1, <1>2, NoCodes DEF Tells
<1> QED  BY <1>1, <1>2, <1>3 DEF Candid

LEMMA CopyFailsCandid ==
    ASSUME IInv, AInv, NEW c \in Callers, CopyFails(c), ~ProcessEnds
    PROVE  Candid(c)'
<1>1. /\ pc[c] = "copy" /\ call[c].op \in Ops \ {"none"} /\ Formed(call[c])
  BY DEF CopyFails, IInv, OnItsWay, AInv, Candid
<1>2. call' = call /\ "copy failed" = code'[c]
  BY DEF CopyFails, IInv
<1>3. Tells(lang', call[c], code'[c])
  BY <1>1, <1>2, NoCodes, Zenon DEF Tells
<1> QED  BY <1>1, <1>2, <1>3, Zenon DEF Candid

LEMMA StepsCandid ==
    ASSUME IInv, RInv, AInv, NEW c \in Callers, Start(c) \/ Step(c),
           ~ProcessEnds
    PROVE  Candid(c)'
<1>1. CASE Start(c)
  <2>1. PICK k \in Calls :
          /\ call'[c] = k
          /\ pc'[c] \in {"native", "marshal"}
    BY <1>1 DEF Start, Goto, IInv, TypeOK
  <2> QED  BY <2>1, CallsFormed DEF Candid
<1>2. CASE Malloc(c) \/ MallocFails(c)
  <2>0. /\ null \in [Callers -> SUBSET Roles] /\ pc[c] = "marshal"
        /\ call' = call
    BY <1>2 DEF Malloc, MallocFails, IInv, TypeOK
  <2>5. MallocFails(c) => null'[c] # {}
    BY <2>0 DEF MallocFails
  <2>1. /\ pc[c] = "marshal" /\ call' = call
        /\ pc'[c] \in {"native", "marshal"} \/ null'[c] # {}
    BY <1>2, <2>0, <2>5 DEF Malloc, Goto, IInv, TypeOK
  <2> QED  BY <2>1 DEF AInv, Candid
<1>3. CASE NativeReturns(c)
  BY <1>3, NativeReturnsCandid
<1>4. CASE NativeAborts(c)
  BY <1>4, AbortsCandid
<1>5. CASE spoiled /\ AnythingHappens(c)
  <2>1. pc[c] # "idle" /\ call' = call /\ spoiled'
    BY <1>5 DEF AnythingHappens, process
  <2> QED  BY <2>1 DEF AInv, Candid
<1>6. CASE CopyOut(c) \/ Release(c)
  <2>1. /\ pc[c] \in {"copy", "release"}
        /\ UNCHANGED <<lang, spoiled, call, null, code>>
    BY <1>6 DEF CopyOut, Release
  <2> QED  BY <2>1 DEF AInv, Candid
<1>7. CASE CopyFails(c)
  BY <1>7, CopyFailsCandid
<1>8. CASE Finish(c)
  <2>1. pc'[c] = "idle"
    BY <1>8 DEF Finish, Goto, IInv, TypeOK
  <2> QED  BY <2>1 DEF Candid
<1> QED
  BY <1>1, <1>2, <1>3, <1>4, <1>5, <1>6, <1>7, <1>8 DEF Step, GoesOn

(* A step of one caller leaves the others where they are.                  *)
LEMMA OthersCandid ==
    ASSUME IInv, NEW c \in Callers, Start(c) \/ Step(c), ~ProcessEnds
    PROVE  /\ lang' = lang /\ (~spoiled' => ~spoiled)
           /\ \A d \in Callers \ {c} :
                /\ pc'[d] = pc[d] /\ call'[d] = call[d]
                /\ code'[d] = code[d] /\ null'[d] = null[d]
<1>1. lang' = lang /\ (~spoiled' => ~spoiled)
  <2>1. Start(c) \/ Malloc(c) \/ NativeReturns(c) \/ AnythingHappens(c)
            => UNCHANGED process
    BY DEF Start, Malloc, NativeReturns, AnythingHappens
  <2>2. NativeAborts(c) \/ CopyFails(c) => UNCHANGED process
    BY DEF NativeAborts, CopyFails
  <2>3. CopyOut(c) \/ Release(c) \/ Finish(c) => UNCHANGED <<lang, spoiled>>
    BY DEF CopyOut, Release, Finish
  <2>4. MallocFails(c) => UNCHANGED lang
    BY DEF MallocFails
  <2> QED  BY <2>1, <2>2, <2>3, <2>4 DEF Step, GoesOn, process
<1>2. \E where : Goto(c, where)
  BY DEF Start, Step, GoesOn, Malloc, MallocFails, NativeReturns,
     NativeAborts, AnythingHappens, CopyOut, CopyFails, Release, Finish
<1>3. /\ \E v : call' = [call EXCEPT ![c] = v] \/ call' = call
      /\ \E v : code' = [code EXCEPT ![c] = v] \/ code' = code
      /\ \E v : null' = [null EXCEPT ![c] = v] \/ null' = null
  BY DEF Start, Step, GoesOn, Malloc, MallocFails, NativeReturns,
     NativeAborts, AnythingHappens, CopyOut, CopyFails, Release, Finish
<1> QED  BY <1>1, <1>2, <1>3 DEF Goto, IInv, TypeOK

(* So the third invariant is inductive, on top of the other two.           *)
LEMMA CandidInductive == IInv /\ RInv /\ AInv /\ [Next]_vars => AInv'
<1> SUFFICES ASSUME IInv, RInv, AInv, [Next]_vars  PROVE AInv'
  OBVIOUS
<1>1. CASE UNCHANGED vars
  BY <1>1 DEF vars, process, caller, AInv, Candid
<1>2. CASE ProcessEnds
  BY <1>2, EndsCandid
<1>3. ASSUME NEW c \in Callers, Start(c) \/ Step(c), ~ProcessEnds
      PROVE  AInv'
  <2>1. Candid(c)'
    BY <1>3, StepsCandid
  <2>2. /\ lang' = lang /\ (~spoiled' => ~spoiled)
        /\ \A d \in Callers \ {c} :
                /\ pc'[d] = pc[d] /\ call'[d] = call[d]
                /\ code'[d] = code[d] /\ null'[d] = null[d]
    BY <1>3, OthersCandid
  <2> QED  BY <2>1, <2>2, OneCandidCaller
<1> QED  BY <1>1, <1>2, <1>3 DEF Next

(* Whatever the language, the callers and the arguments: a call that had   *)
(* its memory ends with the code the C ABI gives the same arguments, under *)
(* the same name and with a text no other code of the operation has; but   *)
(* for the empty slices of Go, which are null pointers.                    *)
THEOREM SameAnswerEverywhere == Spec => []AnswersLikeTheCAbi
<1>1. Init => AInv
  BY DEF Init, Idle, AInv, Candid
<1>2. Spec => []AInv
  <2>1. Spec => []RInv
    BY HonestInitially, HonestInductive, Invariant, PTL DEF Spec
  <2> QED  BY <1>1, <2>1, CandidInductive, Invariant, PTL DEF Spec
<1>3. ASSUME IInv, AInv, NEW c \in Callers, pc[c] = "finish", ~spoiled,
             null[c] = {},
             code[c] \in Codes(call[c].op) \ {"MEMORY_ALLOCATION_FAILURE"}
      PROVE  /\ NameInBinding(lang, call[c].op, code[c]) =
                    Expected(lang, call[c])
             /\ \A other \in Codes(call[c].op) \ {code[c]} :
                    ErrorString(call[c].op, other) #
                        ErrorString(call[c].op, code[c])
  <2>1. call[c].op \in Ops \ {"none"}
    BY <1>3 DEF IInv, OnItsWay
  <2>2. code[c] = Expected(lang, call[c])
    BY <1>3 DEF AInv, Candid, Tells
  <2>3. NameInBinding(lang, call[c].op, code[c]) = code[c]
    BY <1>3, <2>1, SameName
  <2>4. Codes(call[c].op) \subseteq AllCodes
    BY <2>1, OpCodes
  <2>5. ASSUME NEW other \in Codes(call[c].op) \ {code[c]}
        PROVE  ErrorString(call[c].op, other) #
                    ErrorString(call[c].op, code[c])
    BY <1>3, <2>4, <2>5, TextsDiffer
  <2> QED  BY <2>2, <2>3, <2>5
<1>4. IInv /\ AInv => AnswersLikeTheCAbi
  BY <1>3 DEF AnswersLikeTheCAbi, Expected
<1> QED  BY <1>2, <1>4, Invariant, PTL
=============================================================================

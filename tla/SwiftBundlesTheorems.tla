------------------------ MODULE SwiftBundlesTheorems ------------------------
(***************************************************************************)
(* For any variants of the two platforms and any order of make targets,    *)
(* edits, clones and kills: no stub is accepted or staged, what make       *)
(* ensured is accepted, and no target spoils the other platform's bundle.  *)
(***************************************************************************)
EXTENDS SwiftBundles, TLAPS

(* A list of steps: what it holds, and in which order.                     *)
In(s, x) == \E i \in DOMAIN s : s[i] = x
Before(s, x, y) == \A i \in DOMAIN s : s[i] = y => \E j \in 1..(i - 1) : s[j] = x
After(s, x, y) ==
    \A i \in DOMAIN s : s[i] = x => \E j \in (i + 1)..Len(s) : s[j] = y

LEMMA InJoined ==
    ASSUME NEW S, NEW s \in Seq(S), NEW t \in Seq(S), NEW x
    PROVE  In(s \o t, x) <=> In(s, x) \/ In(t, x)
<1>1. ASSUME NEW i \in DOMAIN s, s[i] = x  PROVE In(s \o t, x)
  BY <1>1 DEF In
<1>2. ASSUME NEW i \in DOMAIN t, t[i] = x  PROVE In(s \o t, x)
  <2>1. i + Len(s) \in DOMAIN (s \o t) /\ (s \o t)[i + Len(s)] = t[i]
    OBVIOUS
  <2> QED  BY <1>2, <2>1 DEF In
<1>3. ASSUME NEW i \in DOMAIN (s \o t), (s \o t)[i] = x
      PROVE  In(s, x) \/ In(t, x)
  <2>1. CASE i <= Len(s)
    <3>1. i \in DOMAIN s /\ s[i] = x
      BY <1>3, <2>1
    <3> QED  BY <3>1 DEF In
  <2>2. CASE i > Len(s)
    <3>1. i - Len(s) \in DOMAIN t /\ t[i - Len(s)] = x
      BY <1>3, <2>2
    <3> QED  BY <3>1 DEF In
  <2> QED  BY <2>1, <2>2
<1> QED  BY <1>1, <1>2, <1>3 DEF In

(* Popping the head.                                                       *)
LEMMA InTail ==
    ASSUME NEW S, NEW s \in Seq(S), s # <<>>, NEW x
    PROVE  In(s, x) <=> Head(s) = x \/ In(Tail(s), x)
<1>1. ASSUME NEW i \in DOMAIN s, s[i] = x  PROVE Head(s) = x \/ In(Tail(s), x)
  <2>1. CASE i = 1
    BY <1>1, <2>1
  <2>2. CASE i # 1
    <3>1. i - 1 \in DOMAIN Tail(s) /\ Tail(s)[i - 1] = x
      BY <1>1, <2>2
    <3> QED  BY <3>1 DEF In
  <2> QED  BY <2>1, <2>2
<1>2. ASSUME NEW i \in DOMAIN Tail(s), Tail(s)[i] = x  PROVE In(s, x)
  <2>1. i + 1 \in DOMAIN s /\ s[i + 1] = x
    BY <1>2
  <2> QED  BY <2>1 DEF In
<1>3. Head(s) = x => In(s, x)
  <2>1. 1 \in DOMAIN s /\ s[1] = Head(s)
    OBVIOUS
  <2> QED  BY <2>1 DEF In
<1> QED  BY <1>1, <1>2, <1>3 DEF In

LEMMA BeforeTail ==
    ASSUME NEW S, NEW s \in Seq(S), s # <<>>, NEW x, NEW y, Before(s, x, y)
    PROVE  /\ Head(s) # x => Before(Tail(s), x, y)
           /\ Head(s) # y
<1>1. Head(s) # y
  <2>1. 1 \in DOMAIN s /\ s[1] = Head(s) /\ 1..(1 - 1) = {}
    OBVIOUS
  <2> QED  BY <2>1 DEF Before
<1>2. ASSUME Head(s) # x, NEW i \in DOMAIN Tail(s), Tail(s)[i] = y
      PROVE  \E j \in 1..(i - 1) : Tail(s)[j] = x
  <2>1. i + 1 \in DOMAIN s /\ s[i + 1] = y
    BY <1>2
  <2>2. PICK j \in 1..((i + 1) - 1) : s[j] = x
    BY <2>1 DEF Before
  <2>3. j # 1
    BY <1>2, <2>2
  <2>4. j - 1 \in 1..(i - 1) /\ Tail(s)[j - 1] = x
    BY <1>2, <2>2, <2>3
  <2> QED  BY <2>4
<1> QED  BY <1>1, <1>2 DEF Before

LEMMA BeforeJoined ==
    ASSUME NEW S, NEW s \in Seq(S), NEW t \in Seq(S), NEW x, NEW y,
           Before(s, x, y), In(s, x) \/ Before(t, x, y)
    PROVE  Before(s \o t, x, y)
<1> SUFFICES ASSUME NEW i \in DOMAIN (s \o t), (s \o t)[i] = y
             PROVE  \E j \in 1..(i - 1) : (s \o t)[j] = x
  BY DEF Before
<1>1. CASE i <= Len(s)
  <2>1. i \in DOMAIN s /\ s[i] = y
    BY <1>1
  <2>2. PICK j \in 1..(i - 1) : s[j] = x
    BY <2>1 DEF Before
  <2>3. (s \o t)[j] = x
    BY <2>1, <2>2
  <2> QED  BY <2>3
<1>2. CASE i > Len(s) /\ In(s, x)
  <2>1. PICK j \in DOMAIN s : s[j] = x
    BY <1>2 DEF In
  <2>2. j \in 1..(i - 1) /\ (s \o t)[j] = x
    BY <1>2, <2>1
  <2> QED  BY <2>2
<1>3. CASE i > Len(s) /\ Before(t, x, y)
  <2>1. i - Len(s) \in DOMAIN t /\ t[i - Len(s)] = y
    BY <1>3
  <2>2. PICK j \in 1..((i - Len(s)) - 1) : t[j] = x
    BY <1>3, <2>1 DEF Before
  <2>3. j + Len(s) \in 1..(i - 1) /\ (s \o t)[j + Len(s)] = x
    BY <1>3, <2>1, <2>2
  <2> QED  BY <2>3
<1> QED  BY <1>1, <1>2, <1>3

LEMMA AfterTail ==
    ASSUME NEW S, NEW s \in Seq(S), s # <<>>, NEW x, NEW y, After(s, x, y)
    PROVE  /\ After(Tail(s), x, y)
           /\ Head(s) = x => In(Tail(s), y)
<1>1. ASSUME NEW i \in DOMAIN Tail(s), Tail(s)[i] = x
      PROVE  \E j \in (i + 1)..Len(Tail(s)) : Tail(s)[j] = y
  <2>1. i + 1 \in DOMAIN s /\ s[i + 1] = x
    BY <1>1
  <2>2. PICK j \in ((i + 1) + 1)..Len(s) : s[j] = y
    BY <2>1 DEF After
  <2>3. j - 1 \in (i + 1)..Len(Tail(s)) /\ Tail(s)[j - 1] = y
    BY <1>1, <2>2
  <2> QED  BY <2>3
<1>2. ASSUME Head(s) = x  PROVE In(Tail(s), y)
  <2>1. 1 \in DOMAIN s /\ s[1] = x
    BY <1>2
  <2>2. PICK j \in (1 + 1)..Len(s) : s[j] = y
    BY <2>1 DEF After
  <2>3. j - 1 \in DOMAIN Tail(s) /\ Tail(s)[j - 1] = y
    BY <2>2
  <2> QED  BY <2>3 DEF In
<1> QED  BY <1>1, <1>2 DEF After

LEMMA AfterJoined ==
    ASSUME NEW S, NEW s \in Seq(S), NEW t \in Seq(S), NEW x, NEW y,
           After(s, x, y) \/ In(t, y), After(t, x, y)
    PROVE  After(s \o t, x, y)
<1> SUFFICES ASSUME NEW i \in DOMAIN (s \o t), (s \o t)[i] = x
             PROVE  \E j \in (i + 1)..Len(s \o t) : (s \o t)[j] = y
  BY DEF After
<1>1. CASE i > Len(s)
  <2>1. i - Len(s) \in DOMAIN t /\ t[i - Len(s)] = x
    BY <1>1
  <2>2. PICK j \in ((i - Len(s)) + 1)..Len(t) : t[j] = y
    BY <2>1 DEF After
  <2>3. j + Len(s) \in (i + 1)..Len(s \o t) /\ (s \o t)[j + Len(s)] = y
    BY <1>1, <2>2
  <2> QED  BY <2>3
<1>2. CASE i <= Len(s) /\ After(s, x, y)
  <2>1. i \in DOMAIN s /\ s[i] = x
    BY <1>2
  <2>2. PICK j \in (i + 1)..Len(s) : s[j] = y
    BY <1>2, <2>1 DEF After
  <2>3. j \in (i + 1)..Len(s \o t) /\ (s \o t)[j] = y
    BY <2>1, <2>2
  <2> QED  BY <2>3
<1>3. CASE i <= Len(s) /\ In(t, y)
  <2>1. PICK j \in DOMAIN t : t[j] = y
    BY <1>3 DEF In
  <2>2. j + Len(s) \in (i + 1)..Len(s \o t) /\ (s \o t)[j + Len(s)] = y
    BY <1>3, <2>1
  <2> QED  BY <2>2
<1> QED  BY <1>1, <1>2, <1>3

LEMMA HeadIsBefore ==
    ASSUME NEW S, NEW s \in Seq(S), s # <<>>, NEW y, Head(s) # y
    PROVE  Before(s, Head(s), y)
<1> SUFFICES ASSUME NEW i \in DOMAIN s, s[i] = y
             PROVE  \E j \in 1..(i - 1) : s[j] = Head(s)
  BY DEF Before
<1>1. s[1] = Head(s) /\ i \in Nat /\ i # 1 /\ i >= 1
  OBVIOUS
<1>2. 1 \in 1..(i - 1)
  BY <1>1
<1> QED  BY <1>1, <1>2

(* What is not in a list has nothing to follow or to precede in it.        *)
LEMMA NotIn ==
    ASSUME NEW s, NEW x, NEW y
    PROVE  /\ ~In(s, y) => Before(s, x, y)
           /\ ~In(s, x) => After(s, x, y)
BY DEF In, Before, After

-----------------------------------------------------------------------------
(* The inductive invariant.                                                *)

Stubs == {NoFile, EmptyFile}
Crypto == {"missing", "brew", "pin1", "pin2"}
Libraries == Stubs \cup [source: Nat \ {0}, openssl: Crypto]
Bundles ==
    [info: {"none", "partial", "whole"}, marked: BOOLEAN,
     libs: [Variants -> Libraries]]

PlatformOps ==
    {"remove", "begin", "finish", "mark", "ensure", "placeholder", "check",
     "stage", "clean", "ensureXCFramework", "checkXCFramework",
     "removeXCFramework", "createXCFramework"}
VariantOps == {"openssl", "compile", "combine", "copy", "copyStub"}

(* A platform on which a run has stubs to write, if anything.              *)
Foreign(g, p) == p # g.on \/ g.op = "placeholder"

(* The steps that a run for a goal can be left with: libraries are copied  *)
(* to its own platform, stubs to the other, and clean is alone.            *)
Fits(g, s) ==
    /\ s.op \in PlatformOps => s.on \in Platforms
    /\ s.op \in VariantOps => s.on \in Variants
    /\ s.op = "copy" => ~Foreign(g, g.on) /\ s.on \in ToSet(VariantsOf(g.on))
    /\ s.op = "copyStub" =>
          \E p \in Platforms : Foreign(g, p) /\ s.on \in ToSet(VariantsOf(p))
    /\ s.op \in {"mark", "placeholder"} => Foreign(g, s.on)
    /\ s.op = "ensure" => ~Foreign(g, s.on)
    /\ s.op = "clean" <=> g.op = "clean"
FitSteps(g) ==
    {s \in [op: PlatformOps \cup VariantOps, on: Platforms \cup Variants] :
        Fits(g, s)}

(* What the variables hold; that no stub is staged stands among it, since  *)
(* each step that keeps the types keeps it too.                            *)
Types ==
    /\ tree \in [source: Nat \ {0}, pin: Nat]
    /\ libcrypto \in [Variants -> Crypto]
    /\ core \in [Variants -> Nat]
    /\ library \in [Variants -> Libraries \ {EmptyFile}]
    /\ bundle \in [Platforms -> Bundles]
    /\ StagedIsReal
    /\ goal \in Goals \cup {Do("none", "apple")}
    /\ todo \in Seq(FitSteps(goal))
    /\ ended # "no" => todo = <<>>
    /\ goal.op = "clean" => Len(todo) <= 1

(* A library is combined from a core that has been compiled.               *)
CombinesACore ==
    \A v \in Variants :
        core[v] > 0 \/ Before(todo, Do("compile", v), Do("combine", v))

(* The checks that stand directly before a staging, the last one first.    *)
ChecksBefore(p) ==
    IF p = "apple" THEN <<Do("checkXCFramework", "apple"), Do("check", "apple")>>
    ELSE <<Do("check", "android")>>
Passed(c) == IF c.op = "check" THEN Accepts(c.on) ELSE AcceptsXCFramework

(* What is staged was checked: each check is still to come, in its place   *)
(* before the staging, or would pass.                                      *)
StagesTheChecked ==
    \A p \in Platforms : \A i \in DOMAIN todo : \A k \in DOMAIN ChecksBefore(p) :
        todo[i] = Do("stage", p) =>
            IF i <= k THEN Passed(ChecksBefore(p)[k])
            ELSE todo[i - k] = ChecksBefore(p)[k]

(* What is left of writing a stub in place of a missing bundle.            *)
StubSteps(p) ==
    {Do("remove", p), Do("begin", p), Do("finish", p)}
        \cup {Do("copyStub", v) : v \in ToSet(VariantsOf(p))}
StubsTheMissing ==
    \A p \in Platforms : Foreign(goal, p) =>
        /\ \A i \in DOMAIN todo :
              todo[i] = Do("remove", p) => i = 1 /\ bundle[p].info = "none"
        /\ In(todo, Do("mark", p)) /\ ~In(todo, Do("remove", p)) =>
              \A v \in ToSet(VariantsOf(p)) : bundle[p].libs[v] \in Stubs
        /\ \A x \in StubSteps(p) : After(todo, x, Do("mark", p))

(* What is left of a run will have made the bundle an accepted one.        *)
Completes(p) ==
    /\ bundle[p].info = "whole" \/ In(todo, Do("finish", p))
    /\ ~bundle[p].marked \/ In(todo, Do("remove", p))
    /\ \A v \in ToSet(VariantsOf(p)) :
          /\ bundle[p].libs[v] \notin Stubs \/ In(todo, Do("copy", v))
          /\ After(todo, Do("remove", p), Do("copy", v))
          /\ library[v] # NoFile
                \/ Before(todo, Do("combine", v), Do("copy", v))
    /\ After(todo, Do("remove", p), Do("finish", p))
    /\ After(todo, Do("begin", p), Do("finish", p))

WillBeAccepted ==
    goal.op \in {"ensure", "artifactbundle"} =>
        /\ ended = "no" =>
              \/ goal.op = "ensure" /\ todo = StepsOf(goal)
              \/ Completes(goal.on)
        /\ ended = "ok" => Accepts(goal.on)

IInv ==
    /\ Types /\ CombinesACore /\ StagesTheChecked /\ StubsTheMissing
    /\ WillBeAccepted

-----------------------------------------------------------------------------
(* The lists the scripts run through.                                      *)

AllSteps == [op: PlatformOps \cup VariantOps, on: Platforms \cup Variants]

LEMMA VariantsListed ==
    ASSUME NEW p \in Platforms
    PROVE  /\ VariantsOf(p) \in Seq(ToSet(VariantsOf(p)))
           /\ Len(VariantsOf(p)) > 0
           /\ ToSet(VariantsOf(p)) \subseteq Variants
           /\ ToSet(VariantsOf(p)) # {}
           /\ \A v : v \in ToSet(VariantsOf(p)) <=>
                        \E k \in 1..Len(VariantsOf(p)) : VariantsOf(p)[k] = v
<1>1. VariantsOf(p) \in Seq(ToSet(VariantsOf(p))) /\ VariantsOf(p) # <<>>
  BY VariantsAssumption DEF VariantsOf
<1>2. Len(VariantsOf(p)) > 0 /\ DOMAIN VariantsOf(p) = 1..Len(VariantsOf(p))
  BY <1>1
<1>3. \A v : v \in ToSet(VariantsOf(p)) <=>
                \E k \in 1..Len(VariantsOf(p)) : VariantsOf(p)[k] = v
  BY <1>2 DEF ToSet
<1>4. ToSet(VariantsOf(p)) # {}
  BY <1>2, <1>3
<1> QED  BY <1>1, <1>2, <1>3, <1>4 DEF VariantsOf, Variants

LEMMA PlatformOfVariant ==
    ASSUME NEW p \in Platforms, NEW v \in ToSet(VariantsOf(p))
    PROVE  /\ PlatformOf(v) = p
           /\ \A q \in Platforms : v \in ToSet(VariantsOf(q)) => q = p
BY VariantsAssumption DEF PlatformOf, Platforms, VariantsOf

LEMMA EachStep ==
    ASSUME NEW p \in Platforms, NEW op \in VariantOps
    PROVE  LET s == Each(op, VariantsOf(p))
               n == Len(VariantsOf(p))
           IN  /\ s \in Seq(AllSteps) /\ Len(s) = n /\ n \in Nat
               /\ \A k \in 1..n : s[k] = Do(op, VariantsOf(p)[k])
<1>1. \A k \in 1..Len(VariantsOf(p)) : Do(op, VariantsOf(p)[k]) \in AllSteps
  BY VariantsListed DEF Do, AllSteps
<1>2. Len(VariantsOf(p)) \in Nat
  BY VariantsListed
<1> QED  BY <1>1, <1>2 DEF Each

(* Assemble is remove, begin, the copies and finish.                       *)
LEMMA AssembleList ==
    ASSUME NEW p \in Platforms
    PROVE  LET s == Assemble(p)
               n == Len(VariantsOf(p))
           IN  /\ s \in Seq(AllSteps) /\ DOMAIN s = 1..(n + 3) /\ n \in Nat
               /\ Len(s) = n + 3
               /\ s[1] = Do("remove", p) /\ s[2] = Do("begin", p)
               /\ s[n + 3] = Do("finish", p)
               /\ \A i \in 3..(n + 2) : s[i] = Do("copy", VariantsOf(p)[i - 2])
<1> DEFINE n == Len(VariantsOf(p))
           a == <<Do("remove", p), Do("begin", p)>>
           b == Each("copy", VariantsOf(p))
           c == <<Do("finish", p)>>
<1>1. a \in Seq(AllSteps) /\ c \in Seq(AllSteps)
  BY DEF AllSteps, Do, PlatformOps
<1>2. /\ Len(a) = 2 /\ a[1] = Do("remove", p) /\ a[2] = Do("begin", p)
      /\ Len(c) = 1 /\ c[1] = Do("finish", p)
  OBVIOUS
<1>3. /\ b \in Seq(AllSteps) /\ Len(b) = n /\ n \in Nat
      /\ \A k \in 1..n : b[k] = Do("copy", VariantsOf(p)[k])
  BY EachStep DEF VariantOps
<1>4. Assemble(p) = a \o b \o c
  BY DEF Assemble
<1> DEFINE s == a \o b \o c
<1> HIDE DEF a, b, c, n
<1>5. /\ s \in Seq(AllSteps) /\ Len(s) = Len(a) + Len(b) + Len(c)
      /\ \A i \in 1..Len(a) : s[i] = a[i]
      /\ \A i \in (Len(a) + 1)..(Len(a) + Len(b)) : s[i] = b[i - Len(a)]
      /\ \A i \in (Len(a) + Len(b) + 1)..(Len(a) + Len(b) + Len(c)) :
            s[i] = c[i - (Len(a) + Len(b))]
  <2>1. a \in Seq(AllSteps) /\ b \in Seq(AllSteps) /\ c \in Seq(AllSteps)
    BY <1>1, <1>3
  <2> QED  BY ONLY <2>1
<1> HIDE DEF s
<1>6. Len(s) = n + 3 /\ DOMAIN s = 1..(n + 3)
  BY <1>2, <1>3, <1>5
<1>7. /\ s[1] = Do("remove", p) /\ s[2] = Do("begin", p)
      /\ s[n + 3] = Do("finish", p)
  BY <1>2, <1>3, <1>5
<1>8. \A i \in 3..(n + 2) : s[i] = Do("copy", VariantsOf(p)[i - 2])
  BY <1>2, <1>3, <1>5
<1>9. Assemble(p) = s
  BY <1>4 DEF s
<1> QED  BY <1>3, <1>5, <1>6, <1>7, <1>8, <1>9 DEF n

LEMMA AssembleStubList ==
    ASSUME NEW p \in Platforms
    PROVE  LET s == AssembleStub(p)
               n == Len(VariantsOf(p))
           IN  /\ s \in Seq(AllSteps) /\ DOMAIN s = 1..(n + 4) /\ n \in Nat
               /\ Len(s) = n + 4
               /\ s[1] = Do("remove", p) /\ s[2] = Do("begin", p)
               /\ s[n + 3] = Do("finish", p) /\ s[n + 4] = Do("mark", p)
               /\ \A i \in 3..(n + 2) :
                     s[i] = Do("copyStub", VariantsOf(p)[i - 2])
<1> DEFINE n == Len(VariantsOf(p))
           a == <<Do("remove", p), Do("begin", p)>>
           b == Each("copyStub", VariantsOf(p))
           c == <<Do("finish", p), Do("mark", p)>>
<1>1. a \in Seq(AllSteps) /\ c \in Seq(AllSteps)
  BY DEF AllSteps, Do, PlatformOps
<1>2. /\ Len(a) = 2 /\ a[1] = Do("remove", p) /\ a[2] = Do("begin", p)
      /\ Len(c) = 2 /\ c[1] = Do("finish", p) /\ c[2] = Do("mark", p)
  OBVIOUS
<1>3. /\ b \in Seq(AllSteps) /\ Len(b) = n /\ n \in Nat
      /\ \A k \in 1..n :
            b[k] = Do("copyStub", VariantsOf(p)[k])
  BY EachStep DEF VariantOps
<1>4. AssembleStub(p) = a \o b \o c
  BY DEF AssembleStub
<1> DEFINE s == a \o b \o c
<1> HIDE DEF a, b, c, n
<1>5. /\ s \in Seq(AllSteps) /\ Len(s) = Len(a) + Len(b) + Len(c)
      /\ \A i \in 1..Len(a) : s[i] = a[i]
      /\ \A i \in (Len(a) + 1)..(Len(a) + Len(b)) : s[i] = b[i - Len(a)]
      /\ \A i \in (Len(a) + Len(b) + 1)..(Len(a) + Len(b) + Len(c)) :
            s[i] = c[i - (Len(a) + Len(b))]
  <2>1. a \in Seq(AllSteps) /\ b \in Seq(AllSteps) /\ c \in Seq(AllSteps)
    BY <1>1, <1>3
  <2> QED  BY ONLY <2>1
<1> HIDE DEF s
<1>6. Len(s) = n + 4 /\ DOMAIN s = 1..(n + 4)
  BY <1>2, <1>3, <1>5
<1>7. /\ s[1] = Do("remove", p) /\ s[2] = Do("begin", p)
      /\ s[n + 3] = Do("finish", p) /\ s[n + 4] = Do("mark", p)
  BY <1>2, <1>3, <1>5
<1>8. \A i \in 3..(n + 2) : s[i] = Do("copyStub", VariantsOf(p)[i - 2])
  BY <1>2, <1>3, <1>5
<1>9. AssembleStub(p) = s
  BY <1>4 DEF s
<1> QED  BY <1>3, <1>5, <1>6, <1>7, <1>8, <1>9 DEF n

LEMMA BuildVariantsList ==
    ASSUME NEW p \in Platforms
    PROVE  LET s == BuildVariants(p)
               n == Len(VariantsOf(p))
           IN  /\ s \in Seq(AllSteps) /\ Len(s) = 3 * n /\ n \in Nat
               /\ DOMAIN s = 1..(3 * n)
               /\ \A i \in DOMAIN s :
                     /\ s[i].op \in {"openssl", "compile", "combine"}
                     /\ s[i].on \in Variants
               /\ \A i \in DOMAIN s :
                     s[i].op = "combine" => /\ i > 1
                                            /\ s[i - 1] = Do("compile", s[i].on)
               /\ \A k \in 1..n :
                     /\ 3 * k \in DOMAIN s
                     /\ s[3 * k] = Do("combine", VariantsOf(p)[k])
<1> DEFINE n == Len(VariantsOf(p))
           s == BuildVariants(p)
           V(i) == VariantsOf(p)[(i + 2) \div 3]
<1>1. n \in Nat
  BY VariantsListed
<1>2. \A i \in 1..(3 * n) :
          /\ (i + 2) \div 3 \in 1..n
          /\ (i + 2) % 3 \in 0..2
          /\ (i + 2) % 3 = 0 => s[i] = Do("openssl", V(i))
          /\ (i + 2) % 3 = 1 => s[i] = Do("compile", V(i))
          /\ (i + 2) % 3 = 2 => s[i] = Do("combine", V(i))
  <2> SUFFICES ASSUME NEW i \in 1..(3 * n)
               PROVE  /\ (i + 2) \div 3 \in 1..n
                      /\ (i + 2) % 3 \in 0..2
                      /\ (i + 2) % 3 = 0 => s[i] = Do("openssl", V(i))
                      /\ (i + 2) % 3 = 1 => s[i] = Do("compile", V(i))
                      /\ (i + 2) % 3 = 2 => s[i] = Do("combine", V(i))
    OBVIOUS
  <2>1. (i + 2) \div 3 \in 1..n /\ (i + 2) % 3 \in 0..2
    BY <1>1
  <2>2. s[i] = BuildVariant(V(i))[((i + 2) % 3) + 1]
    BY DEF BuildVariants
  <2> QED  BY <2>1, <2>2 DEF BuildVariant
<1>3. DOMAIN s = 1..(3 * n)
  BY DEF BuildVariants
<1>4. \A i \in 1..(3 * n) : V(i) \in Variants
  BY <1>2, VariantsListed
<1>5. \A i \in 1..(3 * n) :
          /\ s[i] \in AllSteps /\ s[i].op \in {"openssl", "compile", "combine"}
          /\ s[i].on \in Variants
  <2> SUFFICES ASSUME NEW i \in 1..(3 * n)
               PROVE  /\ s[i] \in AllSteps
                      /\ s[i].op \in {"openssl", "compile", "combine"}
                      /\ s[i].on \in Variants
    OBVIOUS
  <2>1. PICK op \in {"openssl", "compile", "combine"} : s[i] = Do(op, V(i))
    BY <1>2
  <2>2. V(i) \in Variants
    BY <1>4
  <2> HIDE DEF s, V, n
  <2>3. s[i].op = op /\ s[i].on = V(i) /\ s[i] = [op |-> op, on |-> V(i)]
    BY <2>1 DEF Do
  <2>4. op \in PlatformOps \cup VariantOps /\ V(i) \in Platforms \cup Variants
    BY <2>2 DEF VariantOps
  <2>5. [op |-> op, on |-> V(i)] \in AllSteps
    BY <2>4 DEF AllSteps
  <2> QED  BY <2>2, <2>3, <2>5
<1>6. s \in Seq(AllSteps) /\ Len(s) = 3 * n
  <2>1. s = [i \in 1..(3 * n) |-> s[i]]
    BY DEF BuildVariants
  <2> HIDE DEF s, n
  <2> QED  BY <1>1, <1>5, <2>1
<1>7. ASSUME NEW i \in 1..(3 * n), s[i].op = "combine"
      PROVE  i > 1 /\ s[i - 1] = Do("compile", s[i].on)
  <2>1. (i + 2) % 3 = 2
    <3>1. s[i] = Do("openssl", V(i)) => s[i].op = "openssl"
      BY DEF Do
    <3>2. s[i] = Do("compile", V(i)) => s[i].op = "compile"
      BY DEF Do
    <3>3. (i + 2) % 3 \in {0, 1, 2}
      BY <1>2
    <3> QED  BY <1>2, <1>7, <3>1, <3>2, <3>3
  <2>2. i > 1 /\ i - 1 \in 1..(3 * n) /\ ((i - 1) + 2) % 3 = 1
            /\ ((i - 1) + 2) \div 3 = (i + 2) \div 3
    BY <1>1, <2>1
  <2>3. s[i] = Do("combine", V(i)) /\ s[i - 1] = Do("compile", V(i - 1))
    BY <1>2, <2>1, <2>2
  <2> QED  BY <2>2, <2>3 DEF Do
<1>8. ASSUME NEW k \in 1..n
      PROVE  3 * k \in 1..(3 * n) /\ s[3 * k] = Do("combine", VariantsOf(p)[k])
  <2>1. 3 * k \in 1..(3 * n) /\ (3 * k + 2) % 3 = 2 /\ (3 * k + 2) \div 3 = k
    BY <1>1, <1>8
  <2> QED  BY <1>2, <2>1
<1> QED  BY <1>1, <1>3, <1>5, <1>6, <1>7, <1>8

(* What Assemble orders.                                                   *)
LEMMA AssembleOrders ==
    ASSUME NEW p \in Platforms
    PROVE  LET s == Assemble(p)
           IN  /\ s \in Seq(AllSteps) /\ s # <<>>
               /\ \A i \in DOMAIN s :
                     \/ s[i] \in {Do("remove", p), Do("begin", p), Do("finish", p)}
                     \/ \E v \in ToSet(VariantsOf(p)) : s[i] = Do("copy", v)
               /\ In(s, Do("remove", p)) /\ In(s, Do("finish", p))
               /\ After(s, Do("remove", p), Do("finish", p))
               /\ After(s, Do("begin", p), Do("finish", p))
               /\ \A v \in ToSet(VariantsOf(p)) :
                     /\ In(s, Do("copy", v))
                     /\ After(s, Do("remove", p), Do("copy", v))
<1> DEFINE s == Assemble(p)
           n == Len(VariantsOf(p))
<1>1. /\ s \in Seq(AllSteps) /\ DOMAIN s = 1..(n + 3) /\ n \in Nat
      /\ Len(s) = n + 3
      /\ s[1] = Do("remove", p) /\ s[2] = Do("begin", p)
      /\ s[n + 3] = Do("finish", p)
      /\ \A i \in 3..(n + 2) : s[i] = Do("copy", VariantsOf(p)[i - 2])
  BY AssembleList
<1>2. \A v : v \in ToSet(VariantsOf(p)) <=> \E k \in 1..n : VariantsOf(p)[k] = v
  BY VariantsListed
<1> HIDE DEF s, n
<1>3. \A i \in DOMAIN s : i = 1 \/ i = 2 \/ i = n + 3 \/ i \in 3..(n + 2)
  BY <1>1
<1>4. ASSUME NEW i \in 3..(n + 2)
      PROVE  \E v \in ToSet(VariantsOf(p)) : s[i] = Do("copy", v)
  <2>1. i - 2 \in 1..n /\ s[i] = Do("copy", VariantsOf(p)[i - 2])
    BY <1>1, <1>4
  <2> QED  BY <1>2, <2>1
<1>5. \A i \in DOMAIN s :
          \/ s[i] \in {Do("remove", p), Do("begin", p), Do("finish", p)}
          \/ \E v \in ToSet(VariantsOf(p)) : s[i] = Do("copy", v)
  BY <1>1, <1>3, <1>4
<1>6. /\ 1 \in DOMAIN s /\ 2 \in DOMAIN s /\ n + 3 \in DOMAIN s
      /\ \A i \in DOMAIN s : i < n + 3 => n + 3 \in (i + 1)..Len(s)
  BY <1>1
<1>7. In(s, Do("remove", p)) /\ In(s, Do("finish", p))
  BY <1>1, <1>6 DEF In
<1>8. \A x : x.op # "finish" => After(s, x, Do("finish", p))
  <2> SUFFICES ASSUME NEW x, x.op # "finish", NEW i \in DOMAIN s, s[i] = x
               PROVE  \E j \in (i + 1)..Len(s) : s[j] = Do("finish", p)
    BY DEF After
  <2>1. i # n + 3
    BY <1>1 DEF Do
  <2>2. i < n + 3
    BY <1>1, <2>1
  <2> QED  BY <1>1, <1>6, <2>2
<1>9. /\ After(s, Do("remove", p), Do("finish", p))
      /\ After(s, Do("begin", p), Do("finish", p))
  BY <1>8 DEF Do
<1>10. ASSUME NEW v \in ToSet(VariantsOf(p))
       PROVE  /\ In(s, Do("copy", v))
              /\ After(s, Do("remove", p), Do("copy", v))
  <2>1. PICK k \in 1..n : VariantsOf(p)[k] = v
    BY <1>2
  <2>2. /\ k + 2 \in DOMAIN s /\ k + 2 \in 3..(n + 2) /\ (k + 2) - 2 = k
        /\ k + 2 \in (1 + 1)..Len(s)
    BY <1>1
  <2>3. s[k + 2] = Do("copy", v)
    BY <1>1, <2>1, <2>2
  <2>4. ASSUME NEW i \in DOMAIN s, s[i] = Do("remove", p)  PROVE i = 1
    <3>1. s[i].op = "remove"
      BY <2>4 DEF Do
    <3>2. i # 2 /\ i # n + 3
      BY <1>1, <3>1 DEF Do
    <3>3. ASSUME i \in 3..(n + 2)  PROVE FALSE
      <4>1. PICK u : s[i] = Do("copy", u)
        BY <1>4, <3>3
      <4> QED  BY <3>1, <4>1 DEF Do
    <3> QED  BY <1>3, <3>2, <3>3
  <2> QED  BY <2>2, <2>3, <2>4 DEF In, After
<1>11. s # <<>>
  BY <1>1
<1> QED  BY <1>1, <1>5, <1>7, <1>9, <1>10, <1>11 DEF s

(* And what writing a stub does: the marker comes last.                    *)
LEMMA AssembleStubOrders ==
    ASSUME NEW p \in Platforms
    PROVE  LET s == AssembleStub(p)
           IN  /\ s \in Seq(AllSteps) /\ s # <<>>
               /\ \A i \in DOMAIN s : s[i] \in StubSteps(p) \cup {Do("mark", p)}
               /\ \A i \in DOMAIN s : s[i] = Do("remove", p) => i = 1
               /\ In(s, Do("remove", p)) /\ In(s, Do("mark", p))
               /\ \A x : x.op # "mark" => After(s, x, Do("mark", p))
<1> DEFINE s == AssembleStub(p)
           n == Len(VariantsOf(p))
<1>1. /\ s \in Seq(AllSteps) /\ DOMAIN s = 1..(n + 4) /\ n \in Nat
      /\ Len(s) = n + 4
      /\ s[1] = Do("remove", p) /\ s[2] = Do("begin", p)
      /\ s[n + 3] = Do("finish", p) /\ s[n + 4] = Do("mark", p)
      /\ \A i \in 3..(n + 2) : s[i] = Do("copyStub", VariantsOf(p)[i - 2])
  BY AssembleStubList
<1>2. \A v : v \in ToSet(VariantsOf(p)) <=> \E k \in 1..n : VariantsOf(p)[k] = v
  BY VariantsListed
<1> HIDE DEF s, n
<1>3. \A i \in DOMAIN s :
          i = 1 \/ i = 2 \/ i = n + 3 \/ i = n + 4 \/ i \in 3..(n + 2)
  BY <1>1
<1>4. ASSUME NEW i \in 3..(n + 2)
      PROVE  \E v \in ToSet(VariantsOf(p)) : s[i] = Do("copyStub", v)
  <2>1. i - 2 \in 1..n /\ s[i] = Do("copyStub", VariantsOf(p)[i - 2])
    BY <1>1, <1>4
  <2> QED  BY <1>2, <2>1
<1>5. \A i \in DOMAIN s : s[i] \in StubSteps(p) \cup {Do("mark", p)}
  BY <1>1, <1>3, <1>4 DEF StubSteps
<1>6. ASSUME NEW i \in DOMAIN s, s[i] = Do("remove", p)  PROVE i = 1
  <2>1. s[i].op = "remove"
    BY <1>6 DEF Do
  <2>2. i # 2 /\ i # n + 3 /\ i # n + 4
    BY <1>1, <2>1 DEF Do
  <2>3. ASSUME i \in 3..(n + 2)  PROVE FALSE
    <3>1. PICK u : s[i] = Do("copyStub", u)
      BY <1>4, <2>3
    <3> QED  BY <2>1, <3>1 DEF Do
  <2> QED  BY <1>3, <2>2, <2>3
<1>7. /\ 1 \in DOMAIN s /\ n + 4 \in DOMAIN s
      /\ \A i \in DOMAIN s : i < n + 4 => n + 4 \in (i + 1)..Len(s)
  BY <1>1
<1>8. In(s, Do("remove", p)) /\ In(s, Do("mark", p))
  BY <1>1, <1>7 DEF In
<1>9. \A x : x.op # "mark" => After(s, x, Do("mark", p))
  <2> SUFFICES ASSUME NEW x, x.op # "mark", NEW i \in DOMAIN s, s[i] = x
               PROVE  \E j \in (i + 1)..Len(s) : s[j] = Do("mark", p)
    BY DEF After
  <2>1. i # n + 4
    BY <1>1 DEF Do
  <2>2. i < n + 4
    BY <1>1, <2>1
  <2> QED  BY <1>1, <1>7, <2>2
<1>10. s # <<>>
  BY <1>1
<1> QED  BY <1>1, <1>5, <1>6, <1>8, <1>9, <1>10 DEF s

(* What --skip-build leaves out: a core before a library before a copy.    *)
LEMMA BuildOrders ==
    ASSUME NEW p \in Platforms
    PROVE  LET s == Build(p)
           IN  /\ s \in Seq(AllSteps) /\ s # <<>>
               /\ \A i \in DOMAIN s :
                     \/ s[i].op \in {"openssl", "compile", "combine"}
                     \/ s[i] \in {Do("remove", p), Do("begin", p), Do("finish", p)}
                     \/ \E v \in ToSet(VariantsOf(p)) : s[i] = Do("copy", v)
               /\ In(s, Do("remove", p)) /\ In(s, Do("finish", p))
               /\ After(s, Do("remove", p), Do("finish", p))
               /\ After(s, Do("begin", p), Do("finish", p))
               /\ \A v \in ToSet(VariantsOf(p)) :
                     /\ In(s, Do("copy", v))
                     /\ After(s, Do("remove", p), Do("copy", v))
                     /\ Before(s, Do("combine", v), Do("copy", v))
               /\ \A v : Before(s, Do("compile", v), Do("combine", v))
<1> DEFINE a == BuildVariants(p)
           b == Assemble(p)
           n == Len(VariantsOf(p))
           A == {Do("remove", p), Do("begin", p), Do("finish", p)}
           IsCopy(x) == \E v \in ToSet(VariantsOf(p)) : x = Do("copy", v)
<1>1. /\ a \in Seq(AllSteps) /\ n \in Nat
      /\ \A i \in DOMAIN a : a[i].op \in {"openssl", "compile", "combine"}
      /\ \A i \in DOMAIN a :
            a[i].op = "combine" => i > 1 /\ a[i - 1] = Do("compile", a[i].on)
      /\ \A k \in 1..n :
            3 * k \in DOMAIN a /\ a[3 * k] = Do("combine", VariantsOf(p)[k])
  BY BuildVariantsList
<1>2. /\ b \in Seq(AllSteps) /\ b # <<>>
      /\ \A i \in DOMAIN b : b[i] \in A \/ IsCopy(b[i])
      /\ In(b, Do("remove", p)) /\ In(b, Do("finish", p))
      /\ After(b, Do("remove", p), Do("finish", p))
      /\ After(b, Do("begin", p), Do("finish", p))
      /\ \A v \in ToSet(VariantsOf(p)) :
            /\ In(b, Do("copy", v))
            /\ After(b, Do("remove", p), Do("copy", v))
  BY AssembleOrders
<1>3. Build(p) = a \o b
  BY DEF Build
<1>4. \A v : v \in ToSet(VariantsOf(p)) <=> \E k \in 1..n : VariantsOf(p)[k] = v
  BY VariantsListed
<1> HIDE DEF a, b, n
<1>5. \A x : x.op \notin {"openssl", "compile", "combine"} => ~In(a, x)
  BY <1>1 DEF In
<1>6. \A v : ~In(b, Do("combine", v))
  <2>1. \A i \in DOMAIN b : b[i].op # "combine"
    BY <1>2 DEF Do
  <2> QED  BY <2>1 DEF In, Do
<1>7. \A v : Before(a, Do("compile", v), Do("combine", v))
  <2> SUFFICES ASSUME NEW v, NEW i \in DOMAIN a, a[i] = Do("combine", v)
               PROVE  \E j \in 1..(i - 1) : a[j] = Do("compile", v)
    BY DEF Before
  <2>1. a[i].op = "combine" /\ a[i].on = v
    BY DEF Do
  <2>2. i > 1 /\ a[i - 1] = Do("compile", v)
    BY <1>1, <2>1
  <2>3. i - 1 \in 1..(i - 1)
    BY <1>1, <2>2
  <2> QED  BY <2>2, <2>3
<1>8. \A v : Before(a \o b, Do("compile", v), Do("combine", v))
  BY <1>1, <1>2, <1>6, <1>7, BeforeJoined, NotIn
<1>9. ASSUME NEW v \in ToSet(VariantsOf(p))
      PROVE  Before(a \o b, Do("combine", v), Do("copy", v))
  <2>1. In(a, Do("combine", v))
    BY <1>1, <1>4 DEF In
  <2>2. ~In(a, Do("copy", v))
    BY <1>5 DEF Do
  <2> QED  BY <1>1, <1>2, <2>1, <2>2, BeforeJoined, NotIn
<1>10. /\ In(a \o b, Do("remove", p)) /\ In(a \o b, Do("finish", p))
       /\ \A v \in ToSet(VariantsOf(p)) : In(a \o b, Do("copy", v))
  BY <1>1, <1>2, InJoined
<1>11. /\ After(a \o b, Do("remove", p), Do("finish", p))
       /\ After(a \o b, Do("begin", p), Do("finish", p))
       /\ \A v \in ToSet(VariantsOf(p)) :
             After(a \o b, Do("remove", p), Do("copy", v))
  BY <1>1, <1>2, AfterJoined
<1>12. ASSUME NEW i \in DOMAIN (a \o b)
       PROVE  \/ (a \o b)[i].op \in {"openssl", "compile", "combine"}
              \/ (a \o b)[i] \in A \/ IsCopy((a \o b)[i])
  <2>1. CASE i \in DOMAIN a
    <3>1. (a \o b)[i] = a[i]
      BY <1>1, <1>2, <2>1
    <3> QED  BY <1>1, <2>1, <3>1
  <2>2. CASE i \notin DOMAIN a
    <3>1. i - Len(a) \in DOMAIN b /\ (a \o b)[i] = b[i - Len(a)]
      BY <1>1, <1>2, <1>12, <2>2
    <3> QED  BY <1>2, <3>1
  <2> QED  BY <2>1, <2>2
<1>13. a \o b \in Seq(AllSteps) /\ a \o b # <<>>
  BY <1>1, <1>2
<1> QED  BY <1>3, <1>8, <1>9, <1>10, <1>11, <1>12, <1>13

-----------------------------------------------------------------------------
(* What a run for each goal starts with.                                   *)

LEMMA DoFits ==
    ASSUME NEW g, NEW op \in PlatformOps, NEW p \in Platforms,
           op \in {"mark", "placeholder"} => Foreign(g, p),
           op = "ensure" => ~Foreign(g, p),
           op = "clean" <=> g.op = "clean"
    PROVE  Do(op, p) \in FitSteps(g)
BY DEF FitSteps, Fits, Do, PlatformOps, VariantOps

LEMMA DoVariantFits ==
    ASSUME NEW g, g.op # "clean", NEW op \in VariantOps, NEW p \in Platforms,
           NEW v \in ToSet(VariantsOf(p)),
           op = "copy" => p = g.on /\ ~Foreign(g, p),
           op = "copyStub" => Foreign(g, p)
    PROVE  Do(op, v) \in FitSteps(g)
<1>1. v \in Variants
  BY VariantsListed
<1> QED  BY <1>1 DEF FitSteps, Fits, Do, PlatformOps, VariantOps

LEMMA ListFits ==
    ASSUME NEW S, NEW T, NEW s \in Seq(S), \A i \in DOMAIN s : s[i] \in T
    PROVE  s \in Seq(T)
<1>1. /\ Len(s) \in Nat /\ DOMAIN s = 1..Len(s)
      /\ s = [i \in 1..Len(s) |-> s[i]]
  OBVIOUS
<1> QED  BY <1>1

LEMMA SameList ==
    ASSUME NEW S, NEW s \in Seq(S), NEW t \in Seq(S), Len(s) = Len(t),
           \A i \in 1..Len(s) : s[i] = t[i]
    PROVE  s = t
OBVIOUS

LEMMA FitIsStep ==
    ASSUME NEW g, NEW s \in Seq(FitSteps(g))
    PROVE  /\ s \in Seq(AllSteps)
           /\ \A i \in DOMAIN s : s[i] \in FitSteps(g)
<1>1. \A i \in DOMAIN s : s[i] \in FitSteps(g)
  OBVIOUS
<1>2. FitSteps(g) \subseteq AllSteps
  BY DEF FitSteps, AllSteps
<1> QED  BY <1>1, <1>2, ListFits

LEMMA BuildFits ==
    ASSUME NEW g, g.on \in Platforms, ~Foreign(g, g.on), g.op # "clean"
    PROVE  /\ Build(g.on) \in Seq(FitSteps(g))
           /\ Assemble(g.on) \in Seq(FitSteps(g))
<1> DEFINE p == g.on
<1>1. \A op \in {"remove", "begin", "finish"} : Do(op, p) \in FitSteps(g)
  BY DoFits DEF PlatformOps
<1>2. \A v \in ToSet(VariantsOf(p)) : Do("copy", v) \in FitSteps(g)
  BY DoVariantFits DEF VariantOps
<1>3. ASSUME NEW x \in AllSteps, x.op \in {"openssl", "compile", "combine"},
             x.on \in Variants
      PROVE  x \in FitSteps(g)
  BY <1>3 DEF AllSteps, FitSteps, Fits, PlatformOps, VariantOps
<1>4. \A i \in DOMAIN BuildVariants(p) :
          /\ BuildVariants(p)[i] \in AllSteps
          /\ BuildVariants(p)[i].op \in {"openssl", "compile", "combine"}
          /\ BuildVariants(p)[i].on \in Variants
  <2>1. /\ BuildVariants(p) \in Seq(AllSteps)
        /\ \A i \in DOMAIN BuildVariants(p) :
              /\ BuildVariants(p)[i].op \in {"openssl", "compile", "combine"}
              /\ BuildVariants(p)[i].on \in Variants
    BY BuildVariantsList
  <2> QED  BY <2>1
<1>5. BuildVariants(p) \in Seq(FitSteps(g))
  <2>1. \A i \in DOMAIN BuildVariants(p) : BuildVariants(p)[i] \in FitSteps(g)
    BY <1>3, <1>4
  <2>2. BuildVariants(p) \in Seq(AllSteps)
    BY BuildVariantsList
  <2> QED  BY <2>1, <2>2, ListFits
<1>6. Assemble(p) \in Seq(FitSteps(g))
  <2>1. /\ Assemble(p) \in Seq(AllSteps)
        /\ \A i \in DOMAIN Assemble(p) : Assemble(p)[i] \in FitSteps(g)
    BY <1>1, <1>2, AssembleOrders
  <2> QED  BY <2>1, ListFits
<1> QED  BY <1>5, <1>6 DEF Build

LEMMA StubFits ==
    ASSUME NEW g, NEW p \in Platforms, Foreign(g, p), g.op # "clean"
    PROVE  AssembleStub(p) \in Seq(FitSteps(g))
<1>1. \A op \in {"remove", "begin", "finish", "mark"} : Do(op, p) \in FitSteps(g)
  BY DoFits DEF PlatformOps
<1>2. \A v \in ToSet(VariantsOf(p)) : Do("copyStub", v) \in FitSteps(g)
  BY DoVariantFits DEF VariantOps
<1>3. /\ AssembleStub(p) \in Seq(AllSteps)
      /\ \A i \in DOMAIN AssembleStub(p) : AssembleStub(p)[i] \in FitSteps(g)
  BY <1>1, <1>2, AssembleStubOrders DEF StubSteps
<1> QED  BY <1>3, ListFits

(* Every goal but artifactbundle starts with targets and checks only, and  *)
(* stages right after the check.                                           *)
RunOps ==
    {"ensure", "placeholder", "ensureXCFramework", "checkXCFramework",
     "check", "stage", "clean"}

LEMMA RunList ==
    ASSUME NEW g \in Goals, g.op # "artifactbundle"
    PROVE  LET s == StepsOf(g)
           IN  /\ s \in Seq(FitSteps(g)) /\ s # <<>>
               /\ g.op = "clean" => Len(s) <= 1
               /\ \A i \in DOMAIN s : s[i].op \in RunOps
               /\ \A i \in DOMAIN s : \A p \in Platforms :
                     s[i] = Do("stage", p) =>
                         \A k \in DOMAIN ChecksBefore(p) :
                             i > k /\ s[i - k] = ChecksBefore(p)[k]
<1> DEFINE s == StepsOf(g)
<1>1. \A p, q \in Platforms : Foreign(g, p) <=> p # g.on \/ g.op = "placeholder"
  BY DEF Foreign
<1>2. CASE g \in {Do("ensure", "apple"), Do("ensure", "android")}
  <2>0. /\ g.op = "ensure" /\ g = Do("ensure", g.on)
        /\ g.on \in Platforms /\ Other(g.on) \in Platforms /\ Other(g.on) # g.on
    BY <1>2 DEF Do, Other, Platforms
  <2>1. s = <<g, Do("placeholder", Other(g.on))>>
    BY <2>0 DEF StepsOf
  <2>2. g \in FitSteps(g) /\ Do("placeholder", Other(g.on)) \in FitSteps(g)
    BY <2>0, DoFits DEF Foreign, PlatformOps
  <2> QED  BY <2>0, <2>1, <2>2 DEF Do, RunOps
<1>3. CASE g \in {Do("placeholder", "apple"), Do("placeholder", "android"),
                  Do("clean", "apple")}
  <2>0. /\ g.op \in {"placeholder", "clean"}
        /\ g = Do(g.op, g.on) /\ g.on \in Platforms
    BY <1>3 DEF Do, Platforms
  <2>1. s = <<g>>
    BY <2>0 DEF StepsOf
  <2>2. g \in FitSteps(g)
    BY <2>0, DoFits DEF Foreign, PlatformOps
  <2> QED  BY <2>0, <2>1, <2>2 DEF Do, RunOps
<1>4. CASE g = Do("ensureXCFramework", "apple")
  <2>0. g.op = "ensureXCFramework" /\ g.on = "apple"
    BY <1>4 DEF Do
  <2>1. s = <<Do("ensure", "apple"), Do("placeholder", "android"),
              g, Do("checkXCFramework", "apple")>>
    BY <2>0 DEF StepsOf
  <2>2. /\ Do("ensure", "apple") \in FitSteps(g)
        /\ Do("placeholder", "android") \in FitSteps(g)
        /\ g \in FitSteps(g) /\ Do("checkXCFramework", "apple") \in FitSteps(g)
    BY <1>4, <2>0, DoFits DEF Foreign, PlatformOps, Platforms
  <2>3. s \in Seq(FitSteps(g)) /\ s # <<>>
    BY <2>1, <2>2
  <2>4. g.op # "clean"
    BY <2>0
  <2>5. \A i \in DOMAIN s : s[i].op \in RunOps
    BY <2>0, <2>1 DEF Do, RunOps
  <2>6. \A i \in DOMAIN s : \A p \in Platforms : s[i] # Do("stage", p)
    BY <2>0, <2>1 DEF Do
  <2> QED  BY <2>3, <2>4, <2>5, <2>6
<1>5. CASE g = Do("release", "apple")
  <2>0. g.op = "release" /\ g.on = "apple"
    BY <1>5 DEF Do
  <2>1. s = <<Do("ensure", "apple"), Do("placeholder", "android"),
              Do("ensure", "apple"), Do("placeholder", "android"),
              Do("ensureXCFramework", "apple"),
              Do("checkXCFramework", "apple"), Do("check", "android"),
              Do("check", "apple"), Do("checkXCFramework", "apple"),
              Do("stage", "apple")>>
    BY <2>0 DEF StepsOf
  <2>2. /\ Do("ensure", "apple") \in FitSteps(g)
        /\ Do("placeholder", "android") \in FitSteps(g)
        /\ \A op \in {"ensureXCFramework", "checkXCFramework", "check", "stage"} :
              Do(op, "apple") \in FitSteps(g)
        /\ Do("check", "android") \in FitSteps(g)
    BY <1>5, <2>0, DoFits DEF Foreign, PlatformOps, Platforms
  <2>3. s \in Seq(FitSteps(g)) /\ s # <<>>
    BY <2>1, <2>2
  <2>4. g.op # "clean"
    BY <1>5 DEF Do
  <2>5. \A i \in DOMAIN s : s[i].op \in RunOps
    BY <2>1 DEF Do, RunOps
  <2>6. \A i \in DOMAIN s : \A p \in Platforms :
           s[i] = Do("stage", p) =>
               \A k \in DOMAIN ChecksBefore(p) :
                   i > k /\ s[i - k] = ChecksBefore(p)[k]
    <3>1. ASSUME NEW i \in DOMAIN s, NEW p \in Platforms, s[i] = Do("stage", p)
          PROVE  i = 10 /\ p = "apple"
      BY <2>1, <3>1 DEF Do
    <3>2. /\ s[10 - 1] = Do("checkXCFramework", "apple")
          /\ s[10 - 2] = Do("check", "apple")
      BY <2>1
    <3>3. /\ DOMAIN ChecksBefore("apple") = 1..2
          /\ ChecksBefore("apple")[1] = Do("checkXCFramework", "apple")
          /\ ChecksBefore("apple")[2] = Do("check", "apple")
      BY DEF ChecksBefore
    <3> HIDE DEF s
    <3>4. \A k \in DOMAIN ChecksBefore("apple") :
              10 > k /\ s[10 - k] = ChecksBefore("apple")[k]
      <4>1. \A k \in 1..2 : k = 1 \/ k = 2
        OBVIOUS
      <4> QED  BY <3>2, <3>3, <4>1
    <3> QED  BY <3>1, <3>4
  <2> QED  BY <2>3, <2>4, <2>5, <2>6
<1>6. CASE g = Do("release", "android")
  <2>0. g.op = "release" /\ g.on = "android"
    BY <1>6 DEF Do
  <2>1. s = <<Do("ensure", "android"), Do("placeholder", "apple"),
              Do("check", "android"), Do("stage", "android")>>
    BY <2>0 DEF StepsOf
  <2>2. /\ Do("ensure", "android") \in FitSteps(g)
        /\ Do("placeholder", "apple") \in FitSteps(g)
        /\ Do("check", "android") \in FitSteps(g)
        /\ Do("stage", "android") \in FitSteps(g)
    BY <1>6, <2>0, DoFits DEF Foreign, PlatformOps, Platforms
  <2>3. s \in Seq(FitSteps(g)) /\ s # <<>>
    BY <2>1, <2>2
  <2>4. g.op # "clean"
    BY <2>0
  <2>5. \A i \in DOMAIN s : s[i].op \in RunOps
    BY <2>0, <2>1 DEF Do, RunOps
  <2>6. \A i \in DOMAIN s : \A p \in Platforms :
           s[i] = Do("stage", p) =>
               \A k \in DOMAIN ChecksBefore(p) :
                   i > k /\ s[i - k] = ChecksBefore(p)[k]
    <3>1. ASSUME NEW i \in DOMAIN s, NEW p \in Platforms, s[i] = Do("stage", p)
          PROVE  i = 4 /\ p = "android"
      BY <2>1, <3>1 DEF Do
    <3>2. s[4 - 1] = Do("check", "android")
      BY <2>1
    <3>3. /\ DOMAIN ChecksBefore("android") = {1}
          /\ ChecksBefore("android")[1] = Do("check", "android")
      BY DEF ChecksBefore
    <3> HIDE DEF s
    <3> QED  BY <3>1, <3>2, <3>3
  <2> QED  BY <2>3, <2>4, <2>5, <2>6
<1>7. g \in {Do("ensure", "apple"), Do("ensure", "android"),
             Do("placeholder", "apple"), Do("placeholder", "android"),
             Do("clean", "apple"), Do("ensureXCFramework", "apple"),
             Do("release", "apple"), Do("release", "android")}
  BY DEF Goals, Do, Platforms
<1> QED  BY <1>2, <1>3, <1>4, <1>5, <1>6, <1>7

(* make artifactbundle-* builds everything first.                          *)
LEMMA MakeList ==
    ASSUME NEW p \in Platforms, NEW g, g = Do("artifactbundle", p)
    PROVE  \E rest \in Seq(FitSteps(g)) :
              /\ StepsOf(g) = Build(p) \o rest
              /\ \A i \in DOMAIN rest :
                    rest[i].op \in {"removeXCFramework", "createXCFramework",
                                    "checkXCFramework", "placeholder"}
<1>1. /\ Build(p) \in Seq(FitSteps(g)) /\ g.op = "artifactbundle" /\ g.on = p
      /\ Build(p) \in Seq(AllSteps)
  <2>1. g.op = "artifactbundle" /\ g.on = p
    BY DEF Do
  <2> QED  BY <2>1, BuildFits, BuildOrders DEF Foreign
<1>2. CASE p = "apple"
  <2> DEFINE rest == <<Do("removeXCFramework", "apple"),
                       Do("createXCFramework", "apple"),
                       Do("checkXCFramework", "apple"),
                       Do("placeholder", "android")>>
             b == Build(p)
  <2>1. StepsOf(g) =
            b \o (<<Do("removeXCFramework", "apple"),
                    Do("createXCFramework", "apple")>>
                  \o <<Do("checkXCFramework", "apple")>>)
              \o <<Do("placeholder", "android")>>
    BY <1>1, <1>2 DEF StepsOf, BuildXCFramework, Other
  <2>2. /\ Do("placeholder", "android") \in FitSteps(g)
        /\ \A op \in {"removeXCFramework", "createXCFramework",
                      "checkXCFramework"} : Do(op, "apple") \in FitSteps(g)
    BY <1>1, <1>2, DoFits DEF Foreign, PlatformOps, Platforms
  <2>3. rest \in Seq(FitSteps(g))
    BY <2>2
  <2>4. \A i \in DOMAIN rest :
            rest[i].op \in {"removeXCFramework", "createXCFramework",
                            "checkXCFramework", "placeholder"}
    BY DEF Do
  <2>5. StepsOf(g) = b \o rest
    <3> DEFINE x == Do("removeXCFramework", "apple")
               y == Do("createXCFramework", "apple")
               z == Do("checkXCFramework", "apple")
               w == Do("placeholder", "android")
    <3>1. b \in Seq(AllSteps) /\ x \in AllSteps /\ y \in AllSteps
              /\ z \in AllSteps /\ w \in AllSteps
      BY <1>1, <2>2 DEF FitSteps, AllSteps
    <3>2. StepsOf(g) = b \o (<<x, y>> \o <<z>>) \o <<w>>
      BY <2>1
    <3> HIDE DEF b, x, y, z, w
    <3>3. <<x, y>> \o <<z>> = <<x, y, z>>
      <4>1. /\ <<x, y>> \o <<z>> \in Seq(AllSteps)
            /\ <<x, y, z>> \in Seq(AllSteps)
            /\ Len(<<x, y>> \o <<z>>) = 3
            /\ \A i \in 1..3 : (<<x, y>> \o <<z>>)[i] = <<x, y, z>>[i]
        BY ONLY <3>1
      <4> QED  BY <4>1, SameList
    <3>4. b \o <<x, y, z>> \o <<w>> = b \o <<x, y, z, w>>
      BY ONLY <3>1
    <3> QED  BY <3>2, <3>3, <3>4 DEF x, y, z, w
  <2> QED  BY <2>3, <2>4, <2>5
<1>3. CASE p = "android"
  <2> DEFINE rest == <<Do("placeholder", "apple")>>
             b == Build(p)
  <2>1. StepsOf(g) = b \o <<>> \o rest
    BY <1>1, <1>3 DEF StepsOf, Other
  <2>2. rest \in Seq(FitSteps(g))
    BY <1>1, <1>3, DoFits DEF Foreign, PlatformOps, Platforms
  <2>3. \A i \in DOMAIN rest : rest[i].op = "placeholder"
    BY DEF Do
  <2>4. b \o <<>> = b
    BY <1>1
  <2> QED  BY <2>1, <2>2, <2>3, <2>4
<1> QED  BY <1>2, <1>3 DEF Platforms

-----------------------------------------------------------------------------
(* What the steps do to what is left.                                      *)

Pops == /\ todo # <<>> /\ todo' = Tail(todo)
        /\ goal' = goal /\ ended' = ended /\ tree' = tree
Pushes(steps) ==
    /\ todo # <<>> /\ todo' = steps \o Tail(todo)
    /\ goal' = goal /\ ended' = ended /\ tree' = tree
    /\ UNCHANGED <<targets, outputs>>
(* A run is over, or there is none.                                        *)
Ends == /\ todo' = <<>> /\ goal' = goal
        /\ UNCHANGED <<tree, targets, bundle, staged>>
        /\ \/ ended' \in {"killed", "failed"}
           \/ ended' = "ok" /\ ended = "no" /\ todo = <<>>
Rested == /\ Edit \/ Clone
          /\ todo = <<>> /\ todo' = <<>> /\ goal' = Do("none", "apple")
          /\ ended' = "ok" /\ UNCHANGED <<bundle, staged>>

Builds == Openssl \/ Compile \/ Combine \/ Clean
(* Nothing but a library that is to be combined anew is gone.              *)
Unlinks ==
    /\ todo # <<>> /\ Head(todo).op = "combine"
    /\ library' = [library EXCEPT ![On] = NoFile]
    /\ UNCHANGED <<tree, libcrypto, core, outputs, goal, todo, ended>>
Writes == RemoveBundle \/ Begin \/ Copy \/ CopyStub \/ FinishBundle \/ MarkStub
(* Nothing is left to do, or a check passed.                               *)
Passes ==
    /\ UNCHANGED <<targets, bundle>>
    /\ At("check") => Accepts(On) /\ UNCHANGED xcframework
    /\ At("checkXCFramework") => AcceptsXCFramework /\ UNCHANGED xcframework
    /\ At("ensure") => Accepts(On)
    /\ \/ Stage /\ At("stage")
       \/ UNCHANGED staged
    /\ \E op \in {"check", "checkXCFramework", "ensure", "placeholder",
                  "ensureXCFramework", "removeXCFramework",
                  "createXCFramework", "stage"} : At(op)

LEMMA NothingPushed ==
    ASSUME Types, todo # <<>>
    PROVE  <<>> \o Tail(todo) = Tail(todo)
BY DEF Types

LEMMA HeadStep ==
    ASSUME Types, todo # <<>>
    PROVE  /\ todo \in Seq(AllSteps) /\ Tail(todo) \in Seq(FitSteps(goal))
           /\ Tail(todo) \in Seq(AllSteps)
           /\ Head(todo) \in FitSteps(goal) /\ Head(todo) \in AllSteps
           /\ Head(todo) = Do(Head(todo).op, On)
           /\ Len(Tail(todo)) = Len(todo) - 1 /\ Len(todo) \in Nat
           /\ ended = "no"
<1>1. todo \in Seq(FitSteps(goal))
  BY DEF Types
<1>2. todo \in Seq(AllSteps) /\ Tail(todo) \in Seq(AllSteps)
  BY <1>1, FitIsStep
<1>3. Head(todo) \in FitSteps(goal) /\ Tail(todo) \in Seq(FitSteps(goal))
  BY <1>1
<1>4. Head(todo) \in AllSteps
  BY <1>3 DEF FitSteps, AllSteps
<1>5. Head(todo) = Do(Head(todo).op, On)
  BY <1>4 DEF AllSteps, Do, On
<1>6. Len(Tail(todo)) = Len(todo) - 1 /\ Len(todo) \in Nat
  BY <1>1
<1> QED  BY <1>2, <1>3, <1>4, <1>5, <1>6 DEF Types

LEMMA Kinds ==
    ASSUME Types, [Next]_vars
    PROVE  \/ Start
           \/ Rested
           \/ Ends
           \/ UNCHANGED vars
           \/ Unlinks
           \/ Pops /\ Builds /\ UNCHANGED outputs
           \/ Pops /\ Writes /\ UNCHANGED <<targets, staged>>
           \/ Pops /\ Passes
           \/ At("ensure") /\ ~Accepts(On) /\ Pushes(Build(On))
           \/ /\ At("ensure") /\ ~Accepts(On) /\ Pushes(Assemble(On))
              /\ \A v \in ToSet(VariantsOf(On)) : library[v] # NoFile
           \/ At("placeholder") /\ ~Resolvable(On) /\ Pushes(AssembleStub(On))
           \/ At("ensureXCFramework") /\ Pushes(BuildXCFramework)
<1>1. CASE Start
  BY <1>1
<1>2. CASE Edit \/ Clone
  BY <1>2 DEF Types, Rested, Rests, Idle, Edit, Clone, outputs
<1>3. CASE Kill \/ Finish
  BY <1>3 DEF Kill, Finish, Ends, Idle, targets, outputs
<1>4. CASE Builds
  BY <1>4, NothingPushed
     DEF Builds, Openssl, Compile, Combine, Clean, At, GoOn, Pops
<1>5. CASE Writes
  <2>1. Pops
    BY <1>5, NothingPushed
       DEF Writes, RemoveBundle, Begin, Copy, CopyStub, FinishBundle,
           MarkStub, At, GoOn, Pops
  <2>2. UNCHANGED <<targets, staged>>
    BY <1>5
       DEF Writes, RemoveBundle, Begin, Copy, CopyStub, FinishBundle,
           MarkStub, Copies, SetBundle
  <2> QED  BY <1>5, <2>1, <2>2
<1>6. CASE Ensure
  <2>1. /\ todo # <<>> /\ Head(todo).op = "ensure"
        /\ UNCHANGED <<targets, outputs>>
    BY <1>6 DEF Ensure, At
  <2>2. CASE Accepts(On)
    <3>1. Pops
      BY <1>6, <2>1, <2>2, NothingPushed DEF Ensure, GoOn, Pops
    <3> QED  BY <2>1, <2>2, <3>1 DEF Passes, At, outputs
  <2>3. CASE ~Accepts(On)
    BY <1>6, <2>1, <2>3 DEF Ensure, GoOn, Pushes, At
  <2> QED  BY <2>2, <2>3
<1>7. CASE Placeholder
  <2>1. /\ todo # <<>> /\ Head(todo).op = "placeholder"
        /\ UNCHANGED <<targets, outputs>>
    BY <1>7 DEF Placeholder, At
  <2>2. CASE Resolvable(On)
    <3>1. Pops
      BY <1>7, <2>1, <2>2, NothingPushed DEF Placeholder, GoOn, Pops
    <3> QED  BY <2>1, <2>2, <3>1 DEF Passes, At, outputs
  <2>3. CASE ~Resolvable(On)
    BY <1>7, <2>1, <2>3 DEF Placeholder, GoOn, Pushes, At
  <2> QED  BY <2>2, <2>3
<1>8. CASE EnsureXCFramework
  <2>1. /\ todo # <<>> /\ Head(todo).op = "ensureXCFramework"
        /\ UNCHANGED <<targets, outputs>>
    BY <1>8 DEF EnsureXCFramework, At
  <2>2. CASE AcceptsXCFramework
    <3>1. Pops
      BY <1>8, <2>1, <2>2, NothingPushed DEF EnsureXCFramework, GoOn, Pops
    <3> QED  BY <2>1, <2>2, <3>1 DEF Passes, At, outputs
  <2>3. CASE ~AcceptsXCFramework
    BY <1>8, <2>1, <2>3 DEF EnsureXCFramework, GoOn, Pushes, At
  <2> QED  BY <2>2, <2>3
<1>9. CASE Check \/ CheckXCFramework
  <2>1. /\ todo # <<>> /\ Head(todo).op \in {"check", "checkXCFramework"}
        /\ UNCHANGED <<targets, outputs, tree>> /\ goal' = goal
    BY <1>9 DEF Check, CheckXCFramework, At, GoOnIf
  <2>2. ended = "no"
    BY <2>1, HeadStep
  <2>3. CASE ended' = "failed"
    BY <1>9, <2>1, <2>3
       DEF Check, CheckXCFramework, GoOnIf, Ends, outputs
  <2>4. CASE ended' # "failed"
    <3>1. /\ todo' = Tail(todo) /\ ended' = "no"
          /\ Head(todo).op = "check" => Accepts(On)
          /\ Head(todo).op = "checkXCFramework" => AcceptsXCFramework
      BY <1>9, <2>1, <2>4 DEF Check, CheckXCFramework, GoOnIf, At
    <3> QED  BY <2>1, <2>2, <3>1 DEF Pops, Passes, At, outputs
  <2> QED  BY <2>3, <2>4
<1>10. CASE RemoveXCFramework
  <2>1. /\ todo # <<>> /\ Head(todo).op = "removeXCFramework"
        /\ UNCHANGED <<targets, bundle, staged>>
    BY <1>10 DEF RemoveXCFramework, At
  <2>2. CASE \A v \in ToSet(AppleVariants) : bundle["apple"].libs[v] # NoFile
    <3>1. Pops
      BY <1>10, <2>1, <2>2, NothingPushed DEF RemoveXCFramework, GoOn, Pops
    <3> QED  BY <2>1, <3>1 DEF Passes, At
  <2>3. CASE ~ \A v \in ToSet(AppleVariants) : bundle["apple"].libs[v] # NoFile
    BY <1>10, <2>1, <2>3 DEF RemoveXCFramework, GoOnIf, Ends
  <2> QED  BY <2>2, <2>3
<1>11. CASE CreateXCFramework \/ Stage
  <2>1. /\ todo # <<>> /\ Head(todo).op \in {"createXCFramework", "stage"}
        /\ UNCHANGED <<targets, bundle>>
        /\ Stage \/ UNCHANGED staged
        /\ Head(todo).op = "stage" => Stage
    BY <1>11 DEF CreateXCFramework, Stage, At
  <2>2. Pops
    BY <1>11, <2>1, NothingPushed DEF CreateXCFramework, Stage, GoOn, Pops
  <2>3. Stage => At("stage")
    BY DEF Stage
  <2> QED  BY <2>1, <2>2, <2>3 DEF Passes, At
<1>12. CASE UNCHANGED vars
  BY <1>12
<1>13. CASE RemoveLibrary
  BY <1>13 DEF RemoveLibrary, Unlinks, At
<1> QED
  BY <1>1, <1>2, <1>3, <1>4, <1>5, <1>6, <1>7, <1>8, <1>9, <1>10, <1>11, <1>12,
     <1>13
     DEF Next, Builds, Writes

-----------------------------------------------------------------------------
(* Types.                                                                  *)

LEMMA StepsFit ==
    ASSUME NEW g \in Goals
    PROVE  /\ StepsOf(g) \in Seq(FitSteps(g)) /\ StepsOf(g) # <<>>
           /\ g.op = "clean" => Len(StepsOf(g)) <= 1
<1>1. CASE g.op # "artifactbundle"
  BY <1>1, RunList
<1>2. CASE g.op = "artifactbundle"
  <2>1. g.on \in Platforms /\ g = Do("artifactbundle", g.on)
    BY <1>2 DEF Goals, Do, Platforms
  <2>2. PICK rest \in Seq(FitSteps(g)) : StepsOf(g) = Build(g.on) \o rest
    BY <2>1, MakeList
  <2>3. Build(g.on) \in Seq(FitSteps(g)) /\ Build(g.on) # <<>>
    BY <1>2, <2>1, BuildFits, BuildOrders DEF Foreign
  <2> QED  BY <1>2, <2>2, <2>3
<1> QED  BY <1>1, <1>2

LEMMA XCFits ==
    ASSUME NEW g, g.op # "clean"
    PROVE  /\ BuildXCFramework \in Seq(FitSteps(g))
           /\ \A i \in DOMAIN BuildXCFramework :
                 BuildXCFramework[i].op \in {"removeXCFramework", "createXCFramework"}
<1>1. /\ Do("removeXCFramework", "apple") \in FitSteps(g)
      /\ Do("createXCFramework", "apple") \in FitSteps(g)
  BY DoFits DEF PlatformOps, Platforms
<1> QED  BY <1>1 DEF BuildXCFramework, Do

(* What kinds of steps the lists have.                                     *)
AssembleOps == {"remove", "begin", "finish", "copy"}
BuildOps == {"openssl", "compile", "combine"} \cup AssembleOps
StubOps == {"remove", "begin", "finish", "copyStub", "mark"}

LEMMA ListedOps ==
    ASSUME NEW p \in Platforms
    PROVE  /\ Build(p) \in Seq(AllSteps)
           /\ \A i \in DOMAIN Build(p) : Build(p)[i].op \in BuildOps
           /\ Assemble(p) \in Seq(AllSteps)
           /\ \A i \in DOMAIN Assemble(p) : Assemble(p)[i].op \in AssembleOps
           /\ AssembleStub(p) \in Seq(AllSteps)
           /\ \A i \in DOMAIN AssembleStub(p) : AssembleStub(p)[i].op \in StubOps
           /\ BuildXCFramework \in Seq(AllSteps)
           /\ \A i \in DOMAIN BuildXCFramework :
                 BuildXCFramework[i].op \in {"removeXCFramework", "createXCFramework"}
<1>1. \A op, x : Do(op, x).op = op
  BY DEF Do
<1>2. ASSUME NEW i \in DOMAIN Build(p)  PROVE Build(p)[i].op \in BuildOps
  <2>1. \/ Build(p)[i].op \in {"openssl", "compile", "combine"}
        \/ Build(p)[i] \in {Do("remove", p), Do("begin", p), Do("finish", p)}
        \/ \E v \in ToSet(VariantsOf(p)) : Build(p)[i] = Do("copy", v)
    BY <1>2, BuildOrders
  <2> QED  BY <1>1, <2>1 DEF BuildOps, AssembleOps
<1>3. ASSUME NEW i \in DOMAIN Assemble(p)  PROVE Assemble(p)[i].op \in AssembleOps
  <2>1. \/ Assemble(p)[i] \in {Do("remove", p), Do("begin", p), Do("finish", p)}
        \/ \E v \in ToSet(VariantsOf(p)) : Assemble(p)[i] = Do("copy", v)
    BY <1>3, AssembleOrders
  <2> QED  BY <1>1, <2>1 DEF AssembleOps
<1>4. ASSUME NEW i \in DOMAIN AssembleStub(p)
      PROVE  AssembleStub(p)[i].op \in StubOps
  <2>1. AssembleStub(p)[i] \in StubSteps(p) \cup {Do("mark", p)}
    BY <1>4, AssembleStubOrders
  <2> QED  BY <1>1, <2>1 DEF StubOps, StubSteps
<1>5. /\ BuildXCFramework \in Seq(AllSteps)
      /\ \A i \in DOMAIN BuildXCFramework :
            BuildXCFramework[i].op \in {"removeXCFramework", "createXCFramework"}
  BY DEF BuildXCFramework, AllSteps, Do, PlatformOps, Platforms
<1>6. /\ Build(p) \in Seq(AllSteps) /\ Assemble(p) \in Seq(AllSteps)
      /\ AssembleStub(p) \in Seq(AllSteps)
  BY BuildOrders, AssembleOrders, AssembleStubOrders
<1> QED  BY <1>2, <1>3, <1>4, <1>5, <1>6

(* What is pushed in place of a target fits the goal.                      *)
LEMMA HeadEnsure ==
    ASSUME Types, At("ensure")
    PROVE  /\ On \in Platforms /\ ~Foreign(goal, On) /\ On = goal.on
           /\ goal.op # "clean"
BY HeadStep DEF At, On, FitSteps, Fits, PlatformOps, Foreign

LEMMA HeadPlaceholder ==
    ASSUME Types, At("placeholder")
    PROVE  On \in Platforms /\ Foreign(goal, On) /\ goal.op # "clean"
BY HeadStep DEF At, On, FitSteps, Fits, PlatformOps

LEMMA StagedStays ==
    ASSUME Types, UNCHANGED staged
    PROVE  StagedIsReal'
BY DEF Types, StagedIsReal

LEMMA PushesFit ==
    ASSUME Types, NEW steps \in Seq(FitSteps(goal)), Pushes(steps),
           goal.op # "clean"
    PROVE  Types'
<1>1. /\ Tail(todo) \in Seq(FitSteps(goal)) /\ ended = "no"
      /\ Len(Tail(todo)) = Len(todo) - 1 /\ Len(todo) \in Nat
      /\ Head(todo) \in FitSteps(goal)
  BY HeadStep DEF Pushes
<1>2. todo' \in Seq(FitSteps(goal))
  BY <1>1 DEF Pushes
<1>3. UNCHANGED <<tree, libcrypto, core, library, bundle, staged, goal, ended>>
  BY DEF Pushes, targets, outputs
<1>4. FitSteps(goal)' = FitSteps(goal)
  BY <1>3 DEF FitSteps, Fits, Foreign
<1>5. StagedIsReal'
  BY <1>3, StagedStays
<1> QED  BY <1>1, <1>2, <1>3, <1>4, <1>5 DEF Types

LEMMA PopsFit ==
    ASSUME Types, Pops, bundle' \in [Platforms -> Bundles],
           library' \in [Variants -> Libraries \ {EmptyFile}],
           libcrypto' \in [Variants -> Crypto], core' \in [Variants -> Nat],
           StagedIsReal'
    PROVE  Types'
<1>1. /\ Tail(todo) \in Seq(FitSteps(goal)) /\ ended = "no"
      /\ Len(Tail(todo)) = Len(todo) - 1 /\ Len(todo) \in Nat
  BY HeadStep DEF Pops
<1>2. FitSteps(goal)' = FitSteps(goal)
  BY DEF FitSteps, Fits, Foreign, Pops
<1> QED  BY <1>1, <1>2 DEF Types, Pops

LEMMA LibraryKinds ==
    /\ NoFile \in Libraries /\ EmptyFile \in Libraries /\ NoFile # EmptyFile
    /\ NoLibraries \in [Variants -> Libraries] /\ NoBundle \in Bundles
    /\ \A lib \in Libraries : lib \notin Stubs => Built(lib)
    /\ \A n \in Nat \ {0}, s \in Crypto :
          /\ [source |-> n, openssl |-> s] \in Libraries
          /\ [source |-> n, openssl |-> s] \notin Stubs
BY DEF Libraries, Stubs, NoFile, EmptyFile, NoLibraries, NoBundle, Bundles, Built, Crypto

LEMMA InitTypes == Init => Types
<1> SUFFICES ASSUME Init  PROVE Types
  OBVIOUS
<1>1. \A p \in Platforms : Committed(p) \in Bundles
  <2> SUFFICES ASSUME NEW p \in Platforms  PROVE Committed(p) \in Bundles
    OBVIOUS
  <2> DEFINE lib(v) ==
               IF v \in ToSet(VariantsOf(p))
               THEN [source |-> 1,
                     openssl |-> IF v \in BrewVariants THEN "brew" ELSE "pin1"]
               ELSE NoFile
  <2>0. \A v \in Variants : lib(v) \in Libraries
    <3>1. /\ [source |-> 1, openssl |-> "brew"] \in Libraries
          /\ [source |-> 1, openssl |-> "pin1"] \in Libraries
      BY DEF Libraries, Crypto
    <3> QED  BY <3>1, LibraryKinds
  <2>1. Committed(p).libs = [v \in Variants |-> lib(v)]
    BY DEF Committed
  <2> HIDE DEF lib
  <2>2. Committed(p).libs \in [Variants -> Libraries]
    BY <2>0, <2>1
  <2> QED  BY <2>2 DEF Committed, Bundles
<1>2. <<>> \in Seq(FitSteps(goal)) /\ Len(<<>>) <= 1
  OBVIOUS
<1>3. NoLibraries \in [Variants -> Libraries \ {EmptyFile}]
  BY LibraryKinds DEF NoLibraries
<1>4. /\ tree \in [source: Nat \ {0}, pin: Nat]
      /\ libcrypto \in [Variants -> Crypto] /\ core \in [Variants -> Nat]
  BY DEF Init, Crypto
<1>5. /\ library \in [Variants -> Libraries \ {EmptyFile}]
      /\ StagedIsReal
  BY <1>3 DEF Init, StagedIsReal, NothingStaged
<1>6. bundle \in [Platforms -> Bundles]
  BY <1>1 DEF Init
<1>7. goal = Do("none", "apple") /\ todo = <<>>
  BY DEF Init
<1> QED  BY <1>2, <1>4, <1>5, <1>6, <1>7 DEF Types

LEMMA BuildsTypes ==
    ASSUME Types, CombinesACore, Pops, Builds, UNCHANGED outputs
    PROVE  Types'
<1>1. /\ On \in Variants \/ Head(todo).op = "clean"
      /\ UNCHANGED <<bundle, staged>>
  <2>1. Head(todo).op \in {"openssl", "compile", "combine", "clean"}
    BY DEF Builds, Openssl, Compile, Combine, Clean, At
  <2> QED  BY <2>1, HeadStep DEF Pops, On, FitSteps, Fits, VariantOps, outputs
<1>2. tree.source \in Nat \ {0} /\ Pin \in Crypto
  BY DEF Types, Pin, Crypto
<1>0. /\ libcrypto \in [Variants -> Crypto] /\ core \in [Variants -> Nat]
      /\ library \in [Variants -> Libraries \ {EmptyFile}]
      /\ bundle' \in [Platforms -> Bundles]
      /\ StagedIsReal'
  BY <1>1, StagedStays DEF Types
<1>3. CASE Openssl
  <2>1. libcrypto' \in [Variants -> Crypto] /\ UNCHANGED <<core, library>>
    BY <1>0, <1>2, <1>3 DEF Openssl, Crypto
  <2> QED  BY <1>0, <2>1, PopsFit
<1>4. CASE Compile
  <2>1. core' \in [Variants -> Nat] /\ UNCHANGED <<libcrypto, library>>
    BY <1>0, <1>2, <1>4 DEF Compile
  <2> QED  BY <1>0, <2>1, PopsFit
<1>5. CASE Combine
  <2>1. On \in Variants /\ Head(todo) = Do("combine", On)
    BY <1>1, <1>5, HeadStep DEF Combine, At
  <2>2. core[On] > 0
    BY <2>1, HeadStep, BeforeTail DEF Pops, CombinesACore
  <2>3. core[On] \in Nat \ {0} /\ libcrypto[On] \in Crypto
    BY <2>1, <2>2 DEF Types
  <2>4. [source |-> core[On], openssl |-> libcrypto[On]] \in Libraries \ {EmptyFile}
    BY <2>3, LibraryKinds DEF Stubs
  <2>5. library' \in [Variants -> Libraries \ {EmptyFile}]
    BY <1>0, <1>5, <2>4 DEF Combine
  <2>6. UNCHANGED <<libcrypto, core>>
    BY <1>5 DEF Combine
  <2> QED  BY <1>0, <2>5, <2>6, PopsFit
<1>6. CASE Clean
  <2>1. library' \in [Variants -> Libraries \ {EmptyFile}]
    BY <1>6, LibraryKinds DEF Clean, NoLibraries
  <2>2. libcrypto' \in [Variants -> Crypto] /\ core' \in [Variants -> Nat]
    BY <1>6 DEF Clean, Crypto
  <2> QED  BY <1>0, <2>1, <2>2, PopsFit
<1> QED  BY <1>3, <1>4, <1>5, <1>6 DEF Builds

(* The bundle that a writing step writes, and what becomes of it.          *)
LEMMA Written ==
    ASSUME Types, Pops, Writes, NEW p \in Platforms
    PROVE  LET h == Head(todo) IN
           \/ bundle'[p] = bundle[p] /\ h \notin StubSteps(p)
                 /\ h # Do("mark", p)
                 /\ \A v \in ToSet(VariantsOf(p)) : h # Do("copy", v)
           \/ h = Do("remove", p) /\ bundle'[p] = NoBundle
           \/ h = Do("begin", p) /\ bundle'[p] = [bundle[p] EXCEPT !.info = "partial"]
           \/ h = Do("finish", p) /\ bundle'[p] = [bundle[p] EXCEPT !.info = "whole"]
           \/ h = Do("mark", p) /\ bundle'[p] = [bundle[p] EXCEPT !.marked = TRUE]
           \/ \E v \in ToSet(VariantsOf(p)) :
                 \/ /\ h = Do("copy", v)
                    /\ bundle'[p] = [bundle[p] EXCEPT !.libs[v] = library[v]]
                 \/ /\ h = Do("copyStub", v)
                    /\ bundle'[p] = [bundle[p] EXCEPT !.libs[v] = EmptyFile]
<1> DEFINE h == Head(todo)
<1>1. h = Do(h.op, On) /\ h \in FitSteps(goal) /\ bundle \in [Platforms -> Bundles]
  BY HeadStep DEF Pops, Types
<1>2. CASE h.op \in {"remove", "begin", "finish", "mark"}
  <2>1. On \in Platforms
    BY <1>1, <1>2 DEF FitSteps, Fits, PlatformOps, On
  <2>2. CASE RemoveBundle
    BY <1>1, <2>1, <2>2
       DEF RemoveBundle, SetBundle, StartedOver, At, StubSteps, Do
  <2>3. CASE Begin
    BY <1>1, <2>1, <2>3 DEF Begin, SetBundle, At, StubSteps, Do
  <2>4. CASE FinishBundle
    BY <1>1, <2>1, <2>4 DEF FinishBundle, SetBundle, At, StubSteps, Do
  <2>5. CASE MarkStub
    <3>1. /\ h = Do("mark", On)
          /\ bundle' = [bundle EXCEPT ![On] = [bundle[On] EXCEPT !.marked = TRUE]]
      BY <1>1, <2>5 DEF MarkStub, SetBundle, At
    <3>2. CASE p = On
      BY <1>1, <3>1, <3>2
    <3>3. CASE p # On
      BY <1>1, <3>1, <3>3 DEF StubSteps, Do
    <3> QED  BY <3>2, <3>3
  <2> QED  BY <1>2, <2>2, <2>3, <2>4, <2>5 DEF Writes, Copy, CopyStub, At
<1>3. CASE h.op \in {"copy", "copyStub"}
  <2>1. PICK q \in Platforms : On \in ToSet(VariantsOf(q))
    <3>1. On \in Variants
      BY <1>1, <1>3 DEF FitSteps, Fits, VariantOps, On
    <3> QED  BY <3>1 DEF Variants, VariantsOf, Platforms
  <2>2. PlatformOf(On) = q
    BY <2>1, PlatformOfVariant
  <2>3. bundle' = [bundle EXCEPT ![q] =
            [bundle[q] EXCEPT !.libs[On] =
                IF h.op = "copy" THEN library[On] ELSE EmptyFile]]
    BY <1>3, <2>2
       DEF Writes, RemoveBundle, Begin, Copy, CopyStub, FinishBundle,
           MarkStub, Copies, SetBundle, At
  <2>4. CASE p = q
    BY <1>1, <1>3, <2>1, <2>3, <2>4
  <2>5. CASE p # q
    <3>1. On \notin ToSet(VariantsOf(p))
      BY <2>1, <2>5, PlatformOfVariant
    <3>2. h \notin StubSteps(p) /\ h # Do("mark", p)
            /\ \A v \in ToSet(VariantsOf(p)) : h # Do("copy", v)
      BY <1>1, <1>3, <3>1 DEF StubSteps, Do
    <3> QED  BY <1>1, <2>3, <2>5, <3>2
  <2> QED  BY <2>4, <2>5
<1> QED
  BY <1>2, <1>3
     DEF Writes, RemoveBundle, Begin, Copy, CopyStub, FinishBundle, MarkStub, At

LEMMA WritesTypes ==
    ASSUME Types, Pops, Writes, UNCHANGED <<targets, staged>>
    PROVE  Types'
<1>1. bundle \in [Platforms -> Bundles] /\ library \in [Variants -> Libraries]
  BY DEF Types
<1>2. \A p \in Platforms : bundle'[p] \in Bundles
  <2> SUFFICES ASSUME NEW p \in Platforms  PROVE bundle'[p] \in Bundles
    OBVIOUS
  <2>1. /\ bundle[p] \in Bundles /\ NoBundle \in Bundles
        /\ EmptyFile \in Libraries
        /\ \A v \in ToSet(VariantsOf(p)) : v \in Variants /\ library[v] \in Libraries
    BY <1>1, LibraryKinds, VariantsListed
  <2>2. \A v \in Variants, lib \in Libraries :
            [bundle[p] EXCEPT !.libs[v] = lib] \in Bundles
    BY <2>1 DEF Bundles
  <2>3. /\ [bundle[p] EXCEPT !.info = "partial"] \in Bundles
        /\ [bundle[p] EXCEPT !.info = "whole"] \in Bundles
        /\ [bundle[p] EXCEPT !.marked = TRUE] \in Bundles
    BY <2>1 DEF Bundles
  <2>4. \/ bundle'[p] = bundle[p] \/ bundle'[p] = NoBundle
        \/ bundle'[p] = [bundle[p] EXCEPT !.info = "partial"]
        \/ bundle'[p] = [bundle[p] EXCEPT !.info = "whole"]
        \/ bundle'[p] = [bundle[p] EXCEPT !.marked = TRUE]
        \/ \E v \in ToSet(VariantsOf(p)) : \E lib \in {library[v], EmptyFile} :
               bundle'[p] = [bundle[p] EXCEPT !.libs[v] = lib]
    BY Written
  <2>5. ASSUME NEW v \in ToSet(VariantsOf(p)), NEW lib \in {library[v], EmptyFile},
               bundle'[p] = [bundle[p] EXCEPT !.libs[v] = lib]
        PROVE  bundle'[p] \in Bundles
    BY <2>1, <2>2, <2>5
  <2> QED  BY <2>1, <2>3, <2>4, <2>5
<1>3. DOMAIN bundle' = Platforms /\ bundle' = [p \in Platforms |-> bundle'[p]]
  BY <1>1
     DEF Writes, RemoveBundle, Begin, Copy, CopyStub, FinishBundle, MarkStub,
         Copies, SetBundle
<1>4. bundle' \in [Platforms -> Bundles]
  BY <1>2, <1>3
<1>5. StagedIsReal'
  BY StagedStays
<1> QED  BY <1>4, <1>5, PopsFit DEF targets, Types

LEMMA PassesTypes ==
    ASSUME Types, StagesTheChecked, Pops, Passes
    PROVE  Types'
<1>1. UNCHANGED <<libcrypto, core, library, bundle>>
  BY DEF Passes, targets
<1>2. CASE UNCHANGED staged
  BY <1>1, <1>2, StagedStays, PopsFit DEF Types
<1>3. CASE Stage /\ At("stage")
  <2>1. On \in Platforms /\ Head(todo) = Do("stage", On)
    BY <1>3, HeadStep DEF At, On, FitSteps, Fits, PlatformOps
  <2>2. \A k \in DOMAIN ChecksBefore(On) : Passed(ChecksBefore(On)[k])
    <3>1. 1 \in DOMAIN todo /\ todo[1] = Head(todo)
      BY HeadStep DEF Pops
    <3>2. \A k \in DOMAIN ChecksBefore(On) : 1 <= k
      BY DEF ChecksBefore
    <3> QED  BY <2>1, <3>1, <3>2 DEF StagesTheChecked
  <2>3. /\ Accepts(On)
        /\ On = "apple" => AcceptsXCFramework
    <3>1. CASE On = "apple"
      <4>1. /\ 1 \in DOMAIN ChecksBefore(On) /\ 2 \in DOMAIN ChecksBefore(On)
            /\ ChecksBefore(On)[1] = Do("checkXCFramework", "apple")
            /\ ChecksBefore(On)[2] = Do("check", "apple")
        BY <3>1 DEF ChecksBefore
      <4> QED  BY <2>2, <3>1, <4>1 DEF Passed, Do
    <3>2. CASE On = "android"
      <4>1. /\ 1 \in DOMAIN ChecksBefore(On)
            /\ ChecksBefore(On)[1] = Do("check", "android")
        BY <3>2 DEF ChecksBefore
      <4> QED  BY <2>2, <3>2, <4>1 DEF Passed, Do
    <3> QED  BY <2>1, <3>1, <3>2 DEF Platforms
  <2>4. NoFile # EmptyFile /\ ~Built(EmptyFile)
    BY DEF NoFile, EmptyFile, Built
  <2>5. ASSUME NEW v \in Variants
        PROVE  staged'.bundle[v] # EmptyFile /\ staged'.xcframework[v] # EmptyFile
    <3>1. staged'.bundle[v] =
              IF v \in ToSet(VariantsOf(On)) THEN bundle[On].libs[v] ELSE NoFile
      BY <1>3 DEF Stage, Of
    <3>2. staged'.xcframework[v] =
              IF On = "apple" /\ v \in ToSet(AppleVariants) THEN xcframework[v]
              ELSE NoFile
      BY <1>3 DEF Stage, Of, NoLibraries, VariantsOf
    <3>3. staged'.bundle[v] # EmptyFile
      BY <2>3, <2>4, <3>1 DEF Accepts
    <3>4. staged'.xcframework[v] # EmptyFile
      BY <2>3, <2>4, <3>2 DEF AcceptsXCFramework
    <3> QED  BY <3>3, <3>4
  <2> QED  BY <1>1, <2>5, PopsFit DEF Types, StagedIsReal
<1> QED  BY <1>2, <1>3 DEF Passes

LEMMA TypesStep ==
    ASSUME Types, CombinesACore, StagesTheChecked, [Next]_vars
    PROVE  Types'
<1>1. CASE Start
  <2>1. PICK g \in Goals : goal' = g /\ todo' = StepsOf(g)
    BY <1>1 DEF Start
  <2>2. /\ StepsOf(g) \in Seq(FitSteps(g))
        /\ g.op = "clean" => Len(StepsOf(g)) <= 1
    BY StepsFit
  <2>3. FitSteps(goal)' = FitSteps(g)
    BY <2>1 DEF FitSteps, Fits, Foreign
  <2>4. StagedIsReal'
    BY <1>1, LibraryKinds DEF Start, NoLibraries, NothingStaged, StagedIsReal
  <2>5. /\ tree' \in [source: Nat \ {0}, pin: Nat]
        /\ libcrypto' \in [Variants -> Crypto] /\ core' \in [Variants -> Nat]
        /\ library' \in [Variants -> Libraries \ {EmptyFile}]
        /\ bundle' \in [Platforms -> Bundles] /\ ended' = "no"
    BY <1>1 DEF Start, Types, targets
  <2>6. todo' \in Seq(FitSteps(goal)')
    BY <2>1, <2>2, <2>3
  <2>7. goal' \in Goals /\ (goal'.op = "clean" => Len(todo') <= 1)
    BY <2>1, <2>2
  <2> QED  BY <2>4, <2>5, <2>6, <2>7 DEF Types
<1>2. CASE Rested
  <2>1. /\ tree' \in [source: Nat \ {0}, pin: Nat]
        /\ libcrypto' \in [Variants -> Crypto] /\ core' \in [Variants -> Nat]
        /\ library' \in [Variants -> Libraries \ {EmptyFile}]
    <3>1. CASE Edit
      <4>1. tree' \in [source: Nat \ {0}, pin: Nat]
        <5>1. tree \in [source: Nat \ {0}, pin: Nat]
          BY DEF Types
        <5>2. /\ tree.source + 1 \in Nat \ {0} /\ tree.pin + 1 \in Nat
          BY <5>1
        <5>3. \/ tree' = [tree EXCEPT !.source = tree.source + 1]
              \/ tree' = [tree EXCEPT !.pin = tree.pin + 1]
          BY <3>1 DEF Edit
        <5> QED  BY <5>1, <5>2, <5>3
      <4> QED  BY <3>1, <4>1 DEF Edit, targets, Types
    <3>2. CASE Clone
      <4>1. NoLibraries \in [Variants -> Libraries \ {EmptyFile}]
        BY LibraryKinds DEF NoLibraries
      <4> QED  BY <3>2, <4>1 DEF Clone, Types, Crypto
    <3> QED  BY <1>2, <3>1, <3>2 DEF Rested
  <2>2. <<>> \in Seq(FitSteps(goal)') /\ Do("none", "apple").op # "clean"
    BY DEF Do
  <2>3. StagedIsReal'
    BY <1>2, StagedStays DEF Rested
  <2> QED  BY <1>2, <2>1, <2>2, <2>3 DEF Rested, Types
<1>3. CASE Ends
  <2>1. <<>> \in Seq(FitSteps(goal)') /\ Len(<<>>) <= 1
    OBVIOUS
  <2>2. StagedIsReal'
    BY <1>3, StagedStays DEF Ends
  <2> QED  BY <1>3, <2>1, <2>2 DEF Ends, Types, targets
<1>4. CASE UNCHANGED vars
  <2>1. FitSteps(goal)' = FitSteps(goal)
    BY <1>4 DEF vars, FitSteps, Fits, Foreign
  <2>2. StagedIsReal'
    BY <1>4, StagedStays DEF vars, outputs
  <2> QED  BY <1>4, <2>1, <2>2 DEF vars, targets, outputs, Types
<1>5. CASE Pops /\ Builds /\ UNCHANGED outputs
  BY <1>5, BuildsTypes
<1>6. CASE Pops /\ Writes /\ UNCHANGED <<targets, staged>>
  BY <1>6, WritesTypes
<1>7. CASE Pops /\ Passes
  BY <1>7, PassesTypes
<1>8. CASE At("ensure") /\ (Pushes(Build(On)) \/ Pushes(Assemble(On)))
  BY <1>8, HeadEnsure, BuildFits, PushesFit
<1>9. CASE At("placeholder") /\ Pushes(AssembleStub(On))
  BY <1>9, HeadPlaceholder, StubFits, PushesFit
<1>10. CASE At("ensureXCFramework") /\ Pushes(BuildXCFramework)
  <2>1. goal.op # "clean"
    BY <1>10, HeadStep DEF At, FitSteps, Fits
  <2> QED  BY <1>10, <2>1, XCFits, PushesFit
<1>11. CASE Unlinks
  <2>1. FitSteps(goal)' = FitSteps(goal)
    BY <1>11 DEF Unlinks, FitSteps, Fits, Foreign
  <2>2. StagedIsReal'
    BY <1>11, StagedStays DEF Unlinks, outputs
  <2>3. library' \in [Variants -> Libraries \ {EmptyFile}]
    BY <1>11, LibraryKinds DEF Unlinks, Types
  <2> QED  BY <1>11, <2>1, <2>2, <2>3 DEF Unlinks, outputs, Types
<1> QED
  BY <1>1, <1>2, <1>3, <1>4, <1>5, <1>6, <1>7, <1>8, <1>9, <1>10, <1>11, Kinds
-----------------------------------------------------------------------------
(* A library is combined from a core that has been compiled.               *)

(* Steps without a combine do not disturb what comes before one.           *)
LEMMA NoCombine ==
    ASSUME NEW s \in Seq(AllSteps), \A i \in DOMAIN s : s[i].op # "combine"
    PROVE  \A v : ~In(s, Do("combine", v)) /\ Before(s, Do("compile", v), Do("combine", v))
<1>1. \A v : ~In(s, Do("combine", v))
  BY DEF In, Do
<1> QED  BY <1>1, NotIn

LEMMA StartCombines ==
    ASSUME NEW g \in Goals, NEW v
    PROVE  Before(StepsOf(g), Do("compile", v), Do("combine", v))
<1>1. CASE g.op # "artifactbundle"
  <2>1. /\ StepsOf(g) \in Seq(AllSteps)
        /\ \A i \in DOMAIN StepsOf(g) : StepsOf(g)[i].op \in RunOps
    BY <1>1, RunList, FitIsStep
  <2>2. "combine" \notin RunOps
    BY DEF RunOps
  <2> QED  BY <2>1, <2>2, NoCombine
<1>2. CASE g.op = "artifactbundle"
  <2>1. g.on \in Platforms /\ g = Do("artifactbundle", g.on)
    BY <1>2 DEF Goals, Do, Platforms
  <2>2. PICK rest \in Seq(FitSteps(g)) :
            /\ StepsOf(g) = Build(g.on) \o rest
            /\ \A i \in DOMAIN rest :
                  rest[i].op \in {"removeXCFramework", "createXCFramework",
                                  "checkXCFramework", "placeholder"}
    BY <2>1, MakeList
  <2>3. rest \in Seq(AllSteps)
    BY <2>2, FitIsStep
  <2>4. Before(rest, Do("compile", v), Do("combine", v))
    BY <2>2, <2>3, NoCombine
  <2>5. /\ Build(g.on) \in Seq(AllSteps)
        /\ Before(Build(g.on), Do("compile", v), Do("combine", v))
    BY <2>1, BuildOrders
  <2> QED  BY <2>2, <2>3, <2>4, <2>5, BeforeJoined
<1> QED  BY <1>1, <1>2

LEMMA PushesCombines ==
    ASSUME Types, CombinesACore, NEW steps \in Seq(AllSteps), Pushes(steps),
           Head(todo).op # "compile",
           \A v : Before(steps, Do("compile", v), Do("combine", v))
    PROVE  CombinesACore'
<1> SUFFICES ASSUME NEW v \in Variants
             PROVE  core'[v] > 0 \/ Before(todo', Do("compile", v), Do("combine", v))
  BY DEF CombinesACore
<1>1. CASE core[v] > 0
  BY <1>1 DEF Pushes, targets
<1>2. CASE Before(todo, Do("compile", v), Do("combine", v))
  <2>1. /\ todo \in Seq(AllSteps) /\ todo # <<>> /\ Tail(todo) \in Seq(AllSteps)
        /\ Head(todo) # Do("compile", v)
    BY HeadStep DEF Pushes, Do
  <2>2. Before(Tail(todo), Do("compile", v), Do("combine", v))
    BY <1>2, <2>1, BeforeTail
  <2> QED  BY <2>1, <2>2, BeforeJoined DEF Pushes
<1> QED  BY <1>1, <1>2 DEF CombinesACore

LEMMA CombinesStep ==
    ASSUME Types, CombinesACore, [Next]_vars
    PROVE  CombinesACore'
<1>0. ASSUME todo' = <<>>  PROVE CombinesACore'
  BY <1>0 DEF CombinesACore, Before
<1>1. CASE Start
  <2>1. PICK g \in Goals : todo' = StepsOf(g)
    BY <1>1 DEF Start
  <2> QED  BY <2>1, StartCombines DEF CombinesACore
<1>2. CASE Rested \/ Ends
  BY <1>0, <1>2 DEF Rested, Ends
<1>3. CASE UNCHANGED vars
  BY <1>3 DEF vars, targets, CombinesACore
<1>4. CASE Pops /\ Builds /\ UNCHANGED outputs
  <2>1. CASE Clean
    <3>1. goal.op = "clean" /\ Head(todo).op = "clean"
      BY <1>4, <2>1, HeadStep DEF Clean, At, Pops, FitSteps, Fits
    <3>2. Len(todo) <= 1 /\ todo \in Seq(AllSteps) /\ todo # <<>>
      BY <1>4, <3>1, HeadStep DEF Types, Pops
    <3>3. Tail(todo) = <<>>
      BY <3>2
    <3> QED  BY <1>0, <1>4, <3>3 DEF Pops
  <2>2. CASE ~Clean
    <3> SUFFICES ASSUME NEW v \in Variants
                 PROVE  core'[v] > 0 \/ Before(todo', Do("compile", v), Do("combine", v))
      BY DEF CombinesACore
    <3>0. core \in [Variants -> Nat] /\ tree.source \in Nat /\ tree.source > 0
      BY DEF Types
    <3>1. CASE core[v] > 0
      <4>1. CASE Compile
        BY <3>0, <3>1, <4>1 DEF Compile
      <4>2. CASE ~Compile
        BY <1>4, <2>2, <3>1, <4>2 DEF Builds, Openssl, Combine
      <4> QED  BY <4>1, <4>2
    <3>2. CASE Before(todo, Do("compile", v), Do("combine", v))
      <4>1. CASE Head(todo) = Do("compile", v)
        <5>1. Compile /\ On = v
          BY <1>4, <2>2, <4>1 DEF Builds, Openssl, Combine, At, Do, On
        <5> QED  BY <3>0, <5>1 DEF Compile
      <4>2. CASE Head(todo) # Do("compile", v)
        BY <1>4, <3>2, <4>2, HeadStep, BeforeTail DEF Pops
      <4> QED  BY <4>1, <4>2
    <3> QED  BY <3>1, <3>2 DEF CombinesACore
  <2> QED  BY <2>1, <2>2
<1>5. CASE Pops /\ (Writes \/ Passes) /\ UNCHANGED targets
  <2>1. Head(todo).op # "compile" /\ core' = core
    BY <1>5
       DEF Writes, RemoveBundle, Begin, Copy, CopyStub, FinishBundle, MarkStub,
           Passes, At, targets
  <2>2. ASSUME NEW v \in Variants, Before(todo, Do("compile", v), Do("combine", v))
        PROVE  Before(todo', Do("compile", v), Do("combine", v))
    <3>1. Head(todo) # Do("compile", v)
      BY <2>1 DEF Do
    <3> QED  BY <1>5, <2>2, <3>1, HeadStep, BeforeTail DEF Pops
  <2> QED  BY <2>1, <2>2 DEF CombinesACore
<1>6. CASE At("ensure") /\ (Pushes(Build(On)) \/ Pushes(Assemble(On)))
  <2>1. On \in Platforms
    BY <1>6, HeadEnsure
  <2>2. /\ Build(On) \in Seq(AllSteps)
        /\ \A v : Before(Build(On), Do("compile", v), Do("combine", v))
    BY <2>1, BuildOrders
  <2>3. /\ Assemble(On) \in Seq(AllSteps)
        /\ \A i \in DOMAIN Assemble(On) : Assemble(On)[i].op # "combine"
    BY <2>1, ListedOps DEF AssembleOps
  <2>4. \A v : Before(Assemble(On), Do("compile", v), Do("combine", v))
    BY <2>3, NoCombine
  <2> QED  BY <1>6, <2>2, <2>3, <2>4, PushesCombines DEF At
<1>7. CASE At("placeholder") /\ Pushes(AssembleStub(On))
  <2>1. On \in Platforms
    BY <1>7, HeadPlaceholder
  <2>2. /\ AssembleStub(On) \in Seq(AllSteps)
        /\ \A i \in DOMAIN AssembleStub(On) : AssembleStub(On)[i].op # "combine"
    BY <2>1, ListedOps DEF StubOps
  <2>3. \A v : Before(AssembleStub(On), Do("compile", v), Do("combine", v))
    BY <2>2, NoCombine
  <2> QED  BY <1>7, <2>2, <2>3, PushesCombines DEF At
<1>8. CASE At("ensureXCFramework") /\ Pushes(BuildXCFramework)
  <2>1. BuildXCFramework \in Seq(AllSteps)
    BY ListedOps DEF Platforms
  <2>2. \A i \in DOMAIN BuildXCFramework : BuildXCFramework[i].op # "combine"
    BY ListedOps DEF Platforms
  <2>3. \A v : Before(BuildXCFramework, Do("compile", v), Do("combine", v))
    BY <2>1, <2>2, NoCombine
  <2> QED  BY <1>8, <2>1, <2>3, PushesCombines DEF At
<1>9. CASE Unlinks
  BY <1>9 DEF Unlinks, CombinesACore
<1> QED
  BY <1>1, <1>2, <1>3, <1>4, <1>5, <1>6, <1>7, <1>8, <1>9, Kinds DEF Passes

-----------------------------------------------------------------------------
(* What is staged was checked.                                             *)

LEMMA StartStages ==
    ASSUME NEW g \in Goals, NEW p \in Platforms, NEW i \in DOMAIN StepsOf(g),
           StepsOf(g)[i] = Do("stage", p)
    PROVE  \A k \in DOMAIN ChecksBefore(p) :
              i > k /\ StepsOf(g)[i - k] = ChecksBefore(p)[k]
<1>1. CASE g.op # "artifactbundle"
  BY <1>1, RunList
<1>2. CASE g.op = "artifactbundle"
  <2>1. g.on \in Platforms /\ g = Do("artifactbundle", g.on)
    BY <1>2 DEF Goals, Do, Platforms
  <2>2. PICK rest \in Seq(FitSteps(g)) :
            /\ StepsOf(g) = Build(g.on) \o rest
            /\ \A k \in DOMAIN rest :
                  rest[k].op \in {"removeXCFramework", "createXCFramework",
                                  "checkXCFramework", "placeholder"}
    BY <2>1, MakeList
  <2> DEFINE x == Do("stage", p)
  <2>3. rest \in Seq(AllSteps) /\ ~In(rest, x)
    <3>1. rest \in Seq(AllSteps)
      BY <2>2, FitIsStep
    <3>2. \A k \in DOMAIN rest : rest[k].op # "stage"
      BY <2>2
    <3> QED  BY <3>1, <3>2 DEF In, Do
  <2>4. Build(g.on) \in Seq(AllSteps) /\ ~In(Build(g.on), x)
    <3>1. /\ Build(g.on) \in Seq(AllSteps)
          /\ \A k \in DOMAIN Build(g.on) : Build(g.on)[k].op \in BuildOps
      BY <2>1, ListedOps
    <3>2. \A k \in DOMAIN Build(g.on) : Build(g.on)[k].op # "stage"
      BY <3>1 DEF BuildOps, AssembleOps
    <3> QED  BY <3>1, <3>2 DEF In, Do
  <2>5. ~In(StepsOf(g), x)
    BY <2>2, <2>3, <2>4, InJoined
  <2> QED  BY <2>5 DEF In
<1> QED  BY <1>1, <1>2

LEMMA ChecksListed ==
    ASSUME NEW p \in Platforms
    PROVE  /\ \E n \in Nat : DOMAIN ChecksBefore(p) = 1..n
           /\ \A k \in DOMAIN ChecksBefore(p) :
                 ChecksBefore(p)[k].op \in {"check", "checkXCFramework"}
<1>1. CASE p = "apple"
  <2>1. /\ DOMAIN ChecksBefore(p) = 1..2
        /\ ChecksBefore(p)[1].op = "checkXCFramework"
        /\ ChecksBefore(p)[2].op = "check"
    BY <1>1 DEF ChecksBefore, Do
  <2>2. \A k \in 1..2 : k = 1 \/ k = 2
    OBVIOUS
  <2> QED  BY <2>1, <2>2
<1>2. CASE p = "android"
  <2>1. DOMAIN ChecksBefore(p) = 1..1 /\ ChecksBefore(p)[1].op = "check"
    BY <1>2 DEF ChecksBefore, Do
  <2>2. \A k \in 1..1 : k = 1
    OBVIOUS
  <2> QED  BY <2>1, <2>2
<1> QED  BY <1>1, <1>2 DEF Platforms

LEMMA SameStages ==
    ASSUME StagesTheChecked, UNCHANGED <<todo, bundle, xcframework>>
    PROVE  StagesTheChecked'
<1>1. \A p : Accepts(p)' = Accepts(p)
  BY DEF Accepts
<1>2. AcceptsXCFramework' = AcceptsXCFramework
  BY DEF AcceptsXCFramework
<1>3. \A c : Passed(c)' = Passed(c)
  BY <1>1, <1>2 DEF Passed
<1> QED  BY <1>3 DEF StagesTheChecked, ChecksBefore

(* Places of a list, counted from another.                                 *)
LEMMA Places ==
    ASSUME NEW i \in Nat, NEW k \in Nat, i >= 1, k >= 1
    PROVE  /\ ~(i <= k) => i - k \in Nat /\ i - k >= 1 /\ i - k < i
           /\ i <= k => i \in 1..k /\ (i + 1) - i = 1 /\ ~(i + 1 <= i)
           /\ ~(i + 1 <= k) => (i + 1) - k \in Nat /\ (i + 1) - k >= 1
           /\ ~(i <= k) => ~(i + 1 <= k) /\ (i + 1) - k = (i - k) + 1
           /\ i <= k => i + 1 <= k \/ k = i
OBVIOUS

(* A check is passed only where it would pass, and changes nothing.        *)
LEMMA PopStages ==
    ASSUME Types, StagesTheChecked, Pops,
           At("check") => Accepts(On) /\ UNCHANGED <<bundle, xcframework>>,
           At("checkXCFramework") =>
               AcceptsXCFramework /\ UNCHANGED <<bundle, xcframework>>
    PROVE  StagesTheChecked'
<1> SUFFICES ASSUME NEW p \in Platforms, NEW i \in DOMAIN todo',
                    todo'[i] = Do("stage", p), NEW k \in DOMAIN ChecksBefore(p)
             PROVE  IF i <= k THEN Passed(ChecksBefore(p)[k])'
                    ELSE todo'[i - k] = ChecksBefore(p)[k]
  BY DEF StagesTheChecked, ChecksBefore
<1>1. /\ todo \in Seq(AllSteps) /\ todo # <<>> /\ todo' = Tail(todo)
      /\ Head(todo) = Do(Head(todo).op, On)
  BY HeadStep DEF Pops
<1>2. /\ i \in Nat /\ i >= 1 /\ i + 1 \in DOMAIN todo /\ todo[i + 1] = Do("stage", p)
      /\ Head(todo) = todo[1]
  BY <1>1
<1>3. k \in Nat /\ k >= 1 /\ \A j \in 1..k : j \in DOMAIN ChecksBefore(p)
  BY ChecksListed
<1>4. CASE i <= k
  <2>1. i \in DOMAIN ChecksBefore(p) /\ (i + 1) - i = 1 /\ ~(i + 1 <= i)
    BY <1>2, <1>3, <1>4, Places
  <2>2. Head(todo) = ChecksBefore(p)[i]
    BY <1>2, <2>1 DEF StagesTheChecked
  <2>3. Head(todo).op \in {"check", "checkXCFramework"}
    BY <2>1, <2>2, ChecksListed
  <2>4. /\ Passed(Head(todo)) /\ UNCHANGED <<bundle, xcframework>>
    BY <1>1, <2>3 DEF At, On, Passed
  <2>5. Passed(ChecksBefore(p)[k])
    <3>1. CASE i + 1 <= k
      BY <1>2, <3>1 DEF StagesTheChecked
    <3>2. CASE k = i
      BY <2>2, <2>4, <3>2
    <3> QED  BY <1>2, <1>3, <1>4, <3>1, <3>2, Places
  <2>6. Passed(ChecksBefore(p)[k])'
    <3>1. /\ Accepts(ChecksBefore(p)[k].on)' = Accepts(ChecksBefore(p)[k].on)
          /\ AcceptsXCFramework' = AcceptsXCFramework
          /\ ChecksBefore(p)' = ChecksBefore(p)
      BY <2>4 DEF Accepts, AcceptsXCFramework, ChecksBefore
    <3> QED  BY <2>5, <3>1 DEF Passed
  <2> QED  BY <1>4, <2>6
<1>5. CASE ~(i <= k)
  <2>1. ~(i + 1 <= k) /\ (i + 1) - k = (i - k) + 1 /\ i - k \in Nat /\ i - k >= 1
            /\ i - k < i
    BY <1>2, <1>3, <1>5, Places
  <2>2. todo[(i - k) + 1] = ChecksBefore(p)[k]
    BY <1>2, <2>1 DEF StagesTheChecked
  <2>3. i - k \in DOMAIN todo'
    BY <1>1, <2>1
  <2>4. todo'[i - k] = todo[(i - k) + 1]
    BY <1>1, <2>3
  <2> QED  BY <1>5, <2>2, <2>4
<1> QED  BY <1>4, <1>5

(* What is put before the rest stages nothing, and the rest keeps its      *)
(* checks: its head was none of them.                                      *)
LEMMA PushStages ==
    ASSUME Types, StagesTheChecked, NEW steps \in Seq(AllSteps), Pushes(steps),
           Head(todo).op \notin {"check", "checkXCFramework"},
           \A m \in DOMAIN steps : steps[m].op # "stage"
    PROVE  StagesTheChecked'
<1> SUFFICES ASSUME NEW p \in Platforms, NEW i \in DOMAIN todo',
                    todo'[i] = Do("stage", p), NEW k \in DOMAIN ChecksBefore(p)
             PROVE  ~(i <= k) /\ todo'[i - k] = ChecksBefore(p)[k]
  BY DEF StagesTheChecked, ChecksBefore
<1> DEFINE n == Len(steps)
           t == Tail(todo)
<1>1. /\ todo \in Seq(AllSteps) /\ todo # <<>> /\ t \in Seq(AllSteps)
      /\ todo' = steps \o t /\ todo[1] = Head(todo) /\ n \in Nat /\ Len(t) \in Nat
      /\ \A j \in 1..Len(t) : t[j] = todo[j + 1] /\ j + 1 \in DOMAIN todo
  BY HeadStep DEF Pushes
<1>2. ~(i <= n)
  <2>1. i <= n => i \in DOMAIN steps /\ todo'[i] = steps[i]
    BY <1>1
  <2> QED  BY <2>1 DEF Do
<1>3. \A j \in 1..Len(t) : todo'[n + j] = t[j]
  BY <1>1
<1>4. PICK m \in 1..Len(t) : i = n + m
  <2>1. i \in 1..(n + Len(t))
    BY <1>1
  <2> HIDE DEF n, t
  <2>2. i - n \in 1..Len(t) /\ i = n + (i - n)
    BY <1>1, <1>2, <2>1
  <2> QED  BY <2>2
<1>5. todo[m + 1] = Do("stage", p) /\ m + 1 \in DOMAIN todo
  BY <1>1, <1>3, <1>4
<1>6. k \in Nat /\ k >= 1 /\ m \in Nat /\ m >= 1
          /\ \A j \in 1..k : j \in DOMAIN ChecksBefore(p)
  BY ChecksListed
<1>7. \A j \in DOMAIN ChecksBefore(p) : todo[1] # ChecksBefore(p)[j]
  BY <1>1, ChecksListed
<1>8. ~(m <= k)
  <2>1. ASSUME m <= k  PROVE FALSE
    <3>1. m \in DOMAIN ChecksBefore(p) /\ (m + 1) - m = 1 /\ ~(m + 1 <= m)
      BY <1>6, <2>1, Places
    <3>2. todo[1] = ChecksBefore(p)[m]
      BY <1>5, <3>1 DEF StagesTheChecked
    <3> QED  BY <1>7, <3>1, <3>2
  <2> QED  BY <2>1
<1>9. todo[(m - k) + 1] = ChecksBefore(p)[k] /\ m - k \in 1..Len(t)
  <2>1. ~(m + 1 <= k) /\ (m + 1) - k = (m - k) + 1 /\ m - k >= 1 /\ m - k \in Nat
            /\ m - k < m
    BY <1>6, <1>8, Places
  <2> HIDE DEF n, t
  <2>2. m - k \in 1..Len(t)
    BY <1>1, <2>1
  <2>3. todo[(m - k) + 1] = ChecksBefore(p)[k]
    BY <1>5, <2>1 DEF StagesTheChecked
  <2> QED  BY <2>2, <2>3
<1>10. todo'[n + (m - k)] = ChecksBefore(p)[k]
  BY <1>1, <1>3, <1>9
<1>11. n + (m - k) = i - k /\ ~(i <= k)
  <2> HIDE DEF n, t
  <2> QED  BY <1>1, <1>4, <1>6, <1>8
<1> QED  BY <1>10, <1>11

LEMMA StagesStep ==
    ASSUME Types, StagesTheChecked, [Next]_vars
    PROVE  StagesTheChecked'
<1>1. CASE Start
  <2>1. PICK g \in Goals : todo' = StepsOf(g)
    BY <1>1 DEF Start
  <2>2. ASSUME NEW p \in Platforms, NEW i \in DOMAIN todo',
               todo'[i] = Do("stage", p), NEW k \in DOMAIN ChecksBefore(p)
        PROVE  ~(i <= k) /\ todo'[i - k] = ChecksBefore(p)[k]
    <3>1. i > k /\ todo'[i - k] = ChecksBefore(p)[k]
      BY <2>1, <2>2, StartStages
    <3>2. i \in Int /\ k \in Int
      <4>1. i \in 1..Len(todo')
        BY <1>1, <2>1, <2>2, StepsFit
      <4> QED  BY <4>1, ChecksListed
    <3> QED  BY <3>1, <3>2
  <2> QED  BY <2>2 DEF StagesTheChecked, ChecksBefore
<1>2. CASE Rested \/ Ends
  BY <1>2 DEF Rested, Ends, StagesTheChecked
<1>3. CASE UNCHANGED vars
  BY <1>3, SameStages DEF vars, outputs
<1>4. CASE Pops /\ (Builds \/ Writes)
  BY <1>4, PopStages
     DEF Builds, Openssl, Compile, Combine, Clean,
         Writes, RemoveBundle, Begin, Copy, CopyStub, FinishBundle, MarkStub, At
<1>5. CASE Pops /\ Passes
  BY <1>5, PopStages DEF Passes
<1>6. CASE At("ensure") /\ (Pushes(Build(On)) \/ Pushes(Assemble(On)))
  <2>1. On \in Platforms
    BY <1>6, HeadEnsure
  <2>2. /\ Build(On) \in Seq(AllSteps)
        /\ \A i \in DOMAIN Build(On) : Build(On)[i].op # "stage"
    BY <2>1, ListedOps DEF BuildOps, AssembleOps
  <2>3. /\ Assemble(On) \in Seq(AllSteps)
        /\ \A i \in DOMAIN Assemble(On) : Assemble(On)[i].op # "stage"
    BY <2>1, ListedOps DEF AssembleOps
  <2> QED  BY <1>6, <2>2, <2>3, PushStages DEF At
<1>7. CASE At("placeholder") /\ Pushes(AssembleStub(On))
  <2>1. On \in Platforms
    BY <1>7, HeadPlaceholder
  <2>2. /\ AssembleStub(On) \in Seq(AllSteps)
        /\ \A i \in DOMAIN AssembleStub(On) : AssembleStub(On)[i].op # "stage"
    BY <2>1, ListedOps DEF StubOps
  <2> QED  BY <1>7, <2>2, PushStages DEF At
<1>8. CASE At("ensureXCFramework") /\ Pushes(BuildXCFramework)
  <2>1. BuildXCFramework \in Seq(AllSteps)
    BY ListedOps DEF Platforms
  <2>2. \A i \in DOMAIN BuildXCFramework : BuildXCFramework[i].op # "stage"
    BY ListedOps DEF Platforms
  <2> QED  BY <1>8, <2>1, <2>2, PushStages DEF At
<1>9. CASE Unlinks
  BY <1>9, SameStages DEF Unlinks, outputs
<1> QED
  BY <1>9, <1>1, <1>2, <1>3, <1>4, <1>5, <1>6, <1>7, <1>8, Kinds

-----------------------------------------------------------------------------
(* A stub is written where a bundle is missing, and marked at the end.     *)

StubbedAt(p) ==
    /\ \A i \in DOMAIN todo :
          todo[i] = Do("remove", p) => i = 1 /\ bundle[p].info = "none"
    /\ In(todo, Do("mark", p)) /\ ~In(todo, Do("remove", p)) =>
          \A v \in ToSet(VariantsOf(p)) : bundle[p].libs[v] \in Stubs
    /\ \A x \in StubSteps(p) : After(todo, x, Do("mark", p))

(* What a run starts with writes no stub itself.                           *)
LEMMA StartStubs ==
    ASSUME NEW g \in Goals, NEW p \in Platforms, Foreign(g, p),
           NEW x \in StubSteps(p) \cup {Do("mark", p)}
    PROVE  ~In(StepsOf(g), x)
<1>1. x.op \in StubOps /\ (x.op # "copyStub" => x.on = p)
  BY DEF StubSteps, StubOps, Do
<1>2. CASE g.op # "artifactbundle"
  <2>1. \A i \in DOMAIN StepsOf(g) : StepsOf(g)[i].op \in RunOps
    BY <1>2, RunList
  <2>2. x.op \notin RunOps
    BY <1>1 DEF RunOps, StubOps
  <2> QED  BY <2>1, <2>2 DEF In
<1>3. CASE g.op = "artifactbundle"
  <2>1. g.on \in Platforms /\ g = Do("artifactbundle", g.on) /\ p # g.on
    BY <1>3 DEF Goals, Do, Platforms, Foreign
  <2>2. PICK rest \in Seq(FitSteps(g)) :
            /\ StepsOf(g) = Build(g.on) \o rest
            /\ \A k \in DOMAIN rest :
                  rest[k].op \in {"removeXCFramework", "createXCFramework",
                                  "checkXCFramework", "placeholder"}
    BY <2>1, MakeList
  <2>3. rest \in Seq(AllSteps) /\ ~In(rest, x)
    <3>1. rest \in Seq(AllSteps)
      BY <2>2, FitIsStep
    <3>2. x.op \notin {"removeXCFramework", "createXCFramework",
                       "checkXCFramework", "placeholder"}
      BY <1>1 DEF StubOps
    <3> QED  BY <2>2, <3>1, <3>2 DEF In
  <2>4. Build(g.on) \in Seq(AllSteps) /\ ~In(Build(g.on), x)
    <3>1. Build(g.on) \in Seq(AllSteps)
      BY <2>1, ListedOps
    <3> SUFFICES ASSUME NEW k \in DOMAIN Build(g.on), Build(g.on)[k] = x
                 PROVE  FALSE
      BY <3>1 DEF In
    <3>2. \/ x.op \in {"openssl", "compile", "combine"}
          \/ x \in {Do("remove", g.on), Do("begin", g.on), Do("finish", g.on)}
          \/ \E v \in ToSet(VariantsOf(g.on)) : x = Do("copy", v)
      BY <2>1, BuildOrders
    <3>3. x.op \notin {"openssl", "compile", "combine", "copy"}
      BY <1>1 DEF StubOps
    <3> QED  BY <1>1, <2>1, <3>2, <3>3 DEF Do
  <2> QED  BY <2>2, <2>3, <2>4, InJoined
<1> QED  BY <1>2, <1>3

(* A step is done: what is left keeps its order.                           *)
LEMMA PopStubs ==
    ASSUME Types, Pops, NEW p \in Platforms, StubbedAt(p)
    PROVE  /\ ~In(todo', Do("remove", p))
           /\ \A x \in StubSteps(p) : After(todo', x, Do("mark", p))
           /\ In(todo', Do("mark", p)) /\ Head(todo) # Do("remove", p) =>
                \A v \in ToSet(VariantsOf(p)) : bundle[p].libs[v] \in Stubs
<1>1. todo \in Seq(AllSteps) /\ todo # <<>> /\ todo' = Tail(todo)
  BY HeadStep DEF Pops
<1>2. ~In(todo', Do("remove", p))
  <2> SUFFICES ASSUME NEW i \in DOMAIN todo', todo'[i] = Do("remove", p)
               PROVE  FALSE
    BY DEF In
  <2>1. i + 1 \in DOMAIN todo /\ todo[i + 1] = Do("remove", p) /\ i + 1 # 1
    BY <1>1
  <2> QED  BY <2>1 DEF StubbedAt
<1>3. \A x \in StubSteps(p) : After(todo', x, Do("mark", p))
  BY <1>1, AfterTail DEF StubbedAt
<1>4. ASSUME In(todo', Do("mark", p)), Head(todo) # Do("remove", p)
      PROVE  \A v \in ToSet(VariantsOf(p)) : bundle[p].libs[v] \in Stubs
  <2>1. In(todo, Do("mark", p)) /\ ~In(todo, Do("remove", p))
    BY <1>1, <1>2, <1>4, InTail
  <2> QED  BY <2>1 DEF StubbedAt
<1> QED  BY <1>2, <1>3, <1>4

LEMMA PopSameStubs ==
    ASSUME Types, Pops, NEW p \in Platforms, StubbedAt(p),
           bundle'[p].libs = bundle[p].libs, Head(todo) # Do("remove", p)
    PROVE  StubbedAt(p)'
<1>1. \A i \in DOMAIN todo' : todo'[i] # Do("remove", p)
  BY PopStubs DEF In
<1> QED  BY <1>1, PopStubs DEF StubbedAt

LEMMA WriteStubs ==
    ASSUME Types, Pops, Writes, NEW p \in Platforms, Foreign(goal, p),
           StubbedAt(p)
    PROVE  StubbedAt(p)'
<1> DEFINE h == Head(todo)
<1>1. \A i \in DOMAIN todo' : todo'[i] # Do("remove", p)
  BY PopStubs DEF In
<1>2. bundle[p] \in Bundles
  BY DEF Types
<1>3. CASE bundle'[p].libs = bundle[p].libs /\ h # Do("remove", p)
  BY <1>3, PopSameStubs
<1>4. CASE h = Do("remove", p) /\ bundle'[p] = NoBundle
  <2>1. \A v \in ToSet(VariantsOf(p)) : bundle'[p].libs[v] \in Stubs
    BY <1>4, VariantsListed DEF NoBundle, NoLibraries, Stubs
  <2> QED  BY <1>1, <2>1, PopStubs DEF StubbedAt
<1>5. CASE \E v \in ToSet(VariantsOf(p)) :
              /\ h = Do("copyStub", v)
              /\ bundle'[p] = [bundle[p] EXCEPT !.libs[v] = EmptyFile]
  <2>1. PICK v \in ToSet(VariantsOf(p)) :
            /\ h = Do("copyStub", v)
            /\ bundle'[p] = [bundle[p] EXCEPT !.libs[v] = EmptyFile]
    BY <1>5
  <2>2. \A w \in ToSet(VariantsOf(p)) :
            bundle'[p].libs[w] = EmptyFile \/ bundle'[p].libs[w] = bundle[p].libs[w]
    BY <1>2, <2>1, VariantsListed DEF Bundles
  <2>3. h # Do("remove", p)
    BY <2>1 DEF Do
  <2>4. In(todo', Do("mark", p)) =>
            \A w \in ToSet(VariantsOf(p)) : bundle'[p].libs[w] \in Stubs
    BY <2>2, <2>3, PopStubs DEF Stubs
  <2> QED  BY <1>1, <2>4, PopStubs DEF StubbedAt
<1>6. ASSUME NEW v \in ToSet(VariantsOf(p)), h = Do("copy", v)  PROVE FALSE
  <2>1. h \in FitSteps(goal) /\ h.op = "copy" /\ h.on = v
    BY <1>6, HeadStep DEF Pops, Do
  <2>2. ~Foreign(goal, goal.on) /\ v \in ToSet(VariantsOf(goal.on))
    BY <2>1 DEF FitSteps, Fits
  <2>3. goal.on \in Platforms
    BY DEF Types, Goals, Do, Platforms
  <2>4. p = goal.on
    BY <2>2, <2>3, PlatformOfVariant
  <2> QED  BY <2>2, <2>4
<1>7. \/ bundle'[p] = bundle[p] /\ h \notin StubSteps(p)
      \/ h = Do("remove", p) /\ bundle'[p] = NoBundle
      \/ h = Do("begin", p) /\ bundle'[p] = [bundle[p] EXCEPT !.info = "partial"]
      \/ h = Do("finish", p) /\ bundle'[p] = [bundle[p] EXCEPT !.info = "whole"]
      \/ h = Do("mark", p) /\ bundle'[p] = [bundle[p] EXCEPT !.marked = TRUE]
      \/ \E v \in ToSet(VariantsOf(p)) :
            \/ h = Do("copy", v)
            \/ /\ h = Do("copyStub", v)
               /\ bundle'[p] = [bundle[p] EXCEPT !.libs[v] = EmptyFile]
  BY Written
<1>8. CASE bundle'[p] = bundle[p] /\ h \notin StubSteps(p)
  BY <1>3, <1>8 DEF StubSteps
<1>9. CASE h = Do("begin", p) /\ bundle'[p] = [bundle[p] EXCEPT !.info = "partial"]
  BY <1>2, <1>3, <1>9 DEF Bundles, Do
<1>10. CASE h = Do("finish", p) /\ bundle'[p] = [bundle[p] EXCEPT !.info = "whole"]
  BY <1>2, <1>3, <1>10 DEF Bundles, Do
<1>11. CASE h = Do("mark", p) /\ bundle'[p] = [bundle[p] EXCEPT !.marked = TRUE]
  BY <1>2, <1>3, <1>11 DEF Bundles, Do
<1> QED  BY <1>4, <1>5, <1>6, <1>7, <1>8, <1>9, <1>10, <1>11

(* Steps for another platform are pushed.                                  *)
LEMMA PushNoStubs ==
    ASSUME Types, NEW p \in Platforms, StubbedAt(p),
           NEW steps \in Seq(AllSteps), Pushes(steps),
           Head(todo).op \notin StubOps,
           \A x \in StubSteps(p) \cup {Do("mark", p)} : ~In(steps, x)
    PROVE  StubbedAt(p)'
<1>1. /\ todo \in Seq(AllSteps) /\ todo # <<>> /\ Tail(todo) \in Seq(AllSteps)
      /\ todo' = steps \o Tail(todo) /\ bundle' = bundle
  BY HeadStep DEF Pushes, outputs
<1>2. Head(todo) \notin StubSteps(p) \cup {Do("mark", p)}
  BY DEF StubSteps, StubOps, Do
<1>3. ~In(Tail(todo), Do("remove", p))
  <2> SUFFICES ASSUME NEW i \in DOMAIN Tail(todo), Tail(todo)[i] = Do("remove", p)
               PROVE  FALSE
    BY DEF In
  <2>1. i + 1 \in DOMAIN todo /\ todo[i + 1] = Do("remove", p) /\ i + 1 # 1
    BY <1>1
  <2> QED  BY <2>1 DEF StubbedAt
<1>4. ~In(todo', Do("remove", p)) /\ ~In(todo, Do("remove", p))
  BY <1>1, <1>2, <1>3, InJoined, InTail DEF StubSteps
<1>5. In(todo', Do("mark", p)) => In(todo, Do("mark", p))
  BY <1>1, InJoined, InTail
<1>6. ASSUME NEW x \in StubSteps(p)  PROVE After(todo', x, Do("mark", p))
  <2>1. After(Tail(todo), x, Do("mark", p))
    BY <1>1, AfterTail DEF StubbedAt
  <2>2. After(steps, x, Do("mark", p))
    BY NotIn
  <2> QED  BY <1>1, <2>1, <2>2, AfterJoined
<1>7. \A i \in DOMAIN todo' : todo'[i] # Do("remove", p)
  BY <1>4 DEF In
<1> QED  BY <1>1, <1>4, <1>5, <1>6, <1>7 DEF StubbedAt

LEMMA PushStubs ==
    ASSUME Types, NEW p \in Platforms, StubbedAt(p), At("placeholder"),
           bundle[p].info = "none", Pushes(AssembleStub(p))
    PROVE  StubbedAt(p)'
<1> DEFINE steps == AssembleStub(p)
<1>1. /\ todo \in Seq(AllSteps) /\ todo # <<>> /\ Tail(todo) \in Seq(AllSteps)
      /\ todo' = steps \o Tail(todo) /\ bundle' = bundle
  BY HeadStep DEF Pushes, outputs
<1>2. /\ steps \in Seq(AllSteps)
      /\ \A i \in DOMAIN steps : steps[i] = Do("remove", p) => i = 1
      /\ In(steps, Do("remove", p)) /\ In(steps, Do("mark", p))
      /\ \A x : x.op # "mark" => After(steps, x, Do("mark", p))
  BY AssembleStubOrders
<1> HIDE DEF steps
<1>3. ASSUME NEW i \in DOMAIN todo', todo'[i] = Do("remove", p)
      PROVE  i = 1
  <2>1. CASE i \in DOMAIN steps
    BY <1>1, <1>2, <1>3, <2>1
  <2>2. CASE i \notin DOMAIN steps
    <3> DEFINE j == i - Len(steps)
    <3>1. j + 1 \in DOMAIN todo /\ todo[j + 1] = Do("remove", p) /\ j + 1 # 1
      BY <1>1, <1>2, <1>3, <2>2
    <3> QED  BY <3>1 DEF StubbedAt
  <2> QED  BY <2>1, <2>2
<1>4. In(todo', Do("remove", p))
  BY <1>1, <1>2, InJoined
<1>5. ASSUME NEW x \in StubSteps(p)  PROVE After(todo', x, Do("mark", p))
  <2>1. After(Tail(todo), x, Do("mark", p))
    BY <1>1, AfterTail DEF StubbedAt
  <2>2. After(steps, x, Do("mark", p))
    BY <1>2 DEF StubSteps, Do
  <2> QED  BY <1>1, <1>2, <2>1, <2>2, AfterJoined
<1> QED  BY <1>1, <1>3, <1>4, <1>5 DEF StubbedAt

LEMMA StubsStep ==
    ASSUME Types, StubsTheMissing, [Next]_vars
    PROVE  StubsTheMissing'
<1> SUFFICES ASSUME NEW p \in Platforms, Foreign(goal', p)
             PROVE  StubbedAt(p)'
  BY DEF StubsTheMissing, StubbedAt, Foreign
<1>0. Foreign(goal, p) => StubbedAt(p)
  BY DEF StubsTheMissing, StubbedAt
<1>1. CASE Start
  <2>1. PICK g \in Goals : goal' = g /\ todo' = StepsOf(g)
    BY <1>1 DEF Start
  <2>2. \A x \in StubSteps(p) \cup {Do("mark", p)} : ~In(todo', x)
    BY <2>1, StartStubs
  <2>3. \A x \in StubSteps(p) : After(todo', x, Do("mark", p))
    BY <2>2, NotIn
  <2>4. \A i \in DOMAIN todo' : todo'[i] # Do("remove", p)
    BY <2>2 DEF In, StubSteps
  <2> QED  BY <2>2, <2>3, <2>4 DEF StubbedAt
<1>2. CASE Rested \/ Ends
  <2>1. todo' = <<>>
    BY <1>2 DEF Rested, Ends
  <2> QED  BY <2>1 DEF StubbedAt, In, After
<1>3. CASE UNCHANGED vars
  BY <1>0, <1>3 DEF vars, outputs, StubbedAt
<1>4. CASE Pops /\ (Builds \/ Passes) /\ bundle' = bundle
  <2>1. Head(todo).op # "remove"
    BY <1>4 DEF Builds, Openssl, Compile, Combine, Clean, Passes, At
  <2>2. Head(todo) # Do("remove", p)
    BY <2>1 DEF Do
  <2>3. StubbedAt(p) /\ bundle'[p].libs = bundle[p].libs
    BY <1>0, <1>4 DEF Pops
  <2> QED  BY <1>4, <2>2, <2>3, PopSameStubs
<1>5. CASE Pops /\ Writes
  BY <1>0, <1>5, WriteStubs DEF Pops
<1>6. CASE At("ensure") /\ (Pushes(Build(On)) \/ Pushes(Assemble(On)))
  <2>1. On \in Platforms /\ p # On /\ goal' = goal
    BY <1>6, HeadEnsure DEF Foreign, Pushes
  <2>2. ASSUME NEW x \in StubSteps(p) \cup {Do("mark", p)}
        PROVE  ~In(Build(On), x) /\ ~In(Assemble(On), x)
    <3>1. x.op \in StubOps /\ (x.op # "copyStub" => x.on = p)
      BY DEF StubSteps, StubOps, Do
    <3>2. /\ x.op \notin {"openssl", "compile", "combine"}
          /\ x \notin {Do("remove", On), Do("begin", On), Do("finish", On)}
          /\ \A v : x # Do("copy", v)
      BY <2>1, <3>1 DEF StubOps, Do
    <3> QED  BY <2>1, <3>2, BuildOrders, AssembleOrders DEF In
  <2>3. Build(On) \in Seq(AllSteps) /\ Assemble(On) \in Seq(AllSteps)
    BY <2>1, ListedOps
  <2>4. Head(todo).op \notin StubOps
    BY <1>6 DEF At, StubOps
  <2> QED  BY <1>0, <1>6, <2>1, <2>2, <2>3, <2>4, PushNoStubs
<1>7. CASE At("placeholder") /\ ~Resolvable(On) /\ Pushes(AssembleStub(On))
  <2>1. On \in Platforms /\ goal' = goal
    BY <1>7, HeadPlaceholder DEF Pushes
  <2>2. CASE p = On
    BY <1>0, <1>7, <2>1, <2>2, PushStubs DEF Resolvable
  <2>3. CASE p # On
    <3>1. ASSUME NEW x \in StubSteps(p) \cup {Do("mark", p)}
          PROVE  ~In(AssembleStub(On), x)
      <4>1. x \notin StubSteps(On) \cup {Do("mark", On)}
        <5>1. \A v \in ToSet(VariantsOf(p)) : v \notin ToSet(VariantsOf(On))
          BY <2>1, <2>3, PlatformOfVariant
        <5> QED  BY <2>3, <5>1 DEF StubSteps, Do
      <4> QED  BY <2>1, <4>1, AssembleStubOrders DEF In
    <3>2. AssembleStub(On) \in Seq(AllSteps)
      BY <2>1, ListedOps
    <3>3. Head(todo).op \notin StubOps
      BY <1>7 DEF At, StubOps
    <3> QED  BY <1>0, <1>7, <2>1, <3>1, <3>2, <3>3, PushNoStubs
  <2> QED  BY <2>2, <2>3
<1>8. CASE At("ensureXCFramework") /\ Pushes(BuildXCFramework)
  <2>1. /\ BuildXCFramework \in Seq(AllSteps)
        /\ \A i \in DOMAIN BuildXCFramework :
              BuildXCFramework[i].op \in {"removeXCFramework", "createXCFramework"}
    BY ListedOps
  <2>2. ASSUME NEW x \in StubSteps(p) \cup {Do("mark", p)}
        PROVE  ~In(BuildXCFramework, x)
    <3>1. x.op \in StubOps
      BY DEF StubSteps, StubOps, Do
    <3>2. x.op \notin {"removeXCFramework", "createXCFramework"}
      BY <3>1 DEF StubOps
    <3> QED  BY <2>1, <3>2 DEF In
  <2>3. Head(todo).op \notin StubOps /\ goal' = goal
    BY <1>8 DEF At, StubOps, Pushes
  <2> QED  BY <1>0, <1>8, <2>1, <2>2, <2>3, PushNoStubs
<1>9. CASE Unlinks
  BY <1>0, <1>9 DEF Unlinks, outputs, StubbedAt
<1> QED
  BY <1>1, <1>2, <1>3, <1>4, <1>5, <1>6, <1>7, <1>8, <1>9, Kinds
     DEF Passes, outputs

-----------------------------------------------------------------------------
(* What a make target leaves of a run ends with an accepted bundle.        *)

(* What is removed or begun is copied and finished again.                  *)
Tidy(p, t) ==
    /\ \A v \in ToSet(VariantsOf(p)) : After(t, Do("remove", p), Do("copy", v))
    /\ After(t, Do("remove", p), Do("finish", p))
    /\ After(t, Do("begin", p), Do("finish", p))

LEMMA NothingTidy ==
    ASSUME NEW p, NEW t \in Seq(AllSteps),
           \A i \in DOMAIN t : t[i].op \notin {"remove", "begin"}
    PROVE  Tidy(p, t)
<1>1. ~In(t, Do("remove", p)) /\ ~In(t, Do("begin", p))
  BY DEF In, Do
<1> QED  BY <1>1, NotIn DEF Tidy

LEMMA BuildCompletes ==
    ASSUME NEW p \in Platforms, NEW t \in Seq(AllSteps), Tidy(p, t),
           todo' = Build(p) \o t
    PROVE  Completes(p)'
<1> DEFINE s == Build(p)
<1>1. /\ s \in Seq(AllSteps)
      /\ In(s, Do("remove", p)) /\ In(s, Do("finish", p))
      /\ After(s, Do("remove", p), Do("finish", p))
      /\ After(s, Do("begin", p), Do("finish", p))
      /\ \A v \in ToSet(VariantsOf(p)) :
            /\ In(s, Do("copy", v))
            /\ After(s, Do("remove", p), Do("copy", v))
            /\ Before(s, Do("combine", v), Do("copy", v))
  BY BuildOrders
<1> HIDE DEF s
<1>2. In(todo', Do("finish", p)) /\ In(todo', Do("remove", p))
  BY <1>1, InJoined DEF s
<1>3. /\ After(todo', Do("remove", p), Do("finish", p))
      /\ After(todo', Do("begin", p), Do("finish", p))
  BY <1>1, AfterJoined DEF s, Tidy
<1>4. ASSUME NEW v \in ToSet(VariantsOf(p))
      PROVE  /\ In(todo', Do("copy", v))
             /\ After(todo', Do("remove", p), Do("copy", v))
             /\ Before(todo', Do("combine", v), Do("copy", v))
  <2>1. In(todo', Do("copy", v))
    BY <1>1, InJoined DEF s
  <2>2. After(todo', Do("remove", p), Do("copy", v))
    BY <1>1, AfterJoined DEF s, Tidy
  <2>3. In(s, Do("combine", v))
    <3>1. PICK i \in DOMAIN s : s[i] = Do("copy", v)
      BY <1>1 DEF In
    <3>2. PICK j \in 1..(i - 1) : s[j] = Do("combine", v)
      BY <1>1, <3>1 DEF Before
    <3>3. j \in DOMAIN s
      BY <1>1, <3>1, <3>2
    <3> QED  BY <3>2, <3>3 DEF In
  <2>4. Before(todo', Do("combine", v), Do("copy", v))
    BY <1>1, <2>3, BeforeJoined DEF s
  <2> QED  BY <2>1, <2>2, <2>4
<1> QED  BY <1>2, <1>3, <1>4 DEF Completes

LEMMA AssembleCompletes ==
    ASSUME NEW p \in Platforms, NEW t \in Seq(AllSteps), Tidy(p, t),
           todo' = Assemble(p) \o t,
           \A v \in ToSet(VariantsOf(p)) : library'[v] # NoFile
    PROVE  Completes(p)'
<1> DEFINE s == Assemble(p)
<1>1. /\ s \in Seq(AllSteps)
      /\ In(s, Do("remove", p)) /\ In(s, Do("finish", p))
      /\ After(s, Do("remove", p), Do("finish", p))
      /\ After(s, Do("begin", p), Do("finish", p))
      /\ \A v \in ToSet(VariantsOf(p)) :
            /\ In(s, Do("copy", v))
            /\ After(s, Do("remove", p), Do("copy", v))
  BY AssembleOrders
<1> HIDE DEF s
<1>2. In(todo', Do("finish", p)) /\ In(todo', Do("remove", p))
  BY <1>1, InJoined DEF s
<1>3. /\ After(todo', Do("remove", p), Do("finish", p))
      /\ After(todo', Do("begin", p), Do("finish", p))
  BY <1>1, AfterJoined DEF s, Tidy
<1>4. \A v \in ToSet(VariantsOf(p)) :
          /\ In(todo', Do("copy", v))
          /\ After(todo', Do("remove", p), Do("copy", v))
  BY <1>1, InJoined, AfterJoined DEF s, Tidy
<1> QED  BY <1>2, <1>3, <1>4 DEF Completes

(* An accepted bundle is left alone.                                       *)
LEMMA AcceptedCompletes ==
    ASSUME NEW p \in Platforms, Accepts(p), bundle' = bundle,
           todo' \in Seq(AllSteps),
           \A i \in DOMAIN todo' : todo'[i].op \notin {"remove", "begin", "copy"}
    PROVE  Completes(p)'
<1>1. Tidy(p, todo')
  BY NothingTidy
<1>2. \A v : ~In(todo', Do("copy", v))
  BY DEF In, Do
<1>3. \A v : Before(todo', Do("combine", v), Do("copy", v))
  BY <1>2, NotIn
<1> QED  BY <1>1, <1>3 DEF Completes, Accepts, Tidy, Stubs

(* A step of the run is done.                                              *)
LEMMA PopCompletes ==
    ASSUME Types, Pops, NEW p \in Platforms, ~Foreign(goal, p), p = goal.on,
           Completes(p),
           \A v \in ToSet(VariantsOf(p)) :
              /\ library[v] # NoFile => library'[v] # NoFile
              /\ Head(todo) = Do("combine", v) => library'[v] # NoFile,
           Writes \/ (bundle' = bundle /\ Head(todo).op \notin AssembleOps)
    PROVE  Completes(p)'
<1> DEFINE h == Head(todo)
<1>1. /\ todo \in Seq(AllSteps) /\ todo # <<>> /\ todo' = Tail(todo)
      /\ h \in FitSteps(goal) /\ bundle[p] \in Bundles
  BY HeadStep DEF Pops, Types
<1>2. Tidy(p, todo) /\ Tidy(p, todo')
  <2>1. Tidy(p, todo)
    BY DEF Completes, Tidy
  <2> QED  BY <1>1, <2>1, AfterTail DEF Tidy
<1>3. ASSUME NEW v \in ToSet(VariantsOf(p))
      PROVE  \/ library'[v] # NoFile
             \/ Before(todo', Do("combine", v), Do("copy", v))
  BY <1>1, BeforeTail DEF Completes
<1>4. ASSUME NEW v \in ToSet(VariantsOf(p)), h = Do("copy", v)
      PROVE  library[v] \notin Stubs
  <2>1. library[v] # NoFile
    BY <1>1, <1>4, BeforeTail DEF Completes
  <2>2. v \in Variants
    BY VariantsListed
  <2> QED  BY <2>1, <2>2 DEF Types, Stubs
<1>5. h # Do("mark", p) /\ \A v \in ToSet(VariantsOf(p)) : h # Do("copyStub", v)
  <2>1. h # Do("mark", p)
    BY <1>1 DEF FitSteps, Fits, Do
  <2>2. ASSUME NEW v \in ToSet(VariantsOf(p)), h = Do("copyStub", v)
        PROVE  FALSE
    <3>1. PICK q \in Platforms : Foreign(goal, q) /\ v \in ToSet(VariantsOf(q))
      BY <1>1, <2>2 DEF FitSteps, Fits, Do
    <3>2. q = p
      BY <3>1, PlatformOfVariant
    <3> QED  BY <3>1, <3>2
  <2> QED  BY <2>1, <2>2
<1> DEFINE W(b) == b.info = "whole" \/ In(todo', Do("finish", p))
           M(b) == ~b.marked \/ In(todo', Do("remove", p))
           L(b) == \A v \in ToSet(VariantsOf(p)) :
                      b.libs[v] \notin Stubs \/ In(todo', Do("copy", v))
<1>6. \A x : In(todo, x) => h = x \/ In(todo', x)
  BY <1>1, InTail
<1>7. /\ h # Do("finish", p) => W(bundle[p])
      /\ h # Do("remove", p) => M(bundle[p])
      /\ (\A v \in ToSet(VariantsOf(p)) : h # Do("copy", v)) => L(bundle[p])
  BY <1>6 DEF Completes
<1>8. h = Do("remove", p) =>
          /\ In(todo', Do("finish", p))
          /\ \A v \in ToSet(VariantsOf(p)) : In(todo', Do("copy", v))
  BY <1>1, <1>2, AfterTail DEF Tidy
<1>9. h = Do("begin", p) => In(todo', Do("finish", p))
  BY <1>1, <1>2, AfterTail DEF Tidy
<1>10. /\ Do("remove", p) # Do("finish", p) /\ Do("begin", p) # Do("finish", p)
       /\ Do("remove", p) # Do("begin", p)
       /\ \A v : /\ Do("copy", v) # Do("finish", p)
                 /\ Do("copy", v) # Do("remove", p)
                 /\ Do("copy", v) # Do("begin", p)
       /\ \A v, w : Do("copy", v) = Do("copy", w) => v = w
  BY DEF Do
<1>11. W(bundle'[p]) /\ M(bundle'[p]) /\ L(bundle'[p])
  <2>1. CASE bundle'[p] = bundle[p] /\ h \notin StubSteps(p)
              /\ \A v \in ToSet(VariantsOf(p)) : h # Do("copy", v)
    BY <1>7, <2>1 DEF StubSteps
  <2>2. CASE h = Do("remove", p) /\ bundle'[p] = NoBundle
    BY <1>8, <2>2 DEF NoBundle
  <2>3. CASE h = Do("begin", p) /\ bundle'[p] = [bundle[p] EXCEPT !.info = "partial"]
    <3>1. M(bundle[p]) /\ L(bundle[p])
      BY <1>7, <1>10, <2>3
    <3>2. bundle'[p].marked = bundle[p].marked /\ bundle'[p].libs = bundle[p].libs
      BY <1>1, <2>3 DEF Bundles
    <3> QED  BY <1>9, <2>3, <3>1, <3>2
  <2>4. CASE h = Do("finish", p) /\ bundle'[p] = [bundle[p] EXCEPT !.info = "whole"]
    <3>1. M(bundle[p]) /\ L(bundle[p])
      BY <1>7, <1>10, <2>4
    <3>2. /\ bundle'[p].marked = bundle[p].marked /\ bundle'[p].libs = bundle[p].libs
          /\ bundle'[p].info = "whole"
      BY <1>1, <2>4 DEF Bundles
    <3> QED  BY <3>1, <3>2
  <2>5. ASSUME NEW v \in ToSet(VariantsOf(p)), h = Do("copy", v),
               bundle'[p] = [bundle[p] EXCEPT !.libs[v] = library[v]]
        PROVE  W(bundle'[p]) /\ M(bundle'[p]) /\ L(bundle'[p])
    <3>1. W(bundle[p]) /\ M(bundle[p])
      BY <1>7, <1>10, <2>5
    <3>2. /\ bundle'[p].marked = bundle[p].marked /\ bundle'[p].info = bundle[p].info
          /\ bundle'[p].libs = [bundle[p].libs EXCEPT ![v] = library[v]]
      BY <1>1, <2>5 DEF Bundles
    <3>3. ASSUME NEW w \in ToSet(VariantsOf(p))
          PROVE  bundle'[p].libs[w] \notin Stubs \/ In(todo', Do("copy", w))
      <4>1. w \in Variants /\ bundle[p].libs \in [Variants -> Libraries]
        BY <1>1, VariantsListed DEF Bundles
      <4>2. CASE w = v
        BY <1>4, <2>5, <3>2, <4>1, <4>2
      <4>3. CASE w # v
        <5>1. h # Do("copy", w)
          BY <1>10, <2>5, <4>3
        <5>2. bundle[p].libs[w] \notin Stubs \/ In(todo', Do("copy", w))
          BY <1>6, <5>1 DEF Completes
        <5> QED  BY <3>2, <4>1, <4>3, <5>2
      <4> QED  BY <4>2, <4>3
    <3> QED  BY <3>1, <3>2, <3>3
  <2>6. CASE Writes
    <3>1. \/ bundle'[p] = bundle[p] /\ h \notin StubSteps(p)
              /\ \A v \in ToSet(VariantsOf(p)) : h # Do("copy", v)
          \/ h = Do("remove", p) /\ bundle'[p] = NoBundle
          \/ h = Do("begin", p) /\ bundle'[p] = [bundle[p] EXCEPT !.info = "partial"]
          \/ h = Do("finish", p) /\ bundle'[p] = [bundle[p] EXCEPT !.info = "whole"]
          \/ \E v \in ToSet(VariantsOf(p)) :
                /\ h = Do("copy", v)
                /\ bundle'[p] = [bundle[p] EXCEPT !.libs[v] = library[v]]
      BY <1>5, <2>6, Written
    <3> HIDE DEF W, M, L
    <3> QED  BY <2>1, <2>2, <2>3, <2>4, <2>5, <3>1
  <2>7. CASE bundle' = bundle /\ h.op \notin AssembleOps
    <3>1. /\ h # Do("finish", p) /\ h # Do("remove", p)
          /\ \A v \in ToSet(VariantsOf(p)) : h # Do("copy", v)
      BY <2>7 DEF AssembleOps, Do
    <3> QED  BY <1>7, <2>7, <3>1
  <2> QED  BY <2>6, <2>7
<1> QED  BY <1>2, <1>3, <1>11 DEF Completes, Tidy

(* Steps that do not concern the bundle are pushed.                        *)
LEMMA PushCompletes ==
    ASSUME Types, NEW p \in Platforms, Completes(p),
           NEW steps \in Seq(AllSteps), Pushes(steps),
           Head(todo).op \notin BuildOps,
           ~In(steps, Do("remove", p)), ~In(steps, Do("begin", p)),
           \A v : ~In(steps, Do("copy", v))
    PROVE  Completes(p)'
<1>1. /\ todo \in Seq(AllSteps) /\ todo # <<>> /\ Tail(todo) \in Seq(AllSteps)
      /\ todo' = steps \o Tail(todo) /\ bundle' = bundle /\ library' = library
  BY HeadStep DEF Pushes, outputs, targets
<1>2. \A x : x.op \in BuildOps /\ In(todo, x) => In(todo', x)
  BY <1>1, InTail, InJoined
<1>3. Tidy(p, todo')
  <2>1. Tidy(p, Tail(todo))
    BY <1>1, AfterTail DEF Completes, Tidy
  <2> QED  BY <1>1, <2>1, NotIn, AfterJoined DEF Tidy
<1>4. ASSUME NEW v \in ToSet(VariantsOf(p)),
             Before(todo, Do("combine", v), Do("copy", v))
      PROVE  Before(todo', Do("combine", v), Do("copy", v))
  <2>1. Head(todo) # Do("combine", v)
    BY DEF BuildOps, Do
  <2>2. Before(Tail(todo), Do("combine", v), Do("copy", v))
    BY <1>1, <1>4, <2>1, BeforeTail
  <2> QED  BY <1>1, <2>2, NotIn, BeforeJoined
<1>5. /\ Do("finish", p).op \in BuildOps /\ Do("remove", p).op \in BuildOps
      /\ \A v : Do("copy", v).op \in BuildOps
  BY DEF Do, BuildOps, AssembleOps
<1> QED  BY <1>1, <1>2, <1>3, <1>4, <1>5 DEF Completes, Tidy

LEMMA StartCompletes ==
    ASSUME NEW g \in Goals, g.op = "artifactbundle", todo' = StepsOf(g)
    PROVE  Completes(g.on)'
<1>1. g.on \in Platforms /\ g = Do("artifactbundle", g.on)
  BY DEF Goals, Do, Platforms
<1>2. PICK rest \in Seq(FitSteps(g)) :
          /\ StepsOf(g) = Build(g.on) \o rest
          /\ \A k \in DOMAIN rest :
                rest[k].op \in {"removeXCFramework", "createXCFramework",
                                "checkXCFramework", "placeholder"}
  BY <1>1, MakeList
<1>3. rest \in Seq(AllSteps)
  BY <1>2, FitIsStep
<1>4. Tidy(g.on, rest)
  <2>1. \A k \in DOMAIN rest : rest[k].op \notin {"remove", "begin"}
    BY <1>2
  <2> QED  BY <1>3, <2>1, NothingTidy
<1> QED  BY <1>1, <1>2, <1>3, <1>4, BuildCompletes

(* What make ensure-* starts with: the target, and the other's placeholder.*)
LEMMA EnsureList ==
    ASSUME Types, goal.op = "ensure", todo = StepsOf(goal)
    PROVE  /\ todo # <<>> /\ Head(todo).op = "ensure"
           /\ \A i \in DOMAIN Tail(todo) : Tail(todo)[i].op = "placeholder"
<1>1. todo = <<goal, Do("placeholder", Other(goal.on))>>
  BY DEF StepsOf
<1>2. Tail(todo) = <<Do("placeholder", Other(goal.on))>>
  BY <1>1
<1> QED  BY <1>1, <1>2 DEF Do

(* Libraries stay until clean, and a combined one is there.                *)
LEMMA BuildsLibrary ==
    ASSUME Types, CombinesACore, Pops, Builds, goal.op # "clean",
           NEW v \in Variants
    PROVE  /\ library[v] # NoFile => library'[v] # NoFile
           /\ Head(todo) = Do("combine", v) => library'[v] # NoFile
<1>0. library \in [Variants -> Libraries \ {EmptyFile}] /\ core \in [Variants -> Nat]
  BY DEF Types
<1>1. CASE Openssl \/ Compile
  <2>1. library' = library /\ Head(todo).op # "combine"
    BY <1>1 DEF Openssl, Compile, At
  <2> QED  BY <2>1 DEF Do
<1>2. CASE Combine
  <2>1. On \in Variants /\ Head(todo) = Do("combine", On)
    BY <1>2, HeadStep DEF Combine, At, Pops, On, FitSteps, Fits, VariantOps
  <2>2. core[On] > 0
    BY <2>1, HeadStep, BeforeTail DEF Pops, CombinesACore
  <2>3. [source |-> core[On], openssl |-> libcrypto[On]] # NoFile
    BY <1>0, <2>1, <2>2 DEF NoFile
  <2>4. \A w \in Variants :
            library'[w] = IF w = On
                          THEN [source |-> core[On], openssl |-> libcrypto[On]]
                          ELSE library[w]
    BY <1>0, <1>2 DEF Combine
  <2>5. Head(todo) = Do("combine", v) => v = On
    BY <2>1 DEF Do
  <2> QED  BY <2>3, <2>4, <2>5
<1>3. CASE Clean
  <2>1. Head(todo).op = "clean" /\ Head(todo) \in FitSteps(goal)
    BY <1>3, HeadStep DEF Clean, At, Pops
  <2> QED  BY <2>1 DEF FitSteps, Fits
<1> QED  BY <1>1, <1>2, <1>3 DEF Builds

(* Any step of a run in progress keeps it on course.                       *)
LEMMA WorkCompletes ==
    ASSUME Types, CombinesACore, WillBeAccepted, todo # <<>>,
           goal.op \in {"ensure", "artifactbundle"},
           \/ Pops /\ Builds /\ UNCHANGED outputs
           \/ Pops /\ Writes /\ UNCHANGED <<targets, staged>>
           \/ Pops /\ Passes
           \/ At("ensure") /\ Pushes(Build(On))
           \/ /\ At("ensure") /\ Pushes(Assemble(On))
              /\ \A v \in ToSet(VariantsOf(On)) : library[v] # NoFile
           \/ At("placeholder") /\ Pushes(AssembleStub(On))
           \/ At("ensureXCFramework") /\ Pushes(BuildXCFramework)
    PROVE  Completes(goal.on)'
<1> SUFFICES ASSUME NEW p, p = goal.on  PROVE Completes(p)'
  BY DEF Pops, Pushes
<1>1. p \in Platforms /\ ~Foreign(goal, p) /\ goal.op # "clean" /\ goal' = goal
  BY DEF Types, Goals, Do, Platforms, Foreign, Pops, Pushes
<1>2. \/ goal.op = "ensure" /\ todo = StepsOf(goal)
      \/ Completes(p)
  BY HeadStep DEF WillBeAccepted
<1>3. todo \in Seq(AllSteps) /\ Tail(todo) \in Seq(AllSteps)
  BY HeadStep
<1>4. Tidy(p, Tail(todo))
  <2>1. CASE Completes(p)
    BY <1>3, <2>1, AfterTail DEF Completes, Tidy
  <2>2. CASE goal.op = "ensure" /\ todo = StepsOf(goal)
    <3>1. \A i \in DOMAIN Tail(todo) : Tail(todo)[i].op = "placeholder"
      BY <2>2, EnsureList
    <3>2. \A i \in DOMAIN Tail(todo) : Tail(todo)[i].op \notin {"remove", "begin"}
      BY <3>1
    <3> QED  BY <1>3, <3>2, NothingTidy
  <2> QED  BY <1>2, <2>1, <2>2
<1>5. CASE At("ensure") /\ Pushes(Build(On))
  <2>1. On = p /\ todo' = Build(p) \o Tail(todo)
    BY <1>5, HeadEnsure DEF Pushes
  <2> QED  BY <1>1, <1>3, <1>4, <2>1, BuildCompletes
<1>6. CASE /\ At("ensure") /\ Pushes(Assemble(On))
           /\ \A v \in ToSet(VariantsOf(On)) : library[v] # NoFile
  <2>1. /\ On = p /\ todo' = Assemble(p) \o Tail(todo)
        /\ \A v \in ToSet(VariantsOf(p)) : library'[v] # NoFile
    BY <1>6, HeadEnsure DEF Pushes, targets
  <2> QED  BY <1>1, <1>3, <1>4, <2>1, AssembleCompletes
<1>7. CASE Pops /\ Passes /\ At("ensure") /\ ~Completes(p)
  <2>1. On = p /\ Accepts(On) /\ bundle' = bundle /\ todo' = Tail(todo)
    BY <1>7, HeadEnsure DEF Passes, Pops
  <2>2. \A i \in DOMAIN Tail(todo) : Tail(todo)[i].op = "placeholder"
    BY <1>2, <1>7, EnsureList
  <2>3. \A i \in DOMAIN todo' : todo'[i].op \notin {"remove", "begin", "copy"}
    BY <2>1, <2>2
  <2> QED  BY <1>1, <1>3, <2>1, <2>3, AcceptedCompletes
<1>8. CASE /\ Pops /\ Completes(p)
           /\ \/ Builds /\ UNCHANGED outputs
              \/ (Writes \/ Passes) /\ UNCHANGED targets
  <2>1. ASSUME NEW v \in ToSet(VariantsOf(p))
        PROVE  /\ library[v] # NoFile => library'[v] # NoFile
               /\ Head(todo) = Do("combine", v) => library'[v] # NoFile
    <3>1. v \in Variants
      BY <1>1, VariantsListed
    <3>2. CASE Builds
      BY <1>1, <1>8, <3>1, <3>2, BuildsLibrary
    <3>3. CASE (Writes \/ Passes) /\ UNCHANGED targets
      <4>1. Head(todo).op # "combine" /\ library' = library
        BY <3>3
           DEF Writes, RemoveBundle, Begin, Copy, CopyStub, FinishBundle, MarkStub,
               Passes, At, targets
      <4> QED  BY <4>1 DEF Do
    <3> QED  BY <1>8, <3>2, <3>3
  <2>2. \/ Writes
        \/ bundle' = bundle /\ Head(todo).op \notin AssembleOps
    BY <1>8
       DEF Builds, Openssl, Compile, Combine, Clean, Passes, At, AssembleOps, outputs
  <2>3. Types /\ Pops /\ Completes(p)
    BY <1>8
  <2>4. \A v \in ToSet(VariantsOf(p)) :
            /\ library[v] # NoFile => library'[v] # NoFile
            /\ Head(todo) = Do("combine", v) => library'[v] # NoFile
    BY <2>1
  <2>5. p \in Platforms /\ ~Foreign(goal, p) /\ p = goal.on
    BY <1>1
  <2> QED  BY ONLY <2>2, <2>3, <2>4, <2>5, PopCompletes
<1>9. CASE At("placeholder") /\ Pushes(AssembleStub(On))
  <2>1. On \in Platforms /\ On # p
    BY <1>1, <1>9, HeadPlaceholder
  <2>2. Completes(p) /\ Head(todo).op \notin BuildOps
    BY <1>2, <1>9, EnsureList DEF At, BuildOps, AssembleOps
  <2>3. AssembleStub(On) \in Seq(AllSteps)
    BY <2>1, ListedOps
  <2>4. ASSUME NEW x, \/ x \in {Do("remove", p), Do("begin", p)}
                      \/ \E v : x = Do("copy", v)
        PROVE  ~In(AssembleStub(On), x)
    <3>1. x \notin StubSteps(On) \cup {Do("mark", On)}
      BY <2>1, <2>4 DEF StubSteps, Do
    <3> QED  BY <2>1, <3>1, AssembleStubOrders DEF In
  <2> QED  BY <1>1, <1>9, <2>2, <2>3, <2>4, PushCompletes
<1>10. CASE At("ensureXCFramework") /\ Pushes(BuildXCFramework)
  <2>1. Completes(p) /\ Head(todo).op \notin BuildOps
    BY <1>2, <1>10, EnsureList DEF At, BuildOps, AssembleOps
  <2>2. /\ BuildXCFramework \in Seq(AllSteps)
        /\ \A i \in DOMAIN BuildXCFramework :
              BuildXCFramework[i].op \in {"removeXCFramework", "createXCFramework"}
    BY <1>1, ListedOps
  <2>3. \A x : x.op \in AssembleOps => ~In(BuildXCFramework, x)
    BY <2>2 DEF In, AssembleOps
  <2>4. /\ ~In(BuildXCFramework, Do("remove", p))
        /\ ~In(BuildXCFramework, Do("begin", p))
        /\ \A v : ~In(BuildXCFramework, Do("copy", v))
    BY <2>3 DEF Do, AssembleOps
  <2> QED  BY <1>1, <1>10, <2>1, <2>2, <2>4, PushCompletes
<1>11. Pops /\ (Builds \/ Writes) => Head(todo).op # "ensure"
  BY DEF Builds, Openssl, Compile, Combine, Clean,
         Writes, RemoveBundle, Begin, Copy, CopyStub, FinishBundle, MarkStub, At
<1>12. ~Completes(p) => At("ensure")
  BY <1>2, EnsureList DEF At
<1> QED
  BY <1>5, <1>6, <1>7, <1>8, <1>9, <1>10, <1>11, <1>12 DEF At, Passes

(* A library that is removed is combined before it is copied.              *)
LEMMA UnlinkCompletes ==
    ASSUME Types, Unlinks, Completes(goal.on)
    PROVE  Completes(goal.on)'
<1> SUFFICES ASSUME NEW p, p = goal.on  PROVE Completes(p)'
  BY DEF Unlinks
<1>1. UNCHANGED <<todo, bundle>>
  BY DEF Unlinks, outputs
<1>2. Completes(p)
  OBVIOUS
<1>3. ASSUME NEW v \in ToSet(VariantsOf(p))
      PROVE  library'[v] # NoFile \/ Before(todo, Do("combine", v), Do("copy", v))
  <2>1. CASE v = On
    <3>1. Head(todo) = Do("combine", v) /\ todo \in Seq(AllSteps) /\ todo # <<>>
      BY <2>1, HeadStep DEF Unlinks
    <3>2. Do("combine", v) # Do("copy", v)
      BY DEF Do
    <3> QED  BY <3>1, <3>2, HeadIsBefore
  <2>2. CASE v # On
    <3>1. library'[v] = library[v]
      BY <2>2 DEF Unlinks, Types
    <3> QED  BY <1>2, <3>1 DEF Completes
  <2> QED  BY <2>1, <2>2
<1> QED  BY <1>1, <1>2, <1>3 DEF Completes

LEMMA WillBeStep ==
    ASSUME Types, CombinesACore, WillBeAccepted, [Next]_vars
    PROVE  WillBeAccepted'
<1> SUFFICES ASSUME goal'.op \in {"ensure", "artifactbundle"}
             PROVE  /\ ended' = "no" =>
                          \/ goal'.op = "ensure" /\ todo' = StepsOf(goal')
                          \/ Completes(goal.on)'
                    /\ ended' = "ok" => Accepts(goal.on)'
  BY DEF WillBeAccepted
<1>1. CASE Start
  <2>1. PICK g \in Goals : goal' = g /\ todo' = StepsOf(g)
    BY <1>1 DEF Start
  <2>2. ended' = "no"
    BY <1>1 DEF Start
  <2>3. g.op = "artifactbundle" => Completes(goal.on)'
    BY <2>1, StartCompletes
  <2> QED  BY <2>1, <2>2, <2>3
<1>2. CASE Rested
  BY <1>2 DEF Rested, Do
<1>3. CASE Ends
  <2>1. goal' = goal /\ goal.op \in {"ensure", "artifactbundle"} /\ ended' # "no"
    BY <1>3 DEF Ends
  <2>2. CASE ended' = "ok"
    <3>1. ended = "no" /\ todo = <<>> /\ bundle' = bundle
      BY <1>3, <2>2 DEF Ends
    <3>2. Completes(goal.on)
      <4>1. goal \in Goals
        BY <2>1 DEF Types, Do
      <4> QED  BY <2>1, <3>1, <4>1, StepsFit DEF WillBeAccepted
    <3>3. \A x : ~In(todo, x)
      BY <3>1 DEF In
    <3>4. Accepts(goal.on)
      BY <3>2, <3>3 DEF Completes, Accepts, Stubs
    <3> QED  BY <2>1, <3>1, <3>4 DEF Accepts
  <2> QED  BY <2>1, <2>2
<1>4. CASE UNCHANGED vars
  BY <1>4 DEF vars, targets, outputs, WillBeAccepted, Completes, Accepts
<1>5. ASSUME todo # <<>>, goal' = goal, ended' = ended,
             \/ Pops /\ Builds /\ UNCHANGED outputs
             \/ Pops /\ Writes /\ UNCHANGED <<targets, staged>>
             \/ Pops /\ Passes
             \/ At("ensure") /\ Pushes(Build(On))
             \/ /\ At("ensure") /\ Pushes(Assemble(On))
                /\ \A v \in ToSet(VariantsOf(On)) : library[v] # NoFile
             \/ At("placeholder") /\ Pushes(AssembleStub(On))
             \/ At("ensureXCFramework") /\ Pushes(BuildXCFramework)
      PROVE  Completes(goal.on)' /\ ended' = "no"
  <2>1. ended' = "no"
    BY <1>5, HeadStep
  <2> QED  BY <1>5, <2>1, WorkCompletes
<1>6. CASE Unlinks
  <2>1. Completes(goal.on)
    <3>1. ~At("ensure") /\ goal' = goal /\ ended = "no"
      BY <1>6, HeadStep DEF Unlinks, At
    <3>2. ~(goal.op = "ensure" /\ todo = StepsOf(goal))
      BY <3>1, EnsureList DEF At
    <3> QED  BY <3>1, <3>2 DEF WillBeAccepted
  <2>2. Completes(goal.on)'
    BY <1>6, <2>1, UnlinkCompletes
  <2>3. goal' = goal /\ ended' = "no"
    BY <1>6, HeadStep DEF Unlinks
  <2> QED  BY <2>2, <2>3
<1> QED
  BY <1>1, <1>2, <1>3, <1>4, <1>5, <1>6, Kinds DEF Pops, Pushes

-----------------------------------------------------------------------------
(* The properties.                                                         *)

LEMMA InitIInv == Init => IInv
<1> SUFFICES ASSUME Init  PROVE IInv
  OBVIOUS
<1>1. Types
  BY InitTypes
<1>2. todo = <<>> /\ goal = Do("none", "apple")
  BY DEF Init
<1>3. \A x : ~In(todo, x)
  BY <1>2 DEF In
<1>4. CombinesACore
  BY <1>3, NotIn DEF CombinesACore
<1>5. StagesTheChecked
  BY <1>2 DEF StagesTheChecked
<1>6. StubsTheMissing
  BY <1>2, <1>3, NotIn DEF StubsTheMissing
<1>7. WillBeAccepted
  BY <1>2 DEF WillBeAccepted, Do
<1> QED  BY <1>1, <1>4, <1>5, <1>6, <1>7 DEF IInv

LEMMA IInvStep == IInv /\ [Next]_vars => IInv'
BY TypesStep, CombinesStep, StagesStep, StubsStep, WillBeStep DEF IInv

LEMMA AlwaysIInv == Spec => []IInv
BY InitIInv, IInvStep, PTL DEF Spec

(* build-artifactbundle.sh killed anywhere, placeholders written for what  *)
(* is missing, libraries combined from what an earlier run left: a bundle  *)
(* that a check script accepts holds built libraries only.                 *)
THEOREM AcceptedBundlesAreReal == Spec => []AcceptedIsReal
<1>1. IInv => AcceptedIsReal
  <2> SUFFICES ASSUME Types, NEW p \in Platforms, Accepts(p),
                      NEW v \in ToSet(VariantsOf(p))
               PROVE  Built(bundle[p].libs[v])
    BY DEF IInv, AcceptedIsReal
  <2>1. bundle[p].libs[v] \in Libraries
    BY VariantsListed DEF Types, Bundles
  <2>2. bundle[p].libs[v] \notin Stubs
    BY DEF Accepts, Stubs
  <2> QED  BY <2>1, <2>2, LibraryKinds
<1> QED  BY <1>1, AlwaysIInv, PTL

(* The release workflow stages what the check before it accepted: never an *)
(* empty library of a placeholder.                                         *)
THEOREM StagedLibrariesAreReal == Spec => []StagedIsReal
<1>1. IInv => StagedIsReal
  BY DEF IInv, Types, StagedIsReal
<1> QED  BY <1>1, AlwaysIInv, PTL

(* Whatever a make target found on disk, when make ensure-* or make        *)
(* artifactbundle-* ends well the check script accepts the bundle.         *)
THEOREM EnsuredBundlesAreAccepted == Spec => []EnsuredIsAccepted
<1>1. IInv => EnsuredIsAccepted
  BY DEF IInv, WillBeAccepted, EnsuredIsAccepted
<1> QED  BY <1>1, AlwaysIInv, PTL

(* No step for one platform, nor a placeholder, takes an accepted bundle   *)
(* from the other: a stub is assembled only where info.json is missing.    *)
LEMMA StubStep ==
    ASSUME IInv, [Next]_vars, ~Idle, NEW p \in Platforms, Foreign(goal, p),
           Accepts(p)
    PROVE  Accepts(p)'
<1>1. /\ Types /\ StubbedAt(p) /\ bundle[p] \in Bundles
      /\ bundle[p].info = "whole" /\ ~bundle[p].marked
  BY DEF IInv, StubsTheMissing, StubbedAt, Types, Accepts
<1>2. \/ bundle' = bundle
      \/ Pops /\ Writes
  BY <1>1, Kinds DEF Start, Rested, Ends, Unlinks, vars, outputs, Passes, Pushes
<1>3. CASE bundle' = bundle
  BY <1>3 DEF Accepts
<1>4. CASE Pops /\ Writes
  <2> DEFINE h == Head(todo)
  <2>1. todo \in Seq(AllSteps) /\ todo # <<>> /\ h \in FitSteps(goal)
    BY <1>1, <1>4, HeadStep DEF Pops
  <2>2. h # Do("remove", p)
    <3>1. ASSUME h = Do("remove", p)  PROVE bundle[p].info = "none"
      <4>1. 1 \in DOMAIN todo /\ todo[1] = h
        BY <2>1
      <4> QED  BY <1>1, <3>1, <4>1 DEF StubbedAt
    <3> QED  BY <1>1, <3>1
  <2>3. \A v : v \in ToSet(VariantsOf(p)) => bundle[p].libs[v] \notin Stubs
    BY DEF Accepts, Stubs
  <2>4. PICK v \in ToSet(VariantsOf(p)) : TRUE
    BY VariantsListed
  <2>5. ~In(todo, Do("mark", p))
    <3>1. ASSUME In(todo, Do("remove", p))  PROVE FALSE
      <4>1. PICK i \in DOMAIN todo : todo[i] = Do("remove", p)
        BY <3>1 DEF In
      <4> QED  BY <1>1, <4>1 DEF StubbedAt
    <3> QED  BY <1>1, <2>3, <2>4, <3>1 DEF StubbedAt
  <2>6. h # Do("mark", p) /\ h \notin StubSteps(p)
    <3>1. 1 \in DOMAIN todo /\ todo[1] = h
      BY <2>1
    <3>2. h # Do("mark", p)
      BY <2>5, <3>1 DEF In
    <3>3. ASSUME h \in StubSteps(p)  PROVE FALSE
      <4>1. After(todo, h, Do("mark", p))
        BY <1>1, <3>3 DEF StubbedAt
      <4>2. In(Tail(todo), Do("mark", p))
        BY <2>1, <4>1, AfterTail
      <4> QED  BY <2>1, <2>5, <4>2, InTail
    <3> QED  BY <3>2, <3>3
  <2>7. ASSUME NEW w \in ToSet(VariantsOf(p)), h = Do("copy", w)  PROVE FALSE
    <3>1. ~Foreign(goal, goal.on) /\ w \in ToSet(VariantsOf(goal.on))
      BY <2>1, <2>7 DEF FitSteps, Fits, Do
    <3>2. goal.on \in Platforms
      BY <1>1 DEF Types, Goals, Do, Platforms
    <3>3. p = goal.on
      BY <3>1, <3>2, PlatformOfVariant
    <3> QED  BY <3>1, <3>3
  <2>8. ASSUME NEW w \in ToSet(VariantsOf(p)), h = Do("copyStub", w)  PROVE FALSE
    BY <2>6, <2>8 DEF StubSteps
  <2>9. bundle'[p] = bundle[p]
    BY <1>1, <1>4, <2>2, <2>6, <2>7, <2>8, Written DEF StubSteps
  <2> QED  BY <2>9 DEF Accepts
<1> QED  BY <1>2, <1>3, <1>4

(* The Makefile's placeholder targets and runs killed half-way: while a    *)
(* target of one platform runs, an accepted bundle of the other stays so.  *)
THEOREM PlaceholdersReplaceNothing == Spec => StubsReplaceNothing
<1>1. IInv /\ [Next]_vars =>
          [~Idle => \A p \in Platforms : Accepts(p) /\ ~Accepts(p)' =>
              goal.on = p /\ goal.op # "placeholder"]_vars
  BY StubStep DEF Foreign
<1> QED  BY <1>1, AlwaysIInv, PTL DEF Spec, StubsReplaceNothing
=============================================================================

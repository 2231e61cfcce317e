---------------------------- MODULE SwiftBundles ----------------------------
(***************************************************************************)
(* The binary targets of the Swift package: how the Makefile, with         *)
(* build-artifactbundle.sh, build-apple-xcframework.sh and the check-*.py  *)
(* scripts, builds, repackages, stubs and accepts them in a working tree,  *)
(* and what the release workflow takes from it.  Any run may be killed     *)
(* between two steps, and what it left on disk is what the next one finds. *)
(***************************************************************************)
EXTENDS Naturals, Sequences, SequencesExt

CONSTANTS
    AppleVariants,     \* libraries of the Apple bundle, in build order
    AndroidVariants,   \* those of the Android bundle
    BrewVariants,      \* those linked with Homebrew's OpenSSL, where it is found
    MaxSource,         \* bound: versions of the sources
    MaxPin             \* bound: versions of OPENSSL_COMMIT

ASSUME VariantsAssumption ==
    /\ AppleVariants \in Seq(ToSet(AppleVariants)) \ {<<>>}
    /\ AndroidVariants \in Seq(ToSet(AndroidVariants)) \ {<<>>}
    /\ ToSet(AppleVariants) \cap ToSet(AndroidVariants) = {}
    /\ MaxSource \in Nat \ {0} /\ MaxPin \in Nat \ {0}

VARIABLES
    tree,         \* versions of src/ and of the OpenSSL pin checked out
    libcrypto,    \* targets/<variant>/openssl/lib/libcrypto.a
    core,         \* targets/<variant>/cmake/libattested_key_zk.a
    library,      \* targets/<variant>/libattested_key_zk.a
    bundle,       \* AttestedKeyZK<Platform>.artifactbundle
    xcframework,  \* libraries of AttestedKeyZKApple.xcframework
    fresh,        \* TRUE in a clone nothing ran in yet, as on a hosted runner
    staged,       \* libraries of the bundle and XCFramework staged in this run
    goal,         \* what runs or ran last
    todo,         \* the steps it has left
    ended         \* "no" while it runs, "ok", "failed" or "killed"

targets == <<libcrypto, core, library>>
outputs == <<bundle, xcframework, staged>>
vars == <<tree, targets, outputs, fresh, goal, todo, ended>>

-----------------------------------------------------------------------------
Platforms == {"apple", "android"}
Other(p) == IF p = "apple" THEN "android" ELSE "apple"
VariantsOf(p) == IF p = "apple" THEN AppleVariants ELSE AndroidVariants
Variants == ToSet(AppleVariants) \cup ToSet(AndroidVariants)

NoFile == [source |-> 0, openssl |-> "missing"]
EmptyFile == [source |-> 0, openssl |-> "empty"]
Built(lib) == lib.source > 0

NoLibraries == [v \in Variants |-> NoFile]
NothingStaged == [bundle |-> NoLibraries, xcframework |-> NoLibraries]
NoBundle == [info |-> "none", marked |-> FALSE, libs |-> NoLibraries]

(* main() of check-apple-artifactbundle.py and check-android-artifactbundle*)
(* .py.  Headers and module map are copied with the library.               *)
AcceptsAnySize(p) ==
    /\ ~bundle[p].marked
    /\ bundle[p].info = "whole"
    /\ \A v \in ToSet(VariantsOf(p)) : bundle[p].libs[v] # NoFile
Accepts(p) ==
    /\ ~bundle[p].marked
    /\ bundle[p].info = "whole"
    /\ \A v \in ToSet(VariantsOf(p)) : bundle[p].libs[v] \notin {NoFile, EmptyFile}

(* check-apple-xcframework.py: an empty library has no symbols.            *)
AcceptsXCFramework == \A v \in ToSet(AppleVariants) : Built(xcframework[v])

-----------------------------------------------------------------------------
(* Steps.                                                                  *)
Do(op, on) == [op |-> op, on |-> on]
Each(op, seq) == [k \in 1..Len(seq) |-> Do(op, seq[k])]

BuildVariant(v) == <<Do("openssl", v), Do("compile", v), Do("combine", v)>>
BuildVariants(p) ==
    [i \in 1..(3 * Len(VariantsOf(p))) |->
        BuildVariant(VariantsOf(p)[(i + 2) \div 3])[((i + 2) % 3) + 1]]

(* build-artifactbundle.sh, with --skip-build and without.                 *)
Assemble(p) ==
    <<Do("remove", p), Do("begin", p)>> \o Each("copy", VariantsOf(p)) \o <<Do("finish", p)>>
Build(p) == BuildVariants(p) \o Assemble(p)

AssembleStub(p) ==
    <<Do("remove", p), Do("begin", p)>> \o Each("copyStub", VariantsOf(p))
        \o <<Do("finish", p), Do("mark", p)>>

BuildXCFramework ==
    <<Do("removeXCFramework", "apple"), Do("createXCFramework", "apple")>>

StepsOf(g) ==
    CASE g.op = "artifactbundle" ->
            Build(g.on)
            \o (IF g.on = "apple"
                THEN BuildXCFramework \o <<Do("checkXCFramework", "apple")>>
                ELSE <<>>)
            \o <<Do("placeholder", Other(g.on))>>
      [] g.op = "ensure" -> <<g, Do("placeholder", Other(g.on))>>
      [] g.op = "ensureXCFramework" ->
            <<Do("ensure", "apple"), Do("placeholder", "android"),
              g, Do("checkXCFramework", "apple")>>
      [] g.op = "release" /\ g.on = "apple" ->
            <<Do("ensure", "apple"), Do("placeholder", "android"),
              Do("ensure", "apple"), Do("placeholder", "android"),
              Do("ensureXCFramework", "apple"),
              Do("checkXCFramework", "apple"), Do("check", "android"),
              Do("check", "apple"), Do("checkXCFramework", "apple"),
              Do("stage", "apple")>>
      [] g.op = "release" /\ g.on = "android" ->
            <<Do("ensure", "android"), Do("placeholder", "apple"),
              Do("check", "android"), Do("stage", "android")>>
      [] OTHER -> <<g>>

Goals ==
    {Do(op, p) : op \in {"artifactbundle", "ensure", "placeholder", "release"},
                 p \in Platforms}
        \cup {Do("ensureXCFramework", "apple"), Do("clean", "apple")}

-----------------------------------------------------------------------------
(* A clone has the bundles that were committed.                            *)
Committed(p) ==
    [info |-> "whole", marked |-> FALSE,
     libs |-> [v \in Variants |->
        IF v \in ToSet(VariantsOf(p))
        THEN [source |-> 1, openssl |-> IF v \in BrewVariants THEN "brew" ELSE "pin1"]
        ELSE NoFile]]

Pin == IF tree.pin = 1 THEN "pin1" ELSE "pin2"

Init ==
    /\ tree = [source |-> 1, pin |-> 1]
    /\ libcrypto = [v \in Variants |-> "missing"]
    /\ core = [v \in Variants |-> 0]
    /\ library = NoLibraries
    /\ bundle = [p \in Platforms |-> Committed(p)]
    /\ xcframework = Committed("apple").libs
    /\ fresh = TRUE /\ staged = NothingStaged
    /\ goal = Do("none", "apple") /\ todo = <<>> /\ ended = "ok"

Idle == ended # "no"
Rests == goal' = Do("none", "apple") /\ ended' = "ok" /\ UNCHANGED todo

Edit ==
    /\ Idle /\ Rests
    /\ \/ tree.source < MaxSource /\ tree' = [tree EXCEPT !.source = @ + 1]
       \/ tree.pin < MaxPin /\ tree' = [tree EXCEPT !.pin = @ + 1]
    /\ UNCHANGED <<targets, outputs, fresh>>

(* The bundles are under version control, the build directory is not: a    *)
(* commit of what the tree holds, and a clone of it.                       *)
Clone ==
    /\ Idle /\ Rests
    /\ libcrypto' = [v \in Variants |-> "missing"]
    /\ core' = [v \in Variants |-> 0]
    /\ library' = NoLibraries
    /\ fresh' = TRUE
    /\ UNCHANGED <<tree, outputs>>

Start ==
    /\ Idle
    /\ \E g \in Goals :
        /\ g.op = "release" => fresh
        /\ goal' = g /\ todo' = StepsOf(g)
    /\ ended' = "no" /\ fresh' = FALSE
    /\ staged' = NothingStaged
    /\ UNCHANGED <<tree, targets, bundle, xcframework>>

Kill ==
    /\ ~Idle /\ ended' = "killed" /\ todo' = <<>>
    /\ UNCHANGED <<tree, targets, outputs, fresh, goal>>

Finish ==
    /\ ~Idle /\ todo = <<>> /\ ended' = "ok"
    /\ UNCHANGED <<tree, targets, outputs, fresh, goal, todo>>

At(op) == todo # <<>> /\ Head(todo).op = op
On == Head(todo).on
GoOn(steps) ==
    /\ todo' = steps \o Tail(todo)
    /\ UNCHANGED <<tree, fresh, goal, ended>>
GoOnIf(passed) ==
    /\ todo' = IF passed THEN Tail(todo) ELSE <<>>
    /\ ended' = IF passed THEN "no" ELSE "failed"
    /\ UNCHANGED <<tree, fresh, goal>>

-----------------------------------------------------------------------------
(* build_macos_variant, build_ios_variant, build_android_variant.          *)
Openssl ==
    /\ At("openssl")
    /\ libcrypto' = [libcrypto EXCEPT ![On] =
            IF On \in BrewVariants THEN "brew"
            ELSE IF @ = "missing" THEN Pin ELSE @]
    /\ GoOn(<<>>) /\ UNCHANGED <<core, library, outputs>>

Compile ==
    /\ At("compile")
    /\ core' = [core EXCEPT ![On] = IF @ = 0 THEN tree.source ELSE @]
    /\ GoOn(<<>>) /\ UNCHANGED <<libcrypto, library, outputs>>

(* combine_archives removes the library before it makes it anew.           *)
RemoveLibrary ==
    /\ At("combine") /\ library[On] # NoFile
    /\ library' = [library EXCEPT ![On] = NoFile]
    /\ UNCHANGED <<tree, libcrypto, core, outputs, fresh, goal, todo, ended>>

Combine ==
    /\ At("combine") /\ library[On] = NoFile
    /\ library' = [library EXCEPT ![On] =
            [source |-> core[On], openssl |-> libcrypto[On]]]
    /\ GoOn(<<>>) /\ UNCHANGED <<libcrypto, core, outputs>>

Clean ==
    /\ At("clean")
    /\ libcrypto' = [v \in Variants |-> "missing"]
    /\ core' = [v \in Variants |-> 0]
    /\ library' = NoLibraries
    /\ GoOn(<<>>) /\ UNCHANGED outputs

-----------------------------------------------------------------------------
(* "Assembling artifact bundle": the bundle is removed, info.json is begun, *)
(* the libraries are copied, and with its last line info.json is whole.     *)
SetBundle(p, b) ==
    bundle' = [bundle EXCEPT ![p] = b] /\ UNCHANGED <<xcframework, staged>>

WithoutInfo(p) == [bundle[p] EXCEPT !.info = "none"]
StartedOver(p) == NoBundle

RemoveBundle ==
    /\ At("remove") /\ SetBundle(On, StartedOver(On))
    /\ GoOn(<<>>) /\ UNCHANGED targets

Begin ==
    /\ At("begin") /\ SetBundle(On, [bundle[On] EXCEPT !.info = "partial"])
    /\ GoOn(<<>>) /\ UNCHANGED targets

PlatformOf(v) == CHOOSE p \in Platforms : v \in ToSet(VariantsOf(p))
Copies(lib) ==
    SetBundle(PlatformOf(On), [bundle[PlatformOf(On)] EXCEPT !.libs[On] = lib])

Copy ==
    /\ At("copy") /\ Copies(library[On])
    /\ GoOn(<<>>) /\ UNCHANGED targets

CopyStub ==
    /\ At("copyStub") /\ Copies(EmptyFile)
    /\ GoOn(<<>>) /\ UNCHANGED targets

FinishBundle ==
    /\ At("finish") /\ SetBundle(On, [bundle[On] EXCEPT !.info = "whole"])
    /\ GoOn(<<>>) /\ UNCHANGED targets

MarkStub ==
    /\ At("mark") /\ SetBundle(On, [bundle[On] EXCEPT !.marked = TRUE])
    /\ GoOn(<<>>) /\ UNCHANGED targets

-----------------------------------------------------------------------------
(* The Makefile.                                                           *)
Ensure ==
    /\ At("ensure") /\ UNCHANGED <<targets, outputs>>
    /\ GoOn(IF Accepts(On) THEN <<>>
            ELSE IF \A v \in ToSet(VariantsOf(On)) : library[v] # NoFile
                 THEN Assemble(On)
                 ELSE Build(On))

ResolvableIfStub(p) == bundle[p].info # "none" /\ bundle[p].marked
Resolvable(p) == bundle[p].info # "none"

Placeholder ==
    /\ At("placeholder") /\ UNCHANGED <<targets, outputs>>
    /\ GoOn(IF Resolvable(On) THEN <<>> ELSE AssembleStub(On))

EnsureXCFramework ==
    /\ At("ensureXCFramework") /\ UNCHANGED <<targets, outputs>>
    /\ GoOn(IF AcceptsXCFramework THEN <<>> ELSE BuildXCFramework)

Check ==
    /\ At("check") /\ GoOnIf(Accepts(On)) /\ UNCHANGED <<targets, outputs>>

CheckXCFramework ==
    /\ At("checkXCFramework") /\ GoOnIf(AcceptsXCFramework)
    /\ UNCHANGED <<targets, outputs>>

(* build-apple-xcframework.sh.                                             *)
RemoveXCFramework ==
    /\ At("removeXCFramework") /\ UNCHANGED <<targets, bundle, staged>>
    /\ IF \A v \in ToSet(AppleVariants) : bundle["apple"].libs[v] # NoFile
       THEN xcframework' = NoLibraries /\ GoOn(<<>>)
       ELSE GoOnIf(FALSE) /\ UNCHANGED xcframework

CreateXCFramework ==
    /\ At("createXCFramework") /\ UNCHANGED <<targets, bundle, staged>>
    /\ xcframework' = bundle["apple"].libs
    /\ GoOn(<<>>)

(* "Stage Apple artifacts", "Stage Android artifact" of release.yml.  The   *)
(* macOS archive has the library of the bundle's variant.                  *)
Of(p, libs) ==
    [v \in Variants |-> IF v \in ToSet(VariantsOf(p)) THEN libs[v] ELSE NoFile]

Stage ==
    /\ At("stage") /\ UNCHANGED <<targets, bundle, xcframework>>
    /\ staged' = [bundle |-> Of(On, bundle[On].libs),
                  xcframework |-> IF On = "apple" THEN Of("apple", xcframework)
                                  ELSE NoLibraries]
    /\ GoOn(<<>>)

Next ==
    \/ Edit \/ Clone \/ Start \/ Kill \/ Finish
    \/ Openssl \/ Compile \/ RemoveLibrary \/ Combine \/ Clean
    \/ RemoveBundle \/ Begin \/ Copy \/ CopyStub \/ FinishBundle \/ MarkStub
    \/ Ensure \/ Placeholder \/ EnsureXCFramework
    \/ Check \/ CheckXCFramework
    \/ RemoveXCFramework \/ CreateXCFramework \/ Stage

Spec == Init /\ [][Next]_vars

-----------------------------------------------------------------------------
(* Whatever runs were killed, and where: a bundle a check script accepts   *)
(* has built libraries only, no stub of a placeholder among them.          *)
AcceptedIsReal ==
    \A p \in Platforms : Accepts(p) =>
        \A v \in ToSet(VariantsOf(p)) : Built(bundle[p].libs[v])

(* make ensure-*-artifactbundle that ends well leaves a bundle that the    *)
(* check accepts, a placeholder before it or not.                          *)
EnsuredIsAccepted ==
    goal.op \in {"ensure", "artifactbundle"} /\ ended = "ok" => Accepts(goal.on)

(* A stub stands in for what is missing: no target of the one platform     *)
(* spoils an accepted bundle of the other.                                 *)
StubsReplaceNothing ==
    [][~Idle =>
        \A p \in Platforms : Accepts(p) /\ ~Accepts(p)' =>
            goal.on = p /\ goal.op # "placeholder"]_vars

(* release.yml stages no stub, in the bundle or in the XCFramework.        *)
StagedIsReal ==
    \A v \in Variants :
        staged.bundle[v] # EmptyFile /\ staged.xcframework[v] # EmptyFile

-----------------------------------------------------------------------------
(* What the documents say of a run that ended well.                        *)

(* README.md, "The workflow builds release archives from source", and the  *)
(* list of what it "builds and attaches", the bundles among it.            *)
ReleasesTheSources ==
    goal.op = "release" /\ ended = "ok" =>
        \A v \in ToSet(VariantsOf(goal.on)) : staged.bundle[v].source = tree.source
=============================================================================

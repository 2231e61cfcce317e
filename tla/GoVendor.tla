------------------------------ MODULE GoVendor ------------------------------
(***************************************************************************)
(* The C++ sources in bindings/go: a developer's clone, the script that    *)
(* copies them there, and the job of CI that runs the same script in a     *)
(* checkout of what was committed and asks git for a difference.           *)
(*                                                                         *)
(* The script may stop anywhere, and the developer may edit the sources,   *)
(* or the copies, while it runs, and commit any part of the result.  A job *)
(* shares nothing with the developer's clone, so that it is enough to let  *)
(* one of the two move at a time.                                          *)
(***************************************************************************)
EXTENDS Naturals, FiniteSets, Functions

CONSTANTS
    Own,         \* versions of include/ and src/
    Revisions,   \* of the Longfellow submodule
    Headers,     \* its headers
    Needs,       \* Needs[own][cc][lf]: the headers that own and
                 \* Longfellow's .cc files of cc reach in the submodule at lf
    Text,        \* Text[revision][header]
    PatchFor,    \* the header that patches/longfellow-zk changes
    Applies,     \* the revisions the patch applies to
    Tagged,      \* those upstream has put a tag on since the developer cloned
    MaxCommits,  \* bound: no more commits are made
    MaxEdits     \* bound: no more edits are made

(* Files of different kinds do not share a name.                           *)
ASSUME NameAssumption ==
    /\ Needs \in [Own -> [Revisions -> [Revisions -> SUBSET Headers]]]
    /\ Applies \subseteq Revisions
    /\ PatchFor \in Headers
    /\ Headers \cap {"cxx_own", "cxx_lf", "PROVENANCE.md"} = {}

VARIABLES
    work,     \* the work tree of each clone: own, lf and bindings/go
    head,     \* the commit it has checked out
    pc,       \* where its sync-go-bindings.sh is
    todo,     \* the headers it has yet to copy
    noted,    \* LF_COMMIT
    fresh,    \* no edit, and no failure, since the script was started
    edits,    \* how many edits were made
    commits,  \* commits made
    whole,    \* those made of all there was after an undisturbed run
    green,    \* commits that passed the check for drift
    red       \* commits it refused

script == <<pc, todo, noted>>
history == <<commits, whole, green, red>>
vars == <<work, head, script, fresh, edits, history>>

Clones == {"developer", "ci"}

(* Own sources and Longfellow's lie flat, headers in their directories.    *)
HeaderOf(lf, h) ==
    <<"lf", Text[lf][h], IF h = PatchFor THEN "patched" ELSE "as is">>

(* git describe: by the tags there are, which CI fetches anew.             *)
DescribedWhereItRan(c, lf) == <<c, lf>>
Described(c, lf) ==
    IF c = "ci" /\ lf \in Tagged THEN <<"tag", lf>> ELSE <<"commit", lf>>

Provenance(c, lf, headers) ==
    <<"provenance", lf, Described(c, lf), Cardinality(headers)>>

(* What a build of these sources includes.                                 *)
Wanted(own, lf) == Needs[own][lf][lf]

(* What the script makes of bindings/go for these sources.                 *)
Vendored(c, own, lf) ==
    [f \in {"cxx_own", "cxx_lf", "PROVENANCE.md"} \cup Wanted(own, lf) |->
        CASE f = "cxx_own" -> <<"own", own>>
          [] f = "cxx_lf" -> <<"lf", lf>>
          [] f = "PROVENANCE.md" -> Provenance(c, lf, Wanted(own, lf))
          [] OTHER -> HeaderOf(lf, f)]

NoCheckout == [own |-> "none", lf |-> "none", tree |-> [f \in {} |-> f]]

-----------------------------------------------------------------------------
Init ==
    /\ \E own \in Own, lf \in Applies :
        work = [developer |->
                    [own |-> own, lf |-> lf,
                     tree |-> Vendored("developer", own, lf)],
                ci |-> NoCheckout]
    /\ head = work
    /\ noted = [c \in Clones |-> "none"]
    /\ pc = [c \in Clones |-> "idle"]
    /\ todo = [c \in Clones |-> {}]
    /\ fresh = [c \in Clones |-> FALSE]
    /\ edits = 0
    /\ commits = {}
    /\ whole = {}
    /\ green = {}
    /\ red = {}

Goto(c, where) == pc' = [pc EXCEPT ![c] = where]

With(tree, file, text) ==
    [f \in DOMAIN tree \cup {file} |-> IF f = file THEN text ELSE tree[f]]

Put(c, file, text) ==
    work' = [work EXCEPT ![c].tree = With(@, file, text)]

KeptHeaders(tree) == Restrict(tree, DOMAIN tree \ {"cxx_own", "cxx_lf"})

(* rm -rf: PROVENANCE.md stays.                                            *)
Kept(tree) == Restrict(tree, DOMAIN tree \cap {"PROVENANCE.md"})

Wipe(c) ==
    /\ pc[c] = IF c = "ci" THEN "checked out" ELSE "idle"
    /\ noted' = [noted EXCEPT ![c] = work[c].lf]
    /\ work' = [work EXCEPT ![c].tree = Kept(@)]
    /\ fresh' = [fresh EXCEPT ![c] = TRUE]
    /\ Goto(c, "own")
    /\ UNCHANGED <<head, todo, edits, history>>

CopyOwn(c) ==
    /\ pc[c] = "own"
    /\ Put(c, "cxx_own", <<"own", work[c].own>>)
    /\ Goto(c, "lf")
    /\ UNCHANGED <<head, todo, noted, fresh, edits, history>>

CopyLongfellow(c) ==
    /\ pc[c] = "lf"
    /\ Put(c, "cxx_lf", <<"lf", work[c].lf>>)
    /\ Goto(c, "closure")
    /\ UNCHANGED <<head, todo, noted, fresh, edits, history>>

(* clang++ -MM, on the copies that were just made, with the headers of the *)
(* submodule as it is by now.                                              *)
FindHeaders(c) ==
    /\ pc[c] = "closure"
    /\ \E own \in Own, cc \in Revisions :
        /\ work[c].tree["cxx_own"] = <<"own", own>>
        /\ work[c].tree["cxx_lf"] = <<"lf", cc>>
        /\ todo' = [todo EXCEPT ![c] = Needs[own][cc][work[c].lf]]
    /\ Goto(c, "headers")
    /\ UNCHANGED <<work, head, noted, fresh, edits, history>>

CopyHeader(c) ==
    /\ pc[c] = "headers"
    /\ \E h \in todo[c] :
        /\ Put(c, h, <<"lf", Text[work[c].lf][h], "as is">>)
        /\ todo' = [todo EXCEPT ![c] = @ \ {h}]
    /\ UNCHANGED <<head, pc, noted, fresh, edits, history>>

(* git apply, which fails where it finds other lines than it expects.      *)
ApplyPatch(c) ==
    /\ pc[c] = "headers"
    /\ todo[c] = {}
    /\ \E lf \in Applies :
        /\ PatchFor \in DOMAIN work[c].tree
        /\ work[c].tree[PatchFor] = <<"lf", Text[lf][PatchFor], "as is">>
        /\ Put(c, PatchFor, HeaderOf(lf, PatchFor))
    /\ Goto(c, "provenance")
    /\ UNCHANGED <<head, todo, noted, fresh, edits, history>>

WriteProvenance(c) ==
    /\ pc[c] = "provenance"
    /\ Put(c, "PROVENANCE.md",
           Provenance(c, noted[c], DOMAIN work[c].tree \cap Headers))
    /\ Goto(c, IF c = "ci" THEN "diff" ELSE "idle")
    /\ noted' = [noted EXCEPT ![c] = "none"]
    /\ UNCHANGED <<head, todo, fresh, edits, history>>

(* Killed, or a command failed.                                            *)
Stops(c) ==
    /\ pc[c] # "idle"
    /\ Goto(c, "idle")
    /\ todo' = [todo EXCEPT ![c] = {}]
    /\ noted' = [noted EXCEPT ![c] = "none"]
    /\ fresh' = [fresh EXCEPT ![c] = FALSE]
    /\ work' = IF c = "ci" THEN [work EXCEPT ![c] = NoCheckout] ELSE work
    /\ head' = IF c = "ci" THEN [head EXCEPT ![c] = NoCheckout] ELSE head
    /\ UNCHANGED <<edits, history>>

Sync(c) ==
    \/ Wipe(c)
    \/ CopyOwn(c)
    \/ CopyLongfellow(c)
    \/ FindHeaders(c)
    \/ CopyHeader(c)
    \/ ApplyPatch(c)
    \/ WriteProvenance(c)
    \/ Stops(c)

(* Other sources, another revision, or a change to a copy.                 *)
Edit ==
    /\ edits < MaxEdits
    /\ edits' = edits + 1
    /\ \/ \E own \in Own :
            work' = [work EXCEPT !["developer"].own = own]
       \/ \E lf \in Revisions :
            work' = [work EXCEPT !["developer"].lf = lf]
       \/ \E f \in DOMAIN work["developer"].tree \cap Headers :
            Put("developer", f, <<"lf", "by hand", "as is">>)
    /\ work' # work
    /\ fresh' = [fresh EXCEPT !["developer"] = FALSE]
    /\ UNCHANGED <<head, script, history>>

(* git commit of some paths, or -a; git add for files that are new.        *)
TreeOf(parts, mine, old) ==
    LET changed == "bindings/go" \in parts
        kept == IF changed THEN DOMAIN old \cap DOMAIN mine ELSE DOMAIN old
        added == IF "new files" \in parts THEN DOMAIN mine \ DOMAIN old ELSE {}
    IN  [f \in kept \cup added |->
            IF changed \/ f \in added THEN mine[f] ELSE old[f]]

CommitOf(parts, mine, old) ==
    [own |-> IF "own" \in parts THEN mine.own ELSE old.own,
     lf |-> IF "lf" \in parts THEN mine.lf ELSE old.lf,
     tree |-> TreeOf(parts, mine.tree, old.tree)]

Commit ==
    /\ Cardinality(commits) < MaxCommits
    /\ \E parts \in SUBSET {"own", "lf", "bindings/go", "new files"} :
       \E new \in {CommitOf(parts, work["developer"], head["developer"])} :
        /\ head' = [head EXCEPT !["developer"] = new]
        /\ commits' = commits \cup {new}
        /\ whole' = IF /\ fresh["developer"]
                       /\ pc["developer"] = "idle"
                       /\ {"own", "lf", "bindings/go", "new files"} = parts
                    THEN whole \cup {new} ELSE whole
    /\ UNCHANGED <<work, script, fresh, edits, green, red>>

(* The job checks out a commit,                                            *)
Checkout ==
    /\ pc = [c \in Clones |-> "idle"]
    /\ \E commit \in commits \ (green \cup red) :
        /\ head' = [head EXCEPT !["ci"] = commit]
        /\ work' = [work EXCEPT !["ci"] = commit]
    /\ Goto("ci", "checked out")
    /\ UNCHANGED <<todo, noted, fresh, edits, history>>

ChangedOnly(tree, now) ==
    \A f \in DOMAIN tree \cap DOMAIN now : now[f] = tree[f]

(* git diff --exit-code looks at tracked files, deleted ones included.     *)
NoDiff(tree, now) ==
    /\ DOMAIN tree \subseteq DOMAIN now
    /\ \A f \in DOMAIN tree : now[f] = tree[f]

(* and asks for a difference after the script has run.                     *)
Diff ==
    /\ pc["ci"] = "diff"
    /\ IF NoDiff(head["ci"].tree, work["ci"].tree)
       THEN green' = green \cup {head["ci"]} /\ UNCHANGED red
       ELSE red' = red \cup {head["ci"]} /\ UNCHANGED green
    /\ Goto("ci", "idle")
    /\ work' = [work EXCEPT !["ci"] = NoCheckout]
    /\ head' = [head EXCEPT !["ci"] = NoCheckout]
    /\ fresh' = [fresh EXCEPT !["ci"] = FALSE]
    /\ UNCHANGED <<todo, noted, edits, commits, whole>>

Next ==
    \/ pc["ci"] = "idle" /\ (Edit \/ Commit \/ Sync("developer"))
    \/ Checkout
    \/ Sync("ci")
    \/ Diff

Spec == Init /\ [][Next]_vars

-----------------------------------------------------------------------------
(* sync-go-bindings.sh:46, "no stale files": a run that nobody disturbs    *)
(* leaves in bindings/go what the sources ask for and nothing else,        *)
(* whatever an earlier run that stopped, or an edit, had left there.       *)
SyncRepairs ==
    \A c \in Clones :
        (fresh[c] /\ pc[c] \in {"idle", "diff"}) =>
            work[c].tree = Vendored(c, work[c].own, work[c].lf)

(* ci.yml:35: a commit that passes has, of the copies it has at all, those *)
(* of its own sources and of its own submodule; it has none too many.      *)
GreenIsCurrent ==
    \A commit \in green :
        LET wanted == Vendored("ci", commit.own, commit.lf) IN
        /\ DOMAIN commit.tree \subseteq DOMAIN wanted
        /\ commit.tree = Restrict(wanted, DOMAIN commit.tree)

(* sync-go-bindings.sh:5, "Run after bumping the submodule or editing      *)
(* src/": whoever does, undisturbed, and commits everything, is not refused*)
(* for it, unless upstream has put a tag on the revision since.            *)
WholeSyncPasses == \A commit \in whole \cap red : commit.lf \in Tagged

(* sync-go-bindings.sh:5: "CI enforces no-drift".                          *)
NoDriftPasses ==
    \A commit \in green :
        commit.tree = Vendored("ci", commit.own, commit.lf)
=============================================================================

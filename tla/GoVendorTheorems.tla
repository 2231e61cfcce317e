-------------------------- MODULE GoVendorTheorems --------------------------
(***************************************************************************)
(* For all sources, revisions and headers, any edits and any number of     *)
(* commits: what the script leaves in bindings/go, and what a commit that  *)
(* CI lets pass can still lack.                                            *)
(***************************************************************************)
EXTENDS GoVendor, FiniteSetTheorems, TLAPS

Flat == {"cxx_own", "cxx_lf"}

(* How far the script has come, when nobody has disturbed it.              *)
OnCourse(c, where, w, left, lf) ==
    LET t == w.tree
        copied == DOMAIN t \ {"PROVENANCE.md"}
    IN  /\ where \in {"own", "lf", "closure", "headers", "provenance"} =>
            lf = w.lf
        /\ where = "own" => copied = {}
        /\ where = "lf" => copied = {"cxx_own"}
        /\ where = "closure" => copied = Flat
        /\ where = "headers" =>
            /\ copied = Flat \cup (Wanted(w.own, w.lf) \ left)
            /\ left \subseteq Wanted(w.own, w.lf)
            /\ Wanted(w.own, w.lf) \subseteq Headers
            /\ \A h \in Wanted(w.own, w.lf) \ left :
                t[h] = <<"lf", Text[w.lf][h], "as is">>
        /\ where = "provenance" =>
            /\ copied = Flat \cup Wanted(w.own, w.lf)
            /\ Wanted(w.own, w.lf) \subseteq Headers
            /\ \A h \in Wanted(w.own, w.lf) : t[h] = HeaderOf(w.lf, h)
        /\ where \in {"lf", "closure", "headers", "provenance"} =>
            t["cxx_own"] = <<"own", w.own>>
        /\ where \in {"closure", "headers", "provenance"} =>
            t["cxx_lf"] = <<"lf", w.lf>>
        /\ where \in {"idle", "diff"} => t = Vendored(c, w.own, w.lf)

Running == {"own", "lf", "closure", "headers", "provenance"}

(* A state of the sources and of bindings/go.                              *)
IsTree(w) ==
    /\ DOMAIN w = {"own", "lf", "tree"}
    /\ w.tree = [f \in DOMAIN w.tree |-> w.tree[f]]

(* What a commit is current in.                                            *)
Current(commit) ==
    LET wanted == Vendored("ci", commit.own, commit.lf) IN
    /\ DOMAIN commit.tree \subseteq DOMAIN wanted
    /\ commit.tree = Restrict(wanted, DOMAIN commit.tree)

FromWholeSync(commit) ==
    commit.tree = Vendored("developer", commit.own, commit.lf)

InCi ==
    /\ pc["ci"] \in Running \cup {"diff"} => fresh["ci"]
    /\ pc["ci"] \in {"idle", "checked out"} => ~fresh["ci"]
    /\ pc["ci"] # "idle" =>
        /\ IsTree(head["ci"])
        /\ work["ci"].own = head["ci"].own
        /\ work["ci"].lf = head["ci"].lf

IInv ==
    /\ DOMAIN work = Clones /\ DOMAIN head = Clones /\ DOMAIN todo = Clones
    /\ DOMAIN noted = Clones /\ DOMAIN fresh = Clones
    /\ pc \in [Clones -> Running \cup {"idle", "checked out", "diff"}]
    /\ pc["developer"] \in Running \cup {"idle"}
    /\ \A c \in Clones :
        /\ IsTree(work[c])
        /\ fresh[c] => OnCourse(c, pc[c], work[c], todo[c], noted[c])
    /\ IsTree(head["developer"])
    /\ InCi
    /\ \A commit \in commits : IsTree(commit)
    /\ \A commit \in green : Current(commit)
    /\ \A commit \in whole : FromWholeSync(commit)
    /\ \A commit \in red : FromWholeSync(commit) => commit.lf \in Tagged

-----------------------------------------------------------------------------
LEMMA VendoredIsTree ==
    ASSUME NEW c, NEW own, NEW lf
    PROVE  Vendored(c, own, lf) =
                [f \in DOMAIN Vendored(c, own, lf) |-> Vendored(c, own, lf)[f]]
BY DEF Vendored

LEMMA Initially == Init => IInv
<1> SUFFICES ASSUME Init  PROVE IInv
  OBVIOUS
<1>1. PICK own \in Own, lf \in Applies :
        work = [developer |-> [own |-> own, lf |-> lf,
                               tree |-> Vendored("developer", own, lf)],
                ci |-> NoCheckout]
  BY DEF Init
<1>2. IsTree(work["developer"]) /\ IsTree(work["ci"])
  <2>1. work["developer"].tree = Vendored("developer", own, lf)
    BY <1>1
  <2>2. IsTree(work["developer"])
    BY <1>1, <2>1, VendoredIsTree DEF IsTree
  <2> QED  BY <1>1, <2>2 DEF IsTree, NoCheckout
<1>3. /\ pc = [c \in Clones |-> "idle"]
      /\ fresh = [c \in Clones |-> FALSE]
      /\ todo = [c \in Clones |-> {}]
      /\ noted = [c \in Clones |-> "none"]
      /\ head = work
      /\ commits = {} /\ whole = {} /\ green = {} /\ red = {}
  BY DEF Init
<1>4. DOMAIN work = Clones
  BY <1>1 DEF Clones
<1> QED  BY <1>2, <1>3, <1>4 DEF IInv, InCi, Clones, Running

-----------------------------------------------------------------------------
(* A step of one clone's script.                                           *)
Elsewhere(c) ==
    \A d \in Clones \ {c} :
        /\ work'[d] = work[d] /\ head'[d] = head[d] /\ pc'[d] = pc[d]
        /\ todo'[d] = todo[d] /\ noted'[d] = noted[d] /\ fresh'[d] = fresh[d]

LEMMA ScriptStep ==
    ASSUME IInv, NEW c \in Clones, Elsewhere(c),
           UNCHANGED <<head, fresh, history>>,
           DOMAIN work' = Clones, DOMAIN todo' = Clones,
           DOMAIN noted' = Clones,
           NEW where, Goto(c, where), pc[c] \in Running,
           where \in Running \/ where = IF c = "ci" THEN "diff" ELSE "idle",
           IsTree(work'[c]),
           work'[c].own = work[c].own, work'[c].lf = work[c].lf,
           fresh[c] => OnCourse(c, where, work'[c], todo'[c], noted'[c])
    PROVE  IInv'
<1>1. /\ pc'[c] = where
      /\ pc' \in [Clones -> Running \cup {"idle", "checked out", "diff"}]
      /\ pc'["developer"] \in Running \cup {"idle"}
  BY DEF Goto, IInv, Clones
<1>2. \A d \in Clones :
        /\ IsTree(work'[d])
        /\ fresh'[d] => OnCourse(d, pc'[d], work'[d], todo'[d], noted'[d])
  BY <1>1 DEF Elsewhere, IInv
<1>3. InCi'
  BY <1>1 DEF Elsewhere, InCi, IInv, Running, Clones
<1> QED  BY <1>1, <1>2, <1>3 DEF IInv, history, Current, FromWholeSync

(* Writing one file.                                                       *)
LEMMA PutFile ==
    ASSUME IInv, NEW c \in Clones, NEW file, NEW text, Put(c, file, text)
    PROVE  /\ DOMAIN work' = Clones
           /\ \A d \in Clones \ {c} : work'[d] = work[d]
           /\ IsTree(work'[c])
           /\ work'[c].own = work[c].own /\ work'[c].lf = work[c].lf
           /\ DOMAIN work'[c].tree = DOMAIN work[c].tree \cup {file}
           /\ work'[c].tree[file] = text
           /\ \A f \in DOMAIN work[c].tree \ {file} :
                work'[c].tree[f] = work[c].tree[f]
<1> DEFINE t == With(work[c].tree, file, text)
<1>1. /\ DOMAIN t = DOMAIN work[c].tree \cup {file}
      /\ t = [f \in DOMAIN t |-> t[f]]
      /\ t[file] = text
      /\ \A f \in DOMAIN work[c].tree \ {file} : t[f] = work[c].tree[f]
  BY DEF With
<1> HIDE DEF t
<1>2. /\ DOMAIN work = Clones /\ DOMAIN work[c] = {"own", "lf", "tree"}
      /\ work' = [work EXCEPT ![c].tree = t]
  BY DEF IInv, IsTree, Put, t
<1>3. /\ DOMAIN work' = Clones
      /\ \A d \in Clones \ {c} : work'[d] = work[d]
      /\ work'[c] = [work[c] EXCEPT !.tree = t]
  BY <1>2
<1>4. /\ DOMAIN work'[c] = {"own", "lf", "tree"} /\ work'[c].tree = t
      /\ work'[c].own = work[c].own /\ work'[c].lf = work[c].lf
  BY <1>2, <1>3
<1> QED  BY <1>1, <1>3, <1>4 DEF IsTree

LEMMA WipeStep ==
    ASSUME IInv, NEW c \in Clones, Wipe(c)  PROVE IInv'
<1> DEFINE kept == Kept(work[c].tree)
<1>1. /\ pc[c] = IF c = "ci" THEN "checked out" ELSE "idle"
      /\ noted' = [noted EXCEPT ![c] = work[c].lf]
      /\ work' = [work EXCEPT ![c].tree = kept]
      /\ fresh' = [fresh EXCEPT ![c] = TRUE]
      /\ pc' = [pc EXCEPT ![c] = "own"]
      /\ UNCHANGED <<head, todo, history>>
  BY DEF Wipe, Goto
<1>2. /\ DOMAIN kept \subseteq {"PROVENANCE.md"}
      /\ kept = [f \in DOMAIN kept |-> kept[f]]
  BY DEF Kept, Restrict
<1> HIDE DEF kept
<1>3. DOMAIN work = Clones /\ DOMAIN work[c] = {"own", "lf", "tree"}
  BY DEF IInv, IsTree
<1>4. /\ DOMAIN work' = Clones
      /\ \A d \in Clones \ {c} : work'[d] = work[d]
      /\ work'[c] = [work[c] EXCEPT !.tree = kept]
  BY <1>1, <1>3
<1>5. /\ DOMAIN work'[c] = {"own", "lf", "tree"} /\ work'[c].tree = kept
      /\ work'[c].own = work[c].own /\ work'[c].lf = work[c].lf
  BY <1>3, <1>4
<1>6. /\ pc'[c] = "own" /\ fresh'[c] /\ noted'[c] = work[c].lf
      /\ DOMAIN noted' = Clones /\ DOMAIN fresh' = Clones
      /\ \A d \in Clones \ {c} :
            pc'[d] = pc[d] /\ fresh'[d] = fresh[d] /\ noted'[d] = noted[d]
      /\ pc' \in [Clones -> Running \cup {"idle", "checked out", "diff"}]
  BY <1>1 DEF IInv, Running
<1>7. OnCourse(c, "own", work'[c], todo'[c], noted'[c])
  BY <1>2, <1>5, <1>6 DEF OnCourse
<1>8. ASSUME NEW d \in Clones
      PROVE  /\ IsTree(work'[d])
             /\ fresh'[d] => OnCourse(d, pc'[d], work'[d], todo'[d], noted'[d])
  <2>1. CASE d = c
    <3>1. IsTree(work'[c])
      BY <1>2, <1>5 DEF IsTree
    <3> QED  BY <1>6, <1>7, <2>1, <3>1
  <2>2. CASE d # c
    <3>1. /\ work'[d] = work[d] /\ pc'[d] = pc[d] /\ fresh'[d] = fresh[d]
          /\ todo'[d] = todo[d] /\ noted'[d] = noted[d]
      BY <1>1, <1>4, <1>6, <2>2
    <3> QED  BY <3>1 DEF IInv
  <2> QED  BY <2>1, <2>2
<1>9. InCi' /\ pc'["developer"] \in Running \cup {"idle"}
  BY <1>1, <1>4, <1>5, <1>6 DEF IInv, InCi, Clones, Running
<1> QED
  BY <1>1, <1>4, <1>6, <1>8, <1>9 DEF IInv, history, Current, FromWholeSync

LEMMA CopyOwnStep ==
    ASSUME IInv, NEW c \in Clones, CopyOwn(c)  PROVE IInv'
<1>1. /\ pc[c] = "own" /\ Put(c, "cxx_own", <<"own", work[c].own>>)
      /\ Goto(c, "lf") /\ UNCHANGED <<head, todo, noted, fresh, history>>
  BY DEF CopyOwn
<1>2. Elsewhere(c)
  BY <1>1, PutFile DEF Elsewhere, Goto, IInv
<1>3. ASSUME fresh[c]
      PROVE  OnCourse(c, "lf", work'[c], todo'[c], noted'[c])
  <2>1. OnCourse(c, "own", work[c], todo[c], noted[c])
    BY <1>1, <1>3 DEF IInv
  <2>2. /\ DOMAIN work'[c].tree = DOMAIN work[c].tree \cup {"cxx_own"}
        /\ work'[c].tree["cxx_own"] = <<"own", work'[c].own>>
        /\ noted'[c] = noted[c] /\ work'[c].lf = work[c].lf
    BY <1>1, PutFile
  <2>3. DOMAIN work'[c].tree \ {"PROVENANCE.md"} = {"cxx_own"}
    BY <2>1, <2>2 DEF OnCourse
  <2>4. noted'[c] = work'[c].lf
    BY <2>1, <2>2 DEF OnCourse
  <2> QED  BY <2>2, <2>3, <2>4 DEF OnCourse
<1> QED  BY <1>1, <1>2, <1>3, PutFile, ScriptStep DEF IInv, Running

LEMMA CopyLongfellowStep ==
    ASSUME IInv, NEW c \in Clones, CopyLongfellow(c)  PROVE IInv'
<1>1. /\ pc[c] = "lf" /\ Put(c, "cxx_lf", <<"lf", work[c].lf>>)
      /\ Goto(c, "closure") /\ UNCHANGED <<head, todo, noted, fresh, history>>
  BY DEF CopyLongfellow
<1>2. Elsewhere(c)
  BY <1>1, PutFile DEF Elsewhere, Goto, IInv
<1>3. ASSUME fresh[c]
      PROVE  OnCourse(c, "closure", work'[c], todo'[c], noted'[c])
  <2>1. OnCourse(c, "lf", work[c], todo[c], noted[c])
    BY <1>1, <1>3 DEF IInv
  <2>2. /\ DOMAIN work'[c].tree = DOMAIN work[c].tree \cup {"cxx_lf"}
        /\ work'[c].tree["cxx_lf"] = <<"lf", work'[c].lf>>
        /\ \A f \in DOMAIN work[c].tree \ {"cxx_lf"} :
                work'[c].tree[f] = work[c].tree[f]
        /\ noted'[c] = noted[c] /\ work'[c].lf = work[c].lf
        /\ work'[c].own = work[c].own
    BY <1>1, PutFile
  <2>3. DOMAIN work'[c].tree \ {"PROVENANCE.md"} = Flat
    BY <2>1, <2>2 DEF OnCourse, Flat
  <2>4. /\ noted'[c] = work'[c].lf
        /\ "cxx_own" \in DOMAIN work[c].tree \ {"cxx_lf"}
        /\ work[c].tree["cxx_own"] = <<"own", work[c].own>>
    BY <2>1, <2>2 DEF OnCourse
  <2>5. work'[c].tree["cxx_own"] = <<"own", work'[c].own>>
    BY <2>2, <2>4
  <2> QED  BY <2>2, <2>3, <2>4, <2>5 DEF OnCourse
<1> QED  BY <1>1, <1>2, <1>3, PutFile, ScriptStep DEF IInv, Running

LEMMA FindHeadersStep ==
    ASSUME IInv, NEW c \in Clones, FindHeaders(c)  PROVE IInv'
<1> DEFINE lf == work[c].lf
<1>1. PICK own \in Own, cc \in Revisions :
        /\ work[c].tree["cxx_own"] = <<"own", own>>
        /\ work[c].tree["cxx_lf"] = <<"lf", cc>>
        /\ todo' = [todo EXCEPT ![c] = Needs[own][cc][lf]]
  BY DEF FindHeaders
<1>2. /\ pc[c] = "closure" /\ Goto(c, "headers")
      /\ UNCHANGED <<work, head, noted, fresh, history>>
  BY DEF FindHeaders
<1>3. /\ todo'[c] = Needs[own][cc][lf] /\ DOMAIN todo' = Clones
      /\ \A d \in Clones \ {c} : todo'[d] = todo[d]
  BY <1>1 DEF IInv
<1>4. Elsewhere(c)
  BY <1>2, <1>3 DEF Elsewhere, Goto, IInv
<1>5. fresh[c] => OnCourse(c, "headers", work'[c], todo'[c], noted'[c])
  <2> SUFFICES ASSUME fresh[c]
               PROVE  OnCourse(c, "headers", work[c], todo'[c], noted[c])
    BY <1>2
  <2>1. OnCourse(c, "closure", work[c], todo[c], noted[c])
    BY <1>2 DEF IInv
  <2>2. own = work[c].own /\ cc = lf
    BY <1>1, <2>1 DEF OnCourse
  <2>3. /\ todo'[c] = Wanted(work[c].own, work[c].lf)
        /\ todo'[c] \subseteq Headers
    BY <1>3, <2>2, NameAssumption DEF Wanted
  <2> HIDE DEF lf
  <2> QED  BY <2>1, <2>3 DEF OnCourse
<1> QED  BY <1>2, <1>3, <1>4, <1>5, ScriptStep DEF IInv, Running

LEMMA CopyHeaderStep ==
    ASSUME IInv, NEW c \in Clones, CopyHeader(c)  PROVE IInv'
<1>1. PICK h \in todo[c] :
        /\ Put(c, h, <<"lf", Text[work[c].lf][h], "as is">>)
        /\ todo' = [todo EXCEPT ![c] = @ \ {h}]
  BY DEF CopyHeader
<1>2. /\ pc[c] = "headers" /\ Goto(c, "headers")
      /\ UNCHANGED <<head, noted, fresh, history>>
  BY DEF CopyHeader, Goto, IInv
<1>3. /\ todo'[c] = todo[c] \ {h} /\ DOMAIN todo' = Clones
      /\ \A d \in Clones \ {c} : todo'[d] = todo[d]
  BY <1>1 DEF IInv
<1>4. Elsewhere(c)
  BY <1>1, <1>2, <1>3, PutFile DEF Elsewhere, Goto, IInv
<1>5. fresh[c] => OnCourse(c, "headers", work'[c], todo'[c], noted'[c])
  <2> SUFFICES ASSUME fresh[c]
               PROVE  OnCourse(c, "headers", work'[c], todo'[c], noted'[c])
    OBVIOUS
  <2>1. OnCourse(c, "headers", work[c], todo[c], noted[c])
    BY <1>2 DEF IInv
  <2>2. h \notin {"cxx_own", "cxx_lf", "PROVENANCE.md"}
    BY <1>1, <2>1, NameAssumption DEF OnCourse
  <2> DEFINE own == work[c].own
             lf == work[c].lf
             t == work[c].tree
             u == work'[c].tree
             needed == Wanted(own, lf)
  <2>3. /\ DOMAIN u = DOMAIN t \cup {h}
        /\ u[h] = <<"lf", Text[lf][h], "as is">>
        /\ \A f \in DOMAIN t \ {h} : u[f] = t[f]
        /\ noted'[c] = noted[c] /\ work'[c].lf = lf /\ work'[c].own = own
        /\ todo'[c] = todo[c] \ {h}
    <3> DEFINE text == <<"lf", Text[work[c].lf][h], "as is">>
    <3>1. Put(c, h, text)
      BY <1>1
    <3> HIDE DEF text
    <3>2. /\ DOMAIN u = DOMAIN t \cup {h}
          /\ u[h] = text
          /\ \A f \in DOMAIN t \ {h} : u[f] = t[f]
          /\ work'[c].lf = lf /\ work'[c].own = own
      BY <3>1, PutFile
    <3>3. u[h] = <<"lf", Text[lf][h], "as is">>
      BY <3>2 DEF text
    <3> QED  BY <1>2, <1>3, <3>2, <3>3
  <2>4. /\ DOMAIN t \ {"PROVENANCE.md"} = Flat \cup (needed \ todo[c])
        /\ todo[c] \subseteq needed /\ needed \subseteq Headers
        /\ \A f \in needed \ todo[c] : t[f] = <<"lf", Text[lf][f], "as is">>
        /\ t["cxx_own"] = <<"own", own>> /\ t["cxx_lf"] = <<"lf", lf>>
        /\ noted[c] = lf
    BY <2>1 DEF OnCourse
  <2> HIDE DEF own, lf, t, u, needed
  <2>5. /\ DOMAIN u \ {"PROVENANCE.md"} = Flat \cup (needed \ todo'[c])
        /\ todo'[c] \subseteq needed
    <3>1. /\ h \in todo[c] /\ h # "PROVENANCE.md"
          /\ DOMAIN u = DOMAIN t \cup {h} /\ todo'[c] = todo[c] \ {h}
          /\ DOMAIN t \ {"PROVENANCE.md"} = Flat \cup (needed \ todo[c])
          /\ todo[c] \subseteq needed
      BY <1>1, <2>2, <2>3, <2>4
    <3>2. DOMAIN u \ {"PROVENANCE.md"} = (DOMAIN t \ {"PROVENANCE.md"}) \cup {h}
      BY <3>1
    <3>3. needed \ todo'[c] = (needed \ todo[c]) \cup {h}
      BY <3>1
    <3> QED  BY <3>1, <3>2, <3>3
  <2>6. ASSUME NEW f \in needed \ todo'[c]
        PROVE  u[f] = <<"lf", Text[lf][f], "as is">>
    <3>1. CASE f = h
      BY <2>3, <3>1
    <3>2. CASE f # h
      <4>1. f \in needed \ todo[c] /\ f \in DOMAIN t \ {h}
        BY <2>3, <2>4, <2>6, <3>2, NameAssumption
      <4> QED  BY <2>3, <2>4, <4>1
    <3> QED  BY <3>1, <3>2
  <2>7. u["cxx_own"] = <<"own", own>> /\ u["cxx_lf"] = <<"lf", lf>>
    <3>1. "cxx_own" \in DOMAIN t \ {h} /\ "cxx_lf" \in DOMAIN t \ {h}
      BY <2>2, <2>4 DEF Flat
    <3> QED  BY <2>3, <2>4, <3>1
  <2> QED  BY <2>3, <2>4, <2>5, <2>6, <2>7 DEF OnCourse, own, lf, u, needed
<1> QED  BY <1>1, <1>2, <1>3, <1>4, <1>5, PutFile, ScriptStep DEF IInv, Running

LEMMA ApplyPatchStep ==
    ASSUME IInv, NEW c \in Clones, ApplyPatch(c)  PROVE IInv'
<1>1. PICK lf \in Applies :
        /\ PatchFor \in DOMAIN work[c].tree
        /\ work[c].tree[PatchFor] = <<"lf", Text[lf][PatchFor], "as is">>
        /\ Put(c, PatchFor, HeaderOf(lf, PatchFor))
  BY DEF ApplyPatch
<1>2. /\ pc[c] = "headers" /\ todo[c] = {} /\ Goto(c, "provenance")
      /\ UNCHANGED <<head, todo, noted, fresh, history>>
  BY DEF ApplyPatch
<1>3. Elsewhere(c)
  BY <1>1, <1>2, PutFile DEF Elsewhere, Goto, IInv
<1>4. ASSUME fresh[c]
      PROVE  OnCourse(c, "provenance", work'[c], todo'[c], noted'[c])
  <2> DEFINE own == work[c].own
             rev == work[c].lf
             t == work[c].tree
             u == work'[c].tree
             text == HeaderOf(lf, PatchFor)
  <2>1. /\ DOMAIN t \ {"PROVENANCE.md"} = Flat \cup Wanted(own, rev)
        /\ Wanted(own, rev) \subseteq Headers
        /\ \A f \in Wanted(own, rev) : t[f] = <<"lf", Text[rev][f], "as is">>
        /\ t["cxx_own"] = <<"own", own>> /\ t["cxx_lf"] = <<"lf", rev>>
        /\ noted[c] = rev
    <3>1. OnCourse(c, "headers", work[c], {}, noted[c])
      BY <1>2, <1>4 DEF IInv
    <3> QED  BY <3>1 DEF OnCourse
  <2>2. /\ DOMAIN u = DOMAIN t \cup {PatchFor}
        /\ u[PatchFor] = text
        /\ \A f \in DOMAIN t \ {PatchFor} : u[f] = t[f]
        /\ work'[c].lf = rev /\ work'[c].own = own
    <3>1. Put(c, PatchFor, text)
      BY <1>1
    <3> HIDE DEF text
    <3> QED  BY <3>1, PutFile
  <2>3. /\ PatchFor \in DOMAIN t
        /\ t[PatchFor] = <<"lf", Text[lf][PatchFor], "as is">>
    BY <1>1
  <2> HIDE DEF own, rev, t, u
  <2>4. PatchFor \notin {"cxx_own", "cxx_lf", "PROVENANCE.md"}
    BY NameAssumption
  <2>5. PatchFor \in Wanted(own, rev)
    BY <2>1, <2>3, <2>4 DEF Flat
  <2>6. u[PatchFor] = HeaderOf(rev, PatchFor)
    <3>1. <<"lf", Text[lf][PatchFor], "as is">>
                = <<"lf", Text[rev][PatchFor], "as is">>
      BY <2>1, <2>3, <2>5
    <3>2. Text[lf][PatchFor] = Text[rev][PatchFor]
      BY <3>1
    <3> QED  BY <2>2, <3>2 DEF HeaderOf
  <2>7. ASSUME NEW f \in Wanted(own, rev)  PROVE u[f] = HeaderOf(rev, f)
    <3>1. CASE f = PatchFor
      BY <2>6, <3>1
    <3>2. CASE f # PatchFor
      <4>1. f \in DOMAIN t \ {PatchFor}
        BY <2>1, <3>2
      <4> QED  BY <2>1, <2>2, <3>2, <4>1 DEF HeaderOf
    <3> QED  BY <3>1, <3>2
  <2>8. DOMAIN u \ {"PROVENANCE.md"} = Flat \cup Wanted(own, rev)
    BY <2>1, <2>2, <2>3
  <2>9. u["cxx_own"] = <<"own", own>> /\ u["cxx_lf"] = <<"lf", rev>>
    <3>1. {"cxx_own", "cxx_lf"} \subseteq DOMAIN t \ {PatchFor}
      BY <2>1, <2>4 DEF Flat
    <3> QED  BY <2>1, <2>2, <3>1
  <2> QED
    BY <1>2, <2>1, <2>2, <2>7, <2>8, <2>9 DEF OnCourse, own, rev, u
<1> QED  BY <1>1, <1>2, <1>3, <1>4, PutFile, ScriptStep DEF IInv, Running

LEMMA WriteProvenanceStep ==
    ASSUME IInv, NEW c \in Clones, WriteProvenance(c)  PROVE IInv'
<1> DEFINE text == Provenance(c, noted[c], DOMAIN work[c].tree \cap Headers)
           after == IF c = "ci" THEN "diff" ELSE "idle"
<1>1. /\ pc[c] = "provenance" /\ Put(c, "PROVENANCE.md", text)
      /\ Goto(c, after) /\ noted' = [noted EXCEPT ![c] = "none"]
      /\ UNCHANGED <<head, todo, fresh, history>>
  BY DEF WriteProvenance
<1>2. ASSUME fresh[c]
      PROVE  OnCourse(c, after, work'[c], todo'[c], noted'[c])
  <2> DEFINE own == work[c].own
             lf == work[c].lf
             t == work[c].tree
             u == work'[c].tree
             wanted == Vendored(c, own, lf)
  <2>1. /\ DOMAIN t \ {"PROVENANCE.md"} = Flat \cup Wanted(own, lf)
        /\ Wanted(own, lf) \subseteq Headers
        /\ \A f \in Wanted(own, lf) : t[f] = HeaderOf(lf, f)
        /\ t["cxx_own"] = <<"own", own>> /\ t["cxx_lf"] = <<"lf", lf>>
        /\ noted[c] = lf
    <3>1. OnCourse(c, "provenance", work[c], todo[c], noted[c])
      BY <1>1, <1>2 DEF IInv
    <3> QED  BY <3>1 DEF OnCourse
  <2>2. text = Provenance(c, lf, Wanted(own, lf))
    <3>1. DOMAIN t \cap Headers = Wanted(own, lf)
      BY <2>1, NameAssumption DEF Flat
    <3> QED  BY <2>1, <3>1
  <2>3. /\ DOMAIN u = DOMAIN t \cup {"PROVENANCE.md"}
        /\ u["PROVENANCE.md"] = text
        /\ \A f \in DOMAIN t \ {"PROVENANCE.md"} : u[f] = t[f]
        /\ work'[c].lf = lf /\ work'[c].own = own
        /\ u = [f \in DOMAIN u |-> u[f]]
    <3> HIDE DEF text
    <3> QED  BY <1>1, PutFile DEF IsTree
  <2> HIDE DEF own, lf, t, u, text
  <2>4. DOMAIN u = {"cxx_own", "cxx_lf", "PROVENANCE.md"} \cup Wanted(own, lf)
    BY <2>1, <2>3 DEF Flat
  <2>5. /\ DOMAIN wanted = DOMAIN u
        /\ wanted = [f \in DOMAIN wanted |-> wanted[f]]
    BY <2>4, VendoredIsTree DEF Vendored
  <2>6. ASSUME NEW f \in DOMAIN u  PROVE u[f] = wanted[f]
    <3>1. CASE f = "cxx_own"
      BY <2>1, <2>3, <2>4, <3>1 DEF Vendored, Flat
    <3>2. CASE f = "cxx_lf"
      BY <2>1, <2>3, <2>4, <3>2 DEF Vendored, Flat
    <3>3. CASE f = "PROVENANCE.md"
      BY <2>2, <2>3, <2>4, <3>3 DEF Vendored
    <3>4. CASE f \notin {"cxx_own", "cxx_lf", "PROVENANCE.md"}
      <4>1. f \in Wanted(own, lf) /\ f \in DOMAIN t \ {"PROVENANCE.md"}
        BY <2>1, <2>4, <3>4
      <4>2. u[f] = HeaderOf(lf, f)
        BY <2>1, <2>3, <4>1
      <4>3. wanted[f] = HeaderOf(lf, f)
        BY <2>4, <3>4 DEF Vendored
      <4> QED  BY <4>2, <4>3
    <3> QED  BY <3>1, <3>2, <3>3, <3>4
  <2> HIDE DEF wanted
  <2>7. u = wanted
    BY <2>3, <2>5, <2>6
  <2> QED  BY <2>3, <2>7 DEF OnCourse, own, lf, u, wanted
<1> HIDE DEF text
<1>3. noted'[c] = "none" /\ DOMAIN noted' = Clones
  BY <1>1 DEF IInv
<1>4. Elsewhere(c)
  BY <1>1, PutFile DEF Elsewhere, Goto, IInv
<1> QED  BY <1>1, <1>2, <1>3, <1>4, PutFile, ScriptStep DEF IInv, Running

LEMMA StopsStep ==
    ASSUME IInv, NEW c \in Clones, Stops(c)  PROVE IInv'
<1>1. /\ pc[c] # "idle" /\ pc' = [pc EXCEPT ![c] = "idle"]
      /\ todo' = [todo EXCEPT ![c] = {}]
      /\ noted' = [noted EXCEPT ![c] = "none"]
      /\ fresh' = [fresh EXCEPT ![c] = FALSE]
      /\ work' = IF c = "ci" THEN [work EXCEPT ![c] = NoCheckout] ELSE work
      /\ head' = IF c = "ci" THEN [head EXCEPT ![c] = NoCheckout] ELSE head
      /\ UNCHANGED history
  BY DEF Stops, Goto
<1>2. IsTree(NoCheckout)
  BY DEF IsTree, NoCheckout
<1>3. /\ pc'[c] = "idle" /\ ~fresh'[c]
      /\ \A d \in Clones \ {c} :
            /\ work'[d] = work[d] /\ head'[d] = head[d] /\ pc'[d] = pc[d]
            /\ todo'[d] = todo[d] /\ noted'[d] = noted[d]
            /\ fresh'[d] = fresh[d]
      /\ DOMAIN work' = Clones /\ DOMAIN head' = Clones
      /\ DOMAIN todo' = Clones /\ DOMAIN noted' = Clones
      /\ DOMAIN fresh' = Clones
      /\ pc' \in [Clones -> Running \cup {"idle", "checked out", "diff"}]
  BY <1>1 DEF IInv
<1>4. IsTree(work'[c])
  BY <1>1, <1>2 DEF IInv
<1>5. \A d \in Clones :
        /\ IsTree(work'[d])
        /\ fresh'[d] => OnCourse(d, pc'[d], work'[d], todo'[d], noted'[d])
  BY <1>3, <1>4 DEF IInv
<1>6. head'["developer"] = head["developer"]
  BY <1>1, <1>3 DEF Clones
<1>7. InCi'
  BY <1>3 DEF IInv, InCi, Clones, Running
<1>8. pc'["developer"] \in Running \cup {"idle"}
  BY <1>3 DEF IInv, Clones
<1> QED
  BY <1>1, <1>3, <1>5, <1>6, <1>7, <1>8
     DEF IInv, history, Current, FromWholeSync

LEMMA EditStep ==
    ASSUME IInv, pc["ci"] = "idle", Edit  PROVE IInv'
<1>1. /\ fresh' = [fresh EXCEPT !["developer"] = FALSE]
      /\ UNCHANGED <<head, pc, todo, noted, history>>
  BY DEF Edit, script
<1> DEFINE Untouched ==
        /\ DOMAIN work' = Clones
        /\ \A d \in Clones \ {"developer"} : work'[d] = work[d]
        /\ IsTree(work'["developer"])
<1>2. Untouched
  <2>1. ASSUME NEW own \in Own,
               work' = [work EXCEPT !["developer"].own = own]
        PROVE  Untouched
    <3>1. /\ DOMAIN work = Clones
          /\ IsTree(work["developer"])
      BY DEF IInv, Clones
    <3>2. /\ DOMAIN work' = Clones
          /\ \A d \in Clones \ {"developer"} : work'[d] = work[d]
          /\ work'["developer"] = [work["developer"] EXCEPT !.own = own]
      BY <2>1, <3>1 DEF Clones
    <3>3. /\ DOMAIN work'["developer"] = {"own", "lf", "tree"}
          /\ work'["developer"].tree = work["developer"].tree
      BY <3>1, <3>2 DEF IsTree
    <3> QED  BY <3>1, <3>2, <3>3 DEF IsTree
  <2>2. ASSUME NEW lf \in Revisions,
               work' = [work EXCEPT !["developer"].lf = lf]
        PROVE  Untouched
    <3>1. /\ DOMAIN work = Clones
          /\ IsTree(work["developer"])
      BY DEF IInv, Clones
    <3>2. /\ DOMAIN work' = Clones
          /\ \A d \in Clones \ {"developer"} : work'[d] = work[d]
          /\ work'["developer"] = [work["developer"] EXCEPT !.lf = lf]
      BY <2>2, <3>1 DEF Clones
    <3>3. /\ DOMAIN work'["developer"] = {"own", "lf", "tree"}
          /\ work'["developer"].tree = work["developer"].tree
      BY <3>1, <3>2 DEF IsTree
    <3> QED  BY <3>1, <3>2, <3>3 DEF IsTree
  <2>3. ASSUME NEW f, Put("developer", f, <<"lf", "by hand", "as is">>)
        PROVE  Untouched
    <3> DEFINE text == <<"lf", "by hand", "as is">>
    <3>1. Put("developer", f, text) /\ "developer" \in Clones
      BY <2>3 DEF Clones
    <3> HIDE DEF text
    <3> QED  BY <3>1, PutFile
  <2> QED  BY <2>1, <2>2, <2>3 DEF Edit
<1>3. /\ ~fresh'["developer"] /\ DOMAIN fresh' = Clones
      /\ fresh'["ci"] = fresh["ci"] /\ work'["ci"] = work["ci"]
  BY <1>1, <1>2 DEF IInv, Clones
<1>4. \A d \in Clones :
        /\ IsTree(work'[d])
        /\ fresh'[d] => OnCourse(d, pc'[d], work'[d], todo'[d], noted'[d])
  BY <1>1, <1>2, <1>3 DEF IInv, Clones
<1>5. InCi'
  BY <1>1, <1>3 DEF IInv, InCi
<1> QED
  BY <1>1, <1>2, <1>3, <1>4, <1>5 DEF IInv, history, Current, FromWholeSync

LEMMA CommitStep ==
    ASSUME IInv, Commit  PROVE IInv'
<1> DEFINE all == {"own", "lf", "bindings/go", "new files"}
           mine == work["developer"]
           old == head["developer"]
<1>1. PICK parts \in SUBSET all :
       \E new \in {CommitOf(parts, mine, old)} :
        /\ head' = [head EXCEPT !["developer"] = new]
        /\ commits' = commits \cup {new}
        /\ whole' = IF /\ fresh["developer"]
                       /\ pc["developer"] = "idle"
                       /\ all = parts
                    THEN whole \cup {new} ELSE whole
  BY DEF Commit
<1> DEFINE new == CommitOf(parts, mine, old)
<1>2. /\ head' = [head EXCEPT !["developer"] = new]
      /\ commits' = commits \cup {new}
      /\ whole' = IF /\ fresh["developer"]
                     /\ pc["developer"] = "idle"
                     /\ all = parts
                  THEN whole \cup {new} ELSE whole
  BY <1>1
<1>3. UNCHANGED <<work, pc, todo, noted, fresh, green, red>>
  BY DEF Commit, script
<1>4. IsTree(new)
  BY DEF IsTree, CommitOf, TreeOf
<1>5. ASSUME fresh["developer"], pc["developer"] = "idle", all = parts
      PROVE  FromWholeSync(new)
  <2>1. /\ mine.tree = Vendored("developer", mine.own, mine.lf)
        /\ mine.tree = [f \in DOMAIN mine.tree |-> mine.tree[f]]
    BY <1>5 DEF IInv, Clones, OnCourse, IsTree
  <2>2. new.own = mine.own /\ new.lf = mine.lf
        /\ new.tree = TreeOf(all, mine.tree, old.tree)
    BY <1>5 DEF CommitOf
  <2> DEFINE t == mine.tree
             o == old.tree
             n == TreeOf(all, t, o)
  <2>3. n = [f \in (DOMAIN o \cap DOMAIN t) \cup (DOMAIN t \ DOMAIN o) |-> t[f]]
    BY DEF TreeOf
  <2> HIDE DEF mine, old, t, o, n
  <2>4. (DOMAIN o \cap DOMAIN t) \cup (DOMAIN t \ DOMAIN o) = DOMAIN t
    OBVIOUS
  <2>5. n = t
    BY <2>1, <2>3, <2>4 DEF t
  <2> QED  BY <2>1, <2>2, <2>5 DEF FromWholeSync, t, o, n
<1> HIDE DEF all, new
<1>6. /\ DOMAIN head' = Clones /\ head'["developer"] = new
      /\ head'["ci"] = head["ci"]
  BY <1>2 DEF IInv, Clones
<1>7. \A commit \in whole' : FromWholeSync(commit)
  BY <1>2, <1>5 DEF IInv
<1>8. \A commit \in commits' : IsTree(commit)
  BY <1>2, <1>4 DEF IInv
<1>9. InCi'
  BY <1>3, <1>6 DEF IInv, InCi
<1>10. \A c \in Clones :
        /\ IsTree(work'[c])
        /\ fresh'[c] => OnCourse(c, pc'[c], work'[c], todo'[c], noted'[c])
  BY <1>3 DEF IInv
<1> QED
  BY <1>3, <1>4, <1>6, <1>7, <1>8, <1>9, <1>10
     DEF IInv, Current, FromWholeSync

LEMMA CheckoutStep ==
    ASSUME IInv, Checkout  PROVE IInv'
<1>1. PICK commit \in commits :
        /\ head' = [head EXCEPT !["ci"] = commit]
        /\ work' = [work EXCEPT !["ci"] = commit]
  BY DEF Checkout
<1>2. /\ pc = [c \in Clones |-> "idle"]
      /\ pc' = [pc EXCEPT !["ci"] = "checked out"]
      /\ UNCHANGED <<todo, noted, fresh, history>>
  BY DEF Checkout, Goto
<1>3. IsTree(commit) /\ ~fresh["ci"]
  BY <1>2 DEF IInv, InCi, Clones
<1>4. /\ head'["ci"] = commit /\ work'["ci"] = commit
      /\ head'["developer"] = head["developer"]
      /\ work'["developer"] = work["developer"]
      /\ DOMAIN head' = Clones /\ DOMAIN work' = Clones
      /\ pc'["ci"] = "checked out" /\ pc'["developer"] = pc["developer"]
      /\ pc' \in [Clones -> Running \cup {"idle", "checked out", "diff"}]
  BY <1>1, <1>2 DEF IInv, Clones
<1>5. \A c \in Clones :
        /\ IsTree(work'[c])
        /\ fresh'[c] => OnCourse(c, pc'[c], work'[c], todo'[c], noted'[c])
  BY <1>2, <1>3, <1>4 DEF IInv, Clones
<1>6. InCi'
  BY <1>2, <1>3, <1>4 DEF InCi, Running
<1> QED
  BY <1>2, <1>4, <1>5, <1>6 DEF IInv, history, Current, FromWholeSync

LEMMA DiffStep ==
    ASSUME IInv, Diff  PROVE IInv'
<1> DEFINE was == head["ci"]
           now == work["ci"]
           wanted == Vendored("ci", was.own, was.lf)
<1>1. /\ pc["ci"] = "diff"
      /\ IF NoDiff(was.tree, now.tree)
         THEN green' = green \cup {was} /\ UNCHANGED red
         ELSE red' = red \cup {was} /\ UNCHANGED green
      /\ pc' = [pc EXCEPT !["ci"] = "idle"]
      /\ work' = [work EXCEPT !["ci"] = NoCheckout]
      /\ head' = [head EXCEPT !["ci"] = NoCheckout]
      /\ fresh' = [fresh EXCEPT !["ci"] = FALSE]
      /\ UNCHANGED <<todo, noted, commits, whole>>
  BY DEF Diff, Goto
<1>2. /\ IsTree(was) /\ now.tree = wanted
  BY <1>1 DEF IInv, InCi, Clones, OnCourse
<1>3. ASSUME NoDiff(was.tree, now.tree)  PROVE Current(was)
  <2>1. /\ was.tree = [f \in DOMAIN was.tree |-> was.tree[f]]
        /\ DOMAIN was.tree \subseteq DOMAIN wanted
        /\ \A f \in DOMAIN was.tree : wanted[f] = was.tree[f]
    BY <1>2, <1>3 DEF NoDiff, IsTree
  <2> HIDE DEF wanted
  <2>2. was.tree = Restrict(wanted, DOMAIN was.tree)
    BY <2>1 DEF Restrict
  <2> QED  BY <2>1, <2>2 DEF Current, wanted
<1>4. ASSUME ~NoDiff(was.tree, now.tree), FromWholeSync(was)
      PROVE  was.lf \in Tagged
  <2>1. ASSUME was.lf \notin Tagged  PROVE FALSE
    <3>1. Described("developer", was.lf) = Described("ci", was.lf)
      BY <2>1 DEF Described
    <3>2. Provenance("developer", was.lf, Wanted(was.own, was.lf))
            = Provenance("ci", was.lf, Wanted(was.own, was.lf))
      BY <3>1 DEF Provenance
    <3>3. Vendored("developer", was.own, was.lf) = wanted
      BY <3>2 DEF Vendored
    <3>4. was.tree = now.tree
      BY <1>2, <1>4, <3>3 DEF FromWholeSync
    <3> QED  BY <1>4, <3>4 DEF NoDiff
  <2> QED  BY <2>1
<1>5. IsTree(NoCheckout)
  BY DEF IsTree, NoCheckout
<1> HIDE DEF was, now, wanted
<1>6. /\ DOMAIN work' = Clones /\ DOMAIN head' = Clones
      /\ DOMAIN fresh' = Clones /\ ~fresh'["ci"]
      /\ work'["ci"] = NoCheckout /\ pc'["ci"] = "idle"
      /\ work'["developer"] = work["developer"]
      /\ head'["developer"] = head["developer"]
      /\ pc'["developer"] = pc["developer"]
      /\ fresh'["developer"] = fresh["developer"]
      /\ pc' \in [Clones -> Running \cup {"idle", "checked out", "diff"}]
  BY <1>1 DEF IInv, Clones
<1>7. \A c \in Clones :
        /\ IsTree(work'[c])
        /\ fresh'[c] => OnCourse(c, pc'[c], work'[c], todo'[c], noted'[c])
  BY <1>1, <1>5, <1>6 DEF IInv, Clones
<1>8. InCi'
  BY <1>6 DEF InCi, Running
<1>9. \A commit \in green' : Current(commit)
  BY <1>1, <1>3 DEF IInv
<1>10. \A commit \in red' : FromWholeSync(commit) => commit.lf \in Tagged
  BY <1>1, <1>4 DEF IInv
<1> QED
  BY <1>1, <1>6, <1>7, <1>8, <1>9, <1>10 DEF IInv, Current, FromWholeSync

-----------------------------------------------------------------------------
LEMMA Inductive ==
    ASSUME IInv, [Next]_vars  PROVE IInv'
<1>1. ASSUME NEW c \in Clones, Sync(c)  PROVE IInv'
  BY <1>1, WipeStep, CopyOwnStep, CopyLongfellowStep, FindHeadersStep,
     CopyHeaderStep, ApplyPatchStep, WriteProvenanceStep, StopsStep DEF Sync
<1>2. CASE pc["ci"] = "idle" /\ Edit
  BY <1>2, EditStep
<1>3. CASE pc["ci"] = "idle" /\ Commit
  BY <1>3, CommitStep
<1>4. CASE Sync("developer")
  BY <1>1, <1>4 DEF Clones
<1>5. CASE Checkout
  BY <1>5, CheckoutStep
<1>6. CASE Sync("ci")
  BY <1>1, <1>6 DEF Clones
<1>7. CASE Diff
  BY <1>7, DiffStep
<1>8. CASE UNCHANGED vars
  BY <1>8 DEF vars, script, history, IInv, InCi, Current, FromWholeSync
<1> QED  BY <1>2, <1>3, <1>4, <1>5, <1>6, <1>7, <1>8 DEF Next

LEMMA Invariant == Spec => []IInv
<1>1. Init => IInv
  BY Initially
<1>2. IInv /\ [Next]_vars => IInv'
  BY Inductive
<1> QED  BY <1>1, <1>2, PTL DEF Spec

(* A run of the script that nobody disturbs leaves in bindings/go exactly  *)
(* what the sources ask for, wherever an earlier run had stopped and       *)
(* whatever had been edited before it (sync-go-bindings.sh:46).            *)
THEOREM SyncRepairsWhateverWasThere == Spec => []SyncRepairs
<1>1. IInv => SyncRepairs
  BY DEF IInv, SyncRepairs, OnCourse
<1> QED  BY <1>1, Invariant, PTL

(* The copies in a commit that passed the check for drift are those of its *)
(* own sources and its own submodule, and none is superfluous (ci.yml:35). *)
THEOREM WhatPassesIsCurrent == Spec => []GreenIsCurrent
<1>1. IInv => GreenIsCurrent
  BY DEF IInv, GreenIsCurrent, Current
<1> QED  BY <1>1, Invariant, PTL

(* A commit of all there is after an undisturbed run is refused only where *)
(* a tag of upstream changed what git describe says of the submodule       *)
(* (sync-go-bindings.sh:43).                                               *)
THEOREM OnlyATagSpoilsAWholeSync == Spec => []WholeSyncPasses
<1>1. IInv => WholeSyncPasses
  BY DEF IInv, WholeSyncPasses
<1> QED  BY <1>1, Invariant, PTL
=============================================================================

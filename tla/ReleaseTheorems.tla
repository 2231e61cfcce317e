--------------------------- MODULE ReleaseTheorems ---------------------------
(***************************************************************************)
(* For any number of clones, versions and commits: what release.sh says it *)
(* pushed is on the remote, once per version and for good, and everything  *)
(* tagged there comes from main.                                           *)
(***************************************************************************)
EXTENDS Release, TLAPS

LEMMA TagNames ==
    ASSUME NEW v \in Versions
    PROVE  /\ RootTag(v) \in Tags
           /\ GoTag(v) \in Tags
           /\ RootTag(v) # GoTag(v)
  BY DEF RootTag, GoTag, Tags

LEMMA NoPlanType == NoPlan \in [arg : Args, version : Versions, push : BOOLEAN]
  BY VersionAssumption DEF NoPlan, Args, Bumps

LEMMA GoToType ==
    ASSUME TypeOK, NEW c \in Clones, NEW point \in Points, GoTo(c, point)
    PROVE  /\ pc' \in [Clones -> Points]
           /\ plan' \in [Clones -> [arg : Args, version : Versions,
                                    push : BOOLEAN]]
  BY NoPlanType DEF TypeOK, GoTo

(***************************************************************************)
(* The inductive invariant.  A run is in order at each point: it tags only *)
(* a HEAD that is on main, has made the tags it is about to push, and when *)
(* the remote took the first one it is still there.                        *)
(***************************************************************************)
Checking == {"synced", "root_free", "both_free", "root_made"}
Pushing == {"tagged", "root_taken", "root_refused"}

RunOK(c) ==
    LET root == RootTag(plan[c].version)
        go == GoTag(plan[c].version)
    IN  /\ head[c] \in 0..main
        /\ \A t \in Tags :
             local[c][t] # NoTag => local[c][t].commit \in 1..main
        /\ pc[c] \in Checking => head[c] \in 1..main
        /\ pc[c] = "root_made" =>
             local[c][root] # NoTag /\ local[c][root].commit = head[c]
        /\ pc[c] \in Pushing =>
             /\ local[c][root] # NoTag /\ local[c][go] # NoTag
             /\ plan[c].push => local[c][root].commit = local[c][go].commit
        /\ pc[c] = "root_taken" => remote[root] = local[c][root]

IInv ==
    /\ TypeOK
    /\ ReleasedFromMain
    /\ \A c \in Clones : RunOK(c)
    /\ AnnouncedIsPublished

(* No tag of the remote is moved or withdrawn by this step.                *)
PublishedStays ==
    \A t \in Tags : remote[t] # NoTag => remote'[t] = remote[t]

-----------------------------------------------------------------------------
(* What a step of one clone leaves alone.                                  *)

LEMMA OthersInOrder ==
    ASSUME IInv, TypeOK', NEW d \in Clones, main' >= main, PublishedStays,
           head'[d] = head[d], local'[d] = local[d], pc'[d] = pc[d],
           plan'[d] = plan[d]
    PROVE  RunOK(d)'
  <1>1. plan[d].version \in Versions
    BY DEF IInv, TypeOK
  <1>2. RootTag(plan[d].version) \in Tags
    BY <1>1, TagNames
  <1>3. main \in Nat /\ main' \in Nat
    BY DEF IInv, TypeOK
  <1>4. RunOK(d)
    BY DEF IInv
  <1>5. QED
    BY <1>2, <1>3, <1>4 DEF RunOK, PublishedStays, Pushing

LEMMA AnnouncedLasts ==
    ASSUME IInv, PublishedStays, announced' = announced
    PROVE  AnnouncedIsPublished'
  <1> SUFFICES ASSUME NEW a \in announced
               PROVE  /\ remote'[RootTag(a.version)] = a.root
                      /\ remote'[GoTag(a.version)] = a.go
                      /\ a.root.commit = a.go.commit
    BY DEF AnnouncedIsPublished
  <1>1. a.version \in Versions /\ a.root \in TagObject /\ a.go \in TagObject
    BY DEF IInv, TypeOK
  <1>2. a.root # NoTag /\ a.go # NoTag
    BY <1>1, NoTagAssumption DEF TagObject
  <1>3. QED
    BY <1>1, <1>2, TagNames DEF IInv, AnnouncedIsPublished, PublishedStays

(* When the remote's tags stay as they are, they stay on main.             *)
LEMMA RemoteUntouched ==
    ASSUME IInv, main' \in Nat, main' >= main, remote' = remote
    PROVE  ReleasedFromMain' /\ PublishedStays
  <1>1. main \in Nat
    BY DEF IInv, TypeOK
  <1>2. QED
    BY <1>1 DEF IInv, ReleasedFromMain, PublishedStays

LEMMA RemoteSent ==
    ASSUME IInv, NEW c \in Clones, NEW tag \in Tags, local[c][tag] # NoTag,
           main' = main, remote' = Sent(c, tag)
    PROVE  /\ remote' \in [Tags -> TagObject \cup {NoTag}]
           /\ ReleasedFromMain' /\ PublishedStays
           /\ RemoteTakes(c, tag) => remote'[tag] = local[c][tag]
  <1>1. local[c][tag] \in TagObject \cup {NoTag}
    BY DEF IInv, TypeOK
  <1>2. local[c][tag].commit \in 1..main
    BY DEF IInv, RunOK
  <1>3. remote \in [Tags -> TagObject \cup {NoTag}]
    BY DEF IInv, TypeOK
  <1>4. \A t \in Tags : remote'[t] = IF t = tag /\ RemoteTakes(c, tag)
                                     THEN local[c][tag] ELSE remote[t]
    BY <1>3 DEF Sent
  <1>5. remote' \in [Tags -> TagObject \cup {NoTag}]
    BY <1>1, <1>3 DEF Sent
  <1>6. ReleasedFromMain'
    BY <1>2, <1>4 DEF IInv, ReleasedFromMain
  <1>7. PublishedStays
    BY <1>4 DEF PublishedStays, RemoteTakes
  <1>8. QED
    BY <1>4, <1>5, <1>6, <1>7

Undisturbed(d) ==
    /\ head'[d] = head[d] /\ local'[d] = local[d]
    /\ pc'[d] = pc[d] /\ plan'[d] = plan[d]

LEMMA StepOfOne ==
    ASSUME IInv, NEW c \in Clones, TypeOK', main' = main, RunOK(c)',
           \A d \in Clones : d # c => Undisturbed(d),
           ReleasedFromMain', PublishedStays, AnnouncedIsPublished'
    PROVE  IInv' /\ PublishedStays
  <1>1. main' >= main
    BY DEF IInv, TypeOK
  <1>2. ASSUME NEW d \in Clones PROVE RunOK(d)'
    <2>1. CASE d = c
      BY <2>1
    <2>2. CASE d # c
      <3>1. Undisturbed(d)
        BY <2>2
      <3>2. QED
        BY <3>1, <1>1, OthersInOrder DEF Undisturbed
    <2>3. QED
      BY <2>1, <2>2
  <1>3. QED
    BY <1>2 DEF IInv

(* The same for a step that touches neither the remote nor what was said.  *)
LEMMA LocalStep ==
    ASSUME IInv, NEW c \in Clones, TypeOK', main' = main, remote' = remote,
           announced' = announced, RunOK(c)',
           \A d \in Clones : d # c => Undisturbed(d)
    PROVE  IInv' /\ PublishedStays
  <1>1. main \in Nat
    BY DEF IInv, TypeOK
  <1>2. main' \in Nat /\ main' >= main
    BY <1>1
  <1>3. ReleasedFromMain' /\ PublishedStays
    BY <1>2, RemoteUntouched
  <1>4. AnnouncedIsPublished'
    BY <1>3, AnnouncedLasts
  <1>5. QED
    BY <1>3, <1>4, StepOfOne

LEMMA GoToLeavesOthers ==
    ASSUME TypeOK, NEW c \in Clones, NEW point \in Points, GoTo(c, point),
           NEW d \in Clones, d # c
    PROVE  pc'[d] = pc[d] /\ plan'[d] = plan[d]
  BY DEF TypeOK, GoTo

LEMMA GoToHere ==
    ASSUME TypeOK, NEW c \in Clones, NEW point \in Points, GoTo(c, point)
    PROVE  /\ pc'[c] = point
           /\ point # "idle" => plan'[c] = plan[c]
  BY DEF TypeOK, GoTo

-----------------------------------------------------------------------------
(* The steps of a run, one lemma each.                                     *)

LEMMA StartStep ==
    ASSUME IInv, NEW c \in Clones, Start(c)
    PROVE  IInv' /\ PublishedStays
  <1>1. PICK arg \in Args, push \in BOOLEAN, w \in Versions :
          plan' = [plan EXCEPT ![c] =
                      [arg |-> arg, version |-> w, push |-> push]]
    BY DEF Start, NewVersions
  <1>3. plan' \in [Clones -> [arg : Args, version : Versions, push : BOOLEAN]]
    BY <1>1 DEF IInv, TypeOK
  <1>4. pc' \in [Clones -> Points] /\ pc'[c] = "chosen"
    BY DEF Start, IInv, TypeOK, Points
  <1>5. TypeOK'
    BY <1>3, <1>4 DEF Start, IInv, TypeOK
  <1>6. RunOK(c)'
    BY <1>4 DEF Start, IInv, RunOK, Checking, Pushing
  <1>7. ASSUME NEW d \in Clones, d # c PROVE Undisturbed(d)
    BY <1>1, <1>7 DEF Start, IInv, TypeOK, Undisturbed
  <1>8. QED
    BY <1>5, <1>6, <1>7, LocalStep DEF Start

LEMMA FetchStep ==
    ASSUME IInv, NEW c \in Clones, Fetch(c)
    PROVE  IInv' /\ PublishedStays
  <1>1. PICK point \in {"idle", "synced"} :
          GoTo(c, point) /\ (point = "synced" => InSync(c))
    BY DEF Fetch
  <1>2. point \in Points
    BY DEF Points
  <1>3. TypeOK
    BY DEF IInv
  <1>4. local' \in [Clones -> [Tags -> TagObject \cup {NoTag}]]
    BY <1>3 DEF Fetch, TypeOK
  <1>5. TypeOK'
    BY <1>1, <1>2, <1>3, <1>4, GoToType DEF Fetch, TypeOK
  <1>6. pc'[c] = point
    BY <1>1, <1>2, <1>3, GoToHere
  <1>7. RunOK(c)'
    <2>1. ASSUME NEW t \in Tags, local'[c][t] # NoTag
          PROVE  local'[c][t].commit \in 1..main
      <3>1. local'[c][t] = local[c][t] \/ local'[c][t] = remote[t]
        BY <1>3 DEF Fetch, TypeOK
      <3>2. QED
        BY <2>1, <3>1 DEF IInv, RunOK, ReleasedFromMain
    <2>2. head[c] \in 0..main /\ (InSync(c) => head[c] \in 1..main)
      BY <1>3 DEF IInv, RunOK, InSync, TypeOK
    <2>3. QED
      BY <1>1, <1>6, <2>1, <2>2 DEF Fetch, RunOK, Checking, Pushing
  <1>8. ASSUME NEW d \in Clones, d # c PROVE Undisturbed(d)
    <2>1. pc'[d] = pc[d] /\ plan'[d] = plan[d]
      BY <1>1, <1>2, <1>3, <1>8, GoToLeavesOthers
    <2>2. QED
      BY <1>3, <1>8, <2>1 DEF Fetch, TypeOK, Undisturbed
  <1>9. QED
    BY <1>5, <1>7, <1>8, LocalStep DEF Fetch

LEMMA CheckTagStep ==
    ASSUME IInv, NEW c \in Clones, NEW tag \in Tags,
           NEW from \in {"synced", "root_free"},
           NEW to \in {"root_free", "both_free"}, CheckTag(c, tag, from, to)
    PROVE  IInv' /\ PublishedStays
  <1>1. PICK point \in {"idle", "root_free", "both_free"} : GoTo(c, point)
    BY DEF CheckTag
  <1>2. point \in Points
    BY DEF Points
  <1>3. TypeOK
    BY DEF IInv
  <1>4. TypeOK'
    BY <1>1, <1>2, <1>3, GoToType DEF CheckTag, TypeOK
  <1>5. pc'[c] = point
    BY <1>1, <1>2, <1>3, GoToHere
  <1>6. RunOK(c)'
    BY <1>5 DEF CheckTag, IInv, RunOK, Checking, Pushing
  <1>7. ASSUME NEW d \in Clones, d # c PROVE Undisturbed(d)
    BY <1>1, <1>2, <1>3, <1>7, GoToLeavesOthers DEF CheckTag, Undisturbed
  <1>8. QED
    BY <1>4, <1>6, <1>7, LocalStep DEF CheckTag

LEMMA CreateTagType ==
    ASSUME TypeOK, NEW c \in Clones, NEW tag \in Tags, NEW from,
           NEW to \in Points, CreateTag(c, tag, from, to)
    PROVE  /\ TypeOK'
           /\ local'[c][tag] = [id |-> made, commit |-> head[c]]
           /\ \A t \in Tags : t # tag => local'[c][t] = local[c][t]
           /\ \A d \in Clones : d # c => Undisturbed(d)
  <1>1. [id |-> made, commit |-> head[c]] \in TagObject
    BY DEF TypeOK, TagObject
  <1>2. local' \in [Clones -> [Tags -> TagObject \cup {NoTag}]]
    BY <1>1 DEF TypeOK, CreateTag
  <1>3. made' \in Nat
    BY DEF TypeOK, CreateTag
  <1>4. GoTo(c, to) /\ UNCHANGED <<main, head, remote, announced>>
    BY DEF CreateTag
  <1>5. TypeOK'
    BY <1>2, <1>3, <1>4, GoToType DEF TypeOK
  <1>6. /\ local'[c][tag] = [id |-> made, commit |-> head[c]]
        /\ \A t \in Tags : t # tag => local'[c][t] = local[c][t]
    BY DEF TypeOK, CreateTag
  <1>7. ASSUME NEW d \in Clones, d # c PROVE Undisturbed(d)
    <2>1. pc'[d] = pc[d] /\ plan'[d] = plan[d]
      BY <1>4, <1>7, GoToLeavesOthers
    <2>2. QED
      BY <1>4, <1>7, <2>1 DEF CreateTag, TypeOK, Undisturbed
  <1>8. QED
    BY <1>5, <1>6, <1>7

LEMMA CreateRootStep ==
    ASSUME IInv, NEW c \in Clones, CreateRoot(c)
    PROVE  IInv' /\ PublishedStays
  <1> DEFINE root == RootTag(plan[c].version)
  <1>1. TypeOK
    BY DEF IInv
  <1>2. root \in Tags /\ "root_made" \in Points
    BY <1>1, TagNames DEF TypeOK, Points
  <1>3. CreateTag(c, root, "both_free", "root_made")
    BY DEF CreateRoot
  <1>4. /\ TypeOK'
        /\ local'[c][root] = [id |-> made, commit |-> head[c]]
        /\ \A t \in Tags : t # root => local'[c][t] = local[c][t]
        /\ \A d \in Clones : d # c => Undisturbed(d)
    BY <1>1, <1>2, <1>3, CreateTagType
  <1>5. pc'[c] = "root_made" /\ plan'[c] = plan[c] /\ pc[c] = "both_free"
    BY <1>1, <1>2, <1>3, GoToHere DEF CreateTag
  <1>6. head' = head /\ main' = main /\ remote' = remote
            /\ announced' = announced
    BY <1>3 DEF CreateTag
  <1>7. head[c] \in 1..main
    BY <1>5 DEF IInv, RunOK, Checking
  <1>8. RunOK(c)'
    <2>1. local'[c][root] # NoTag /\ local'[c][root].commit = head[c]
      BY <1>1, <1>4, NoTagAssumption DEF TypeOK
    <2>2. \A t \in Tags :
            local'[c][t] # NoTag => local'[c][t].commit \in 1..main
      BY <1>4, <1>7, <2>1 DEF IInv, RunOK
    <2>3. head[c] \in 0..main
      BY DEF IInv, RunOK
    <2>4. QED
      BY <1>5, <1>6, <1>7, <2>1, <2>2, <2>3 DEF RunOK, Pushing
  <1>9. QED
    BY <1>4, <1>6, <1>8, LocalStep

LEMMA CreateGoStep ==
    ASSUME IInv, NEW c \in Clones, CreateGo(c)
    PROVE  IInv' /\ PublishedStays
  <1> DEFINE root == RootTag(plan[c].version)
             go == GoTag(plan[c].version)
  <1>1. TypeOK
    BY DEF IInv
  <1>2. root \in Tags /\ go \in Tags /\ root # go
    BY <1>1, TagNames DEF TypeOK
  <1>3. PICK to \in {"tagged", "advised"} : CreateTag(c, go, "root_made", to)
    BY DEF CreateGo
  <1>4. to \in Points
    BY DEF Points
  <1>5. /\ TypeOK'
        /\ local'[c][go] = [id |-> made, commit |-> head[c]]
        /\ \A t \in Tags : t # go => local'[c][t] = local[c][t]
        /\ \A d \in Clones : d # c => Undisturbed(d)
    BY <1>1, <1>2, <1>3, <1>4, CreateTagType
  <1>6. pc'[c] = to /\ plan'[c] = plan[c] /\ pc[c] = "root_made"
    BY <1>1, <1>3, <1>4, GoToHere DEF CreateTag
  <1>7. head' = head /\ main' = main /\ remote' = remote
            /\ announced' = announced
    BY <1>3 DEF CreateTag
  <1>8. /\ head[c] \in 0..main /\ head[c] \in 1..main
        /\ local[c][root] # NoTag /\ local[c][root].commit = head[c]
    BY <1>6 DEF IInv, RunOK, Checking
  <1>9. RunOK(c)'
    <2>1. local'[c][go] # NoTag /\ local'[c][go].commit = head[c]
      BY <1>1, <1>5, NoTagAssumption DEF TypeOK
    <2>2. local'[c][root] # NoTag /\ local'[c][root].commit = head[c]
      BY <1>2, <1>5, <1>8
    <2>3. \A t \in Tags :
            local'[c][t] # NoTag => local'[c][t].commit \in 1..main
      BY <1>5, <1>8, <2>1 DEF IInv, RunOK
    <2>4. QED
      BY <1>6, <1>7, <1>8, <2>1, <2>2, <2>3 DEF RunOK, Checking
  <1>10. QED
    BY <1>5, <1>7, <1>9, LocalStep

LEMMA PushRootStep ==
    ASSUME IInv, NEW c \in Clones, PushRoot(c)
    PROVE  IInv' /\ PublishedStays
  <1> DEFINE root == RootTag(plan[c].version)
  <1>1. TypeOK
    BY DEF IInv
  <1>2. root \in Tags
    BY <1>1, TagNames DEF TypeOK
  <1>3. PICK point \in {"root_taken", "root_refused"} :
          /\ GoTo(c, point)
          /\ point = "root_taken" => RemoteTakes(c, root)
    BY DEF PushRoot
  <1>4. point \in Points
    BY DEF Points
  <1>5. /\ pc[c] = "tagged" /\ remote' = Sent(c, root)
        /\ UNCHANGED <<main, head, local, made, announced>>
    BY DEF PushRoot
  <1>6. local[c][root] # NoTag
    BY <1>5 DEF IInv, RunOK, Pushing
  <1>7. /\ remote' \in [Tags -> TagObject \cup {NoTag}]
        /\ ReleasedFromMain' /\ PublishedStays
        /\ RemoteTakes(c, root) => remote'[root] = local[c][root]
    BY <1>2, <1>5, <1>6, RemoteSent
  <1>8. pc'[c] = point /\ plan'[c] = plan[c]
    BY <1>1, <1>3, <1>4, GoToHere
  <1>9. TypeOK'
    BY <1>1, <1>3, <1>4, <1>5, <1>7, GoToType DEF TypeOK
  <1>10. RunOK(c)'
    BY <1>3, <1>5, <1>7, <1>8 DEF IInv, RunOK, Checking, Pushing
  <1>11. ASSUME NEW d \in Clones, d # c PROVE Undisturbed(d)
    BY <1>1, <1>3, <1>4, <1>5, <1>11, GoToLeavesOthers DEF Undisturbed
  <1>12. AnnouncedIsPublished'
    BY <1>5, <1>7, AnnouncedLasts
  <1>13. QED
    BY <1>5, <1>7, <1>9, <1>10, <1>11, <1>12, StepOfOne

(* The step that says "Pushed.": both tags are on the remote by then.      *)
LEMMA PushGoStep ==
    ASSUME IInv, NEW c \in Clones, PushGo(c)
    PROVE  IInv' /\ PublishedStays
  <1> DEFINE v == plan[c].version
             root == RootTag(v)
             go == GoTag(v)
             said == [version |-> v, root |-> local[c][root],
                      go |-> local[c][go]]
  <1>1. TypeOK
    BY DEF IInv
  <1>2. v \in Versions /\ root \in Tags /\ go \in Tags
    BY <1>1, TagNames DEF TypeOK
  <1>3. /\ pc[c] \in Pushing /\ remote' = Sent(c, go)
        /\ GoTo(c, "idle") /\ UNCHANGED <<main, head, local, made>>
    BY DEF PushGo, Pushing
  <1>4. /\ local[c][root] # NoTag /\ local[c][go] # NoTag
        /\ plan[c].push => local[c][root].commit = local[c][go].commit
        /\ pc[c] = "root_taken" => remote[root] = local[c][root]
    BY <1>3 DEF IInv, RunOK
  <1>5. local[c][root] \in TagObject /\ local[c][go] \in TagObject
    BY <1>1, <1>2, <1>4 DEF TypeOK
  <1>6. /\ remote' \in [Tags -> TagObject \cup {NoTag}]
        /\ ReleasedFromMain' /\ PublishedStays
        /\ RemoteTakes(c, go) => remote'[go] = local[c][go]
    BY <1>2, <1>3, <1>4, RemoteSent
  <1>7. \/ announced' = announced
        \/ /\ announced' = announced \cup {said}
           /\ pc[c] = "root_taken" /\ RemoteTakes(c, go) /\ plan[c].push
    BY DEF PushGo, PushReportsOk
  <1>8. announced' \subseteq [version : Versions, root : TagObject,
                              go : TagObject]
    BY <1>1, <1>2, <1>5, <1>7 DEF TypeOK
  <1>9. "idle" \in Points
    BY DEF Points
  <1>10. TypeOK'
    BY <1>1, <1>3, <1>6, <1>8, <1>9, GoToType DEF TypeOK
  <1>11. RunOK(c)'
    <2>1. pc'[c] = "idle"
      BY <1>1, <1>3, <1>9, GoToHere
    <2>2. QED
      BY <1>3, <2>1 DEF IInv, RunOK, Checking, Pushing
  <1>12. ASSUME NEW d \in Clones, d # c PROVE Undisturbed(d)
    BY <1>1, <1>3, <1>9, <1>12, GoToLeavesOthers DEF Undisturbed
  <1>13. AnnouncedIsPublished'
    <2>1. CASE announced' = announced
      BY <2>1, <1>6, AnnouncedLasts
    <2>2. CASE /\ announced' = announced \cup {said}
               /\ pc[c] = "root_taken" /\ RemoteTakes(c, go) /\ plan[c].push
      <3>1. remote'[root] = local[c][root] /\ remote'[go] = local[c][go]
        BY <2>2, <1>2, <1>4, <1>6 DEF PublishedStays
      <3>2. local[c][root].commit = local[c][go].commit
        BY <2>2, <1>4
      <3>3. ASSUME NEW a \in announced
            PROVE  /\ remote'[RootTag(a.version)] = a.root
                   /\ remote'[GoTag(a.version)] = a.go
                   /\ a.root.commit = a.go.commit
        <4>1. a.version \in Versions /\ a.root \in TagObject
                /\ a.go \in TagObject
          BY <1>1 DEF TypeOK
        <4>2. a.root # NoTag /\ a.go # NoTag
          BY <4>1, NoTagAssumption DEF TagObject
        <4>3. QED
          BY <4>1, <4>2, <1>6, TagNames
             DEF IInv, AnnouncedIsPublished, PublishedStays
      <3>4. QED
        BY <2>2, <3>1, <3>2, <3>3 DEF AnnouncedIsPublished
    <2>3. QED
      BY <1>7, <2>1, <2>2
  <1>14. QED
    BY <1>3, <1>6, <1>10, <1>11, <1>12, <1>13, StepOfOne

LEMMA InterruptStep ==
    ASSUME IInv, NEW c \in Clones, Interrupt(c)
    PROVE  IInv' /\ PublishedStays
  <1>1. TypeOK
    BY DEF IInv
  <1>2. /\ GoTo(c, "idle") /\ "idle" \in Points
        /\ UNCHANGED <<main, head, remote, local, made, announced>>
    BY DEF Interrupt, Points
  <1>3. TypeOK'
    BY <1>1, <1>2, GoToType DEF TypeOK
  <1>4. pc'[c] = "idle"
    BY <1>1, <1>2, GoToHere
  <1>5. RunOK(c)'
    BY <1>2, <1>4 DEF IInv, RunOK, Checking, Pushing
  <1>6. ASSUME NEW d \in Clones, d # c PROVE Undisturbed(d)
    BY <1>1, <1>2, <1>6, GoToLeavesOthers DEF Undisturbed
  <1>7. QED
    BY <1>2, <1>3, <1>5, <1>6, LocalStep

-----------------------------------------------------------------------------
(* The steps of people.                                                    *)

LEMMA PushByHandStep ==
    ASSUME IInv, NEW c \in Clones, PushByHand(c)
    PROVE  IInv' /\ PublishedStays
  <1>1. PICK v \in Versions :
          /\ local[c][RootTag(v)] # NoTag /\ local[c][GoTag(v)] # NoTag
          /\ plan' = [plan EXCEPT ![c] = [NoPlan EXCEPT !.version = v]]
    BY DEF PushByHand
  <1>2. /\ [NoPlan EXCEPT !.version = v].version = v
        /\ [NoPlan EXCEPT !.version = v].push = FALSE
    BY DEF NoPlan
  <1>3. [NoPlan EXCEPT !.version = v]
          \in [arg : Args, version : Versions, push : BOOLEAN]
    BY NoPlanType
  <1>4. TypeOK
    BY DEF IInv
  <1>5. plan' \in [Clones -> [arg : Args, version : Versions, push : BOOLEAN]]
    BY <1>1, <1>3, <1>4 DEF TypeOK
  <1>6. plan'[c].version = v /\ plan'[c].push = FALSE
    BY <1>1, <1>2, <1>4 DEF TypeOK
  <1>7. pc' \in [Clones -> Points] /\ pc'[c] = "tagged"
    BY <1>4 DEF PushByHand, TypeOK, Points
  <1>8. TypeOK'
    BY <1>4, <1>5, <1>7 DEF PushByHand, TypeOK
  <1>9. RunOK(c)'
    BY <1>1, <1>6, <1>7 DEF PushByHand, IInv, RunOK, Checking
  <1>10. ASSUME NEW d \in Clones, d # c PROVE Undisturbed(d)
    BY <1>1, <1>4, <1>10 DEF PushByHand, TypeOK, Undisturbed
  <1>11. QED
    BY <1>8, <1>9, <1>10, LocalStep DEF PushByHand

LEMMA UndoLocallyStep ==
    ASSUME IInv, NEW c \in Clones, UndoLocally(c)
    PROVE  IInv' /\ PublishedStays
  <1>1. TypeOK
    BY DEF IInv
  <1>2. GoTo(c, "idle") /\ "idle" \in Points
            /\ UNCHANGED <<main, head, remote, made, announced>>
    BY DEF UndoLocally, Points
  <1>3. local' \in [Clones -> [Tags -> TagObject \cup {NoTag}]]
    BY <1>1 DEF UndoLocally, TypeOK
  <1>4. TypeOK'
    BY <1>1, <1>2, <1>3, GoToType DEF TypeOK
  <1>5. pc'[c] = "idle"
    BY <1>1, <1>2, GoToHere
  <1>6. RunOK(c)'
    <2>1. \A t \in Tags : local'[c][t] \in {NoTag, local[c][t]}
      BY <1>1 DEF UndoLocally, TypeOK
    <2>2. QED
      BY <1>2, <1>5, <2>1 DEF IInv, RunOK, Checking, Pushing
  <1>7. ASSUME NEW d \in Clones, d # c PROVE Undisturbed(d)
    <2>1. pc'[d] = pc[d] /\ plan'[d] = plan[d]
      BY <1>1, <1>2, <1>7, GoToLeavesOthers
    <2>2. QED
      BY <1>1, <1>2, <1>7, <2>1 DEF UndoLocally, TypeOK, Undisturbed
  <1>8. QED
    BY <1>2, <1>4, <1>6, <1>7, LocalStep

LEMMA HeadStep ==
    ASSUME IInv, NEW c \in Clones, CommitLocally(c) \/ Pull(c)
    PROVE  IInv' /\ PublishedStays
  <1>1. PICK commit \in 0..main :
          /\ head' = [head EXCEPT ![c] = commit]
          /\ Resting(c)
          /\ UNCHANGED <<main, remote, local, pc, plan, made, announced>>
    BY DEF CommitLocally, Pull, Unpublished, IInv, TypeOK
  <1>2. TypeOK
    BY DEF IInv
  <1>3. head' \in [Clones -> Nat] /\ head'[c] = commit
    BY <1>1, <1>2 DEF TypeOK
  <1>4. TypeOK'
    BY <1>1, <1>2, <1>3 DEF TypeOK
  <1>5. RunOK(c)'
    BY <1>1, <1>3 DEF IInv, RunOK, Resting, Checking, Pushing
  <1>6. ASSUME NEW d \in Clones, d # c PROVE Undisturbed(d)
    BY <1>1, <1>2, <1>6 DEF TypeOK, Undisturbed
  <1>7. QED
    BY <1>1, <1>4, <1>5, <1>6, LocalStep

LEMMA MergeStep ==
    ASSUME IInv, MergeToMain
    PROVE  IInv' /\ PublishedStays
  <1>1. main \in Nat \ {0} /\ main' = main + 1
    BY DEF MergeToMain, IInv, TypeOK
  <1>2. TypeOK'
    BY <1>1 DEF MergeToMain, IInv, TypeOK
  <1>3. ReleasedFromMain' /\ PublishedStays
    BY <1>1, RemoteUntouched DEF MergeToMain
  <1>4. AnnouncedIsPublished'
    BY <1>3, AnnouncedLasts DEF MergeToMain
  <1>5. ASSUME NEW d \in Clones PROVE RunOK(d)'
    BY <1>1, <1>2, <1>3, <1>5, OthersInOrder DEF MergeToMain
  <1>6. QED
    BY <1>2, <1>3, <1>4, <1>5 DEF IInv

-----------------------------------------------------------------------------
(* Everything starts in order, and every step keeps it so.                 *)

LEMMA InitIInv == Init => IInv
  <1> SUFFICES ASSUME Init PROVE IInv
    OBVIOUS
  <1>1. /\ remote \in [Tags -> TagObject \cup {NoTag}]
        /\ \A t \in Tags : remote[t] # NoTag => remote[t].commit = 1
        /\ local = [c \in Clones |-> remote]
    BY DEF Init, TagObject
  <1>2. plan \in [Clones -> [arg : Args, version : Versions, push : BOOLEAN]]
    BY NoPlanType DEF Init
  <1>3. TypeOK
    BY <1>1, <1>2 DEF Init, TypeOK, Points
  <1>4. main = 1 /\ announced = {}
    BY DEF Init
  <1>5. ReleasedFromMain /\ AnnouncedIsPublished
    BY <1>1, <1>4 DEF ReleasedFromMain, AnnouncedIsPublished
  <1>6. ASSUME NEW c \in Clones PROVE RunOK(c)
    BY <1>1, <1>4, <1>6 DEF Init, RunOK, Checking, Pushing
  <1>7. QED
    BY <1>3, <1>5, <1>6 DEF IInv

LEMMA NextIInv == IInv /\ [Next]_vars => IInv' /\ PublishedStays
  <1> SUFFICES ASSUME IInv, [Next]_vars PROVE IInv' /\ PublishedStays
    OBVIOUS
  <1>1. CASE UNCHANGED vars
    <2>1. TypeOK' /\ ReleasedFromMain' /\ AnnouncedIsPublished'
      BY <1>1 DEF vars, IInv, TypeOK, ReleasedFromMain, AnnouncedIsPublished
    <2>2. ASSUME NEW c \in Clones PROVE RunOK(c)'
      BY <1>1 DEF vars, IInv, RunOK
    <2>3. QED
      BY <1>1, <2>1, <2>2 DEF vars, IInv, PublishedStays
  <1>2. CASE MergeToMain
    BY <1>2, MergeStep
  <1>3. ASSUME NEW c \in Clones, Start(c) PROVE IInv' /\ PublishedStays
    BY <1>3, StartStep
  <1>4. ASSUME NEW c \in Clones, Fetch(c) PROVE IInv' /\ PublishedStays
    BY <1>4, FetchStep
  <1>5. ASSUME NEW c \in Clones, CheckRoot(c) \/ CheckGo(c)
        PROVE  IInv' /\ PublishedStays
    <2>1. plan[c].version \in Versions
      BY DEF IInv, TypeOK
    <2>2. QED
      BY <1>5, <2>1, TagNames, CheckTagStep DEF CheckRoot, CheckGo
  <1>6. ASSUME NEW c \in Clones, CreateRoot(c) \/ CreateGo(c)
        PROVE  IInv' /\ PublishedStays
    BY <1>6, CreateRootStep, CreateGoStep
  <1>7. ASSUME NEW c \in Clones, PushRoot(c) \/ PushGo(c)
        PROVE  IInv' /\ PublishedStays
    BY <1>7, PushRootStep, PushGoStep
  <1>8. ASSUME NEW c \in Clones, Interrupt(c) PROVE IInv' /\ PublishedStays
    BY <1>8, InterruptStep
  <1>9. ASSUME NEW c \in Clones,
               \/ PushByHand(c) \/ UndoLocally(c)
               \/ CommitLocally(c) \/ Pull(c)
        PROVE  IInv' /\ PublishedStays
    BY <1>9, PushByHandStep, UndoLocallyStep, HeadStep
  <1>10. QED
    BY <1>1, <1>2, <1>3, <1>4, <1>5, <1>6, <1>7, <1>8, <1>9 DEF Next

LEMMA AlwaysIInv == Spec => []IInv
  BY InitIInv, NextIInv, PTL DEF Spec

-----------------------------------------------------------------------------
(* Type correctness of the model of release.sh.                            *)
THEOREM TypeCorrect == Spec => []TypeOK
  <1>1. IInv => TypeOK
    BY DEF IInv
  <1>2. QED
    BY <1>1, AlwaysIInv, PTL

(* release.sh 82-90: whatever clones, versions and commits there are, every*)
(* tag on the remote is on a commit of main.                               *)
THEOREM TaggedFromMain == Spec => []ReleasedFromMain
  <1>1. IInv => ReleasedFromMain
    BY DEF IInv
  <1>2. QED
    BY <1>1, AlwaysIInv, PTL

(* release.sh 116-119: what a run says it pushed is on the remote for good.*)
THEOREM SaidIsSo == Spec => []AnnouncedIsPublished
  <1>1. IInv => AnnouncedIsPublished
    BY DEF IInv
  <1>2. QED
    BY <1>1, AlwaysIInv, PTL

(* release.sh 92-119: of all the runs that race for a version, at most one *)
(* says it pushed it.                                                      *)
THEOREM OneWinner == Spec => []OneReleasePerVersion
  <1>1. IInv => OneReleasePerVersion
    <2> SUFFICES ASSUME IInv, NEW a \in announced, NEW b \in announced,
                        a.version = b.version
                 PROVE  a = b
      BY DEF OneReleasePerVersion
    <2>1. a.root = b.root /\ a.go = b.go
      BY DEF IInv, AnnouncedIsPublished
    <2>2. /\ a \in [version : Versions, root : TagObject, go : TagObject]
          /\ b \in [version : Versions, root : TagObject, go : TagObject]
      BY DEF IInv, TypeOK
    <2>3. QED
      BY <2>1, <2>2
  <1>2. QED
    BY <1>1, AlwaysIInv, PTL
=============================================================================

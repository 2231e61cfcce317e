------------------------------- MODULE Release -------------------------------
(***************************************************************************)
(* scripts/release.sh, run from several clones of the repository against   *)
(* one remote.  A run picks a version from the tags of its clone, fetches, *)
(* compares HEAD with the remote main, looks each tag up locally and on    *)
(* the remote, creates the two tags, and pushes them if told to.  Every    *)
(* command that talks to the remote is a step of its own; others may tag,  *)
(* push or merge in between, and a run may be interrupted anywhere.        *)
(*                                                                         *)
(* Nobody works in a clone while the script runs there.  A run that stops  *)
(* before the fetch (dirty tree, other branch, no tag to bump, bad         *)
(* argument) changes nothing and is not a step.                            *)
(***************************************************************************)
EXTENDS Naturals

CONSTANTS
    Clones,          \* working copies releases are cut from
    Versions,        \* bound: triples <<major, minor, patch>> that occur
    FirstVersion,    \* already released when the story begins
    NoTag,
    MaxMain,         \* bound: commits on main
    MaxTagObjects    \* bound: tag objects ever created

ASSUME VersionAssumption ==
    /\ Versions \subseteq Nat \X Nat \X Nat
    /\ FirstVersion \in Versions
ASSUME NoTagAssumption == NoTag \notin [id : Nat, commit : Nat]
ASSUME BoundAssumption == MaxMain \in Nat \ {0} /\ MaxTagObjects \in Nat

VARIABLES
    main,        \* commits 1..main are on the remote main branch
    head,        \* HEAD of each clone; Unpublished if it is not on main
    remote,      \* tags of the remote
    local,       \* tags of each clone
    pc,          \* where the script stands in each clone
    plan,        \* VERSION argument, chosen version and PUSH of its run
    made,        \* tag objects created so far; each gets its own id
    announced    \* runs that printed "Pushed."

vars == <<main, head, remote, local, pc, plan, made, announced>>

Unpublished == 0

RootTag(v) == <<"v", v>>
GoTag(v) == <<"bindings/go/v", v>>
Tags == {RootTag(v) : v \in Versions} \cup {GoTag(v) : v \in Versions}

(* An annotated tag: "git tag -a" makes a new object every time.           *)
TagObject == [id : Nat, commit : Nat]

Bumps == {"patch", "minor", "major"}
Args == {<<b>> : b \in Bumps} \cup {<<"literal", v>> : v \in Versions}

Precedes(u, v) ==
    \/ u[1] < v[1]
    \/ u[1] = v[1] /\ u[2] < v[2]
    \/ u[1] = v[1] /\ u[2] = v[2] /\ u[3] < v[3]

Latest(S) == CHOOSE v \in S : \A u \in S \ {v} : Precedes(u, v)

Bump(kind, v) ==
    CASE kind = "major" -> <<v[1] + 1, 0, 0>>
      [] kind = "minor" -> <<v[1], v[2] + 1, 0>>
      [] kind = "patch" -> <<v[1], v[2], v[3] + 1>>

(* git tag -l 'v*' in a clone.                                             *)
LocalReleases(c) == {v \in Versions : local[c][RootTag(v)] # NoTag}

(* The version a run is for; none if there is no tag to bump from.         *)
NewVersions(arg, released) ==
    {v \in Versions :
        \/ arg = <<"literal", v>>
        \/ /\ released # {}
           /\ \E b \in Bumps : arg = <<b>> /\ v = Bump(b, Latest(released))}

NoPlan == [arg |-> <<"patch">>, version |-> FirstVersion, push |-> FALSE]

(* The script moves on, or exits and forgets its variables.                *)
GoTo(c, point) ==
    /\ pc' = [pc EXCEPT ![c] = point]
    /\ plan' = IF point = "idle" THEN [plan EXCEPT ![c] = NoPlan] ELSE plan

-----------------------------------------------------------------------------
Init ==
    LET first == [t \in Tags |->
                    IF t = RootTag(FirstVersion) THEN [id |-> 0, commit |-> 1]
                    ELSE IF t = GoTag(FirstVersion)
                        THEN [id |-> 1, commit |-> 1]
                    ELSE NoTag]
    IN  /\ main = 1
        /\ head = [c \in Clones |-> 1]
        /\ remote = first
        /\ local = [c \in Clones |-> first]
        /\ pc = [c \in Clones |-> "idle"]
        /\ plan = [c \in Clones |-> NoPlan]
        /\ made = 2
        /\ announced = {}

Resting(c) == pc[c] \in {"idle", "advised"}

Start(c) ==
    /\ Resting(c)
    /\ \E arg \in Args, push \in BOOLEAN :
       \E v \in NewVersions(arg, LocalReleases(c)) :
        plan' = [plan EXCEPT ![c] =
                    [arg |-> arg, version |-> v, push |-> push]]
    /\ pc' = [pc EXCEPT ![c] = "chosen"]
    /\ UNCHANGED <<main, head, remote, local, made, announced>>

(* git fetch --tags: new tags arrive, but one that differs from the local  *)
(* tag of its name is refused and fails the command.                       *)
Clash(c) ==
    \E t \in Tags : /\ remote[t] # NoTag /\ local[c][t] # NoTag
                    /\ remote[t] # local[c][t]

InSyncUnchecked(c) == TRUE
InSync(c) == head[c] = main

Fetch(c) ==
    /\ pc[c] = "chosen"
    /\ local' = [local EXCEPT ![c] =
                    [t \in Tags |-> IF local[c][t] = NoTag THEN remote[t]
                                    ELSE local[c][t]]]
    /\ GoTo(c, IF Clash(c) \/ ~InSync(c) THEN "idle" ELSE "synced")
    /\ UNCHANGED <<main, head, remote, made, announced>>

(* An ls-remote that fails for want of a network reads as "no such tag".   *)
CheckTag(c, tag, from, to) ==
    /\ pc[c] = from
    /\ \E reachable \in BOOLEAN :
        GoTo(c, IF \/ local[c][tag] # NoTag
                   \/ reachable /\ remote[tag] # NoTag
                THEN "idle" ELSE to)
    /\ UNCHANGED <<main, head, remote, local, made, announced>>

CheckRoot(c) == CheckTag(c, RootTag(plan[c].version), "synced", "root_free")
CheckGo(c) == CheckTag(c, GoTag(plan[c].version), "root_free", "both_free")

CreateTag(c, tag, from, to) ==
    /\ pc[c] = from
    /\ made < MaxTagObjects
    /\ local' = [local EXCEPT ![c][tag] = [id |-> made, commit |-> head[c]]]
    /\ made' = made + 1
    /\ GoTo(c, to)
    /\ UNCHANGED <<main, head, remote, announced>>

CreateRoot(c) ==
    CreateTag(c, RootTag(plan[c].version), "both_free", "root_made")
CreateGo(c) ==
    CreateTag(c, GoTag(plan[c].version), "root_made",
              IF plan[c].push THEN "tagged" ELSE "advised")

(* git push of two refs without --atomic: the remote takes them one by one *)
(* and refuses a tag that is there already, unless it is the same object.  *)
RemoteTakesByForce(c, tag) == TRUE
RemoteTakes(c, tag) == remote[tag] \in {NoTag, local[c][tag]}

Sent(c, tag) ==
    IF RemoteTakes(c, tag) THEN [remote EXCEPT ![tag] = local[c][tag]]
    ELSE remote

PushRoot(c) ==
    LET tag == RootTag(plan[c].version)
    IN  /\ pc[c] = "tagged"
        /\ remote' = Sent(c, tag)
        /\ GoTo(c, IF RemoteTakes(c, tag) THEN "root_taken"
                   ELSE "root_refused")
        /\ UNCHANGED <<main, head, local, made, announced>>

(* git push reports a refusal of either ref, and the script stops; else it *)
(* says "Pushed.".  A push by hand says nothing.                           *)
LastRefReportsOk(c) == RemoteTakes(c, GoTag(plan[c].version))
PushReportsOk(c) ==
    pc[c] = "root_taken" /\ RemoteTakes(c, GoTag(plan[c].version))

PushGo(c) ==
    LET v == plan[c].version
    IN  /\ pc[c] \in {"root_taken", "root_refused"}
        /\ remote' = Sent(c, GoTag(v))
        /\ announced' =
             IF PushReportsOk(c) /\ plan[c].push
             THEN announced \cup {[version |-> v,
                                   root |-> local[c][RootTag(v)],
                                   go |-> local[c][GoTag(v)]]}
             ELSE announced
        /\ GoTo(c, "idle")
        /\ UNCHANGED <<main, head, local, made>>

(* Ctrl-C, a lost connection, a reboot.                                    *)
Interrupt(c) ==
    /\ ~Resting(c)
    /\ GoTo(c, "idle")
    /\ UNCHANGED <<main, head, remote, local, made, announced>>

-----------------------------------------------------------------------------
(* What people do between runs.  A push by hand and "git tag -d" are what  *)
(* the script advises when it did not push.                                *)

PushByHand(c) ==
    /\ Resting(c)
    /\ \E v \in Versions :
        /\ local[c][RootTag(v)] # NoTag /\ local[c][GoTag(v)] # NoTag
        /\ plan' = [plan EXCEPT ![c] = [NoPlan EXCEPT !.version = v]]
    /\ pc' = [pc EXCEPT ![c] = "tagged"]
    /\ UNCHANGED <<main, head, remote, local, made, announced>>

UndoLocally(c) ==
    /\ pc[c] = "advised"
    /\ local' = [local EXCEPT ![c] =
                    [t \in Tags |->
                        IF t \in {RootTag(plan[c].version),
                                  GoTag(plan[c].version)}
                        THEN NoTag ELSE local[c][t]]]
    /\ GoTo(c, "idle")
    /\ UNCHANGED <<main, head, remote, made, announced>>

MergeToMain ==
    /\ main < MaxMain
    /\ main' = main + 1
    /\ UNCHANGED <<head, remote, local, pc, plan, made, announced>>

CommitLocally(c) ==
    /\ Resting(c)
    /\ head' = [head EXCEPT ![c] = Unpublished]
    /\ UNCHANGED <<main, remote, local, pc, plan, made, announced>>

Pull(c) ==
    /\ Resting(c)
    /\ head' = [head EXCEPT ![c] = main]
    /\ UNCHANGED <<main, remote, local, pc, plan, made, announced>>

Next ==
    \/ \E c \in Clones :
        \/ Start(c) \/ Fetch(c) \/ CheckRoot(c) \/ CheckGo(c)
        \/ CreateRoot(c) \/ CreateGo(c) \/ PushRoot(c) \/ PushGo(c)
        \/ Interrupt(c) \/ PushByHand(c) \/ UndoLocally(c)
        \/ CommitLocally(c) \/ Pull(c)
    \/ MergeToMain

Spec == Init /\ [][Next]_vars

-----------------------------------------------------------------------------
Points ==
    {"idle", "chosen", "synced", "root_free", "both_free", "root_made",
     "tagged", "root_taken", "root_refused", "advised"}

TypeOK ==
    /\ main \in Nat \ {0}
    /\ head \in [Clones -> Nat]
    /\ remote \in [Tags -> TagObject \cup {NoTag}]
    /\ local \in [Clones -> [Tags -> TagObject \cup {NoTag}]]
    /\ pc \in [Clones -> Points]
    /\ plan \in [Clones -> [arg : Args, version : Versions, push : BOOLEAN]]
    /\ made \in Nat
    /\ announced \subseteq [version : Versions, root : TagObject,
                            go : TagObject]

(* release.sh, MAIN_BRANCH "branch that releases must be cut from": every  *)
(* tag anyone can fetch points to a commit of the remote main, whatever    *)
(* was committed, merged or interrupted while runs were under way.         *)
ReleasedFromMain ==
    \A t \in Tags : remote[t] # NoTag => remote[t].commit \in 1..main

(* "Pushed." is the truth, for good: the remote has both tags, the ones    *)
(* this run made, on one commit.                                           *)
AnnouncedIsPublished ==
    \A a \in announced :
        /\ remote[RootTag(a.version)] = a.root
        /\ remote[GoTag(a.version)] = a.go
        /\ a.root.commit = a.go.commit

(* Two releasers who race for a version never both believe they won.       *)
OneReleasePerVersion ==
    \A a, b \in announced : a.version = b.version => a = b

(* Line 126, "(Or run again with PUSH=1, ...)": after a run that did not   *)
(* push, the same command with PUSH=1 is about the same version.           *)
RunAgainPushesSameVersion ==
    [][\A c \in Clones :
        (/\ pc[c] = "advised" /\ pc'[c] = "chosen"
         /\ plan'[c].push /\ plan'[c].arg = plan[c].arg)
        => plan'[c].version = plan[c].version]_<<pc, plan>>
=============================================================================

------------------------------- MODULE Tracker -------------------------------
(***************************************************************************)
(* The track-alpine workflow (.github/workflows/track-alpine.yml): a job   *)
(* that reads Alpine's index as a version oracle, rebuilds the ports that  *)
(* bumped with tools/ci_build.sh, packs them with tools/pack_repo.py and   *)
(* pushes the result, while Alpine releases and others push to the mirror. *)
(*                                                                         *)
(* The runner's checkout is private to the job and dies with it, so a port *)
(* is built and packed in one step.  GitHub runs a step's script with      *)
(* bash -e, ends the job at the first step that fails, and skips a step    *)
(* whose `if' has no status function once a step has failed.               *)
(***************************************************************************)
EXTENDS Package

CONSTANTS
    Ports,       \* the tracked packages, in the order of tools/ports.json
    Seed,        \* per package, the versions published at first, in order
    Releases,    \* per package, the upstream versions Alpine ships, in order
    Broken,      \* the <<name, upstream version>> whose port does not build
    MaxFaults,   \* bound on the faults of a behaviour (network, toolchain)
    MaxOther,    \* bound on the commits others push
    MaxForce     \* bound on the dispatches with a force input

(* The versions of Versions without their -rN. *)
Upstreams == {Upstream(v) : v \in Versions}

ASSUME PortsAssumption ==
    /\ Ports \in Seq(Names)
    /\ Seed \in [Names -> Seq(Versions) \ {<<>>}]
    /\ \A n \in Names : \A i \in 1..Len(Seed[n]) : Vercmp(Seed[n][i], Last(Seed[n])) <= 0
    /\ Payloads # {}
    /\ Releases \in [Names -> Seq(Upstreams)]
    /\ \A up \in Upstreams : WithRev(up, 0) \in Versions
    /\ {MaxFaults, MaxOther, MaxForce} \subseteq Nat

ASSUME OrderAssumption == VercmpOrders(Versions)

VARIABLES
    alpine,     \* per package, how many of its releases Alpine has shipped
    remote,     \* the tree the static host serves
    base,       \* the tree the job checked out
    tree,       \* the job's working tree
    behind,     \* others have pushed since the checkout
    step,       \* the step the job is at; "idle" between jobs
    force,      \* the job's force input
    bumps,      \* the ports of the oracle's output still to be rebuilt
    planned,    \* all of the oracle's output, each at its place
    FAILED,     \* the FAILED variable of the rebuild step
    broke,      \* a port failed to build or to pack in this job
    result,     \* how the last job ended
    issue,      \* the last job opened an issue
    faults, others, forces   \* counters for the bounds

vars == <<alpine, remote, base, tree, behind, step, force, bumps, planned, FAILED, broke,
          result, issue, faults, others, forces>>
bounds == <<faults, others, forces>>

(* The mirror at first: every package published, cards included. *)
FirstGz(n, v) == [name |-> n, ver |-> v, payload |-> CHOOSE p \in Payloads : TRUE]

FirstTree ==
    [blobs |-> [f \in Files |-> IF f[2] \in Range(Seed[f[1]]) THEN FirstGz(f[1], f[2]) ELSE None],
     index |-> [n \in Names |-> LET v == Last(Seed[n]) IN EntryOf(<<n, v>>, FirstGz(n, v))],
     cards |-> [n \in Names |-> LET v == Last(Seed[n]) IN [ver |-> v, bs |-> FirstGz(n, v)]]]

Init ==
    /\ alpine = [n \in Names |-> IF Releases[n] = <<>> THEN 0 ELSE 1]
    /\ remote = FirstTree /\ base = EmptyTree /\ tree = EmptyTree /\ behind = FALSE
    /\ step = "idle" /\ force = None /\ bumps = {} /\ planned = {}
    /\ FAILED = FALSE /\ broke = FALSE /\ result = "none" /\ issue = FALSE
    /\ faults = 0 /\ others = 0 /\ forces = 0
-----------------------------------------------------------------------------
(* The job ends: its checkout and variables are gone. *)
EndJob(how, opened) ==
    /\ step' = "idle" /\ result' = how /\ issue' = opened
    /\ base' = EmptyTree /\ tree' = EmptyTree /\ behind' = FALSE
    /\ force' = None /\ bumps' = {} /\ FAILED' = FALSE

(* The schedule, or a dispatch with a force input; actions/checkout. *)
Start(f) ==
    /\ step = "idle"
    /\ f # None => forces < MaxForce
    /\ forces' = IF f = None THEN forces ELSE forces + 1
    /\ step' = "oracle" /\ force' = f
    /\ base' = remote /\ tree' = remote /\ behind' = FALSE
    /\ planned' = {} /\ broke' = FALSE /\ result' = "none" /\ issue' = FALSE
    /\ UNCHANGED <<alpine, remote, bumps, FAILED, faults, others>>

(* our_up: an unindexed package counts as version 0. *)
OurUp(n) == IF tree.index[n] = None THEN <<<<0>>>> ELSE Upstream(tree.index[n].ver)

(* The ports Alpine has that bumped, or are forced, at Alpine's version;    *)
(* then a forced package that is not among them, at its own version.        *)
Listed ==
    {i \in 1..Len(Ports) :
        LET n == Ports[i] IN
        /\ alpine[n] > 0
        /\ n = force \/ Vercmp(Releases[n][alpine[n]], OurUp(n)) > 0}

Bumps ==
    {[at |-> i, name |-> Ports[i], up |-> Releases[Ports[i]][alpine[Ports[i]]]] : i \in Listed}
    \cup (IF force # None /\ \A i \in Listed : Ports[i] # force
          THEN {[at |-> Len(Ports) + 1, name |-> force, up |-> OurUp(force)]}
          ELSE {})

Oracle ==
    /\ step = "oracle"
    /\ planned' = Bumps
    /\ \/ planned' = {} /\ EndJob("success", FALSE)
       \/ /\ planned' # {}
          /\ bumps' = planned' /\ step' = "guest"
          /\ UNCHANGED <<base, tree, behind, force, FAILED, result, issue>>
    /\ UNCHANGED <<alpine, remote, broke, bounds>>

(* A step's command fails before any port is built: the index cannot be     *)
(* fetched, the SDK cannot be installed, guest/build.sh fails.              *)
StepFails ==
    /\ step \in {"oracle", "guest"} /\ faults < MaxFaults
    /\ faults' = faults + 1
    /\ EndJob("failure", FALSE)
    /\ UNCHANGED <<alpine, remote, planned, broke, others, forces>>

(* wasi-sdk is installed and busybox built; the loop over the bumps starts. *)
GuestBuilt ==
    /\ step = "guest"
    /\ step' = "loop" /\ FAILED' = FALSE
    /\ UNCHANGED <<alpine, remote, base, tree, behind, force, bumps, planned, broke, result, issue, bounds>>

(* The loop takes the oracle's lines in their order. *)
HeadOf(b) == b \in bumps /\ \A c \in bumps : b.at <= c.at

PortFailed == FAILED' = TRUE /\ broke' = TRUE

(* Mutant: the first failure ends the loop. *)
PortBreaksLoop ==
    /\ step = "loop"
    /\ \E b \in bumps :
          /\ HeadOf(b)
          /\ \/ <<b.name, b.up>> \in Broken /\ UNCHANGED faults
             \/ faults < MaxFaults /\ faults' = faults + 1
    /\ bumps' = {}
    /\ PortFailed
    /\ UNCHANGED <<alpine, remote, base, tree, behind, step, force, planned, result, issue, others, forces>>

(* ci_build.sh fails, leaving the tree as it was. *)
PortBreaks ==
    /\ step = "loop"
    /\ \E b \in bumps :
          /\ HeadOf(b)
          /\ \/ <<b.name, b.up>> \in Broken /\ UNCHANGED faults
             \/ faults < MaxFaults /\ faults' = faults + 1
          /\ bumps' = bumps \ {b}
    /\ PortFailed
    /\ UNCHANGED <<alpine, remote, base, tree, behind, step, force, planned, result, issue, others, forces>>

(* Mutant: the blob is indexed but not written. *)
PackedNoBlob(t, written) == {[t EXCEPT !.index = ix] : ix \in Reindex(written.blobs)}

(* Mutant: the index is not rebuilt. *)
PackedNoIndex(t, written) == {written}

(* pack_repo.py of a gz it does not refuse: the blob is written over t,     *)
(* then the index.                                                          *)
Packed(t, written) == {[written EXCEPT !.index = ix] : ix \in Reindex(written.blobs)}

(* ci_build.sh succeeds (the recipe has written the package's cards), and   *)
(* pack_repo.py packs the stage at "$VER-r0": it refuses other bytes, and   *)
(* its verify comes after the blob and the index are written.               *)
Carded(b, gz) == PackCards(tree, b.name, gz.ver, gz)

(* Mutant: a failed pack_repo.py is not noted. *)
PortRefusedSilently(b, gz) ==
    /\ tree.blobs[<<b.name, gz.ver>>] \notin {None, gz}
    /\ tree' = Carded(b, gz)
    /\ broke' = TRUE /\ UNCHANGED FAILED

PortRefused(b, gz) ==
    /\ tree.blobs[<<b.name, gz.ver>>] \notin {None, gz}
    /\ tree' = Carded(b, gz)
    /\ PortFailed

(* Mutant: a blob with other bytes is overwritten. *)
PortPackedOver(b, gz) ==
    /\ \E carded \in {Carded(b, gz)} : \E written \in {WriteBlob(carded, <<b.name, gz.ver>>, gz)} :
       \E packed \in Packed(carded, written) :
          /\ tree' = packed
          /\ IF Verify(packed) THEN UNCHANGED <<FAILED, broke>> ELSE PortFailed

PortPacked(b, gz) ==
    /\ tree.blobs[<<b.name, gz.ver>>] \in {None, gz}
    /\ \E carded \in {Carded(b, gz)} : \E written \in {WriteBlob(carded, <<b.name, gz.ver>>, gz)} :
       \E packed \in Packed(carded, written) :
          /\ tree' = packed
          /\ IF Verify(packed) THEN UNCHANGED <<FAILED, broke>> ELSE PortFailed

PortBuilt(p) ==
    /\ step = "loop"
    /\ \E b \in bumps : \E gz \in {BuildGz(FreshStage(p), b.name, WithRev(b.up, 0))} :
          /\ HeadOf(b) /\ <<b.name, b.up>> \notin Broken
          /\ PortRefused(b, gz) \/ PortPacked(b, gz)
          /\ bumps' = bumps \ {b}
    /\ UNCHANGED <<alpine, remote, base, behind, step, force, planned, result, issue, bounds>>

(* The loop is over; FAILED is exported to the later steps. *)
LoopDone ==
    /\ step = "loop" /\ bumps = {}
    /\ step' = "push"
    /\ UNCHANGED <<alpine, remote, base, tree, behind, force, bumps, planned, FAILED, broke, result, issue, bounds>>

(* Mutant: git push --force. *)
PushStepForced ==
    /\ step = "push"
    /\ remote' = tree /\ step' = "issue"
    /\ UNCHANGED <<base, tree, behind, force, bumps, FAILED, result, issue,
                   alpine, planned, broke, bounds>>

(* git add -A; with nothing staged the step is done, else commit and push,  *)
(* which fails the step when others have pushed since the checkout.         *)
PushStep ==
    /\ step = "push"
    /\ \/ /\ tree = base
          /\ step' = "issue"
          /\ UNCHANGED <<remote, base, tree, behind, force, bumps, FAILED, result, issue>>
       \/ /\ tree # base /\ ~behind
          /\ remote' = tree /\ step' = "issue"
          /\ UNCHANGED <<base, tree, behind, force, bumps, FAILED, result, issue>>
       \/ /\ tree # base /\ behind
          /\ EndJob("failure", FALSE)
          /\ UNCHANGED remote
    /\ UNCHANGED <<alpine, planned, broke, bounds>>

(* The last step runs when FAILED is 1 and no step has failed. *)
IssueStep ==
    /\ step = "issue"
    /\ EndJob("success", FAILED)
    /\ UNCHANGED <<alpine, remote, planned, broke, bounds>>

(* git push, or gh issue create, cannot reach GitHub. *)
GitHubFails ==
    /\ (step = "push" /\ tree # base) \/ (step = "issue" /\ FAILED)
    /\ faults < MaxFaults /\ faults' = faults + 1
    /\ EndJob("failure", FALSE)
    /\ UNCHANGED <<alpine, remote, planned, broke, others, forces>>
-----------------------------------------------------------------------------
(* Alpine ships the next release of a package. *)
AlpineReleases(n) ==
    /\ alpine[n] < Len(Releases[n])
    /\ alpine' = [alpine EXCEPT ![n] = @ + 1]
    /\ UNCHANGED <<remote, base, tree, behind, step, force, bumps, planned, FAILED, broke,
                   result, issue, bounds>>

(* A maintainer publishes with pack_repo.py --publish. *)
OtherPush(n, v, p) ==
    /\ others < MaxOther
    /\ remote.blobs[<<n, v>>] = None
    /\ Verify(OtherTree(remote, n, v, p))
    /\ remote' = OtherTree(remote, n, v, p)
    /\ behind' = (step # "idle")
    /\ others' = others + 1
    /\ UNCHANGED <<alpine, base, tree, step, force, bumps, planned, FAILED, broke,
                   result, issue, faults, forces>>

Job == Oracle \/ GuestBuilt \/ PortBreaks \/ (\E p \in Payloads : PortBuilt(p))
       \/ LoopDone \/ PushStep \/ IssueStep

Next ==
    \/ \E f \in Names \cup {None} : Start(f)
    \/ Job \/ StepFails \/ GitHubFails
    \/ \E n \in Names : AlpineReleases(n)
    \/ \E n \in Names, v \in Versions, p \in Payloads : OtherPush(n, v, p)

(* The cron schedule starts jobs, and a job that was started ends: it has   *)
(* finitely many steps, and the runner ends one that does not end itself.   *)
Fairness == WF_vars(Start(None)) /\ []<>(step = "idle")

Spec == Init /\ [][Next]_vars
FairSpec == Spec /\ Fairness
-----------------------------------------------------------------------------
TypeOK ==
    /\ alpine \in [Names -> Nat]
    /\ remote \in Tree /\ base \in Tree /\ tree \in Tree
    /\ step \in {"idle", "oracle", "guest", "loop", "push", "issue"}
    /\ force \in Names \cup {None}
    /\ {behind, FAILED, broke, issue} \subseteq BOOLEAN
    /\ result \in {"none", "success", "failure"}

(* The mirror never serves an index entry without its blob, whatever ports  *)
(* fail and whoever else pushes.                                            *)
ServedBacked == Backed(remote)

(* Served blobs never change or go away. *)
BlobsImmutable == [][KeepsBlobs(remote, remote')]_vars

(* "the old version keeps serving" (track-alpine.yml:8): the served version *)
(* of a package never goes down or away, through failed builds, refused     *)
(* packs and rejected pushes.                                               *)
OldKeepsServing ==
    [][\A n \in Names : remote.index[n] # None =>
          /\ remote'.index[n] # None
          /\ Vercmp(remote'.index[n].ver, remote.index[n].ver) >= 0]_vars

(* A job that ends with no port failed and no step failed has every port it *)
(* set out to rebuild served, at that upstream version or a higher one.     *)
BumpIsServed ==
    (step = "idle" /\ result = "success" /\ ~broke) =>
        \A b \in planned :
            /\ remote.index[b.name] # None
            /\ Vercmp(Upstream(remote.index[b.name].ver), b.up) >= 0

(* "A build failure opens an issue" (track-alpine.yml:8), in a job whose    *)
(* steps all succeed.  (When the push fails the step of the issue, whose    *)
(* `if' has no status function, is skipped and none is opened.)             *)
FailureOpensIssue == (step = "idle" /\ result = "success" /\ broke) => issue

(* No card of the served tree disagrees with the blob of its version. *)
ServedCoherent == Coherent(remote)

(* The port follows Alpine: a tracked package whose current release builds  *)
(* is eventually served at it, whatever the other ports' builds do, once    *)
(* faults and other pushes cease.                                           *)
Follows(n) ==
    \/ <<n, Releases[n][alpine[n]]>> \in Broken
    \/ Vercmp(Upstream(remote.index[n].ver), Releases[n][alpine[n]]) >= 0
FollowsAlpine == <>[](\A i \in 1..Len(Ports) : Follows(Ports[i]))
=============================================================================

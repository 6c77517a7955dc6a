------------------------------ MODULE PackRepo -------------------------------
(***************************************************************************)
(* tools/pack_repo.py in a maintainer's checkout of the mirror: packing a  *)
(* staged package, reindexing, verifying and publishing, with the git      *)
(* remote that serves the mirror and another publisher pushing to it.      *)
(*                                                                         *)
(* The loop of reindex is taken a blob at a time, so that an interrupt can *)
(* fall between any two of the steps that touch the disk.                  *)
(***************************************************************************)
EXTENDS Package

CONSTANTS
    MaxBuilds,   \* bound on the recipe runs of a behaviour
    MaxOther     \* bound on the commits others push

ASSUME BoundAssumption == MaxBuilds \in Nat /\ MaxOther \in Nat

VARIABLES
    tree,      \* the working tree
    stage,     \* guest/pkgs/<name>/stage (not under git)
    head,      \* the tree of the local HEAD commit
    ahead,     \* HEAD has commits the remote lacks
    behind,    \* the remote has commits HEAD lacks
    remote,    \* the tree the static host serves
    pc,        \* where pack_repo.py is; "idle" when it is not running
    job,       \* its arguments
    pos,       \* reindex: files scanned so far
    byName,    \* reindex: by_name
    rc,        \* exit status of the last run
    builds, others   \* counters for the bounds

vars == <<tree, stage, head, ahead, behind, remote, pc, job, pos, byName, rc, builds, others>>
gitVars == <<head, ahead, behind, remote>>
runVars == <<pc, job, pos, byName, rc>>

Jobs == [name : Names \cup {None}, ver : Versions \cup {None}, publish : BOOLEAN]
NoJob == [name |-> None, ver |-> None, publish |-> FALSE]
-----------------------------------------------------------------------------
Init ==
    /\ remote = EmptyTree
    /\ tree = EmptyTree /\ head = EmptyTree
    /\ ahead = FALSE /\ behind = FALSE
    /\ stage = NoStages
    /\ pc = "idle" /\ job = NoJob /\ pos = 0 /\ byName = NoEntries /\ rc = "none"
    /\ builds = 0 /\ others = 0

(* A recipe (guest/pkgs/<name>/build.sh) that succeeds: the stage is made   *)
(* anew and pack_pkg writes its .PKGINFO and the package's cards.           *)
Recipe(n, v, p) ==
    /\ pc = "idle" /\ builds < MaxBuilds
    /\ stage' = [stage EXCEPT ![n] = StageEntries(FreshStage(p), v)]
    /\ tree' = PackCards(tree, n, v, BuildGz(FreshStage(p), n, v))
    /\ builds' = builds + 1
    /\ UNCHANGED <<gitVars, runVars, others>>

(* A recipe whose package is too large for a manifest card: pack_pkg has    *)
(* staged the .PKGINFO and exits before it touches a card.                  *)
RecipeTooLarge(n, v, p) ==
    /\ pc = "idle" /\ builds < MaxBuilds
    /\ stage' = [stage EXCEPT ![n] = StageEntries(FreshStage(p), v)]
    /\ builds' = builds + 1
    /\ UNCHANGED <<tree, gitVars, runVars, others>>

(* Mutant: the first blob is skipped. *)
StartScanSkips == pc' = "scan" /\ pos' = 1 /\ byName' = NoEntries

(* by_name is a local of reindex: it starts and ends empty. *)
StartScan == pc' = "scan" /\ pos' = 0 /\ byName' = NoEntries

Finish(status) ==
    /\ pc' = "idle" /\ rc' = status
    /\ pos' = 0 /\ byName' = NoEntries
    /\ UNCHANGED job

(* Mutant: a blob is overwritten. *)
RefusesNothing(n, v, gz) == FALSE

(* main, up to the reindex: refuse a blob that exists with other bytes,     *)
(* leave one with the same bytes alone, write one that is not there.        *)
Refuses(n, v, gz) == tree.blobs[<<n, v>>] \notin {None, gz}

Pack(n, v, publish) ==
    /\ pc = "idle" /\ stage[n] # None
    /\ job' = [name |-> n, ver |-> v, publish |-> publish]
    /\ stage' = [stage EXCEPT ![n] = StageEntries(@, v)]
    /\ LET gz == BuildGz(stage[n], n, v) IN
       \/ /\ Refuses(n, v, gz)
          /\ rc' = "failed"
          /\ UNCHANGED <<tree, pc, pos, byName>>
       \/ /\ ~Refuses(n, v, gz)
          /\ tree' = WriteBlob(tree, <<n, v>>, gz)
          /\ StartScan
          /\ rc' = "none"
    /\ UNCHANGED <<gitVars, builds, others>>

(* main --reindex *)
ReindexOnly(publish) ==
    /\ pc = "idle"
    /\ job' = [NoJob EXCEPT !.publish = publish]
    /\ StartScan
    /\ rc' = "none"
    /\ UNCHANGED <<tree, stage, gitVars, builds, others>>

(* One iteration of the loop of reindex. *)
ScanOne ==
    /\ pc = "scan" /\ pos < Len(ScanOrder)
    /\ pos' = pos + 1
    /\ LET f == ScanOrder[pos + 1] IN
       byName' = IF tree.blobs[f] = None THEN byName ELSE Consider(byName, f, tree.blobs[f])
    /\ UNCHANGED <<tree, stage, gitVars, pc, job, rc, builds, others>>

WriteIndex ==
    /\ pc = "scan" /\ pos = Len(ScanOrder)
    /\ tree' = [tree EXCEPT !.index = byName]
    /\ pc' = "verify"
    /\ pos' = 0 /\ byName' = NoEntries
    /\ UNCHANGED <<stage, gitVars, job, rc, builds, others>>

(* Mutant: a failed verify does not end the run. *)
VerifyStepIgnored ==
    /\ pc = "verify"
    /\ \/ ~job.publish /\ Finish("ok")
       \/ job.publish /\ pc' = "publish" /\ UNCHANGED <<job, pos, byName, rc>>
    /\ UNCHANGED <<tree, stage, gitVars, builds, others>>

VerifyStep ==
    /\ pc = "verify"
    /\ \/ ~Verify(tree) /\ Finish("failed")
       \/ Verify(tree) /\ ~job.publish /\ Finish("ok")
       \/ /\ Verify(tree) /\ job.publish
          /\ pc' = "publish"
          /\ UNCHANGED <<job, pos, byName, rc>>
    /\ UNCHANGED <<tree, stage, gitVars, builds, others>>

(* publish: git add -A and git commit; "nothing to commit" ends the run     *)
(* with success, any other failure with an error.                           *)
Commit ==
    /\ pc = "publish"
    /\ \/ /\ tree = head
          /\ Finish("ok")
          /\ UNCHANGED <<head, ahead>>
       \/ /\ tree # head
          /\ head' = tree /\ ahead' = TRUE
          /\ pc' = "push"
          /\ UNCHANGED <<job, pos, byName, rc>>
       \/ /\ tree # head
          /\ Finish("failed")
          /\ UNCHANGED <<head, ahead>>
    /\ UNCHANGED <<tree, stage, behind, remote, builds, others>>

(* Mutant: git push --force. *)
PushForced ==
    /\ pc = "push"
    /\ remote' = head /\ ahead' = FALSE
    /\ Finish("ok")
    /\ UNCHANGED <<tree, stage, head, behind, builds, others>>

(* git push fast-forwards the remote, or fails: rejected, or no network. *)
Push ==
    /\ pc = "push"
    /\ \/ /\ ~behind
          /\ remote' = head /\ ahead' = FALSE
          /\ Finish("ok")
       \/ Finish("failed") /\ UNCHANGED <<ahead, remote>>
    /\ UNCHANGED <<tree, stage, head, behind, builds, others>>

(* An interrupt between two steps; what was written stays. *)
Interrupt ==
    /\ pc # "idle"
    /\ Finish("failed")
    /\ UNCHANGED <<tree, stage, gitVars, builds, others>>

(* The maintainer starts over from a fresh clone; unpushed work is gone. *)
Clone ==
    /\ pc = "idle" /\ (ahead \/ behind)
    /\ tree' = remote /\ head' = remote
    /\ ahead' = FALSE /\ behind' = FALSE
    /\ stage' = NoStages
    /\ UNCHANGED <<remote, runVars, builds, others>>

(* The other publisher's run gets to its push only when verify passes. *)
OtherPush(n, v, p) ==
    /\ others < MaxOther
    /\ remote.blobs[<<n, v>>] = None
    /\ Verify(OtherTree(remote, n, v, p))
    /\ remote' = OtherTree(remote, n, v, p)
    /\ behind' = TRUE
    /\ others' = others + 1
    /\ UNCHANGED <<tree, stage, head, ahead, runVars, builds>>

Next ==
    \/ \E n \in Names, v \in Versions, p \in Payloads :
          Recipe(n, v, p) \/ RecipeTooLarge(n, v, p) \/ OtherPush(n, v, p)
    \/ \E n \in Names, v \in Versions, publish \in BOOLEAN : Pack(n, v, publish)
    \/ \E publish \in BOOLEAN : ReindexOnly(publish)
    \/ ScanOne \/ WriteIndex \/ VerifyStep \/ Commit \/ Push \/ Interrupt \/ Clone

Spec == Init /\ [][Next]_vars
-----------------------------------------------------------------------------
TypeOK ==
    /\ tree \in Tree /\ head \in Tree /\ remote \in Tree
    /\ stage \in [Names -> Stage \cup {None}]
    /\ ahead \in BOOLEAN /\ behind \in BOOLEAN
    /\ pc \in {"idle", "scan", "verify", "publish", "push"}
    /\ job \in Jobs
    /\ pos \in 0..Len(ScanOrder)
    /\ byName \in [Names -> Entry \cup {None}]
    /\ rc \in {"none", "ok", "failed"}
    /\ builds \in 0..MaxBuilds /\ others \in 0..MaxOther

(* A blob, once served, is served with the same bytes ever after: packing   *)
(* refuses other bytes (pack_repo.py:156-160) and a push is fast-forward.   *)
BlobsImmutable == [][KeepsBlobs(remote, remote')]_vars

(* What is served is always a whole mirror, whatever was interrupted: every *)
(* index entry names a blob that is there, of that package and version and  *)
(* with that hash, and agrees with the card of its version (the verify of   *)
(* pack_repo.py:105-118 stands between the tree and the push).              *)
ServedSound == Backed(remote) /\ Coherent(remote)

(* The served entry of a package is its highest version (pack_repo.py:96),  *)
(* for versions vercmp orders.                                              *)
ServedHighest == Highest(remote)

(* The served version of a package never goes down or away. *)
ServedMonotone ==
    [][\A n \in Names : remote.index[n] # None =>
          /\ remote'.index[n] # None
          /\ Vercmp(remote'.index[n].ver, remote.index[n].ver) >= 0]_vars

(* The scan, taken a blob at a time, ends with the one index in which each  *)
(* package has the highest of its blobs, the first scanned among equals     *)
(* (pack_repo.py:86-102).                                                   *)
ScanIsReindex == (pc = "scan" /\ pos = Len(ScanOrder)) => Reindex(tree.blobs) = {byName}

(* A run that was asked to publish and exits 0 leaves nothing unpushed.     *)
PublishedIsServed == (pc = "idle" /\ rc = "ok" /\ job.publish) => ~ahead
-----------------------------------------------------------------------------
(***************************************************************************)
(* The inductive invariants behind ServedSound, BlobsImmutable and         *)
(* ServedHighest.                                                          *)
(***************************************************************************)

(* Every tree is backed, and so is by_name while it is built; what passed   *)
(* verify stays coherent until it is pushed; no tree loses a blob of the    *)
(* one it came from.                                                        *)
SoundInv ==
    /\ Backed(tree) /\ Backed(head) /\ Backed(remote)
    /\ pc = "scan" => Backs(tree.blobs, byName)
    /\ Coherent(remote)
    /\ pc = "publish" => Coherent(tree)
    /\ pc = "push" => Coherent(head)
    /\ KeepsBlobs(head, tree)
    /\ ~behind => KeepsBlobs(remote, head)

(* by_name tops the files scanned so far, and every tree on its way to the  *)
(* remote is indexed at the highest versions.                               *)
HighestInv ==
    /\ Highest(remote)
    /\ pc \in {"verify", "publish"} => Highest(tree)
    /\ pc = "push" => Highest(head)
    /\ pc = "scan" => \A i \in 1..pos :
           tree.blobs[ScanOrder[i]] # None => Tops(byName, tree.blobs[ScanOrder[i]])
=============================================================================

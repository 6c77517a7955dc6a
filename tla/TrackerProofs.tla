---------------------------- MODULE TrackerProofs ----------------------------
(***************************************************************************)
(* Proofs about Tracker: whatever ports fail, whoever else pushes and      *)
(* wherever the job stops, the mirror stays whole, its blobs stay as they  *)
(* are, no served version goes down, and a failed port is reported.        *)
(***************************************************************************)
EXTENDS Tracker, PackageProofs

(* A tree with an entry for every package, backed and the highest there is. *)
Whole(t) == Backed(t) /\ Highest(t) /\ \A n \in Names : t.index[n] # None

(* What the oracle lists is a tracked package at an upstream version. *)
Listable(b) == b.name \in Names /\ b.up \in Upstreams

TrackTypes ==
    /\ TypeOK
    /\ \A n \in Names : alpine[n] <= Len(Releases[n])
    /\ \A b \in bumps : Listable(b)

(* The mirror is whole, and so is the tree of a running job, which has lost *)
(* no blob of its checkout; until the job pushes, the checkout is the       *)
(* mirror unless others have pushed.                                        *)
MirrorInv ==
    /\ Whole(remote)
    /\ step # "idle" => /\ Whole(tree) /\ KeepsBlobs(base, tree)
                        /\ behind \/ step = "issue" \/ base = remote

(* A port that broke is in FAILED from then on, and in the issue at the end. *)
ReportInv ==
    /\ step \in {"oracle", "guest"} => ~broke
    /\ step # "idle" /\ broke => FAILED
    /\ step = "idle" /\ result = "success" /\ broke => issue
-----------------------------------------------------------------------------
(* Rebuilding the index from the blobs yields a backed index in which every *)
(* blob is topped.                                                          *)
LEMMA ReindexFacts ==
    ASSUME NEW b \in [Files -> Gz \cup {None}], NEW ix \in Reindex(b)
    PROVE  /\ ix \in [Names -> Entry \cup {None}]
           /\ Backs(b, ix)
           /\ \A f \in Files : b[f] # None => Tops(ix, b[f])
<1>1. ix = [n \in Names |-> ix[n]] /\ \A n \in Names : ix[n] \in Picks(b, n)
  BY DEF Reindex
<1>2. ASSUME NEW n \in Names
      PROVE  \/ Ranks(b, n) = {} /\ ix[n] = None
             \/ \E i \in Ranks(b, n) : /\ First(b, n, i)
                                       /\ ix[n] = EntryOf(ScanOrder[i], b[ScanOrder[i]])
  BY <1>1 DEF Picks
<1>3. ASSUME NEW n \in Names, NEW i \in Ranks(b, n)
      PROVE  /\ i \in 1..Len(ScanOrder) /\ ScanOrder[i] \in Files
             /\ b[ScanOrder[i]] \in Gz /\ b[ScanOrder[i]].name = n
  <2>1. i \in 1..Len(ScanOrder) /\ b[ScanOrder[i]] # None /\ b[ScanOrder[i]].name = n
    BY DEF Ranks
  <2>2. ScanOrder[i] \in Files
    BY <2>1, ScanAssumption
  <2> QED
    BY <2>1, <2>2
<1>4. ASSUME NEW n \in Names, ix[n] # None
      PROVE  /\ ix[n] \in Entry
             /\ b[ix[n].file] = ix[n].bs /\ ix[n].bs.name = n /\ ix[n].ver = ix[n].bs.ver
  <2>1. PICK i \in Ranks(b, n) : ix[n] = EntryOf(ScanOrder[i], b[ScanOrder[i]])
    BY <1>2, <1>4
  <2>2. ScanOrder[i] \in Files /\ b[ScanOrder[i]] \in Gz /\ b[ScanOrder[i]].name = n
    BY <1>3
  <2>3. EntryOf(ScanOrder[i], b[ScanOrder[i]]) \in Entry
    BY <2>2 DEF EntryOf, Entry, Gz
  <2> QED
    BY <2>1, <2>2, <2>3 DEF EntryOf
<1>5. ASSUME NEW f \in Files, b[f] # None
      PROVE  Tops(ix, b[f])
  <2> DEFINE n == b[f].name
  <2>1. b[f] \in Gz /\ n \in Names /\ b[f].ver \in Versions
    BY <1>5 DEF Gz
  <2>2. PICK j \in 1..Len(ScanOrder) : ScanOrder[j] = f
    BY ScanAssumption
  <2>3. j \in Ranks(b, n)
    BY <1>5, <2>2 DEF Ranks
  <2>4. PICK i \in Ranks(b, n) :
           First(b, n, i) /\ ix[n] = EntryOf(ScanOrder[i], b[ScanOrder[i]])
    BY <1>2, <2>1, <2>3
  <2> DEFINE g == b[ScanOrder[i]]
  <2>5. g \in Gz /\ g.ver \in Versions /\ ScanOrder[i] \in Files
    BY <1>3, <2>1 DEF Gz
  <2>6. Vercmp(g.ver, b[f].ver) >= 0
    BY <2>2, <2>3, <2>4, VercmpType DEF First
  <2>7. Vercmp(b[f].ver, g.ver) <= 0
    BY <2>1, <2>5, <2>6, OrderAssumption, VercmpType DEF VercmpOrders
  <2>8. ix[n] # None /\ ix[n].ver = g.ver
    BY <2>4, <2>5, NoneIsNone DEF EntryOf, Entry, Gz
  <2> QED
    BY <2>7, <2>8 DEF Tops
<1>6. ix \in [Names -> Entry \cup {None}]
  BY <1>1, <1>4
<1>7. Backs(b, ix)
  BY <1>4 DEF Backs
<1> QED
  BY <1>5, <1>6, <1>7

(* The mirror at first is whole. *)
LEMMA FirstTreeWhole == FirstTree \in Tree /\ Whole(FirstTree)
<1>1. ASSUME NEW n \in Names, NEW v \in Versions
      PROVE  /\ FirstGz(n, v) \in Gz /\ FirstGz(n, v) # None
             /\ FirstGz(n, v).name = n /\ FirstGz(n, v).ver = v
             /\ EntryOf(<<n, v>>, FirstGz(n, v)) \in Entry
  <2>1. FirstGz(n, v) \in Gz /\ FirstGz(n, v).name = n /\ FirstGz(n, v).ver = v
    BY PortsAssumption DEF FirstGz, Gz
  <2> QED
    BY <2>1, NoneIsNone DEF EntryOf, Entry, Files
<1>2. ASSUME NEW n \in Names
      PROVE  /\ Len(Seed[n]) \in 1..Len(Seed[n]) /\ Last(Seed[n]) \in Versions
             /\ Last(Seed[n]) \in Range(Seed[n])
  <2>1. Seed[n] \in Seq(Versions) /\ Seed[n] # <<>>
    BY PortsAssumption
  <2>2. Len(Seed[n]) \in 1..Len(Seed[n])
    BY <2>1
  <2> QED
    BY <2>1, <2>2 DEF Last, Range
<1>3. FirstTree.blobs = [f \in Files |-> IF f[2] \in Range(Seed[f[1]]) THEN FirstGz(f[1], f[2]) ELSE None]
  BY DEF FirstTree
<1>4. FirstTree.index = [n \in Names |-> EntryOf(<<n, Last(Seed[n])>>, FirstGz(n, Last(Seed[n])))]
  BY DEF FirstTree
<1>5. FirstTree \in Tree
  <2>1. FirstTree.blobs \in [Files -> Gz \cup {None}]
    BY <1>1, <1>3 DEF Files
  <2>2. FirstTree.index \in [Names -> Entry \cup {None}]
    BY <1>1, <1>2, <1>4
  <2>3. ASSUME NEW n \in Names
        PROVE  [ver |-> Last(Seed[n]), bs |-> FirstGz(n, Last(Seed[n]))] \in Manifest
    BY <1>1, <1>2 DEF Manifest
  <2>4. FirstTree.cards \in [Names -> Manifest \cup {None}]
    BY <2>3 DEF FirstTree
  <2> QED
    BY <2>1, <2>2, <2>4 DEF FirstTree, Tree
<1>6. ASSUME NEW n \in Names
      PROVE  /\ FirstTree.index[n] # None
             /\ FirstTree.blobs[FirstTree.index[n].file] = FirstTree.index[n].bs
             /\ FirstTree.index[n].bs.name = n
             /\ FirstTree.index[n].ver = FirstTree.index[n].bs.ver
             /\ FirstTree.index[n].ver = Last(Seed[n])
  <2> DEFINE v == Last(Seed[n])
  <2>1. <<n, v>> \in Files /\ v \in Versions /\ v \in Range(Seed[n])
    BY <1>2 DEF Files
  <2>2. FirstTree.index[n] = EntryOf(<<n, v>>, FirstGz(n, v))
    BY <1>4
  <2>3. FirstTree.blobs[<<n, v>>] = FirstGz(n, v)
    BY <1>3, <2>1
  <2> QED
    BY <1>1, <2>1, <2>2, <2>3, NoneIsNone DEF EntryOf
<1>7. ASSUME NEW f \in Files, FirstTree.blobs[f] # None
      PROVE  Tops(FirstTree.index, FirstTree.blobs[f])
  <2>1. f[1] \in Names /\ f[2] \in Versions
    BY DEF Files
  <2>2. f[2] \in Range(Seed[f[1]]) /\ FirstTree.blobs[f] = FirstGz(f[1], f[2])
    BY <1>3, <1>7
  <2>3. PICK i \in DOMAIN Seed[f[1]] : f[2] = Seed[f[1]][i]
    BY <2>2 DEF Range
  <2>4. i \in 1..Len(Seed[f[1]])
    BY <2>1, <2>3, PortsAssumption
  <2>5. Vercmp(f[2], Last(Seed[f[1]])) <= 0
    BY <2>1, <2>3, <2>4, PortsAssumption
  <2>6. FirstTree.blobs[f].name = f[1] /\ FirstTree.blobs[f].ver = f[2]
    BY <2>2 DEF FirstGz
  <2>7. FirstTree.index[f[1]] # None /\ FirstTree.index[f[1]].ver = Last(Seed[f[1]])
    BY <1>6, <2>1
  <2> QED
    BY <2>5, <2>6, <2>7 DEF Tops
<1> QED
  BY <1>5, <1>6, <1>7 DEF Whole, Backed, Backs, Highest

(* A tree that keeps the blobs of a whole one, with an index that is backed *)
(* and highest, is whole.                                                   *)
LEMMA StaysWhole ==
    ASSUME NEW t \in Tree, NEW u \in Tree, Whole(t), KeepsBlobs(t, u), Backed(u), Highest(u)
    PROVE  Whole(u)
BY IndexMonotone, OrderAssumption DEF Whole

(* Packing a gz that pack_repo.py does not refuse. *)
LEMMA PackedFacts ==
    ASSUME NEW t \in Tree, Whole(t), NEW n \in Names, NEW gz \in Gz,
           t.blobs[<<n, gz.ver>>] \in {None, gz},
           NEW u \in Packed(PackCards(t, n, gz.ver, gz),
                            WriteBlob(PackCards(t, n, gz.ver, gz), <<n, gz.ver>>, gz))
    PROVE  u \in Tree /\ Whole(u) /\ KeepsBlobs(t, u)
<1> DEFINE c == PackCards(t, n, gz.ver, gz)
<1> DEFINE w == WriteBlob(c, <<n, gz.ver>>, gz)
<1>1. gz.ver \in Versions /\ <<n, gz.ver>> \in Files
  BY DEF Gz, Files
<1>2. c \in Tree /\ c.blobs = t.blobs
  BY <1>1, PackCardsFacts
<1>3. w \in Tree /\ w.blobs = [t.blobs EXCEPT ![<<n, gz.ver>>] = gz]
  BY <1>1, <1>2, WriteBlobFacts
<1>4. PICK ix \in Reindex(w.blobs) : u = [w EXCEPT !.index = ix]
  BY DEF Packed
<1> HIDE DEF w, c
<1>5. t.blobs \in [Files -> Gz \cup {None}] /\ w.blobs \in [Files -> Gz \cup {None}]
  BY <1>3 DEF Tree
<1>6. /\ ix \in [Names -> Entry \cup {None}] /\ Backs(w.blobs, ix)
      /\ \A f \in Files : w.blobs[f] # None => Tops(ix, w.blobs[f])
  BY <1>5, ReindexFacts
<1>7. u \in Tree /\ u.blobs = w.blobs /\ u.index = ix
  BY <1>3, <1>4, <1>6 DEF Tree
<1>8. KeepsBlobs(t, u)
  BY <1>1, <1>3, <1>5, <1>7 DEF KeepsBlobs
<1>9. Backed(u) /\ Highest(u)
  BY <1>6, <1>7 DEF Backed, Highest
<1> QED
  BY <1>7, <1>8, <1>9, StaysWhole

(* What the other publisher pushes. *)
LEMMA OtherFacts ==
    ASSUME NEW t \in Tree, Whole(t), NEW n \in Names, NEW v \in Versions, NEW p \in Payloads,
           t.blobs[<<n, v>>] = None
    PROVE  /\ OtherTree(t, n, v, p) \in Tree /\ Whole(OtherTree(t, n, v, p))
           /\ KeepsBlobs(t, OtherTree(t, n, v, p))
<1>1. OtherTree(t, n, v, p) \in Tree
  BY OtherTreeFacts DEF Adds
<1>2. Backed(OtherTree(t, n, v, p)) /\ KeepsBlobs(t, OtherTree(t, n, v, p))
  BY OtherTreeBacked DEF Whole
<1>3. Highest(OtherTree(t, n, v, p))
  BY OtherTreeHighest, OrderAssumption DEF Whole
<1> QED
  BY <1>1, <1>2, <1>3, StaysWhole
-----------------------------------------------------------------------------
(* The tree of a job that has ended is empty. *)
LEMMA EmptyIsTree == EmptyTree \in Tree
BY DEF EmptyTree, Tree

(* The version the repository has of a package it indexes, without its -rN. *)
LEMMA OurUpType == ASSUME TrackTypes, MirrorInv, step = "oracle", NEW n \in Names
                   PROVE  OurUp(n) \in Upstreams
<1>1. tree.index[n] \in Entry
  BY DEF TrackTypes, TypeOK, MirrorInv, Whole, Tree
<1>2. tree.index[n].ver \in Versions /\ tree.index[n] # None
  BY <1>1, NoneIsNone DEF Entry
<1> QED
  BY <1>2 DEF OurUp, Upstreams

(* The oracle lists packages at upstream versions. *)
LEMMA BumpsType == ASSUME TrackTypes, MirrorInv, step = "oracle", NEW b \in Bumps
                   PROVE  Listable(b)
<1>1. ASSUME NEW i \in Listed
      PROVE  Ports[i] \in Names /\ Releases[Ports[i]][alpine[Ports[i]]] \in Upstreams
  <2>1. i \in 1..Len(Ports) /\ alpine[Ports[i]] > 0
    BY DEF Listed
  <2>2. Ports[i] \in Names
    BY <2>1, PortsAssumption
  <2>3. alpine[Ports[i]] \in 1..Len(Releases[Ports[i]])
    BY <2>1, <2>2, PortsAssumption DEF TrackTypes, TypeOK
  <2> QED
    BY <2>2, <2>3, PortsAssumption
<1>2. CASE \E i \in Listed : b = [at |-> i, name |-> Ports[i], up |-> Releases[Ports[i]][alpine[Ports[i]]]]
  BY <1>1, <1>2 DEF Listable
<1>3. CASE force # None /\ b = [at |-> Len(Ports) + 1, name |-> force, up |-> OurUp(force)]
  <2>1. force \in Names
    BY <1>3 DEF TrackTypes, TypeOK
  <2> QED
    BY <1>3, <2>1, OurUpType DEF Listable
<1> QED
  BY <1>2, <1>3 DEF Bumps

(* What a port that builds does to the tree: its cards are written, and     *)
(* then either pack_repo.py refuses or the blob and the index are, too.     *)
LEMMA PortBuiltFacts ==
    ASSUME TrackTypes, MirrorInv, NEW p \in Payloads, PortBuilt(p)
    PROVE  tree' \in Tree /\ Whole(tree') /\ KeepsBlobs(tree, tree')
<1>1. PICK b \in bumps :
         LET gz == BuildGz(FreshStage(p), b.name, WithRev(b.up, 0))
         IN  PortRefused(b, gz) \/ PortPacked(b, gz)
  BY DEF PortBuilt
<1> DEFINE gz == BuildGz(FreshStage(p), b.name, WithRev(b.up, 0))
<1>2. b.name \in Names /\ WithRev(b.up, 0) \in Versions
  BY PortsAssumption DEF TrackTypes, Listable
<1>3. gz \in Gz
  BY <1>2, FreshStageFacts
<1>4. tree \in Tree /\ Whole(tree)
  BY DEF PortBuilt, TrackTypes, TypeOK, MirrorInv
<1>5. PortRefused(b, gz) \/ PortPacked(b, gz)
  BY <1>1
<1> HIDE DEF gz
<1>6. CASE PortRefused(b, gz)
  <2>1. tree' = PackCards(tree, b.name, gz.ver, gz)
    BY <1>6 DEF PortRefused, Carded
  <2>2. tree' \in Tree /\ tree'.blobs = tree.blobs /\ tree'.index = tree.index
    BY <1>2, <1>3, <1>4, <2>1, PackCardsFacts DEF Gz
  <2> QED
    BY <1>4, <2>2 DEF Whole, Backed, Highest, KeepsBlobs
<1>7. CASE PortPacked(b, gz)
  <2>1. /\ tree.blobs[<<b.name, gz.ver>>] \in {None, gz}
        /\ tree' \in Packed(PackCards(tree, b.name, gz.ver, gz),
                            WriteBlob(PackCards(tree, b.name, gz.ver, gz), <<b.name, gz.ver>>, gz))
    BY <1>7 DEF PortPacked, Carded
  <2> QED
    BY <1>2, <1>3, <1>4, <2>1, PackedFacts
<1> QED
  BY <1>5, <1>6, <1>7

(* Every step keeps the types. *)
LEMMA TrackTypesStep == TrackTypes /\ MirrorInv /\ [Next]_vars => TrackTypes'
<1> SUFFICES ASSUME TrackTypes, MirrorInv, [Next]_vars PROVE TrackTypes'
  OBVIOUS
<1> USE DEF bounds
<1>0. /\ alpine \in [Names -> Nat] /\ \A n \in Names : alpine[n] <= Len(Releases[n])
      /\ remote \in Tree /\ base \in Tree /\ tree \in Tree
      /\ step \in {"idle", "oracle", "guest", "loop", "push", "issue"}
      /\ force \in Names \cup {None} /\ result \in {"none", "success", "failure"}
      /\ behind \in BOOLEAN /\ FAILED \in BOOLEAN /\ broke \in BOOLEAN /\ issue \in BOOLEAN
      /\ \A b \in bumps : Listable(b)
  BY DEF TrackTypes, TypeOK
<1> DEFINE Data == /\ alpine' \in [Names -> Nat] /\ \A n \in Names : alpine'[n] <= Len(Releases[n])
                   /\ remote' \in Tree /\ base' \in Tree /\ tree' \in Tree
                   /\ step' \in {"idle", "oracle", "guest", "loop", "push", "issue"}
                   /\ force' \in Names \cup {None} /\ result' \in {"none", "success", "failure"}
                   /\ \A b \in bumps' : Listable(b)
<1> DEFINE Flags == /\ behind' \in BOOLEAN /\ FAILED' \in BOOLEAN
                    /\ broke' \in BOOLEAN /\ issue' \in BOOLEAN
<1>a. Data /\ Flags => TrackTypes'
  BY DEF TrackTypes, TypeOK, Listable
<1>b. ASSUME NEW how \in {"success", "failure"}, NEW opened \in BOOLEAN, EndJob(how, opened),
             UNCHANGED <<alpine, remote, broke>>
      PROVE  TrackTypes'
  <2>1. Data
    BY <1>0, <1>b, EmptyIsTree DEF EndJob
  <2>2. Flags
    BY <1>0, <1>b, Zenon DEF EndJob
  <2> QED
    BY <1>a, <2>1, <2>2
<1>1. ASSUME NEW f \in Names \cup {None}, Start(f) PROVE TrackTypes'
  <2>1. Data
    BY <1>0, <1>1 DEF Start
  <2>2. Flags
    BY <1>0, <1>1, Zenon DEF Start
  <2> QED
    BY <1>a, <2>1, <2>2
<1>2. CASE Oracle
  <2>1. CASE EndJob("success", FALSE)
    BY <1>2, <1>b, <2>1 DEF Oracle
  <2>2. CASE ~EndJob("success", FALSE)
    <3>1. Data
      BY <1>0, <1>2, <2>2, BumpsType DEF Oracle
    <3>2. Flags
      BY <1>0, <1>2, <2>2, Zenon DEF Oracle
    <3> QED
      BY <1>a, <3>1, <3>2
  <2> QED
    BY <2>1, <2>2
<1>3. CASE GuestBuilt
  <2>1. Data
    BY <1>0, <1>3 DEF GuestBuilt
  <2>2. Flags
    BY <1>0, <1>3, Zenon DEF GuestBuilt
  <2> QED
    BY <1>a, <2>1, <2>2
<1>4. CASE PortBreaks
  <2>1. Data
    BY <1>0, <1>4 DEF PortBreaks
  <2>2. Flags
    BY <1>0, <1>4, Zenon DEF PortBreaks, PortFailed
  <2> QED
    BY <1>a, <2>1, <2>2
<1>5. ASSUME NEW p \in Payloads, PortBuilt(p) PROVE TrackTypes'
  <2>1. tree' \in Tree
    BY <1>5, PortBuiltFacts
  <2>2. Data
    BY <1>0, <1>5, <2>1 DEF PortBuilt
  <2>3. UNCHANGED <<behind, issue>>
    BY <1>5 DEF PortBuilt
  <2>4. PortFailed \/ UNCHANGED <<FAILED, broke>>
    BY <1>5, Zenon DEF PortBuilt, PortRefused, PortPacked
  <2>5. Flags
    BY <1>0, <2>3, <2>4, Zenon DEF PortFailed
  <2> QED
    BY <1>a, <2>2, <2>5
<1>6. CASE LoopDone
  <2>1. Data
    BY <1>0, <1>6 DEF LoopDone
  <2>2. Flags
    BY <1>0, <1>6, Zenon DEF LoopDone
  <2> QED
    BY <1>a, <2>1, <2>2
<1>7. CASE PushStep
  <2>1. CASE EndJob("failure", FALSE) /\ UNCHANGED remote
    BY <1>7, <1>b, <2>1 DEF PushStep
  <2>2. CASE ~(EndJob("failure", FALSE) /\ UNCHANGED remote)
    <3>1. Data
      BY <1>0, <1>7, <2>2 DEF PushStep
    <3>2. Flags
      BY <1>0, <1>7, <2>2, Zenon DEF PushStep
    <3> QED
      BY <1>a, <3>1, <3>2
  <2> QED
    BY <2>1, <2>2
<1>8. CASE IssueStep
  BY <1>0, <1>8, <1>b DEF IssueStep
<1>9. CASE StepFails \/ GitHubFails
  BY <1>9, <1>b DEF StepFails, GitHubFails
<1>10. ASSUME NEW n \in Names, AlpineReleases(n) PROVE TrackTypes'
  <2>1. Data
    BY <1>0, <1>10, PortsAssumption DEF AlpineReleases
  <2>2. Flags
    BY <1>0, <1>10, Zenon DEF AlpineReleases
  <2> QED
    BY <1>a, <2>1, <2>2
<1>11. ASSUME NEW n \in Names, NEW v \in Versions, NEW p \in Payloads, OtherPush(n, v, p)
       PROVE  TrackTypes'
  <2>1. Data
    BY <1>0, <1>11, OtherFacts DEF OtherPush, MirrorInv
  <2>2. Flags
    BY <1>0, <1>11, Zenon DEF OtherPush
  <2> QED
    BY <1>a, <2>1, <2>2
<1>12. CASE UNCHANGED vars
  BY <1>0, <1>12, <1>a, Zenon DEF vars
<1> QED
  BY <1>1, <1>2, <1>3, <1>4, <1>5, <1>6, <1>7, <1>8, <1>9, <1>10, <1>11, <1>12 DEF Next, Job

(* Every step keeps the mirror and the tree of the job whole. *)
LEMMA MirrorStep == TrackTypes /\ MirrorInv /\ [Next]_vars => MirrorInv'
<1> SUFFICES ASSUME TrackTypes, MirrorInv, [Next]_vars PROVE MirrorInv'
  OBVIOUS
<1> USE DEF bounds
<1>0. remote \in Tree /\ Whole(remote)
  BY DEF TrackTypes, TypeOK, MirrorInv
<1>a. ASSUME NEW how, NEW opened, EndJob(how, opened), UNCHANGED remote
      PROVE  MirrorInv'
  BY <1>0, <1>a DEF EndJob, MirrorInv, Whole
<1>b. ASSUME UNCHANGED <<remote, base, tree, behind>>, step \notin {"idle", "issue"}
      PROVE  MirrorInv'
  BY <1>b DEF MirrorInv, Whole
<1>1. ASSUME NEW f \in Names \cup {None}, Start(f) PROVE MirrorInv'
  <2>1. base' = remote /\ tree' = remote /\ remote' = remote
    BY <1>1 DEF Start
  <2> QED
    BY <1>0, <2>1 DEF MirrorInv, KeepsBlobs, Whole
<1>2. CASE Oracle
  BY <1>2, <1>a, <1>b DEF Oracle
<1>3. CASE GuestBuilt \/ PortBreaks \/ LoopDone
  BY <1>3, <1>b DEF GuestBuilt, PortBreaks, LoopDone
<1>4. ASSUME NEW p \in Payloads, PortBuilt(p) PROVE MirrorInv'
  <2>1. Whole(tree') /\ KeepsBlobs(tree, tree')
    BY <1>4, PortBuiltFacts
  <2>2. UNCHANGED <<remote, base, behind, step>> /\ step = "loop"
    BY <1>4 DEF PortBuilt
  <2>3. KeepsBlobs(base, tree) /\ (behind \/ base = remote)
    BY <2>2 DEF MirrorInv
  <2>4. KeepsBlobs(base, tree')
    BY <2>1, <2>3 DEF KeepsBlobs
  <2>5. Whole(remote')
    BY <1>0, <2>2
  <2> QED
    BY <2>1, <2>2, <2>3, <2>4, <2>5 DEF MirrorInv, Whole
<1>5. CASE PushStep
  <2>1. CASE tree = base
    BY <1>5, <2>1, <1>b DEF PushStep
  <2>2. CASE tree # base /\ ~behind
    <3>1. remote' = tree /\ UNCHANGED <<base, tree, behind>> /\ step = "push"
      BY <1>5, <2>2 DEF PushStep
    <3>2. Whole(tree) /\ KeepsBlobs(base, tree)
      BY <3>1 DEF MirrorInv
    <3>3. step' = "issue"
      BY <1>5, <2>2 DEF PushStep
    <3> QED
      BY <3>1, <3>2, <3>3 DEF MirrorInv
  <2>3. CASE tree # base /\ behind
    BY <1>5, <2>3, <1>a DEF PushStep
  <2> QED
    BY <2>1, <2>2, <2>3
<1>6. CASE IssueStep \/ StepFails \/ GitHubFails
  BY <1>6, <1>a DEF IssueStep, StepFails, GitHubFails
<1>7. ASSUME NEW n \in Names, AlpineReleases(n) PROVE MirrorInv'
  BY <1>7 DEF AlpineReleases, MirrorInv, Whole
<1>8. ASSUME NEW n \in Names, NEW v \in Versions, NEW p \in Payloads, OtherPush(n, v, p)
      PROVE  MirrorInv'
  <2>1. Whole(remote')
    BY <1>0, <1>8, OtherFacts DEF OtherPush
  <2>2. UNCHANGED <<base, tree, step>> /\ (step # "idle" => behind')
    BY <1>8 DEF OtherPush
  <2>3. step # "idle" => Whole(tree) /\ KeepsBlobs(base, tree)
    BY DEF MirrorInv
  <2> QED
    BY <2>1, <2>2, <2>3 DEF MirrorInv, Whole
<1>9. CASE UNCHANGED vars
  BY <1>9 DEF vars, MirrorInv, Whole
<1> QED
  BY <1>1, <1>2, <1>3, <1>4, <1>5, <1>6, <1>7, <1>8, <1>9 DEF Next, Job

(* The job starts with the types and the mirror as they should be. *)
LEMMA TrackStart == Init => TrackTypes /\ MirrorInv
<1> SUFFICES ASSUME Init PROVE TrackTypes /\ MirrorInv
  OBVIOUS
<1>1. ASSUME NEW n \in Names PROVE alpine[n] \in Nat /\ alpine[n] <= Len(Releases[n])
  <2>1. Releases[n] \in Seq(Upstreams)
    BY PortsAssumption
  <2>2. alpine[n] = IF Releases[n] = <<>> THEN 0 ELSE 1
    BY DEF Init
  <2> QED
    BY <2>1, <2>2
<1>2. alpine \in [Names -> Nat]
  BY <1>1 DEF Init
<1>3. {behind, FAILED, broke, issue} \subseteq BOOLEAN
  BY Zenon DEF Init
<1>4. remote \in Tree /\ base \in Tree /\ tree \in Tree /\ Whole(remote) /\ step = "idle"
  BY FirstTreeWhole, EmptyIsTree, Zenon DEF Init
<1>5. force = None /\ result = "none" /\ bumps = {}
  BY Zenon DEF Init
<1>6. TrackTypes
  BY <1>1, <1>2, <1>3, <1>4, <1>5 DEF TrackTypes, TypeOK
<1> QED
  BY <1>4, <1>6 DEF MirrorInv

(* The types, and the mirror and the job's tree being whole, hold in every  *)
(* state: each needs the other to be kept.                                  *)
LEMMA MirrorHolds == Spec => [](TrackTypes /\ MirrorInv)
<1>1. TrackTypes /\ MirrorInv /\ [Next]_vars => TrackTypes' /\ MirrorInv'
  BY TrackTypesStep, MirrorStep
<1> QED
  BY <1>1, TrackStart, PTL DEF Spec

(* The mirror never serves an index entry without its blob: for every list  *)
(* of ports, every sequence of Alpine's releases and every interleaving of  *)
(* the job with other publishers, with any port failing to build and any    *)
(* step of the job failing.                                                 *)
THEOREM MirrorIsBacked == Spec => []ServedBacked
<1>1. TrackTypes /\ MirrorInv => ServedBacked
  BY DEF MirrorInv, Whole, ServedBacked
<1> QED
  BY <1>1, MirrorHolds, PTL

(* No step of the job or of another publisher changes a served blob. *)
LEMMA PushKeeps == TrackTypes /\ MirrorInv /\ [Next]_vars => KeepsBlobs(remote, remote')
<1> SUFFICES ASSUME TrackTypes, MirrorInv, [Next]_vars PROVE KeepsBlobs(remote, remote')
  OBVIOUS
<1> USE DEF bounds
<1>1. CASE UNCHANGED remote
  BY <1>1 DEF KeepsBlobs
<1>2. CASE PushStep
  <2>1. CASE remote' = remote
    BY <1>1, <2>1
  <2>2. CASE remote' # remote
    BY <1>2, <2>2 DEF PushStep, MirrorInv
  <2> QED
    BY <2>1, <2>2
<1>3. ASSUME NEW n \in Names, NEW v \in Versions, NEW p \in Payloads, OtherPush(n, v, p)
      PROVE  KeepsBlobs(remote, remote')
  BY <1>3, OtherFacts DEF OtherPush, TrackTypes, TypeOK, MirrorInv
<1> QED
  BY <1>1, <1>2, <1>3 DEF Next, Job, vars, Start, Oracle, StepFails, GuestBuilt, PortBreaks,
     PortBuilt, LoopDone, IssueStep, GitHubFails, AlpineReleases

(* A blob the mirror serves keeps its bytes: pack_repo.py refuses others,   *)
(* and a push is fast-forward.                                              *)
THEOREM MirrorBlobsAreImmutable == Spec => BlobsImmutable
<1>1. TrackTypes /\ MirrorInv /\ [Next]_vars => [KeepsBlobs(remote, remote')]_vars
  BY PushKeeps
<1> QED
  BY <1>1, MirrorHolds, PTL DEF Spec, BlobsImmutable

(* "the old version keeps serving" (track-alpine.yml:8), for all ports,     *)
(* releases and faults, while vercmp orders the versions: the inductive     *)
(* part is that the tree a job pushes has every blob of the mirror it       *)
(* replaces, under an index of the highest versions.                        *)
THEOREM OldVersionKeepsServing == Spec => OldKeepsServing
<1> DEFINE Up == \A n \in Names : remote.index[n] # None =>
                    /\ remote'.index[n] # None
                    /\ Vercmp(remote'.index[n].ver, remote.index[n].ver) >= 0
<1>1. /\ TrackTypes /\ MirrorInv /\ TrackTypes' /\ MirrorInv' /\ [Next]_vars
      => [Up]_vars
  <2> SUFFICES ASSUME TrackTypes, MirrorInv, TrackTypes', MirrorInv', [Next]_vars PROVE Up
    OBVIOUS
  <2>1. KeepsBlobs(remote, remote')
    BY PushKeeps
  <2>2. remote \in Tree /\ remote' \in Tree /\ Backed(remote) /\ Highest(remote')
    BY DEF TrackTypes, TypeOK, MirrorInv, Whole
  <2> QED
    BY <2>1, <2>2, IndexMonotone, OrderAssumption
<1> QED
  BY <1>1, MirrorHolds, PTL DEF Spec, OldKeepsServing
-----------------------------------------------------------------------------
(* Every step carries a broken port to FAILED, and FAILED to the issue. *)
LEMMA ReportStep == ReportInv /\ [Next]_vars => ReportInv'
<1> SUFFICES ASSUME ReportInv, [Next]_vars PROVE ReportInv'
  OBVIOUS
<1> USE DEF bounds, ReportInv
<1>1. ASSUME NEW f \in Names \cup {None}, Start(f) PROVE ReportInv'
  BY <1>1 DEF Start
<1>2. CASE Oracle
  BY <1>2 DEF Oracle, EndJob
<1>3. CASE GuestBuilt
  BY <1>3 DEF GuestBuilt
<1>4. CASE PortBreaks
  BY <1>4 DEF PortBreaks, PortFailed
<1>5. ASSUME NEW p \in Payloads, PortBuilt(p) PROVE ReportInv'
  <2>1. step = "loop" /\ step' = step
    BY <1>5 DEF PortBuilt
  <2>2. PortFailed \/ UNCHANGED <<FAILED, broke>>
    BY <1>5, Zenon DEF PortBuilt, PortRefused, PortPacked
  <2> QED
    BY <2>1, <2>2 DEF PortFailed
<1>6. CASE LoopDone \/ PushStep \/ IssueStep \/ StepFails \/ GitHubFails
  BY <1>6 DEF LoopDone, PushStep, IssueStep, StepFails, GitHubFails, EndJob
<1>7. ASSUME NEW n \in Names, AlpineReleases(n) PROVE ReportInv'
  BY <1>7 DEF AlpineReleases
<1>8. ASSUME NEW n \in Names, NEW v \in Versions, NEW p \in Payloads, OtherPush(n, v, p)
      PROVE  ReportInv'
  BY <1>8 DEF OtherPush
<1>9. CASE UNCHANGED vars
  BY <1>9 DEF vars
<1> QED
  BY <1>1, <1>2, <1>3, <1>4, <1>5, <1>6, <1>7, <1>8, <1>9 DEF Next, Job

(* "A build failure opens an issue" (track-alpine.yml:8) in every job all   *)
(* of whose steps succeed, whichever port failed and however it did.        *)
THEOREM FailuresAreReported == Spec => []FailureOpensIssue
<1>1. Init => ReportInv
  BY DEF Init, ReportInv
<1>2. ReportInv => FailureOpensIssue
  BY DEF ReportInv, FailureOpensIssue
<1> QED
  BY <1>1, <1>2, ReportStep, PTL DEF Spec
=============================================================================

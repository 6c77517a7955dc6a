--------------------------- MODULE PackRepoProofs ----------------------------
(***************************************************************************)
(* Proofs about PackRepo: type correctness, and that what the mirror       *)
(* serves is whole, immutable and, for versions vercmp orders, the highest *)
(* of what was published.                                                  *)
(***************************************************************************)
EXTENDS PackRepo, PackageProofs

(* Every variable keeps its type through every step of pack_repo.py, of the *)
(* recipes and of the other publisher.                                      *)
LEMMA TypeStep == TypeOK /\ [Next]_vars => TypeOK'
<1> SUFFICES ASSUME TypeOK, [Next]_vars PROVE TypeOK'
  OBVIOUS
<1> USE DEF TypeOK, gitVars, runVars
<1>0. NoEntries \in [Names -> Entry \cup {None}] /\ NoStages \in [Names -> Stage \cup {None}]
  BY DEF NoEntries, NoStages
<1>1. ASSUME NEW n \in Names, NEW v \in Versions, NEW p \in Payloads, Recipe(n, v, p)
      PROVE TypeOK'
  <2>1. PackCards(tree, n, v, BuildGz(FreshStage(p), n, v)) \in Tree
    BY FreshStageFacts, PackCardsFacts
  <2>2. QED BY <1>1, <2>1, FreshStageFacts, BoundAssumption DEF Recipe
<1>2. ASSUME NEW n \in Names, NEW v \in Versions, NEW p \in Payloads, RecipeTooLarge(n, v, p)
      PROVE TypeOK'
  BY <1>2, FreshStageFacts, BoundAssumption DEF RecipeTooLarge
<1>3. ASSUME NEW n \in Names, NEW v \in Versions, NEW p \in Payloads, OtherPush(n, v, p)
      PROVE TypeOK'
  <2>1. OtherTree(remote, n, v, p) \in Tree
    BY OtherTreeFacts DEF Adds
  <2>2. QED BY <1>3, <2>1, BoundAssumption DEF OtherPush
<1>4. ASSUME NEW n \in Names, NEW v \in Versions, NEW publish \in BOOLEAN, Pack(n, v, publish)
      PROVE TypeOK'
  <2> DEFINE gz == BuildGz(stage[n], n, v)
  <2>1. stage[n] \in Stage
    BY <1>4 DEF Pack
  <2>2. gz \in Gz /\ StageEntries(stage[n], v) \in Stage
    BY <2>1, StageFacts
  <2>3. <<n, v>> \in Files
    BY DEF Files
  <2>4. WriteBlob(tree, <<n, v>>, gz) \in Tree
    BY <2>2, <2>3, WriteBlobFacts
  <2>5. tree' \in Tree
    BY <1>4, <2>4 DEF Pack
  <2>6. job' \in Jobs
    BY <1>4 DEF Pack, Jobs
  <2>7. stage' \in [Names -> Stage \cup {None}]
    BY <1>4, <2>2 DEF Pack
  <2>8. /\ pc' \in {"idle", "scan", "verify", "publish", "push"}
        /\ pos' \in 0..Len(ScanOrder)
        /\ byName' \in [Names -> Entry \cup {None}]
        /\ rc' \in {"none", "ok", "failed"}
    BY <1>0, <1>4, ScanAssumption DEF Pack, StartScan
  <2>9. QED BY <1>4, <2>5, <2>6, <2>7, <2>8 DEF Pack
<1>5. ASSUME NEW publish \in BOOLEAN, ReindexOnly(publish) PROVE TypeOK'
  <2>1. job' \in Jobs
    BY <1>5 DEF ReindexOnly, NoJob, Jobs
  <2>2. QED BY <1>0, <1>5, <2>1, ScanAssumption DEF ReindexOnly, StartScan
<1>6. CASE ScanOne
  <2> DEFINE f == ScanOrder[pos + 1]
  <2>1. pos + 1 \in 1..Len(ScanOrder) /\ f \in Files
    BY <1>6, ScanAssumption DEF ScanOne
  <2>2. tree.blobs[f] = None \/ tree.blobs[f] \in Gz
    BY <2>1 DEF Tree
  <2>3. byName' \in [Names -> Entry \cup {None}]
    BY <1>6, <2>1, <2>2, ConsiderFacts DEF ScanOne
  <2>4. pos' \in 0..Len(ScanOrder)
    BY <1>6, <2>1, ScanAssumption DEF ScanOne
  <2>5. QED BY <1>6, <2>3, <2>4 DEF ScanOne
<1>7. CASE WriteIndex
  <2>1. tree' \in Tree
    BY <1>7 DEF WriteIndex, Tree
  <2>2. QED BY <1>0, <1>7, <2>1, ScanAssumption DEF WriteIndex
<1>8. CASE VerifyStep
  BY <1>0, <1>8, ScanAssumption DEF VerifyStep, Finish
<1>9. CASE Commit
  <2>1. CASE tree = head
    BY <1>0, <1>9, <2>1, ScanAssumption DEF Commit, Finish
  <2>2. CASE tree # head
    <3>1. ahead' \in BOOLEAN /\ head' \in Tree
      BY <1>9, <2>2, Zenon DEF Commit
    <3>2. /\ pc' \in {"idle", "push"} /\ rc' \in {"none", "ok", "failed"}
          /\ pos' \in 0..Len(ScanOrder) /\ byName' \in [Names -> Entry \cup {None}]
          /\ job' \in Jobs
      BY <1>0, <1>9, <2>2, ScanAssumption DEF Commit, Finish
    <3>3. QED BY <1>9, <3>1, <3>2 DEF Commit
  <2>3. QED BY <2>1, <2>2
<1>10. CASE Push
  <2>1. ahead' \in BOOLEAN /\ behind' \in BOOLEAN
    BY <1>10, Zenon DEF Push
  <2>2. remote' \in Tree /\ Finish(rc')
    BY <1>10 DEF Push, Finish
  <2>3. rc' \in {"none", "ok", "failed"}
    BY <1>10 DEF Push, Finish
  <2>4. QED BY <1>0, <1>10, <2>1, <2>2, <2>3, ScanAssumption DEF Push, Finish
<1>11. CASE Interrupt
  BY <1>0, <1>11, ScanAssumption DEF Interrupt, Finish
<1>12. CASE Clone
  BY <1>0, <1>12 DEF Clone
<1>13. CASE UNCHANGED vars
  BY <1>13 DEF vars
<1>14. QED
  BY <1>1, <1>2, <1>3, <1>4, <1>5, <1>6, <1>7, <1>8, <1>9, <1>10, <1>11, <1>12, <1>13 DEF Next

(* The initial state has its types. *)
LEMMA TypeInit == Init => TypeOK
<1> SUFFICES ASSUME Init PROVE TypeOK
  OBVIOUS
<1>1. EmptyTree \in Tree
  BY DEF EmptyTree, Tree
<1>2. NoEntries \in [Names -> Entry \cup {None}] /\ NoStages \in [Names -> Stage \cup {None}]
  BY DEF NoEntries, NoStages
<1>3. NoJob \in Jobs
  BY DEF NoJob, Jobs
<1>4. ahead \in BOOLEAN /\ behind \in BOOLEAN
  BY Zenon DEF Init
<1>5. 0 \in 0..Len(ScanOrder) /\ 0 \in 0..MaxBuilds /\ 0 \in 0..MaxOther
  BY ScanAssumption, BoundAssumption
<1>6. QED
  BY <1>1, <1>2, <1>3, <1>4, <1>5, Zenon DEF Init, TypeOK

(* pack_repo.py, the recipes and the other publisher keep every variable of *)
(* the model within its type.                                               *)
THEOREM TypeCorrect == Spec => []TypeOK
BY TypeInit, TypeStep, PTL DEF Spec
-----------------------------------------------------------------------------
(* A pack that is not refused only adds a blob. *)
LEMMA PackAddsBlob ==
    ASSUME TypeOK, SoundInv, NEW n \in Names, NEW v \in Versions, NEW publish \in BOOLEAN,
           Pack(n, v, publish)
    PROVE  /\ tree'.index = tree.index
           /\ \A f \in Files : tree.blobs[f] # None => tree'.blobs[f] = tree.blobs[f]
<1> DEFINE gz == BuildGz(stage[n], n, v)
<1>1. stage[n] \in Stage
  BY DEF Pack, TypeOK
<1>2. gz \in Gz /\ <<n, v>> \in Files /\ tree \in Tree
  BY <1>1, StageFacts DEF Files, TypeOK
<1>3. CASE Refuses(n, v, gz)
  BY <1>3 DEF Pack
<1>4. CASE ~Refuses(n, v, gz)
  <2>1. tree' = WriteBlob(tree, <<n, v>>, gz)
    BY <1>4 DEF Pack
  <2>2. tree'.blobs = [tree.blobs EXCEPT ![<<n, v>>] = gz] /\ tree'.index = tree.index
    BY <1>2, <2>1, WriteBlobFacts
  <2>3. tree.blobs[<<n, v>>] \in {None, gz}
    BY <1>4 DEF Refuses
  <2> HIDE DEF gz
  <2>4. QED BY <1>2, <2>2, <2>3 DEF Tree
<1>5. QED BY <1>3, <1>4

(* Every step keeps the trees whole, and the blobs of the tree it came from. *)
LEMMA SoundStep == TypeOK /\ TypeOK' /\ SoundInv /\ [Next]_vars => SoundInv'
<1> SUFFICES ASSUME TypeOK, TypeOK', SoundInv, [Next]_vars PROVE SoundInv'
  OBVIOUS
<1> USE DEF gitVars, runVars
<1>0. /\ tree.blobs \in [Files -> Gz \cup {None}] /\ tree'.blobs \in [Files -> Gz \cup {None}]
      /\ tree.index \in [Names -> Entry \cup {None}] /\ byName \in [Names -> Entry \cup {None}]
      /\ tree \in Tree /\ remote \in Tree /\ head \in Tree
  BY DEF TypeOK, Tree
<1>1. ASSUME NEW n \in Names, NEW v \in Versions, NEW p \in Payloads, Recipe(n, v, p)
      PROVE SoundInv'
  <2>1. tree'.blobs = tree.blobs /\ tree'.index = tree.index
    <3>1. tree' = PackCards(tree, n, v, BuildGz(FreshStage(p), n, v))
      BY <1>1 DEF Recipe
    <3>2. BuildGz(FreshStage(p), n, v) \in Gz
      BY FreshStageFacts
    <3>3. QED BY <1>0, <3>1, <3>2, PackCardsFacts
  <2>2. QED BY <1>1, <2>1 DEF Recipe, SoundInv, Backed, KeepsBlobs
<1>2. ASSUME NEW n \in Names, NEW v \in Versions, NEW p \in Payloads, RecipeTooLarge(n, v, p)
      PROVE SoundInv'
  BY <1>2 DEF RecipeTooLarge, SoundInv
<1>3. ASSUME NEW n \in Names, NEW v \in Versions, NEW p \in Payloads, OtherPush(n, v, p)
      PROVE SoundInv'
  <2>1. Backed(remote')
    BY <1>0, <1>3, OtherTreeBacked DEF OtherPush, SoundInv
  <2>2. Coherent(remote')
    BY <1>3 DEF OtherPush, Verify
  <2>3. QED BY <1>3, <2>1, <2>2 DEF OtherPush, SoundInv
<1>4. ASSUME NEW n \in Names, NEW v \in Versions, NEW publish \in BOOLEAN, Pack(n, v, publish)
      PROVE SoundInv'
  <2>1. /\ tree'.index = tree.index
        /\ \A f \in Files : tree.blobs[f] # None => tree'.blobs[f] = tree.blobs[f]
    BY <1>4, PackAddsBlob
  <2>2. Backed(tree')
    BY <1>0, <2>1, BacksMore DEF Backed, SoundInv
  <2>3. pc' = "scan" => Backs(tree'.blobs, byName')
    BY <1>4, NoEntriesBacks DEF Pack, StartScan
  <2>4. KeepsBlobs(head', tree')
    BY <1>4, <2>1 DEF Pack, KeepsBlobs, SoundInv
  <2>5. pc' \in {"idle", "scan"}
    BY <1>4 DEF Pack, StartScan
  <2>6. QED BY <1>4, <2>2, <2>3, <2>4, <2>5 DEF Pack, SoundInv
<1>5. ASSUME NEW publish \in BOOLEAN, ReindexOnly(publish) PROVE SoundInv'
  BY <1>5, NoEntriesBacks DEF ReindexOnly, StartScan, SoundInv
<1>6. CASE ScanOne
  <2> DEFINE f == ScanOrder[pos + 1]
  <2>1. f \in Files
    BY <1>6, ScanAssumption, SMTT(30) DEF ScanOne, TypeOK
  <2>2. CASE tree.blobs[f] = None
    BY <1>6, <2>2 DEF ScanOne, SoundInv
  <2>3. CASE tree.blobs[f] # None
    <3>1. tree.blobs[f] \in Gz
      BY <1>0, <2>1, <2>3
    <3>2. byName' = Consider(byName, f, tree.blobs[f])
      BY <1>6, <2>3 DEF ScanOne
    <3>3. Backs(tree.blobs, byName)
      BY <1>6 DEF ScanOne, SoundInv
    <3> HIDE DEF f
    <3>4. Backs(tree.blobs, Consider(byName, f, tree.blobs[f]))
      BY <1>0, <2>1, <3>1, <3>3, ConsiderBacks
    <3>5. QED BY <1>6, <3>2, <3>4 DEF ScanOne, SoundInv
  <2>4. QED BY <2>2, <2>3
<1>7. CASE WriteIndex
  <2>1. tree'.blobs = tree.blobs /\ tree'.index = byName
    BY <1>0, <1>7 DEF WriteIndex, Tree
  <2>2. QED BY <1>7, <2>1 DEF WriteIndex, SoundInv, Backed, KeepsBlobs
<1>8. CASE VerifyStep
  BY <1>8 DEF VerifyStep, Finish, SoundInv, Verify
<1>9. CASE Commit
  <2>1. CASE tree = head
    BY <1>9, <2>1 DEF Commit, Finish, SoundInv
  <2>2. CASE tree # head
    <3>1. ~behind => KeepsBlobs(remote, tree)
      BY DEF SoundInv, KeepsBlobs
    <3>2. QED BY <1>9, <2>2, <3>1 DEF Commit, Finish, SoundInv, KeepsBlobs
  <2>3. QED BY <2>1, <2>2
<1>10. CASE Push
  <2>1. remote' \in {head, remote}
    BY <1>10 DEF Push
  <2>2. Backed(remote') /\ Coherent(remote')
    BY <1>10, <2>1 DEF Push, SoundInv
  <2>3. ~behind => KeepsBlobs(remote', head)
    BY <1>10, <2>1 DEF SoundInv, KeepsBlobs
  <2>4. QED BY <1>10, <2>2, <2>3 DEF Push, Finish, SoundInv
<1>11. CASE Interrupt
  BY <1>11 DEF Interrupt, Finish, SoundInv
<1>12. CASE Clone
  <2>1. pc' = "idle" /\ KeepsBlobs(head', tree') /\ KeepsBlobs(remote', head')
    BY <1>12 DEF Clone, KeepsBlobs
  <2>2. QED BY <1>12, <2>1 DEF Clone, SoundInv
<1>13. CASE UNCHANGED vars
  BY <1>13 DEF vars, SoundInv
<1>14. QED
  BY <1>1, <1>2, <1>3, <1>4, <1>5, <1>6, <1>7, <1>8, <1>9, <1>10, <1>11, <1>12, <1>13 DEF Next

LEMMA SoundInit == Init => SoundInv
<1> SUFFICES ASSUME Init PROVE SoundInv
  OBVIOUS
<1>1. Backed(EmptyTree) /\ Coherent(EmptyTree) /\ KeepsBlobs(EmptyTree, EmptyTree)
  BY DEF EmptyTree, Backed, Backs, Coherent, KeepsBlobs
<1>2. QED BY <1>1 DEF Init, SoundInv

(* Every tree stays backed by its blobs, and what verify passed stays       *)
(* coherent until it is pushed.                                             *)
THEOREM SoundInvariant == Spec => []SoundInv
<1>1. Init => TypeOK /\ SoundInv
  BY TypeInit, SoundInit
<1>2. TypeOK /\ SoundInv /\ [Next]_vars => TypeOK' /\ SoundInv'
  BY TypeStep, SoundStep
<1>3. QED BY <1>1, <1>2, PTL DEF Spec

(* What the mirror serves is always a whole mirror, for any number of       *)
(* packages, versions, builds and pushes.                                   *)
THEOREM ServedIsSound == Spec => []ServedSound
<1>1. SoundInv => ServedSound
  BY DEF SoundInv, ServedSound
<1>2. QED BY <1>1, SoundInvariant, PTL

(* No step changes a served blob. *)
LEMMA BlobStep == TypeOK /\ SoundInv /\ [Next]_vars => KeepsBlobs(remote, remote')
<1> SUFFICES ASSUME TypeOK, SoundInv, [Next]_vars PROVE KeepsBlobs(remote, remote')
  OBVIOUS
<1> USE DEF gitVars, runVars
<1>1. CASE UNCHANGED remote
  BY <1>1 DEF KeepsBlobs
<1>2. CASE Push
  BY <1>2 DEF Push, SoundInv, KeepsBlobs
<1>3. ASSUME NEW n \in Names, NEW v \in Versions, NEW p \in Payloads, OtherPush(n, v, p)
      PROVE KeepsBlobs(remote, remote')
  BY <1>3, OtherTreeBacked DEF OtherPush, SoundInv, TypeOK
<1>4. QED
  BY <1>1, <1>2, <1>3 DEF Next, vars, Recipe, RecipeTooLarge, Pack, ReindexOnly, ScanOne,
     WriteIndex, VerifyStep, Commit, Interrupt, Clone

(* A served blob keeps its bytes, whoever packs, pushes or starts over. *)
THEOREM ServedBlobsAreImmutable == Spec => BlobsImmutable
<1>1. TypeOK /\ SoundInv /\ [Next]_vars => [KeepsBlobs(remote, remote')]_vars
  BY BlobStep
<1>2. QED BY <1>1, TypeCorrect, SoundInvariant, PTL DEF Spec, BlobsImmutable
-----------------------------------------------------------------------------
(* by_name after the file at position p + 1 of the scan. *)
ScanStep(b, ix, p) ==
    LET f == ScanOrder[p + 1] IN IF b[f] = None THEN ix ELSE Consider(ix, f, b[f])

(* If the first p files scanned are topped, the next iteration of reindex   *)
(* tops the first p + 1, when vercmp orders the versions.                   *)
LEMMA ScanTops ==
    ASSUME VercmpOrders(Versions), NEW b \in [Files -> Gz \cup {None}],
           NEW ix \in [Names -> Entry \cup {None}], NEW p \in Nat, p < Len(ScanOrder),
           \A i \in 1..p : b[ScanOrder[i]] # None => Tops(ix, b[ScanOrder[i]])
    PROVE  \A i \in 1..(p + 1) :
               b[ScanOrder[i]] # None => Tops(ScanStep(b, ix, p), b[ScanOrder[i]])
<1> DEFINE f == ScanOrder[p + 1]
<1> DEFINE jx == ScanStep(b, ix, p)
<1>1. /\ Len(ScanOrder) \in Nat /\ p + 1 \in 1..Len(ScanOrder)
      /\ \A i \in 1..(p + 1) : ScanOrder[i] \in Files
  BY ScanAssumption
<1>2. jx = IF b[f] = None THEN ix ELSE Consider(ix, f, b[f])
  BY DEF ScanStep
<1>3. f \in Files
  BY <1>1
<1>4. \A i \in 1..(p + 1) : i = p + 1 \/ i \in 1..p
  OBVIOUS
<1> SUFFICES \A i \in 1..(p + 1) : b[ScanOrder[i]] # None => Tops(jx, b[ScanOrder[i]])
  OBVIOUS
<1> HIDE DEF jx
<1>5. CASE b[f] = None
  BY <1>2, <1>4, <1>5
<1>6. CASE b[f] # None
  <2>1. b[f] \in Gz
    BY <1>3, <1>6
  <2>2. Tops(jx, b[f]) /\ \A g \in Gz : Tops(ix, g) => Tops(jx, g)
    <3>1. jx = Consider(ix, f, b[f])
      BY <1>2, <1>6
    <3>2. QED BY <1>3, <2>1, <3>1, ConsiderTops
  <2>3. ASSUME NEW i \in 1..p, b[ScanOrder[i]] # None
        PROVE  Tops(jx, b[ScanOrder[i]])
    <3>1. b[ScanOrder[i]] \in Gz
      BY <1>1, <2>3
    <3>2. QED BY <2>2, <2>3, <3>1
  <2>4. QED BY <1>4, <2>2, <2>3
<1>7. QED BY <1>5, <1>6

(* Every step keeps the indexes on their way to the remote at the highest   *)
(* versions, when vercmp orders the versions.                               *)
LEMMA HighestStep ==
    VercmpOrders(Versions) /\ TypeOK /\ HighestInv /\ [Next]_vars => HighestInv'
<1> SUFFICES ASSUME VercmpOrders(Versions), TypeOK, HighestInv, [Next]_vars PROVE HighestInv'
  OBVIOUS
<1> USE DEF gitVars, runVars
<1>0. /\ tree.blobs \in [Files -> Gz \cup {None}] /\ byName \in [Names -> Entry \cup {None}]
      /\ tree \in Tree /\ remote \in Tree /\ pos \in 0..Len(ScanOrder) /\ Len(ScanOrder) \in Nat
  <2>1. /\ tree \in Tree /\ remote \in Tree /\ pos \in 0..Len(ScanOrder)
        /\ byName \in [Names -> Entry \cup {None}]
    BY DEF TypeOK
  <2>2. tree.blobs \in [Files -> Gz \cup {None}]
    BY <2>1 DEF Tree
  <2>3. Len(ScanOrder) \in Nat
    BY ScanAssumption
  <2>4. QED BY <2>1, <2>2, <2>3
<1>1. ASSUME NEW n \in Names, NEW v \in Versions, NEW p \in Payloads,
             Recipe(n, v, p) \/ RecipeTooLarge(n, v, p)
      PROVE HighestInv'
  BY <1>1 DEF Recipe, RecipeTooLarge, HighestInv
<1>2. ASSUME NEW n \in Names, NEW v \in Versions, NEW p \in Payloads, OtherPush(n, v, p)
      PROVE HighestInv'
  <2>1. Highest(remote')
    BY <1>0, <1>2, OtherTreeHighest DEF OtherPush, HighestInv
  <2>2. QED BY <1>2, <2>1 DEF OtherPush, HighestInv
<1>3. ASSUME NEW n \in Names, NEW v \in Versions, NEW publish \in BOOLEAN, Pack(n, v, publish)
      PROVE HighestInv'
  <2>1. CASE pc' = "idle"
    BY <1>3, <2>1 DEF Pack, HighestInv
  <2>2. CASE pc' # "idle"
    <3>1. pc' = "scan" /\ pos' = 0
      BY <1>3, <2>2 DEF Pack, StartScan
    <3>2. remote' = remote
      BY <1>3 DEF Pack
    <3>3. 1..pos' = {}
      BY <3>1
    <3>4. Highest(remote)' /\ pc' \notin {"verify", "publish", "push"}
      BY <3>1, <3>2 DEF HighestInv, Highest
    <3>5. QED BY <3>3, <3>4 DEF HighestInv
  <2>3. QED BY <2>1, <2>2
<1>4. ASSUME NEW publish \in BOOLEAN, ReindexOnly(publish) PROVE HighestInv'
  BY <1>4 DEF ReindexOnly, StartScan, HighestInv
<1>5. CASE ScanOne
  <2>1. pos \in Nat /\ pos < Len(ScanOrder) /\ pos' = pos + 1
    BY <1>0, <1>5 DEF ScanOne
  <2>2. \A i \in 1..pos : tree.blobs[ScanOrder[i]] # None => Tops(byName, tree.blobs[ScanOrder[i]])
    BY <1>5 DEF ScanOne, HighestInv
  <2>3. byName' = ScanStep(tree.blobs, byName, pos)
    BY <1>5 DEF ScanOne, ScanStep
  <2>4. \A i \in 1..(pos + 1) :
           tree.blobs[ScanOrder[i]] # None => Tops(byName', tree.blobs[ScanOrder[i]])
    BY <1>0, <2>1, <2>2, <2>3, ScanTops
  <2>5. UNCHANGED <<tree, head, remote, pc>> /\ pc = "scan"
    BY <1>5 DEF ScanOne
  <2>6. QED BY <2>1, <2>4, <2>5 DEF HighestInv
<1>6. CASE WriteIndex
  <2>1. tree'.blobs = tree.blobs /\ tree'.index = byName
    BY <1>0, <1>6 DEF WriteIndex, Tree
  <2>2. \A f \in Files : tree.blobs[f] # None => Tops(byName, tree.blobs[f])
    BY <1>6, ScanAssumption DEF WriteIndex, HighestInv
  <2>3. Highest(tree')
    BY <2>1, <2>2 DEF Highest
  <2>4. QED BY <1>6, <2>3 DEF WriteIndex, HighestInv
<1>7. CASE VerifyStep
  BY <1>7 DEF VerifyStep, Finish, HighestInv
<1>8. CASE Commit
  BY <1>8 DEF Commit, Finish, HighestInv
<1>9. CASE Push
  BY <1>9 DEF Push, Finish, HighestInv
<1>10. CASE Interrupt
  BY <1>10 DEF Interrupt, Finish, HighestInv
<1>11. CASE Clone
  BY <1>11 DEF Clone, HighestInv
<1>12. CASE UNCHANGED vars
  BY <1>12 DEF vars, HighestInv
<1>13. QED
  BY <1>1, <1>2, <1>3, <1>4, <1>5, <1>6, <1>7, <1>8, <1>9, <1>10, <1>11, <1>12 DEF Next

(* While vercmp orders the versions, no index on its way to the remote      *)
(* misses a higher version.                                                 *)
THEOREM HighestInvariant == ASSUME VercmpOrders(Versions) PROVE Spec => []HighestInv
<1>1. Init => TypeOK /\ HighestInv
  <2>1. Highest(EmptyTree)
    BY DEF Highest, EmptyTree
  <2>2. QED BY <2>1, TypeInit DEF Init, HighestInv
<1>2. TypeOK /\ HighestInv /\ [Next]_vars => TypeOK' /\ HighestInv'
  BY TypeStep, HighestStep
<1>3. QED BY <1>1, <1>2, PTL DEF Spec

(* The served entry of a package is its highest published version, in       *)
(* whatever order the blobs are scanned, for versions vercmp orders.        *)
THEOREM ServedIsHighest == ASSUME VercmpOrders(Versions) PROVE Spec => []ServedHighest
<1>1. HighestInv => ServedHighest
  BY DEF HighestInv, ServedHighest
<1>2. QED BY <1>1, HighestInvariant, PTL

(* The served version of a package never goes down or away, for versions    *)
(* vercmp orders.                                                           *)
THEOREM ServedIsMonotone == ASSUME VercmpOrders(Versions) PROVE Spec => ServedMonotone
<1> DEFINE Up == \A n \in Names : remote.index[n] # None =>
                    /\ remote'.index[n] # None
                    /\ Vercmp(remote'.index[n].ver, remote.index[n].ver) >= 0
<1>1. TypeOK /\ TypeOK' /\ SoundInv /\ HighestInv' /\ [Next]_vars => [Up]_vars
  <2> SUFFICES ASSUME TypeOK, TypeOK', SoundInv, HighestInv', [Next]_vars PROVE Up
    OBVIOUS
  <2>1. KeepsBlobs(remote, remote')
    BY BlobStep
  <2>2. remote \in Tree /\ remote' \in Tree /\ Backed(remote) /\ Highest(remote')
    BY DEF TypeOK, SoundInv, HighestInv
  <2>3. QED BY <2>1, <2>2, IndexMonotone
<1>2. QED BY <1>1, TypeCorrect, SoundInvariant, HighestInvariant, PTL DEF Spec, ServedMonotone
=============================================================================

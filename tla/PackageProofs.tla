---------------------------- MODULE PackageProofs ----------------------------
(***************************************************************************)
(* What the operators of Package do to a tree, for the proofs about those  *)
(* who publish: PackRepoProofs and TrackerProofs.                          *)
(***************************************************************************)
EXTENDS Package, TLAPS

(* Every comparison yields -1, 0 or 1. *)
LEMMA VercmpType == ASSUME NEW a, NEW b PROVE Vercmp(a, b) \in {-1, 0, 1}
BY DEF Vercmp, SegCmp

(* None is not a value of any of the types it stands beside. *)
LEMMA NoneIsNone ==
    /\ \A gz \in Gz : gz # None
    /\ \A e \in Entry : e # None
    /\ \A m \in Manifest : m # None
    /\ \A s \in Stage : s # None
    /\ \A v \in Versions : v # None
    /\ \A n \in Names : n # None
BY NoneAssumption

(* What writing the cards of a package does to a tree. *)
LEMMA PackCardsFacts ==
    ASSUME NEW t \in Tree, NEW n \in Names, NEW v \in Versions, NEW gz \in Gz
    PROVE  /\ PackCards(t, n, v, gz) \in Tree
           /\ PackCards(t, n, v, gz).blobs = t.blobs
           /\ PackCards(t, n, v, gz).index = t.index
BY DEF PackCards, Tree, Manifest

(* What writing a blob does to a tree. *)
LEMMA WriteBlobFacts ==
    ASSUME NEW t \in Tree, NEW f \in Files, NEW gz \in Gz
    PROVE  /\ WriteBlob(t, f, gz) \in Tree
           /\ WriteBlob(t, f, gz).blobs = [t.blobs EXCEPT ![f] = gz]
           /\ WriteBlob(t, f, gz).index = t.index
           /\ WriteBlob(t, f, gz).cards = t.cards
BY DEF WriteBlob, Tree

(* What staging and building yield. *)
LEMMA StageFacts ==
    ASSUME NEW s \in Stage, NEW n \in Names, NEW v \in Versions
    PROVE  /\ StageEntries(s, v) \in Stage
           /\ StageEntries(s, v).info \in Versions
           /\ BuildGz(s, n, v) \in Gz
           /\ BuildGz(s, n, v).name = n
<1>1. StageEntries(s, v) \in Stage /\ StageEntries(s, v).info \in Versions
  BY DEF StageEntries, Stage
<1> QED BY <1>1 DEF BuildGz, Gz, Stage

(* A recipe's stage and the gz it packs. *)
LEMMA FreshStageFacts ==
    ASSUME NEW p \in Payloads, NEW n \in Names, NEW v \in Versions
    PROVE  /\ FreshStage(p) \in Stage
           /\ StageEntries(FreshStage(p), v) \in Stage
           /\ BuildGz(FreshStage(p), n, v) \in Gz
           /\ BuildGz(FreshStage(p), n, v).name = n
           /\ BuildGz(FreshStage(p), n, v).ver = v
<1>1. FreshStage(p) \in Stage
  BY DEF FreshStage, Stage
<1>2. StageEntries(FreshStage(p), v).info = v
  BY DEF FreshStage, StageEntries
<1> QED BY <1>1, <1>2, StageFacts DEF BuildGz

(* Considering a blob changes the entry of its package only, to its own. *)
LEMMA ConsiderFacts ==
    ASSUME NEW bn \in [Names -> Entry \cup {None}], NEW f \in Files, NEW gz \in Gz
    PROVE  /\ Consider(bn, f, gz) \in [Names -> Entry \cup {None}]
           /\ \A n \in Names : n # gz.name => Consider(bn, f, gz)[n] = bn[n]
           /\ EntryOf(f, gz) \in Entry
           /\ Consider(bn, f, gz)[gz.name] \in {EntryOf(f, gz), bn[gz.name]}
           /\ Consider(bn, f, gz)[gz.name] # None
<1>1. EntryOf(f, gz) \in Entry /\ gz.name \in Names
  BY DEF EntryOf, Entry, Gz
<1> QED BY <1>1, NoneIsNone DEF Consider

(* The tree u is t with the blob gz of <<n, v>> written and considered. *)
Adds(t, n, v, gz, u) ==
    /\ u \in Tree
    /\ u.blobs = [t.blobs EXCEPT ![<<n, v>>] = gz]
    /\ u.index = Consider(t.index, <<n, v>>, gz)

(* The tree another publisher pushes. *)
LEMMA OtherTreeFacts ==
    ASSUME NEW t \in Tree, NEW n \in Names, NEW v \in Versions, NEW p \in Payloads
    PROVE  Adds(t, n, v, BuildGz(FreshStage(p), n, v), OtherTree(t, n, v, p))
<1> DEFINE gz == BuildGz(FreshStage(p), n, v)
<1> DEFINE c == PackCards(t, n, v, gz)
<1> DEFINE w == WriteBlob(c, <<n, v>>, gz)
<1>1. gz \in Gz
  BY FreshStageFacts
<1>2. c \in Tree /\ c.blobs = t.blobs /\ c.index = t.index
  BY <1>1, PackCardsFacts
<1>3. <<n, v>> \in Files
  BY DEF Files
<1>4. w \in Tree /\ w.blobs = [t.blobs EXCEPT ![<<n, v>>] = gz]
  BY <1>1, <1>2, <1>3, WriteBlobFacts
<1>5. t.index \in [Names -> Entry \cup {None}]
  BY DEF Tree
<1>6. Consider(t.index, <<n, v>>, gz) \in [Names -> Entry \cup {None}]
  BY <1>1, <1>3, <1>5, ConsiderFacts
<1>7. OtherTree(t, n, v, p) = [w EXCEPT !.index = Consider(t.index, <<n, v>>, gz)]
  BY DEF OtherTree
<1> SUFFICES Adds(t, n, v, gz, OtherTree(t, n, v, p))
  OBVIOUS
<1> HIDE DEF w, gz
<1>8. QED
  BY <1>4, <1>6, <1>7 DEF Tree, Adds

(* Entries that are backed stay backed when blobs are only added. *)
LEMMA BacksMore ==
    ASSUME NEW b \in [Files -> Gz \cup {None}], NEW c \in [Files -> Gz \cup {None}],
           NEW ix \in [Names -> Entry \cup {None}], Backs(b, ix),
           \A f \in Files : b[f] # None => c[f] = b[f]
    PROVE  Backs(c, ix)
<1> SUFFICES ASSUME NEW n \in Names, ix[n] # None
             PROVE  c[ix[n].file] = ix[n].bs /\ ix[n].bs.name = n /\ ix[n].ver = ix[n].bs.ver
  BY DEF Backs
<1>1. ix[n].file \in Files /\ ix[n].bs # None
  BY NoneIsNone DEF Entry
<1>2. b[ix[n].file] = ix[n].bs /\ ix[n].bs.name = n /\ ix[n].ver = ix[n].bs.ver
  BY DEF Backs
<1>3. QED BY <1>1, <1>2

(* An iteration of reindex keeps by_name backed. *)
LEMMA ConsiderBacks ==
    ASSUME NEW b \in [Files -> Gz \cup {None}], NEW ix \in [Names -> Entry \cup {None}],
           NEW f \in Files, NEW gz \in Gz, b[f] = gz, Backs(b, ix)
    PROVE  Backs(b, Consider(ix, f, gz))
<1> SUFFICES ASSUME NEW n \in Names, Consider(ix, f, gz)[n] # None
             PROVE  LET e == Consider(ix, f, gz)[n]
                    IN  b[e.file] = e.bs /\ e.bs.name = n /\ e.ver = e.bs.ver
  BY DEF Backs
<1>1. CASE Consider(ix, f, gz)[n] = ix[n]
  BY <1>1 DEF Backs
<1>2. CASE Consider(ix, f, gz)[n] # ix[n]
  <2>1. n = gz.name /\ Consider(ix, f, gz)[n] = EntryOf(f, gz)
    BY <1>2 DEF Consider, Gz
  <2>2. QED BY <2>1 DEF EntryOf
<1>3. QED BY <1>1, <1>2

LEMMA NoEntriesBacks == ASSUME NEW b PROVE Backs(b, NoEntries)
BY DEF Backs, NoEntries

(* The tree another publisher pushes is backed, and keeps the blobs. *)
LEMMA OtherTreeBacked ==
    ASSUME NEW t \in Tree, NEW n \in Names, NEW v \in Versions, NEW p \in Payloads,
           t.blobs[<<n, v>>] = None, Backed(t)
    PROVE  Backed(OtherTree(t, n, v, p)) /\ KeepsBlobs(t, OtherTree(t, n, v, p))
<1> DEFINE gz == BuildGz(FreshStage(p), n, v)
<1> DEFINE u == OtherTree(t, n, v, p)
<1>1. gz \in Gz /\ <<n, v>> \in Files
  BY FreshStageFacts DEF Files
<1>a. Adds(t, n, v, gz, u)
  BY OtherTreeFacts
<1> SUFFICES Backed(u) /\ KeepsBlobs(t, u)
  OBVIOUS
<1> HIDE DEF gz, u
<1>2. /\ u \in Tree
      /\ u.blobs = [t.blobs EXCEPT ![<<n, v>>] = gz]
      /\ u.index = Consider(t.index, <<n, v>>, gz)
  BY <1>a DEF Adds
<1>3. /\ t.blobs \in [Files -> Gz \cup {None}]
      /\ u.blobs \in [Files -> Gz \cup {None}]
      /\ t.index \in [Names -> Entry \cup {None}]
  BY <1>2 DEF Tree
<1>4. \A f \in Files : t.blobs[f] # None => u.blobs[f] = t.blobs[f]
  BY <1>2, <1>3
<1>5. Backs(u.blobs, t.index)
  BY <1>3, <1>4, BacksMore DEF Backed
<1>6. u.blobs[<<n, v>>] = gz
  BY <1>1, <1>2, <1>3
<1>7. Backs(u.blobs, u.index)
  BY <1>1, <1>2, <1>3, <1>5, <1>6, ConsiderBacks
<1>8. QED BY <1>4, <1>7 DEF Backed, KeepsBlobs, u

(* An iteration of reindex tops the blob it considers and every blob that   *)
(* was topped before, when vercmp orders the versions.                      *)
LEMMA ConsiderTops ==
    ASSUME VercmpOrders(Versions), NEW ix \in [Names -> Entry \cup {None}],
           NEW f \in Files, NEW gz \in Gz
    PROVE  /\ Tops(Consider(ix, f, gz), gz)
           /\ \A g \in Gz : Tops(ix, g) => Tops(Consider(ix, f, gz), g)
<1> DEFINE n == gz.name
<1> DEFINE jx == Consider(ix, f, gz)
<1>1. n \in Names /\ gz.ver \in Versions /\ EntryOf(f, gz) # None /\ EntryOf(f, gz).ver = gz.ver
  BY ConsiderFacts, NoneIsNone DEF Gz, EntryOf
<1>2. \A m \in Names : ix[m] # None => ix[m].ver \in Versions
  BY DEF Entry
<1>3. Vercmp(gz.ver, gz.ver) = 0
  <2>1. Vercmp(gz.ver, gz.ver) = -Vercmp(gz.ver, gz.ver) /\ Vercmp(gz.ver, gz.ver) \in {-1, 0, 1}
    BY <1>1, VercmpType DEF VercmpOrders
  <2>2. QED BY <2>1
<1>4. CASE ix[n] = None \/ Vercmp(gz.ver, ix[n].ver) > 0
  <2>1. jx = [ix EXCEPT ![n] = EntryOf(f, gz)]
    BY <1>4 DEF Consider
  <2>2. Tops(jx, gz)
    BY <1>1, <1>3, <2>1 DEF Tops
  <2>3. ASSUME NEW g \in Gz, Tops(ix, g) PROVE Tops(jx, g)
    <3>1. g.name \in Names /\ g.ver \in Versions
      BY DEF Gz
    <3>2. CASE g.name # n
      BY <2>1, <2>3, <3>1, <3>2 DEF Tops
    <3>3. CASE g.name = n
      <4>1. ix[n] # None /\ Vercmp(g.ver, ix[n].ver) <= 0
        BY <2>3, <3>3 DEF Tops
      <4>2. Vercmp(ix[n].ver, g.ver) >= 0 /\ Vercmp(gz.ver, ix[n].ver) >= 0
        BY <1>1, <1>2, <1>4, <3>1, <4>1, VercmpType, SMTT(30) DEF VercmpOrders
      <4>3. Vercmp(gz.ver, g.ver) >= 0
        BY <1>1, <1>2, <3>1, <4>1, <4>2 DEF VercmpOrders
      <4>4. Vercmp(g.ver, gz.ver) <= 0
        BY <1>1, <3>1, <4>3, VercmpType DEF VercmpOrders
      <4>5. QED BY <1>1, <2>1, <3>3, <4>4 DEF Tops
    <3>4. QED BY <3>2, <3>3
  <2>4. QED BY <2>2, <2>3
<1>5. CASE ~(ix[n] = None \/ Vercmp(gz.ver, ix[n].ver) > 0)
  <2>1. jx = ix
    BY <1>5 DEF Consider
  <2>2. QED BY <1>5, <2>1, VercmpType DEF Tops
<1>6. QED BY <1>4, <1>5

(* The tree another publisher pushes has the highest versions indexed. *)
LEMMA OtherTreeHighest ==
    ASSUME VercmpOrders(Versions), NEW t \in Tree, NEW n \in Names, NEW v \in Versions,
           NEW p \in Payloads, Highest(t)
    PROVE  Highest(OtherTree(t, n, v, p))
<1> DEFINE gz == BuildGz(FreshStage(p), n, v)
<1> DEFINE u == OtherTree(t, n, v, p)
<1>1. gz \in Gz /\ <<n, v>> \in Files
  BY FreshStageFacts DEF Files
<1>a. Adds(t, n, v, gz, u)
  BY OtherTreeFacts
<1> SUFFICES Highest(u)
  OBVIOUS
<1> HIDE DEF gz, u
<1>2. /\ u.blobs = [t.blobs EXCEPT ![<<n, v>>] = gz]
      /\ u.index = Consider(t.index, <<n, v>>, gz)
  BY <1>a DEF Adds
<1>3. t.blobs \in [Files -> Gz \cup {None}] /\ t.index \in [Names -> Entry \cup {None}]
  BY DEF Tree
<1>4. Tops(u.index, gz) /\ \A g \in Gz : Tops(t.index, g) => Tops(u.index, g)
  <2>1. /\ Tops(Consider(t.index, <<n, v>>, gz), gz)
        /\ \A g \in Gz : Tops(t.index, g) => Tops(Consider(t.index, <<n, v>>, gz), g)
    BY <1>1, <1>3, ConsiderTops
  <2>2. QED BY <1>2, <2>1
<1>5. QED BY <1>1, <1>2, <1>3, <1>4 DEF Highest

(* An indexed package stays indexed, at a version not lower, when the blobs *)
(* are kept and the new index has the highest versions.                     *)
LEMMA IndexMonotone ==
    ASSUME VercmpOrders(Versions), NEW t \in Tree, NEW u \in Tree,
           Backed(t), KeepsBlobs(t, u), Highest(u), NEW n \in Names, t.index[n] # None
    PROVE  u.index[n] # None /\ Vercmp(u.index[n].ver, t.index[n].ver) >= 0
<1> DEFINE e == t.index[n]
<1>1. e \in Entry /\ e.file \in Files /\ e.bs \in Gz /\ e.ver \in Versions
  BY DEF Tree, Entry
<1>2. t.blobs[e.file] = e.bs /\ e.bs.name = n /\ e.ver = e.bs.ver
  BY DEF Backed, Backs
<1>3. u.blobs[e.file] = e.bs /\ e.bs # None
  BY <1>1, <1>2, NoneIsNone DEF KeepsBlobs
<1>4. u.index[n] # None /\ Vercmp(e.ver, u.index[n].ver) <= 0
  BY <1>1, <1>2, <1>3 DEF Highest, Tops
<1>5. u.index[n].ver \in Versions
  BY <1>4 DEF Tree, Entry
<1>6. QED BY <1>1, <1>4, <1>5, VercmpType DEF VercmpOrders
=============================================================================

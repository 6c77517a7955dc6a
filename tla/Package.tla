------------------------------- MODULE Package -------------------------------
(***************************************************************************)
(* What the packers build and the trees they write: tools/pack_pkg.py      *)
(* (staging directory -> deterministic tar.gz and its notecards) and the   *)
(* files of a mirror checkout that tools/pack_repo.py reads and writes.    *)
(*                                                                         *)
(* A tar.gz is the record of what its readers tell apart: the pkgname and  *)
(* pkgver of its .PKGINFO and the payload.  build_gz is deterministic and  *)
(* sha256 is taken to be injective, so `bs' is the tar.gz itself.          *)
(***************************************************************************)
EXTENDS Version

CONSTANTS
    Names,      \* package names
    Versions,   \* versions packages are packed at (sequences of segments)
    Payloads,   \* what a build of the sources can produce
    ScanOrder,  \* sorted(glob('*.tar.gz')): every file name, in string order
    None        \* no such file

Files == Names \X Versions                  \* <name>-<ver>.tar.gz
Gz == [name : Names, ver : Versions, payload : Payloads]
Entry == [ver : Versions, bs : Gz, file : Files]
Manifest == [ver : Versions, bs : Gz]       \* rom/pkg-<name>-000.txt
Stage == [info : Versions \cup {None}, payload : Payloads]   \* .PKGINFO's pkgver

(* A checkout: the blobs, APKINDEX.json and the manifest cards. *)
Tree == [blobs : [Files -> Gz \cup {None}],
         index : [Names -> Entry \cup {None}],
         cards : [Names -> Manifest \cup {None}]]

ASSUME NoneAssumption ==
    None \notin Gz \cup Entry \cup Manifest \cup Stage \cup Versions \cup Names

ASSUME ScanAssumption ==
    /\ ScanOrder \in Seq(Files)
    /\ \A f \in Files : \E i \in 1..Len(ScanOrder) : ScanOrder[i] = f

EmptyTree == [blobs |-> [f \in Files |-> None],
              index |-> [n \in Names |-> None],
              cards |-> [n \in Names |-> None]]

NoStages == [n \in Names |-> None]
-----------------------------------------------------------------------------
(* stage_entries: a .PKGINFO is synthesized from the arguments, and left in *)
(* the stage, only when the stage has none.                                 *)
StageEntries(stage, v) ==
    IF stage.info = None THEN [stage EXCEPT !.info = v] ELSE stage

(* build_gz *)
BuildGz(stage, n, v) ==
    [name |-> n, ver |-> StageEntries(stage, v).info, payload |-> stage.payload]

(* A recipe's staging: rm -rf, copy the built files, no .PKGINFO. *)
FreshStage(p) == [info |-> None, payload |-> p]

(* Mutant: the manifest hashes the payload, not the tar.gz. *)
PackCardsWrongSum(tree, n, v, gz) ==
    [tree EXCEPT !.cards[n] = [ver |-> v, bs |-> gz.payload]]

(* pack: the manifest card replaces every older card of the package. *)
PackCards(tree, n, v, gz) == [tree EXCEPT !.cards[n] = [ver |-> v, bs |-> gz]]

WriteBlob(tree, f, gz) == [tree EXCEPT !.blobs[f] = gz]
-----------------------------------------------------------------------------
(* The entry reindex makes of the blob in file f. *)
EntryOf(f, gz) == [ver |-> gz.ver, bs |-> gz, file |-> f]

(* Mutant: the first blob of a package stays. *)
ConsiderFirst(byName, f, gz) ==
    IF byName[gz.name] = None THEN [byName EXCEPT ![gz.name] = EntryOf(f, gz)] ELSE byName

(* Mutant: >= for >. *)
ConsiderEqual(byName, f, gz) ==
    IF byName[gz.name] = None \/ Vercmp(gz.ver, byName[gz.name].ver) >= 0
    THEN [byName EXCEPT ![gz.name] = EntryOf(f, gz)]
    ELSE byName

(* One blob of the loop of reindex: it replaces the entry of its pkgname    *)
(* only when its pkgver is strictly higher.                                 *)
Consider(byName, f, gz) ==
    IF byName[gz.name] = None \/ Vercmp(gz.ver, byName[gz.name].ver) > 0
    THEN [byName EXCEPT ![gz.name] = EntryOf(f, gz)]
    ELSE byName

NoEntries == [n \in Names |-> None]

(* What the loop leaves, for versions vercmp orders: per package the        *)
(* highest of its blobs, the one scanned first among equals.  Reindex is    *)
(* the set of the indexes this describes, a singleton.                      *)
Ranks(blobs, n) ==
    {i \in 1..Len(ScanOrder) : blobs[ScanOrder[i]] # None /\ blobs[ScanOrder[i]].name = n}

First(blobs, n, i) ==
    \A j \in Ranks(blobs, n) :
        LET c == Vercmp(blobs[ScanOrder[i]].ver, blobs[ScanOrder[j]].ver)
        IN  c > 0 \/ (c = 0 /\ i <= j)

Picks(blobs, n) ==
    IF Ranks(blobs, n) = {} THEN {None}
    ELSE {EntryOf(ScanOrder[i], blobs[ScanOrder[i]]) :
             i \in {j \in Ranks(blobs, n) : First(blobs, n, j)}}

Reindex(blobs) ==
    {ix \in [Names -> UNION {Picks(blobs, n) : n \in Names}] :
        \A n \in Names : ix[n] \in Picks(blobs, n)}

(* What another publisher, up to date with the served tree t, pushes: a     *)
(* freshly built package, packed at a version that has no blob yet.         *)
OtherTree(t, n, v, p) ==
    LET gz == BuildGz(FreshStage(p), n, v)
        packed == WriteBlob(PackCards(t, n, v, gz), <<n, v>>, gz)
    IN  [packed EXCEPT !.index = Consider(t.index, <<n, v>>, gz)]

(* verify: every indexed blob re-hashes to its bs, and a manifest card at   *)
(* the indexed version carries that bs.                                     *)
Coherent(tree) ==
    \A n \in Names : (tree.index[n] # None /\ tree.cards[n] # None) =>
        (tree.cards[n].ver = tree.index[n].ver => tree.cards[n].bs = tree.index[n].bs)

(* Mutant: the cards are not compared. *)
VerifyBlobsOnly(tree) ==
    \A n \in Names : tree.index[n] # None =>
        tree.blobs[tree.index[n].file] = tree.index[n].bs

Verify(tree) ==
    /\ \A n \in Names : tree.index[n] # None =>
           tree.blobs[tree.index[n].file] = tree.index[n].bs
    /\ Coherent(tree)
-----------------------------------------------------------------------------
(***************************************************************************)
(* What a mirror promises its readers, as predicates on a tree.            *)
(***************************************************************************)

(* The entries of ix name blobs that exist, with their name, version, hash. *)
Backs(blobs, ix) ==
    \A n \in Names : ix[n] # None =>
        blobs[ix[n].file] = ix[n].bs /\ ix[n].bs.name = n /\ ix[n].ver = ix[n].bs.ver

Backed(tree) == Backs(tree.blobs, tree.index)

(* "one entry per name: the highest version": no blob of a package has a    *)
(* higher pkgver than its entry, and a package with blobs has an entry.     *)
Tops(ix, gz) == ix[gz.name] # None /\ Vercmp(gz.ver, ix[gz.name].ver) <= 0

Highest(tree) ==
    \A f \in Files : tree.blobs[f] # None => Tops(tree.index, tree.blobs[f])

(* The tree u has every blob of the tree t, unchanged. *)
KeepsBlobs(t, u) == \A f \in Files : t.blobs[f] # None => u.blobs[f] = t.blobs[f]
=============================================================================

------------------------------ MODULE ApkProofs ------------------------------
(***************************************************************************)
(* Proofs about Apk: however commands, failed fetches, deaths, reboots and *)
(* releases follow each other, no package is registered or recorded twice, *)
(* an upgrade loses none, an installed package has its files and a         *)
(* successful sync-world restores the world.                               *)
(***************************************************************************)
EXTENDS Apk, WellFoundedInduction, TLAPS

(* A set of positions that is not empty has a first one. *)
LEMMA LeastExists ==
    ASSUME NEW S \in SUBSET Nat, S # {}
    PROVE  \E i \in S : \A j \in S : i <= j
<1>1. PICK i \in S : \A y \in S : ~(<<y, i>> \in OpToRel(<, Nat))
  BY NatLessThanWellFounded, WFMin, Zenon
<1>2. ASSUME NEW j \in S PROVE i <= j
  <2>1. ~(j < i)
    BY <1>1 DEF OpToRel
  <2> QED
    BY <2>1
<1> QED
  BY <1>2

(* Two sequences joined. *)
LEMMA JoinFacts ==
    ASSUME NEW S, NEW l \in Seq(S), NEW r \in Seq(S)
    PROVE  /\ l \o r \in Seq(S) /\ Len(l \o r) = Len(l) + Len(r)
           /\ \A k \in 1..Len(l) : (l \o r)[k] = l[k]
           /\ \A k \in (Len(l) + 1)..(Len(l) + Len(r)) : (l \o r)[k] = r[k - Len(l)]
OBVIOUS

(* What is left of a sequence from which one element is removed. *)
LEMMA RemoveFacts ==
    ASSUME NEW S, NEW s \in Seq(S), NEW i \in 1..Len(s)
    PROVE  /\ RemoveAt(s, i) \in Seq(S) /\ Len(RemoveAt(s, i)) = Len(s) - 1
           /\ \A k \in 1..(Len(s) - 1) : RemoveAt(s, i)[k] = s[IF k < i THEN k ELSE k + 1]
<1> DEFINE l == SubSeq(s, 1, i - 1)
<1> DEFINE r == SubSeq(s, i + 1, Len(s))
<1>1. l \in Seq(S) /\ Len(l) = i - 1 /\ \A k \in 1..(i - 1) : l[k] = s[k]
  OBVIOUS
<1>2. r \in Seq(S) /\ Len(r) = Len(s) - i /\ \A k \in 1..(Len(s) - i) : r[k] = s[i + k]
  OBVIOUS
<1>3. RemoveAt(s, i) = l \o r
  BY DEF RemoveAt
<1> HIDE DEF l, r
<1>4. l \o r \in Seq(S) /\ Len(l \o r) = Len(s) - 1
  <2>1. l \o r \in Seq(S) /\ Len(l \o r) = Len(l) + Len(r)
    BY <1>1, <1>2, JoinFacts
  <2>2. Len(l) + Len(r) = Len(s) - 1
    BY <1>1, <1>2
  <2> QED
    BY <2>1, <2>2
<1>5. ASSUME NEW k \in 1..(Len(s) - 1)
      PROVE  (l \o r)[k] = s[IF k < i THEN k ELSE k + 1]
  <2>1. CASE k < i
    BY <1>1, <1>2, <2>1
  <2>2. CASE ~(k < i)
    <3>1. (l \o r)[k] = r[k - (i - 1)]
      BY <1>1, <1>2, <2>2
    <3>2. r[k - (i - 1)] = s[i + (k - (i - 1))]
      BY <1>2, <2>2
    <3>3. i + (k - (i - 1)) = k + 1
      OBVIOUS
    <3> QED
      BY <2>2, <3>1, <3>2, <3>3
  <2> QED
    BY <2>1, <2>2
<1> QED
  BY <1>3, <1>4, <1>5
-----------------------------------------------------------------------------
(* No name has two stanzas. *)
OnceEach(d) == \A i, j \in 1..Len(d) : d[i].name = d[j].name => i = j

(* The empty database, and the empty world. *)
LEMMA NoStanzas == OnceEach(<<>>) /\ IsInjective(<<>>) /\ \A n : ~Installed(<<>>, n)
<1>1. Len(<<>>) = 0 /\ 1..0 = {} /\ DOMAIN <<>> = 1..0
  OBVIOUS
<1>2. OnceEach(<<>>)
  BY <1>1 DEF OnceEach
<1>3. IsInjective(<<>>)
  BY <1>1 DEF IsInjective
<1>4. \A n : ~Installed(<<>>, n)
  BY <1>1 DEF Installed, Stanzas
<1> QED
  BY <1>2, <1>3, <1>4

(* A stanza of a database in which names are unique is the first of its name. *)
LEMMA FirstFacts ==
    ASSUME NEW d \in Seq(Stanza), OnceEach(d), NEW n, Installed(d, n)
    PROVE  First(d, n) \in 1..Len(d) /\ d[First(d, n)].name = n
<1>1. PICK i \in Stanzas(d, n) : TRUE
  BY DEF Installed
<1>2. \A j \in Stanzas(d, n) : i <= j
  BY DEF Stanzas, OnceEach
<1>3. First(d, n) \in Stanzas(d, n)
  BY <1>2 DEF First
<1> QED
  BY <1>3 DEF Stanzas

(* do_del's removal of a stanza. *)
LEMMA DropFacts ==
    ASSUME NEW d \in Seq(Stanza), OnceEach(d), NEW n, Installed(d, n),
           NEW e, e = RemoveAt(d, First(d, n))
    PROVE  /\ e \in Seq(Stanza) /\ OnceEach(e)
           /\ \A m : Installed(e, m) <=> Installed(d, m) /\ m # n
           /\ \A k \in 1..Len(e) : \E j \in 1..Len(d) : e[k] = d[j] /\ d[j].name # n
<1> DEFINE i == First(d, n)
<1> DEFINE at(k) == IF k < i THEN k ELSE k + 1
<1>1. i \in 1..Len(d) /\ d[i].name = n
  BY FirstFacts
<1>2. /\ e \in Seq(Stanza) /\ Len(e) = Len(d) - 1
      /\ \A k \in 1..(Len(d) - 1) : e[k] = d[at(k)]
  BY <1>1, RemoveFacts
<1> HIDE DEF i
<1>3. \A k \in 1..Len(e) : at(k) \in 1..Len(d) /\ at(k) # i /\ e[k] = d[at(k)]
  BY <1>1, <1>2
<1>4. \A k, l \in 1..Len(e) : at(k) = at(l) => k = l
  BY <1>1, <1>2
<1>5. ASSUME NEW j \in 1..Len(d), j # i PROVE \E k \in 1..Len(e) : at(k) = j
  <2>1. CASE j < i
    BY <1>1, <1>2, <2>1
  <2>2. CASE j > i
    <3>1. j - 1 \in 1..Len(e) /\ at(j - 1) = j
      BY <1>1, <1>2, <2>2
    <3> QED
      BY <3>1
  <2> QED
    BY <1>1, <1>5, <2>1, <2>2
<1> HIDE DEF at
<1>6. \A k \in 1..Len(e) : d[at(k)].name # n
  BY <1>1, <1>3 DEF OnceEach
<1>7. OnceEach(e)
  BY <1>3, <1>4 DEF OnceEach
<1>8. ASSUME NEW m PROVE Installed(e, m) <=> Installed(d, m) /\ m # n
  <2>1. ASSUME Installed(e, m) PROVE Installed(d, m) /\ m # n
    BY <1>3, <1>6, <2>1 DEF Installed, Stanzas
  <2>2. ASSUME Installed(d, m), m # n PROVE Installed(e, m)
    <3>1. PICK j \in 1..Len(d) : d[j].name = m
      BY <2>2 DEF Installed, Stanzas
    <3>2. j # i
      BY <1>1, <2>2, <3>1
    <3>3. PICK k \in 1..Len(e) : at(k) = j
      BY <1>5, <3>2
    <3> QED
      BY <1>3, <3>1, <3>3 DEF Installed, Stanzas
  <2> QED
    BY <2>1, <2>2
<1> QED
  BY <1>2, <1>3, <1>6, <1>7, <1>8

(* The registration of a package that has no stanza. *)
LEMMA RegisterFacts ==
    ASSUME NEW d \in Seq(Stanza), OnceEach(d), NEW s \in Stanza, ~Installed(d, s.name),
           NEW e, e = Append(d, s)
    PROVE  /\ e \in Seq(Stanza) /\ OnceEach(e)
           /\ \A m : Installed(e, m) <=> Installed(d, m) \/ m = s.name
           /\ \A k \in 1..Len(e) : e[k] = s \/ \E j \in 1..Len(d) : e[k] = d[j]
<1>1. /\ e \in Seq(Stanza) /\ Len(e) = Len(d) + 1 /\ e[Len(d) + 1] = s
      /\ \A k \in 1..Len(d) : e[k] = d[k]
  OBVIOUS
<1>2. \A k \in 1..Len(e) : k \in 1..Len(d) \/ k = Len(d) + 1
  BY <1>1
<1>3. \A k \in 1..Len(d) : d[k].name # s.name
  BY DEF Installed, Stanzas
<1>4. OnceEach(e)
  BY <1>1, <1>2, <1>3 DEF OnceEach
<1>5. ASSUME NEW m PROVE Installed(e, m) <=> Installed(d, m) \/ m = s.name
  <2>1. ASSUME Installed(e, m) PROVE Installed(d, m) \/ m = s.name
    BY <1>1, <1>2, <2>1 DEF Installed, Stanzas
  <2>2. ASSUME Installed(d, m) PROVE Installed(e, m)
    BY <1>1, <2>2 DEF Installed, Stanzas
  <2>3. Installed(e, s.name)
    <3>1. Len(d) + 1 \in 1..Len(e)
      BY <1>1
    <3> QED
      BY <1>1, <3>1 DEF Installed, Stanzas
  <2> QED
    BY <2>1, <2>2, <2>3
<1> QED
  BY <1>1, <1>2, <1>4, <1>5

(* do_del's write of the world. *)
LEMMA DropLineFacts ==
    ASSUME NEW w \in Seq(Names), IsInjective(w), NEW n
    PROVE  DropLine(w, n) \in Seq(Names) /\ IsInjective(DropLine(w, n))
<1> DEFINE hits == {i \in 1..Len(w) : w[i] = n \/ <<w[i], n>> \in EndsIn}
<1> DEFINE hit == CHOOSE i \in hits : \A j \in hits : i <= j
<1>1. DropLine(w, n) = IF hits # {} /\ w[hit] = n THEN RemoveAt(w, hit) ELSE w
  BY DEF DropLine
<1>2. CASE hits = {}
  BY <1>1, <1>2
<1>3. CASE hits # {}
  <2>1. hits \in SUBSET Nat
    OBVIOUS
  <2>2. \E i \in hits : \A j \in hits : i <= j
    BY <1>3, <2>1, LeastExists
  <2>3. hit \in 1..Len(w)
    BY <2>2
  <2> HIDE DEF hits, hit
  <2> DEFINE u == RemoveAt(w, hit)
  <2>4. /\ u \in Seq(Names) /\ Len(u) = Len(w) - 1
        /\ \A k \in 1..(Len(w) - 1) : u[k] = w[IF k < hit THEN k ELSE k + 1]
    BY <2>3, RemoveFacts
  <2> HIDE DEF u
  <2>5. \A k, l \in 1..Len(u) : u[k] = u[l] => k = l
    <3> SUFFICES ASSUME NEW k \in 1..Len(u), NEW l \in 1..Len(u), u[k] = u[l] PROVE k = l
      OBVIOUS
    <3> DEFINE at(x) == IF x < hit THEN x ELSE x + 1
    <3>1. k \in 1..(Len(w) - 1) /\ l \in 1..(Len(w) - 1)
      BY <2>4
    <3>2. at(k) \in 1..Len(w) /\ at(l) \in 1..Len(w)
      BY <2>3, <3>1
    <3>3. w[at(k)] = w[at(l)]
      BY <2>4, <3>1
    <3> HIDE DEF at
    <3>4. at(k) = at(l)
      BY <3>2, <3>3 DEF IsInjective
    <3> QED
      BY <2>3, <3>1, <3>4 DEF at
  <2>6. IsInjective(u)
    BY <2>4, <2>5 DEF IsInjective
  <2> QED
    BY <1>1, <2>4, <2>6 DEF u
<1> QED
  BY <1>2, <1>3

(* The world with a name it did not have. *)
LEMMA RecordFacts ==
    ASSUME NEW w \in Seq(Names), IsInjective(w), NEW n \in Names, n \notin Range(w),
           NEW u, u = Append(w, n)
    PROVE  u \in Seq(Names) /\ IsInjective(u)
<1>1. /\ u \in Seq(Names) /\ Len(u) = Len(w) + 1 /\ u[Len(w) + 1] = n
      /\ \A k \in 1..Len(w) : u[k] = w[k] /\ w[k] # n
  BY DEF Range
<1>2. \A k \in 1..Len(u) : k \in 1..Len(w) \/ k = Len(w) + 1
  BY <1>1
<1>3. \A k, l \in 1..Len(u) : u[k] = u[l] => k = l
  BY <1>1, <1>2 DEF IsInjective
<1>4. IsInjective(u)
  BY <1>1, <1>3 DEF IsInjective
<1> QED
  BY <1>1, <1>4
-----------------------------------------------------------------------------
(* The disk and the process of the applet have their types. *)
Typed ==
    /\ page \in [Names -> Vers \cup {None}]
    /\ world \in Seq(Names) /\ args \in Seq(Names)
    /\ db \in Seq(Stanza) /\ snap \in Seq(Stanza)
    /\ fs \in [Paths -> {None, Torn} \cup Common \cup (Names \X Vers)]
    /\ rest \subseteq Paths

(* The name a command is at, while it is inside do_del or install_tar_file. *)
Busy == pc \in {"unlink", "world", "extract", "record"}

(* Names are registered and recorded once.  Inside do_del the package at    *)
(* hand is installed until its stanza is dropped, and what is unpacked is   *)
(* the tar of a package that is not installed.                              *)
ApkInv ==
    /\ Typed
    /\ OnceEach(db) /\ IsInjective(world)
    /\ pc \in {"idle", "next", "unlink", "world", "extract", "record"}
    /\ Busy => args # <<>>
    /\ pc = "unlink" => Installed(db, Head(args))
    /\ pc \in {"world", "extract"} => ~Installed(db, Head(args))
    /\ pc \in {"unlink", "world"} => cmd \in {"del", "upgrade"}
    /\ pc = "extract" \/ (pc \in {"unlink", "world"} /\ cmd = "upgrade") =>
           tar \in [name : Names, ver : Vers] /\ tar.name = Head(args)

(* Inside an upgrade, what was installed when it began still is, but for    *)
(* the package between its do_del and its registration.                     *)
KeepInv ==
    cmd = "upgrade" => \A i \in 1..Len(snap) :
        \/ Installed(db, snap[i].name)
        \/ pc \in {"world", "extract"} /\ snap[i].name = Head(args)

(* What upgrade wants was installed when it began. *)
LEMMA WantedIsInstalled ==
    ASSUME ApkInv, KeepInv, cmd = "upgrade", pc = "next", NEW n, Wants(n)
    PROVE  Installed(db, n)
<1>1. Installed(snap, n)
  BY DEF Wants, db_ver
<1>2. PICK i \in 1..Len(snap) : snap[i].name = n
  BY <1>1 DEF Installed, Stanzas
<1> QED
  BY <1>2 DEF KeepInv

(* The files do_del unlinks. *)
LEMMA FilesFacts ==
    ASSUME ApkInv, NEW n, Installed(db, n)
    PROVE  /\ First(db, n) \in 1..Len(db) /\ db[First(db, n)].name = n
           /\ db[First(db, n)].files \subseteq Paths
<1>1. db \in Seq(Stanza) /\ OnceEach(db)
  BY DEF ApkInv, Typed
<1>2. First(db, n) \in 1..Len(db) /\ db[First(db, n)].name = n
  BY <1>1, FirstFacts
<1>3. db[First(db, n)] \in Stanza
  BY <1>1, <1>2
<1> QED
  BY <1>2, <1>3 DEF Stanza

(* The next name of the loop. *)
LEMMA HeadFacts == ASSUME Typed, args # <<>>
                   PROVE  Head(args) \in Names /\ Tail(args) \in Seq(Names)
BY DEF Typed

(* Every step of a command keeps ApkInv. *)
LEMMA ApkStep == ApkInv /\ KeepInv /\ Step => ApkInv'
<1> SUFFICES ASSUME ApkInv, KeepInv, Step PROVE ApkInv'
  OBVIOUS
<1> USE DEF disk, bounds, Busy
<1>0. args # <<>> => Head(args) \in Names /\ Tail(args) \in Seq(Names)
  BY HeadFacts DEF ApkInv
<1>a. ASSUME Skip, args # <<>>, UNCHANGED <<page, db, snap, fs, rest>>,
             world' \in Seq(Names), IsInjective(world')
      PROVE  ApkInv'
  BY <1>0, <1>a DEF Skip, ApkInv, Typed
<1>1. CASE AlreadyInstalled \/ UpToDate \/ FetchFails \/ NotInstalled
  BY <1>1, <1>a DEF AlreadyInstalled, UpToDate, FetchFails, NotInstalled, Looping, ApkInv, Typed
<1>2. CASE Fetch
  <2> DEFINE n == Head(args)
  <2>1. /\ args # <<>> /\ n \in Names /\ pc = "next" /\ page[n] \in Vers
        /\ tar' = [name |-> n, ver |-> page[n]] /\ Wants(n)
    BY <1>0, <1>2 DEF Fetch, Looping, ApkInv, Typed
  <2>2. UNCHANGED <<page, world, db, fs, cmd, args, snap>>
    BY <1>2 DEF Fetch
  <2>3. tar' \in [name : Names, ver : Vers] /\ tar'.name = n
    BY <2>1
  <2>4. CASE cmd = "upgrade"
    <3>1. Installed(db, n)
      BY <2>1, <2>4, WantedIsInstalled
    <3>2. pc' = "unlink" /\ rest' = db[First(db, n)].files
      BY <1>2, <2>4 DEF Fetch
    <3>3. rest' \subseteq Paths
      BY <3>1, <3>2, FilesFacts
    <3> QED
      BY <2>1, <2>2, <2>3, <2>4, <3>1, <3>2, <3>3 DEF ApkInv, Typed
  <2>5. CASE cmd # "upgrade"
    <3>1. ~Installed(db, n)
      BY <2>1, <2>5 DEF Wants
    <3>2. pc' = "extract" /\ rest' = Contents[n][page[n]]
      BY <1>2, <2>5 DEF Fetch
    <3>3. rest' \subseteq Paths
      BY <2>1, <3>2, ApkAssumption
    <3> QED
      BY <2>1, <2>2, <2>3, <2>5, <3>1, <3>2, <3>3 DEF ApkInv, Typed
  <2> QED
    BY <2>4, <2>5
<1>3. CASE DoDel
  <2>1. args # <<>> /\ Installed(db, Head(args)) /\ cmd = "del" /\ pc' = "unlink"
    BY <1>3 DEF DoDel, Looping
  <2>2. rest' \subseteq Paths
    BY <1>3, <2>1, FilesFacts DEF DoDel
  <2>3. UNCHANGED <<page, world, db, fs, cmd, args, snap, tar>>
    BY <1>3 DEF DoDel
  <2> QED
    BY <2>1, <2>2, <2>3 DEF ApkInv, Typed
<1>4. CASE Return
  <2>1. pc' = "idle" /\ snap' = <<>> /\ UNCHANGED <<page, world, db, fs, args, rest>>
    BY <1>4 DEF Return
  <2> QED
    BY <2>1 DEF ApkInv, Typed
<1>5. CASE Unlink
  <2>1. /\ pc = "unlink" /\ UNCHANGED <<page, world, db, tar, cmd, pc, args, snap>>
        /\ rest' \subseteq rest
    BY <1>5 DEF Unlink
  <2>2. fs' \in [Paths -> {None, Torn} \cup Common \cup (Names \X Vers)]
    BY <1>5 DEF Unlink, ApkInv, Typed
  <2> QED
    BY <2>1, <2>2 DEF ApkInv, Typed
<1>6. CASE DropStanza
  <2>1. /\ args # <<>> /\ Installed(db, Head(args)) /\ db' = RemoveAt(db, First(db, Head(args)))
        /\ db \in Seq(Stanza) /\ OnceEach(db)
    BY <1>6 DEF DropStanza, ApkInv, Typed
  <2>2. db' \in Seq(Stanza) /\ OnceEach(db') /\ ~Installed(db', Head(args))
    BY <2>1, DropFacts
  <2>3. pc = "unlink" /\ pc' = "world" /\ UNCHANGED <<page, world, fs, tar, cmd, args, snap, rest>>
    BY <1>6 DEF DropStanza
  <2> QED
    BY <2>1, <2>2, <2>3 DEF ApkInv, Typed
<1>7. CASE DropWorld
  <2>1. /\ pc = "world" /\ args # <<>> /\ world' = DropLine(world, Head(args))
        /\ UNCHANGED <<page, db, fs, tar, cmd, snap>>
    BY <1>7 DEF DropWorld, ApkInv
  <2>2. world' \in Seq(Names) /\ IsInjective(world')
    BY <2>1, DropLineFacts DEF ApkInv, Typed
  <2>3. CASE cmd = "upgrade"
    <3>1. pc' = "extract" /\ rest' = Contents[Head(args)][tar.ver] /\ UNCHANGED args
      BY <1>7, <2>3 DEF DropWorld
    <3>2. rest' \subseteq Paths
      BY <1>0, <2>1, <2>3, <3>1, ApkAssumption DEF ApkInv
    <3> QED
      BY <2>1, <2>2, <2>3, <3>1, <3>2 DEF ApkInv, Typed
  <2>4. CASE cmd # "upgrade"
    BY <1>7, <1>a, <2>1, <2>2, <2>4 DEF DropWorld
  <2> QED
    BY <2>3, <2>4
<1>8. CASE Extract
  <2>1. PICK p \in rest : fs' = [fs EXCEPT ![p] = Bytes(tar, p)]
    BY <1>8 DEF Extract
  <2>2. /\ pc = "extract" /\ UNCHANGED <<page, world, db, tar, cmd, pc, args, snap>>
        /\ rest' \subseteq rest
    BY <1>8 DEF Extract
  <2>3. Bytes(tar, p) \in Common \cup (Names \X Vers)
    BY <2>2 DEF Bytes, ApkInv
  <2>4. fs' \in [Paths -> {None, Torn} \cup Common \cup (Names \X Vers)]
    BY <2>1, <2>3 DEF ApkInv, Typed
  <2> QED
    BY <2>2, <2>4 DEF ApkInv, Typed
<1>9. CASE Register
  <2> DEFINE s == [name |-> tar.name, ver |-> tar.ver, files |-> Contents[tar.name][tar.ver]]
  <2>1. /\ pc = "extract" /\ pc' = "record" /\ db' = Append(db, s)
        /\ UNCHANGED <<page, world, fs, cmd, args, snap, rest>>
    BY <1>9 DEF Register
  <2>2. /\ tar.name \in Names /\ tar.ver \in Vers /\ ~Installed(db, tar.name)
        /\ args # <<>> /\ db \in Seq(Stanza) /\ OnceEach(db)
    BY <2>1 DEF ApkInv, Typed
  <2>3. s \in Stanza /\ s.name = tar.name
    BY <2>2, ApkAssumption DEF Stanza
  <2> HIDE DEF s
  <2>4. db' \in Seq(Stanza) /\ OnceEach(db')
    BY <2>1, <2>2, <2>3, RegisterFacts
  <2> QED
    BY <2>1, <2>2, <2>4 DEF ApkInv, Typed
<1>10. CASE RecordWorld
  <2>1. /\ args # <<>> /\ Skip /\ UNCHANGED <<page, db, fs, snap, rest>>
        /\ world' = IF record /\ Head(args) \notin Range(world) THEN Append(world, Head(args)) ELSE world
    BY <1>10 DEF RecordWorld, ApkInv
  <2>2. world' \in Seq(Names) /\ IsInjective(world')
    <3>1. world \in Seq(Names) /\ IsInjective(world) /\ Head(args) \in Names
      BY <1>0, <2>1 DEF ApkInv, Typed
    <3>2. CASE record /\ Head(args) \notin Range(world)
      <4>1. world' = Append(world, Head(args))
        BY <2>1, <3>2
      <4> QED
        BY <3>1, <3>2, <4>1, RecordFacts
    <3>3. CASE ~(record /\ Head(args) \notin Range(world))
      <4>1. world' = world
        BY <2>1, <3>3
      <4> QED
        BY <3>1, <4>1
    <3> QED
      BY <3>2, <3>3
  <2> QED
    BY <1>a, <2>1, <2>2
<1> QED
  BY <1>1, <1>2, <1>3, <1>4, <1>5, <1>6, <1>7, <1>8, <1>9, <1>10 DEF Step

(* A command that begins, an applet that dies and the environment keep      *)
(* ApkInv.                                                                  *)
LEMMA ApkOther == ApkInv /\ TypeOK /\ (Command \/ Die \/ Reboot \/ Release) => ApkInv'
<1> SUFFICES ASSUME ApkInv, TypeOK, Command \/ Die \/ Reboot \/ Release PROVE ApkInv'
  OBVIOUS
<1> USE DEF disk, proc, bounds, Busy
<1>a. \A d \in {db, <<>>} : d \in Seq(Stanza) /\ OnceEach(d)
  <2>1. <<>> \in Seq(Stanza) /\ db \in Seq(Stanza) /\ OnceEach(db)
    BY DEF ApkInv, Typed
  <2> QED
    BY <2>1, NoStanzas, Zenon
<1>b. \A w \in {world, <<>>} : w \in Seq(Names) /\ IsInjective(w)
  <2>1. <<>> \in Seq(Names) /\ world \in Seq(Names) /\ IsInjective(world)
    BY DEF ApkInv, Typed
  <2> QED
    BY <2>1, NoStanzas, Zenon
<1>1. ASSUME pc' = "next", UNCHANGED <<world, fs, rest>>, page' \in {page, avail},
             args' \in Seq(Names), snap' \in Seq(Stanza), db' \in {db, <<>>}
      PROVE  ApkInv'
  <2>1. db' \in Seq(Stanza) /\ OnceEach(db')
    BY <1>1, <1>a, Zenon
  <2>2. page' \in [Names -> Vers \cup {None}]
    BY <1>1 DEF ApkInv, Typed, TypeOK
  <2> QED
    BY <1>1, <2>1, <2>2 DEF ApkInv, Typed
<1>2. ASSUME NEW names \in Argv PROVE names \in Seq(Names)
  <2>1. PICK k \in 1..MaxArgs : names \in [1..k -> Names]
    BY DEF Argv
  <2>2. k \in Nat
    BY <2>1, ApkAssumption
  <2> QED
    BY <2>1, <2>2
<1>3. world \in Seq(Names) /\ snap \in Seq(Stanza) /\ db \in Seq(Stanza)
  BY DEF ApkInv, Typed
<1>4. CASE Add \/ Del
  BY <1>1, <1>2, <1>3, <1>4 DEF Add, Del, Begin
<1>5. CASE Update
  BY <1>1, <1>3, <1>5 DEF Update, Begin
<1>6. CASE Upgrade \/ SyncWorld
  BY <1>1, <1>3, <1>6 DEF Upgrade, SyncWorld, Begin
<1>7. CASE IndexUnavailable
  <2>1. UNCHANGED <<page, world, db, fs, tar, cmd, pc, args, snap, rest>>
    BY <1>7 DEF IndexUnavailable
  <2> QED
    BY <2>1 DEF ApkInv, Typed
<1>8. CASE Die
  <2>1. /\ pc' = "idle" /\ args' = <<>> /\ snap' = <<>> /\ rest' = {} /\ page' = page
        /\ db' \in {db, <<>>} /\ world' \in {world, <<>>}
    BY <1>8 DEF Die
  <2>2. fs' \in [Paths -> {None, Torn} \cup Common \cup (Names \X Vers)]
    BY <1>8 DEF Die, ApkInv, Typed
  <2>3. db' \in Seq(Stanza) /\ OnceEach(db')
    BY <1>a, <2>1, Zenon
  <2>4. world' \in Seq(Names) /\ IsInjective(world')
    BY <1>b, <2>1, Zenon
  <2> QED
    BY <2>1, <2>2, <2>3, <2>4 DEF ApkInv, Typed
<1>9. CASE Reboot
  <2>1. /\ pc' = "next" /\ args' = world /\ snap' = <<>> /\ rest' = {} /\ page' = avail
        /\ db' = <<>> /\ world' = world
    BY <1>9 DEF Reboot
  <2>2. fs' \in [Paths -> {None, Torn} \cup Common \cup (Names \X Vers)]
    BY <1>9 DEF Reboot
  <2>3. page' \in [Names -> Vers \cup {None}]
    BY <2>1 DEF TypeOK
  <2> QED
    BY <1>3, <2>1, <2>2, <2>3, NoStanzas DEF ApkInv, Typed
<1>10. CASE Release
  <2>1. UNCHANGED <<page, world, db, fs, tar, cmd, pc, args, snap, rest>>
    BY <1>10 DEF Release
  <2> QED
    BY <2>1 DEF ApkInv, Typed
<1> QED
  BY <1>4, <1>5, <1>6, <1>7, <1>8, <1>9, <1>10 DEF Command

(* An upgrade keeps what it found installed, at every step of it. *)
LEMMA KeepStep == ApkInv /\ KeepInv /\ [Next]_vars => KeepInv'
<1> SUFFICES ASSUME ApkInv, KeepInv, [Next]_vars PROVE KeepInv'
  OBVIOUS
<1> USE DEF disk, proc, bounds
<1>1. ASSUME cmd' = "upgrade", UNCHANGED <<db, snap, cmd, args>>, pc \notin {"world", "extract"}
      PROVE  KeepInv'
  BY <1>1 DEF KeepInv
<1>2. ASSUME UNCHANGED <<db, snap, cmd, args, pc>> PROVE KeepInv'
  BY <1>2 DEF KeepInv
<1>3. ASSUME UNCHANGED <<db, snap, cmd>>, pc \notin {"world", "extract"} PROVE KeepInv'
  BY <1>3 DEF KeepInv
<1>4. ASSUME cmd' # "upgrade" PROVE KeepInv'
  BY <1>4 DEF KeepInv
<1>5. CASE Add \/ Del \/ Update \/ SyncWorld \/ Die \/ Reboot \/ Return
  BY <1>4, <1>5 DEF Add, Del, Update, SyncWorld, Begin, Die, Reboot, Return
<1>6. CASE IndexUnavailable \/ Release \/ Unlink \/ Extract \/ UNCHANGED vars
  BY <1>2, <1>6 DEF IndexUnavailable, Release, Unlink, Extract, vars
<1>7. CASE AlreadyInstalled \/ UpToDate \/ FetchFails \/ Fetch \/ NotInstalled \/ DoDel \/ RecordWorld
  BY <1>3, <1>7 DEF AlreadyInstalled, UpToDate, FetchFails, Fetch, NotInstalled, DoDel,
     RecordWorld, Looping
<1>8. CASE Upgrade
  <2>1. snap' = db /\ db' = db
    BY <1>8 DEF Upgrade
  <2>2. \A i \in 1..Len(db) : Installed(db, db[i].name)
    BY DEF Installed, Stanzas
  <2> QED
    BY <2>1, <2>2 DEF KeepInv
<1>9. CASE DropStanza
  <2>1. /\ pc = "unlink" /\ pc' = "world" /\ UNCHANGED <<cmd, args, snap>>
        /\ db' = RemoveAt(db, First(db, Head(args)))
    BY <1>9 DEF DropStanza
  <2>2. db \in Seq(Stanza) /\ OnceEach(db) /\ Installed(db, Head(args))
    BY <2>1 DEF ApkInv, Typed
  <2>3. \A m : Installed(db', m) <=> Installed(db, m) /\ m # Head(args)
    BY <2>1, <2>2, DropFacts
  <2> QED
    BY <2>1, <2>3 DEF KeepInv
<1>10. CASE DropWorld
  <2>1. CASE cmd = "upgrade"
    <3>1. pc = "world" /\ pc' = "extract" /\ UNCHANGED <<cmd, args, snap, db>>
      BY <1>10, <2>1 DEF DropWorld
    <3> QED
      BY <3>1 DEF KeepInv
  <2>2. CASE cmd # "upgrade"
    BY <1>4, <1>10, <2>2 DEF DropWorld
  <2> QED
    BY <2>1, <2>2
<1>11. CASE Register
  <2> DEFINE s == [name |-> tar.name, ver |-> tar.ver, files |-> Contents[tar.name][tar.ver]]
  <2>1. pc = "extract" /\ pc' = "record" /\ UNCHANGED <<cmd, args, snap>> /\ db' = Append(db, s)
    BY <1>11 DEF Register
  <2>2. /\ db \in Seq(Stanza) /\ OnceEach(db) /\ tar.name \in Names /\ tar.ver \in Vers
        /\ tar.name = Head(args) /\ ~Installed(db, tar.name)
    BY <2>1 DEF ApkInv, Typed
  <2>3. s \in Stanza /\ s.name = tar.name
    BY <2>2, ApkAssumption DEF Stanza
  <2> HIDE DEF s
  <2>4. \A m : Installed(db', m) <=> Installed(db, m) \/ m = s.name
    BY <2>1, <2>2, <2>3, RegisterFacts
  <2> QED
    BY <2>1, <2>2, <2>3, <2>4 DEF KeepInv
<1> QED
  BY <1>5, <1>6, <1>7, <1>8, <1>9, <1>10, <1>11 DEF Next, Command, Step
-----------------------------------------------------------------------------
(* A counter that is kept, or raised while it is below its bound. *)
LEMMA CounterStep ==
    ASSUME NEW b \in Nat, NEW c \in 0..b, NEW d, d = c \/ (d = c + 1 /\ c < b)
    PROVE  d \in 0..b
OBVIOUS

(* Every step keeps the types. *)
LEMMA ApkTypesStep == ApkInv /\ ApkInv' /\ TypeOK /\ [Next]_vars => TypeOK'
<1> SUFFICES ASSUME ApkInv, ApkInv', TypeOK, [Next]_vars PROVE TypeOK'
  OBVIOUS
<1> USE DEF disk, proc, bounds
<1>1. /\ page' \in [Names -> Vers \cup {None}]
      /\ world' \in Seq(Names) /\ args' \in Seq(Names)
      /\ db' \in Seq(Stanza) /\ snap' \in Seq(Stanza)
      /\ fs' \in [Paths -> {None, Torn} \cup Common \cup (Names \X Vers)]
      /\ rest' \subseteq Paths
      /\ pc' \in {"idle", "next", "unlink", "world", "extract", "record"}
  BY DEF ApkInv, Typed
<1>2. args # <<>> => Head(args) \in Names
  BY DEF TypeOK
<1>3. avail' \in [Names -> Vers \cup {None}]
  <2>1. CASE Release
    BY <2>1 DEF Release, TypeOK
  <2>2. CASE UNCHANGED avail
    BY <2>2 DEF TypeOK
  <2> QED
    BY <2>1, <2>2 DEF Next, Command, Step, Add, Del, Update, Upgrade, IndexUnavailable, SyncWorld,
       AlreadyInstalled, UpToDate, FetchFails, Fetch, NotInstalled, DoDel, Return, Unlink,
       DropStanza, DropWorld, Extract, Register, RecordWorld, Die, Reboot, vars
<1>4. cmd' \in {"none", "add", "del", "update", "upgrade", "sync-world"}
  BY DEF Next, Command, Step, Add, Del, Update, Upgrade, IndexUnavailable, SyncWorld, Begin,
     AlreadyInstalled, UpToDate, FetchFails, Fetch, NotInstalled, DoDel, Return, Unlink,
     DropStanza, DropWorld, Extract, Register, RecordWorld, Die, Reboot, Release, vars, TypeOK
<1>5. record' \in BOOLEAN
  <2>1. budget.records \subseteq BOOLEAN
    BY ApkAssumption DEF TypeOK, Budget
  <2>2. record' \in {record, TRUE, FALSE} \/ record' \in budget.records
    BY Zenon DEF Next, Command, Step, Add, Del, Update, Upgrade, IndexUnavailable, SyncWorld, Begin,
       AlreadyInstalled, UpToDate, FetchFails, Fetch, NotInstalled, DoDel, Return, Unlink,
       DropStanza, DropWorld, Extract, Register, RecordWorld, Die, Reboot, Release, vars
  <2> QED
    BY <2>1, <2>2, Zenon DEF TypeOK
<1>6. rc' \in 0..1
  <2>1. rc' \in {rc, 0, 1}
    BY Zenon DEF Next, Command, Step, Add, Del, Update, Upgrade, IndexUnavailable, SyncWorld, Begin,
       AlreadyInstalled, UpToDate, FetchFails, Fetch, NotInstalled, DoDel, Return, Unlink,
       DropStanza, DropWorld, Extract, Register, RecordWorld, Die, Reboot, Release, vars
  <2>2. rc \in 0..1
    BY DEF TypeOK
  <2> QED
    BY <2>1, <2>2
<1>7. tar' \in {None} \cup [name : Names, ver : Vers]
  <2>1. CASE Fetch
    BY <1>2, <2>1 DEF Fetch, Looping, TypeOK
  <2>2. CASE tar' \in {None, tar}
    BY <2>2 DEF TypeOK
  <2> QED
    BY <2>1, <2>2 DEF Next, Command, Step, Add, Del, Update, Upgrade, IndexUnavailable, SyncWorld,
       AlreadyInstalled, UpToDate, FetchFails, NotInstalled, DoDel, Return, Unlink,
       DropStanza, DropWorld, Extract, Register, RecordWorld, Die, Reboot, Release, vars
<1>8. asked' \subseteq Names
  <2>1. CASE AlreadyInstalled \/ RecordWorld
    <3>1. args # <<>> /\ Ask(Head(args))
      BY <2>1 DEF AlreadyInstalled, RecordWorld, Looping, ApkInv, Busy
    <3> QED
      BY <1>2, <3>1 DEF Ask, TypeOK
  <2>2. CASE asked' \subseteq asked
    BY <2>2 DEF TypeOK
  <2> QED
    BY <2>1, <2>2 DEF Next, Command, Step, Add, Del, Update, Upgrade, IndexUnavailable, SyncWorld,
       UpToDate, FetchFails, Fetch, NotInstalled, DoDel, Return, Unlink,
       DropStanza, DropWorld, Extract, Register, Die, Reboot, Release, vars
<1>9. budget' = budget
  BY DEF Next, Command, Step, Add, Del, Update, Upgrade, IndexUnavailable, SyncWorld, Begin,
     AlreadyInstalled, UpToDate, FetchFails, Fetch, NotInstalled, DoDel, Return, Unlink,
     DropStanza, DropWorld, Extract, Register, RecordWorld, Die, Reboot, Release, vars
<1>10. /\ budget.cmds \in Nat /\ budget.faults \in Nat /\ budget.deaths \in Nat
       /\ budget.reboots \in Nat /\ budget.releases \in Nat
  BY ApkAssumption DEF TypeOK, Budget
<1>11. /\ cmds' = cmds \/ (cmds' = cmds + 1 /\ cmds < budget.cmds)
       /\ faults' = faults \/ (faults' = faults + 1 /\ faults < budget.faults)
       /\ deaths' = deaths \/ (deaths' = deaths + 1 /\ deaths < budget.deaths)
       /\ reboots' = reboots \/ (reboots' = reboots + 1 /\ reboots < budget.reboots)
       /\ releases' = releases \/ (releases' = releases + 1 /\ releases < budget.releases)
  BY DEF Next, Command, Step, Add, Del, Update, Upgrade, IndexUnavailable, SyncWorld, Begin,
     AlreadyInstalled, UpToDate, FetchFails, Fetch, NotInstalled, DoDel, Return, Unlink,
     DropStanza, DropWorld, Extract, Register, RecordWorld, Die, Reboot, Release, vars
<1>12. /\ cmds' \in 0..budget.cmds /\ faults' \in 0..budget.faults /\ deaths' \in 0..budget.deaths
       /\ reboots' \in 0..budget.reboots /\ releases' \in 0..budget.releases
  <2>1. /\ cmds \in 0..budget.cmds /\ faults \in 0..budget.faults /\ deaths \in 0..budget.deaths
        /\ reboots \in 0..budget.reboots /\ releases \in 0..budget.releases
    BY DEF TypeOK
  <2> QED
    BY <1>10, <1>11, <2>1, CounterStep
<1> QED
  BY <1>1, <1>3, <1>4, <1>5, <1>6, <1>7, <1>8, <1>9, <1>12 DEF TypeOK

(* The initial state. *)
LEMMA ApkStart == Init => TypeOK /\ ApkInv /\ KeepInv
<1> SUFFICES ASSUME Init PROVE TypeOK /\ ApkInv /\ KeepInv
  OBVIOUS
<1>1. ApkInv
  <2>1. avail \in [Names -> Vers \cup {None}]
    BY ApkAssumption DEF Init
  <2>2. Typed
    BY <2>1 DEF Init, Typed
  <2> QED
    BY <2>2, NoStanzas DEF Init, ApkInv, Busy
<1>2. KeepInv
  BY DEF Init, KeepInv
<1>3. TypeOK
  <2>1. record \in BOOLEAN
    BY Zenon DEF Init
  <2>2. /\ budget \in Budgets /\ budget.cmds \in Nat /\ budget.faults \in Nat
        /\ budget.deaths \in Nat /\ budget.reboots \in Nat /\ budget.releases \in Nat
    BY ApkAssumption DEF Init, Budget
  <2> QED
    BY <1>1, <2>1, <2>2 DEF Init, TypeOK, ApkInv, Typed
<1> QED
  BY <1>1, <1>2, <1>3

(* The types, the registrations and what upgrade keeps hold in every state. *)
LEMMA ApkHolds == Spec => [](TypeOK /\ ApkInv /\ KeepInv)
<1>1. TypeOK /\ ApkInv /\ KeepInv /\ [Next]_vars => TypeOK' /\ ApkInv' /\ KeepInv'
  <2> SUFFICES ASSUME TypeOK, ApkInv, KeepInv, [Next]_vars PROVE TypeOK' /\ ApkInv' /\ KeepInv'
    OBVIOUS
  <2>1. ASSUME UNCHANGED vars PROVE ApkInv'
    BY <2>1 DEF vars, disk, proc, ApkInv, Typed, Busy
  <2>2. ApkInv'
    BY <2>1, ApkStep, ApkOther DEF Next
  <2> QED
    BY <2>2, ApkTypesStep, KeepStep
<1> QED
  BY <1>1, ApkStart, PTL DEF Spec

(* apk keeps its database, its world and its arguments well-formed. *)
THEOREM ApkTypes == Spec => []TypeOK
BY ApkHolds, PTL

(* No package is registered or recorded twice, for any packages, sequence   *)
(* of commands, failures, deaths and reboots: so the first stanza that      *)
(* do_del removes is the only one.                                          *)
THEOREM RegistersOnce == Spec => []RegisteredOnce
<1>1. ApkInv => RegisteredOnce
  BY DEF ApkInv, OnceEach, RegisteredOnce
<1> QED
  BY <1>1, ApkHolds, PTL

(* "a dead repo must keep the old files" (apk.c:364): an upgrade, whatever  *)
(* it fetches or fails to fetch, leaves installed what it found installed.  *)
THEOREM UpgradesKeep == Spec => []UpgradeKeeps
<1>1. ApkInv /\ KeepInv => UpgradeKeeps
  <2> SUFFICES ASSUME ApkInv, KeepInv, cmd = "upgrade", pc = "next", NEW s \in Range(snap)
               PROVE  Installed(db, s.name)
    BY DEF UpgradeKeeps
  <2>1. snap \in Seq(Stanza) /\ DOMAIN snap = 1..Len(snap)
    BY DEF ApkInv, Typed
  <2>2. PICK i \in 1..Len(snap) : s = snap[i]
    BY <2>1, Zenon DEF Range
  <2> QED
    BY <2>2 DEF KeepInv
<1> QED
  BY <1>1, ApkHolds, PTL
-----------------------------------------------------------------------------
(* While sync-world has not failed, each name of the world is installed or  *)
(* still to be handled.                                                     *)
SyncInv ==
    cmd = "sync-world" =>
        /\ pc \in {"next", "extract", "record"} /\ record = FALSE
        /\ pc = "record" => Installed(db, Head(args))
        /\ rc = 0 => \A i \in 1..Len(world) :
               Installed(db, world[i]) \/ \E k \in 1..Len(args) : args[k] = world[i]

(* Every step keeps SyncInv. *)
LEMMA SyncStep == ApkInv /\ SyncInv /\ [Next]_vars => SyncInv'
<1> SUFFICES ASSUME ApkInv, SyncInv, [Next]_vars, cmd' = "sync-world" PROVE SyncInv'
  BY DEF SyncInv
<1> USE DEF disk, proc, bounds
<1>1. ASSUME cmd = "sync-world", UNCHANGED <<db, world, cmd, record>>, Skip, args # <<>>,
             rc' = 1 \/ (rc' = rc /\ Installed(db, Head(args)))
      PROVE  SyncInv'
  <2>1. pc' = "next" /\ args' = Tail(args) /\ args \in Seq(Names) /\ world \in Seq(Names)
    BY <1>1 DEF Skip, ApkInv, Typed
  <2>2. ASSUME rc' = 0, NEW i \in 1..Len(world)
        PROVE  Installed(db, world[i]) \/ \E k \in 1..Len(args') : args'[k] = world[i]
    <3>1. rc = 0 /\ Installed(db, Head(args))
      BY <1>1, <2>2
    <3>2. CASE Installed(db, world[i])
      BY <3>2
    <3>3. CASE ~Installed(db, world[i])
      <4>1. PICK k \in 1..Len(args) : args[k] = world[i]
        BY <1>1, <3>1, <3>3 DEF SyncInv
      <4>2. k # 1
        BY <1>1, <2>1, <3>1, <3>3, <4>1
      <4>3. k - 1 \in 1..Len(Tail(args)) /\ Tail(args)[k - 1] = args[k]
        BY <1>1, <2>1, <4>2
      <4> QED
        BY <2>1, <4>1, <4>3
    <3> QED
      BY <3>2, <3>3
  <2> QED
    BY <1>1, <2>1, <2>2 DEF SyncInv
<1>2. CASE SyncWorld \/ Reboot
  <2>1. /\ args' = world /\ world' = world /\ pc' = "next" /\ record' = FALSE
    BY <1>2 DEF SyncWorld, Begin, Reboot
  <2> QED
    BY <2>1 DEF SyncInv
<1>3. CASE AlreadyInstalled
  BY <1>1, <1>3 DEF AlreadyInstalled, Looping
<1>4. CASE FetchFails
  BY <1>1, <1>4 DEF FetchFails, Looping
<1>5. CASE Fetch
  <2>1. /\ UNCHANGED <<db, world, cmd, record, args, rc>>
        /\ pc' = IF cmd = "upgrade" THEN "unlink" ELSE "extract"
    BY <1>5 DEF Fetch
  <2> QED
    BY <2>1 DEF SyncInv
<1>6. CASE Register
  <2> DEFINE s == [name |-> tar.name, ver |-> tar.ver, files |-> Contents[tar.name][tar.ver]]
  <2>1. /\ pc = "extract" /\ pc' = "record" /\ UNCHANGED <<world, cmd, record, args, rc>>
        /\ db' = Append(db, s)
    BY <1>6 DEF Register
  <2>2. /\ db \in Seq(Stanza) /\ OnceEach(db) /\ tar.name \in Names /\ tar.ver \in Vers
        /\ tar.name = Head(args) /\ ~Installed(db, tar.name)
    BY <2>1 DEF ApkInv, Typed
  <2>3. s \in Stanza /\ s.name = tar.name
    BY <2>2, ApkAssumption DEF Stanza
  <2> HIDE DEF s
  <2>4. \A m : Installed(db', m) <=> Installed(db, m) \/ m = s.name
    BY <2>1, <2>2, <2>3, RegisterFacts
  <2> QED
    BY <2>1, <2>2, <2>3, <2>4 DEF SyncInv
<1>7. CASE RecordWorld
  <2>1. cmd = "sync-world" /\ record = FALSE /\ pc = "record" /\ Installed(db, Head(args))
    BY <1>7 DEF RecordWorld, SyncInv
  <2>2. args # <<>>
    BY <2>1 DEF ApkInv, Busy
  <2> QED
    BY <1>1, <1>7, <2>1, <2>2 DEF RecordWorld
<1>8. CASE Release \/ Extract \/ UNCHANGED vars
  <2>1. UNCHANGED <<cmd, pc, record, db, world, args, rc>>
    BY <1>8 DEF Release, Extract, vars
  <2> QED
    BY <2>1 DEF SyncInv
<1>9. CASE IndexUnavailable
  <2>1. pc = "idle" /\ cmd' = cmd
    BY <1>9 DEF IndexUnavailable
  <2> QED
    BY <2>1 DEF SyncInv
<1>10. CASE Add \/ Del \/ Update \/ Upgrade \/ UpToDate \/ NotInstalled \/ DoDel \/ Return \/ Die
  BY <1>10 DEF Add, Del, Update, Upgrade, Begin, UpToDate, NotInstalled, DoDel, Looping, Return, Die
<1>11. CASE Unlink \/ DropStanza \/ DropWorld
  BY <1>11 DEF Unlink, DropStanza, DropWorld, SyncInv
<1> QED
  BY <1>2, <1>3, <1>4, <1>5, <1>6, <1>7, <1>8, <1>9, <1>10, <1>11 DEF Next, Command, Step

(* A sync-world that exits 0 has installed the whole world, however large   *)
(* it is and whatever happened before it.                                   *)
THEOREM SyncsRestore == Spec => []SyncRestores
<1>1. Init => SyncInv
  BY DEF Init, SyncInv
<1>2. ApkInv /\ SyncInv => SyncRestores
  <2> SUFFICES ASSUME ApkInv, SyncInv, cmd = "sync-world", args = <<>>, rc = 0, NEW n \in Range(world)
               PROVE  Installed(db, n)
    BY DEF SyncRestores
  <2>1. PICK i \in 1..Len(world) : n = world[i]
    BY DEF Range, ApkInv, Typed
  <2> QED
    BY <2>1 DEF SyncInv
<1> QED
  BY <1>1, <1>2, ApkHolds, SyncStep, PTL DEF Spec
-----------------------------------------------------------------------------
(* No two packages ship the same path (those of the recipes that ship the   *)
(* xterm terminfo entry do).                                                *)
Disjoint ==
    \A m, n \in Names, v, w \in Vers : m # n => Contents[m][v] \cap Contents[n][w] = {}

(* Stanzas list what was unpacked, do_del and install_tar_file touch only   *)
(* files of the package at hand, and what install_tar_file has done is on   *)
(* the disk.                                                                *)
CompleteInv ==
    /\ InstalledComplete
    /\ \A i \in 1..Len(db) : db[i].files = Contents[db[i].name][db[i].ver]
    /\ pc \in {"unlink", "extract"} => \E v \in Vers : rest \subseteq Contents[Head(args)][v]
    /\ pc = "extract" =>
           \A p \in Contents[tar.name][tar.ver] : p \in rest \/ fs[p] = Bytes(tar, p)

(* A file of the package at hand belongs to no other installed package. *)
LEMMA NotShared ==
    ASSUME Disjoint, ApkInv, CompleteInv, pc \in {"unlink", "extract"},
           NEW p \in rest, NEW i \in 1..Len(db), db[i].name # Head(args)
    PROVE  p \notin db[i].files
<1>1. args # <<>> /\ Head(args) \in Names
  BY HeadFacts DEF ApkInv, Busy
<1>2. db[i] \in Stanza /\ db[i].files = Contents[db[i].name][db[i].ver]
  BY DEF ApkInv, Typed, CompleteInv
<1>3. PICK v \in Vers : rest \subseteq Contents[Head(args)][v]
  BY DEF CompleteInv
<1> QED
  BY <1>1, <1>2, <1>3 DEF Disjoint, Stanza

(* Files a stanza lists are paths. *)
LEMMA StanzaPaths ==
    ASSUME ApkInv, NEW i \in 1..Len(db), NEW q \in db[i].files
    PROVE  q \in Paths
<1>1. db \in Seq(Stanza)
  BY DEF ApkInv, Typed
<1>2. db[i] \in Stanza
  BY <1>1
<1>3. db[i].files \in SUBSET Paths
  BY <1>2 DEF Stanza
<1> QED
  BY <1>3

(* Every step of do_del and install_tar_file keeps CompleteInv. *)
LEMMA CompleteBody ==
    ASSUME Disjoint, ApkInv, CompleteInv,
           Unlink \/ DropStanza \/ DropWorld \/ Extract \/ Register
    PROVE  CompleteInv'
<1> USE DEF disk, bounds
<1>1. CASE Unlink
  <2>1. PICK p \in rest : fs' = [fs EXCEPT ![p] = None] /\ rest' = rest \ {p}
    BY <1>1 DEF Unlink
  <2>2. pc = "unlink" /\ UNCHANGED <<db, tar, pc, args>>
    BY <1>1 DEF Unlink
  <2>3. p \in Paths /\ fs \in [Paths -> {None, Torn} \cup Common \cup (Names \X Vers)]
    BY DEF ApkInv, Typed
  <2>4. ASSUME NEW i \in 1..Len(db), NEW q \in db[i].files
        PROVE  fs'[q] = Bytes(db[i], q) \/ (db[i].name = Head(args) /\ q \notin rest')
    <3>1. fs[q] = Bytes(db[i], q) \/ (db[i].name = Head(args) /\ q \notin rest)
      BY <2>2 DEF CompleteInv, InstalledComplete
    <3>2. CASE db[i].name = Head(args)
      <4>1. q \in Paths
        BY StanzaPaths
      <4> QED
        BY <2>1, <2>3, <3>1, <3>2, <4>1
    <3>3. CASE db[i].name # Head(args)
      <4>1. p \notin db[i].files
        BY <2>2, <3>3, NotShared
      <4>2. q \in Paths
        BY StanzaPaths
      <4> QED
        BY <2>1, <2>3, <3>1, <3>3, <4>1, <4>2
    <3> QED
      BY <3>2, <3>3
  <2>5. InstalledComplete'
    BY <2>2, <2>4 DEF InstalledComplete, Bytes
  <2>6. \E v \in Vers : rest' \subseteq Contents[Head(args)][v]
    BY <2>1, <2>2 DEF CompleteInv
  <2> QED
    BY <2>2, <2>5, <2>6 DEF CompleteInv
<1>2. CASE DropStanza
  <2>1. /\ pc = "unlink" /\ pc' = "world" /\ UNCHANGED fs
        /\ db' = RemoveAt(db, First(db, Head(args)))
    BY <1>2 DEF DropStanza
  <2>2. db \in Seq(Stanza) /\ OnceEach(db) /\ Installed(db, Head(args))
    BY <2>1 DEF ApkInv, Typed
  <2>3. \A k \in 1..Len(db') : \E j \in 1..Len(db) : db'[k] = db[j] /\ db[j].name # Head(args)
    BY <2>1, <2>2, DropFacts
  <2>4. \A j \in 1..Len(db) : db[j].name # Head(args) => \A q \in db[j].files : fs[q] = Bytes(db[j], q)
    BY DEF CompleteInv, InstalledComplete
  <2>5. InstalledComplete'
    BY <2>1, <2>3, <2>4 DEF InstalledComplete, Bytes
  <2>6. \A k \in 1..Len(db') : db'[k].files = Contents[db'[k].name][db'[k].ver]
    BY <2>3 DEF CompleteInv
  <2> QED
    BY <2>1, <2>5, <2>6 DEF CompleteInv
<1>3. CASE DropWorld
  <2>1. pc = "world" /\ UNCHANGED <<db, fs, tar>> /\ pc' \in {"next", "extract"}
    BY <1>3 DEF DropWorld, Skip
  <2>2. InstalledComplete'
    BY <2>1 DEF CompleteInv, InstalledComplete, Bytes
  <2>3. CASE cmd = "upgrade"
    <3>1. /\ pc' = "extract" /\ rest' = Contents[Head(args)][tar.ver] /\ UNCHANGED args
          /\ tar.ver \in Vers /\ tar.name = Head(args)
      BY <1>3, <2>1, <2>3 DEF DropWorld, ApkInv
    <3> QED
      BY <2>1, <2>2, <3>1 DEF CompleteInv
  <2>4. CASE cmd # "upgrade"
    BY <1>3, <2>1, <2>2, <2>4 DEF DropWorld, Skip, CompleteInv
  <2> QED
    BY <2>3, <2>4
<1>4. CASE Extract
  <2>1. PICK p \in rest : fs' = [fs EXCEPT ![p] = Bytes(tar, p)] /\ rest' = rest \ {p}
    BY <1>4 DEF Extract
  <2>2. pc = "extract" /\ UNCHANGED <<db, tar, pc, args>>
    BY <1>4 DEF Extract
  <2>3. p \in Paths /\ fs \in [Paths -> {None, Torn} \cup Common \cup (Names \X Vers)]
    BY DEF ApkInv, Typed
  <2>4. ASSUME NEW i \in 1..Len(db), NEW q \in db[i].files PROVE fs'[q] = Bytes(db[i], q)
    <3>1. fs[q] = Bytes(db[i], q)
      BY <2>2 DEF CompleteInv, InstalledComplete
    <3>2. db[i].name # Head(args)
      BY <2>2 DEF ApkInv, Installed, Stanzas
    <3>3. p \notin db[i].files
      BY <2>2, <3>2, NotShared
    <3>4. q \in Paths
      BY StanzaPaths
    <3> QED
      BY <2>1, <2>3, <3>1, <3>3, <3>4
  <2>5. InstalledComplete'
    BY <2>2, <2>4 DEF InstalledComplete, Bytes
  <2>6. \E v \in Vers : rest' \subseteq Contents[Head(args)][v]
    BY <2>1, <2>2 DEF CompleteInv
  <2>7. ASSUME NEW q \in Contents[tar.name][tar.ver] PROVE q \in rest' \/ fs'[q] = Bytes(tar, q)
    <3>1. q \in rest \/ fs[q] = Bytes(tar, q)
      BY <2>2 DEF CompleteInv
    <3>2. q \in Paths
      BY <2>2, ApkAssumption DEF ApkInv
    <3> QED
      BY <2>1, <2>3, <3>1, <3>2
  <2> QED
    BY <2>2, <2>5, <2>6, <2>7 DEF CompleteInv, Bytes
<1>5. CASE Register
  <2> DEFINE s == [name |-> tar.name, ver |-> tar.ver, files |-> Contents[tar.name][tar.ver]]
  <2>1. pc = "extract" /\ pc' = "record" /\ rest = {} /\ fs' = fs /\ db' = Append(db, s)
    BY <1>5 DEF Register
  <2>2. /\ db \in Seq(Stanza) /\ OnceEach(db) /\ tar.name \in Names /\ tar.ver \in Vers
        /\ ~Installed(db, tar.name)
    BY <2>1 DEF ApkInv, Typed
  <2>3. s \in Stanza /\ s.name = tar.name /\ s.ver = tar.ver /\ s.files = Contents[tar.name][tar.ver]
    BY <2>2, ApkAssumption DEF Stanza
  <2> HIDE DEF s
  <2>4. \A k \in 1..Len(db') : db'[k] = s \/ \E j \in 1..Len(db) : db'[k] = db[j]
    BY <2>1, <2>2, <2>3, RegisterFacts
  <2>5. \A q \in s.files : fs[q] = Bytes(s, q)
    BY <2>1, <2>3 DEF CompleteInv, Bytes
  <2>6. \A j \in 1..Len(db) : \A q \in db[j].files : fs[q] = Bytes(db[j], q)
    BY <2>1 DEF CompleteInv, InstalledComplete
  <2>7. InstalledComplete'
    BY <2>1, <2>4, <2>5, <2>6 DEF InstalledComplete, Bytes
  <2>8. \A k \in 1..Len(db') : db'[k].files = Contents[db'[k].name][db'[k].ver]
    BY <2>3, <2>4 DEF CompleteInv
  <2> QED
    BY <2>1, <2>7, <2>8 DEF CompleteInv
<1> QED
  BY <1>1, <1>2, <1>3, <1>4, <1>5

(* So does every other step: it leaves the files and the database alone, or *)
(* clears the database, or cuts the command short.                          *)
LEMMA CompleteStep == Disjoint /\ ApkInv /\ KeepInv /\ CompleteInv /\ [Next]_vars => CompleteInv'
<1> SUFFICES ASSUME Disjoint, ApkInv, KeepInv, CompleteInv, [Next]_vars PROVE CompleteInv'
  OBVIOUS
<1> USE DEF disk, proc, bounds
<1>1. ASSUME UNCHANGED <<db, fs>>, pc # "unlink", pc' \notin {"unlink", "extract"} PROVE CompleteInv'
  BY <1>1 DEF CompleteInv, InstalledComplete, Bytes
<1>2. ASSUME db' = <<>>, pc' \notin {"unlink", "extract"} PROVE CompleteInv'
  BY <1>2 DEF CompleteInv, InstalledComplete
<1>3. ASSUME UNCHANGED <<db, fs, tar, pc, args, rest>> PROVE CompleteInv'
  BY <1>3 DEF CompleteInv, InstalledComplete, Bytes
<1>4. CASE Add \/ Del \/ Update \/ Upgrade
  BY <1>1, <1>4 DEF Add, Del, Update, Upgrade, Begin
<1>5. CASE IndexUnavailable \/ Release \/ UNCHANGED vars
  BY <1>3, <1>5 DEF IndexUnavailable, Release, vars
<1>6. CASE SyncWorld \/ Reboot
  BY <1>2, <1>6 DEF SyncWorld, Begin, Reboot
<1>7. CASE AlreadyInstalled \/ UpToDate \/ FetchFails \/ NotInstalled \/ Return \/ RecordWorld
  BY <1>1, <1>7 DEF AlreadyInstalled, UpToDate, FetchFails, NotInstalled, Return, RecordWorld,
                    Looping, Skip
<1>8. CASE Fetch \/ DoDel
  <2>1. UNCHANGED <<db, fs, args>> /\ pc = "next" /\ args # <<>>
    BY <1>8 DEF Fetch, DoDel, Looping
  <2>2. Head(args) \in Names
    BY <2>1, HeadFacts DEF ApkInv
  <2>3. InstalledComplete' /\ \A i \in 1..Len(db) : db'[i].files = Contents[db'[i].name][db'[i].ver]
    BY <2>1 DEF CompleteInv, InstalledComplete, Bytes
  <2>4. CASE Fetch /\ cmd # "upgrade"
    <3>1. /\ tar' = [name |-> Head(args), ver |-> page[Head(args)]] /\ pc' = "extract"
          /\ rest' = Contents[Head(args)][page[Head(args)]] /\ page[Head(args)] # None
      BY <2>4 DEF Fetch
    <3>2. page[Head(args)] \in Vers
      BY <2>2, <3>1 DEF ApkInv, Typed
    <3>3. \E v \in Vers : rest' \subseteq Contents[Head(args)][v]
      BY <3>1, <3>2
    <3> QED
      BY <2>1, <2>3, <3>1, <3>3 DEF CompleteInv
  <2>5. CASE DoDel \/ (Fetch /\ cmd = "upgrade")
    <3>1. pc' = "unlink" /\ rest' = db[First(db, Head(args))].files
      BY <2>5 DEF Fetch, DoDel
    <3>2. Installed(db, Head(args))
      BY <2>1, <2>2, <2>5, WantedIsInstalled DEF DoDel, Fetch, Looping
    <3>3. First(db, Head(args)) \in 1..Len(db) /\ db[First(db, Head(args))].name = Head(args)
      BY <3>2, FirstFacts DEF ApkInv, Typed
    <3>4. db[First(db, Head(args))] \in Stanza
      BY <3>3 DEF ApkInv, Typed
    <3>5. db[First(db, Head(args))].files = Contents[Head(args)][db[First(db, Head(args))].ver]
      BY <3>3 DEF CompleteInv
    <3>6. \E v \in Vers : rest' \subseteq Contents[Head(args)][v]
      BY <3>1, <3>4, <3>5 DEF Stanza
    <3> QED
      BY <2>1, <2>3, <3>1, <3>6 DEF CompleteInv
  <2> QED
    BY <1>8, <2>4, <2>5
<1>9. CASE Unlink \/ DropStanza \/ DropWorld \/ Extract \/ Register
  BY <1>9, CompleteBody
<1>10. CASE Die
  <2>1. pc' = "idle"
    BY <1>10 DEF Die
  <2>2. CASE db' = <<>>
    BY <1>2, <2>1, <2>2
  <2>3. CASE UNCHANGED <<db, fs>> /\ pc # "unlink"
    BY <1>1, <2>1, <2>3
  <2>4. CASE \E p \in rest : pc = "extract" /\ fs' = [fs EXCEPT ![p] = Torn] /\ UNCHANGED db
    <3>1. PICK p \in rest : pc = "extract" /\ fs' = [fs EXCEPT ![p] = Torn] /\ UNCHANGED db
      BY <2>4
    <3>2. fs \in [Paths -> {None, Torn} \cup Common \cup (Names \X Vers)]
      BY DEF ApkInv, Typed
    <3>3. ASSUME NEW i \in 1..Len(db), NEW q \in db[i].files PROVE fs'[q] = Bytes(db[i], q)
      <4>1. fs[q] = Bytes(db[i], q)
        BY <3>1 DEF CompleteInv, InstalledComplete
      <4>2. db[i].name # Head(args)
        BY <3>1 DEF ApkInv, Installed, Stanzas
      <4>3. p \notin db[i].files
        BY <3>1, <4>2, NotShared
      <4>4. q \in Paths
        BY StanzaPaths
      <4> QED
        BY <3>1, <3>2, <4>1, <4>3, <4>4
    <3> QED
      BY <2>1, <3>1, <3>3 DEF CompleteInv, InstalledComplete, Bytes
  <2> QED
    BY <1>10, <2>2, <2>3, <2>4 DEF Die
<1> QED
  BY <1>4, <1>5, <1>6, <1>7, <1>8, <1>9, <1>10 DEF Next, Command, Step

(* Where no two packages ship the same path, an installed package has all   *)
(* its files, each of the registered version, whatever else is fetched,     *)
(* deleted, upgraded, synced or dies.  The run apk_shared shows that the    *)
(* hypothesis is needed.                                                    *)
THEOREM InstalledStaysComplete == ASSUME Disjoint PROVE Spec => []InstalledComplete
<1>1. Init => CompleteInv
  BY DEF Init, CompleteInv, InstalledComplete
<1>2. ApkInv /\ KeepInv /\ CompleteInv /\ [Next]_vars => CompleteInv'
  BY Disjoint, CompleteStep
<1>3. CompleteInv => InstalledComplete
  BY DEF CompleteInv
<1> QED
  BY <1>1, <1>2, <1>3, ApkHolds, PTL DEF Spec
=============================================================================

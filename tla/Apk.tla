--------------------------------- MODULE Apk ---------------------------------
(***************************************************************************)
(* The apk applet (guest/busybox/upstream/miscutils/apk.c): packages are   *)
(* fetched by the page, unpacked under /, registered in the database and   *)
(* recorded in the world.  Each step is one effect on the file system, so  *)
(* that the applet can die, or the terminal reboot, between any two.       *)
(*                                                                         *)
(* A reboot loses the file system; the world is persisted by the page, and *)
(* the boot runs `apk sync-world'.  One applet runs at a time: a spawned   *)
(* program suspends the shell that runs it.                                *)
(***************************************************************************)
EXTENDS Naturals, SequencesExt, FiniteSets

CONSTANTS
    Names,       \* package names
    Vers,        \* package versions: only their equality matters here
    Paths,       \* the files packages ship
    Contents,    \* [Names -> [Vers -> SUBSET Paths]], the files of a tar
    Common,      \* the paths whose bytes are the same in every package that ships them
    EndsIn,      \* the pairs <<m, n>> of names in which m is longer and ends in n
    None,
    Torn,        \* what a file holds that was only partly written
    MaxArgs,     \* bound on the names of a command
    Budgets      \* what a session may meet, as records of Budget

(* Bounds on the events of a session; the record_world arguments of its     *)
(* `apk add's (TRUE, or FALSE for --no-world); the names that the index     *)
(* lists with version `?'.                                                  *)
Budget == [cmds : Nat, faults : Nat, deaths : Nat, reboots : Nat, releases : Nat,
           records : SUBSET BOOLEAN, unread : SUBSET Names]

ASSUME ApkAssumption ==
    /\ Contents \in [Names -> [Vers -> SUBSET Paths]]
    /\ Common \subseteq Paths
    /\ EndsIn \subseteq Names \X Names
    /\ None \notin Names \cup Vers /\ Vers # {}
    /\ MaxArgs \in Nat /\ Budgets \subseteq Budget

VARIABLES
    avail,    \* the version of each package in the repositories, or None
    page,     \* the index the page holds
    world,    \* /etc/apk/world
    db,       \* /lib/apk/db/installed, a sequence of stanzas
    fs,       \* what each path of Paths holds, or None
    cmd,      \* the command apk_main runs, or "none"
    pc,       \* where it is
    args,     \* the names still to be handled: argv, or the strtok of the world
    record,   \* record_world
    snap,     \* upgrade's db, read before its loop
    tar,      \* TARTMP
    rest,     \* files still to be extracted, or to be unlinked
    rc,       \* the exit status so far
    asked,    \* history: what the user asked for
    budget,   \* the session's, which never changes
    cmds, faults, deaths, reboots, releases   \* counters for it

disk == <<world, db, fs, tar>>
proc == <<cmd, pc, args, record, snap, rest, rc>>
bounds == <<budget, cmds, faults, deaths, reboots, releases>>
vars == <<avail, page, disk, proc, asked, bounds>>

(* What a tar holds for a path. *)
Bytes(t, p) == IF p \in Common THEN p ELSE <<t.name, t.ver>>

Stanza == [name : Names, ver : Vers, files : SUBSET Paths]

Init ==
    /\ avail \in [Names -> {CHOOSE v \in Vers : TRUE}] /\ page = avail
    /\ world = <<>> /\ db = <<>> /\ fs = [p \in Paths |-> None] /\ tar = None
    /\ cmd = "none" /\ pc = "idle" /\ args = <<>> /\ record = FALSE /\ snap = <<>>
    /\ rest = {} /\ rc = 0 /\ asked = {}
    /\ budget \in Budgets /\ cmds = 0 /\ faults = 0 /\ deaths = 0 /\ reboots = 0 /\ releases = 0

-----------------------------------------------------------------------------
(* The lookups. *)

(* The first stanza of a name; the strstr for "P:name\n". *)
Stanzas(d, n) == {i \in 1..Len(d) : d[i].name = n}
Installed(d, n) == Stanzas(d, n) # {}
First(d, n) == CHOOSE i \in Stanzas(d, n) : \A j \in Stanzas(d, n) : i <= j

db_ver(d, n) == IF Installed(d, n) THEN d[First(d, n)].ver ELSE None

index_ver(n) == IF page[n] # None /\ n \in budget.unread THEN "?" ELSE page[n]

(* do_del's write of the world: only the first place where "name\n" occurs *)
(* is looked at, which may be the end of a longer name.                    *)
DropLine(w, n) ==
    LET hits == {i \in 1..Len(w) : w[i] = n \/ <<w[i], n>> \in EndsIn}
        hit == CHOOSE i \in hits : \A j \in hits : i <= j
    IN  IF hits # {} /\ w[hit] = n THEN RemoveAt(w, hit) ELSE w

-----------------------------------------------------------------------------
(* The commands. *)

Begin(c, names, r) ==
    /\ pc = "idle" /\ cmds < budget.cmds
    /\ cmd' = c /\ pc' = "next" /\ args' = names /\ record' = r /\ rc' = 0
    /\ cmds' = cmds + 1
    /\ UNCHANGED <<faults, deaths, reboots, releases, budget>>

Argv == UNION {[1..k -> Names] : k \in 1..MaxArgs}

Add == \E names \in Argv, r \in budget.records :
    /\ Begin("add", names, r)
    /\ UNCHANGED <<avail, page, disk, snap, rest, asked>>

Del == \E names \in Argv :
    /\ Begin("del", names, FALSE)
    /\ UNCHANGED <<avail, page, disk, snap, rest, asked>>

(* apk update; get_index(1) is the part of it that has an effect. *)
Update ==
    /\ Begin("update", <<>>, FALSE)
    /\ page' = avail
    /\ UNCHANGED <<avail, disk, snap, rest, asked>>

Upgrade ==
    /\ Begin("upgrade", world, TRUE)
    /\ page' = avail
    /\ snap' = db
    /\ UNCHANGED <<avail, disk, rest, asked>>

(* get_index dies before anything is touched when the page has no index. *)
IndexUnavailable ==
    /\ pc = "idle" /\ cmds < budget.cmds /\ faults < budget.faults
    /\ rc' = 1 /\ cmds' = cmds + 1 /\ faults' = faults + 1
    /\ UNCHANGED <<avail, page, disk, cmd, pc, args, record, snap, rest, asked,
                   deaths, reboots, releases, budget>>

SyncWorld ==
    /\ Begin("sync-world", world, FALSE)
    /\ db' = <<>>
    /\ UNCHANGED <<avail, page, world, fs, tar, snap, rest, asked>>
-----------------------------------------------------------------------------
(* The loop over names. *)

Looping(cs) == pc = "next" /\ cmd \in cs /\ args # <<>>

(* Mutant: the loop is cut short, as if do_add called strtok. *)
SkipAll == args' = <<>> /\ pc' = "next"

(* On to the next name. *)
Skip == args' = Tail(args) /\ pc' = "next"

Ask(n) == asked' = IF cmd = "add" /\ record THEN asked \cup {n} ELSE asked

AlreadyInstalled ==
    /\ Looping({"add", "sync-world"}) /\ Installed(db, Head(args))
    /\ Skip /\ Ask(Head(args))
    /\ UNCHANGED <<avail, page, disk, cmd, record, snap, rest, rc, bounds>>

(* Mutant: strcmp taken for equality. *)
WantsSame(n) ==
    IF cmd = "upgrade" THEN Installed(snap, n) /\ index_ver(n) = db_ver(snap, n) ELSE ~Installed(db, n)

(* Whether the loop has a package to fetch: do_add's, or upgrade's. *)
Wants(n) ==
    IF cmd = "upgrade"
    THEN /\ index_ver(n) \notin {None, "?"} /\ db_ver(snap, n) # None
         /\ index_ver(n) # db_ver(snap, n)
    ELSE ~Installed(db, n)

UpToDate ==
    /\ Looping({"upgrade"}) /\ ~Wants(Head(args))
    /\ Skip
    /\ UNCHANGED <<avail, page, disk, cmd, record, snap, rest, rc, asked, bounds>>

(* Mutant: the package is deleted before it is fetched. *)
FetchFailsDel ==
    LET n == Head(args) IN
    /\ Looping({"add", "sync-world", "upgrade"}) /\ Wants(n)
    /\ page[n] # None => faults < budget.faults
    /\ faults' = IF page[n] = None THEN faults ELSE faults + 1
    /\ db' = SelectSeq(db, LAMBDA s : s.name # n)
    /\ rc' = 1 /\ Skip
    /\ UNCHANGED <<avail, page, world, fs, tar, cmd, record, snap, rest, asked, cmds, deaths,
                   reboots, releases, budget>>

(* Mutant: the status is not kept. *)
FetchFailsQuiet ==
    LET n == Head(args) IN
    /\ Looping({"add", "sync-world", "upgrade"}) /\ Wants(n)
    /\ page[n] # None => faults < budget.faults
    /\ faults' = IF page[n] = None THEN faults ELSE faults + 1
    /\ Skip
    /\ UNCHANGED <<avail, page, disk, cmd, record, snap, rest, rc, asked, cmds, deaths, reboots, releases, budget>>

(* osd_pkg_fetch fails: no such package, or (a fault) the repository is dead. *)
FetchFails ==
    LET n == Head(args) IN
    /\ Looping({"add", "sync-world", "upgrade"}) /\ Wants(n)
    /\ page[n] # None => faults < budget.faults
    /\ faults' = IF page[n] = None THEN faults ELSE faults + 1
    /\ rc' = 1 /\ Skip
    /\ UNCHANGED <<avail, page, disk, cmd, record, snap, rest, asked, cmds, deaths, reboots, releases, budget>>

(* It delivers the tar of the index's version.  upgrade goes on to do_del, *)
(* which finds the package installed; the others extract at once.          *)
Fetch ==
    LET n == Head(args) IN
    /\ Looping({"add", "sync-world", "upgrade"}) /\ Wants(n)
    /\ page[n] # None
    /\ tar' = [name |-> n, ver |-> page[n]]
    /\ IF cmd = "upgrade"
       THEN pc' = "unlink" /\ rest' = db[First(db, n)].files
       ELSE pc' = "extract" /\ rest' = Contents[n][page[n]]
    /\ UNCHANGED <<avail, page, world, db, fs, cmd, args, record, snap, rc, asked, bounds>>

(* Mutant: += for |=. *)
NotInstalledAdds ==
    /\ Looping({"del"}) /\ ~Installed(db, Head(args))
    /\ rc' = rc + 1 /\ Skip
    /\ UNCHANGED <<avail, page, disk, cmd, record, snap, rest, asked, bounds>>

NotInstalled ==
    /\ Looping({"del"}) /\ ~Installed(db, Head(args))
    /\ rc' = 1 /\ Skip
    /\ UNCHANGED <<avail, page, disk, cmd, record, snap, rest, asked, bounds>>

DoDel ==
    LET n == Head(args) IN
    /\ Looping({"del"}) /\ Installed(db, n)
    /\ pc' = "unlink" /\ rest' = db[First(db, n)].files
    /\ UNCHANGED <<avail, page, disk, cmd, args, record, snap, rc, asked, bounds>>

Return ==
    /\ pc = "next" /\ args = <<>>
    /\ pc' = "idle" /\ cmd' = "none" /\ record' = FALSE /\ snap' = <<>>
    /\ UNCHANGED <<avail, page, disk, args, rest, rc, asked, bounds>>
-----------------------------------------------------------------------------
(* The body of do_del. *)

Unlink == \E p \in rest :
    /\ pc = "unlink"
    /\ fs' = [fs EXCEPT ![p] = None]
    /\ rest' = rest \ {p}
    /\ UNCHANGED <<avail, page, world, db, tar, cmd, pc, args, record, snap, rc, asked, bounds>>

(* Mutant: the first stanza goes, whosever it is. *)
DropStanzaFirst ==
    /\ pc = "unlink" /\ rest = {}
    /\ db' = Tail(db)
    /\ pc' = "world"
    /\ UNCHANGED <<avail, page, world, fs, tar, cmd, args, record, snap, rest, rc, asked, bounds>>

DropStanza ==
    /\ pc = "unlink" /\ rest = {}
    /\ db' = RemoveAt(db, First(db, Head(args)))
    /\ pc' = "world"
    /\ UNCHANGED <<avail, page, world, fs, tar, cmd, args, record, snap, rest, rc, asked, bounds>>

DropWorld ==
    LET n == Head(args) IN
    /\ pc = "world"
    /\ world' = DropLine(world, n)
    /\ IF cmd = "upgrade"
       THEN pc' = "extract" /\ rest' = Contents[n][tar.ver] /\ UNCHANGED <<args, asked>>
       ELSE Skip /\ asked' = asked \ {n} /\ UNCHANGED rest
    /\ UNCHANGED <<avail, page, db, fs, tar, cmd, record, snap, rc, bounds>>
-----------------------------------------------------------------------------
(* install_tar_file. *)

Extract == \E p \in rest :
    /\ pc = "extract"
    /\ fs' = [fs EXCEPT ![p] = Bytes(tar, p)]
    /\ rest' = rest \ {p}
    /\ UNCHANGED <<avail, page, world, db, tar, cmd, pc, args, record, snap, rc, asked, bounds>>

Register ==
    /\ pc = "extract" /\ rest = {}
    /\ db' = Append(db, [name |-> tar.name, ver |-> tar.ver, files |-> Contents[tar.name][tar.ver]])
    /\ tar' = None
    /\ pc' = "record"
    /\ UNCHANGED <<avail, page, world, fs, cmd, args, record, snap, rest, rc, asked, bounds>>

(* Mutant: the world is not written. *)
RecordNever ==
    /\ pc = "record"
    /\ Skip /\ Ask(Head(args))
    /\ UNCHANGED <<avail, page, disk, cmd, record, snap, rest, rc, bounds>>

(* Mutant: no in_lines. *)
RecordTwice ==
    /\ pc = "record"
    /\ world' = IF record THEN Append(world, Head(args)) ELSE world
    /\ Skip /\ Ask(Head(args))
    /\ UNCHANGED <<avail, page, db, fs, tar, cmd, record, snap, rest, rc, bounds>>

RecordWorld ==
    LET n == Head(args) IN
    /\ pc = "record"
    /\ world' = IF record /\ n \notin Range(world) THEN Append(world, n) ELSE world
    /\ Skip /\ Ask(n)
    /\ UNCHANGED <<avail, page, db, fs, tar, cmd, record, snap, rest, rc, bounds>>
-----------------------------------------------------------------------------
(* The environment. *)

(* The applet dies: at a truncated tar or in an xopen, with the files as   *)
(* they were, or in an xwrite, with the file it extracts torn.  The files  *)
(* that write_file rewrites exist (do_del has found the name in them), so  *)
(* only the xwrite can fail, after O_TRUNC has emptied them.  An append of *)
(* a stanza or of a world line happens whole or not at all.                *)
Die ==
    /\ deaths < budget.deaths
    /\ \/ pc \in {"extract", "record"} /\ UNCHANGED <<world, db, fs>>
       \/ \E p \in rest : /\ pc = "extract"
                          /\ fs' = [fs EXCEPT ![p] = Torn]
                          /\ UNCHANGED <<world, db>>
       \/ pc = "unlink" /\ rest = {} /\ db' = <<>> /\ UNCHANGED <<world, fs>>
       \/ /\ pc = "world" /\ DropLine(world, Head(args)) # world
          /\ world' = <<>> /\ UNCHANGED <<db, fs>>
    /\ cmd' = "none" /\ pc' = "idle" /\ args' = <<>> /\ record' = FALSE /\ snap' = <<>>
    /\ rest' = {} /\ rc' = 1
    /\ deaths' = deaths + 1
    /\ UNCHANGED <<avail, page, tar, asked, cmds, faults, reboots, releases, budget>>

(* The page is reloaded.  It puts the world back and runs sync-world. *)
Reboot ==
    /\ reboots < budget.reboots
    /\ fs' = [p \in Paths |-> None] /\ db' = <<>> /\ tar' = None
    /\ page' = avail
    /\ cmd' = "sync-world" /\ pc' = "next" /\ args' = world /\ record' = FALSE /\ snap' = <<>>
    /\ rest' = {} /\ rc' = 0
    /\ reboots' = reboots + 1
    /\ UNCHANGED <<avail, world, asked, cmds, faults, deaths, releases, budget>>

(* The mirror publishes, rolls back or drops a package. *)
Release == \E n \in Names, v \in Vers \cup {None} :
    /\ releases < budget.releases /\ avail[n] # v
    /\ avail' = [avail EXCEPT ![n] = v]
    /\ releases' = releases + 1
    /\ UNCHANGED <<page, disk, proc, asked, cmds, faults, deaths, reboots, budget>>

-----------------------------------------------------------------------------
Command == Add \/ Del \/ Update \/ Upgrade \/ IndexUnavailable \/ SyncWorld
Step ==
    \/ AlreadyInstalled \/ UpToDate \/ FetchFails \/ Fetch \/ NotInstalled \/ DoDel \/ Return
    \/ Unlink \/ DropStanza \/ DropWorld
    \/ Extract \/ Register \/ RecordWorld

Next == Command \/ Step \/ Die \/ Reboot \/ Release

Spec == Init /\ [][Next]_vars

(* A command that runs ends: nothing else runs until it returns. *)
FairSpec == Spec /\ []<>(pc = "idle")
-----------------------------------------------------------------------------
TypeOK ==
    /\ avail \in [Names -> Vers \cup {None}] /\ page \in [Names -> Vers \cup {None}]
    /\ world \in Seq(Names) /\ args \in Seq(Names)
    /\ db \in Seq(Stanza) /\ snap \in Seq(Stanza)
    /\ fs \in [Paths -> {None, Torn} \cup Common \cup (Names \X Vers)]
    /\ cmd \in {"none", "add", "del", "update", "upgrade", "sync-world"}
    /\ pc \in {"idle", "next", "unlink", "world", "extract", "record"}
    /\ record \in BOOLEAN /\ rc \in 0..1
    /\ tar \in {None} \cup [name : Names, ver : Vers]
    /\ rest \subseteq Paths /\ asked \subseteq Names
    /\ budget \in Budgets /\ cmds \in 0..budget.cmds /\ faults \in 0..budget.faults
    /\ deaths \in 0..budget.deaths /\ reboots \in 0..budget.reboots /\ releases \in 0..budget.releases

(* No package is registered twice, and the world names none twice: do_del  *)
(* removes the first stanza and the first line only (apk.c:251-292).       *)
RegisteredOnce ==
    /\ \A i, j \in 1..Len(db) : db[i].name = db[j].name => i = j
    /\ IsInjective(world)

(* An installed package has all its files, each from the version that is   *)
(* registered: whatever is fetched, deleted, upgraded or dies around it    *)
(* (guest/pkgs/sl/build.sh:3-4: "packages are self-contained").  The one   *)
(* exception is the package whose files do_del is unlinking.               *)
InstalledComplete ==
    \A i \in 1..Len(db) : \A p \in db[i].files :
        \/ fs[p] = Bytes(db[i], p)
        \/ pc = "unlink" /\ db[i].name = Head(args) /\ p \notin rest

(* upgrade leaves installed what it found installed, whatever downloads    *)
(* fail: "a dead repo must keep the old files" (apk.c:364).                *)
UpgradeKeeps ==
    cmd = "upgrade" /\ pc = "next" => \A s \in Range(snap) : Installed(db, s.name)

(* An upgrade that succeeds has brought the world's packages to the        *)
(* versions of the index, up or down (apk.c:361-364, "converge to index"). *)
UpgradeConverges ==
    cmd = "upgrade" /\ pc = "next" /\ args = <<>> /\ rc = 0 =>
        \A n \in Range(world) :
            Installed(db, n) /\ index_ver(n) \notin {None, "?"} => db_ver(db, n) = page[n]

(* A sync-world that succeeds, at boot or by hand, has installed the whole *)
(* world (apk.c:396-410).                                                  *)
SyncRestores ==
    cmd = "sync-world" /\ pc = "next" /\ args = <<>> /\ rc = 0 =>
        \A n \in Range(world) : Installed(db, n)

(* Until something is cut short, in a session without --no-world, the      *)
(* world is between commands what the user asked for and did not delete:   *)
(* fetches that fail and upgrades change nothing in that (apk.c:12,        *)
(* 28-29).                                                                 *)
WorldIsAsked ==
    pc = "idle" /\ deaths = 0 /\ reboots = 0 /\ FALSE \notin budget.records => Range(world) = asked

(* What the user asked for is not lost from the world: it is "PERSISTED"   *)
(* (apk.c:12).                                                             *)
AskedIsRecorded == pc = "idle" => asked \subseteq Range(world)

(* What is in the world comes back after each reboot, or leaves the world, *)
(* unless a fetch fails, apk dies or no repository has it (apk.c:397-398). *)
WorldComesBack ==
    \A n \in Names : (n \in Range(world)) ~>
        (Installed(db, n) \/ n \notin Range(world) \/ page[n] = None \/ faults > 0 \/ deaths > 0)
=============================================================================

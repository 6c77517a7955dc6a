# A TLA+ verification of os-moap-repo

os-moap-repo is the wasm32-wasip1 port of Alpine for OS-MOAP, a terminal that
runs BusyBox in a browser page. The repository holds the recipes of the
packages, the static mirror they are published to, the job that follows
Alpine's releases, and the guest software: BusyBox with an `apk` applet, a shell
that works without fork, a WASI compatibility library and a few ports.

This directory models the parts of it that keep state: packing, publishing,
tracking, installing, the shell without fork, its line editor, and the input of
the DOOM port. TLC checks the models on small instances; TLAPS proves the central
invariants of most of them for all values of their constants.

## The system

| part | source | state | operations | what is hard |
|---|---|---|---|---|
| version comparison | `tools/pack_repo.py:40`, copied in `track-alpine.yml:45` | none | `vercmp`, `upstream` | not an order on all versions |
| package packer | `tools/pack_pkg.py` | stage, notecards | `stage_entries`, `build_gz`, `pack`, `verify` | the stage is written to; cards are replaced one by one |
| mirror packer | `tools/pack_repo.py` | checkout (blobs, index), HEAD, remote | pack, `reindex`, `verify`, `publish` | interrupts, failed pushes, two publishers |
| tracker | `.github/workflows/track-alpine.yml`, `tools/ci_build.sh` | checkout, bump list, `FAILED` | the steps of the job | some ports fail, Alpine and others move meanwhile |
| recipes | `guest/pkgs/*/build.sh` | stage | fetch, compile, stage, pack | — |
| `apk` | `guest/busybox/upstream/miscutils/apk.c` | world, database, files | `add`, `del`, `update`, `upgrade`, `sync-world` | reboots and deaths half way, failed fetches |
| DOOM input | `guest/pkgs/doom/doomgeneric_osmoap.c` | held keys, event ring | `key_touch`, `pump_input`, `DG_GetKey` | no key-up events, wrapping clock, full tables |
| no-fork shell | `guest/busybox/upstream/shell/ash.c` | descriptors, temporary files, redirlist, libc's stdin | pipelines, `$(...)`, redirections, spawn | nesting, exceptions, names reused by children |
| line editor | `guest/busybox/upstream/libbb/lineedit.c` | line, history, history file | keys, `remember_in_history`, `save_history` | nested shells on one file |
| compatibility library | `guest/busybox/wasi-compat/wasi-compat.c` | tty flags | `dup`, `osd_spawn`, termios | one page, several instances |
| ROM packer | `tools/pack_rom.py` | cards | `pack`, `verify` | the chunk-to-card map |

A recipe stages a package and packs its notecards. `pack_repo.py` makes the
blob of the same stage, rebuilds `APKINDEX.json` from all the blobs, verifies it
and pushes. The tracker does the same in CI for each port Alpine has bumped. A
terminal reads the index, fetches blobs or cards through the page, and `apk`
installs them; only the world survives a reboot of the page. The user types at
the line editor of `ash`, which runs what it reads in its own process: a pipeline
is a loop over its stages, and only a program from a file gets an instance of its
own.

## Modules

| module | models | extends |
|---|---|---|
| `Version` | `vercmp`, `upstream` | community modules |
| `Package` | stages, blobs, cards, index, `reindex`, the tests of `verify` | `Version` |
| `PackRepo` | a maintainer's checkout running `pack_repo.py`, git's remote, a second publisher | `Package` |
| `Tracker` | the CI job, Alpine, other publishers | `Package` |
| `Apk` | the applet, the page's fetches, deaths and reboots | community modules |
| `Cards` | the notecards of both packers: geometry, replacement, `verify` | `SequencesExt` |
| `DoomKeys` | key holds, ring, byte decoding, clock | standard modules |
| `Shell` | the evaluator of `ash`, its descriptors and files, spawned scripts, applets on stdin | community modules |
| `Session` | what a terminal promises its user, which `Shell` implements | standard modules |
| `LineEdit` | keys, history, history file, terminal modes, nested shells | standard modules |
| `...Proofs` | theorems about the module of that name | that module |
| `MCVersion`, `MCParts` | version comparison, and with it `Cards` and `DoomKeys` | those |
| `MCShell`, `MCTerminal` | command lines and their meaning, and with it `LineEdit` | `Shell`, `LineEdit` |
| `MCPackRepo`, `MCTracker`, `MCApk` | the other small instances | one each |

`MCParts` and `MCTerminal` put components that share no state in one
specification: a behaviour is one of one component, drawn in the initial state,
while the others rest. So nothing is interleaved that does not interact.

An operator whose comment starts with "Mutant:" is a plausible bug of a definition
that follows it; no specification uses it. Replacing the definition by it shows
that a property can fail.

### Version

A version is the sequence of segments that `re.split` gives; a segment is a
sequence of character ranks, so that numbers, mixed segments and `rN` are told
apart as Python does. `Vercmp` is stated as "the first differing segment
decides"; `MCVersion` also writes the loop as the code runs it, and `LoopAgrees`
compares the two.

### Package and PackRepo

A tar.gz is a record of its `.PKGINFO` name and version and its payload. It is
its own hash, since the packer is deterministic and SHA-256 is taken as
injective. A tree is what a checkout holds: blobs, index, manifest cards. The
stage keeps the `.PKGINFO` of its first packing, as the code does.

`PackRepo` has one action per effect: `Pack` (refuse, leave or write the blob),
`ScanOne` and `WriteIndex` (the loop of `reindex`), `VerifyStep`, `Commit`, `Push`,
with `Interrupt` possible between any two. `Recipe` and `RecipeTooLarge` are
recipe runs in the same checkout; `Clone` starts over; `OtherPush` is a rival.
Git is a HEAD tree, a remote tree and two flags, ahead and behind; a push
succeeds only when not behind.

### Tracker

Actions are the steps of the workflow; `PortBuilt` is a whole iteration of the
loop, because nothing outside the job sees the runner's checkout. A step that
fails ends the job and skips the later steps, whose `if` has no status function.
`StepFails`, `GitHubFails` and the second disjunct of `PortBreaks` are faults
bounded by `MaxFaults`; `Broken` names releases that never build.

### Cards

A text is cut into lines, the lines into chunks and cards. Each removal and each
write is a step, and `Interrupted` may come between any two or leave a first part
of the card that is being written (whole lines of it, or a torn manifest). The
ROM and each package are a family of file names in one directory. The limit on
the manifest is `MaxChunks`; in the code a manifest of 8000 bytes holds at most
421 hashes, which are 61 cards, and one of 60000 bytes 3157, which are 451: within the
999 that the pattern of the sweep finds. `GeometryAssumption` says so.

### Apk

Each action is one effect on the file system: one file unlinked or extracted,
one file rewritten. `Die` is a truncated tar or a failing `xopen`/`xwrite`;
`write_file` truncates before it writes, so a death there empties the file.
`Reboot` loses everything but the world and starts `sync-world`. What the page
does (index, fetch) is modelled from the bridges' use: a fetch delivers the tar
of the index's version or fails. `asked` is a history variable: what the user
added, with success, and did not delete.

### DoomKeys

`DG_GetKey` is taken a byte at a time, so that typing and the clock interleave
with it. The clock wraps at `Modulus`; `MaxLag` bounds the time between two calls,
which must stay below the wrap. `down` is what the game has been told.

### Shell

The evaluator is a stack machine. `procs` is the stack of instances, of which the
last runs; each has its descriptors, the statics `pipeseq` and `depth`, `redirlist`, the
buffer and end-of-file flag of libc's stdin, and `frames`, its C stack: a frame is an
active `evalcommand`, `evalpipe`, `osd_evalbackcmd_inproc` or redirected group with the
locals used after the call it waits for. `Raise` is the longjmp: it cuts the
frames down to the innermost handler, and nothing they would have restored is
restored. Files are inodes under names, with shared open file descriptions; these
are the page's and are modelled from their use. An applet is one step on stdin and
stdout: `cat` reads the descriptor, `sed ''` reads stdin to its end, `head` leaves the
rest in the buffer, `uniq FILE` replaces descriptor 0.

`MCShell` defines what a tree means in a shell that forks (`Means`, recursive, a few
lines per construct), and `AnswersAsIfForked` says that `Shell` implements `Session`
under the mapping *asked* = lines typed, *said* = screen, *due* = the meaning of all
lines less the screen, *at* = whether the shell prompts, is busy or has exited: nothing
is printed that the lines do not mean, the prompt comes back after a line, the last
one included, only when all of it is answered, and the shell exits only after a line
that says so. Where `/tmp` is gone a pipeline or a substitution means an error, as it
would in a forking shell whose `pipe()` fails. That the prompt does come back is the
deadlock check of the run: the evaluator has no loops.

### LineEdit

One action per key of the non-vi mode, `StartLine` and `EndLine` for the rest of
`read_line_input`, and what a line can do: run, run a program that leaves the page
in either mode, start a nested shell, end it. `recent` is a history variable: the
last lines that any instance remembered. Each instance has its own `lflag`, as
`osd_tty_lflag` is a static of each, while the page has one mode.

## Runs

| run | checks | result |
|---|---|---|
| `parts` | `LoopAgrees`, `CanonicalAntisymmetric`, `SameShapeTransitive`, `BumpBeatsPublished`; `VerifyPasses`, `NeverMixed`; `PressesAlternate`, `NeverFull`, `DownIsHeld`, `AllReleased` | pass |
| `pack_repo` | `TypeOK`, `ServedSound`, `ServedHighest`, `SoundInv`, `HighestInv`, `ScanIsReindex`, `BlobsImmutable`, `ServedMonotone` | pass |
| `pack_repo_retry` | `PublishedIsServed` | violated |
| `tracker` | `ServedBacked`, `BumpIsServed`, `FailureOpensIssue`, `BlobsImmutable`, `OldKeepsServing`, `FollowsAlpine` | pass |
| `tracker_tiers` | `ServedCoherent` | violated |
| `tracker_segment` | `BumpIsServed` | violated |
| `apk` | `TypeOK`, `RegisteredOnce`, `InstalledComplete`, `UpgradeKeeps`, `UpgradeConverges`, `SyncRestores`, `WorldIsAsked`, `WorldComesBack` | pass |
| `apk_lost` | `AskedIsRecorded` | violated |
| `apk_shared` | `InstalledComplete` | violated |
| `terminal` | `TerminalTypeOK`; `PromptRestored`, `CaptureOwned`, `AnswersAsIfForked`; `LinesKept`, `FileBounded`, `LastRunIsRecalled`, `ModesDriven` | pass |
| `shell_survives` | `OuterShellSurvives` | violated |
| `shell_child` | `ChildrenCompose` | violated |

What the violated runs show:

* **`pack_repo_retry`**: a `--publish` whose push failed leaves its commit behind;
  the retry finds nothing to commit and exits 0 without pushing.
* **`tracker_tiers`**: a refused pack leaves the recipe's new cards in the
  checkout and `git add -A` publishes them beside the old blob of that version.
* **`tracker_segment`**: a bump that adds a segment (1.7 to 1.7.1) is rebuilt
  every week and never indexed: the oracle compares without `-rN`, `reindex` with
  it, and there `r0` is greater than `1`. `BumpBeatsPublished` says when the two
  agree: versions of equal length.
* **`apk_lost`**: `upgrade` takes the package out of the world before it extracts
  the new version; a reboot in between loses it for good.
* **`apk_shared`**: `sl`, `nano`, `less` and `zsh` all ship
  `usr/share/terminfo/x/xterm`; deleting one takes it from the others.

* **`shell_survives`**: `x=$(echo a | exit)` raises inside a stage. The handler is
  that of `$(...)`, which restores descriptor 1; the stage's own restoration of
  descriptor 0 is skipped. The shell reads its next command from the temporary
  file, finds its end, and exits. An error (`${x?}`) instead of `exit` does the same.
* **`shell_child`**: `pipeseq` and `depth` are statics, so a spawned script starts from
  `/tmp/.osdp1` and `/tmp/.osdbq0` again. With a pipeline or a `$(...)` of its own, inside
  one of its parent's, it truncates and unlinks the parent's file.

Further behaviours the models show, without a run of their own:

* an error in a stage of a pipeline at the prompt leaves descriptors 0 and 1 on
  temporary files, since `ash_main`'s handler undoes redirections only; ash.c:9769 and
  patches/README.md:20 say that they are restored, and with such a line
  (`Pipe2(Say("a"), P("fail"))`) `PromptRestored` fails;
* an exception in `$( { ...; } >f )`, or an `exit` whose redirection fails in `$(...)`,
  leaves its entry on `redirlist`, and the command around it pops that one as its own;
* `popredir` and the end of a stage put descriptor 0 back without clearing stdin:
  a command that then reads the terminal sees the old end of file;
* `uniq FILE` at the prompt leaves descriptor 0 on the file, and the shell exits at
  its end;
* a line that was left for another with UP stays in the slot after the last, so
  that after ^C it returns with UP and DOWN; an entry that was changed in place and
  is then typed counts as a repetition and is not written to the file;

* packing a stage again at a bumped `-rN`, without the recipe, keeps the old
  `.PKGINFO`, and the new blob is indexed under the old version;
* when the push of a job is rejected, no issue is opened for its broken ports
  (`FailureOpensIssue` is about jobs whose steps succeed; stated for every job it
  is violated: a port breaks, another push lands first, the job's push is
  rejected and the issue step is skipped, against track-alpine.yml:8);
* `apk add` of a package that `--no-world` installed succeeds without recording
  it (in a session with `--no-world`, `AskedIsRecorded` fails without a reboot);
* `apk del` leaves the world's line when an earlier line ends in the same name
  (with `EndsIn <- OneEndsInOther`, `WorldIsAsked` fails);
* `vercmp` is cyclic on 2, 10, 1a, and 02 and 2 are each above the other.

### Bounds

* `parts`: all pairs of versions of up to two segments out of eight that cover the
  cases of the code (one and two digits, leading zero, mixed, `r0`, `r1`, `r10`), and
  all thirds; a difference is decided at one position, and two show the order.
  Cards of two chunks of two lines of two characters, and texts of one line, of
  exactly one card, of two cards, of two full cards and of more than a manifest
  holds; three packings, so that an interrupted one can lie between two. Two
  holds, a ring of four, a clock that wraps at five and four typed bytes, of which
  three can be keys held at once: every table can be full.
* `pack_repo`: one package, two versions, two payloads, two recipe runs, one
  rival push. Two payloads make a refusal possible, two builds a stale stage and
  diverging cards; packages interact only through the loop of `reindex`, which
  keeps one entry per name. The proofs lift all these bounds.
* `tracker`: two ports (one of whose releases does not build), two releases each,
  one of them seeded at `-r1`; two faults, two rival pushes, one forced job.
* `apk`: two packages, two versions, one of which adds a file; two kinds of session
  of four commands of up to two names, with one failed fetch and one release: one
  with a death, a reboot and `--no-world`, and one with two reboots, so that one can
  fall into the recovery of the other, and a version that cannot be read.
* `terminal`: two lines of the 22 in `PlainLines`, one or two for each way in which
  the constructs nest and fail; two, so that what the first leaves behind meets the
  second, whose answer is checked to its end when the prompt comes back. The lines
  leave out the cases of `shell_survives`, `shell_child` and "further behaviours", which
  are known to go wrong: `PromptRestored`, `CaptureOwned` and `AnswersAsIfForked` say
  nothing of them. The scripts of this run capture nothing themselves. For the editor a history of two lines of up to two characters, a file
  trimmed above two, two nested shells and four remembered lines: array and file both
  overflow. With one character there are no delimiters, so that the word keys act as
  the line keys do; the proofs cover them for all characters.

Deadlock is not checked where the system may stop: a maintainer, a user or a
game may do nothing more. It is checked in `tracker`, whose job always goes on, and in
`terminal`, where a state without a step would be a shell that hangs (`SessionOver`
is the end of a session).

### Fairness

* `Tracker`: weak fairness of the scheduled start (cron), and `[]<>(step = "idle")`: a
  job that runs ends, as each of its steps does or is cancelled by the runner. None on
  faults, releases, forced jobs or rival pushes.
* `DoomKeys`: weak fairness of the game (`main` calls `doomgeneric_Tick` for ever)
  and of the clock. None on typing.
* `Apk`: `[]<>(pc = "idle")`: a command that runs ends, since nothing else runs until it
  returns and its loops are bounded by its arguments. None on commands, deaths,
  reboots or releases.

The `[]<>` forms are no stronger than weak fairness of the steps: from each state the
running job or command has finitely many steps left.

## Proofs

`PackageProofs` has the lemmas about trees that the next two share: what packing,
reindexing and writing cards do to a tree, and when they keep it whole.

`PackRepoProofs`, for all names, versions, payloads, scan orders and bounds:

* `TypeCorrect`: `Spec => []TypeOK`.
* `SoundInvariant`: `SoundInv` is inductive given the types. `ServedSound` speaks
  of the remote alone and is not inductive: a push serves HEAD, HEAD comes from
  the checkout, and the checkout's index from `by_name`. `SoundInv` says that each
  of them is backed, that what passed `verify` is coherent until pushed, and that
  no tree on the way loses a blob. `ServedIsSound` and `ServedBlobsAreImmutable`
  follow.
* `HighestInvariant`: at each point of the scan `by_name` tops the blobs seen so
  far. It assumes that `vercmp` orders the versions in use (`VercmpOrders`), which
  it does not do for all versions. `ServedIsHighest` and `ServedIsMonotone` follow.

`TrackerProofs`, for all ports, releases, broken builds and bounds, of versions that
`vercmp` orders:

* `MirrorIsBacked`, `MirrorBlobsAreImmutable` and `OldVersionKeepsServing` rest on
  `MirrorInv`: the tree of a job is whole (its index lists the highest version of each
  package, with its blob), has every blob of the mirror it was checked out from, and
  the mirror is still that one unless the job is behind.
* `FailuresAreReported`: a failed port is remembered in `FAILED` until the issue step.

`ApkProofs`, for all packages, contents, arguments and sessions:

* `ApkTypes`, `RegistersOnce`, `UpgradesKeep`, `SyncsRestore`. The invariant follows the
  program counter: which stanza is being removed, which are already dropped, what
  the copies taken at the start of an upgrade still say of the database.
* `InstalledStaysComplete` assumes `Disjoint`, that no two packages ship one path. The
  run `apk_shared` shows what happens without.

`CardsProofs`, for every geometry and all texts: `BundlesAreNeverMixed` and
`WrittenIsSwept`. The invariant says that in the sweep every card on disk is in `left`
or gone, so that the manifest is written into an empty family; this needs the limit
on the manifest to keep the card numbers below 1000 (`GeometryAssumption`).

`LineEditProofs`, for all characters, sizes and depths: `EditTypes` (with it that no
slot in use is null), `NoLineIsLost`, `RunIsRecalled`, `ModesAreDriven` and `FileIsBounded`. For
the last, an instance's count falls short of the file by at most what the shells
nested in it can append before they trim: a bound per level.

`DoomKeysProofs`, for every table and ring with `HELD_MAX + 1 < QSize` (16 and 64
in the code) and every clock longer than a hold and a lag:

* `KeysInvariant`: the pending presses are presses of distinct keys that are up,
  pending and pressed keys are the held ones, and the ring holds no more than the
  table. The ring never fills because a key is pressed only when it takes a slot
  of the table and gives it up only when the ring is empty. `KeysAlternate`,
  `NoKeyIsStuck` and `RingNeverFills` follow.

The types of `Tracker` and `DoomKeys` are part of the invariants proved and not of a run.
Constants are assumed to be what their declarations say (the named `ASSUME`s, which
every run evaluates). Only model-checked:

* the liveness properties (the prover does not handle fairness);
* `ScanIsReindex`, `VerifyPasses` and the properties of `Version`, which are about what
  loops over data compute;
* `BumpIsServed`, `UpgradeConverges`, `WorldIsAsked`;
* `Shell` and its refinement of `Session`: the meaning of a line is a recursive operator,
  which the prover cannot use.

## Not modelled

* Nearly all of the vendored BusyBox. It is over nine tenths of the repository's
  lines, the port does not change it, and `config-wasi-v0` sets only a few dozen
  options, so that most of it is not compiled. What the port's own changes
  touch (`ash.c`, `apk.c`, the compatibility library) and the editor that all input
  passes through are modelled; the other applets in use read, print and keep no
  state. The share of all lines that the models cover is therefore small and will
  remain so.
* Of `ash`: parsing, loops, functions, traps, here-documents, variables. Of the line
  editor: drawing, completion, reverse search, vi mode, and a history file that
  cannot be opened or renamed or that has lines longer than the buffer. A reboot of the page loses the file system with the
  history, so there is no recovery to model.
* The zsh patch: a patch of sources that are not in the repository. Its static
  `osd_nofork` is reset by an external command in a substitution (see the hazards).
* Writes torn within one file, except by a death of `apk` in `write_file` or in the
  extraction, and of a packer of cards: `append_file` of a stanza or a world line is
  whole. A
  blob that was torn in `pack_repo.py` makes the next `reindex` fail on its gzip.
* Compilation, downloads and hashes of recipes: a build succeeds with some
  payload or fails.
* The boot page of `pack_rom.py`, DOOM's drawing, formatting and messages everywhere;
  `apk list`, `search`, `info`; `mkstemp` and the constant stubs of the compatibility
  library.

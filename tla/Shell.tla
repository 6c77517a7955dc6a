------------------------------- MODULE Shell --------------------------------
(***************************************************************************)
(* The ash of the wasm guest, which cannot fork.  Every construct that a   *)
(* kernel would isolate in a child runs inside the shell instead: a        *)
(* pipeline is a loop that moves descriptors 0 and 1 onto temporary files  *)
(* (evalpipe), `$(...)' is a nested evaluation whose output goes to a      *)
(* temporary file (osd_evalbackcmd_inproc), an applet is a call.  Only a   *)
(* program from a file is an instance of its own (osd_spawn), with its own *)
(* descriptors and static variables but the same files.                    *)
(*                                                                         *)
(* The evaluator is a stack machine.  `procs' is the stack of instances,   *)
(* the last one running and the others suspended in osd_spawn; each has    *)
(* its descriptor table, its statics, its redirlist, libc's stdin state    *)
(* and `frames', the C stack of the evaluation: one frame per active call  *)
(* of evalcommand, evalpipe, osd_evalbackcmd_inproc or a redirected group, *)
(* with the locals that the code after the call uses.                      *)
(*                                                                         *)
(* Words and file contents are sequences of tokens, a path is a pair       *)
(* <<stem, number>>.  Programs are trees:                                  *)
(*   [op |-> "cmd", prog, word, subs, redirs]   a simple command; subs are *)
(*                                 the trees of the $(...) in its words    *)
(*   [op |-> "pipe", stages]       a | b | c                               *)
(*   [op |-> "semi", first, rest]  a; b                                    *)
(*   [op |-> "group", body, redirs]  { a; } <f >g                          *)
(* Loops, functions, traps, jobs and variables are not modelled.           *)
(***************************************************************************)
EXTENDS Integers, Sequences, FiniteSets, TLC, FiniteSetsExt

CONSTANTS Lines,     \* the command lines a user may type
          MaxLines,  \* how many lines a session has
          MaxFd,     \* the largest descriptor the instances use
          Contents,  \* the files that exist at first: path -> tokens
          Scripts,   \* the shell scripts that can be spawned: path -> tree
          None       \* no descriptor, no exception

VARIABLES procs,     \* the instances, the running one last
          ofd,       \* open file descriptions: id -> [ino, pos]
          data,      \* inode -> tokens
          names,     \* path -> inode
          screen,    \* what was written to the terminal
          typed,     \* the lines read from the terminal so far
          over       \* the session's shell has exited

vars == <<procs, ofd, data, names, screen, typed, over>>

tty == 0             \* the description of the terminal and its pseudo-inode

(***************************************************************************)
(* The descriptor and file calls of the page's WASI shim, on a record m of *)
(* the running instance p, the files and the last call's result.           *)
(***************************************************************************)
Cur == [p |-> procs[Len(procs)], ofd |-> ofd, data |-> data, names |-> names,
        screen |-> screen, ret |-> -1]

Unused(ids) == CHOOSE n \in 1..(Cardinality(ids) + 1) : n \notin ids /\ \A k \in 1..(n - 1) : k \in ids

FreeFd(m, min) == Min({n \in min..MaxFd : m.p.fd[n] = None})

IsOpen(m, n) == n >= 0 /\ m.p.fd[n] # None

Close(m, n) == [m EXCEPT !.p.fd[n] = None]
CloseIf(m, n) == IF n < 0 THEN m ELSE Close(m, n)

Dup(m, n, min) ==
    IF ~IsOpen(m, n) THEN [m EXCEPT !.ret = -1]
    ELSE LET f == FreeFd(m, min) IN [m EXCEPT !.p.fd[f] = m.p.fd[n], !.ret = f]

Dup2(m, from, to) == [m EXCEPT !.p.fd[to] = m.p.fd[from], !.ret = to]

OpenIno(m, i) ==
    LET o == Unused(DOMAIN m.ofd)
        f == FreeFd(m, 0)
    IN  [m EXCEPT !.ofd = @ @@ (o :> [ino |-> i, pos |-> 0]), !.p.fd[f] = o, !.ret = f]

OpenRead(m, path) ==
    IF path \in DOMAIN m.names THEN OpenIno(m, m.names[path]) ELSE [m EXCEPT !.ret = -1]

(* O_CREAT | O_TRUNC: an existing file keeps its inode and loses its data. *)
OpenTrunc(m, path) ==
    LET i == IF path \in DOMAIN m.names THEN m.names[path] ELSE Unused(DOMAIN m.data)
    IN  OpenIno([m EXCEPT !.names = (path :> i) @@ @, !.data = (i :> <<>>) @@ @], i)

(* A file in /tmp, which a user may have removed.                          *)
TmpDir == <<"tmp", 0>>
OpenTmp(m, path) == IF TmpDir \in DOMAIN m.names THEN OpenTrunc(m, path) ELSE [m EXCEPT !.ret = -1]

Unlink(m, path) == [m EXCEPT !.names = [q \in DOMAIN @ \ {path} |-> @[q]]]

Write(m, n, toks) ==
    LET o == m.p.fd[n]
        d == m.ofd[o]
        old == m.data[d.ino]
        end == d.pos + Len(toks)
        new == [i \in 1..Max({Len(old), end}) |->
                    IF i > d.pos /\ i <= end THEN toks[i - d.pos]
                    ELSE IF i <= Len(old) THEN old[i] ELSE "hole"]
    IN  IF o = None \/ toks = <<>> THEN m
        ELSE IF d.ino = tty THEN [m EXCEPT !.screen = @ \o toks]
        ELSE [m EXCEPT !.data[d.ino] = new, !.ofd[o].pos = end]

(* What a reader finds at descriptor n: all that is left of a file, or the *)
(* line the user types and ends with ^D.                                   *)
Unread(m, n) ==
    LET d == m.ofd[m.p.fd[n]]
    IN  IF m.p.fd[n] = None THEN <<>>
        ELSE IF d.ino = tty THEN <<"typed">>
        ELSE SubSeq(m.data[d.ino], d.pos + 1, Len(m.data[d.ino]))

Consumed(m, n) ==
    IF m.p.fd[n] = None \/ m.p.fd[n] = tty THEN m
    ELSE [m EXCEPT !.ofd[m.p.fd[n]].pos = Max({@, Len(m.data[m.ofd[m.p.fd[n]].ino])})]

(* Ends a step: the running instance and the files become those of m; a    *)
(* description no descriptor holds is gone, and so is an inode without a   *)
(* name and without a description.                                         *)
Settle(ps, m) ==
    LET live == {o \in DOMAIN m.ofd : o = tty \/ \E k \in DOMAIN ps : \E n \in 0..MaxFd : ps[k].fd[n] = o}
        kept == {tty} \cup {m.names[q] : q \in DOMAIN m.names} \cup {m.ofd[o].ino : o \in live}
    IN  /\ procs' = ps
        /\ ofd' = [o \in live |-> m.ofd[o]]
        /\ data' = [i \in DOMAIN m.data \cap kept |-> m.data[i]]
        /\ names' = m.names
        /\ screen' = m.screen

Become(m) == Settle([procs EXCEPT ![Len(procs)] = m.p], m)

-----------------------------------------------------------------------------
(***************************************************************************)
(* The stack of the running instance.                                      *)
(***************************************************************************)
frames == procs[Len(procs)].frames
top == frames[Len(frames)]

AtFrame(kind) == frames # <<>> /\ Cur.p.exc = None /\ top.kind = kind

Push(m, f) == [m EXCEPT !.p.frames = Append(@, f)]
Pop(m) == [m EXCEPT !.p.frames = SubSeq(@, 1, Len(@) - 1)]
Local(m, f) == Push(Pop(m), f)
Returns(m, st) == [Pop(m) EXCEPT !.p.st = st]

(* raise_exception: longjmp to the innermost handler, which is that of the *)
(* innermost $(...) or else of ash_main.  The frames above it are gone, and *)
(* nothing they would have done on the way out is done.                    *)
Raise(m, e) ==
    LET fs == m.p.frames
        handler == Max({0} \cup {k \in DOMAIN fs : fs[k].kind = "bq"})
    IN  [m EXCEPT !.p.frames = SubSeq(fs, 1, handler), !.p.exc = e]

RaiseError(m) == Raise([m EXCEPT !.p.st = 2], "error")

-----------------------------------------------------------------------------
(***************************************************************************)
(* Redirections.  An entry of a redirtab is a descriptor and the one its   *)
(* old self was moved to, or None if it was closed.                        *)
(***************************************************************************)
(* Mutant: stdin's flag and buffer outlive the file they came from. *)
ClearStdinNever(m) == m

(* clearerr(stdin); fpurge(stdin);                                         *)
ClearStdin(m) == [m EXCEPT !.p.eof = FALSE, !.p.buf = <<>>]

pushredir(m, redirs) == IF redirs = <<>> THEN m ELSE [m EXCEPT !.p.redirlist = Append(@, <<>>)]

(* save_fd_on_redirect and add_squirrel_closed: only the first redirection *)
(* of a descriptor in a list saves it.  Lines name descriptors below 10,   *)
(* so none is one that a saved descriptor was moved to.                    *)
Squirrelled(m, fd, avoid) ==
    LET l == Len(m.p.redirlist)
        d == Dup(m, fd, Max({9, avoid}) + 1)
        entry == [orig |-> fd, moved |-> IF d.ret < 0 THEN None ELSE d.ret]
    IN  IF \E k \in DOMAIN m.p.redirlist[l] : m.p.redirlist[l][k].orig = fd THEN m
        ELSE [d EXCEPT !.p.redirlist[l] = Append(@, entry)]

(* One redirection: open, save the old descriptor, move, and drop what     *)
(* libc's stdin still holds of the old file.  ret < 0 when the open fails. *)
redirect(m, r) ==
    LET o == IF r.dir = "in" THEN OpenRead(m, r.file) ELSE OpenTrunc(m, r.file)
        s == Squirrelled(o, r.fd, o.ret)
        d == Close(Dup2(s, o.ret, r.fd), o.ret)
    IN  IF o.ret < 0 THEN o
        ELSE IF o.ret = r.fd
        THEN [Squirrelled(Close(o, r.fd), r.fd, o.ret) EXCEPT !.p.fd = o.p.fd, !.ret = r.fd]
        ELSE IF r.fd = 0 THEN ClearStdin(d) ELSE d

(* redirectsafe: the list in order, up to the first that fails.            *)
redirectsafe(m, redirs) ==
    LET after[k \in 0..Len(redirs)] ==
            IF k = 0 THEN [m EXCEPT !.ret = 0]
            ELSE IF after[k - 1].ret < 0 THEN after[k - 1] ELSE redirect(after[k - 1], redirs[k])
    IN  after[Len(redirs)]

(* popredir puts the descriptors of the newest redirtab back.              *)
popredir(m) ==
    LET l == Len(m.p.redirlist)
        tab == m.p.redirlist[l]
        after[k \in 0..Len(tab)] ==
            IF k = 0 THEN m
            ELSE IF tab[k].moved = None THEN Close(after[k - 1], tab[k].orig)
            ELSE Close(Dup2(after[k - 1], tab[k].moved, tab[k].orig), tab[k].moved)
    IN  IF l = 0 THEN m ELSE [after[Len(tab)] EXCEPT !.p.redirlist = SubSeq(@, 1, l - 1)]

(* unwindredir(stop), with the number of redirtabs for the pointer `stop'. *)
unwindredir(m, stop) ==
    LET n == Len(m.p.redirlist)
        after[k \in 0..n] == IF k = 0 THEN m ELSE IF n - k < stop THEN after[k - 1] ELSE popredir(after[k - 1])
    IN  after[n]

-----------------------------------------------------------------------------
(***************************************************************************)
(* evaltree: the running call is at a tree it has not begun.               *)
(***************************************************************************)
TreeFrame(t) == [kind |-> "tree", t |-> t]

EvalSemi ==
    /\ AtFrame("tree") /\ top.t.op = "semi"
    /\ Become(Push(Local(Cur, TreeFrame(top.t.rest)), TreeFrame(top.t.first)))
    /\ UNCHANGED <<typed, over>>

EvalRedir ==
    /\ AtFrame("tree") /\ top.t.op = "group"
    /\ LET m == redirectsafe(pushredir(Cur, top.t.redirs), top.t.redirs)
       IN  Become(IF m.ret < 0 THEN Returns(popredir(m), 1)
                  ELSE Push(Local(m, [kind |-> "group"]), TreeFrame(top.t.body)))
    /\ UNCHANGED <<typed, over>>

EvalRedirEnds ==
    /\ AtFrame("group")
    /\ Become(Pop(popredir(Cur)))
    /\ UNCHANGED <<typed, over>>

-----------------------------------------------------------------------------
(***************************************************************************)
(* evalpipe.  `todo' are the stages not begun; prevfd reads the temporary  *)
(* file of the stage before.                                               *)
(***************************************************************************)
PipeName(n) == <<"osdp", n>>

EvalPipe ==
    /\ AtFrame("tree") /\ top.t.op = "pipe"
    /\ Become(Local(Cur, [kind |-> "pipe", todo |-> top.t.stages, prevfd |-> -1,
                          save0 |-> -1, save1 |-> -1, tmp |-> None, running |-> FALSE]))
    /\ UNCHANGED <<typed, over>>

(* Mutant: the saved descriptor stays open. *)
MoveToLeaks(m, from, to) == IF from < 0 THEN m ELSE Dup2(m, from, to)

(* dup2 onto a standard descriptor and close, skipped when there is none.  *)
MoveTo(m, from, to) == IF from < 0 THEN m ELSE Close(Dup2(m, from, to), from)

PipeStage ==
    /\ AtFrame("pipe") /\ ~top.running /\ top.todo # <<>>
    /\ LET last == Len(top.todo) = 1
           m0 == IF last THEN Cur ELSE [Cur EXCEPT !.p.pipeseq = @ + 1]
           m1 == IF last THEN m0 ELSE OpenTmp(m0, PipeName(m0.p.pipeseq))
           m2 == Dup(m1, 0, 10)
           m3 == Dup(m2, 1, 10)
           m4 == MoveTo(m3, top.prevfd, 0)
           m5 == ClearStdin(MoveTo(m4, m1.ret, 1))
           f == [top EXCEPT !.todo = Tail(@), !.prevfd = -1, !.save0 = m2.ret, !.save1 = m3.ret,
                            !.tmp = IF last THEN None ELSE PipeName(m0.p.pipeseq), !.running = TRUE]
       IN  IF m1.ret < 0 /\ ~last
           THEN Become(RaiseError(CloseIf(m1, top.prevfd)))
           ELSE Become(Push(Local(m5, f), TreeFrame(Head(top.todo))))
    /\ UNCHANGED <<typed, over>>

PipeStageEnds ==
    /\ AtFrame("pipe") /\ top.running
    /\ LET m1 == MoveTo(Cur, top.save0, 0)
           m2 == MoveTo(m1, top.save1, 1)
           m3 == IF top.tmp = None THEN [m2 EXCEPT !.ret = -1] ELSE OpenRead(m2, top.tmp)
           m4 == IF top.tmp = None THEN m3 ELSE Unlink(m3, top.tmp)
       IN  Become(Local(m4, [top EXCEPT !.prevfd = m3.ret, !.tmp = None, !.running = FALSE]))
    /\ UNCHANGED <<typed, over>>

EvalPipeEnds ==
    /\ AtFrame("pipe") /\ ~top.running /\ top.todo = <<>>
    /\ Become(Pop(Cur))
    /\ UNCHANGED <<typed, over>>

-----------------------------------------------------------------------------
(***************************************************************************)
(* evalcommand: expand the words, redirect, run, restore.  An assignment   *)
(* is expanded after the redirections: of a command that has both, `subs'  *)
(* are those of its words.                                                 *)
(***************************************************************************)
EvalCommand ==
    /\ AtFrame("tree") /\ top.t.op = "cmd"
    /\ Become(Local([Cur EXCEPT !.p.back = 0],
                    [kind |-> "cmd", c |-> top.t, subs |-> top.t.subs, word |-> top.t.word,
                     at |-> "expand", stop |-> 0]))
    /\ UNCHANGED <<typed, over>>

(* Mutant: one name for every depth. *)
BqNameFlat(n) == <<"osdbq", 0>>

BqName(n) == <<"osdbq", n>>

(* osd_evalbackcmd_inproc, up to its call of evaltree.                     *)
BqStart ==
    /\ AtFrame("cmd") /\ top.at = "expand" /\ top.subs # <<>>
    /\ LET path == BqName(Cur.p.depth)
           m1 == Dup(Cur, 1, 10)
           m2 == OpenTmp(m1, path)
           m3 == [Dup2(m2, m2.ret, 1) EXCEPT !.p.depth = @ + 1]
           f == [kind |-> "bq", saved1 |-> m1.ret, tmpfd |-> m2.ret, tmp |-> path, st |-> Cur.p.st]
       IN  IF m1.ret < 0 \/ m2.ret < 0
           THEN Become(RaiseError(CloseIf(CloseIf(m2, m1.ret), m2.ret)))
           ELSE Become(Push(Push(Local(m3, [top EXCEPT !.subs = Tail(@)]), f), TreeFrame(Head(top.subs))))
    /\ UNCHANGED <<typed, over>>

(* ... and from there on, reached by a return or by a longjmp: the status  *)
(* of the substitution, descriptor 1 back, the name removed; expbackq then *)
(* reads the captured output into the word and closes it.                  *)
BqEnd ==
    /\ frames # <<>> /\ top.kind = "bq"
    /\ LET status == IF Cur.p.exc = "error" THEN 2 ELSE Cur.p.st
           m1 == Unlink(MoveTo(Cur, top.saved1, 1), top.tmp)
           m2 == [m1 EXCEPT !.ofd[m1.p.fd[top.tmpfd]].pos = 0]
           got == Unread(m2, top.tmpfd)
           m3 == [Close(m2, top.tmpfd) EXCEPT !.p.depth = @ - 1, !.p.exc = None, !.p.st = top.st, !.p.back = status]
           m4 == Pop(m3)
           cmd == m4.p.frames[Len(m4.p.frames)]
       IN  Become(Local(m4, [cmd EXCEPT !.word = @ \o got]))
    /\ UNCHANGED <<typed, over>>

(* An expansion that fails, such as ${unset?message}.                      *)
ExpandFails ==
    /\ AtFrame("cmd") /\ top.at = "expand" /\ top.subs = <<>> /\ top.c.prog = "fail"
    /\ Become(RaiseError(Cur))
    /\ UNCHANGED <<typed, over>>

(* The special builtins among the commands: their redirection errors are   *)
(* errors of the shell.                                                    *)
SpecialBuiltins == {"exit"}

CommandRedirects ==
    /\ AtFrame("cmd") /\ top.at = "expand" /\ top.subs = <<>> /\ top.c.prog # "fail"
    /\ LET m == redirectsafe(pushredir(Cur, top.c.redirs), top.c.redirs)
           f == [top EXCEPT !.stop = Len(Cur.p.redirlist), !.at = IF m.ret < 0 THEN "out" ELSE "run"]
           failed == [m EXCEPT !.p.st = 1]
       IN  Become(IF m.ret >= 0 THEN Local(m, f)
                  ELSE IF top.c.prog \in SpecialBuiltins THEN Raise(failed, "error")
                  ELSE Local(failed, f))
    /\ UNCHANGED <<typed, over>>

(* The label `out' of evalcommand.                                         *)
CommandEnds ==
    /\ AtFrame("cmd") /\ top.at = "out"
    /\ LET m == IF top.c.redirs = <<>> THEN Cur ELSE popredir(Cur)
       IN  Become(Pop(unwindredir(m, top.stop)))
    /\ UNCHANGED <<typed, over>>

-----------------------------------------------------------------------------
(***************************************************************************)
(* The commands.  Applets are calls, and share libc's stdin: a FILE with a *)
(* buffer and an end-of-file flag that stays set until it is cleared.      *)
(***************************************************************************)
Running(prog) == AtFrame("cmd") /\ top.at = "run" /\ top.c.prog = prog

(* The command has run with this status; evalcommand goes on to `out'.     *)
Ran(m, st) == Become(Local([m EXCEPT !.p.st = st], [top EXCEPT !.at = "out"]))

(* What getc(stdin) can return until end of file, and stdin after it has.  *)
Buffered(m) == IF m.p.buf # <<>> THEN m.p.buf ELSE IF m.p.eof THEN <<>> ELSE Unread(m, 0)
FilledFrom(m) == IF m.p.buf # <<>> \/ m.p.eof THEN m ELSE Consumed(m, 0)

(* echo, and `echo $?'.                                                    *)
Echo ==
    /\ Running("echo") /\ Ran(Write(Cur, 1, top.word), 0)
    /\ UNCHANGED <<typed, over>>

StatusWord(st) == <<"0", "1", "2", "3">>[st + 1]

EchoStatus ==
    /\ Running("status") /\ Ran(Write(Cur, 1, <<StatusWord(Cur.p.st)>>), 0)
    /\ UNCHANGED <<typed, over>>

(* x=$(...): the null command's status is that of the substitution.        *)
Assign ==
    /\ Running("assign") /\ Ran(Cur, Cur.p.back)
    /\ UNCHANGED <<typed, over>>

(* cat copies from descriptor 0 itself.                                    *)
Cat ==
    /\ Running("cat") /\ Ran(Write(Consumed(Cur, 0), 1, Unread(Cur, 0)), 0)
    /\ UNCHANGED <<typed, over>>

(* sed '' copies the lines of stdin to its end (sort, grep and wc read it  *)
(* the same way).                                                          *)
Sed ==
    /\ Running("sed")
    /\ Ran([Write(FilledFrom(Cur), 1, Buffered(Cur)) EXCEPT !.p.buf = <<>>, !.p.eof = TRUE], 0)
    /\ UNCHANGED <<typed, over>>

(* head -n 1: one line; what else was read with it stays in the buffer.    *)
HeadLine ==
    /\ Running("head")
    /\ LET b == Buffered(Cur)
       IN  Ran(IF b = <<>> THEN [FilledFrom(Cur) EXCEPT !.p.eof = TRUE]
               ELSE [Write(FilledFrom(Cur), 1, <<Head(b)>>) EXCEPT !.p.buf = Tail(b)], 0)
    /\ UNCHANGED <<typed, over>>

(* The lines without those that repeat the one before.                     *)
Merged(b) ==
    LET go[k \in 0..Len(b)] ==
            IF k = 0 THEN <<>> ELSE IF k > 1 /\ b[k] = b[k - 1] THEN go[k - 1] ELSE Append(go[k - 1], b[k])
    IN  go[Len(b)]

(* uniq FILE closes descriptor 0 and opens the file, which becomes 0.      *)
Uniq ==
    /\ Running("uniq")
    /\ LET m == OpenRead(Close(Cur, 0), top.c.file)
           b == Buffered(m)
       IN  IF m.ret < 0 THEN Ran(m, 1)
           ELSE Ran([Write(FilledFrom(m), 1, Merged(b)) EXCEPT !.p.buf = <<>>, !.p.eof = TRUE], 0)
    /\ UNCHANGED <<typed, over>>

(* rm -r /tmp takes the temporary files' names with it.                    *)
RmTmp ==
    /\ Running("rmtmp")
    /\ Ran([Cur EXCEPT !.names = [q \in {q \in DOMAIN @ : q[1] \notin {"tmp", "osdp", "osdbq"}} |-> @[q]]], 0)
    /\ UNCHANGED <<typed, over>>

(* exit 3: exitcmd leaves the 3 for the handler's exitstatus and raises    *)
(* EXEXIT, which evalbltin and evalcommand pass on.                        *)
Exit ==
    /\ Running("exit")
    /\ Become(Raise([Cur EXCEPT !.p.st = 3], "exit"))
    /\ UNCHANGED <<typed, over>>

NewProc(fd, t) ==
    [fd |-> fd, pipeseq |-> 0, depth |-> 0, redirlist |-> <<>>, eof |-> FALSE, buf |-> <<>>,
     frames |-> t, exc |-> None, st |-> 0, back |-> 0]

(* osd_spawn_command: the page runs the script in a new instance, which    *)
(* shares the descriptions of 0, 1 and 2; the shell is suspended.          *)
Spawn ==
    /\ AtFrame("cmd") /\ top.at = "run" /\ top.c.prog \in DOMAIN Scripts
    /\ Settle(Append(procs, NewProc([n \in 0..MaxFd |-> IF n <= 2 THEN Cur.p.fd[n] ELSE None],
                                    <<TreeFrame(Scripts[top.c.prog])>>)), Cur)
    /\ UNCHANGED <<typed, over>>

(* exitshell of a spawned shell, at the end of its script or after an      *)
(* exception, ends the instance; osd_spawn returns its status.             *)
SpawnReturns ==
    /\ Len(procs) > 1 /\ frames = <<>>
    /\ LET n == Len(procs) - 1
           f == procs[n].frames[Len(procs[n].frames)]
           parent == [procs[n] EXCEPT !.frames[Len(procs[n].frames)] = [f EXCEPT !.at = "out"], !.st = Cur.p.st]
       IN  Settle(Append(SubSeq(procs, 1, n - 1), parent), Cur)
    /\ UNCHANGED <<typed, over>>

-----------------------------------------------------------------------------
(***************************************************************************)
(* ash_main and cmdloop of the session's shell.                            *)
(***************************************************************************)
AtPrompt == Len(procs) = 1 /\ procs[1].frames = <<>> /\ procs[1].exc = None /\ ~over

(* cmdloop reads a line from the terminal and evaluates it.                *)
ReadLine ==
    /\ AtPrompt /\ procs[1].fd[0] = tty /\ Len(typed) < MaxLines
    /\ \E line \in Lines :
          /\ Become(Push(Cur, TreeFrame(line)))
          /\ typed' = Append(typed, line)
    /\ UNCHANGED over

(* If descriptor 0 is not the terminal, that is what the shell reads: what *)
(* it finds there are not commands, and at its end the shell exits.        *)
ReadElsewhere ==
    /\ AtPrompt /\ procs[1].fd[0] # tty
    /\ Become(Consumed(Cur, 0))
    /\ over' = (Unread(Cur, 0) = <<>>)
    /\ UNCHANGED typed

(* The handler of ash_main: exitreset unwinds the redirections; after an   *)
(* error the interactive shell prompts again, after `exit' it is gone.     *)
MainHandler ==
    /\ Len(procs) = 1 /\ frames = <<>> /\ Cur.p.exc # None
    /\ Become([unwindredir(Cur, 0) EXCEPT !.p.exc = None])
    /\ over' = (Cur.p.exc = "exit")
    /\ UNCHANGED typed

Init ==
    LET files == DOMAIN Contents
        ino == CHOOSE f \in [files -> 1..Cardinality(files)] : \A a, b \in files : f[a] = f[b] => a = b
    IN  /\ procs = <<NewProc([n \in 0..MaxFd |-> IF n <= 2 THEN tty ELSE None], <<>>)>>
        /\ ofd = (tty :> [ino |-> tty, pos |-> 0])
        /\ names = ino
        /\ data = [i \in {ino[f] : f \in files} |-> Contents[CHOOSE f \in files : ino[f] = i]]
        /\ screen = <<>> /\ typed = <<>> /\ over = FALSE

Eval == \/ EvalSemi \/ EvalRedir \/ EvalRedirEnds \/ EvalPipe \/ PipeStage \/ PipeStageEnds \/ EvalPipeEnds
        \/ EvalCommand \/ BqStart \/ BqEnd \/ ExpandFails \/ CommandRedirects \/ CommandEnds
        \/ Echo \/ EchoStatus \/ Assign \/ Cat \/ Sed \/ HeadLine \/ Uniq \/ RmTmp \/ Exit
        \/ Spawn \/ SpawnReturns \/ ReadElsewhere \/ MainHandler

(* A session that has ended stays so; any other state has a step, or the   *)
(* evaluation would hang.                                                  *)
SessionOver ==
    /\ over \/ (AtPrompt /\ procs[1].fd[0] = tty /\ Len(typed) = MaxLines)
    /\ UNCHANGED vars

Next == Eval \/ ReadLine \/ SessionOver
Spec == Init /\ [][Next]_vars

-----------------------------------------------------------------------------
(* The state of the machine: descriptors hold descriptions, descriptions   *)
(* and names hold inodes, frames are those of the calls above, and the     *)
(* redirlist's saved descriptors are numbers from 10 up.                   *)
TypeOK ==
    /\ \A k \in DOMAIN procs :
          LET p == procs[k]
          IN  /\ p.fd \in [0..MaxFd -> DOMAIN ofd \cup {None}]
              /\ p.pipeseq \in Nat /\ p.depth \in Nat /\ p.st \in 0..3 /\ p.back \in 0..3
              /\ p.eof \in BOOLEAN /\ p.exc \in {None, "error", "exit"}
              /\ \A l \in DOMAIN p.redirlist : \A i \in DOMAIN p.redirlist[l] :
                    p.redirlist[l][i].orig \in 0..9 /\ p.redirlist[l][i].moved \in (10..MaxFd) \cup {None}
              /\ \A i \in DOMAIN p.frames : p.frames[i].kind \in {"tree", "group", "pipe", "cmd", "bq"}
    /\ \A o \in DOMAIN ofd : ofd[o].ino \in DOMAIN data \cup {tty} /\ ofd[o].pos \in Nat
    /\ \A q \in DOMAIN names : names[q] \in DOMAIN data
    /\ typed \in Seq(Lines) /\ Len(typed) <= MaxLines /\ over \in BOOLEAN

(* When the shell prompts again after a line, evalpipe,                    *)
(* osd_evalbackcmd_inproc, popredir and the handler of ash_main have put   *)
(* everything back: descriptors 0, 1 and 2 are the terminal, no other      *)
(* descriptor is open, no redirection is pending, no temporary file has a  *)
(* name, and the nesting depth is zero.  This is so for pipelines,         *)
(* substitutions, groups and scripts in one another, and after an error in *)
(* a command or a group at the prompt, in a substitution or in a script.   *)
(* It is not so, and the lines of the runs leave it out, after an error in *)
(* a stage that the shell itself runs (the longjmp skips evalpipe's        *)
(* restoration of 0 and 1), after an exception under a redirection in a    *)
(* substitution (its redirtab stays), and after uniq FILE outside a        *)
(* pipeline (0 stays on the file).                                         *)
PromptRestored ==
    AtPrompt => /\ \A n \in 0..2 : procs[1].fd[n] = tty
                /\ \A n \in 3..MaxFd : procs[1].fd[n] = None
                /\ procs[1].redirlist = <<>> /\ procs[1].depth = 0
                /\ \A q \in DOMAIN names : q[1] \notin {"osdp", "osdbq"}

(* The temporary files in use: by which call of which instance.            *)
TmpUses == UNION {{<<k, i>> : i \in {i \in DOMAIN procs[k].frames :
                                        /\ procs[k].frames[i].kind \in {"pipe", "bq"}
                                        /\ procs[k].frames[i].tmp # None}} : k \in DOMAIN procs}

(* A temporary file belongs to one call: while a stage or a substitution   *)
(* is being captured, its file keeps its name and no other capture has the *)
(* same one, so nothing else truncates, reads or unlinks it.  The captures *)
(* are those of one instance, of any nesting, beside scripts that capture  *)
(* nothing themselves; a script that does takes its parent's names, which  *)
(* is what ChildrenCompose is about.                                       *)
CaptureOwned ==
    \A u \in TmpUses :
        LET tmp == procs[u[1]].frames[u[2]].tmp
        IN  /\ TmpDir \in DOMAIN names => tmp \in DOMAIN names
            /\ \A v \in TmpUses : v # u => procs[v[1]].frames[v[2]].tmp # tmp
=============================================================================

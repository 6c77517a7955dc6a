------------------------------ MODULE MCShell -------------------------------
(* The session: the command lines a user types at the prompt of the shell  *)
(* model, and what a shell that forks would print for them.                *)
EXTENDS Shell

f == <<"f", 0>>
g == <<"g", 0>>
absent == <<"absent", 0>>

Cmd(prog, word, subs, redirs) == [op |-> "cmd", prog |-> prog, word |-> word, subs |-> subs, redirs |-> redirs]
P(prog) == Cmd(prog, <<>>, <<>>, <<>>)
Say(w) == Cmd("echo", <<w>>, <<>>, <<>>)
SayOf(sub) == Cmd("echo", <<>>, <<sub>>, <<>>)
From(prog, file) == Cmd(prog, <<>>, <<>>, <<[fd |-> 0, dir |-> "in", file |-> file]>>)
UniqF == P("uniq") @@ [file |-> f]
Into(file) == <<[fd |-> 1, dir |-> "out", file |-> file]>>
Pipe2(a, b) == [op |-> "pipe", stages |-> <<a, b>>]
Pipe3(a, b, c) == [op |-> "pipe", stages |-> <<a, b, c>>]
Semi(a, b) == [op |-> "semi", first |-> a, rest |-> b]
Group(t, redirs) == [op |-> "group", body |-> t, redirs |-> redirs]

TwoFiles == (f :> <<"x", "y", "y">>) @@ (TmpDir :> <<>>)
PlainScripts == ("show" :> Semi(P("cat"), Say("c"))) @@ ("dies" :> Semi(P("fail"), Say("c")))


(***************************************************************************)
(* The meaning of a tree in a shell that forks: a stage of a pipeline and  *)
(* a substitution are subshells, whose end is theirs alone.  The world e   *)
(* has the files, the status $?, the input on descriptor 0 and the way the *)
(* last command ended.  Where there is no /tmp a pipeline and a            *)
(* substitution end in an error, as they would where pipe() fails.         *)
(***************************************************************************)
Input(tty_, left) == [tty |-> tty_, left |-> left]
Terminal == Input(TRUE, <<>>)
Available(e) == IF e.in.tty THEN <<"typed">> ELSE e.in.left
Drained(e) == IF e.in.tty THEN e ELSE [e EXCEPT !.in.left = <<>>]
Ends(e, st, exc) == [e EXCEPT !.st = st, !.exc = exc]
Result(out, e) == [out |-> out, e |-> e]
NoTmp(e) == TmpDir \notin DOMAIN e.files

(* The world in which a list of redirections leaves a command; exc is an   *)
(* error if a file is missing.                                             *)
Redirected(e, redirs) ==
    LET go[k \in 0..Len(redirs)] ==
            IF k = 0 THEN e
            ELSE LET p == go[k - 1] r == redirs[k]
                 IN  IF p.exc # None THEN p
                     ELSE IF r.dir = "out" THEN [p EXCEPT !.files = (r.file :> <<>>) @@ @]
                     ELSE IF r.file \notin DOMAIN p.files THEN [p EXCEPT !.exc = "error"]
                     ELSE IF r.fd = 0 THEN [p EXCEPT !.in = Input(FALSE, p.files[r.file])] ELSE p
    IN  go[Len(redirs)]

(* The last redirection of descriptor 1, if any, receives the output.      *)
Sinks(redirs) == {k \in DOMAIN redirs : redirs[k].fd = 1}
Captured(r, redirs) ==
    IF Sinks(redirs) = {} THEN r
    ELSE LET to == redirs[Max(Sinks(redirs))].file IN Result(<<>>, [r.e EXCEPT !.files[to] = @ \o r.out])

Runs(c, word, back, e) ==
    CASE c.prog = "echo"   -> Result(word, Ends(e, 0, None))
      [] c.prog = "status" -> Result(<<StatusWord(e.st)>>, Ends(e, 0, None))
      [] c.prog = "assign" -> Result(<<>>, Ends(e, back, None))
      [] c.prog \in {"cat", "sed"} -> Result(Available(e), Ends(Drained(e), 0, None))
      [] c.prog = "head"   -> Result(SubSeq(Available(e), 1, 1), Ends(Drained(e), 0, None))
      [] c.prog = "uniq"   -> IF c.file \in DOMAIN e.files THEN Result(Merged(e.files[c.file]), Ends(e, 0, None))
                              ELSE Result(<<>>, Ends(e, 1, None))
      [] c.prog = "rmtmp"  -> Result(<<>>, Ends([e EXCEPT !.files = [q \in DOMAIN @ \ {TmpDir} |-> @[q]]], 0, None))
      [] c.prog = "exit"   -> Result(<<>>, Ends(e, 3, "exit"))

RECURSIVE Means(_, _), Pipes(_, _), Words(_, _, _, _)
Means(t, e) ==
    IF t.op = "semi"
    THEN LET a == Means(t.first, e)
             b == Means(t.rest, a.e)
         IN  IF a.e.exc # None THEN a ELSE Result(a.out \o b.out, b.e)
    ELSE IF t.op = "pipe"
    THEN IF NoTmp(e) THEN Result(<<>>, Ends(e, 2, "error"))
         ELSE LET r == Pipes(t.stages, e) IN Result(r.out, [r.e EXCEPT !.exc = None])
    ELSE IF t.op = "group"
    THEN LET i == Redirected(e, t.redirs)
             r == Captured(Means(t.body, i), t.redirs)
         IN  IF i.exc # None THEN Result(<<>>, Ends([i EXCEPT !.in = e.in], 1, None))
             ELSE Result(r.out, IF \E k \in DOMAIN t.redirs : t.redirs[k].fd = 0
                                THEN [r.e EXCEPT !.in = e.in] ELSE r.e)
    ELSE Words(t, t.subs, t.word, [e |-> e, back |-> 0])

(* Stages one after the other; each reads what the one before has written. *)
Pipes(stages, e) ==
    LET a == Means(Head(stages), [e EXCEPT !.exc = None])
        b == Pipes(Tail(stages), [a.e EXCEPT !.in = Input(FALSE, a.out)])
    IN  IF Len(stages) = 1 THEN a ELSE Result(b.out, [b.e EXCEPT !.in = a.e.in])

(* A simple command: its substitutions, its redirections, and the program. *)
Words(c, subs, word, w) ==
    IF subs # <<>>
    THEN LET r == Means(Head(subs), w.e)
         IN  IF NoTmp(w.e) THEN Result(<<>>, Ends(w.e, 2, "error"))
             ELSE Words(c, Tail(subs), word \o r.out,
                        [e |-> Ends(r.e, w.e.st, None), back |-> IF r.e.exc = "error" THEN 2 ELSE r.e.st])
    ELSE IF c.prog = "fail" THEN Result(<<>>, Ends(w.e, 2, "error"))
    ELSE LET i == Redirected(w.e, c.redirs)
             s == Means(Scripts[c.prog], [i EXCEPT !.st = 0])
             r == Captured(IF c.prog \in DOMAIN Scripts THEN Result(s.out, [s.e EXCEPT !.exc = None])
                           ELSE Runs(c, word, w.back, i), c.redirs)
         IN  IF i.exc # None
             THEN Result(<<>>, Ends([i EXCEPT !.in = w.e.in], 1, IF c.prog \in SpecialBuiltins THEN "error" ELSE None))
             ELSE Result(r.out, IF \E k \in DOMAIN c.redirs : c.redirs[k].fd = 0
                                THEN [r.e EXCEPT !.in = w.e.in] ELSE r.e)

(* The lines of a session one after the other; an error ends its line, and *)
(* an exit the session.                                                    *)
Told(lines) ==
    LET go[k \in 0..Len(lines)] ==
            IF k = 0 THEN Result(<<>>, [files |-> Contents, st |-> 0, in |-> Terminal, exc |-> None])
            ELSE LET r == Means(lines[k], [go[k - 1].e EXCEPT !.exc = None, !.in = Terminal])
                 IN  Result(go[k - 1].out \o r.out, r.e)
    IN  go[Len(lines)]

Histories == UNION {[1..n -> Lines] : n \in 0..MaxLines}
Tellings == [h \in Histories |-> Told(h)]
Answer(lines) == Tellings[lines].out
Leaves(lines) == Tellings[lines].e.exc = "exit"

(* What the user is still to be shown is the meaning less the screen.      *)
S == INSTANCE Session WITH asked <- typed, said <- screen,
                           due <- SubSeq(Answer(typed), Len(screen) + 1, Len(Answer(typed))),
                           at <- IF over THEN "gone" ELSE IF AtPrompt THEN "prompt" ELSE "busy"

(* The shell without fork answers as a shell with fork would: evalpipe's   *)
(* sequential stages and osd_evalbackcmd_inproc's nested evaluation are    *)
(* invisible at the terminal.  The prompt comes back after each line, the  *)
(* last one too, only when all that the line means has been printed and    *)
(* nothing else, and the shell exits only where a line says so.  The lines *)
(* are those of PlainLines: an error in a stage at the prompt, an end of a *)
(* stage inside a substitution (OuterShellSurvives), a script with         *)
(* captures of its own (ChildrenCompose) and uniq FILE outside a pipeline  *)
(* are known to be answered otherwise.                                     *)
AnswersAsIfForked == S!SessionSpec

-----------------------------------------------------------------------------

PlainLines == {
    Pipe3(Semi(Say("a"), Say("b")), P("sed"), P("head")),
    Pipe3(From("cat", f), P("head"), P("show")),
    \* $(...) in a stage, a pipeline in $(...), $(...) in $(...)
    Pipe2(SayOf(Pipe2(Say("a"), P("cat"))), P("sed")),
    Cmd("echo", <<"a">>, <<SayOf(From("head", f)), Say("b")>>, Into(g)),
    \* a group whose $(...) and pipeline read the group's input
    Group(Semi(SayOf(P("cat")), Pipe2(P("cat"), P("cat"))), <<[fd |-> 0, dir |-> "in", file |-> f]>>),
    \* cmd <a; cmd <b, and a first stage that reads the terminal
    Semi(From("sed", f), From("head", f)),
    Pipe2(P("sed"), P("cat")),
    \* descriptor 3, twice in one list; a list that fails half way
    Cmd("echo", <<"a">>, <<Say("b")>>, <<[fd |-> 3, dir |-> "out", file |-> g], [fd |-> 3, dir |-> "in", file |-> f],
                                         [fd |-> 1, dir |-> "out", file |-> g]>>),
    Cmd("cat", <<>>, <<>>, <<[fd |-> 0, dir |-> "in", file |-> f], [fd |-> 1, dir |-> "out", file |-> g],
                             [fd |-> 0, dir |-> "in", file |-> absent]>>),
    Pipe2(From("cat", absent), From("cat", g)),
    \* statuses; an end of a substitution that is not the shell's
    Semi(Cmd("assign", <<>>, <<P("exit")>>, <<>>), P("status")),
    Semi(Cmd("assign", <<>>, <<P("fail")>>, <<>>), Semi(P("status"), P("status"))),
    Cmd("echo", <<"a">>, <<Semi(Say("b"), P("exit")), P("status")>>, <<>>),
    \* errors and an exit of the shell itself, inside redirections
    Group(Semi(Say("a"), P("fail")), Into(g)),
    Semi(P("fail"), Say("a")),
    Group(P("exit"), Into(g)),
    Semi(From("exit", absent), Say("a")),
    \* scripts, in a pipeline and under redirections
    Pipe3(Say("a"), P("show"), P("sed")),
    Semi(Pipe2(P("dies"), P("cat")), P("status")),
    Semi(SayOf(Cmd("dies", <<>>, <<>>, Into(g))), Semi(From("show", g), P("status"))),
    P("rmtmp"),
    \* uniq FILE as a stage
    Pipe2(UniqF, P("cat"))}

(* Lines that end a substitution inside a stage of its pipeline, and none  *)
(* that ends the shell itself.                                             *)
EndingStages == {
    Cmd("assign", <<>>, <<Pipe2(Say("a"), P("exit"))>>, <<>>),
    SayOf(Semi(Say("a"), P("exit")))}

(* osd_evalbackcmd_inproc catches whatever its command raises, and the     *)
(* shell around it goes on reading the terminal.                           *)
OuterShellSurvives == ~over

(* Scripts with a pipeline or a substitution of their own.                 *)
OwnCaptures == ("show" :> P("cat")) @@ ("date" :> Semi(Say("a"), SayOf(Say("b"))))
                @@ ("list" :> Pipe2(Say("a"), P("sed")))
SpawningLines == {
    Pipe2(P("show"), P("cat")),
    P("date"), P("list"),
    SayOf(P("show")), SayOf(P("date")), Pipe2(P("list"), P("cat"))}

(* A spawned script and the pipeline it is a stage of compose: at the      *)
(* prompt, the terminal shows what the lines mean.                         *)
ChildrenCompose == AtPrompt => screen = Answer(typed)
=============================================================================

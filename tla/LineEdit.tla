------------------------------- MODULE LineEdit ------------------------------
(***************************************************************************)
(* The line editor of the interactive shell (guest/busybox/upstream/libbb/ *)
(* lineedit.c, FEATURE_EDITING_SAVEHISTORY without SAVE_ON_EXIT, no vi     *)
(* mode, no Unicode) and the terminal modes it drives through tcgetattr    *)
(* and tcsetattr of wasi-compat.c.                                         *)
(*                                                                         *)
(* `sh' at a prompt is a nested instance with its own history array and    *)
(* its own notion of the terminal mode; the instances share the history    *)
(* file and the page.  Only the innermost one runs.  A line is a sequence  *)
(* of characters and the null pointer of an unused history slot is the     *)
(* empty line, which is never stored.  Drawing is left out.                *)
(***************************************************************************)
EXTENDS Naturals, Sequences

CONSTANTS
    Chars,          \* the characters typed; " " and "." delimit words
    MaxLen,         \* maxsize - 2
    MAX_HISTORY,
    TrimFactor,     \* 4 in the code
    MaxDepth,       \* bound on the nested shells
    MaxLogged       \* bound on the lines remembered in a behaviour

ASSUME EditAssumption ==
    /\ MaxLen \in Nat \ {0} /\ MAX_HISTORY \in Nat \ {0} /\ TrimFactor \in Nat \ {0}
    /\ MaxDepth \in Nat \ {0} /\ MaxLogged \in Nat

VARIABLES
    shells,    \* the instances, the innermost last
    at,        \* where that one is: "prompt", "edit" or "run"
    line,      \* command_ps
    cursor,
    hist_file, \* the lines of the history file
    page,      \* the mode of the page's line discipline
    recent,    \* history: the last MAX_HISTORY lines remembered by any instance
    logged     \* how many were remembered, for the bound

editVars == <<shells, at, line, cursor, hist_file, page, recent, logged>>

Line == {l \in Seq(Chars) : Len(l) <= MaxLen}
Mode == {"raw", "cooked"}

(* line_input_t, and osd_tty_lflag.  initial is initial_settings. *)
line_input_t == [history : [0..MAX_HISTORY -> Line], cnt_history : 0..MAX_HISTORY,
                 cnt_history_in_file : Nat, cur_history : 0..MAX_HISTORY,
                 lflag : Mode, initial : Mode]

new_line_input_t == [history |-> [i \in 0..MAX_HISTORY |-> <<>>], cnt_history |-> 0,
                     cnt_history_in_file |-> 0, cur_history |-> 0,
                     lflag |-> "cooked", initial |-> "cooked"]

st == shells[Len(shells)]
SetState(s) == shells' = [shells EXCEPT ![Len(shells)] = s]

-----------------------------------------------------------------------------
(* The history. *)

(* The number of lines above which the file is trimmed.                    *)
TrimAt == TrimFactor * MAX_HISTORY

Least(m, n) == IF m < n THEN m ELSE n
LastLines(f, n) == SubSeq(f, Len(f) - Least(n, Len(f)) + 1, Len(f))

(* load_history, of the lines f of the file: the last MAX_HISTORY.         *)
load_history(s, f) ==
    LET kept == LastLines(f, MAX_HISTORY)
    IN  [s EXCEPT !.history = [i \in 0..MAX_HISTORY |->
                                 IF i < Len(kept) THEN kept[i + 1]
                                 ELSE IF i < s.cnt_history THEN <<>> ELSE s.history[i]],
                  !.cnt_history = Len(kept),
                  !.cnt_history_in_file = Len(f)]

save_command_ps_at_cur_history(s) ==
    IF line = <<>> THEN s ELSE [s EXCEPT !.history[s.cur_history] = line]

(* Mutant: the trim writes the instance's own history.                     *)
TrimmedOwn(s, f) == [i \in 1..s.cnt_history |-> s.history[i - 1]]

(* The file that replaces one of the lines f: others' lines are loaded too. *)
Trimmed(s, f) == LastLines(f, MAX_HISTORY)

(* Mutant: the line is not counted.                                        *)
save_historyUncounted(s, str) ==
    /\ hist_file' = Append(hist_file, str)
    /\ SetState(s)

(* save_history: append, and trim when the file is thought long.           *)
save_history(s, str) ==
    LET f == Append(hist_file, str)
        n == s.cnt_history_in_file + 1
        trim == n > TrimAt
    IN  /\ hist_file' = IF trim THEN Trimmed(s, f) ELSE f
        /\ SetState([s EXCEPT !.cnt_history_in_file = IF trim THEN Len(Trimmed(s, f)) ELSE n])

(* Mutant: a line anywhere in the history is a duplicate.                  *)
DuplicateAny(s, str) == \E i \in 0..(s.cnt_history - 1) : s.history[i] = str

(* Only the line before counts as one.                                     *)
Duplicate(s, str) == s.cnt_history > 0 /\ s.history[s.cnt_history - 1] = str

(* The history with str at its end, the oldest line dropped when full.     *)
WithLine(s, str) ==
    LET full == s.cnt_history >= MAX_HISTORY
        i == IF full THEN MAX_HISTORY - 1 ELSE s.cnt_history
        h == [s.history EXCEPT ![MAX_HISTORY] = <<>>]
        shifted == [k \in 0..MAX_HISTORY |-> IF full /\ k < MAX_HISTORY - 1 THEN h[k + 1] ELSE h[k]]
    IN  [s EXCEPT !.history = [shifted EXCEPT ![i] = str],
                  !.cnt_history = i + 1, !.cur_history = i + 1]

remember_in_history(s, str) ==
    IF str = <<>> \/ Duplicate(s, str) THEN SetState(s) /\ UNCHANGED <<hist_file, recent, logged>>
    ELSE /\ save_history(WithLine(s, str), str)
         /\ recent' = LastLines(Append(recent, str), MAX_HISTORY) /\ logged' = logged + 1

-----------------------------------------------------------------------------
(* The first shell after boot, with no history file yet; load_history's    *)
(* cut of lines that are longer than the buffer is therefore never met.    *)
EditInit ==
    /\ shells = <<new_line_input_t>> /\ at = "prompt" /\ line = <<>> /\ cursor = 0
    /\ hist_file = <<>> /\ page = "cooked" /\ recent = <<>> /\ logged = 0

(* Mutant: tcgetattr asks the page.                                        *)
tcgetattrPage(s) == page

(* tcgetattr: the mode this instance set last, whatever the page is in.    *)
tcgetattr(s) == s.lflag

tcsetattr(s, mode) == [s EXCEPT !.lflag = mode]

(* read_line_input up to its loop.                                         *)
StartLine ==
    /\ at = "prompt" /\ at' = "edit"
    /\ LET asked == [st EXCEPT !.initial = tcgetattr(st)]
           loaded == IF st.cnt_history = 0 THEN load_history(asked, hist_file) ELSE asked
       IN  SetState(tcsetattr([loaded EXCEPT !.cur_history = loaded.cnt_history], "raw"))
    /\ page' = "raw"
    /\ UNCHANGED <<line, cursor, hist_file, recent, logged>>

(* The keys that end the loop; then the rest of read_line_input.           *)
EndLine(str) ==
    /\ at = "edit" /\ at' = "run"
    /\ str # <<>> => logged < MaxLogged
    /\ line' = str /\ cursor' = 0
    /\ remember_in_history(tcsetattr(st, st.initial), str)
    /\ page' = st.initial

Enter == EndLine(line)
CtrlC == EndLine(<<>>)

-----------------------------------------------------------------------------
(* The keys that edit the line.  Positions count the characters before the *)
(* cursor.                                                                 *)

Edited(l, c) ==
    /\ at = "edit" /\ <<l, c>> # <<line, cursor>>
    /\ line' = l /\ cursor' = c
    /\ UNCHANGED <<shells, at, hist_file, page, recent, logged>>

(* The line without its characters between positions i and j.              *)
Without(i, j) == SubSeq(line, 1, i) \o SubSeq(line, j + 1, Len(line))

(* The space and, for BB_ispunct, one character of punctuation.            *)
Delims == {" ", "."}

Inserted(c) == SubSeq(line, 1, cursor) \o <<c>> \o SubSeq(line, cursor + 1, Len(line))

(* Mutant: a full line still takes a character.                            *)
InsertFull(c) == Edited(Inserted(c), cursor + 1)

Insert(c) == Len(line) < MaxLen /\ Edited(Inserted(c), cursor + 1)

input_backward == cursor > 0 /\ Edited(line, cursor - 1)
input_forward == cursor < Len(line) /\ Edited(line, cursor + 1)
Home == Edited(line, 0)
End == Edited(line, Len(line))
input_backspace == cursor > 0 /\ Edited(Without(cursor - 1, cursor), cursor - 1)
input_delete == cursor < Len(line) /\ Edited(Without(cursor, cursor + 1), cursor)
KillToEnd == Edited(Without(cursor, Len(line)), cursor)
KillToStart == Edited(Without(0, cursor), 0)

(* The positions where a word begins, and those where one ends, if D are   *)
(* the characters between words.                                           *)
WordStarts(D) == {i \in 1..(Len(line) - 1) : line[i] \in D /\ line[i + 1] \notin D}
WordEnds(D) == {i \in 1..(Len(line) - 1) : line[i] \notin D /\ line[i + 1] \in D}

(* i is the beginning of the word before the cursor.                       *)
WordBefore(D, i) ==
    LET before == {0} \cup {j \in WordStarts(D) : j < cursor}
    IN  i \in before /\ \A j \in before : j <= i

(* Back over delimiters to a word, and to its beginning.                   *)
ctrl_left(i) == WordBefore(Delims, i)

(* Forward over delimiters to a word, and to its end.                      *)
ctrl_right(i) ==
    LET after == {Len(line)} \cup {j \in WordEnds(Delims) : j > cursor}
    IN  i \in after /\ \A j \in after : i <= j

WordLeft == \E i \in 0..cursor : ctrl_left(i) /\ Edited(line, i)
WordRight == \E i \in cursor..Len(line) : ctrl_right(i) /\ Edited(line, i)
KillWordForward == \E i \in cursor..Len(line) : ctrl_right(i) /\ Edited(Without(cursor, i), cursor)
KillWordBackward == \E i \in 0..cursor : ctrl_left(i) /\ Edited(Without(i, cursor), i)

(* ^W: back over spaces, then to the next one.                             *)
KillLastWord == \E i \in 0..cursor : WordBefore({" "}, i) /\ Edited(Without(i, cursor), i)

(* rewrite_line, after the line that is left was saved in its slot.        *)
Browse(to) ==
    /\ at = "edit"
    /\ LET s == [save_command_ps_at_cur_history(st) EXCEPT !.cur_history = to]
       IN  SetState(s) /\ line' = s.history[to] /\ cursor' = Len(s.history[to])
    /\ UNCHANGED <<at, hist_file, page, recent, logged>>

get_previous_history == st.cur_history > 0 /\ Browse(st.cur_history - 1)
get_next_history == st.cur_history < st.cnt_history /\ Browse(st.cur_history + 1)

-----------------------------------------------------------------------------
(* The line runs: a builtin or an in-process applet, a spawned program     *)
(* (which may leave the page in either mode), a nested shell, or `exit'.   *)
(* The next prompt starts from an empty line.                              *)
Done ==
    /\ at = "run" /\ at' = "prompt" /\ line' = <<>>
    /\ UNCHANGED <<cursor, hist_file, recent, logged>>

RunLine == Done /\ UNCHANGED <<shells, page>>

RunProgram(mode) == Done /\ line # <<>> /\ page' = mode /\ UNCHANGED shells

NestedShell ==
    /\ Done /\ line # <<>> /\ Len(shells) < MaxDepth
    /\ shells' = Append(shells, new_line_input_t) /\ UNCHANGED page

ExitShell ==
    /\ Done /\ line # <<>> /\ Len(shells) > 1
    /\ shells' = SubSeq(shells, 1, Len(shells) - 1) /\ UNCHANGED page

Edit ==
    \/ \E c \in Chars : Insert(c)
    \/ input_backward \/ input_forward \/ Home \/ End \/ WordLeft \/ WordRight
    \/ input_backspace \/ input_delete \/ KillToEnd \/ KillToStart
    \/ KillLastWord \/ KillWordForward \/ KillWordBackward
    \/ get_previous_history \/ get_next_history

EditNext ==
    \/ StartLine \/ Edit \/ Enter \/ CtrlC
    \/ RunLine \/ NestedShell \/ ExitShell \/ \E mode \in Mode : RunProgram(mode)

EditSpec == EditInit /\ [][EditNext]_editVars

-----------------------------------------------------------------------------
(* The line fits its buffer and the cursor is in it; a slot below          *)
(* cnt_history is never null, which remember_in_history's strcmp and       *)
(* show_history rely on (lineedit.c:1463, 1664).                           *)
EditTypeOK ==
    /\ shells \in Seq(line_input_t) /\ Len(shells) \in 1..MaxDepth
    /\ at \in {"prompt", "edit", "run"} /\ page \in Mode
    /\ line \in Line /\ cursor \in 0..Len(line)
    /\ hist_file \in Seq(Line) /\ recent \in Seq(Line) /\ logged \in 0..MaxLogged
    /\ \A k \in 1..Len(shells) : \A i \in 0..(shells[k].cnt_history - 1) : shells[k].history[i] # <<>>

(* Instances never lose each other's lines: whatever shells were nested in *)
(* between and whoever trimmed the file, it ends with the last MAX_HISTORY *)
(* lines remembered by any of them ("We try to ensure that concurrent      *)
(* additions to the history do not overwrite each other", lineedit.c:1481).*)
(* A line that counts as a repetition of the entry before it is not        *)
(* remembered, and not counted.                                            *)
LinesKept == recent = LastLines(hist_file, MAX_HISTORY)

(* The lazy trim bounds the file although an instance does not count what  *)
(* the shells nested in it append: a nested level hides at most one line   *)
(* less than an instance writes before it trims (lineedit.c:1617-1619).    *)
FileBounded == Len(hist_file) <= TrimAt + (MaxDepth - 1) * (TrimAt - 1)

(* The line that runs is the last of the innermost history, so that UP at  *)
(* the next prompt brings it back (lineedit.c:1654).                       *)
LastRunIsRecalled ==
    (at = "run" /\ line # <<>>) => st.cnt_history > 0 /\ st.history[st.cnt_history - 1] = line

(* A command starts in a cooked terminal and a line is edited in a raw     *)
(* one, whatever mode the last program left the page in and whichever      *)
(* shell it ran under (wasi-compat.c:27-31).                               *)
ModesDriven == (at = "run" => page = "cooked") /\ (at = "edit" => page = "raw")
==============================================================================

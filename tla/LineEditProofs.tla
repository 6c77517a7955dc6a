--------------------------- MODULE LineEditProofs ---------------------------
(***************************************************************************)
(* Proofs about LineEdit, for any characters, line length, history size,   *)
(* trim factor and depth of nested shells.                                 *)
(***************************************************************************)
EXTENDS LineEdit, SequenceTheorems, TLAPS

(* No slot below cnt_history is null.                                      *)
NonNull(s) == \A i \in 0..(s.cnt_history - 1) : s.history[i] # <<>>

(* The lines f, none of them empty.                                        *)
Stored(f) == f \in Seq(Line) /\ \A i \in 1..Len(f) : f[i] # <<>>

(* t is the last lines of f, at most n.                                    *)
Ends(t, f, n) ==
    /\ Stored(t) /\ Len(t) = Least(n, Len(f))
    /\ \A i \in 1..Len(t) : t[i] = f[Len(f) - Len(t) + i]

(* What remembering str must leave of s.                                   *)
Recalls(s, str) == s.cnt_history > 0 /\ s.history[s.cnt_history - 1] = str

(* What does not change when s becomes t.                                  *)
SameModes(s, t) == t.lflag = s.lflag /\ t.initial = s.initial

-----------------------------------------------------------------------------
(* LastLines is what its name says.                                        *)
LEMMA LastLinesFacts ==
    ASSUME NEW f, Stored(f), NEW n \in Nat
    PROVE  Ends(LastLines(f, n), f, n)
<1> DEFINE m == Least(n, Len(f))
<1>1. Len(f) \in Nat /\ m \in Nat /\ m <= Len(f)
  BY DEF Stored, Least
<1>2. f \in Seq(Line)
  BY DEF Stored
<1> HIDE DEF m
<1>3. /\ SubSeq(f, Len(f) - m + 1, Len(f)) \in Seq(Line)
      /\ Len(SubSeq(f, Len(f) - m + 1, Len(f))) = m
      /\ \A i \in 1..m : SubSeq(f, Len(f) - m + 1, Len(f))[i] = f[Len(f) - m + i]
  BY <1>1, <1>2
<1>4. \A i \in 1..m : f[Len(f) - m + i] # <<>>
  BY <1>1 DEF Stored
<1> QED
  BY <1>3, <1>4 DEF m, Stored, LastLines, Ends

(* A line that is not empty may be added.                                  *)
LEMMA StoredAppend ==
    ASSUME NEW f, Stored(f), NEW str \in Line, str # <<>>
    PROVE  Stored(Append(f, str))
<1>1. f \in Seq(Line)
  BY DEF Stored
<1>2. /\ Append(f, str) \in Seq(Line) /\ Len(Append(f, str)) = Len(f) + 1
      /\ \A i \in 1..Len(f) : Append(f, str)[i] = f[i]
      /\ Append(f, str)[Len(f) + 1] = str /\ Len(f) \in Nat
  BY <1>1, AppendProperties
<1>3. \A i \in 1..(Len(f) + 1) : i \in 1..Len(f) \/ i = Len(f) + 1
  BY <1>2
<1> QED
  BY <1>2, <1>3 DEF Stored

(* The last lines of a prefix's last lines with one more are those of the  *)
(* prefix with one more.                                                   *)
LEMMA LastLinesAppend ==
    ASSUME NEW f, Stored(f), NEW str \in Line, str # <<>>, NEW n \in Nat \ {0}
    PROVE  LastLines(Append(LastLines(f, n), str), n) = LastLines(Append(f, str), n)
<1> DEFINE g == LastLines(f, n)
           a == LastLines(Append(g, str), n)
           b == LastLines(Append(f, str), n)
<1>1. Stored(Append(f, str)) /\ Ends(g, f, n)
  BY StoredAppend, LastLinesFacts
<1> HIDE DEF g
<1>2. Stored(g) /\ Stored(Append(g, str))
  BY <1>1, StoredAppend DEF Ends
<1>3. Ends(a, Append(g, str), n)
  BY <1>2, LastLinesFacts
<1>4. Ends(b, Append(f, str), n)
  BY <1>1, LastLinesFacts
<1> HIDE DEF a, b
<1>5. Len(f) \in Nat /\ Len(g) \in Nat /\ f \in Seq(Line) /\ g \in Seq(Line)
      /\ Len(Append(f, str)) = Len(f) + 1 /\ Len(Append(g, str)) = Len(g) + 1
      /\ a \in Seq(Line) /\ b \in Seq(Line)
  BY <1>2, <1>3, <1>4 DEF Stored, Ends
<1>6. Len(a) = Len(b)
  BY <1>1, <1>3, <1>4, <1>5 DEF Least, Ends
<1>7. ASSUME NEW i \in 1..Len(a) PROVE a[i] = b[i]
  <2>1. Len(a) \in Nat /\ Len(a) <= Len(g) + 1 /\ Len(a) <= Len(f) + 1
    BY <1>3, <1>5, <1>1 DEF Least, Ends
  <2>2. CASE i = Len(a)
    BY <2>1, <2>2, <1>3, <1>4, <1>5, <1>6 DEF Ends
  <2>3. CASE i < Len(a)
    <3> DEFINE j == Len(g) + 1 - Len(a) + i
               k == Len(f) + 1 - Len(a) + i
    <3>1. j \in 1..Len(g) /\ k \in 1..Len(f) /\ k = Len(f) - Len(g) + j
      BY <2>1, <2>3, <1>5
    <3>a. j = Len(Append(g, str)) - Len(a) + i /\ k = Len(Append(f, str)) - Len(b) + i
      BY <1>5, <1>6, <2>1
    <3> HIDE DEF j, k
    <3>2. a[i] = Append(g, str)[j] /\ b[i] = Append(f, str)[k]
      BY <3>a, <1>3, <1>4, <1>6, Zenon DEF Ends
    <3>3. Append(g, str)[j] = g[j] /\ Append(f, str)[k] = f[k]
      BY <3>1, <1>5, AppendProperties
    <3>4. g[j] = f[k]
      BY <3>1, <1>1 DEF Ends
    <3> QED
      BY <3>2, <3>3, <3>4
  <2> QED
    BY <2>1, <2>2, <2>3
<1> QED
  BY <1>5, <1>6, <1>7, SeqEqual DEF a, b, g

(* Taking the last lines twice changes nothing.                            *)
LEMMA LastLinesTwice ==
    ASSUME NEW f, Stored(f), NEW n \in Nat
    PROVE  LastLines(LastLines(f, n), n) = LastLines(f, n)
<1> DEFINE g == LastLines(f, n)
           a == LastLines(g, n)
<1>1. Ends(g, f, n)
  BY LastLinesFacts
<1> HIDE DEF g
<1>2. Ends(a, g, n)
  BY <1>1, LastLinesFacts DEF Ends
<1> HIDE DEF a
<1>3. Len(f) \in Nat /\ Len(g) \in Nat /\ g \in Seq(Line) /\ a \in Seq(Line)
  BY <1>1, <1>2 DEF Stored, Ends
<1>4. Len(a) = Len(g)
  BY <1>1, <1>2, <1>3 DEF Least, Ends
<1>5. \A i \in 1..Len(a) : a[i] = g[i]
  BY <1>2, <1>3, <1>4 DEF Ends
<1> QED
  BY <1>3, <1>4, <1>5, SeqEqual DEF a, g

-----------------------------------------------------------------------------
(* Taking characters out of a line leaves a line.                          *)
LEMMA WithoutLine ==
    ASSUME line \in Line, NEW i \in Nat, NEW j \in Nat, i <= j, j <= Len(line)
    PROVE  Without(i, j) \in Line /\ Len(Without(i, j)) = Len(line) - (j - i)
<1>1. line \in Seq(Chars) /\ Len(line) <= MaxLen /\ Len(line) \in Nat
  BY DEF Line
<1>2. SubSeq(line, 1, i) \in Seq(Chars) /\ Len(SubSeq(line, 1, i)) = i
  BY <1>1
<1>3. SubSeq(line, j + 1, Len(line)) \in Seq(Chars) /\ Len(SubSeq(line, j + 1, Len(line))) = Len(line) - j
  BY <1>1
<1>4. Without(i, j) \in Seq(Chars) /\ Len(Without(i, j)) = i + (Len(line) - j)
  BY <1>2, <1>3, ConcatProperties DEF Without
<1> QED
  BY <1>1, <1>4, EditAssumption DEF Line

(* The length of a sequence put together of two with an element between.   *)
LEMMA ThreeParts ==
    ASSUME NEW S, NEW x \in Seq(S), NEW c \in S, NEW z \in Seq(S)
    PROVE  x \o <<c>> \o z \in Seq(S) /\ Len(x \o <<c>> \o z) = Len(x) + 1 + Len(z)
OBVIOUS

(* Inserting one leaves a line while there is room.                        *)
LEMMA InsertLine ==
    ASSUME line \in Line, cursor \in 0..Len(line), NEW c \in Chars, Len(line) < MaxLen
    PROVE  Inserted(c) \in Line /\ Len(Inserted(c)) = Len(line) + 1
<1> DEFINE x == SubSeq(line, 1, cursor)
           z == SubSeq(line, cursor + 1, Len(line))
<1>1. line \in Seq(Chars) /\ Len(line) \in Nat /\ cursor \in Nat
  BY DEF Line
<1>2. x \in Seq(Chars) /\ z \in Seq(Chars) /\ Len(x) = cursor /\ Len(z) = Len(line) - cursor
  BY <1>1
<1>3. Inserted(c) = x \o <<c>> \o z
  BY DEF Inserted
<1> HIDE DEF x, z
<1>4. Inserted(c) \in Seq(Chars) /\ Len(Inserted(c)) = Len(x) + 1 + Len(z)
  <2>1. x \o <<c>> \o z \in Seq(Chars) /\ Len(x \o <<c>> \o z) = Len(x) + 1 + Len(z)
    BY <1>2, ThreeParts
  <2> QED
    BY <2>1, <1>3, Zenon
<1> QED
  BY <1>1, <1>2, <1>4, EditAssumption DEF Line

(* Every key that edits the line leaves one, with the cursor in it.        *)
LEMMA EditKeys ==
    ASSUME line \in Line, cursor \in 0..Len(line),
           \/ \E c \in Chars : Insert(c)
           \/ input_backward \/ input_forward \/ Home \/ End \/ WordLeft \/ WordRight
           \/ input_backspace \/ input_delete \/ KillToEnd \/ KillToStart
           \/ KillLastWord \/ KillWordForward \/ KillWordBackward
    PROVE  \E l \in Line : \E c \in 0..Len(l) : Edited(l, c)
<1>0. Len(line) \in Nat /\ cursor \in Nat /\ cursor <= Len(line)
  BY DEF Line
<1>1. ASSUME NEW c \in Chars, Insert(c) PROVE \E l \in Line : \E k \in 0..Len(l) : Edited(l, k)
  BY <1>0, <1>1, InsertLine DEF Insert
<1>2. CASE input_backward \/ input_forward \/ Home \/ End \/ WordLeft \/ WordRight
  BY <1>0, <1>2 DEF input_backward, input_forward, Home, End, WordLeft, WordRight
<1>3. CASE input_backspace
  <2>1. cursor > 0 /\ Edited(Without(cursor - 1, cursor), cursor - 1)
    BY <1>3 DEF input_backspace
  <2> QED
    BY <2>1, <1>0, WithoutLine
<1>4. CASE input_delete
  <2>1. cursor < Len(line) /\ Edited(Without(cursor, cursor + 1), cursor)
    BY <1>4 DEF input_delete
  <2>2. Without(cursor, cursor + 1) \in Line /\ cursor \in 0..Len(Without(cursor, cursor + 1))
    BY <2>1, <1>0, WithoutLine
  <2> QED
    BY <2>1, <2>2, Zenon
<1>5. CASE KillToEnd \/ KillToStart
  <2>1. /\ Without(cursor, Len(line)) \in Line /\ cursor \in 0..Len(Without(cursor, Len(line)))
        /\ Without(0, cursor) \in Line /\ 0 \in 0..Len(Without(0, cursor))
    BY <1>0, WithoutLine
  <2> QED
    BY <1>5, <2>1, Zenon DEF KillToEnd, KillToStart
<1>6. CASE KillLastWord \/ KillWordBackward
  <2>1. PICK i \in 0..cursor : Edited(Without(i, cursor), i)
    BY <1>6 DEF KillLastWord, KillWordBackward
  <2> QED
    BY <2>1, <1>0, WithoutLine
<1>7. CASE KillWordForward
  <2>1. PICK i \in cursor..Len(line) : Edited(Without(cursor, i), cursor)
    BY <1>7 DEF KillWordForward
  <2>2. Without(cursor, i) \in Line /\ cursor \in 0..Len(Without(cursor, i))
    BY <2>1, <1>0, WithoutLine
  <2> QED
    BY <2>1, <2>2, Zenon
<1> QED
  BY <1>1, <1>2, <1>3, <1>4, <1>5, <1>6, <1>7, Zenon

-----------------------------------------------------------------------------
(* The fields of a state.                                                  *)
LEMMA StateFields ==
    ASSUME NEW s \in line_input_t
    PROVE  /\ s.history \in [0..MAX_HISTORY -> Line] /\ s.cnt_history \in 0..MAX_HISTORY
           /\ s.cnt_history_in_file \in Nat /\ s.cur_history \in 0..MAX_HISTORY
           /\ s.lflag \in Mode /\ s.initial \in Mode
BY DEF line_input_t

(* An empty line is one.                                                   *)
LEMMA EmptyLine == <<>> \in Line
BY EditAssumption DEF Line

(* A new state is one, with no line.                                       *)
LEMMA NewState == new_line_input_t \in line_input_t /\ NonNull(new_line_input_t)
<1>1. [i \in 0..MAX_HISTORY |-> <<>>] \in [0..MAX_HISTORY -> Line]
  BY EmptyLine
<1>2. new_line_input_t \in line_input_t
  BY <1>1, EditAssumption DEF new_line_input_t, line_input_t, Mode
<1>3. new_line_input_t.cnt_history = 0
  BY DEF new_line_input_t
<1> QED
  BY <1>2, <1>3 DEF NonNull

(* What load_history leaves in s.                                          *)
Loaded(s, t, f) ==
    /\ t \in line_input_t /\ NonNull(t) /\ SameModes(s, t)
    /\ t.cnt_history = Least(MAX_HISTORY, Len(f)) /\ t.cnt_history_in_file = Len(f)

LEMMA LoadFacts ==
    ASSUME NEW s \in line_input_t, NEW f, Stored(f)
    PROVE  Loaded(s, load_history(s, f), f)
<1> DEFINE kept == LastLines(f, MAX_HISTORY)
           h == [i \in 0..MAX_HISTORY |->
                   IF i < Len(kept) THEN kept[i + 1]
                   ELSE IF i < s.cnt_history THEN <<>> ELSE s.history[i]]
           t == load_history(s, f)
<1>1. Ends(kept, f, MAX_HISTORY)
  BY EditAssumption, LastLinesFacts
<1>2. t = [s EXCEPT !.history = h, !.cnt_history = Len(kept), !.cnt_history_in_file = Len(f)]
  BY DEF load_history
<1> HIDE DEF kept, t
<1>3. /\ Len(kept) \in 0..MAX_HISTORY /\ Len(f) \in Nat /\ Len(kept) = Least(MAX_HISTORY, Len(f))
      /\ \A i \in 0..(Len(kept) - 1) : kept[i + 1] \in Line /\ kept[i + 1] # <<>>
  BY <1>1, EditAssumption DEF Ends, Stored, Least
<1>4. h \in [0..MAX_HISTORY -> Line]
  BY <1>3, EmptyLine, StateFields, EditAssumption
<1>5. \A i \in 0..(Len(kept) - 1) : h[i] # <<>>
  BY <1>3, EditAssumption
<1> HIDE DEF h
<1>6. /\ t.history = h /\ t.cnt_history = Len(kept) /\ t.cnt_history_in_file = Len(f)
      /\ t.lflag = s.lflag /\ t.initial = s.initial
  BY <1>2 DEF line_input_t
<1>7. t \in line_input_t
  BY <1>2, <1>3, <1>4, EditAssumption DEF line_input_t
<1> QED
  BY <1>3, <1>5, <1>6, <1>7 DEF Loaded, NonNull, SameModes, t

(* What WithLine leaves of s.                                              *)
Lined(s, t, str) ==
    /\ t \in line_input_t /\ NonNull(t) /\ Recalls(t, str) /\ SameModes(s, t)
    /\ t.cnt_history_in_file = s.cnt_history_in_file

LEMMA WithLineFacts ==
    ASSUME NEW s \in line_input_t, NonNull(s), NEW str \in Line, str # <<>>
    PROVE  Lined(s, WithLine(s, str), str)
<1> DEFINE full == s.cnt_history >= MAX_HISTORY
           i == IF full THEN MAX_HISTORY - 1 ELSE s.cnt_history
           h == [s.history EXCEPT ![MAX_HISTORY] = <<>>]
           shifted == [k \in 0..MAX_HISTORY |-> IF full /\ k < MAX_HISTORY - 1 THEN h[k + 1] ELSE h[k]]
           g == [shifted EXCEPT ![i] = str]
           t == WithLine(s, str)
<1>1. t = [s EXCEPT !.history = g, !.cnt_history = i + 1, !.cur_history = i + 1]
  BY DEF WithLine
<1>2. MAX_HISTORY \in Nat /\ MAX_HISTORY > 0 /\ s.cnt_history \in 0..MAX_HISTORY
      /\ s.history \in [0..MAX_HISTORY -> Line]
  BY EditAssumption, StateFields
<1>3. i \in 0..(MAX_HISTORY - 1)
  BY <1>2
<1>4. h \in [0..MAX_HISTORY -> Line] /\ \A k \in 0..(MAX_HISTORY - 1) : h[k] = s.history[k]
  BY <1>2, EmptyLine
<1>5. \A k \in 0..(i - 1) : k < s.cnt_history /\ (full => k + 1 < s.cnt_history /\ k < MAX_HISTORY - 1)
  BY <1>2
<1> HIDE DEF h
<1>6. shifted \in [0..MAX_HISTORY -> Line]
  BY <1>2, <1>4
<1>7. \A k \in 0..(i - 1) : shifted[k] # <<>>
  <2> TAKE k \in 0..(i - 1)
  <2>1. k \in 0..MAX_HISTORY /\ k < MAX_HISTORY - 1
    BY <1>2, <1>3
  <2>2. CASE full
    <3>1. shifted[k] = s.history[k + 1]
      BY <2>1, <2>2, <1>2, <1>4
    <3>2. k + 1 \in 0..(s.cnt_history - 1)
      BY <2>1, <2>2, <1>2, <1>5
    <3> QED
      BY <3>1, <3>2 DEF NonNull
  <2>3. CASE ~full
    <3>1. shifted[k] = s.history[k]
      BY <2>1, <2>3, <1>2, <1>4
    <3>2. k \in 0..(s.cnt_history - 1)
      BY <2>1, <1>2, <1>5
    <3> QED
      BY <3>1, <3>2 DEF NonNull
  <2> QED
    BY <2>2, <2>3
<1> HIDE DEF shifted, i
<1>8. g \in [0..MAX_HISTORY -> Line] /\ g[i] = str /\ \A k \in 0..(i - 1) : g[k] = shifted[k]
  BY <1>2, <1>3, <1>6
<1> HIDE DEF g, t
<1>9. /\ t.history = g /\ t.cnt_history = i + 1 /\ t.lflag = s.lflag /\ t.initial = s.initial
      /\ t.cnt_history_in_file = s.cnt_history_in_file
  BY <1>1 DEF line_input_t
<1>10. t \in line_input_t
  <2> DEFINE n == i + 1
  <2>1. n \in 0..MAX_HISTORY
    BY <1>2, <1>3
  <2>2. t = [s EXCEPT !.history = g, !.cnt_history = n, !.cur_history = n]
    BY <1>1
  <2> HIDE DEF n
  <2> QED
    BY <2>1, <2>2, <1>8 DEF line_input_t
<1>11. \A k \in 0..i : g[k] # <<>>
  BY <1>3, <1>7, <1>8
<1>12. t.cnt_history - 1 = i /\ t.cnt_history > 0
  BY <1>3, <1>9
<1>13. NonNull(t)
  BY <1>9, <1>11, <1>12, Zenon DEF NonNull
<1>14. Recalls(t, str)
  BY <1>8, <1>9, <1>12, Zenon DEF Recalls
<1> QED
  BY <1>9, <1>10, <1>13, <1>14, Zenon DEF Lined, SameModes, t

-----------------------------------------------------------------------------
(* What remember_in_history leaves of s, in t: the line was a duplicate,   *)
(* or it was appended, or the file was also trimmed.                       *)
Kept(s, t) ==
    /\ t = s /\ UNCHANGED <<hist_file, recent, logged>>

Appended(s, t, str) ==
    /\ hist_file' = Append(hist_file, str)
    /\ t.cnt_history_in_file = s.cnt_history_in_file + 1 /\ t.cnt_history_in_file <= TrimAt

Replaced(t, str) ==
    /\ hist_file' = LastLines(Append(hist_file, str), MAX_HISTORY)
    /\ t.cnt_history_in_file = Len(hist_file')

Logged(str) == recent' = LastLines(Append(recent, str), MAX_HISTORY) /\ logged' = logged + 1

Remembered(s, t, str) ==
    /\ t \in line_input_t /\ NonNull(t) /\ SameModes(s, t)
    /\ str # <<>> => Recalls(t, str)
    /\ \/ Kept(s, t)
       \/ str # <<>> /\ Logged(str) /\ (Appended(s, t, str) \/ Replaced(t, str))

(* Counting the lines of the file changes nothing else.                    *)
LEMMA Counted ==
    ASSUME NEW s \in line_input_t, NonNull(s), NEW n \in Nat, NEW str, Recalls(s, str)
    PROVE  LET t == [s EXCEPT !.cnt_history_in_file = n]
           IN  /\ t \in line_input_t /\ NonNull(t) /\ SameModes(s, t) /\ Recalls(t, str)
               /\ t.cnt_history_in_file = n
<1> DEFINE t == [s EXCEPT !.cnt_history_in_file = n]
<1>1. t \in line_input_t
  BY DEF line_input_t
<1>2. /\ t.cnt_history_in_file = n /\ t.cnt_history = s.cnt_history /\ t.history = s.history
      /\ t.lflag = s.lflag /\ t.initial = s.initial
  BY DEF line_input_t
<1> HIDE DEF t
<1>3. NonNull(t) /\ Recalls(t, str) /\ SameModes(s, t)
  BY <1>2 DEF NonNull, Recalls, SameModes
<1> QED
  BY <1>1, <1>2, <1>3, Zenon DEF t

LEMMA RememberFacts ==
    ASSUME Stored(hist_file), NEW s \in line_input_t, NonNull(s), NEW str \in Line,
           remember_in_history(s, str)
    PROVE  \E t : SetState(t) /\ Remembered(s, t, str)
<1>1. CASE str = <<>> \/ Duplicate(s, str)
  <2>1. SetState(s) /\ Kept(s, s)
    BY <1>1 DEF remember_in_history, Kept
  <2>2. str # <<>> => Recalls(s, str)
    BY <1>1 DEF Duplicate, Recalls
  <2> QED
    BY <2>1, <2>2 DEF Remembered, SameModes
<1>2. CASE ~(str = <<>> \/ Duplicate(s, str))
  <2> DEFINE w == WithLine(s, str)
             f == Append(hist_file, str)
             n == w.cnt_history_in_file + 1
             trim == n > TrimAt
             m == IF trim THEN Len(Trimmed(w, f)) ELSE n
             t == [w EXCEPT !.cnt_history_in_file = m]
  <2>1. save_history(w, str) /\ Logged(str) /\ str # <<>>
    BY <1>2, Zenon DEF remember_in_history, Logged
  <2>2. Lined(s, w, str)
    BY <1>2, WithLineFacts
  <2>3. SetState(t) /\ hist_file' = IF trim THEN Trimmed(w, f) ELSE f
    BY <2>1, Zenon DEF save_history
  <2>4. Stored(f)
    BY <1>2, StoredAppend
  <2> HIDE DEF w, f
  <2>5. Ends(Trimmed(w, f), f, MAX_HISTORY)
    BY <2>4, LastLinesFacts, EditAssumption DEF Trimmed
  <2>6. n \in Nat /\ Len(Trimmed(w, f)) \in Nat /\ TrimAt \in Nat
    BY <2>2, <2>5, StateFields, EditAssumption DEF Lined, Ends, Stored, TrimAt
  <2>7. m \in Nat
    BY <2>6
  <2>8. trim \/ n <= TrimAt
    BY <2>6
  <2> HIDE DEF n, m
  <2>9. t \in line_input_t /\ NonNull(t) /\ SameModes(w, t) /\ Recalls(t, str) /\ t.cnt_history_in_file = m
    BY <2>2, <2>7, Counted DEF Lined
  <2>10. SameModes(s, t)
    BY <2>2, <2>9 DEF Lined, SameModes
  <2>11. CASE trim
    <3>1. Replaced(t, str)
      BY <2>3, <2>9, <2>11 DEF Replaced, m, f, Trimmed
    <3> QED
      BY <2>1, <2>3, <2>9, <2>10, <3>1, Zenon DEF Remembered
  <2>12. CASE ~trim
    <3>1. Appended(s, t, str)
      BY <2>2, <2>3, <2>8, <2>9, <2>12 DEF Appended, m, n, f, Lined
    <3> QED
      BY <2>1, <2>3, <2>9, <2>10, <3>1, Zenon DEF Remembered
  <2> QED
    BY <2>11, <2>12
<1> QED
  BY <1>1, <1>2

(* What an assignment of the innermost state does to the stack.            *)
LEMMA SetStateFacts ==
    ASSUME shells \in Seq(line_input_t), Len(shells) > 0, NEW s \in line_input_t, SetState(s)
    PROVE  /\ shells' \in Seq(line_input_t) /\ Len(shells') = Len(shells) /\ shells'[Len(shells)] = s
           /\ \A k \in 1..(Len(shells) - 1) : shells'[k] = shells[k]
BY ExceptSeq DEF SetState

(* What leaving a line for another slot does to s.                         *)
Moved(s, t) ==
    /\ t \in line_input_t /\ NonNull(t) /\ SameModes(s, t)
    /\ t.cnt_history = s.cnt_history /\ t.cnt_history_in_file = s.cnt_history_in_file

LEMMA BrowseFacts ==
    ASSUME line \in Line, NEW s \in line_input_t, NonNull(s), NEW to \in 0..MAX_HISTORY
    PROVE  Moved(s, [save_command_ps_at_cur_history(s) EXCEPT !.cur_history = to])
<1> DEFINE r == save_command_ps_at_cur_history(s)
           t == [r EXCEPT !.cur_history = to]
<1>1. /\ r \in line_input_t /\ NonNull(r) /\ SameModes(s, r)
      /\ r.cnt_history = s.cnt_history /\ r.cnt_history_in_file = s.cnt_history_in_file
  <2>1. CASE line = <<>>
    BY <2>1, Zenon DEF save_command_ps_at_cur_history, SameModes
  <2>2. CASE line # <<>>
    <3> DEFINE h == [s.history EXCEPT ![s.cur_history] = line]
    <3>1. h \in [0..MAX_HISTORY -> Line] /\ \A i \in 0..MAX_HISTORY : h[i] = line \/ h[i] = s.history[i]
      BY StateFields
    <3>2. r = [s EXCEPT !.history = h]
      BY <2>2 DEF save_command_ps_at_cur_history
    <3> HIDE DEF h, r
    <3>3. /\ r \in line_input_t /\ r.history = h /\ r.lflag = s.lflag /\ r.initial = s.initial
          /\ r.cnt_history = s.cnt_history /\ r.cnt_history_in_file = s.cnt_history_in_file
      BY <3>1, <3>2 DEF line_input_t
    <3>4. \A i \in 0..(s.cnt_history - 1) : i \in 0..MAX_HISTORY
      BY StateFields, EditAssumption
    <3>5. NonNull(r)
      BY <2>2, <3>1, <3>3, <3>4, Zenon DEF NonNull
    <3> QED
      BY <3>3, <3>5, Zenon DEF SameModes
  <2> QED
    BY <2>1, <2>2
<1> HIDE DEF r
<1>2. /\ t \in line_input_t /\ t.history = r.history /\ t.lflag = r.lflag /\ t.initial = r.initial
      /\ t.cnt_history = r.cnt_history /\ t.cnt_history_in_file = r.cnt_history_in_file
  BY <1>1 DEF line_input_t
<1> HIDE DEF t
<1>3. NonNull(t)
  BY <1>1, <1>2, Zenon DEF NonNull
<1> QED
  BY <1>1, <1>2, <1>3, Zenon DEF Moved, SameModes, r, t

(* What the start of a line does to s: the mode is asked and set, the      *)
(* history loaded if there is none.                                        *)
Started(s, t) ==
    /\ t \in line_input_t /\ NonNull(t) /\ t.lflag = "raw" /\ t.initial = s.lflag
    /\ s.cnt_history > 0 => t.cnt_history = s.cnt_history /\ t.cnt_history_in_file = s.cnt_history_in_file
    /\ s.cnt_history = 0 => /\ t.cnt_history = Least(MAX_HISTORY, Len(hist_file))
                            /\ t.cnt_history_in_file = Len(hist_file)

LEMMA StartFacts ==
    ASSUME Stored(hist_file), st \in line_input_t, NonNull(st), StartLine
    PROVE  \E t : SetState(t) /\ Started(st, t)
<1> DEFINE asked == [st EXCEPT !.initial = tcgetattr(st)]
           loaded == IF st.cnt_history = 0 THEN load_history(asked, hist_file) ELSE asked
           moved == [loaded EXCEPT !.cur_history = loaded.cnt_history]
           t == tcsetattr(moved, "raw")
<1>1. SetState(t)
  BY DEF StartLine
<1>2. /\ asked \in line_input_t /\ asked.history = st.history /\ asked.cnt_history = st.cnt_history
      /\ asked.cnt_history_in_file = st.cnt_history_in_file /\ asked.initial = st.lflag
  BY StateFields DEF line_input_t, tcgetattr
<1>3. NonNull(asked)
  BY <1>2, Zenon DEF NonNull
<1> HIDE DEF asked
<1>4. st.cnt_history = 0 => Loaded(asked, loaded, hist_file)
  BY <1>2, LoadFacts
<1>5. st.cnt_history # 0 => loaded = asked
  OBVIOUS
<1> HIDE DEF loaded
<1>6. loaded \in line_input_t /\ NonNull(loaded) /\ loaded.initial = st.lflag
  BY <1>2, <1>3, <1>4, <1>5, Zenon DEF Loaded, SameModes
<1>7. /\ t \in line_input_t /\ t.history = loaded.history /\ t.cnt_history = loaded.cnt_history
      /\ t.cnt_history_in_file = loaded.cnt_history_in_file /\ t.initial = loaded.initial /\ t.lflag = "raw"
  BY <1>6, StateFields DEF line_input_t, tcsetattr, Mode
<1> HIDE DEF t
<1>8. NonNull(t)
  BY <1>6, <1>7, Zenon DEF NonNull
<1>9. st.cnt_history > 0 => st.cnt_history # 0
  BY StateFields
<1>10. Started(st, t)
  BY <1>2, <1>4, <1>5, <1>6, <1>7, <1>8, <1>9, Zenon DEF Started, Loaded
<1> QED
  BY <1>1, <1>10 DEF t

-----------------------------------------------------------------------------
(* The inductive invariants: types; the modes of all instances; and what   *)
(* an instance that counts knows about the length of the file.  An outer   *)
(* instance has a history, since the line that started the next one is in  *)
(* it; one that has none loads the file before it counts.                  *)
EditInv ==
    /\ EditTypeOK /\ Stored(hist_file) /\ Stored(recent)
    /\ at # "edit" => cursor = 0

ModeInv ==
    /\ ModesDriven
    /\ \A k \in 1..Len(shells) : k < Len(shells) \/ at # "edit" => shells[k].lflag = "cooked"
    /\ at = "edit" => st.initial = "cooked"

Hidden(k) == (MaxDepth - k) * (TrimAt - 1)

Counts(k) ==
    shells[k].cnt_history > 0 => /\ shells[k].cnt_history_in_file > 0
                                 /\ Len(hist_file) <= shells[k].cnt_history_in_file + Hidden(k)

FileInv ==
    /\ FileBounded
    /\ \A k \in 1..Len(shells) : Counts(k)
    /\ \A k \in 1..(Len(shells) - 1) : shells[k].cnt_history > 0
    /\ at = "edit" /\ st.cnt_history = 0 => st.cnt_history_in_file = 0 /\ Len(hist_file) = 0

(* The steps that assign the innermost state, by what they do to it.       *)
Starts(t) ==
    /\ at = "prompt" /\ at' = "edit" /\ page' = "raw"
    /\ SetState(t) /\ Started(st, t)
    /\ UNCHANGED <<line, cursor, hist_file, recent, logged>>

Browses(t) ==
    /\ at = "edit" /\ line' \in Line /\ cursor' = Len(line')
    /\ SetState(t) /\ Moved(st, t)
    /\ UNCHANGED <<at, hist_file, page, recent, logged>>

Finishes(s, t, str) ==
    /\ at = "edit" /\ at' = "run" /\ line' = str /\ cursor' = 0 /\ page' = st.initial
    /\ str # <<>> => logged < MaxLogged
    /\ s.lflag = st.initial /\ s.cnt_history = st.cnt_history
    /\ s.cnt_history_in_file = st.cnt_history_in_file
    /\ SetState(t) /\ Remembered(s, t, str)

(* The stack under EditInv.                                                *)
LEMMA Stack ==
    ASSUME EditInv
    PROVE  /\ shells \in Seq(line_input_t) /\ Len(shells) \in Nat /\ Len(shells) > 0 /\ Len(shells) <= MaxDepth
           /\ st = shells[Len(shells)] /\ st \in line_input_t /\ NonNull(st)
           /\ \A k \in 1..Len(shells) : shells[k] \in line_input_t /\ NonNull(shells[k])
<1>1. shells \in Seq(line_input_t) /\ Len(shells) \in 1..MaxDepth
      /\ \A k \in 1..Len(shells) : NonNull(shells[k])
  BY DEF EditInv, EditTypeOK, NonNull
<1>2. Len(shells) \in 1..Len(shells) /\ \A k \in 1..Len(shells) : shells[k] \in line_input_t
  BY <1>1, EditAssumption
<1> QED
  BY <1>1, <1>2, EditAssumption DEF st

(* Every step is one of these.                                             *)
LEMMA StepCases ==
    ASSUME EditInv, EditNext
    PROVE  \/ \E t : Starts(t)
           \/ \E l \in Line : \E c \in 0..Len(l) : Edited(l, c)
           \/ \E t : Browses(t)
           \/ \E str \in Line : \E s, t : Finishes(s, t, str)
           \/ RunLine \/ NestedShell \/ ExitShell \/ \E mode \in Mode : RunProgram(mode)
<1>1. CASE StartLine
  BY <1>1, Stack, StartFacts DEF EditInv, Starts, StartLine
<1>2. CASE get_previous_history \/ get_next_history
  <2>1. PICK to \in 0..MAX_HISTORY : Browse(to)
    <3>1. st.cur_history \in 0..MAX_HISTORY /\ st.cnt_history \in 0..MAX_HISTORY
      BY Stack, StateFields
    <3> QED
      BY <1>2, <3>1, EditAssumption DEF get_previous_history, get_next_history
  <2> DEFINE t == [save_command_ps_at_cur_history(st) EXCEPT !.cur_history = to]
  <2>2. Moved(st, t)
    BY Stack, BrowseFacts DEF EditInv, EditTypeOK
  <2>3. /\ at = "edit" /\ SetState(t) /\ line' = t.history[to] /\ cursor' = Len(t.history[to])
        /\ UNCHANGED <<at, hist_file, page, recent, logged>>
    BY <2>1, Zenon DEF Browse
  <2>4. t.history[to] \in Line
    BY <2>2, StateFields DEF Moved
  <2> QED
    BY <2>2, <2>3, <2>4, Zenon DEF Browses
<1>3. CASE Enter \/ CtrlC
  <2>1. PICK str \in Line : EndLine(str)
    BY <1>3, EmptyLine DEF Enter, CtrlC, EditInv, EditTypeOK
  <2> DEFINE s == tcsetattr(st, st.initial)
  <2>2. /\ s \in line_input_t /\ s.history = st.history /\ s.lflag = st.initial
        /\ s.cnt_history = st.cnt_history /\ s.cnt_history_in_file = st.cnt_history_in_file
    BY Stack, StateFields DEF tcsetattr, line_input_t
  <2>3. remember_in_history(s, str)
    BY <2>1, Zenon DEF EndLine
  <2> HIDE DEF s
  <2>4. NonNull(s)
    BY <2>2, Stack, Zenon DEF NonNull
  <2>5. PICK t : SetState(t) /\ Remembered(s, t, str)
    BY <2>2, <2>3, <2>4, RememberFacts DEF EditInv
  <2>6. Finishes(s, t, str)
    BY <2>1, <2>2, <2>5, Zenon DEF Finishes, EndLine
  <2> QED
    BY <2>6
<1>4. CASE Edit /\ ~(get_previous_history \/ get_next_history)
  <2>1. line \in Line /\ cursor \in 0..Len(line)
    BY DEF EditInv, EditTypeOK
  <2> QED
    BY <1>4, <2>1, EditKeys, Zenon DEF Edit
<1> QED
  BY <1>1, <1>2, <1>3, <1>4, Zenon DEF EditNext

(* A stack in order is one of states none of which has a null slot.        *)
InOrder(sh) ==
    /\ sh \in Seq(line_input_t) /\ Len(sh) \in 1..MaxDepth
    /\ \A k \in 1..Len(sh) : NonNull(sh[k])

LEMMA StackAssigned ==
    ASSUME EditInv, NEW t \in line_input_t, NonNull(t), SetState(t)
    PROVE  InOrder(shells') /\ Len(shells') = Len(shells)
<1>1. /\ shells' \in Seq(line_input_t) /\ Len(shells') = Len(shells) /\ shells'[Len(shells)] = t
      /\ \A k \in 1..(Len(shells) - 1) : shells'[k] = shells[k]
  BY Stack, SetStateFacts
<1>2. \A k \in 1..Len(shells) : k = Len(shells) \/ k \in 1..(Len(shells) - 1)
  BY Stack
<1>3. \A k \in 1..Len(shells') : NonNull(shells'[k])
  BY <1>1, <1>2, Stack, Zenon
<1> QED
  BY <1>1, <1>3, Stack, EditAssumption DEF InOrder

LEMMA StackPushed ==
    ASSUME EditInv, NestedShell
    PROVE  /\ InOrder(shells') /\ Len(shells') = Len(shells) + 1
           /\ shells'[Len(shells) + 1] = new_line_input_t
           /\ \A k \in 1..Len(shells) : shells'[k] = shells[k]
<1>1. shells' = Append(shells, new_line_input_t) /\ Len(shells) < MaxDepth
  BY DEF NestedShell
<1>2. /\ shells' \in Seq(line_input_t) /\ Len(shells') = Len(shells) + 1
      /\ shells'[Len(shells) + 1] = new_line_input_t
      /\ \A k \in 1..Len(shells) : shells'[k] = shells[k]
  BY <1>1, Stack, NewState, AppendProperties
<1>3. \A k \in 1..(Len(shells) + 1) : k = Len(shells) + 1 \/ k \in 1..Len(shells)
  BY Stack
<1>4. \A k \in 1..Len(shells') : NonNull(shells'[k])
  BY <1>2, <1>3, Stack, NewState, Zenon
<1> QED
  BY <1>1, <1>2, <1>4, Stack, EditAssumption DEF InOrder

LEMMA StackPopped ==
    ASSUME EditInv, ExitShell
    PROVE  /\ InOrder(shells') /\ Len(shells') = Len(shells) - 1 /\ Len(shells) > 1
           /\ \A k \in 1..(Len(shells) - 1) : shells'[k] = shells[k]
<1>1. shells' = SubSeq(shells, 1, Len(shells) - 1) /\ Len(shells) > 1
  BY DEF ExitShell
<1>2. /\ shells' \in Seq(line_input_t) /\ Len(shells') = Len(shells) - 1
      /\ \A k \in 1..(Len(shells) - 1) : shells'[k] = shells[k]
  BY <1>1, Stack
<1>3. \A k \in 1..Len(shells') : NonNull(shells'[k])
  BY <1>2, Stack
<1> QED
  BY <1>1, <1>2, <1>3, Stack, EditAssumption DEF InOrder

(* The rest of EditInv.                                                    *)
LEMMA EditInvFrom ==
    ASSUME InOrder(shells'), at' \in {"prompt", "edit", "run"}, page' \in Mode,
           line' \in Line, cursor' \in 0..Len(line'), at' # "edit" => cursor' = 0,
           Stored(hist_file'), Stored(recent'), logged' \in 0..MaxLogged
    PROVE  EditInv'
BY DEF InOrder, EditInv, EditTypeOK, Stored, NonNull

(* Types are preserved.                                                    *)
LEMMA EditInvStep ==
    ASSUME EditInv, [EditNext]_editVars
    PROVE  EditInv'
<1>1. /\ InOrder(shells) /\ at \in {"prompt", "edit", "run"} /\ page \in Mode
      /\ line \in Line /\ cursor \in 0..Len(line) /\ (at # "edit" => cursor = 0)
      /\ Stored(hist_file) /\ Stored(recent) /\ logged \in 0..MaxLogged
  BY DEF InOrder, EditInv, EditTypeOK, NonNull
<1>2. ASSUME NEW t, Starts(t) PROVE EditInv'
  <2>1. InOrder(shells')
    BY <1>2, StackAssigned DEF Starts, Started
  <2> QED
    BY <1>1, <1>2, <2>1, EditInvFrom DEF Starts, Mode
<1>3. ASSUME NEW l \in Line, NEW c \in 0..Len(l), Edited(l, c) PROVE EditInv'
  BY <1>1, <1>3, EditInvFrom DEF Edited
<1>4. ASSUME NEW t, Browses(t) PROVE EditInv'
  <2>1. InOrder(shells')
    BY <1>4, StackAssigned DEF Browses, Moved
  <2>2. Len(line') \in 0..Len(line')
    BY <1>4 DEF Browses, Line
  <2> QED
    BY <1>1, <1>4, <2>1, <2>2, EditInvFrom DEF Browses
<1>5. ASSUME NEW str \in Line, NEW s, NEW t, Finishes(s, t, str) PROVE EditInv'
  <2>1. InOrder(shells')
    BY <1>5, StackAssigned DEF Finishes, Remembered
  <2>2. Stored(hist_file') /\ Stored(recent') /\ logged' \in 0..MaxLogged
    <3>1. CASE Kept(s, t)
      BY <1>1, <3>1 DEF Kept
    <3>2. CASE str # <<>> /\ Logged(str) /\ (Appended(s, t, str) \/ Replaced(t, str))
      <4>1. Stored(Append(hist_file, str)) /\ Stored(Append(recent, str))
        BY <1>1, <3>2, StoredAppend
      <4>2. Stored(LastLines(Append(hist_file, str), MAX_HISTORY)) /\ Stored(LastLines(Append(recent, str), MAX_HISTORY))
        BY <4>1, LastLinesFacts, EditAssumption DEF Ends
      <4>3. logged' \in 0..MaxLogged
        BY <1>1, <1>5, <3>2, EditAssumption DEF Finishes, Logged
      <4> QED
        BY <3>2, <4>1, <4>2, <4>3, Zenon DEF Logged, Appended, Replaced
    <3> QED
      BY <1>5, <3>1, <3>2, Zenon DEF Finishes, Remembered
  <2>3. 0 \in 0..Len(str)
    BY DEF Line
  <2>4. page' \in Mode
    BY <1>5, Stack, StateFields DEF Finishes
  <2> QED
    BY <1>1, <1>5, <2>1, <2>2, <2>3, <2>4, EditInvFrom DEF Finishes
<1>6. ASSUME Done, InOrder(shells'), page' \in Mode PROVE EditInv'
  <2>1. cursor' = 0 /\ line' = <<>> /\ 0 \in 0..Len(<<>>)
    BY <1>1, <1>6 DEF Done
  <2> QED
    BY <1>1, <1>6, <2>1, EmptyLine, EditInvFrom DEF Done
<1>7. CASE RunLine \/ \E mode \in Mode : RunProgram(mode)
  BY <1>1, <1>6, <1>7 DEF RunLine, RunProgram
<1>8. CASE NestedShell
  BY <1>1, <1>6, <1>8, StackPushed DEF NestedShell
<1>9. CASE ExitShell
  BY <1>1, <1>6, <1>9, StackPopped DEF ExitShell
<1>10. CASE UNCHANGED editVars
  BY <1>1, <1>10, EditInvFrom DEF editVars
<1> QED
  BY <1>2, <1>3, <1>4, <1>5, <1>7, <1>8, <1>9, <1>10, StepCases, Zenon

(* The initial state is in order.                                          *)
LEMMA EditInvInit == EditInit => EditInv
<1> SUFFICES ASSUME EditInit PROVE EditInv
  OBVIOUS
<1>1. shells = <<new_line_input_t>> /\ Len(shells) = 1 /\ shells[1] = new_line_input_t
  BY DEF EditInit
<1>2. shells \in Seq(line_input_t)
  BY <1>1, NewState
<1>3. \A k \in 1..Len(shells) : NonNull(shells[k])
  BY <1>1, NewState
<1>4. Stored(<<>>)
  BY DEF Stored
<1>5. Len(<<>>) = 0 /\ 0 \in 0..MaxLogged /\ 1 \in 1..MaxDepth
  BY EditAssumption
<1> QED
  BY <1>1, <1>2, <1>3, <1>4, <1>5, EmptyLine DEF EditInit, EditInv, EditTypeOK, NonNull, Stored, Mode

(* The file keeps the lines.                                               *)
LEMMA LinesStep ==
    ASSUME EditInv, LinesKept, [EditNext]_editVars
    PROVE  LinesKept'
<1>1. CASE UNCHANGED <<hist_file, recent>>
  BY <1>1 DEF LinesKept
<1>2. ASSUME NEW str \in Line, NEW s, NEW t, Finishes(s, t, str) PROVE LinesKept'
  <2>1. CASE Kept(s, t)
    BY <1>1, <2>1 DEF Kept
  <2>2. CASE str # <<>> /\ Logged(str) /\ (Appended(s, t, str) \/ Replaced(t, str))
    <3> DEFINE f == Append(hist_file, str)
    <3>1. recent' = LastLines(f, MAX_HISTORY)
      BY <2>2, LastLinesAppend, EditAssumption DEF EditInv, Logged, LinesKept
    <3>2. Stored(f)
      BY <2>2, StoredAppend DEF EditInv
    <3> HIDE DEF f
    <3>3. LastLines(LastLines(f, MAX_HISTORY), MAX_HISTORY) = LastLines(f, MAX_HISTORY)
      BY <3>2, LastLinesTwice, EditAssumption
    <3>4. hist_file' = f \/ hist_file' = LastLines(f, MAX_HISTORY)
      BY <2>2 DEF Appended, Replaced, f
    <3> QED
      BY <3>1, <3>3, <3>4 DEF LinesKept
  <2> QED
    BY <1>2, <2>1, <2>2, Zenon DEF Finishes, Remembered
<1>3. (\E t : Starts(t)) \/ (\E l \in Line : \E c \in 0..Len(l) : Edited(l, c)) \/ (\E t : Browses(t))
        \/ Done \/ UNCHANGED editVars => UNCHANGED <<hist_file, recent>>
  BY Zenon DEF Starts, Edited, Browses, Done, editVars
<1> QED
  BY <1>1, <1>2, <1>3, StepCases, Zenon DEF RunLine, RunProgram, NestedShell, ExitShell

(* The line that runs is the last of the history.                          *)
LEMMA LastStep ==
    ASSUME EditInv, LastRunIsRecalled, [EditNext]_editVars
    PROVE  LastRunIsRecalled'
<1>1. ASSUME NEW str \in Line, NEW s, NEW t, Finishes(s, t, str) PROVE LastRunIsRecalled'
  <2>1. st' = t
    BY <1>1, Stack, SetStateFacts DEF Finishes, Remembered, st
  <2>2. line' = str /\ (str # <<>> => Recalls(t, str))
    BY <1>1 DEF Finishes, Remembered
  <2> QED
    BY <2>1, <2>2 DEF LastRunIsRecalled, Recalls
<1>2. (\E t : Starts(t)) \/ (\E l \in Line : \E c \in 0..Len(l) : Edited(l, c)) \/ (\E t : Browses(t)) \/ Done
        => at' # "run"
  BY DEF Starts, Edited, Browses, Done
<1>3. CASE at' # "run"
  BY <1>3 DEF LastRunIsRecalled
<1>4. CASE UNCHANGED editVars
  BY <1>4 DEF LastRunIsRecalled, editVars, st
<1> QED
  BY <1>1, <1>2, <1>3, <1>4, StepCases, Zenon DEF RunLine, RunProgram, NestedShell, ExitShell

(* The modes.                                                              *)
LEMMA ModeStep ==
    ASSUME EditInv, ModeInv, [EditNext]_editVars
    PROVE  ModeInv'
<1>1. \A k \in 1..Len(shells) : k = Len(shells) \/ (k \in 1..(Len(shells) - 1) /\ k < Len(shells))
  BY Stack
<1>2. \A k \in 1..(Len(shells) - 1) : k \in 1..Len(shells) /\ k < Len(shells)
  BY Stack
<1>3. ASSUME NEW t \in line_input_t, SetState(t) PROVE
         /\ Len(shells') = Len(shells) /\ st' = t /\ shells'[Len(shells)] = t
         /\ \A k \in 1..(Len(shells) - 1) : shells'[k].lflag = "cooked"
  <2>1. /\ Len(shells') = Len(shells) /\ shells'[Len(shells)] = t
        /\ \A k \in 1..(Len(shells) - 1) : shells'[k] = shells[k]
    BY <1>3, Stack, SetStateFacts
  <2>2. \A k \in 1..(Len(shells) - 1) : shells[k].lflag = "cooked"
    BY <1>2, Zenon DEF ModeInv
  <2> QED
    BY <2>1, <2>2 DEF st
<1>4. ASSUME NEW t, Starts(t) PROVE ModeInv'
  <2>1. st.lflag = "cooked"
    BY <1>4, Stack DEF ModeInv, Starts
  <2>2. t \in line_input_t /\ SetState(t) /\ t.initial = "cooked" /\ at' = "edit" /\ page' = "raw"
    BY <1>4, <2>1, Zenon DEF Starts, Started
  <2> QED
    BY <1>1, <1>3, <2>2 DEF ModeInv, ModesDriven
<1>5. ASSUME NEW l \in Line, NEW c \in 0..Len(l), Edited(l, c) PROVE ModeInv'
  BY <1>5, Zenon DEF Edited, ModeInv, ModesDriven, st
<1>6. ASSUME NEW t, Browses(t) PROVE ModeInv'
  <2>1. t \in line_input_t /\ SetState(t) /\ at = "edit" /\ at' = "edit" /\ page' = page /\ t.initial = st.initial
    BY <1>6, Zenon DEF Browses, Moved, SameModes
  <2> QED
    BY <1>1, <1>3, <2>1 DEF ModeInv, ModesDriven
<1>7. ASSUME NEW str \in Line, NEW s, NEW t, Finishes(s, t, str) PROVE ModeInv'
  <2>1. /\ t \in line_input_t /\ SetState(t) /\ at = "edit" /\ at' = "run"
        /\ page' = st.initial /\ t.lflag = st.initial
    BY <1>7, Zenon DEF Finishes, Remembered, SameModes
  <2>2. st.initial = "cooked"
    BY <2>1 DEF ModeInv
  <2> QED
    BY <1>1, <1>3, <2>1, <2>2 DEF ModeInv, ModesDriven
<1>8. CASE RunLine \/ \E mode \in Mode : RunProgram(mode)
  BY <1>8 DEF RunLine, RunProgram, Done, ModeInv, ModesDriven
<1>9. CASE NestedShell
  <2>1. at = "run" /\ at' = "prompt"
    BY <1>9 DEF NestedShell, Done
  <2>2. \A k \in 1..Len(shells') : k = Len(shells) + 1 \/ k \in 1..Len(shells)
    BY <1>9, Stack, StackPushed
  <2>3. new_line_input_t.lflag = "cooked"
    BY DEF new_line_input_t
  <2> QED
    BY <1>9, <2>1, <2>2, <2>3, StackPushed DEF ModeInv, ModesDriven
<1>10. CASE ExitShell
  <2>1. at = "run" /\ at' = "prompt"
    BY <1>10 DEF ExitShell, Done
  <2> QED
    BY <1>2, <1>10, <2>1, StackPopped DEF ModeInv, ModesDriven
<1>11. CASE UNCHANGED editVars
  BY <1>11 DEF editVars, ModeInv, ModesDriven, st
<1> QED
  BY <1>4, <1>5, <1>6, <1>7, <1>8, <1>9, <1>10, <1>11, StepCases, Zenon

-----------------------------------------------------------------------------
(* A level further out may hide TrimAt - 1 lines more.                     *)
LEMMA HiddenGrows ==
    /\ TrimAt \in Nat /\ TrimAt >= MAX_HISTORY /\ TrimAt > 0
    /\ \A l \in 1..MaxDepth : Hidden(l) \in Nat
    /\ \A l \in 1..MaxDepth : \A k \in 1..(l - 1) : Hidden(k) >= Hidden(l) + (TrimAt - 1)
<1>1. MAX_HISTORY \in Nat /\ TrimFactor \in Nat /\ MAX_HISTORY > 0 /\ TrimFactor > 0 /\ MaxDepth \in Nat
  BY EditAssumption
<1>2. \A m, n \in Nat : m * n \in Nat /\ (m > 0 => m * n >= n)
  OBVIOUS
<1>3. TrimAt \in Nat /\ TrimAt >= MAX_HISTORY /\ TrimAt > 0
  BY <1>1, <1>2 DEF TrimAt
<1> DEFINE e == TrimAt - 1
<1>4. e \in Nat
  BY <1>3
<1> HIDE DEF e
<1>5. \A l \in 1..MaxDepth : (MaxDepth - l) * e \in Nat
  BY <1>1, <1>2, <1>4
<1>6. ASSUME NEW l \in 1..MaxDepth, NEW k \in 1..(l - 1)
      PROVE  (MaxDepth - k) * e >= (MaxDepth - l) * e + e
  <2> DEFINE a == MaxDepth - l
             b == l - k
  <2>1. a \in Nat /\ b \in Nat /\ b > 0 /\ MaxDepth - k = a + b
    BY <1>1
  <2> HIDE DEF a, b
  <2>2. (a + b) * e = a * e + b * e
    BY <2>1, <1>4
  <2>3. b * e >= e /\ a * e \in Nat /\ b * e \in Nat
    BY <2>1, <1>2, <1>4
  <2>4. (a + b) * e >= a * e + e
    BY <2>2, <2>3, <1>4
  <2> QED
    BY <2>1, <2>4 DEF a
<1> QED
  BY <1>3, <1>5, <1>6 DEF Hidden, e

(* The bound as arithmetic: an instance at level l appends to a file of H  *)
(* lines of which it counts n.                                             *)
LEMMA Room ==
    ASSUME NEW l \in 1..MaxDepth, NEW H \in Nat, NEW n \in Nat, n <= TrimAt, H <= n + Hidden(l)
    PROVE  /\ H <= TrimAt + Hidden(1)
           /\ \A k \in 1..(l - 1) : \A m \in Nat : m > 0 => H <= m + Hidden(k)
<1>1. TrimAt \in Nat /\ TrimAt > 0 /\ Hidden(l) \in Nat /\ MaxDepth \in Nat
      /\ Hidden(1) \in Nat /\ \A k \in 1..(l - 1) : Hidden(k) \in Nat /\ Hidden(k) >= Hidden(l) + (TrimAt - 1)
  BY HiddenGrows, EditAssumption
<1>2. Hidden(1) >= Hidden(l)
  <2>1. CASE l = 1
    BY <1>1, <2>1
  <2>2. CASE l > 1
    BY <1>1, <2>2
  <2> QED
    BY <2>1, <2>2
<1> QED
  BY <1>1, <1>2

(* What an instance counts.                                                *)
LEMMA FileStep ==
    ASSUME EditInv, LastRunIsRecalled, FileInv, [EditNext]_editVars
    PROVE  FileInv'
<1> DEFINE L == Len(shells)
           H == Len(hist_file)
<1>0. /\ H \in Nat /\ L \in Nat /\ L > 0 /\ L \in 1..MaxDepth /\ L \in 1..L
      /\ \A k \in 1..(L - 1) : k \in 1..L
      /\ \A k \in 1..L : k = L \/ k \in 1..(L - 1)
  BY Stack, EditAssumption DEF EditInv, Stored
<1>1. ASSUME NEW t \in line_input_t, SetState(t)
      PROVE  /\ Len(shells') = L /\ st' = t /\ shells'[L] = t
             /\ \A k \in 1..(L - 1) : shells'[k] = shells[k]
  BY <1>1, Stack, SetStateFacts DEF st
<1>2. \A k \in 1..(L - 1) : /\ shells[k].cnt_history > 0 /\ shells[k].cnt_history_in_file > 0
                             /\ H <= shells[k].cnt_history_in_file + Hidden(k)
                             /\ shells[k].cnt_history_in_file \in Nat
  BY <1>0, Stack, StateFields DEF FileInv, Counts
<1>3. ASSUME UNCHANGED hist_file, NEW t \in line_input_t, SetState(t),
             t.cnt_history > 0 => t.cnt_history_in_file > 0 /\ H <= t.cnt_history_in_file + Hidden(L),
             at' = "edit" /\ t.cnt_history = 0 => t.cnt_history_in_file = 0 /\ H = 0
      PROVE  FileInv'
  BY <1>0, <1>1, <1>2, <1>3 DEF FileInv, FileBounded, Counts, Hidden
<1>4. ASSUME NEW t, Starts(t) PROVE FileInv'
  <2>1. /\ t \in line_input_t /\ SetState(t) /\ UNCHANGED hist_file
        /\ st.cnt_history > 0 => t.cnt_history = st.cnt_history /\ t.cnt_history_in_file = st.cnt_history_in_file
        /\ st.cnt_history = 0 => t.cnt_history = Least(MAX_HISTORY, H) /\ t.cnt_history_in_file = H
    BY <1>4, Zenon DEF Starts, Started
  <2>2. Counts(L) /\ Hidden(L) \in Nat /\ MAX_HISTORY \in Nat /\ MAX_HISTORY > 0 /\ st.cnt_history \in Nat
    BY <1>0, Stack, StateFields, HiddenGrows, EditAssumption DEF FileInv
  <2>3. t.cnt_history > 0 => t.cnt_history_in_file > 0 /\ H <= t.cnt_history_in_file + Hidden(L)
    BY <1>0, <2>1, <2>2, Stack DEF Least, Counts
  <2>4. t.cnt_history = 0 => t.cnt_history_in_file = 0 /\ H = 0
    BY <1>0, <2>1, <2>2 DEF Least
  <2> QED
    BY <1>3, <2>1, <2>3, <2>4
<1>5. ASSUME NEW t, Browses(t) PROVE FileInv'
  <2>1. /\ t \in line_input_t /\ SetState(t) /\ UNCHANGED <<at, hist_file>>
        /\ t.cnt_history = st.cnt_history /\ t.cnt_history_in_file = st.cnt_history_in_file
    BY <1>5, Zenon DEF Browses, Moved
  <2>2. Counts(L)
    BY <1>0 DEF FileInv
  <2> QED
    BY <1>3, <2>1, <2>2, Stack DEF FileInv, Counts
<1>6. ASSUME NEW str \in Line, NEW s, NEW t, Finishes(s, t, str) PROVE FileInv'
  <2>1. /\ t \in line_input_t /\ SetState(t) /\ at = "edit" /\ at' = "run"
        /\ s.cnt_history = st.cnt_history /\ s.cnt_history_in_file = st.cnt_history_in_file
    BY <1>6, Zenon DEF Finishes, Remembered
  <2>2. Counts(L) /\ Hidden(L) \in Nat /\ st.cnt_history \in Nat /\ st.cnt_history_in_file \in Nat
        /\ (st.cnt_history = 0 => st.cnt_history_in_file = 0 /\ H = 0)
    BY <1>0, <2>1, Stack, StateFields, HiddenGrows DEF FileInv
  <2>3. H <= st.cnt_history_in_file + Hidden(L)
    BY <1>0, <2>2, Stack DEF Counts
  <2>4. CASE Kept(s, t)
    <3>1. t.cnt_history = st.cnt_history /\ t.cnt_history_in_file = st.cnt_history_in_file /\ UNCHANGED hist_file
      BY <2>1, <2>4, Zenon DEF Kept
    <3> QED
      BY <1>3, <2>1, <2>2, <3>1, Stack DEF Counts
  <2>5. ASSUME NEW n \in Nat, n > 0, n <= TrimAt, t.cnt_history_in_file = n,
               Len(hist_file') \in Nat, Len(hist_file') <= n + Hidden(L)
        PROVE  FileInv'
    <3> DEFINE G == Len(hist_file')
    <3>1. G <= TrimAt + Hidden(1) /\ \A k \in 1..(L - 1) : \A m \in Nat : m > 0 => G <= m + Hidden(k)
      BY <1>0, <2>5, Room
    <3>2. FileBounded'
      BY <3>1 DEF FileBounded, Hidden
    <3>3. \A k \in 1..L : Counts(k)'
      BY <1>0, <1>1, <1>2, <2>1, <2>5, <3>1 DEF Counts, Hidden
    <3> QED
      BY <1>0, <1>1, <1>2, <2>1, <3>2, <3>3 DEF FileInv
  <2>6. CASE str # <<>> /\ Logged(str) /\ Appended(s, t, str)
    <3>1. Len(hist_file') = H + 1
      BY <1>0, <2>6 DEF Appended, EditInv, Stored
    <3>2. t.cnt_history_in_file = st.cnt_history_in_file + 1 /\ t.cnt_history_in_file <= TrimAt
      BY <2>1, <2>6 DEF Appended
    <3> QED
      BY <1>0, <2>2, <2>3, <2>5, <3>1, <3>2
  <2>7. CASE str # <<>> /\ Logged(str) /\ Replaced(t, str)
    <3> DEFINE f == Append(hist_file, str)
    <3>1. Stored(f) /\ Len(f) = H + 1
      BY <1>0, <2>7, StoredAppend DEF EditInv, Stored
    <3>2. Ends(hist_file', f, MAX_HISTORY)
      BY <2>7, <3>1, LastLinesFacts, EditAssumption DEF Replaced
    <3> HIDE DEF f
    <3>3. Len(hist_file') \in Nat /\ Len(hist_file') > 0 /\ Len(hist_file') <= TrimAt
      BY <1>0, <3>1, <3>2, HiddenGrows, EditAssumption DEF Ends, Least
    <3>4. t.cnt_history_in_file = Len(hist_file')
      BY <2>7 DEF Replaced
    <3> QED
      BY <2>2, <2>5, <3>3, <3>4
  <2> QED
    BY <1>6, <2>4, <2>6, <2>7, Zenon DEF Finishes, Remembered
<1>7. ASSUME NEW l \in Line, NEW c \in 0..Len(l), Edited(l, c) PROVE FileInv'
  BY <1>7 DEF Edited, FileInv, FileBounded, Counts, Hidden, st
<1>8. CASE RunLine \/ \E mode \in Mode : RunProgram(mode)
  BY <1>8 DEF RunLine, RunProgram, Done, FileInv, FileBounded, Counts, Hidden
<1>9. CASE NestedShell
  <2>1. at = "run" /\ at' = "prompt" /\ line # <<>> /\ hist_file' = hist_file
    BY <1>9 DEF NestedShell, Done
  <2>2. shells[L].cnt_history > 0
    BY <2>1, Stack DEF LastRunIsRecalled
  <2>3. Len(shells') = L + 1 /\ shells'[L + 1] = new_line_input_t /\ \A k \in 1..L : shells'[k] = shells[k]
    BY <1>9, StackPushed
  <2>4. new_line_input_t.cnt_history = 0
    BY DEF new_line_input_t
  <2>5. \A k \in 1..(L + 1) : k = L + 1 \/ k \in 1..L
    BY <1>0
  <2>6. \A k \in 1..(L + 1) : Counts(k)'
    BY <2>1, <2>3, <2>4, <2>5 DEF FileInv, Counts, Hidden
  <2>7. \A k \in 1..L : shells'[k].cnt_history > 0
    BY <1>0, <1>2, <2>2, <2>3
  <2>8. FileBounded' /\ at' # "edit" /\ Len(shells') - 1 = L
    BY <1>0, <2>1, <2>3 DEF FileInv, FileBounded
  <2> QED
    BY <2>3, <2>6, <2>7, <2>8 DEF FileInv
<1>10. CASE ExitShell
  <2>1. at' = "prompt" /\ hist_file' = hist_file
    BY <1>10 DEF ExitShell, Done
  <2>2. Len(shells') = L - 1 /\ \A k \in 1..(L - 1) : shells'[k] = shells[k]
    BY <1>10, StackPopped
  <2> QED
    BY <1>0, <1>2, <2>1, <2>2 DEF FileInv, FileBounded, Counts, Hidden
<1>11. CASE UNCHANGED editVars
  BY <1>11 DEF editVars, FileInv, FileBounded, Counts, Hidden, st
<1> QED
  BY <1>4, <1>5, <1>6, <1>7, <1>8, <1>9, <1>10, <1>11, StepCases, Zenon

-----------------------------------------------------------------------------
(* What holds at the start.                                                *)
LEMMA OthersInit == EditInit => LinesKept /\ LastRunIsRecalled /\ ModeInv /\ FileInv
<1> SUFFICES ASSUME EditInit PROVE LinesKept /\ LastRunIsRecalled /\ ModeInv /\ FileInv
  OBVIOUS
<1>1. /\ shells = <<new_line_input_t>> /\ Len(shells) = 1 /\ shells[1] = new_line_input_t
      /\ at = "prompt" /\ hist_file = <<>> /\ recent = <<>> /\ Len(hist_file) = 0
  BY DEF EditInit
<1>2. new_line_input_t.cnt_history = 0 /\ new_line_input_t.lflag = "cooked"
  BY DEF new_line_input_t
<1>3. LinesKept
  <2>1. Least(MAX_HISTORY, 0) = 0
    BY EditAssumption DEF Least
  <2>2. LastLines(<<>>, MAX_HISTORY) = SubSeq(<<>>, 1, 0)
    BY <2>1 DEF LastLines
  <2> QED
    BY <1>1, <2>2, SubSeqEmpty DEF LinesKept
<1>4. LastRunIsRecalled /\ ModeInv
  BY <1>1, <1>2 DEF LastRunIsRecalled, ModeInv, ModesDriven, st
<1>5. TrimAt \in Nat /\ Hidden(1) \in Nat /\ 1 \in 1..MaxDepth
  BY HiddenGrows, EditAssumption
<1>6. FileBounded
  BY <1>1, <1>5 DEF FileBounded, Hidden
<1>7. FileInv
  BY <1>1, <1>2, <1>6 DEF FileInv, Counts
<1> QED
  BY <1>3, <1>4, <1>7

(* Whatever is typed, browsed, nested and trimmed, the line and the        *)
(* history arrays keep their types and no slot in use is null.             *)
THEOREM EditTypes == EditSpec => []EditTypeOK
<1>1. EditInv => EditTypeOK
  BY DEF EditInv
<1> QED
  BY <1>1, EditInvInit, EditInvStep, PTL DEF EditSpec

(* The history file ends with the last MAX_HISTORY lines remembered by any *)
(* of the shells that share it: neither concurrent appends nor the trim of *)
(* save_history loses one.                                                 *)
THEOREM NoLineIsLost == EditSpec => []LinesKept
BY EditInvInit, EditInvStep, OthersInit, LinesStep, PTL DEF EditSpec

(* The line that runs is the last of the innermost shell's history.        *)
THEOREM RunIsRecalled == EditSpec => []LastRunIsRecalled
BY EditInvInit, EditInvStep, OthersInit, LastStep, PTL DEF EditSpec

(* Commands start in a cooked terminal and lines are edited in a raw one.  *)
THEOREM ModesAreDriven == EditSpec => []ModesDriven
<1>1. ModeInv => ModesDriven
  BY DEF ModeInv
<1> QED
  BY <1>1, EditInvInit, EditInvStep, OthersInit, ModeStep, PTL DEF EditSpec

(* The file stays bounded although no shell counts what the others append. *)
THEOREM FileIsBounded == EditSpec => []FileBounded
<1>1. FileInv => FileBounded
  BY DEF FileInv
<1> QED
  BY <1>1, EditInvInit, EditInvStep, OthersInit, LastStep, FileStep, PTL DEF EditSpec
=============================================================================

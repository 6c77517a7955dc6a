------------------------------- MODULE Version -------------------------------
(***************************************************************************)
(* Package versions and their comparison: vercmp of tools/pack_repo.py and *)
(* its copy in the tracker's oracle, and the oracle's upstream().          *)
(*                                                                         *)
(* A version is the sequence of the segments that re.split(r'[.\-]')       *)
(* yields.  A segment is a sequence of characters; a character is its rank *)
(* among the characters versions use: the digits are 0..9 and the letters  *)
(* a..z are 10..35, so ranks compare as the characters do.  The only       *)
(* segment written after a '-' is the packaging revision rN.               *)
(***************************************************************************)
EXTENDS Integers, Sequences, SequencesExt, FiniteSetsExt

Digit == 0..9
LetterR == 27

(* str.isdigit(): at least one character, all of them digits. *)
IsDigit(x) == x # <<>> /\ \A i \in 1..Len(x) : x[i] \in Digit

(* int(x) of a string of digits. *)
IntOf(x) == FoldLeft(LAMBDA acc, d : 10 * acc + d, 0, x)

(* Positions at which two sequences differ, up to the shorter one's end. *)
CommonDiff(x, y) ==
    {i \in 1..Len(x) : i <= Len(y) /\ x[i] # y[i]}

(* Mutant: a prefix is not less than the longer string. *)
StrLessNoLength(x, y) ==
    LET D == CommonDiff(x, y)
    IN  IF D = {} THEN FALSE ELSE x[Min(D)] < y[Min(D)]

(* x < y on Python strings: decided by the first difference, else by length. *)
StrLess(x, y) ==
    LET D == CommonDiff(x, y)
    IN  IF D = {} THEN Len(x) < Len(y) ELSE x[Min(D)] < y[Min(D)]

(* One iteration of the loop of vercmp, for the segments x and y. *)
SegCmp(x, y) ==
    IF x = y THEN 0
    ELSE IF IsDigit(x) /\ IsDigit(y)
         THEN IF IntOf(x) < IntOf(y) THEN -1 ELSE 1
         ELSE IF StrLess(x, y) THEN -1 ELSE 1

(* A missing segment counts as the empty string. *)
Seg(v, i) == IF i <= Len(v) THEN v[i] ELSE <<>>

(* Mutant: zip() in place of the longer of the two lengths. *)
VerDiffZip(a, b) ==
    {i \in 1..(IF Len(a) < Len(b) THEN Len(a) ELSE Len(b)) : Seg(a, i) # Seg(b, i)}

(* Indices at which the loop of vercmp does not `continue'. *)
VerDiff(a, b) ==
    {i \in 1..(IF Len(a) > Len(b) THEN Len(a) ELSE Len(b)) : Seg(a, i) # Seg(b, i)}

(* Mutant: the last difference decides. *)
VercmpLast(a, b) ==
    LET D == VerDiff(a, b)
    IN  IF D = {} THEN 0 ELSE SegCmp(Seg(a, Max(D)), Seg(b, Max(D)))

(* Mutant: the loop returns early only when a is the greater. *)
VercmpLateLess(a, b) ==
    LET D == VerDiff(a, b)
    IN  IF D = {} THEN 0
        ELSE IF \E i \in D : SegCmp(Seg(a, i), Seg(b, i)) > 0 THEN 1 ELSE -1

(* The loop returns at the first such index, and 0 when there is none. *)
Vercmp(a, b) ==
    LET D == VerDiff(a, b)
    IN  IF D = {} THEN 0 ELSE SegCmp(Seg(a, Min(D)), Seg(b, Min(D)))

(* r\d+ *)
IsRev(x) == Len(x) > 1 /\ x[1] = LetterR /\ IsDigit(Tail(x))

(* upstream(): strip a trailing -rN. *)
Upstream(v) ==
    IF Len(v) > 1 /\ IsRev(v[Len(v)]) THEN SubSeq(v, 1, Len(v) - 1) ELSE v

(* A packaging revision r0..r9, and "$VER-rN". *)
Rev(n) == <<LetterR, n>>
WithRev(up, n) == Append(up, Rev(n))
-----------------------------------------------------------------------------
(***************************************************************************)
(* What the callers of vercmp rely on.                                     *)
(***************************************************************************)

(* Vercmp orders the set S of versions: it is antisymmetric and transitive *)
(* there, so "the highest version" of reindex is the same in whatever order *)
(* the blobs are scanned.                                                  *)
VercmpOrders(S) ==
    /\ \A a, b \in S : Vercmp(a, b) = -Vercmp(b, a)
    /\ \A a, b, c \in S : Vercmp(a, b) >= 0 /\ Vercmp(b, c) >= 0 => Vercmp(a, c) >= 0

(* The same of SegCmp on a set of segments. *)
SegCmpOrders(S) ==
    /\ \A x, y \in S : SegCmp(x, y) = -SegCmp(y, x)
    /\ \A x, y, z \in S : SegCmp(x, y) >= 0 /\ SegCmp(y, z) >= 0 => SegCmp(x, z) >= 0
=============================================================================

------------------------------ MODULE MCVersion ------------------------------
(***************************************************************************)
(* Every pair of versions of at most MaxSegs segments of Segments, grown a *)
(* segment at a time; the properties add a third one of the same length.   *)
(***************************************************************************)
EXTENDS Version

CONSTANTS Segments, MaxSegs, MaxRev

VARIABLES a, b

versionVars == <<a, b>>

VersionInit == a = <<>> /\ b = <<>>

GrowA == Len(a) < MaxSegs /\ \E s \in Segments : a' = Append(a, s) /\ b' = b
GrowB == Len(b) < MaxSegs /\ \E s \in Segments : b' = Append(b, s) /\ a' = a

VersionNext == GrowA \/ GrowB

VersionSpec == VersionInit /\ [][VersionNext]_versionVars

(* 1, 2, 10, 1a, 02, r0, r1, r10 *)
MCSegments == {<<1>>, <<2>>, <<1, 0>>, <<1, 10>>, <<0, 2>>, <<27, 0>>, <<27, 1>>, <<27, 1, 0>>}

(* A missing segment compares as the empty string. *)
Shape(x) == IF IsDigit(x) THEN "number" ELSE IF x = <<>> THEN "missing" ELSE "string"

(* A number as packagers write it, without a leading zero. *)
Canonical(v) == \A i \in 1..Len(v) : IsDigit(v[i]) => Len(v[i]) = 1 \/ v[i][1] # 0

SameShape(v, w) == Len(v) = Len(w) /\ \A i \in 1..Len(v) : Shape(v[i]) = Shape(w[i])

ThirdOf(n) == [1..n -> Segments]

(* The loop of vercmp as the code runs it, from segment i on. *)
RECURSIVE VercmpFrom(_, _, _)
VercmpFrom(v, w, i) ==
    IF i > Len(v) /\ i > Len(w) THEN 0
    ELSE IF Seg(v, i) = Seg(w, i) THEN VercmpFrom(v, w, i + 1)
    ELSE SegCmp(Seg(v, i), Seg(w, i))

(* Deciding at the first differing segment is what the loop of vercmp       *)
(* (pack_repo.py:40-53) computes, on every pair of versions.                *)
LoopAgrees == Vercmp(a, b) = VercmpFrom(a, b, 1)

(* vercmp is antisymmetric on versions without leading zeros (with them,    *)
(* 2 and 02 each come out greater than the other).                          *)
CanonicalAntisymmetric == Canonical(a) /\ Canonical(b) => Vercmp(a, b) = -Vercmp(b, a)

(* vercmp is transitive on versions that agree, position by position, on    *)
(* which segments are numbers, and have no leading zeros.                   *)
SameShapeTransitive ==
    Canonical(a) /\ Canonical(b) /\ SameShape(a, b) =>
        \A c \in ThirdOf(Len(b)) :
            SameShape(b, c) /\ Canonical(c) /\ Vercmp(a, b) >= 0 /\ Vercmp(b, c) >= 0
                => Vercmp(a, c) >= 0

(* What the tracker relies on: when its oracle sees a bump (it compares     *)
(* versions without their -rN), the bumped version at -r0 also beats the    *)
(* published one at any -rN in reindex -- for upstream versions that have   *)
(* as many segments as each other.                                          *)
BumpBeatsPublished ==
    (Len(a) = Len(b) /\ Vercmp(a, b) > 0) =>
        \A n \in 0..MaxRev : Vercmp(WithRev(a, 0), WithRev(b, n)) > 0

=============================================================================

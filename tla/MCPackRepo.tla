----------------------------- MODULE MCPackRepo ------------------------------
(* PackRepo on small instances. *)
EXTENDS PackRepo

CONSTANT jq

(* 1.7-r0 and 1.7-r1 *)
V17r0 == <<<<1>>, <<7>>, Rev(0)>>
V17r1 == <<<<1>>, <<7>>, Rev(1)>>

OneName == {jq}
TwoVersions == {V17r0, V17r1}
TwoScan == <<<<jq, V17r0>>, <<jq, V17r1>>>>
=============================================================================

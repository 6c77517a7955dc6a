------------------------------ MODULE MCTracker ------------------------------
(***************************************************************************)
(* Tracker on small instances: two ports, each released as 1.7 and then as *)
(* 1.8 (or 1.7.1); zsh is published at -r1 and jq 1.8 does not build.     *)
(***************************************************************************)
EXTENDS Tracker

CONSTANTS jq, zsh

V17 == <<<<1>>, <<7>>>>
V171 == <<<<1>>, <<7>>, <<1>>>>
V18 == <<<<1>>, <<8>>>>

BothNames == {jq, zsh}
BothPorts == <<jq, zsh>>
BothSeed == jq :> <<WithRev(V17, 0)>> @@ zsh :> <<WithRev(V17, 0), WithRev(V17, 1)>>
BothReleases == jq :> <<V17, V18>> @@ zsh :> <<V17, V18>>
JqBroken == {<<jq, V18>>}
BothVersions == {WithRev(V17, 0), WithRev(V17, 1), WithRev(V18, 0)}
BothScan ==
    <<<<jq, WithRev(V17, 0)>>, <<jq, WithRev(V17, 1)>>, <<jq, WithRev(V18, 0)>>,
      <<zsh, WithRev(V17, 0)>>, <<zsh, WithRev(V17, 1)>>, <<zsh, WithRev(V18, 0)>>>>

(* One port, one release that adds a segment. *)
JqName == {jq}
JqPorts == <<jq>>
JqSeed == jq :> <<WithRev(V17, 0)>>
JqReleases == jq :> <<V17, V171>>
JqVersions == {WithRev(V17, 0), WithRev(V171, 0)}
JqScan == <<<<jq, WithRev(V17, 0)>>, <<jq, WithRev(V171, 0)>>>>
=============================================================================

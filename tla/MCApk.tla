-------------------------------- MODULE MCApk --------------------------------
(* Two packages at two versions; the newer nano ships a file more. *)
EXTENDS Apk

CONSTANTS nano, sl, nanobin, nanorc, slbin, xterm, v1, v2

(* Each package has files of its own. *)
OwnFiles == (nano :> (v1 :> {nanobin} @@ v2 :> {nanobin, nanorc})) @@ (sl :> (v1 :> {slbin} @@ v2 :> {slbin}))

(* As their recipes stage them: both ship usr/share/terminfo/x/xterm. *)
SharedTerminfo == (nano :> (v1 :> {nanobin, xterm} @@ v2 :> {nanobin, xterm}))
                  @@ (sl :> (v1 :> {slbin, xterm} @@ v2 :> {slbin, xterm}))

NoPairs == {}

(* A session with a death, a reboot and --no-world, and one that a second  *)
(* reboot and an unreadable version meet; then a short one, alone.         *)
Short == [cmds |-> 3, faults |-> 0, deaths |-> 0, reboots |-> 1, releases |-> 1,
          records |-> {TRUE}, unread |-> {}]
Deadly == [cmds |-> 4, faults |-> 1, deaths |-> 1, reboots |-> 1, releases |-> 1,
           records |-> BOOLEAN, unread |-> {}]
Rebooting == [cmds |-> 4, faults |-> 1, deaths |-> 0, reboots |-> 2, releases |-> 1,
              records |-> {TRUE}, unread |-> {sl}]
BothSessions == {Deadly, Rebooting}
ShortSession == {Short}

(* One name ends in the other, as `zsh' does in `sh'. *)
OneEndsInOther == {<<nano, sl>>}
=============================================================================

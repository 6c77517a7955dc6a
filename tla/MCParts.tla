------------------------------- MODULE MCParts -------------------------------
(***************************************************************************)
(* Three components that share no state: version comparison, the notecards *)
(* and the keys of DOOM.  A behaviour is one of one of them, drawn at the  *)
(* start; the other two rest in their initial states.                      *)
(***************************************************************************)
EXTENDS MCVersion, DoomKeys, Cards

VARIABLE part

partsVars == <<part, versionVars, cardsVars, keysVars>>

(* "w" and the cursor key both press up; ESC and [ start sequences. *)
MCBytes == {"w", "ESC", "[", "A", "^C"}

Txt(c, n) == [i \in 1..n |-> <<c, i>>]

(* Of one line, of one card exactly, of two cards, of two full cards, and  *)
(* of a chunk more than a manifest holds.                                  *)
MCTexts == {Txt("a", 1), Txt("b", 8), Txt("c", 11), Txt("d", 16), Txt("e", 19)}

PartsInit ==
    /\ part \in {"version", "cards", "keys"}
    /\ VersionInit /\ CardsInit /\ KeysInit

VersionStep == part = "version" /\ VersionNext /\ UNCHANGED <<part, cardsVars, keysVars>>
CardsStep == part = "cards" /\ CardsNext /\ UNCHANGED <<part, versionVars, keysVars>>
KeysStep == part = "keys" /\ KeysNext /\ UNCHANGED <<part, versionVars, cardsVars>>

PartsNext == VersionStep \/ CardsStep \/ KeysStep

(* The fairness of KeysFairSpec. *)
PartsSpec ==
    /\ PartsInit /\ [][PartsNext]_partsVars
    /\ WF_partsVars(part = "keys" /\ Game /\ UNCHANGED <<part, versionVars, cardsVars>>)
    /\ WF_partsVars(part = "keys" /\ Tick /\ UNCHANGED <<part, versionVars, cardsVars>>)
==============================================================================

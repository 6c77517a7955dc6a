----------------------------- MODULE MCTerminal ------------------------------
(***************************************************************************)
(* The interactive shell: how its lines are read (LineEdit) and how they   *)
(* run (Shell).  The two share no state that both change, so a behaviour   *)
(* is one of either, drawn at the start.                                   *)
(***************************************************************************)
EXTENDS MCShell, LineEdit

VARIABLE part

terminalVars == <<part, vars, editVars>>

TerminalInit == part \in {"shell", "edit"} /\ Init /\ EditInit

ShellStep == part = "shell" /\ Next /\ UNCHANGED <<part, editVars>>
EditStep == part = "edit" /\ EditNext /\ UNCHANGED <<part, vars>>

TerminalNext == ShellStep \/ EditStep

TerminalSpec == TerminalInit /\ [][TerminalNext]_terminalVars

(* The machine of ash and the buffers of lineedit.c are well-formed: every *)
(* descriptor, name and saved descriptor leads somewhere, saved ones lie   *)
(* above the user's, the line fits its buffer with the cursor in it, and   *)
(* no history slot in use is null.                                         *)
TerminalTypeOK == TypeOK /\ EditTypeOK
==============================================================================

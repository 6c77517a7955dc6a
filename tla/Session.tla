------------------------------ MODULE Session -------------------------------
(***************************************************************************)
(* What a terminal session promises its user, whatever the shell does in   *)
(* between: a line is answered with exactly what it means, the prompt      *)
(* comes back only when the answer is complete, and the session ends only  *)
(* after a line that ends it.  That a prompt does come back is not said    *)
(* here.                                                                   *)
(***************************************************************************)
EXTENDS Naturals, Sequences

CONSTANTS Lines,        \* the lines a user may type
          MaxLines,     \* how many a session has
          Answer(_),    \* what the lines of a sequence print, one after the other
          Leaves(_)     \* whether the last of them ends the session

VARIABLES asked,        \* the lines typed so far
          said,         \* what the terminal shows
          due,          \* what it has yet to show for the last line
          at            \* "prompt", "busy" with a line, or "gone"

sessionVars == <<asked, said, due, at>>

SessionInit == asked = <<>> /\ said = <<>> /\ due = <<>> /\ at = "prompt"

Ask ==
    /\ at = "prompt" /\ at' = "busy"
    /\ Len(asked) < MaxLines
    /\ \E line \in Lines : asked' = Append(asked, line)
    /\ due' = SubSeq(Answer(asked'), Len(said) + 1, Len(Answer(asked')))
    /\ UNCHANGED said

Utter ==
    /\ at = "busy"
    /\ \E k \in 1..Len(due) :
          /\ said' = said \o SubSeq(due, 1, k)
          /\ due' = SubSeq(due, k + 1, Len(due))
    /\ UNCHANGED <<asked, at>>

(* The line is answered: the prompt, or the end.                           *)
Answered ==
    /\ at = "busy" /\ due = <<>>
    /\ at' = IF Leaves(asked) THEN "gone" ELSE "prompt"
    /\ UNCHANGED <<asked, said, due>>

SessionSpec == SessionInit /\ [][Ask \/ Utter \/ Answered]_sessionVars
=============================================================================

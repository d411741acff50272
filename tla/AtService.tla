------------------------------ MODULE AtService -----------------------------
(***************************************************************************)
(* What the AT command layer promises to its user: commands are issued one *)
(* at a time and each one that is issued ends in one call of its callback, *)
(* which may issue the next command before it returns.                     *)
(***************************************************************************)
EXTENDS Naturals

VARIABLES
  busy,    \* a command has been issued and its callback has not returned
  issued,  \* number of commands issued
  ended    \* number of callbacks that have returned or issued a command

vars == <<busy, issued, ended>>

Init == busy = FALSE /\ issued = 0 /\ ended = 0

\* A command is issued while none is under way.
Issue ==
  /\ ~busy
  /\ busy' = TRUE
  /\ issued' = issued + 1
  /\ UNCHANGED ended

\* The callback of the command runs and leaves nothing under way.
End ==
  /\ busy
  /\ busy' = FALSE
  /\ ended' = ended + 1
  /\ UNCHANGED issued

\* The callback of the command runs and issues the next one.
EndAndIssue ==
  /\ busy
  /\ issued' = issued + 1
  /\ ended' = ended + 1
  /\ UNCHANGED busy

Next == Issue \/ End \/ EndAndIssue

Spec == Init /\ [][Next]_vars
=============================================================================

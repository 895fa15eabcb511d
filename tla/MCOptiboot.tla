----------------------------- MODULE MCOptiboot -----------------------------
(* The instance of Optiboot for TLC.  The words of a page the host sends    *)
(* differ, so that a word at another's place shows.                         *)
EXTENDS Optiboot

Differing == pc = "data" /\ i > 0 /\ i' = i + 1 => buff'[i] # buff[0]
MCNext == Next /\ Differing
MCSpec == Init /\ [][MCNext]_vars /\ Fairness
=============================================================================

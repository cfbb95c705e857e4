--------------------------- MODULE MCPhaseActions ---------------------------
(* Small instances of PhaseActions for TLC.  A tick stands for the         *)
(* shortest of the code's times, 45 s to 10 min become one tick or two;    *)
(* what matters is which events fit between two polls, not how many polls  *)
(* there are.                                                              *)
EXTENDS PhaseActions
=============================================================================

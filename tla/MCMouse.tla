------------------------------- MODULE MCMouse -------------------------------
(* Instances of Mouse for TLC. *)
EXTENDS Mouse

(* A movement that is small, one whose byte has bit 3 set and would pass   *)
(* for the flags with the left button held, one that is negative.          *)
MCDelta == {-3, 1, 9}
MCButtons == {{}, {1, 4}}
=============================================================================

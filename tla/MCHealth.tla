------------------------------ MODULE MCHealth ------------------------------
(***************************************************************************)
(* One group that wants up to two runners and has up to one, with the      *)
(* reports of two ticks under way at once.                                 *)
(***************************************************************************)
EXTENDS Health, TLC

CONSTANTS linux, linux1

OneHome == linux1 :> linux
NoMin == linux :> 0

(* The next tick waits until one of two reports has been made.             *)
TwoReports == Len(reports) = MaxReports => TickAt("off")
=============================================================================

------------------------------ MODULE MCDetector ------------------------------
(* Detector for TLC: time for three callbacks one after the other to be stuck   *)
(* past a limit of one unit, and nesting two deep.                              *)
EXTENDS Detector

=============================================================================

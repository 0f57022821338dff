------------------------------- MODULE MCLog -------------------------------
(* Instances of Log for TLC; the values of the constants are in the .cfg     *)
(* files.  Liveness is checked, so no symmetry is declared.                  *)
EXTENDS Log
=============================================================================

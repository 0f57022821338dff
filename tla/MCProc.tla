------------------------------- MODULE MCProc -------------------------------
(* Instances of Proc for TLC; the values of the constants are in the .cfg    *)
(* files.                                                                    *)
EXTENDS Proc, TLC

(* CPUs are interchangeable; slots are not, the code scans them in order. *)
CpuSymmetry == Permutations(CPUs)
=============================================================================

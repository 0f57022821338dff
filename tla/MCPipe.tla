------------------------------- MODULE MCPipe -------------------------------
(* Instances of Pipe for TLC; the values of the constants are in the .cfg    *)
(* files.                                                                    *)
EXTENDS Pipe, TLC

(* Processes of one end, and bytes, are interchangeable. *)
Symmetry == Permutations(Readers) \cup Permutations(Writers) \cup Permutations(Values)
=============================================================================

----------------------------- MODULE MCBcache -----------------------------
(* Small instances of Bcache for TLC. *)
EXTENDS Bcache, TLC

(* Processes, blocks and values are interchangeable; buffers are not, their  *)
(* order on the list is fixed at the start.                                  *)
Symmetry == Permutations(Procs) \cup Permutations(Blocks) \cup Permutations(Values)
=============================================================================

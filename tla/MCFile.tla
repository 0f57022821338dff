------------------------------- MODULE MCFile -------------------------------
(* Instances of File for TLC. *)
EXTENDS File, TLC

Symmetry == Permutations(Procs)

(* Both processes use the open files: a of inode 2, c of inode 3, and r of   *)
(* the root directory.                                                       *)
OpenFiles == [o \in {"a", "c", "r"} |-> CASE o = "a" -> 2 [] o = "c" -> 3 [] o = "r" -> 1]

(* The entries of the root directory, which end with a block; a file with an *)
(* indirect block; an empty file.                                            *)
Image == <<<<9, 9>>, <<1, 1, 2>>, <<>>>>

SomeSeeks == {<<0, 0>>, <<1, 1>>, <<2, 1>>, <<1, 2>>}
=============================================================================

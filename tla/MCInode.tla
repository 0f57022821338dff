------------------------------ MODULE MCInode ------------------------------
(* Instances of Inode for TLC. *)
EXTENDS Inode

Symmetry == Permutations(Procs)

Call(op, path, new) == [op |-> op, path |-> path, new |-> new]

(* Calls on /d and /f: names come and go while others use them; calls fail   *)
(* and run out of inodes, entries and descriptors.                           *)
Races ==
  {Call("link", <<"f">>, <<"d", "x">>), Call("unlink", <<"f">>, <<>>),
   Call("unlink", <<"d">>, <<>>), Call("unlink", <<"d", "x">>, <<>>),
   Call("creat", <<"d", "x">>, <<>>), Call("mkdir", <<"/", "x">>, <<>>),
   Call("open", <<"f">>, <<>>), Call("chdir", <<"d">>, <<>>)}

Failures ==
  {Call("link", <<"f">>, <<"f">>), Call("link", <<"d">>, <<"x">>),
   Call("unlink", <<"f">>, <<>>), Call("unlink", <<"d">>, <<>>), Call("unlink", <<"/">>, <<>>),
   Call("open", <<"f">>, <<>>), Call("openw", <<"d">>, <<>>), Call("creat", <<"d">>, <<>>),
   Call("creat", <<"f">>, <<>>), Call("mknod", <<"f", "x">>, <<>>),
   Call("mkdir", <<"d", "x">>, <<>>), Call("chdir", <<"f">>, <<>>)}

(* From inside /d/x: it is removed, then /d, and calls go up to it. *)
Up ==
  {Call("unlink", <<"/", "d", "x">>, <<>>), Call("unlink", <<"/", "d">>, <<>>),
   Call("unlink", <<"..", "x">>, <<>>), Call("open", <<"..">>, <<>>),
   Call("chdir", <<"..", "..">>, <<>>), Call("link", <<"/", "f">>, <<"..", "x">>)}

SomeWork == {[calls |-> Races, start |-> "root"], [calls |-> Failures, start |-> "root"],
             [calls |-> Up, start |-> "x"]}
=============================================================================

------------------------------ MODULE MCConsole ------------------------------
(* Console on two CPUs and two processes, with five workloads: a reader     *)
(* with every key to edit with, and with enough lines for the indices of    *)
(* the ring to wrap around; a reader beside a sleeper and beside a process  *)
(* that kills it; a sleeper beside a writer.                                *)
EXTENDS Console

SomeKeys == {"a", "\n", "^D", "^H", "^U"}
Work(a, b, keys, n) ==
  [calls |-> [p \in Procs |-> IF p = 11 THEN a ELSE b], keys |-> keys, maxkeys |-> n]
SomeWork == {Work({"read"}, {}, SomeKeys, 2), Work({"read"}, {}, {"\n"}, 5),
             Work({"read"}, {"sleep"}, {"\n"}, 2), Work({"read"}, {"kill"}, {"\n"}, 1),
             Work({"sleep"}, {"write"}, {}, 0)}
=============================================================================

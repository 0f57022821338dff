----------------------------- MODULE AtomicDisk -----------------------------
(***************************************************************************)
(* What the log of log.c promises the file system: a disk whose blocks     *)
(* change only by whole transactions.                                      *)
(*                                                                         *)
(*   view    what a system call reads from a block now                     *)
(*   stable  what the blocks hold if the machine stops now and recovers    *)
(*   active  the processes between begin_op and end_op                     *)
(*                                                                         *)
(* The updates of a call become stable together, and only when no call is  *)
(* active; a crash falls back to the last stable contents.                 *)
(***************************************************************************)
CONSTANTS Procs, Blocks, Values

VARIABLES stable, view, active

vars == <<stable, view, active>>

Init ==
  /\ stable \in [Blocks -> Values]
  /\ view = stable
  /\ active = {}

Begin(p) ==
  /\ p \notin active
  /\ active' = active \cup {p}
  /\ UNCHANGED <<stable, view>>

Write(p, b, v) ==
  /\ p \in active
  /\ view' = [view EXCEPT ![b] = v]
  /\ UNCHANGED <<stable, active>>

End(p) ==
  /\ p \in active
  /\ active' = active \ {p}
  /\ UNCHANGED <<stable, view>>

Commit ==
  /\ active = {}
  /\ stable' = view
  /\ UNCHANGED <<view, active>>

Crash ==
  /\ view' = stable
  /\ active' = {}
  /\ UNCHANGED stable

Next ==
  \/ \E p \in Procs : Begin(p) \/ End(p)
  \/ \E p \in Procs, b \in Blocks, v \in Values : Write(p, b, v)
  \/ Commit
  \/ Crash

Spec == Init /\ [][Next]_vars
=============================================================================

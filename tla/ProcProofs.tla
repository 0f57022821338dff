----------------------------- MODULE ProcProofs -----------------------------
(***************************************************************************)
(* Proofs about Proc for any number of CPUs, process slots and pids.       *)
(*                                                                         *)
(* ProcInv is inductive.  The steps fall into those that search the table  *)
(* (the *Effect lemmas say what they do to the slot they find), those that *)
(* take or release ptable.lock, and those that fill a slot without it.     *)
(* The *Kept lemmas say which changes a part of the invariant survives; an *)
(* action then only has to be looked at where it makes another change.     *)
(***************************************************************************)
EXTENDS Proc, TLAPS

Live == {"SLEEPING", "RUNNABLE", "RUNNING"}

(* The states of a process that has been switched away from, and the points  *)
(* at which a thread that is switched to continues with the lock held.       *)
Away == {"SLEEPING", "RUNNABLE", "ZOMBIE"}

Resumes == {"forkret", "yield", "sleep"}

(* Where a thread is, or will be once it is scheduled again.                 *)
At(p) == IF pc[p] = "yield" THEN ret[p] ELSE pc[p]

(* A CPU that scans or switches holds ptable.lock, and so does a process it  *)
(* has just switched to; a RUNNING process runs on one CPU; a process that   *)
(* leaves its CPU has changed its state.                                     *)
CpuInv ==
  /\ \A c \in CPUs :
       /\ mode[c] \in {"scan", "sched"} => lock = c
       /\ mode[c] = "run" /\ pc[cproc[c]] \in Resumes => lock = c
       /\ cproc[c] # 0 <=> mode[c] \in {"run", "sched"}
       /\ cproc[c] # 0 => scan[c] \in Slots
       /\ mode[c] = "run" => state[cproc[c]] = "RUNNING"
       /\ mode[c] = "sched" => state[cproc[c]] \in Away
  /\ \A c, d \in CPUs : c # d /\ cproc[c] # 0 => cproc[c] # cproc[d]
  /\ \A p \in Slots : state[p] = "RUNNING" => \E c \in CPUs : OnCpu(c, p)

(* What fork() relies on between its accesses to the slot it fills.          *)
Filling(p) ==
  /\ state[p] \in {"RUNNABLE", "RUNNING"}
  /\ np[p] # 0 /\ state[np[p]] = "EMBRYO"
  /\ At(p) \in {"copyuvm", "publish"} <=> kstack[np[p]]
  /\ At(p) = "publish" => parent[np[p]] # 0

(* A process in fork() fills an EMBRYO slot that no other fork() fills.      *)
ForkInv ==
  /\ \A p \in Slots : At(p) \in ForkPoints => Filling(p)
  /\ \A p, q \in Slots : p # q /\ At(p) \in ForkPoints /\ At(q) \in ForkPoints => np[p] # np[q]

(* A process has a kernel stack, a free slot has none.                       *)
StackInv ==
  \A s \in Slots : /\ state[s] \notin {"UNUSED", "EMBRYO"} => kstack[s]
                   /\ state[s] = "UNUSED" => ~kstack[s]

(* init is never dead and nobody's child; nobody is its own parent.          *)
ParentInv ==
  /\ ParentAlive
  /\ state[initproc] \in Live /\ parent[initproc] = 0
  /\ \A p \in Slots : parent[p] # p

(* A sleeper sleeps on its own slot and has nothing to wait for any more.    *)
SleepInv ==
  \A p \in Slots : state[p] = "SLEEPING" =>
    /\ chan[p] = p /\ ~killed[p]
    /\ \A s \in Slots : parent[s] = p => state[s] # "ZOMBIE"

(* Pids are given out in order, and only once.                               *)
PidInv ==
  /\ \A p \in Slots : state[p] # "UNUSED" => pid[p] < nextpid
  /\ \A p, q \in Slots : p # q /\ state[p] # "UNUSED" /\ state[q] # "UNUSED"
                           => pid[p] # pid[q]

TableInv == CpuInv /\ ForkInv /\ StackInv /\ ParentInv /\ SleepInv /\ PidInv

ProcInv == TypeOK /\ TableInv

-----------------------------------------------------------------------------
(* Slot 0 stands for null, and None for no CPU.                              *)
LEMMA SlotFacts == initproc \in Slots /\ 0 \notin Slots /\ None \notin CPUs
BY ProcAssumption DEF initproc, Slots

(* What the four steps that search the table do to the slot they find.       *)
Switch(c, s) ==
  /\ mode[c] = "scan" /\ state[s] = "RUNNABLE"
  /\ cproc' = [cproc EXCEPT ![c] = s]
  /\ state' = [state EXCEPT ![s] = "RUNNING"]
  /\ scan' = [scan EXCEPT ![c] = s]
  /\ mode' = [mode EXCEPT ![c] = "run"]
  /\ UNCHANGED <<pid, parent, chan, killed, kstack, nextpid, lock, pc, ret, np,
                 child, panicked>>

Alloc(p, s) ==
  /\ state[s] = "UNUSED" /\ nextpid <= MaxPid
  /\ state' = [state EXCEPT ![s] = "EMBRYO"]
  /\ pid' = [pid EXCEPT ![s] = nextpid]
  /\ np' = [np EXCEPT ![p] = s]
  /\ nextpid' = nextpid + 1
  /\ pc' = [pc EXCEPT ![p] = "kalloc"]
  /\ UNCHANGED <<child, parent, chan, killed, kstack, cpuVars, ret, panicked>>

Reap(p, s) ==
  /\ parent[s] = p /\ state[s] = "ZOMBIE"
  /\ kstack' = [kstack EXCEPT ![s] = FALSE]
  /\ pid' = [pid EXCEPT ![s] = 0]
  /\ parent' = [parent EXCEPT ![s] = 0]
  /\ killed' = [killed EXCEPT ![s] = FALSE]
  /\ state' = [state EXCEPT ![s] = "UNUSED"]
  /\ child' \in {0, child}
  /\ chan' = [chan EXCEPT ![p] = 0]
  /\ lock' = None
  /\ pc' = [pc EXCEPT ![p] = "trapret"]
  /\ UNCHANGED <<mode, nextpid, cproc, scan, ret, np, panicked>>

Kill(p, s) ==
  /\ killed' = [killed EXCEPT ![s] = TRUE]
  /\ state' = [state EXCEPT ![s] = Roused(s)]
  /\ pc' = [pc EXCEPT ![p] = "trapret"]
  /\ UNCHANGED <<pid, parent, chan, kstack, nextpid, cpuVars, ret, np, child, panicked>>

(* The scheduler takes a RUNNABLE process.                                   *)
LEMMA SwitchEffect ==
  ASSUME TypeOK, NEW c \in CPUs, scheduler_switch(c)
  PROVE  \E s \in Slots : Switch(c, s)
<1>1. PICK s \in RunnableFrom(scan[c]) :
        /\ cproc' = [cproc EXCEPT ![c] = s]
        /\ state' = [state EXCEPT ![s] = "RUNNING"]
        /\ scan' = [scan EXCEPT ![c] = s]
  BY Zenon DEF scheduler_switch, First
<1>2. s \in Slots /\ state[s] = "RUNNABLE"
  <2>1. scan[c] \in 1..(NPROC + 1)
    BY Zenon DEF TypeOK
  <2> QED
    BY <1>1, <2>1, ProcAssumption DEF RunnableFrom, Slots
<1> QED
  BY <1>1, <1>2, Zenon DEF scheduler_switch, Switch

(* allocproc takes an UNUSED slot, or finds none.                            *)
LEMMA AllocEffect ==
  ASSUME NEW c \in CPUs, NEW p \in Slots, allocproc(c, p)
  PROVE  \/ \E s \in Slots : Alloc(p, s)
         \/ /\ pc' = [pc EXCEPT ![p] = "trapret"]
            /\ child' \in {-1, child}
            /\ UNCHANGED <<tableVars, cpuVars, ret, np, panicked>>
<1>1. CASE /\ nextpid <= MaxPid
           /\ \E s \in First(Unused) : /\ state' = [state EXCEPT ![s] = "EMBRYO"]
                                       /\ pid' = [pid EXCEPT ![s] = nextpid]
                                       /\ np' = [np EXCEPT ![p] = s]
           /\ nextpid' = nextpid + 1 /\ pc' = [pc EXCEPT ![p] = "kalloc"] /\ child' = child
  <2>1. PICK s \in First(Unused) : /\ state' = [state EXCEPT ![s] = "EMBRYO"]
                                  /\ pid' = [pid EXCEPT ![s] = nextpid]
                                  /\ np' = [np EXCEPT ![p] = s]
    BY <1>1, Zenon
  <2>2. s \in Slots /\ state[s] = "UNUSED"
    BY Zenon DEF First, Unused
  <2>3. Alloc(p, s)
    BY <1>1, <2>1, <2>2, Zenon DEF allocproc, Alloc
  <2> QED
    BY <2>2, <2>3, Zenon
<1>2. CASE /\ pc' = [pc EXCEPT ![p] = "trapret"] /\ Returned(p, -1)
           /\ UNCHANGED <<state, pid, np, nextpid>>
  BY <1>2, Zenon DEF allocproc, Returned, tableVars
<1> QED
  BY <1>1, <1>2, Zenon DEF allocproc, PidAfter

(* wait() reaps a dead child, gives up, or sleeps.                           *)
LEMMA WaitEffect ==
  ASSUME NEW c \in CPUs, NEW p \in Slots, wait(c, p)
  PROVE  \/ \E s \in Slots : Reap(p, s)
         \/ /\ chan' = [chan EXCEPT ![p] = 0]
            /\ lock' = None
            /\ pc' = [pc EXCEPT ![p] = "trapret"]
            /\ child' \in {0, child}
            /\ UNCHANGED <<state, pid, parent, killed, kstack, mode, nextpid, cproc, scan,
                           ret, np, panicked>>
         \/ /\ ~killed[p] /\ \A s \in Slots : parent[s] = p => state[s] # "ZOMBIE"
            /\ chan' = [chan EXCEPT ![p] = p]
            /\ state' = [state EXCEPT ![p] = "SLEEPING"]
            /\ lock' = c
            /\ pc' = [pc EXCEPT ![p] = "sleep"]
            /\ mode' = [mode EXCEPT ![c] = "sched"]
            /\ UNCHANGED <<pid, parent, killed, kstack, child, nextpid, cproc, scan, ret, np,
                           panicked>>
<1>1. Zombies(p) = {s \in Slots : parent[s] = p /\ state[s] = "ZOMBIE"}
  BY Zenon DEF Zombies, Children
<1>2. CASE Zombies(p) # {}
  <2>1. PICK s \in First(Zombies(p)) :
          /\ kstack' = [kstack EXCEPT ![s] = FALSE]
          /\ pid' = [pid EXCEPT ![s] = 0]
          /\ parent' = [parent EXCEPT ![s] = 0]
          /\ killed' = [killed EXCEPT ![s] = FALSE]
          /\ state' = [state EXCEPT ![s] = "UNUSED"]
          /\ child' \in {0, child}
    BY <1>2, Zenon DEF wait, Freed, Returned
  <2>2. s \in Slots /\ parent[s] = p /\ state[s] = "ZOMBIE"
    BY <1>1, <2>1, Zenon DEF First
  <2>3. Reap(p, s)
    BY <1>2, <2>1, <2>2, Zenon DEF wait, Reap
  <2> QED
    BY <2>2, <2>3, Zenon
<1>3. CASE Zombies(p) = {}
  <2>1. First(Zombies(p)) = {}
    BY <1>3, Zenon DEF First
  <2> QED
    BY <1>1, <1>3, <2>1, Zenon DEF wait, Returned
<1> QED
  BY <1>2, <1>3, Zenon

(* kill() finds a slot, or none.                                             *)
LEMMA KillEffect ==
  ASSUME NEW c \in CPUs, NEW p \in Slots, NEW n \in Pids, kill(c, p, n)
  PROVE  \/ \E s \in Slots : Kill(p, s)
         \/ /\ pc' = [pc EXCEPT ![p] = "trapret"]
            /\ UNCHANGED <<tableVars, cpuVars, ret, np, child, panicked>>
<1>1. CASE \E s \in First(Named(n)) : /\ killed' = [killed EXCEPT ![s] = TRUE]
                                      /\ state' = [state EXCEPT ![s] = Roused(s)]
  <2>1. PICK s \in First(Named(n)) : /\ killed' = [killed EXCEPT ![s] = TRUE]
                                     /\ state' = [state EXCEPT ![s] = Roused(s)]
    BY <1>1, Zenon
  <2>2. s \in Slots
    BY Zenon DEF First, Named
  <2> QED
    BY <2>1, <2>2, Zenon DEF kill, Kill
<1>2. CASE UNCHANGED <<killed, state>>
  BY <1>2, Zenon DEF kill, tableVars
<1> QED
  BY <1>1, <1>2, Zenon DEF kill

-----------------------------------------------------------------------------
(* A thread that executes is RUNNING, on one CPU only.                       *)
LEMMA Running ==
  ASSUME TypeOK, CpuInv, NEW c \in CPUs, NEW p \in Slots, OnCpu(c, p)
  PROVE  /\ state[p] = "RUNNING"
         /\ \A d \in CPUs : cproc[d] = p => d = c
         /\ pc[p] \in Resumes => lock = c
BY SlotFacts, Zenon DEF CpuInv, OnCpu

(* A thread in fork() and the slot it fills.                                 *)
LEMMA Forking ==
  ASSUME TypeOK, CpuInv, ForkInv, NEW c \in CPUs, NEW p \in Slots, OnCpu(c, p), pc[p] \in ForkPoints
  PROVE  /\ At(p) = pc[p] /\ state[p] = "RUNNING"
         /\ np[p] \in Slots /\ np[p] # p /\ state[np[p]] = "EMBRYO"
         /\ pc[p] \in {"copyuvm", "publish"} <=> kstack[np[p]]
         /\ pc[p] = "publish" => parent[np[p]] # 0
         /\ \A q \in Slots : q # p /\ At(q) \in ForkPoints => np[q] # np[p]
         /\ \A d \in CPUs : cproc[d] # 0 => cproc[d] # np[p]
<1>1. state[p] = "RUNNING"
  BY Running, Zenon
<1>2. At(p) = pc[p]
  BY Zenon DEF At, ForkPoints
<1>3. /\ np[p] # 0 /\ state[np[p]] = "EMBRYO"
      /\ pc[p] \in {"copyuvm", "publish"} <=> kstack[np[p]]
      /\ pc[p] = "publish" => parent[np[p]] # 0
  BY <1>2, Zenon DEF ForkInv, Filling
<1>4. np[p] \in Slots
  BY <1>3, Zenon DEF TypeOK
<1>5. \A q \in Slots : q # p /\ At(q) \in ForkPoints => np[q] # np[p]
  BY <1>2, Zenon DEF ForkInv
<1>6. \A d \in CPUs : cproc[d] # 0 => cproc[d] # np[p]
  BY <1>3, <1>4, Zenon DEF CpuInv, TypeOK, Away
<1> QED
  BY <1>1, <1>2, <1>3, <1>4, <1>5, <1>6, Zenon

-----------------------------------------------------------------------------
(* The CPUs do not notice a step that leaves the lock and what they execute  *)
(* alone, takes no process off a CPU and puts none on one.                   *)
LEMMA CpuKept ==
  ASSUME TypeOK, CpuInv, UNCHANGED <<lock, cproc, mode, scan>>,
         \A q \in Slots :
           /\ state'[q] = "RUNNING" <=> state[q] = "RUNNING"
           /\ state[q] \in Away => state'[q] \in Away
           /\ state[q] = "RUNNING" /\ pc'[q] \in Resumes => pc[q] \in Resumes
  PROVE  CpuInv'
<1>1. \A c \in CPUs : cproc[c] # 0 => cproc[c] \in Slots
  BY Zenon DEF TypeOK
<1> QED
  BY <1>1, SlotFacts DEF CpuInv, OnCpu

(* A thread may release ptable.lock: no other CPU is in the middle of a      *)
(* switch.                                                                   *)
LEMMA LockReleased ==
  ASSUME TypeOK, CpuInv, NEW c \in CPUs, NEW p \in Slots, OnCpu(c, p),
         lock \in {None, c}, lock' = None, UNCHANGED <<cproc, mode, scan>>,
         pc'[p] \notin Resumes,
         \A q \in Slots : /\ q # p => pc'[q] = pc[q]
                          /\ state'[q] = "RUNNING" <=> state[q] = "RUNNING"
  PROVE  CpuInv'
<1>1. \A d \in CPUs : cproc[d] # 0 => cproc[d] \in Slots
  BY Zenon DEF TypeOK
<1>2. \A d \in CPUs : mode[d] \notin {"scan", "sched"}
  BY SlotFacts DEF CpuInv, OnCpu
<1>3. \A d \in CPUs : mode[d] = "run" /\ pc[cproc[d]] \in Resumes => cproc[d] = p
  BY SlotFacts DEF CpuInv, OnCpu
<1> QED
  BY <1>1, <1>2, <1>3, SlotFacts DEF CpuInv, OnCpu

(* A thread may enter sched() with the lock, once its state is no longer     *)
(* RUNNING.                                                                  *)
LEMMA LockTaken ==
  ASSUME TypeOK, CpuInv, NEW c \in CPUs, NEW p \in Slots, OnCpu(c, p),
         lock \in {None, c}, lock' = c, UNCHANGED <<cproc, scan>>,
         mode' = [mode EXCEPT ![c] = "sched"], state'[p] \in Away,
         \A q \in Slots \ {p} : /\ pc'[q] = pc[q]
                                /\ state'[q] = "RUNNING" <=> state[q] = "RUNNING"
  PROVE  CpuInv'
<1>1. \A d \in CPUs : cproc[d] # 0 => cproc[d] \in Slots
  BY Zenon DEF TypeOK
<1>2. \A d \in CPUs \ {c} : /\ mode[d] \notin {"scan", "sched"} /\ mode'[d] = mode[d]
                            /\ mode[d] = "run" => cproc[d] # p /\ pc[cproc[d]] \notin Resumes
  BY SlotFacts DEF CpuInv, OnCpu, TypeOK
<1>3. mode'[c] = "sched" /\ cproc[c] = p /\ scan[c] \in Slots
  BY SlotFacts DEF CpuInv, OnCpu, TypeOK
<1>4. \A d \in CPUs : /\ mode'[d] \in {"scan", "sched"} => lock' = d
                      /\ mode'[d] = "run" /\ pc'[cproc'[d]] \in Resumes => lock' = d
                      /\ cproc'[d] # 0 <=> mode'[d] \in {"run", "sched"}
                      /\ cproc'[d] # 0 => scan'[d] \in Slots
  BY <1>1, <1>2, <1>3, SlotFacts DEF CpuInv
<1>5. \A d \in CPUs : /\ mode'[d] = "run" => state'[cproc'[d]] = "RUNNING"
                      /\ mode'[d] = "sched" => state'[cproc'[d]] \in Away
  BY <1>1, <1>2, <1>3, SlotFacts DEF CpuInv
<1>6. \A q \in Slots : state'[q] = "RUNNING" => \E d \in CPUs : OnCpu(d, q)'
  <2>1. ASSUME NEW q \in Slots, state'[q] = "RUNNING" PROVE \E d \in CPUs : OnCpu(d, q)'
    <3>1. q # p /\ state[q] = "RUNNING"
      BY <2>1, Zenon DEF Away
    <3>2. PICK d \in CPUs : OnCpu(d, q)
      BY <3>1, Zenon DEF CpuInv
    <3> QED
      BY <1>2, <1>3, <3>1, <3>2 DEF OnCpu
  <2> QED
    BY <2>1, Zenon
<1>7. \A d, e \in CPUs : d # e /\ cproc'[d] # 0 => cproc'[d] # cproc'[e]
  BY Zenon DEF CpuInv
<1> QED
  BY <1>4, <1>5, <1>6, <1>7, Zenon DEF CpuInv

(* fork() does not notice a step that sends no thread into it and leaves the *)
(* slots it fills alone.                                                     *)
LEMMA ForkKept ==
  ASSUME TypeOK, ForkInv, np' = np,
         \A q \in Slots :
           /\ At(q)' \in ForkPoints => /\ At(q)' = At(q)
                                       /\ state[q] \in {"RUNNABLE", "RUNNING"} =>
                                            state'[q] \in {"RUNNABLE", "RUNNING"}
           /\ state[q] = "EMBRYO" => /\ state'[q] = "EMBRYO" /\ kstack'[q] = kstack[q]
                                     /\ parent[q] # 0 => parent'[q] # 0
  PROVE  ForkInv'
<1>1. ASSUME NEW q \in Slots, At(q)' \in ForkPoints PROVE Filling(q)'
  <2>1. At(q)' = At(q) /\ Filling(q)
    BY <1>1, Zenon DEF ForkInv
  <2>2. np[q] \in Slots
    BY <2>1, Zenon DEF Filling, TypeOK
  <2> QED
    BY <1>1, <2>1, <2>2, Zenon DEF Filling
<1> QED
  BY <1>1, Zenon DEF ForkInv

(* A step that keeps the stacks and neither takes slots into use nor frees   *)
(* them.                                                                     *)
LEMMA StackKept ==
  ASSUME StackInv, kstack' = kstack,
         \A q \in Slots : /\ state'[q] = "UNUSED" => state[q] = "UNUSED"
                          /\ state'[q] \notin {"UNUSED", "EMBRYO"} =>
                               state[q] \notin {"UNUSED", "EMBRYO"}
  PROVE  StackInv'
BY Zenon DEF StackInv

(* A step that keeps the parents, kills nobody and makes no new process.     *)
LEMMA ParentKept ==
  ASSUME TypeOK, ParentInv, parent' = parent,
         \A q \in Slots : /\ state[q] \in Live => state'[q] \in Live
                          /\ state'[q] \notin {"UNUSED", "EMBRYO"} =>
                               state[q] \notin {"UNUSED", "EMBRYO"}
  PROVE  ParentInv'
<1>1. \A q \in Slots : parent[q] # 0 => parent[q] \in Slots
  BY Zenon DEF TypeOK
<1> QED
  BY <1>1, SlotFacts, Zenon DEF ParentInv, ParentAlive, Live

(* A step that puts nobody to sleep, marks no sleeper, and makes no zombie.  *)
LEMMA SleepKept ==
  ASSUME SleepInv,
         \A q \in Slots : /\ state'[q] = "SLEEPING" => /\ state[q] = "SLEEPING"
                                                       /\ chan'[q] = chan[q]
                                                       /\ killed[q] = killed'[q]
                          /\ state'[q] = "ZOMBIE" => /\ state[q] = "ZOMBIE"
                                                     /\ parent'[q] = parent[q]
  PROVE  SleepInv'
BY DEF SleepInv

(* A step that keeps the pids and takes no slot into use.                    *)
LEMMA PidKept ==
  ASSUME PidInv, UNCHANGED <<pid, nextpid>>,
         \A q \in Slots : state'[q] # "UNUSED" => state[q] # "UNUSED"
  PROVE  PidInv'
BY Zenon DEF PidInv

-----------------------------------------------------------------------------
(* A thread that moves on to a point outside fork() and changes nothing      *)
(* else disturbs nothing.                                                    *)
LEMMA PcMoves ==
  ASSUME TypeOK, TableInv, NEW p \in Slots, NEW v, UNCHANGED <<tableVars, cpuVars, ret, np>>,
         pc' = [pc EXCEPT ![p] = v], v \notin Resumes \cup ForkPoints
  PROVE  TableInv'
<1>1. \A q \in Slots : pc'[q] = IF q = p THEN v ELSE pc[q]
  BY Zenon DEF TypeOK
<1>2. UNCHANGED <<state, pid, parent, chan, killed, kstack, nextpid, lock, cproc, mode, scan, ret, np>>
  BY Zenon DEF tableVars, cpuVars
<1>3. CpuInv'
  BY <1>1, <1>2, CpuKept, Zenon DEF TableInv
<1>4. \A q \in Slots : At(q)' \in ForkPoints => At(q)' = At(q)
  BY <1>1, <1>2, Zenon DEF At, Resumes
<1>5. ForkInv'
  BY <1>2, <1>4, ForkKept, Zenon DEF TableInv
<1>6. StackInv' /\ ParentInv' /\ SleepInv' /\ PidInv'
  BY <1>2 DEF TableInv, StackInv, ParentInv, ParentAlive, SleepInv, PidInv
<1> QED
  BY <1>3, <1>5, <1>6, Zenon DEF TableInv

(* A thread that is switched to releases ptable.lock and moves on.           *)
LEMMA Resumed ==
  ASSUME TypeOK, TableInv, NEW c \in CPUs, NEW p \in Slots, OnCpu(c, p), pc[p] \in Resumes,
         UNCHANGED <<tableVars, cproc, mode, scan, np>>, lock' = None, pc'[p] \notin Resumes,
         At(p)' \in ForkPoints => At(p)' = At(p),
         \A q \in Slots \ {p} : pc'[q] = pc[q] /\ ret'[q] = ret[q]
  PROVE  TableInv'
<1>1. UNCHANGED <<state, pid, parent, chan, killed, kstack, nextpid, cproc, mode, scan, np>>
  BY Zenon DEF tableVars
<1>2. lock = c
  BY Running, Zenon DEF TableInv
<1>3. CpuInv'
  BY <1>1, <1>2, LockReleased, Zenon DEF TableInv
<1>4. \A q \in Slots : At(q)' \in ForkPoints => At(q)' = At(q)
  BY Zenon DEF At
<1>5. ForkInv'
  BY <1>1, <1>4, ForkKept, Zenon DEF TableInv
<1>6. StackInv' /\ ParentInv' /\ SleepInv' /\ PidInv'
  BY <1>1 DEF TableInv, StackInv, ParentInv, ParentAlive, SleepInv, PidInv
<1> QED
  BY <1>3, <1>5, <1>6, Zenon DEF TableInv

(* The scheduler's steps that change no process.                             *)
LEMMA LoopStep ==
  ASSUME TypeOK, TableInv, NEW c \in CPUs,
         scheduler_acquire(c) \/ scheduler_release(c) \/ sched(c)
  PROVE  TableInv'
<1>1. UNCHANGED <<state, pid, parent, chan, killed, kstack, nextpid, pc, ret, np>>
  BY Zenon DEF scheduler_acquire, scheduler_release, sched, tableVars
<1>2. CpuInv'
  <2>1. CASE scheduler_acquire(c)
    BY <1>1, <2>1, SlotFacts DEF scheduler_acquire, TableInv, CpuInv, OnCpu, TypeOK
  <2>2. CASE scheduler_release(c)
    BY <1>1, <2>2, SlotFacts DEF scheduler_release, TableInv, CpuInv, OnCpu, TypeOK
  <2>3. CASE sched(c)
    <3>1. /\ cproc'[c] = 0 /\ mode'[c] = "scan"
          /\ \A d \in CPUs \ {c} : cproc'[d] = cproc[d] /\ mode'[d] = mode[d] /\ scan'[d] = scan[d]
      BY <2>3 DEF sched, TypeOK
    <3>2. lock' = lock /\ mode[c] = "sched" /\ cproc[c] # 0
      BY <2>3, Zenon DEF sched, TableInv, CpuInv
    <3>3. \A d \in CPUs : /\ mode'[d] \in {"scan", "sched"} => lock' = d
                          /\ mode'[d] = "run" /\ pc'[cproc'[d]] \in Resumes => lock' = d
                          /\ cproc'[d] # 0 <=> mode'[d] \in {"run", "sched"}
                          /\ cproc'[d] # 0 => scan'[d] \in Slots
                          /\ mode'[d] = "run" => state'[cproc'[d]] = "RUNNING"
                          /\ mode'[d] = "sched" => state'[cproc'[d]] \in Away
      BY <1>1, <3>1, <3>2 DEF TableInv, CpuInv
    <3>4. \A d, e \in CPUs : d # e /\ cproc'[d] # 0 => cproc'[d] # cproc'[e]
      BY <3>1, <3>2 DEF TableInv, CpuInv
    <3>5. \A p \in Slots : state'[p] = "RUNNING" => \E d \in CPUs : OnCpu(d, p)'
      BY <1>1, <3>1, <3>2 DEF TableInv, CpuInv, OnCpu
    <3> QED
      BY <3>3, <3>4, <3>5, Zenon DEF CpuInv
  <2> QED
    BY <2>1, <2>2, <2>3, Zenon
<1>3. ForkInv'
  BY <1>1 DEF TableInv, ForkInv, Filling, At
<1>4. StackInv' /\ ParentInv' /\ SleepInv' /\ PidInv'
  BY <1>1 DEF TableInv, StackInv, ParentInv, ParentAlive, SleepInv, PidInv
<1> QED
  BY <1>2, <1>3, <1>4, Zenon DEF TableInv

(* The switch to a RUNNABLE process.                                         *)
LEMMA SwitchStep ==
  ASSUME TypeOK, TableInv, NEW c \in CPUs, scheduler_switch(c)
  PROVE  TableInv'
<1>1. PICK s \in Slots : Switch(c, s)
  BY SwitchEffect, Zenon
<1>2. /\ mode[c] = "scan" /\ state[s] = "RUNNABLE"
      /\ UNCHANGED <<pid, parent, chan, killed, kstack, nextpid, lock, pc, ret, np>>
  BY <1>1, Zenon DEF Switch
<1>3. \A q \in Slots : state'[q] = IF q = s THEN "RUNNING" ELSE state[q]
  BY <1>1, Zenon DEF Switch, TypeOK
<1>4. CpuInv'
  <2>1. /\ cproc'[c] = s /\ mode'[c] = "run" /\ scan'[c] = s
        /\ \A d \in CPUs \ {c} : cproc'[d] = cproc[d] /\ mode'[d] = mode[d] /\ scan'[d] = scan[d]
    BY <1>1, Zenon DEF Switch, TypeOK
  <2>2. lock = c /\ \A d \in CPUs \ {c} : /\ mode[d] \notin {"scan", "sched"}
                                         /\ cproc[d] # 0 => cproc[d] \in Slots /\ cproc[d] # s
    BY <1>2 DEF TableInv, CpuInv, TypeOK
  <2>3. ASSUME NEW d \in CPUs
        PROVE  /\ mode'[d] \in {"scan", "sched"} => lock' = d
               /\ mode'[d] = "run" /\ pc'[cproc'[d]] \in Resumes => lock' = d
               /\ cproc'[d] # 0 <=> mode'[d] \in {"run", "sched"}
               /\ cproc'[d] # 0 => scan'[d] \in Slots
    <3>1. CASE d = c
      BY <1>2, <2>1, <2>2, <3>1, SlotFacts, Zenon
    <3>2. CASE d # c
      <4>1. cproc'[d] = cproc[d] /\ mode'[d] = mode[d] /\ scan'[d] = scan[d] /\ UNCHANGED <<lock, pc>>
        BY <1>2, <2>1, <3>2, Zenon
      <4> QED
        BY <4>1, Zenon DEF TableInv, CpuInv
    <3> QED
      BY <3>1, <3>2, Zenon
  <2>4. \A d \in CPUs : /\ mode'[d] = "run" => state'[cproc'[d]] = "RUNNING"
                        /\ mode'[d] = "sched" => state'[cproc'[d]] \in Away
    BY <1>2, <1>3, <2>1, <2>2 DEF TableInv, CpuInv
  <2>5. \A d, e \in CPUs : d # e /\ cproc'[d] # 0 => cproc'[d] # cproc'[e]
    BY <2>1, <2>2, SlotFacts DEF TableInv, CpuInv
  <2>6. ASSUME NEW q \in Slots, state'[q] = "RUNNING" PROVE \E d \in CPUs : OnCpu(d, q)'
    <3>1. CASE q = s
      BY <2>1, <3>1, Zenon DEF OnCpu
    <3>2. CASE q # s
      <4>1. PICK d \in CPUs : OnCpu(d, q)
        BY <1>3, <2>6, <3>2, Zenon DEF TableInv, CpuInv
      <4>2. d # c
        BY <1>2, <4>1, Zenon DEF OnCpu
      <4> QED
        BY <2>1, <4>1, <4>2, Zenon DEF OnCpu
    <3> QED
      BY <3>1, <3>2, Zenon
  <2> QED
    BY <2>3, <2>4, <2>5, <2>6, Zenon DEF CpuInv
<1>5. ForkInv'
  <2>1. \A q \in Slots : At(q)' = At(q)
    BY <1>2, Zenon DEF At
  <2> QED
    BY <1>2, <1>3, <2>1, ForkKept, Zenon DEF TableInv
<1>6. StackInv' /\ ParentInv' /\ SleepInv' /\ PidInv'
  BY <1>2, <1>3, StackKept, ParentKept, SleepKept, PidKept, Zenon DEF TableInv, Live
<1> QED
  BY <1>4, <1>5, <1>6, Zenon DEF TableInv

(* The points of the kernel are none at which a switched-to thread starts.   *)
LEMMA Points ==
  /\ KernelPoints \cap Resumes = {}
  /\ {"user", "trapret", "exit", "zombie"} \cap (Resumes \cup ForkPoints) = {}
  /\ {"fork", "wait", "kill"} \cap (Resumes \cup ForkPoints) = {}
BY Zenon DEF KernelPoints, ForkPoints, Resumes

(* yield() and forkret() after the switch, and the steps between user space  *)
(* and the kernel.                                                           *)
LEMMA TrapStep ==
  ASSUME TypeOK, TableInv, NEW c \in CPUs, NEW p \in Slots,
         yield_return(c, p) \/ forkret(c, p) \/ syscall(c, p) \/ trapret(c, p)
  PROVE  TableInv'
<1>1. CASE yield_return(c, p)
  <2>1. /\ OnCpu(c, p) /\ pc[p] = "yield" /\ lock' = None
        /\ UNCHANGED <<tableVars, cproc, mode, scan, np>>
    BY <1>1, Zenon DEF yield_return
  <2>2. /\ pc'[p] = ret[p] /\ ret'[p] = "user"
        /\ \A q \in Slots \ {p} : pc'[q] = pc[q] /\ ret'[q] = ret[q]
    BY <1>1, Zenon DEF yield_return, TypeOK
  <2>3. ret[p] \notin Resumes
    BY Points, Zenon DEF TypeOK, Resumes
  <2>4. At(p)' \in ForkPoints => At(p)' = At(p)
    BY <2>1, <2>2, <2>3, Zenon DEF At, Resumes
  <2> QED
    BY <2>1, <2>2, <2>3, <2>4, Resumed, Zenon DEF Resumes
<1>2. CASE forkret(c, p)
  <2>1. /\ OnCpu(c, p) /\ pc[p] = "forkret" /\ lock' = None
        /\ UNCHANGED <<tableVars, cproc, mode, scan, np, ret>>
    BY <1>2, Zenon DEF forkret
  <2>2. pc'[p] = "user" /\ \A q \in Slots \ {p} : pc'[q] = pc[q]
    BY <1>2, Zenon DEF forkret, TypeOK
  <2>3. At(p)' \notin ForkPoints
    BY <2>2, Zenon DEF At, ForkPoints
  <2> QED
    BY <2>1, <2>2, <2>3, Resumed, Zenon DEF Resumes
<1>3. CASE syscall(c, p)
  <2>1. PICK v \in {"fork", "wait", "kill", "exit"} : pc' = [pc EXCEPT ![p] = v]
    BY <1>3, Zenon DEF syscall, Calls
  <2>2. UNCHANGED <<tableVars, cpuVars, ret, np>>
    BY <1>3, Zenon DEF syscall
  <2>3. v \notin Resumes \cup ForkPoints
    BY Zenon DEF Resumes, ForkPoints
  <2> QED
    BY <2>1, <2>2, <2>3, PcMoves, Zenon
<1>4. CASE trapret(c, p)
  <2>1. PICK v \in {"user", "exit"} : pc' = [pc EXCEPT ![p] = v]
    BY <1>4, Zenon DEF trapret
  <2>2. UNCHANGED <<tableVars, cpuVars, ret, np>>
    BY <1>4, Zenon DEF trapret
  <2>3. v \notin Resumes \cup ForkPoints
    BY Zenon DEF Resumes, ForkPoints
  <2> QED
    BY <2>1, <2>2, <2>3, PcMoves, Zenon
<1> QED
  BY <1>1, <1>2, <1>3, <1>4, Zenon

(* A fault marks the thread that executes, which is no sleeper.              *)
LEMMA FaultStep ==
  ASSUME TypeOK, TableInv, NEW c \in CPUs, NEW p \in Slots, fault(c, p)
  PROVE  TableInv'
<1>1. state[p] = "RUNNING"
  BY Running, Zenon DEF fault, TableInv
<1>2. UNCHANGED <<state, pid, parent, chan, kstack, nextpid, lock, cproc, mode, scan, ret, np>>
  BY Zenon DEF fault, cpuVars
<1>3. \A q \in Slots : /\ pc'[q] = IF q = p THEN "exit" ELSE pc[q]
                       /\ q # p => killed'[q] = killed[q]
  BY Zenon DEF fault, TypeOK
<1>4. CpuInv'
  BY <1>2, <1>3, CpuKept, Zenon DEF TableInv, Resumes
<1>5. \A q \in Slots : At(q)' \in ForkPoints => At(q)' = At(q)
  BY <1>2, <1>3, Zenon DEF At, ForkPoints
<1>6. ForkInv'
  BY <1>2, <1>5, ForkKept, Zenon DEF TableInv
<1>7. SleepInv'
  BY <1>1, <1>2, <1>3, SleepKept, Zenon DEF TableInv
<1>8. StackInv' /\ ParentInv' /\ PidInv'
  BY <1>2 DEF TableInv, StackInv, ParentInv, ParentAlive, PidInv
<1> QED
  BY <1>4, <1>6, <1>7, <1>8, Zenon DEF TableInv

(* A clock tick: the thread exits, or enters sched() as RUNNABLE and will go *)
(* on where it was.                                                          *)
LEMMA TimerStep ==
  ASSUME TypeOK, TableInv, NEW c \in CPUs, NEW p \in Slots, timer(c, p)
  PROVE  TableInv'
<1>1. CASE pc' = [pc EXCEPT ![p] = "exit"] /\ UNCHANGED <<tableVars, cpuVars, ret, np>>
  BY <1>1, PcMoves, Points, Zenon
<1>2. CASE /\ lock = None /\ lock' = c
           /\ state' = [state EXCEPT ![p] = "RUNNABLE"]
           /\ ret' = [ret EXCEPT ![p] = IF pc[p] = "user" THEN "trapret" ELSE pc[p]]
           /\ pc' = [pc EXCEPT ![p] = "yield"]
           /\ mode' = [mode EXCEPT ![c] = "sched"]
           /\ UNCHANGED <<pid, parent, chan, killed, kstack, nextpid, cproc, scan, np>>
  <2>1. OnCpu(c, p) /\ pc[p] \in {"user"} \cup KernelPoints
    BY Zenon DEF timer
  <2>2. state[p] = "RUNNING"
    BY <2>1, Running, Zenon DEF TableInv
  <2>3. \A q \in Slots : /\ state'[q] = IF q = p THEN "RUNNABLE" ELSE state[q]
                         /\ pc'[q] = IF q = p THEN "yield" ELSE pc[q]
                         /\ q # p => ret'[q] = ret[q]
    BY <1>2, Zenon DEF TypeOK
  <2>4. CpuInv'
    BY <1>2, <2>1, <2>3, LockTaken, Zenon DEF TableInv, Away
  <2>5. \A q \in Slots : At(q)' \in ForkPoints => At(q)' = At(q)
    <3>1. pc[p] # "yield"
      BY <2>1, Zenon DEF KernelPoints, ForkPoints
    <3>2. ret'[p] = IF pc[p] = "user" THEN "trapret" ELSE pc[p]
      BY <1>2, Zenon DEF TypeOK
    <3> QED
      BY <2>3, <3>1, <3>2 DEF At, ForkPoints
  <2>6. ForkInv'
    BY <1>2, <2>2, <2>3, <2>5, ForkKept DEF TableInv
  <2>7. StackInv' /\ ParentInv' /\ SleepInv' /\ PidInv'
    BY <1>2, <2>2, <2>3, StackKept, ParentKept, SleepKept, PidKept DEF TableInv, Live
  <2> QED
    BY <2>4, <2>6, <2>7, Zenon DEF TableInv
<1> QED
  BY <1>1, <1>2, Zenon DEF timer

(* kill() marks a slot and makes a sleeper RUNNABLE.                         *)
LEMMA KillStep ==
  ASSUME TypeOK, TableInv, NEW c \in CPUs, NEW p \in Slots, NEW n \in Pids, kill(c, p, n)
  PROVE  TableInv'
<1>1. CASE pc' = [pc EXCEPT ![p] = "trapret"] /\ UNCHANGED <<tableVars, cpuVars, ret, np>>
  BY <1>1, PcMoves, Points, Zenon
<1>2. CASE \E s \in Slots : Kill(p, s)
  <2>1. PICK s \in Slots : Kill(p, s)
    BY <1>2, Zenon
  <2>2. UNCHANGED <<pid, parent, chan, kstack, nextpid, lock, cproc, mode, scan, ret, np>>
    BY <2>1, Zenon DEF Kill, cpuVars
  <2>3. \A q \in Slots : /\ state'[q] = IF q = s /\ state[s] = "SLEEPING" THEN "RUNNABLE" ELSE state[q]
                         /\ pc'[q] = IF q = p THEN "trapret" ELSE pc[q]
    BY <2>1, Zenon DEF Kill, Roused, TypeOK
  <2>4. \A q \in Slots : q # s => killed'[q] = killed[q]
    BY <2>1, Zenon DEF Kill, TypeOK
  <2>5. CpuInv'
    BY <2>2, <2>3, CpuKept, Zenon DEF TableInv, Resumes, Away
  <2>6. \A q \in Slots : At(q)' \in ForkPoints => At(q)' = At(q)
    BY <2>2, <2>3, Zenon DEF At, ForkPoints
  <2>7. ForkInv'
    BY <2>2, <2>3, <2>6, ForkKept, Zenon DEF TableInv
  <2>8. SleepInv'
    BY <2>2, <2>3, <2>4, SleepKept, Zenon DEF TableInv
  <2>9. StackInv' /\ ParentInv' /\ PidInv'
    BY <2>2, <2>3, StackKept, ParentKept, PidKept, Zenon DEF TableInv, Live
  <2> QED
    BY <2>5, <2>7, <2>8, <2>9, Zenon DEF TableInv
<1> QED
  BY <1>1, <1>2, KillEffect, Zenon

(* exit(): the children go to init, the sleeping parent, or init, is woken,  *)
(* and the thread enters sched() as a ZOMBIE.                                *)
LEMMA ExitStep ==
  ASSUME TypeOK, TableInv, NEW c \in CPUs, NEW p \in Slots, exit(c, p)
  PROVE  TableInv'
<1>1. CASE p = initproc
  <2>1. UNCHANGED <<state, pid, parent, chan, killed, kstack, nextpid, lock, cproc, mode, scan,
                    pc, ret, np>>
    BY <1>1, Zenon DEF exit, tableVars
  <2>2. CpuInv'
    BY <2>1 DEF TableInv, CpuInv, OnCpu
  <2>3. ForkInv'
    BY <2>1, Zenon DEF TableInv, ForkInv, Filling, At
  <2>4. StackInv' /\ ParentInv' /\ SleepInv' /\ PidInv'
    BY <2>1 DEF TableInv, StackInv, ParentInv, ParentAlive, SleepInv, PidInv
  <2> QED
    BY <2>2, <2>3, <2>4, Zenon DEF TableInv
<1>2. CASE p # initproc
  <2>1. /\ OnCpu(c, p) /\ pc[p] = "exit" /\ lock = None /\ lock' = c
        /\ state' = [Wakeup1(ExitChans(p)) EXCEPT ![p] = "ZOMBIE"]
        /\ parent' = Adopted(p)
        /\ pc' = [pc EXCEPT ![p] = "zombie"]
        /\ mode' = [mode EXCEPT ![c] = "sched"]
        /\ UNCHANGED <<pid, chan, killed, kstack, nextpid, cproc, scan, ret, np>>
    BY <1>2, Zenon DEF exit
  <2>2. state[p] = "RUNNING"
    BY <2>1, Running, Zenon DEF TableInv
  <2>3. /\ state'[p] = "ZOMBIE"
        /\ \A q \in Slots \ {p} :
             state'[q] = IF state[q] = "SLEEPING" /\ chan[q] \in ExitChans(p)
                         THEN "RUNNABLE" ELSE state[q]
    BY <2>1, Zenon DEF Wakeup1
  <2>4. \A q \in Slots : parent'[q] = IF parent[q] = p THEN initproc ELSE parent[q]
    BY <2>1, Zenon DEF Adopted
  <2>5. \A q \in Slots : pc'[q] = IF q = p THEN "zombie" ELSE pc[q]
    BY <2>1, Zenon DEF TypeOK
  <2>6. CpuInv'
    <3>1. \A q \in Slots \ {p} : /\ pc'[q] = pc[q]
                                 /\ state'[q] = "RUNNING" <=> state[q] = "RUNNING"
      BY <2>3, <2>5, Zenon
    <3>2. state'[p] \in Away /\ CpuInv
      BY <2>3, Zenon DEF Away, TableInv
    <3>3. /\ OnCpu(c, p) /\ lock \in {None, c} /\ lock' = c /\ UNCHANGED <<cproc, scan>>
          /\ mode' = [mode EXCEPT ![c] = "sched"]
      BY <2>1, Zenon
    <3> QED
      BY <3>1, <3>2, <3>3, LockTaken, Zenon
  <2>7. ForkInv'
    <3>1. \A q \in Slots : At(q)' \in ForkPoints => q # p /\ At(q)' = At(q)
      BY <2>1, <2>5 DEF At, ForkPoints
    <3> QED
      BY <2>1, <2>2, <2>3, <2>4, <3>1, SlotFacts, ForkKept DEF TableInv
  <2>8. StackInv' /\ PidInv'
    <3>1. \A q \in Slots : /\ state'[q] # "UNUSED" <=> state[q] # "UNUSED"
                           /\ state'[q] \notin {"UNUSED", "EMBRYO"} =>
                                state[q] \notin {"UNUSED", "EMBRYO"}
      BY <2>2, <2>3, Zenon
    <3>2. UNCHANGED <<kstack, pid, nextpid>>
      BY <2>1, Zenon
    <3> QED
      BY <3>1, <3>2, StackKept, PidKept, Zenon DEF TableInv
  <2>9. ParentInv'
    <3>1. \A q \in Slots : parent[q] \in Slots \cup {0}
      BY Zenon DEF TypeOK
    <3> QED
      BY <1>2, <2>2, <2>3, <2>4, <3>1, SlotFacts DEF TableInv, ParentInv, ParentAlive, Live
  <2>10. SleepInv'
    <3>1. ASSUME NEW q \in Slots, state'[q] = "SLEEPING"
          PROVE  /\ q # p /\ state[q] = "SLEEPING" /\ chan[q] = q /\ ~killed[q]
                 /\ q \notin ExitChans(p)
                 /\ \A s \in Slots : parent[s] = q => state[s] # "ZOMBIE"
      BY <2>3, <3>1, Zenon DEF TableInv, SleepInv
    <3>2. ASSUME NEW q \in Slots, state'[q] = "SLEEPING", NEW s \in Slots, parent'[s] = q
          PROVE  state'[s] # "ZOMBIE"
      <4>1. CASE s = p
        BY <2>4, <3>1, <3>2, <4>1 DEF ExitChans, TableInv, ParentInv
      <4>2. CASE s # p /\ parent[s] = p
        <5>1. q = initproc /\ initproc \notin ExitChans(p)
          BY <2>4, <3>1, <3>2, <4>2
        <5>2. state[s] # "ZOMBIE"
          BY <4>2, <5>1, Zenon DEF ExitChans, Children
        <5> QED
          BY <2>3, <4>2, <5>2, Zenon
      <4>3. CASE s # p /\ parent[s] # p
        BY <2>3, <2>4, <3>1, <3>2, <4>3
      <4> QED
        BY <4>1, <4>2, <4>3, Zenon
    <3> QED
      BY <2>1, <3>1, <3>2, Zenon DEF SleepInv
  <2> QED
    BY <2>6, <2>7, <2>8, <2>9, <2>10, Zenon DEF TableInv
<1> QED
  BY <1>1, <1>2, Zenon

(* wait() reaps a ZOMBIE child and releases the lock.                        *)
LEMMA ReapStep ==
  ASSUME TypeOK, TableInv, NEW c \in CPUs, NEW p \in Slots, OnCpu(c, p), lock \in {None, c},
         pc[p] \in {"wait", "sleep"}, NEW s \in Slots, Reap(p, s)
  PROVE  TableInv'
<1>1. /\ parent[s] = p /\ state[s] = "ZOMBIE" /\ lock' = None
      /\ UNCHANGED <<mode, nextpid, cproc, scan, ret, np>>
  BY Zenon DEF Reap
<1>2. state[p] = "RUNNING"
  BY Running, Zenon DEF TableInv
<1>3. \A q \in Slots : /\ state'[q] = IF q = s THEN "UNUSED" ELSE state[q]
                       /\ pc'[q] = IF q = p THEN "trapret" ELSE pc[q]
                       /\ parent'[q] = IF q = s THEN 0 ELSE parent[q]
  BY Zenon DEF Reap, TypeOK
<1>4. ~kstack'[s] /\ \A q \in Slots \ {s} : kstack'[q] = kstack[q]
  BY Zenon DEF Reap, TypeOK
<1>5. \A q \in Slots : /\ q # s => pid'[q] = pid[q] /\ killed'[q] = killed[q]
                       /\ q # p => chan'[q] = chan[q]
  BY Zenon DEF Reap, TypeOK
<1>6. CpuInv'
  BY <1>1, <1>3, LockReleased DEF TableInv, Resumes
<1>7. \A q \in Slots : At(q)' \in ForkPoints => At(q)' = At(q)
  BY <1>1, <1>3 DEF At, ForkPoints
<1>8. ForkInv'
  BY <1>1, <1>3, <1>4, <1>7, ForkKept, Zenon DEF TableInv
<1>9. StackInv'
  BY <1>3, <1>4, Zenon DEF TableInv, StackInv
<1>10. ParentInv'
  <2>1. \A q \in Slots : parent[q] \in Slots \cup {0}
    BY Zenon DEF TypeOK
  <2> QED
    BY <1>1, <1>3, <2>1, SlotFacts DEF TableInv, ParentInv, ParentAlive, Live
<1>11. SleepInv'
  BY <1>2, <1>3, <1>5, SleepKept, Zenon DEF TableInv
<1>12. PidInv'
  <2>1. \A q \in Slots : state'[q] # "UNUSED" => state[q] # "UNUSED" /\ pid'[q] = pid[q]
    BY <1>3, <1>5, Zenon
  <2>2. PidInv /\ nextpid' = nextpid
    BY <1>1, Zenon DEF TableInv
  <2> QED
    BY <2>1, <2>2, Zenon DEF PidInv
<1> QED
  BY <1>6, <1>8, <1>9, <1>10, <1>11, <1>12, Zenon DEF TableInv

(* One turn of wait().                                                       *)
LEMMA WaitStep ==
  ASSUME TypeOK, TableInv, NEW c \in CPUs, NEW p \in Slots, wait(c, p)
  PROVE  TableInv'
<1>1. OnCpu(c, p) /\ pc[p] \in {"wait", "sleep"} /\ lock \in {None, c} /\ state[p] = "RUNNING"
  BY Running, Zenon DEF wait, Resumes, TableInv
<1>2. CASE \E s \in Slots : Reap(p, s)
  BY <1>1, <1>2, ReapStep, Zenon
<1>3. CASE /\ chan' = [chan EXCEPT ![p] = 0] /\ lock' = None /\ pc' = [pc EXCEPT ![p] = "trapret"]
           /\ UNCHANGED <<state, pid, parent, killed, kstack, mode, nextpid, cproc, scan, ret, np>>
  <2>1. \A q \in Slots : /\ pc'[q] = IF q = p THEN "trapret" ELSE pc[q]
                         /\ q # p => chan'[q] = chan[q]
    BY <1>3, Zenon DEF TypeOK
  <2>2. CpuInv'
    BY <1>1, <1>3, <2>1, LockReleased DEF TableInv, Resumes
  <2>3. \A q \in Slots : At(q)' \in ForkPoints => At(q)' = At(q)
    BY <1>3, <2>1 DEF At, ForkPoints
  <2>4. ForkInv'
    BY <1>3, <2>3, ForkKept, Zenon DEF TableInv
  <2>5. SleepInv'
    BY <1>1, <1>3, <2>1, SleepKept, Zenon DEF TableInv
  <2>6. StackInv' /\ ParentInv' /\ PidInv'
    BY <1>3, Zenon DEF TableInv, StackInv, ParentInv, ParentAlive, PidInv
  <2> QED
    BY <2>2, <2>4, <2>5, <2>6, Zenon DEF TableInv
<1>4. CASE /\ ~killed[p] /\ \A s \in Slots : parent[s] = p => state[s] # "ZOMBIE"
           /\ chan' = [chan EXCEPT ![p] = p] /\ state' = [state EXCEPT ![p] = "SLEEPING"]
           /\ lock' = c /\ pc' = [pc EXCEPT ![p] = "sleep"] /\ mode' = [mode EXCEPT ![c] = "sched"]
           /\ UNCHANGED <<pid, parent, killed, kstack, nextpid, cproc, scan, ret, np>>
  <2>0. UNCHANGED <<pid, parent, killed, kstack, nextpid, ret, np>>
    BY <1>4, Zenon
  <2>1. \A q \in Slots : /\ pc'[q] = IF q = p THEN "sleep" ELSE pc[q]
                         /\ chan'[q] = IF q = p THEN p ELSE chan[q]
                         /\ state'[q] = IF q = p THEN "SLEEPING" ELSE state[q]
    BY <1>4, Zenon DEF TypeOK
  <2>2. CpuInv'
    BY <1>1, <1>4, <2>1, LockTaken, Zenon DEF TableInv, Away
  <2>3. \A q \in Slots : At(q)' \in ForkPoints => q # p /\ At(q)' = At(q)
    BY <2>0, <2>1 DEF At, ForkPoints
  <2>4. ForkInv'
    BY <1>1, <2>0, <2>1, <2>3, ForkKept, Zenon DEF TableInv
  <2>5. SleepInv'
    <3>1. ~killed'[p] /\ \A s \in Slots : parent'[s] = p => state'[s] # "ZOMBIE"
      BY <1>4, <2>0, <2>1
    <3>2. \A q \in Slots \ {p} : chan'[q] = chan[q] /\ state'[q] = state[q]
      BY <2>1, Zenon
    <3> QED
      BY <1>1, <2>0, <2>1, <3>1, <3>2 DEF TableInv, SleepInv
  <2>6. StackInv' /\ PidInv'
    BY <1>1, <2>0, <2>1, StackKept, PidKept, Zenon DEF TableInv
  <2>7. ParentInv'
    BY <1>1, <2>0, <2>1, ParentKept, Zenon DEF TableInv, Live
  <2> QED
    BY <2>2, <2>4, <2>5, <2>6, <2>7, Zenon DEF TableInv
<1> QED
  BY <1>2, <1>3, <1>4, WaitEffect

(* allocproc() takes an UNUSED slot.                                         *)
LEMMA AllocStep ==
  ASSUME TypeOK, TableInv, NEW c \in CPUs, NEW p \in Slots, allocproc(c, p)
  PROVE  TableInv'
<1>1. OnCpu(c, p) /\ pc[p] = "fork" /\ state[p] = "RUNNING"
  BY Running, Zenon DEF allocproc, TableInv
<1>2. CASE pc' = [pc EXCEPT ![p] = "trapret"] /\ UNCHANGED <<tableVars, cpuVars, ret, np>>
  BY <1>2, PcMoves, Points, Zenon
<1>3. CASE \E s \in Slots : Alloc(p, s)
  <2>1. PICK s \in Slots : Alloc(p, s)
    BY <1>3, Zenon
  <2>2. /\ state[s] = "UNUSED" /\ nextpid' = nextpid + 1
        /\ UNCHANGED <<parent, chan, killed, kstack, lock, cproc, mode, scan, ret>>
    BY <2>1, Zenon DEF Alloc, cpuVars
  <2>3. \A q \in Slots : /\ state'[q] = IF q = s THEN "EMBRYO" ELSE state[q]
                         /\ pc'[q] = IF q = p THEN "kalloc" ELSE pc[q]
                         /\ np'[q] = IF q = p THEN s ELSE np[q]
                         /\ pid'[q] = IF q = s THEN nextpid ELSE pid[q]
    BY <2>1, Zenon DEF Alloc, TypeOK
  <2>4. CpuInv'
    BY <2>2, <2>3, CpuKept, Zenon DEF TableInv, Resumes, Away
  <2>5. ForkInv'
    <3>1. \A q \in Slots : At(q)' = IF q = p THEN "kalloc" ELSE At(q)
      BY <2>2, <2>3, Zenon DEF At
    <3>2. ~kstack[s]
      BY <2>2, Zenon DEF TableInv, StackInv
    <3>3. Filling(p)'
      <4>1. np'[p] = s /\ state'[p] = "RUNNING" /\ state'[s] = "EMBRYO" /\ ~kstack'[s] /\ At(p)' = "kalloc"
        BY <1>1, <2>2, <2>3, <3>1, <3>2, Zenon
      <4> QED
        BY <4>1, SlotFacts, Zenon DEF Filling
    <3>4. ASSUME NEW q \in Slots, q # p, At(q)' \in ForkPoints
          PROVE  At(q)' = At(q) /\ Filling(q) /\ np[q] # s /\ np[q] \in Slots /\ q # s
      BY <2>2, <3>1, <3>4 DEF TableInv, ForkInv, Filling, TypeOK
    <3>5. ASSUME NEW q \in Slots, q # p, At(q)' \in ForkPoints PROVE Filling(q)'
      BY <2>2, <2>3, <3>4, <3>5 DEF Filling
    <3>6. ASSUME NEW q \in Slots, NEW r \in Slots, q # r, At(q)' \in ForkPoints, At(r)' \in ForkPoints
          PROVE  np'[q] # np'[r]
      <4>1. CASE q = p
        BY <2>3, <3>4, <3>6, <4>1, Zenon
      <4>2. CASE r = p
        BY <2>3, <3>4, <3>6, <4>2, Zenon
      <4>3. CASE q # p /\ r # p
        BY <2>3, <3>4, <3>6, <4>3 DEF TableInv, ForkInv
      <4> QED
        BY <4>1, <4>2, <4>3, Zenon
    <3> QED
      BY <3>3, <3>5, <3>6, Zenon DEF ForkInv
  <2>6. StackInv' /\ ParentInv' /\ SleepInv'
    BY <2>2, <2>3, StackKept, ParentKept, SleepKept DEF TableInv, Live
  <2>7. PidInv'
    <3>1. nextpid \in Nat /\ \A q \in Slots : pid[q] \in Nat
      BY DEF TypeOK, Pids
    <3>2. \A q \in Slots : state'[q] # "UNUSED" =>
            (q = s /\ pid'[q] = nextpid) \/ (q # s /\ state[q] # "UNUSED" /\ pid'[q] = pid[q])
      BY <2>3, Zenon
    <3>3. PidInv /\ nextpid' = nextpid + 1
      BY <2>2, Zenon DEF TableInv
    <3>4. ASSUME NEW q \in Slots, state'[q] # "UNUSED" PROVE pid'[q] < nextpid'
      <4>1. pid'[q] \in Nat /\ (pid'[q] = nextpid \/ pid'[q] < nextpid)
        BY <3>1, <3>2, <3>3, <3>4, Zenon DEF PidInv
      <4> QED
        BY <3>1, <3>3, <4>1
    <3>5. \A q, r \in Slots : q # r /\ state'[q] # "UNUSED" /\ state'[r] # "UNUSED" => pid'[q] # pid'[r]
      BY <3>1, <3>2, <3>3 DEF PidInv
    <3> QED
      BY <3>4, <3>5, Zenon DEF PidInv
  <2> QED
    BY <2>4, <2>5, <2>6, <2>7, Zenon DEF TableInv
<1> QED
  BY <1>2, <1>3, AllocEffect, Zenon DEF tableVars

(* fork() goes on to another of its points, or gives up the slot it fills;   *)
(* what other forks fill is left alone.                                      *)
LEMMA ForkMoves ==
  ASSUME TypeOK, CpuInv, ForkInv, NEW c \in CPUs, NEW p \in Slots, OnCpu(c, p),
         pc[p] \in ForkPoints, ret' = ret, At(p)' \in ForkPoints => Filling(p)' /\ np'[p] = np[p],
         \A q \in Slots \ {p} : np'[q] = np[q] /\ (q # np[p] => pc'[q] = pc[q]),
         \A q \in Slots : q = np[p] => pc'[q] \in {pc[q], "forkret"},
         \A q \in Slots : q # np[p] => /\ state'[q] = state[q] /\ kstack'[q] = kstack[q]
                                       /\ parent'[q] = parent[q]
  PROVE  ForkInv'
<1>1. /\ np[p] \in Slots /\ np[p] # p /\ state[np[p]] = "EMBRYO"
      /\ \A q \in Slots : q # p /\ At(q) \in ForkPoints => np[q] # np[p]
  <2>1. np[p] \in Slots /\ np[p] # p /\ state[np[p]] = "EMBRYO"
    BY Forking
  <2>2. \A q \in Slots : q # p /\ At(q) \in ForkPoints => np[q] # np[p]
    BY Forking, Zenon
  <2> QED
    BY <2>1, <2>2, Zenon
<1>2. \A q \in Slots : At(q) \in ForkPoints => q # np[p]
  BY <1>1, Zenon DEF ForkInv, Filling
<1>3. ASSUME NEW q \in Slots, q # p, At(q)' \in ForkPoints
      PROVE  /\ At(q)' = At(q) /\ Filling(q) /\ np[q] # np[p] /\ np[q] \in Slots /\ q # np[p]
  <2>1. At(q)' = At(q)
    BY <1>3, Zenon DEF At, ForkPoints
  <2>2. Filling(q) /\ q # np[p] /\ np[q] # np[p]
    BY <1>1, <1>2, <1>3, <2>1, Zenon DEF ForkInv
  <2> QED
    BY <2>1, <2>2 DEF Filling, TypeOK
<1>4. ASSUME NEW q \in Slots, q # p, At(q)' \in ForkPoints PROVE Filling(q)'
  <2>1. /\ At(q)' = At(q) /\ Filling(q) /\ np[q] # np[p] /\ np[q] \in Slots /\ q # np[p]
    BY <1>3, <1>4, Zenon
  <2>2. /\ np'[q] = np[q] /\ state'[q] = state[q] /\ state'[np[q]] = state[np[q]]
        /\ kstack'[np[q]] = kstack[np[q]] /\ parent'[np[q]] = parent[np[q]]
    BY <1>4, <2>1, Zenon
  <2> QED
    BY <2>1, <2>2, Zenon DEF Filling
<1>5. ASSUME NEW q \in Slots, NEW r \in Slots, q # r, At(q)' \in ForkPoints, At(r)' \in ForkPoints
      PROVE  np'[q] # np'[r]
  <2>1. CASE q = p
    BY <1>3, <1>5, <2>1, Zenon
  <2>2. CASE r = p
    BY <1>3, <1>5, <2>2, Zenon
  <2>3. CASE q # p /\ r # p
    BY <1>3, <1>5, <2>3 DEF ForkInv
  <2> QED
    BY <2>1, <2>2, <2>3, Zenon
<1> QED
  BY <1>4, <1>5, Zenon DEF ForkInv

(* fork() gives its slot back, which has no stack any more.                  *)
LEMMA GivenUp ==
  ASSUME TypeOK, TableInv, NEW c \in CPUs, NEW p \in Slots, OnCpu(c, p), pc[p] \in ForkPoints,
         ~kstack[np[p]], state' = [state EXCEPT ![np[p]] = "UNUSED"],
         np' = [np EXCEPT ![p] = 0], pc' = [pc EXCEPT ![p] = "trapret"],
         UNCHANGED <<pid, parent, chan, killed, kstack, nextpid, lock, cproc, mode, scan, ret>>
  PROVE  TableInv'
<1>1. np[p] \in Slots /\ np[p] # p /\ state[np[p]] = "EMBRYO"
  BY Forking, Zenon DEF TableInv
<1>2. \A q \in Slots : /\ state'[q] = IF q = np[p] THEN "UNUSED" ELSE state[q]
                       /\ pc'[q] = IF q = p THEN "trapret" ELSE pc[q]
                       /\ q # p => np'[q] = np[q]
  BY Zenon DEF TypeOK
<1>3. CpuInv'
  BY <1>1, <1>2, CpuKept DEF TableInv, Resumes, Away
<1>4. At(p)' \notin ForkPoints
  BY <1>2 DEF At, ForkPoints
<1>5. ForkInv'
  BY <1>1, <1>2, <1>4, ForkMoves DEF TableInv
<1>6. StackInv'
  BY <1>1, <1>2 DEF TableInv, StackInv
<1>7. ParentInv' /\ SleepInv' /\ PidInv'
  BY <1>1, <1>2, ParentKept, SleepKept, PidKept DEF TableInv, Live
<1> QED
  BY <1>3, <1>5, <1>6, <1>7, Zenon DEF TableInv

(* The kernel stack of the new process.                                      *)
LEMMA KstackStep ==
  ASSUME TypeOK, TableInv, NEW c \in CPUs, NEW p \in Slots, fork_kstack(c, p)
  PROVE  TableInv'
<1>1. OnCpu(c, p) /\ pc[p] = "kalloc" /\ pc[p] \in ForkPoints
  BY Zenon DEF fork_kstack, ForkPoints
<1>2. /\ At(p) = pc[p] /\ state[p] = "RUNNING" /\ np[p] \in Slots /\ np[p] # p
      /\ state[np[p]] = "EMBRYO" /\ ~kstack[np[p]]
  BY <1>1, Forking, Zenon DEF TableInv
<1>3. UNCHANGED <<pid, parent, chan, killed, nextpid, lock, cproc, mode, scan, ret>>
  BY Zenon DEF fork_kstack, cpuVars
<1>4. CASE /\ kstack' = [kstack EXCEPT ![np[p]] = TRUE]
           /\ pc' = [pc EXCEPT ![p] = "copyuvm", ![np[p]] = "forkret"]
           /\ UNCHANGED <<state, np>>
  <2>1. \A q \in Slots : pc'[q] = IF q = np[p] THEN "forkret" ELSE IF q = p THEN "copyuvm" ELSE pc[q]
    BY <1>2, <1>4, Zenon DEF TypeOK
  <2>2. kstack'[np[p]] /\ \A q \in Slots : q # np[p] => kstack'[q] = kstack[q]
    BY <1>2, <1>4, Zenon DEF TypeOK
  <2>3. CpuInv'
    <3>1. \A q \in Slots : state[q] = "RUNNING" /\ pc'[q] \in Resumes => pc[q] \in Resumes
      BY <1>2, <2>1, Zenon DEF Resumes
    <3> QED
      BY <1>3, <1>4, <3>1, CpuKept, Zenon DEF TableInv
  <2>4. Filling(p)' /\ np'[p] = np[p]
    <3>1. At(p)' = "copyuvm"
      BY <1>2, <2>1, Zenon DEF At
    <3> QED
      BY <1>2, <1>4, <2>2, <3>1, SlotFacts, Zenon DEF Filling
  <2>5. ForkInv'
    <3>1. \A q \in Slots : q # np[p] => /\ state'[q] = state[q] /\ kstack'[q] = kstack[q]
                                        /\ parent'[q] = parent[q]
      BY <1>3, <1>4, <2>2, Zenon
    <3>2. /\ \A q \in Slots \ {p} : np'[q] = np[q] /\ (q # np[p] => pc'[q] = pc[q])
          /\ \A q \in Slots : q = np[p] => pc'[q] \in {pc[q], "forkret"}
      BY <1>2, <1>3, <1>4, <2>1, Zenon
    <3>3. CpuInv /\ ForkInv /\ ret' = ret
      BY <1>3, Zenon DEF TableInv
    <3> QED
      BY <1>1, <2>4, <3>1, <3>2, <3>3, ForkMoves, Zenon
  <2>6. StackInv'
    BY <1>2, <1>4, <2>2, Zenon DEF TableInv, StackInv
  <2>7. ParentInv' /\ SleepInv' /\ PidInv'
    BY <1>3, <1>4 DEF TableInv, ParentInv, ParentAlive, SleepInv, PidInv
  <2> QED
    BY <2>3, <2>5, <2>6, <2>7, Zenon DEF TableInv
<1>5. CASE /\ state' = [state EXCEPT ![np[p]] = "UNUSED"] /\ np' = [np EXCEPT ![p] = 0]
           /\ pc' = [pc EXCEPT ![p] = "trapret"] /\ kstack' = kstack
  BY <1>1, <1>2, <1>3, <1>5, GivenUp, Zenon
<1> QED
  BY <1>4, <1>5, Zenon DEF fork_kstack

(* copyuvm(), after which the child has a parent.                            *)
LEMMA CopyStep ==
  ASSUME TypeOK, TableInv, NEW c \in CPUs, NEW p \in Slots, fork_copyuvm(c, p)
  PROVE  TableInv'
<1>1. OnCpu(c, p) /\ pc[p] = "copyuvm" /\ pc[p] \in ForkPoints
  BY Zenon DEF fork_copyuvm, ForkPoints
<1>2. /\ At(p) = pc[p] /\ state[p] = "RUNNING" /\ np[p] \in Slots /\ np[p] # p
      /\ state[np[p]] = "EMBRYO" /\ kstack[np[p]]
  BY <1>1, Forking, Zenon DEF TableInv
<1>3. UNCHANGED <<state, pid, chan, killed, nextpid, lock, cproc, mode, scan, ret, np>>
  BY Zenon DEF fork_copyuvm, cpuVars
<1>4. CASE /\ parent' = [parent EXCEPT ![np[p]] = p] /\ pc' = [pc EXCEPT ![p] = "publish"]
           /\ kstack' = kstack
  <2>1. \A q \in Slots : /\ pc'[q] = IF q = p THEN "publish" ELSE pc[q]
                         /\ parent'[q] = IF q = np[p] THEN p ELSE parent[q]
    BY <1>4, Zenon DEF TypeOK
  <2>2. CpuInv'
    BY <1>3, <2>1, CpuKept, Zenon DEF TableInv, Resumes
  <2>3. Filling(p)' /\ np'[p] = np[p]
    <3>1. At(p)' = "publish"
      BY <2>1, Zenon DEF At
    <3> QED
      BY <1>2, <1>3, <1>4, <2>1, <3>1, SlotFacts DEF Filling
  <2>4. ForkInv'
    <3>1. \A q \in Slots : q # np[p] => /\ state'[q] = state[q] /\ kstack'[q] = kstack[q]
                                        /\ parent'[q] = parent[q]
      BY <1>3, <1>4, <2>1, Zenon
    <3>2. /\ \A q \in Slots \ {p} : np'[q] = np[q] /\ (q # np[p] => pc'[q] = pc[q])
          /\ \A q \in Slots : q = np[p] => pc'[q] \in {pc[q], "forkret"}
      BY <1>2, <1>3, <2>1, Zenon
    <3>3. CpuInv /\ ForkInv /\ ret' = ret
      BY <1>3, Zenon DEF TableInv
    <3> QED
      BY <1>1, <2>3, <3>1, <3>2, <3>3, ForkMoves, Zenon
  <2>5. ParentInv'
    <3>1. \A q \in Slots : parent[q] \in Slots \cup {0}
      BY Zenon DEF TypeOK
    <3> QED
      BY <1>2, <1>3, <2>1, <3>1, SlotFacts DEF TableInv, ParentInv, ParentAlive, Live
  <2>6. SleepInv'
    BY <1>2, <1>3, <2>1, SleepKept, Zenon DEF TableInv
  <2>7. StackInv' /\ PidInv'
    BY <1>3, <1>4, Zenon DEF TableInv, StackInv, PidInv
  <2> QED
    BY <2>2, <2>4, <2>5, <2>6, <2>7, Zenon DEF TableInv
<1>5. CASE /\ kstack' = [kstack EXCEPT ![np[p]] = FALSE] /\ pc' = [pc EXCEPT ![p] = "undo"]
           /\ parent' = parent
  <2>1. \A q \in Slots : pc'[q] = IF q = p THEN "undo" ELSE pc[q]
    BY <1>5, Zenon DEF TypeOK
  <2>2. ~kstack'[np[p]] /\ \A q \in Slots : q # np[p] => kstack'[q] = kstack[q]
    BY <1>2, <1>5, Zenon DEF TypeOK
  <2>3. CpuInv'
    BY <1>3, <2>1, CpuKept, Zenon DEF TableInv, Resumes
  <2>4. Filling(p)' /\ np'[p] = np[p]
    <3>1. At(p)' = "undo"
      BY <2>1, Zenon DEF At
    <3> QED
      BY <1>2, <1>3, <2>2, <3>1, SlotFacts, Zenon DEF Filling
  <2>5. ForkInv'
    <3>1. \A q \in Slots : q # np[p] => /\ state'[q] = state[q] /\ kstack'[q] = kstack[q]
                                        /\ parent'[q] = parent[q]
      BY <1>3, <1>5, <2>2, Zenon
    <3>2. /\ \A q \in Slots \ {p} : np'[q] = np[q] /\ (q # np[p] => pc'[q] = pc[q])
          /\ \A q \in Slots : q = np[p] => pc'[q] \in {pc[q], "forkret"}
      BY <1>2, <1>3, <1>5, <2>1, Zenon
    <3>3. CpuInv /\ ForkInv /\ ret' = ret
      BY <1>3, Zenon DEF TableInv
    <3> QED
      BY <1>1, <2>4, <3>1, <3>2, <3>3, ForkMoves, Zenon
  <2>6. StackInv'
    BY <1>2, <1>3, <2>2, Zenon DEF TableInv, StackInv
  <2>7. ParentInv' /\ SleepInv' /\ PidInv'
    BY <1>3, <1>5 DEF TableInv, ParentInv, ParentAlive, SleepInv, PidInv
  <2> QED
    BY <2>3, <2>5, <2>6, <2>7, Zenon DEF TableInv
<1> QED
  BY <1>4, <1>5, Zenon DEF fork_copyuvm, Freed

(* The end of fork(): the slot is given back, or becomes RUNNABLE.           *)
LEMMA ForkEnds ==
  ASSUME TypeOK, TableInv, NEW c \in CPUs, NEW p \in Slots, fork_undo(c, p) \/ fork_publish(c, p)
  PROVE  TableInv'
<1>1. OnCpu(c, p) /\ pc[p] \in ForkPoints
  BY Zenon DEF fork_undo, fork_publish, ForkPoints
<1>2. /\ state[p] = "RUNNING" /\ np[p] \in Slots /\ np[p] # p /\ state[np[p]] = "EMBRYO"
      /\ pc[p] \in {"copyuvm", "publish"} <=> kstack[np[p]]
      /\ pc[p] = "publish" => parent[np[p]] # 0
  BY <1>1, Forking, Zenon DEF TableInv
<1>3. /\ UNCHANGED <<pid, parent, chan, killed, kstack, nextpid, lock, cproc, mode, scan, ret>>
      /\ np' = [np EXCEPT ![p] = 0] /\ pc' = [pc EXCEPT ![p] = "trapret"]
  BY Zenon DEF fork_undo, fork_publish, cpuVars
<1>4. CASE fork_undo(c, p)
  <2>1. state' = [state EXCEPT ![np[p]] = "UNUSED"] /\ ~kstack[np[p]]
    BY <1>2, <1>4, Zenon DEF fork_undo
  <2> QED
    BY <1>1, <1>3, <2>1, GivenUp, Zenon
<1>5. CASE fork_publish(c, p)
  <2>1. kstack[np[p]] /\ parent[np[p]] # 0
    BY <1>2, <1>5, Zenon DEF fork_publish
  <2>2. \A q \in Slots : /\ state'[q] = IF q = np[p] THEN "RUNNABLE" ELSE state[q]
                         /\ pc'[q] = IF q = p THEN "trapret" ELSE pc[q]
                         /\ q # p => np'[q] = np[q]
    BY <1>3, <1>5, Zenon DEF fork_publish, TypeOK
  <2>3. CpuInv'
    BY <1>2, <1>3, <2>2, CpuKept DEF TableInv, Resumes, Away
  <2>4. At(p)' \notin ForkPoints
    BY <2>2, Zenon DEF At, ForkPoints
  <2>5. ForkInv'
    BY <1>1, <1>2, <1>3, <2>2, <2>4, ForkMoves DEF TableInv
  <2>6. StackInv'
    BY <1>2, <1>3, <2>1, <2>2, Zenon DEF TableInv, StackInv
  <2>7. ParentInv'
    <3>1. \A q \in Slots : parent[q] \in Slots \cup {0}
      BY Zenon DEF TypeOK
    <3> QED
      BY <1>2, <1>3, <2>1, <2>2, <3>1, SlotFacts, Zenon DEF TableInv, ParentInv, ParentAlive, Live
  <2>8. SleepInv' /\ PidInv'
    BY <1>2, <1>3, <2>2, SleepKept, PidKept, Zenon DEF TableInv
  <2> QED
    BY <2>3, <2>5, <2>6, <2>7, <2>8, Zenon DEF TableInv
<1> QED
  BY <1>4, <1>5, Zenon

-----------------------------------------------------------------------------
(* The values the steps assign are of the right types.                       *)
LEMMA Names ==
  /\ {"UNUSED", "EMBRYO", "SLEEPING", "RUNNABLE", "RUNNING", "ZOMBIE"} \subseteq States
  /\ {"user", "forkret", "yield", "sleep", "zombie", "fork", "wait", "kill", "exit", "trapret",
      "kalloc", "copyuvm", "undo", "publish"} \subseteq PCs
  /\ KernelPoints \subseteq PCs /\ "trapret" \in KernelPoints /\ 0 \in Pids
BY ProcAssumption DEF States, PCs, KernelPoints, ForkPoints, Pids

(* The scheduler's steps keep the types; its loop ends one past the last slot. *)
LEMMA SchedulerTypes ==
  ASSUME TypeOK, CpuInv, NEW c \in CPUs, scheduler(c)
  PROVE  TypeOK'
<1>1. CASE scheduler_acquire(c)
  <2>1. 1 \in 1..(NPROC + 1)
    BY ProcAssumption
  <2> QED
    BY <1>1, <2>1, Zenon DEF scheduler_acquire, tableVars, TypeOK
<1>2. CASE scheduler_switch(c)
  <2>1. PICK s \in Slots : Switch(c, s)
    BY <1>2, SwitchEffect, Zenon
  <2>2. s \in 1..(NPROC + 1)
    BY ProcAssumption DEF Slots
  <2>3. state' \in [Slots -> States]
    BY <2>1, Names, Zenon DEF Switch, TypeOK
  <2>4. /\ cproc' \in [CPUs -> Slots \cup {0}] /\ mode' \in [CPUs -> {"idle", "scan", "run", "sched"}]
        /\ scan' \in [CPUs -> 1..(NPROC + 1)]
    BY <2>1, <2>2, Zenon DEF Switch, TypeOK
  <2> QED
    BY <2>1, <2>3, <2>4, Zenon DEF Switch, TypeOK
<1>3. CASE scheduler_release(c)
  BY <1>3, Zenon DEF scheduler_release, tableVars, TypeOK
<1>4. CASE sched(c)
  <2>1. scan[c] + 1 \in 1..(NPROC + 1)
    <3>1. scan[c] \in Slots
      BY <1>4, Zenon DEF sched, CpuInv
    <3> QED
      BY <3>1, ProcAssumption DEF Slots
  <2> QED
    BY <1>4, <2>1, Zenon DEF sched, NextSlot, tableVars, TypeOK
<1> QED
  BY <1>1, <1>2, <1>3, <1>4, Zenon DEF scheduler

(* The steps of a trap keep the types.                                       *)
LEMMA TrapTypes ==
  ASSUME TypeOK, NEW c \in CPUs, NEW p \in Slots,
         resume(c, p) \/ syscall(c, p) \/ fault(c, p) \/ trapret(c, p) \/ timer(c, p)
  PROVE  TypeOK'
<1>1. CASE yield_return(c, p)
  <2>1. ret[p] \in PCs
    BY Names, Zenon DEF TypeOK
  <2> QED
    BY <1>1, <2>1, Zenon DEF yield_return, tableVars, TypeOK
<1>2. CASE forkret(c, p)
  BY <1>2, Names, Zenon DEF forkret, tableVars, TypeOK
<1>3. CASE syscall(c, p)
  <2>1. PICK v \in {"fork", "wait", "kill", "exit"} : pc' = [pc EXCEPT ![p] = v]
    BY <1>3, Zenon DEF syscall, Calls
  <2> QED
    BY <1>3, <2>1, Names, Zenon DEF syscall, tableVars, cpuVars, TypeOK
<1>4. CASE fault(c, p)
  BY <1>4, Names, Zenon DEF fault, cpuVars, TypeOK
<1>5. CASE trapret(c, p)
  BY <1>5, Names, Zenon DEF trapret, tableVars, cpuVars, TypeOK
<1>6. CASE timer(c, p)
  <2>1. CASE pc' = [pc EXCEPT ![p] = "exit"] /\ UNCHANGED <<tableVars, cpuVars, ret, np, child, panicked>>
    BY <2>1, Names, Zenon DEF tableVars, cpuVars, TypeOK
  <2>2. CASE /\ lock' = c /\ state' = [state EXCEPT ![p] = "RUNNABLE"]
             /\ ret' = [ret EXCEPT ![p] = IF pc[p] = "user" THEN "trapret" ELSE pc[p]]
             /\ pc' = [pc EXCEPT ![p] = "yield"] /\ mode' = [mode EXCEPT ![c] = "sched"]
             /\ UNCHANGED <<pid, parent, chan, killed, kstack, nextpid, cproc, scan, np, child, panicked>>
    <3>1. (IF pc[p] = "user" THEN "trapret" ELSE pc[p]) \in {"user"} \cup KernelPoints
      BY <1>6, Names, Zenon DEF timer
    <3>2. state' \in [Slots -> States] /\ pc' \in [Slots -> PCs]
      BY <2>2, Names, Zenon DEF TypeOK
    <3>3. ret' \in [Slots -> {"user"} \cup KernelPoints]
      BY <2>2, <3>1, Zenon DEF TypeOK
    <3>4. mode' \in [CPUs -> {"idle", "scan", "run", "sched"}] /\ lock' \in CPUs \cup {None}
      BY <2>2, Zenon DEF TypeOK
    <3> QED
      BY <2>2, <3>2, <3>3, <3>4, Zenon DEF TypeOK
  <2> QED
    BY <1>6, <2>1, <2>2, Zenon DEF timer
<1> QED
  BY <1>1, <1>2, <1>3, <1>4, <1>5, <1>6, Zenon DEF resume

(* fork() keeps the types: the pid it gives out is in range.                 *)
LEMMA ForkTypes ==
  ASSUME TypeOK, CpuInv, ForkInv, NEW c \in CPUs, NEW p \in Slots,
         \/ allocproc(c, p) \/ fork_kstack(c, p) \/ fork_copyuvm(c, p)
         \/ fork_undo(c, p) \/ fork_publish(c, p)
  PROVE  TypeOK'
<1>1. -1 \in Pids \cup {-1} /\ \A q \in Slots : pid[q] \in Pids
  BY Zenon DEF TypeOK
<1>2. ASSUME OnCpu(c, p), pc[p] \in ForkPoints PROVE np[p] \in Slots
  BY <1>2, Forking, Zenon
<1>3. CASE allocproc(c, p)
  <2>1. CASE \E s \in Slots : Alloc(p, s)
    <3>1. PICK s \in Slots : Alloc(p, s)
      BY <2>1, Zenon
    <3>2. nextpid \in Pids /\ nextpid + 1 \in 2..(MaxPid + 1)
      BY <3>1, ProcAssumption DEF Alloc, TypeOK, Pids
    <3>3. state' \in [Slots -> States] /\ pc' \in [Slots -> PCs]
      BY <3>1, Names, Zenon DEF Alloc, TypeOK
    <3>4. pid' \in [Slots -> Pids] /\ np' \in [Slots -> Slots \cup {0}] /\ nextpid' \in 2..(MaxPid + 1)
      BY <3>1, <3>2, Zenon DEF Alloc, TypeOK
    <3> QED
      BY <3>1, <3>3, <3>4, Zenon DEF Alloc, cpuVars, TypeOK
  <2>2. CASE /\ pc' = [pc EXCEPT ![p] = "trapret"] /\ child' \in {-1, child}
             /\ UNCHANGED <<tableVars, cpuVars, ret, np, panicked>>
    BY <2>2, Names, Zenon DEF tableVars, cpuVars, TypeOK
  <2> QED
    BY <1>3, <2>1, <2>2, AllocEffect, Zenon
<1>4. CASE fork_kstack(c, p)
  <2>1. np[p] \in Slots
    BY <1>2, <1>4, Zenon DEF fork_kstack, ForkPoints
  <2>2. UNCHANGED <<pid, parent, chan, killed, nextpid, lock, cproc, mode, scan, ret, panicked>>
    BY <1>4, Zenon DEF fork_kstack, cpuVars
  <2>3. pc' \in [Slots -> PCs]
    <3>1. \/ pc' = [pc EXCEPT ![p] = "copyuvm", ![np[p]] = "forkret"]
          \/ pc' = [pc EXCEPT ![p] = "trapret"]
      BY <1>4, Zenon DEF fork_kstack
    <3>2. pc \in [Slots -> PCs] /\ "copyuvm" \in PCs /\ "forkret" \in PCs /\ "trapret" \in PCs
      BY Names, Zenon DEF TypeOK
    <3> QED
      BY <2>1, <3>1, <3>2, Zenon
  <2>4. state' \in [Slots -> States]
    <3>1. state' = state \/ state' = [state EXCEPT ![np[p]] = "UNUSED"]
      BY <1>4, Zenon DEF fork_kstack
    <3> QED
      BY <3>1, Names, Zenon DEF TypeOK
  <2>5. np' \in [Slots -> Slots \cup {0}] /\ child' \in Pids \cup {-1}
    BY <1>4, Zenon DEF fork_kstack, Returned, TypeOK
  <2>6. kstack' \in [Slots -> BOOLEAN]
    <3>1. kstack \in [Slots -> BOOLEAN] /\ (kstack' = kstack \/ kstack' = [kstack EXCEPT ![np[p]] = TRUE])
      BY <1>4, Zenon DEF fork_kstack, TypeOK
    <3> QED
      BY <3>1, Zenon
  <2> QED
    BY <2>2, <2>3, <2>4, <2>5, <2>6, Zenon DEF TypeOK
<1>5. CASE fork_copyuvm(c, p)
  <2>1. UNCHANGED <<state, pid, chan, killed, nextpid, lock, cproc, mode, scan, ret, np, child, panicked>>
    BY <1>5, Zenon DEF fork_copyuvm, cpuVars
  <2>2. pc' \in [Slots -> PCs]
    BY <1>5, Names DEF fork_copyuvm, TypeOK
  <2>3. parent' \in [Slots -> Slots \cup {0}]
    <3>1. parent \in [Slots -> Slots \cup {0}] /\ (parent' = parent \/ parent' = [parent EXCEPT ![np[p]] = p])
      BY <1>5, Zenon DEF fork_copyuvm, TypeOK
    <3> QED
      BY <3>1, Zenon
  <2>4. kstack' \in [Slots -> BOOLEAN]
    <3>1. kstack \in [Slots -> BOOLEAN] /\ (kstack' = kstack \/ kstack' = [kstack EXCEPT ![np[p]] = FALSE])
      BY <1>5, Zenon DEF fork_copyuvm, Freed, TypeOK
    <3> QED
      BY <3>1, Zenon
  <2> QED
    BY <2>1, <2>2, <2>3, <2>4, Zenon DEF TypeOK
<1>6. CASE fork_undo(c, p) \/ fork_publish(c, p)
  <2>1. np[p] \in Slots
    BY <1>2, <1>6, Zenon DEF fork_undo, fork_publish, ForkPoints
  <2>2. UNCHANGED <<pid, parent, chan, killed, kstack, nextpid, lock, cproc, mode, scan, ret, panicked>>
    BY <1>6, Zenon DEF fork_undo, fork_publish, cpuVars
  <2>3. state' \in [Slots -> States]
    <3>1. state' = [state EXCEPT ![np[p]] = "UNUSED"] \/ state' = [state EXCEPT ![np[p]] = "RUNNABLE"]
      BY <1>6, Zenon DEF fork_undo, fork_publish
    <3> QED
      BY <3>1, Names, Zenon DEF TypeOK
  <2>4. pc' \in [Slots -> PCs] /\ np' \in [Slots -> Slots \cup {0}]
    <3>1. pc' = [pc EXCEPT ![p] = "trapret"] /\ np' = [np EXCEPT ![p] = 0]
      BY <1>6, Zenon DEF fork_undo, fork_publish
    <3> QED
      BY <3>1, Names, Zenon DEF TypeOK
  <2>5. child' \in Pids \cup {-1}
    <3>1. child' \in {child, -1, pid[np[p]]}
      BY <1>6, Zenon DEF fork_undo, fork_publish, Returned
    <3> QED
      BY <1>1, <2>1, <3>1, Zenon DEF TypeOK
  <2> QED
    BY <2>2, <2>3, <2>4, <2>5, Zenon DEF TypeOK
<1> QED
  BY <1>3, <1>4, <1>5, <1>6, Zenon

(* exit(), wait() and kill() keep the types.                                 *)
LEMMA ExitTypes ==
  ASSUME TypeOK, NEW c \in CPUs, NEW p \in Slots,
         exit(c, p) \/ wait(c, p) \/ \E n \in Pids : kill(c, p, n)
  PROVE  TypeOK'
<1>1. CASE exit(c, p) /\ p = initproc
  BY <1>1, Zenon DEF exit, tableVars, TypeOK
<1>2. CASE exit(c, p) /\ p # initproc
  <2>1. /\ lock' = c /\ state' = [Wakeup1(ExitChans(p)) EXCEPT ![p] = "ZOMBIE"]
        /\ parent' = Adopted(p) /\ pc' = [pc EXCEPT ![p] = "zombie"]
        /\ mode' = [mode EXCEPT ![c] = "sched"]
        /\ UNCHANGED <<pid, chan, killed, kstack, nextpid, panicked, cproc, scan, ret, np, child>>
    BY <1>2, Zenon DEF exit
  <2>2. state' \in [Slots -> States]
    <3>1. Wakeup1(ExitChans(p)) \in [Slots -> States]
      BY Names, Zenon DEF TypeOK, Wakeup1
    <3> QED
      BY <2>1, <3>1, Names, Zenon
  <2>3. parent' \in [Slots -> Slots \cup {0}]
    BY <2>1, SlotFacts, Zenon DEF TypeOK, Adopted
  <2>4. pc' \in [Slots -> PCs] /\ mode' \in [CPUs -> {"idle", "scan", "run", "sched"}]
    BY <2>1, Names, Zenon DEF TypeOK
  <2>5. UNCHANGED <<pid, chan, killed, kstack, nextpid, panicked, cproc, scan, ret, np, child>>
        /\ lock' \in CPUs \cup {None}
    BY <2>1, Zenon
  <2> QED
    BY <2>2, <2>3, <2>4, <2>5, Zenon DEF TypeOK
<1>3. CASE wait(c, p)
  <2>1. CASE \E s \in Slots : Reap(p, s)
    <3>1. PICK s \in Slots : Reap(p, s)
      BY <2>1, Zenon
    <3>2. UNCHANGED <<mode, nextpid, cproc, scan, ret, np, panicked>> /\ lock' \in CPUs \cup {None}
      BY <3>1, Zenon DEF Reap
    <3>3. state' \in [Slots -> States] /\ pc' \in [Slots -> PCs] /\ pid' \in [Slots -> Pids]
      BY <3>1, Names, Zenon DEF Reap, TypeOK
    <3>4. parent' \in [Slots -> Slots \cup {0}] /\ chan' \in [Slots -> Slots \cup {0}]
      BY <3>1, Zenon DEF Reap, TypeOK
    <3>5. kstack' \in [Slots -> BOOLEAN] /\ killed' \in [Slots -> BOOLEAN]
      BY <3>1, Zenon DEF Reap, TypeOK
    <3>6. child' \in Pids \cup {-1}
      BY <3>1, Names, Zenon DEF Reap, TypeOK
    <3> QED
      BY <3>2, <3>3, <3>4, <3>5, <3>6, Zenon DEF TypeOK
  <2>2. CASE /\ chan' = [chan EXCEPT ![p] = 0] /\ lock' = None /\ pc' = [pc EXCEPT ![p] = "trapret"]
             /\ child' \in {0, child}
             /\ UNCHANGED <<state, pid, parent, killed, kstack, mode, nextpid, cproc, scan, ret, np,
                            panicked>>
    BY <2>2, Names, Zenon DEF TypeOK
  <2>3. CASE /\ chan' = [chan EXCEPT ![p] = p] /\ state' = [state EXCEPT ![p] = "SLEEPING"]
             /\ lock' = c /\ pc' = [pc EXCEPT ![p] = "sleep"] /\ mode' = [mode EXCEPT ![c] = "sched"]
             /\ UNCHANGED <<pid, parent, killed, kstack, child, nextpid, cproc, scan, ret, np, panicked>>
    <3>1. state' \in [Slots -> States] /\ pc' \in [Slots -> PCs] /\ chan' \in [Slots -> Slots \cup {0}]
      BY <2>3, Names, Zenon DEF TypeOK
    <3>2. mode' \in [CPUs -> {"idle", "scan", "run", "sched"}]
      BY <2>3, Zenon DEF TypeOK
    <3> QED
      BY <2>3, <3>1, <3>2, Zenon DEF TypeOK
  <2> QED
    BY <1>3, <2>1, <2>2, <2>3, WaitEffect, Zenon
<1>4. CASE \E n \in Pids : kill(c, p, n)
  <2>1. CASE \E s \in Slots : Kill(p, s)
    <3>1. PICK s \in Slots : Kill(p, s)
      BY <2>1, Zenon
    <3>2. state' \in [Slots -> States] /\ pc' \in [Slots -> PCs]
      <4>1. Roused(s) \in States
        BY Names, Zenon DEF Roused, TypeOK
      <4> QED
        BY <3>1, <4>1, Names, Zenon DEF Kill, TypeOK
    <3>3. killed' \in [Slots -> BOOLEAN]
      BY <3>1, Zenon DEF Kill, TypeOK
    <3> QED
      BY <3>1, <3>2, <3>3, Zenon DEF Kill, cpuVars, TypeOK
  <2>2. CASE pc' = [pc EXCEPT ![p] = "trapret"] /\ UNCHANGED <<tableVars, cpuVars, ret, np, child, panicked>>
    BY <2>2, Names, Zenon DEF tableVars, cpuVars, TypeOK
  <2> QED
    BY <1>4, <2>1, <2>2, KillEffect, Zenon
<1> QED
  BY <1>1, <1>2, <1>3, <1>4, Zenon

(* Every step keeps the invariant.                                           *)
LEMMA ProcStep ==
  ASSUME ProcInv, Next
  PROVE  ProcInv'
<1>0. TypeOK /\ TableInv /\ CpuInv /\ ForkInv
  BY Zenon DEF ProcInv, TableInv
<1>1. ASSUME NEW c \in CPUs, scheduler(c) PROVE ProcInv'
  BY <1>0, <1>1, SchedulerTypes, LoopStep, SwitchStep, Zenon DEF scheduler, ProcInv
<1>2. ASSUME NEW c \in CPUs, NEW p \in Slots, resume(c, p) PROVE ProcInv'
  BY <1>0, <1>2, TrapTypes, TrapStep, Zenon DEF resume, ProcInv
<1>3. ASSUME NEW c \in CPUs, NEW p \in Slots, syscall(c, p) \/ fault(c, p) \/ timer(c, p)
      PROVE  ProcInv'
  BY <1>0, <1>3, TrapTypes, TrapStep, FaultStep, TimerStep, Zenon DEF ProcInv
<1>4. ASSUME NEW c \in CPUs, NEW p \in Slots, kernel(c, p) PROVE ProcInv'
  <2>1. CASE trapret(c, p)
    BY <1>0, <2>1, TrapTypes, TrapStep, Zenon DEF ProcInv
  <2>2. CASE exit(c, p) \/ wait(c, p) \/ \E n \in Pids : kill(c, p, n)
    BY <1>0, <2>2, ExitTypes, ExitStep, WaitStep, KillStep, Zenon DEF ProcInv
  <2>3. CASE allocproc(c, p) \/ fork_kstack(c, p) \/ fork_copyuvm(c, p) \/ fork_undo(c, p) \/ fork_publish(c, p)
    BY <1>0, <2>3, ForkTypes, AllocStep, KstackStep, CopyStep, ForkEnds, Zenon DEF ProcInv
  <2> QED
    BY <1>4, <2>1, <2>2, <2>3, Zenon DEF kernel
<1> QED
  BY <1>1, <1>2, <1>3, <1>4, Zenon DEF Next, process

-----------------------------------------------------------------------------
(* userinit leaves a table with one process.                                 *)
LEMMA ProcInit ==
  ASSUME Init
  PROVE  ProcInv
<1> USE ProcAssumption DEF Init, Slots, initproc
<1>1. TypeOK
  <2>1. 1 \in Slots /\ 0 \in Pids /\ 1 \in Pids /\ 2 \in 2..(MaxPid + 1)
    BY DEF Pids
  <2>2. state \in [Slots -> States] /\ pc \in [Slots -> PCs] /\ ret \in [Slots -> {"user"} \cup KernelPoints]
    BY Zenon DEF States, PCs
  <2>3. pid \in [Slots -> Pids] /\ nextpid \in 2..(MaxPid + 1) /\ child \in Pids \cup {-1}
    BY <2>1, Zenon
  <2>4. kstack \in [Slots -> BOOLEAN] /\ killed \in [Slots -> BOOLEAN] /\ panicked \in BOOLEAN
    BY Zenon
  <2>5. /\ mode \in [CPUs -> {"idle", "scan", "run", "sched"}] /\ lock \in CPUs \cup {None}
        /\ cproc \in [CPUs -> Slots \cup {0}] /\ scan \in [CPUs -> 1..(NPROC + 1)]
    OBVIOUS
  <2>6. /\ parent \in [Slots -> Slots \cup {0}] /\ chan \in [Slots -> Slots \cup {0}]
        /\ np \in [Slots -> Slots \cup {0}]
    BY Zenon
  <2> QED
    BY <2>2, <2>3, <2>4, <2>5, <2>6, Zenon DEF TypeOK
<1>2. CpuInv
  BY Zenon DEF CpuInv
<1>3. ForkInv
  BY Zenon DEF ForkInv, At, ForkPoints
<1>4. StackInv
  BY Zenon DEF StackInv
<1>5. ParentInv
  BY DEF ParentInv, ParentAlive, Live
<1>6. SleepInv
  BY Zenon DEF SleepInv
<1>7. PidInv
  <2>1. \A p \in Slots : state[p] # "UNUSED" => p = initproc /\ pid[p] = 1
    BY Zenon
  <2> QED
    BY <2>1 DEF PidInv
<1> QED
  BY <1>1, <1>2, <1>3, <1>4, <1>5, <1>6, <1>7, Zenon DEF ProcInv, TableInv

(* The invariant behind the properties of the process table: what ptable.lock *)
(* protects, and what fork() relies on where it does not take the lock.      *)
THEOREM ProcInvariant == Spec => []ProcInv
<1>1. ASSUME ProcInv, [Next]_vars PROVE ProcInv'
  <2>1. CASE Next
    BY <1>1, <2>1, ProcStep, Zenon
  <2>2. CASE UNCHANGED vars
    <3>1. TypeOK'
      BY <1>1, <2>2, Zenon DEF vars, ProcInv, TypeOK
    <3>2. CpuInv'
      BY <1>1, <2>2, Zenon DEF vars, ProcInv, TableInv, CpuInv, OnCpu
    <3>3. ForkInv'
      BY <1>1, <2>2, Zenon DEF vars, ProcInv, TableInv, ForkInv, Filling, At
    <3>4. StackInv' /\ ParentInv' /\ SleepInv' /\ PidInv'
      BY <1>1, <2>2 DEF vars, ProcInv, TableInv, StackInv, ParentInv, ParentAlive, SleepInv, PidInv
    <3> QED
      BY <3>1, <3>2, <3>3, <3>4, Zenon DEF ProcInv, TableInv
  <2> QED
    BY <1>1, <2>1, <2>2, Zenon
<1> QED
  BY <1>1, ProcInit, PTL DEF Spec

(* No process runs on two CPUs, however many there are, and sched()'s panics *)
(* cannot happen: ptable.lock is held and the state is not RUNNING.          *)
THEOREM RunsOnce == Spec => []OneCpu
<1>1. ASSUME ProcInv PROVE OneCpu
  <2>0. TypeOK /\ CpuInv
    BY <1>1, Zenon DEF ProcInv, TableInv
  <2>1. \A p \in Slots : (\E c \in CPUs : OnCpu(c, p)) => state[p] = "RUNNING"
    BY <2>0, Zenon DEF CpuInv, OnCpu
  <2>2. \A c \in CPUs : mode[c] = "sched" => state[cproc[c]] # "RUNNING"
    BY <2>0, Zenon DEF CpuInv, Away
  <2>3. \A c \in CPUs : /\ mode[c] \in {"scan", "sched"} => lock = c
                        /\ mode[c] = "run" /\ pc[cproc[c]] \in {"forkret", "yield", "sleep"} => lock = c
    BY <2>0, Zenon DEF CpuInv, Resumes
  <2>4. \A c, d \in CPUs : c # d /\ cproc[c] # 0 => cproc[c] # cproc[d]
    BY <2>0, Zenon DEF CpuInv
  <2>5. \A p \in Slots : state[p] = "RUNNING" => \E c \in CPUs : OnCpu(c, p)
    BY <2>0, Zenon DEF CpuInv
  <2> QED
    BY <2>1, <2>2, <2>3, <2>4, <2>5, Zenon DEF OneCpu
<1> QED
  BY <1>1, ProcInvariant, PTL

(* No kernel stack is freed while a CPU executes on it or may switch to it,  *)
(* and none is leaked.                                                       *)
THEOREM StacksSafe == Spec => []StackSafe
<1>1. ASSUME ProcInv PROVE StackSafe
  <2>0. TypeOK /\ CpuInv /\ StackInv
    BY <1>1, Zenon DEF ProcInv, TableInv
  <2>1. ASSUME NEW c \in CPUs, cproc[c] # 0 PROVE kstack[cproc[c]]
    <3>1. cproc[c] \in Slots /\ state[cproc[c]] \notin {"UNUSED", "EMBRYO"}
      BY <2>0, <2>1, Zenon DEF CpuInv, TypeOK, Away
    <3> QED
      BY <2>0, <3>1, Zenon DEF StackInv
  <2> QED
    BY <2>0, <2>1, Zenon DEF StackSafe, StackInv
<1> QED
  BY <1>1, ProcInvariant, PTL

(* A parent asleep in wait() misses no exit() and no kill().                 *)
THEOREM ExitsSeen == Spec => []NoMissedExit
<1>1. ASSUME ProcInv PROVE NoMissedExit
  BY <1>1, Zenon DEF ProcInv, TableInv, SleepInv, NoMissedExit, Zombies, Children
<1> QED
  BY <1>1, ProcInvariant, PTL

(* Every process but init has a parent that can wait for it.                 *)
THEOREM ParentsAlive == Spec => []ParentAlive
<1>1. ProcInv => ParentAlive
  BY Zenon DEF ProcInv, TableInv, ParentInv
<1> QED
  BY <1>1, ProcInvariant, PTL

(* kill() and wait() name one process: no two slots in use share a pid.      *)
THEOREM PidsUnique == Spec => []UniquePids
<1>1. ProcInv => UniquePids
  BY Zenon DEF ProcInv, TableInv, PidInv, UniquePids
<1> QED
  BY <1>1, ProcInvariant, PTL
=============================================================================

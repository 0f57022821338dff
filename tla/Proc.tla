-------------------------------- MODULE Proc --------------------------------
(***************************************************************************)
(* The process table and the scheduler of proc.c: fork, exit, wait, kill,  *)
(* yield and the hand-over of ptable.lock across swtch, with the trap that *)
(* preempts a process and the first program, init.c.                       *)
(*                                                                         *)
(* A step is one critical section of ptable.lock, or one access to the     *)
(* table that the code makes without the lock.  A critical section that    *)
(* ends in sched() keeps the lock until another thread releases it.        *)
(***************************************************************************)
EXTENDS Integers

CONSTANTS
  CPUs,     \* the processors
  None,     \* nobody holds ptable.lock
  NPROC,    \* slots of the process table (param.h)
  MaxPid    \* bound on nextpid: from then on allocproc finds no slot

ASSUME ProcAssumption ==
  None \notin CPUs /\ NPROC \in Nat \ {0} /\ MaxPid \in Nat \ {0}

Slots == 1..NPROC

initproc == 1        \* userinit takes the first slot

Pids == 0..MaxPid

States == {"UNUSED", "EMBRYO", "SLEEPING", "RUNNABLE", "RUNNING", "ZOMBIE"}

VARIABLES
  state, pid, parent, chan, killed,  \* struct proc; parent and chan 0: null
  kstack,     \* whether the slot owns a kernel stack
  nextpid,
  lock,       \* the CPU that holds ptable.lock, or None
  cproc,      \* struct cpu's proc, 0: null
  mode,       \* what a CPU executes: the scheduler, a process, or sched()
  scan,       \* the slot the scheduler's loop has reached
  pc,         \* program point of the thread of a slot
  ret,        \* where a preempted thread continues
  np,         \* the slot fork() is filling
  child,      \* init.c's pid: the shell, 0 before fork(), -1 if it failed
  panicked    \* panic() has stopped the machine

tableVars == <<state, pid, parent, chan, killed, kstack, nextpid>>
cpuVars   == <<lock, cproc, mode, scan>>
vars      == <<state, pid, parent, chan, killed, kstack, nextpid, lock, cproc,
               mode, scan, pc, ret, np, child, panicked>>

ForkPoints == {"kalloc", "copyuvm", "undo", "publish"}

(* Points in the kernel where the thread holds no spinlock. *)
KernelPoints == {"fork", "wait", "kill", "exit", "trapret"} \cup ForkPoints

PCs == {"user", "forkret", "yield", "sleep", "zombie"} \cup KernelPoints

(* The free slot that userinit turned into the first process. *)
Init ==
  /\ state = [s \in Slots |-> IF s = initproc THEN "RUNNABLE" ELSE "UNUSED"]
  /\ pid = [s \in Slots |-> IF s = initproc THEN 1 ELSE 0]
  /\ parent = [s \in Slots |-> 0]
  /\ chan = [s \in Slots |-> 0]
  /\ killed = [s \in Slots |-> FALSE]
  /\ kstack = [s \in Slots |-> s = initproc]
  /\ nextpid = 2
  /\ lock = None
  /\ cproc = [c \in CPUs |-> 0]
  /\ mode = [c \in CPUs |-> "idle"]
  /\ scan = [c \in CPUs |-> 1]
  /\ pc = [s \in Slots |-> "forkret"]
  /\ ret = [s \in Slots |-> "user"]
  /\ np = [s \in Slots |-> 0]
  /\ child = 0
  /\ panicked = FALSE

(* The thread of slot p executes on CPU c. *)
OnCpu(c, p) == mode[c] = "run" /\ cproc[c] = p

(* The slot that a loop over the table finds first: the least one in S.      *)
First(S) == {s \in S : \A t \in S : s <= t}

(* The value of state after wakeup1 on each of the channels C. *)
Wakeup1(C) ==
  [s \in Slots |-> IF state[s] = "SLEEPING" /\ chan[s] \in C THEN "RUNNABLE"
                                                             ELSE state[s]]

-----------------------------------------------------------------------------
(* The scheduler of a CPU. *)

(* ... taking a process that runs elsewhere. *)
RunnableOrRunning(i) == {s \in i..NPROC : state[s] \in {"RUNNABLE", "RUNNING"}}

RunnableFrom(i) == {s \in i..NPROC : state[s] = "RUNNABLE"}

scheduler_acquire(c) ==
  /\ mode[c] = "idle" /\ lock = None
  /\ lock' = c
  /\ mode' = [mode EXCEPT ![c] = "scan"]
  /\ scan' = [scan EXCEPT ![c] = 1]
  /\ UNCHANGED <<tableVars, cproc, pc, ret, np, child, panicked>>

scheduler_switch(c) ==
  /\ mode[c] = "scan"
  /\ \E p \in First(RunnableFrom(scan[c])) :
       /\ cproc' = [cproc EXCEPT ![c] = p]
       /\ state' = [state EXCEPT ![p] = "RUNNING"]
       /\ scan' = [scan EXCEPT ![c] = p]
  /\ mode' = [mode EXCEPT ![c] = "run"]
  /\ UNCHANGED <<pid, parent, chan, killed, kstack, nextpid, lock, pc, ret, np,
                 child, panicked>>

scheduler_release(c) ==
  /\ mode[c] = "scan" /\ RunnableFrom(scan[c]) = {}
  /\ lock' = None
  /\ mode' = [mode EXCEPT ![c] = "idle"]
  /\ UNCHANGED <<tableVars, cproc, scan, pc, ret, np, child, panicked>>

(* Where the scheduler's loop goes on after a process. *)
NextSlot(i) == i + 1

(* swtch from the process to the scheduler, which still holds ptable.lock.   *)
sched(c) ==
  /\ mode[c] = "sched"
  /\ mode' = [mode EXCEPT ![c] = "scan"]
  /\ cproc' = [cproc EXCEPT ![c] = 0]
  /\ scan' = [scan EXCEPT ![c] = NextSlot(scan[c])]
  /\ UNCHANGED <<tableVars, lock, pc, ret, np, child, panicked>>

-----------------------------------------------------------------------------
(* Traps. *)

(* A timer interrupt makes the process yield(), unless it was killed and is  *)
(* in user space.                                                            *)
timer(c, p) ==
  /\ OnCpu(c, p) /\ pc[p] \in {"user"} \cup KernelPoints
  /\ \/ /\ pc[p] = "user" /\ killed[p]
        /\ pc' = [pc EXCEPT ![p] = "exit"]
        /\ UNCHANGED <<tableVars, cpuVars, ret, np, child, panicked>>
     \/ /\ ~(pc[p] = "user" /\ killed[p]) /\ lock = None
        /\ lock' = c
        /\ state' = [state EXCEPT ![p] = "RUNNABLE"]
        /\ ret' = [ret EXCEPT ![p] = IF pc[p] = "user" THEN "trapret" ELSE pc[p]]
        /\ pc' = [pc EXCEPT ![p] = "yield"]
        /\ mode' = [mode EXCEPT ![c] = "sched"]
        /\ UNCHANGED <<pid, parent, chan, killed, kstack, nextpid, cproc, scan,
                       np, child, panicked>>

yield_return(c, p) ==
  /\ OnCpu(c, p) /\ pc[p] = "yield"
  /\ lock' = None
  /\ pc' = [pc EXCEPT ![p] = ret[p]]
  /\ ret' = [ret EXCEPT ![p] = "user"]
  /\ UNCHANGED <<tableVars, cproc, mode, scan, np, child, panicked>>

forkret(c, p) ==
  /\ OnCpu(c, p) /\ pc[p] = "forkret"
  /\ lock' = None
  /\ pc' = [pc EXCEPT ![p] = "user"]
  /\ UNCHANGED <<tableVars, cproc, mode, scan, ret, np, child, panicked>>

(* The system calls a program may make next; init.c forks a shell, waits for *)
(* it, and exits if fork() failed.                                           *)
Calls(p) ==
  IF p # initproc THEN {"fork", "wait", "kill", "exit"}
  ELSE IF child = 0 THEN {"fork"} ELSE IF child = -1 THEN {"exit"} ELSE {"wait"}

syscall(c, p) ==
  /\ OnCpu(c, p) /\ pc[p] = "user"
  /\ \E call \in IF killed[p] THEN {"exit"} ELSE Calls(p) :
       pc' = [pc EXCEPT ![p] = call]
  /\ UNCHANGED <<tableVars, cpuVars, ret, np, child, panicked>>

(* A fault in user space: the process is killed.  init.c does not fault.     *)
fault(c, p) ==
  /\ OnCpu(c, p) /\ pc[p] = "user" /\ p # initproc
  /\ killed' = [killed EXCEPT ![p] = TRUE]
  /\ pc' = [pc EXCEPT ![p] = "exit"]
  /\ UNCHANGED <<state, pid, parent, chan, kstack, nextpid, cpuVars, ret, np,
                 child, panicked>>

trapret(c, p) ==
  /\ OnCpu(c, p) /\ pc[p] = "trapret"
  /\ pc' = [pc EXCEPT ![p] = IF killed[p] THEN "exit" ELSE "user"]
  /\ UNCHANGED <<tableVars, cpuVars, ret, np, child, panicked>>

-----------------------------------------------------------------------------
(* fork() *)

Unused == {s \in Slots : state[s] = "UNUSED"}

(* fork() returns to a program; only init.c looks at the result.             *)
Returned(p, r) == child' = IF p = initproc THEN r ELSE child

PidAfter(n) == n + 1

allocproc(c, p) ==
  /\ OnCpu(c, p) /\ pc[p] = "fork" /\ lock = None
  /\ \/ /\ nextpid <= MaxPid
        /\ \E s \in First(Unused) :
             /\ state' = [state EXCEPT ![s] = "EMBRYO"]
             /\ pid' = [pid EXCEPT ![s] = nextpid]
             /\ np' = [np EXCEPT ![p] = s]
        /\ nextpid' = PidAfter(nextpid)
        /\ pc' = [pc EXCEPT ![p] = "kalloc"]
        /\ UNCHANGED child
     \/ /\ Unused = {} \/ nextpid > MaxPid
        /\ pc' = [pc EXCEPT ![p] = "trapret"]
        /\ Returned(p, -1)
        /\ UNCHANGED <<state, pid, np, nextpid>>
  /\ UNCHANGED <<parent, chan, killed, kstack, cpuVars, ret, panicked>>

(* allocproc's kalloc() of the kernel stack, without the lock. *)
fork_kstack(c, p) ==
  /\ OnCpu(c, p) /\ pc[p] = "kalloc"
  /\ \/ /\ kstack' = [kstack EXCEPT ![np[p]] = TRUE]
        /\ pc' = [pc EXCEPT ![p] = "copyuvm", ![np[p]] = "forkret"]
        /\ UNCHANGED <<state, np, child>>
     \/ /\ state' = [state EXCEPT ![np[p]] = "UNUSED"]
        /\ np' = [np EXCEPT ![p] = 0]
        /\ pc' = [pc EXCEPT ![p] = "trapret"]
        /\ Returned(p, -1)
        /\ UNCHANGED kstack
  /\ UNCHANGED <<pid, parent, chan, killed, nextpid, cpuVars, ret, panicked>>

(* The value of kstack after kfree() of a stack; faulty: it is leaked. *)
Leaked(s) == kstack

Freed(s) == [kstack EXCEPT ![s] = FALSE]

(* copyuvm() fails, or the child gets its parent; without the lock. *)
fork_copyuvm(c, p) ==
  /\ OnCpu(c, p) /\ pc[p] = "copyuvm"
  /\ \/ /\ parent' = [parent EXCEPT ![np[p]] = p]
        /\ pc' = [pc EXCEPT ![p] = "publish"]
        /\ UNCHANGED kstack
     \/ /\ kstack' = Freed(np[p])
        /\ pc' = [pc EXCEPT ![p] = "undo"]
        /\ UNCHANGED parent
  /\ UNCHANGED <<state, pid, chan, killed, nextpid, cpuVars, ret, np, child,
                 panicked>>

fork_undo(c, p) ==
  /\ OnCpu(c, p) /\ pc[p] = "undo"
  /\ state' = [state EXCEPT ![np[p]] = "UNUSED"]
  /\ np' = [np EXCEPT ![p] = 0]
  /\ pc' = [pc EXCEPT ![p] = "trapret"]
  /\ Returned(p, -1)
  /\ UNCHANGED <<pid, parent, chan, killed, kstack, nextpid, cpuVars, ret,
                 panicked>>

fork_publish(c, p) ==
  /\ OnCpu(c, p) /\ pc[p] = "publish" /\ lock = None
  /\ state' = [state EXCEPT ![np[p]] = "RUNNABLE"]
  /\ np' = [np EXCEPT ![p] = 0]
  /\ pc' = [pc EXCEPT ![p] = "trapret"]
  /\ Returned(p, pid[np[p]])
  /\ UNCHANGED <<pid, parent, chan, killed, kstack, nextpid, cpuVars, ret,
                 panicked>>

-----------------------------------------------------------------------------
(* exit(), wait() and kill() *)

Children(p) == {s \in Slots : parent[s] = p}

(* Who is woken by exit(): the parent, and init if it inherits a zombie;     *)
(* faulty: only init.                                                        *)
ExitChansInit(p) ==
  IF \E s \in Children(p) : state[s] = "ZOMBIE" THEN {initproc} ELSE {}

ExitChans(p) ==
  {parent[p]} \cup
  IF \E s \in Children(p) : state[s] = "ZOMBIE" THEN {initproc} ELSE {}

(* The value of parent after exit() has passed the children to init; faulty: *)
(* the dead ones are forgotten.                                              *)
AdoptedLive(p) ==
  [s \in Slots |-> IF parent[s] = p /\ state[s] # "ZOMBIE" THEN initproc
                                                          ELSE parent[s]]

Adopted(p) == [s \in Slots |-> IF parent[s] = p THEN initproc ELSE parent[s]]

(* The closes and the iput that come first touch no state of the table: they *)
(* are steps of File, Pipe and Inode, and stand here for a stay at "exit",   *)
(* where the clock may preempt the process.                                  *)
exit(c, p) ==
  /\ OnCpu(c, p) /\ pc[p] = "exit"
  /\ \/ /\ p = initproc
        /\ panicked' = TRUE
        /\ UNCHANGED <<tableVars, lock, mode, pc>>
     \/ /\ p # initproc /\ lock = None
        /\ lock' = c
        /\ state' = [Wakeup1(ExitChans(p)) EXCEPT ![p] = "ZOMBIE"]
        /\ parent' = Adopted(p)
        /\ pc' = [pc EXCEPT ![p] = "zombie"]
        /\ mode' = [mode EXCEPT ![c] = "sched"]
        /\ UNCHANGED <<pid, chan, killed, kstack, nextpid, panicked>>
  /\ UNCHANGED <<cproc, scan, ret, np, child>>

Zombies(p) == {s \in Children(p) : state[s] = "ZOMBIE"}

(* One turn of wait()'s loop: reap a child, give up, or sleep.  The first    *)
(* turn acquires ptable.lock, a later one has it from the scheduler.         *)
wait(c, p) ==
  /\ OnCpu(c, p)
  /\ (pc[p] = "wait" /\ lock = None) \/ pc[p] = "sleep"
  /\ \/ /\ \E s \in First(Zombies(p)) :
             /\ kstack' = Freed(s)
             /\ pid' = [pid EXCEPT ![s] = 0]
             /\ parent' = [parent EXCEPT ![s] = 0]
             /\ killed' = [killed EXCEPT ![s] = FALSE]
             /\ state' = [state EXCEPT ![s] = "UNUSED"]
             /\ Returned(p, IF pid[s] = child THEN 0 ELSE child)
        /\ chan' = [chan EXCEPT ![p] = 0]
        /\ lock' = None
        /\ pc' = [pc EXCEPT ![p] = "trapret"]
        /\ UNCHANGED mode
     \/ /\ Zombies(p) = {} /\ (Children(p) = {} \/ killed[p])
        /\ chan' = [chan EXCEPT ![p] = 0]
        /\ lock' = None
        /\ pc' = [pc EXCEPT ![p] = "trapret"]
        /\ Returned(p, 0)
        /\ UNCHANGED <<state, pid, parent, killed, kstack, mode>>
     \/ /\ Zombies(p) = {} /\ Children(p) # {} /\ ~killed[p]
        /\ chan' = [chan EXCEPT ![p] = p]
        /\ state' = [state EXCEPT ![p] = "SLEEPING"]
        /\ lock' = c
        /\ pc' = [pc EXCEPT ![p] = "sleep"]
        /\ mode' = [mode EXCEPT ![c] = "sched"]
        /\ UNCHANGED <<pid, parent, killed, kstack, child>>
  /\ UNCHANGED <<nextpid, cproc, scan, ret, np, panicked>>

(* kill(n): the first slot that holds the pid, whatever its state. *)
Named(n) == {s \in Slots : pid[s] = n}

(* The state kill() leaves a process in; faulty: a sleeping one is left      *)
(* asleep.                                                                   *)
RousedNever(s) == state[s]

Roused(s) == IF state[s] = "SLEEPING" THEN "RUNNABLE" ELSE state[s]

kill(c, p, n) ==
  /\ OnCpu(c, p) /\ pc[p] = "kill" /\ lock = None
  /\ \/ \E s \in First(Named(n)) :
          /\ killed' = [killed EXCEPT ![s] = TRUE]
          /\ state' = [state EXCEPT ![s] = Roused(s)]
     \/ /\ Named(n) = {}
        /\ UNCHANGED <<killed, state>>
  /\ pc' = [pc EXCEPT ![p] = "trapret"]
  /\ UNCHANGED <<pid, parent, chan, kstack, nextpid, cpuVars, ret, np, child,
                 panicked>>

-----------------------------------------------------------------------------
scheduler(c) ==
  scheduler_acquire(c) \/ scheduler_switch(c) \/ scheduler_release(c) \/ sched(c)

(* First steps of a thread that the scheduler has switched to. *)
resume(c, p) == yield_return(c, p) \/ forkret(c, p)

(* Steps of a system call. *)
kernel(c, p) ==
  \/ trapret(c, p) \/ exit(c, p) \/ wait(c, p) \/ \E n \in Pids : kill(c, p, n)
  \/ allocproc(c, p) \/ fork_kstack(c, p) \/ fork_copyuvm(c, p)
  \/ fork_undo(c, p) \/ fork_publish(c, p)

process(c, p) ==
  resume(c, p) \/ kernel(c, p) \/ syscall(c, p) \/ fault(c, p) \/ timer(c, p)

Next ==
  /\ ~panicked
  /\ \E c \in CPUs : scheduler(c) \/ \E p \in Slots : process(c, p)

Spec == Init /\ [][Next]_vars

(* A CPU keeps executing; a clock tick stays pending until interrupts are    *)
(* on, and ticks are far enough apart for a process to take a step in        *)
(* between; init.c makes its next call.  One CPU never contends for the lock. *)
Fairness ==
  /\ \A c \in CPUs :
       /\ WF_vars(~panicked /\ (scheduler(c) \/ \E p \in Slots : resume(c, p)))
       /\ SF_vars(~panicked /\ \E p \in Slots : timer(c, p))
  /\ \A p \in Slots : SF_vars(~panicked /\ \E c \in CPUs : kernel(c, p))
  /\ SF_vars(~panicked /\ \E c \in CPUs : syscall(c, initproc))

FairSpec == Spec /\ Fairness

-----------------------------------------------------------------------------
(* Properties *)

TypeOK ==
  /\ state \in [Slots -> States]
  /\ pid \in [Slots -> Pids]
  /\ parent \in [Slots -> Slots \cup {0}]
  /\ chan \in [Slots -> Slots \cup {0}]
  /\ killed \in [Slots -> BOOLEAN]
  /\ kstack \in [Slots -> BOOLEAN]
  /\ nextpid \in 2..(MaxPid + 1)
  /\ lock \in CPUs \cup {None}
  /\ cproc \in [CPUs -> Slots \cup {0}]
  /\ mode \in [CPUs -> {"idle", "scan", "run", "sched"}]
  /\ scan \in [CPUs -> 1..(NPROC + 1)]
  /\ pc \in [Slots -> PCs]
  /\ ret \in [Slots -> {"user"} \cup KernelPoints]
  /\ np \in [Slots -> Slots \cup {0}]
  /\ child \in Pids \cup {-1}
  /\ panicked \in BOOLEAN

(* A process runs on one CPU at a time, and is RUNNING exactly while it      *)
(* does; a CPU in sched() holds ptable.lock and has changed the state, as    *)
(* the panics of sched() demand; the lock is held across swtch.              *)
OneCpu ==
  /\ \A c, d \in CPUs : c # d /\ cproc[c] # 0 => cproc[c] # cproc[d]
  /\ \A p \in Slots :
       state[p] = "RUNNING" <=> \E c \in CPUs : OnCpu(c, p)
  /\ \A c \in CPUs :
       /\ mode[c] \in {"scan", "sched"} => lock = c
       /\ mode[c] = "run" /\ pc[cproc[c]] \in {"forkret", "yield", "sleep"} => lock = c
       /\ mode[c] = "sched" => state[cproc[c]] # "RUNNING"

(* The kernel stack a CPU executes on, or may switch to, is never freed, and *)
(* a slot that is not in use owns none: wait() and the failure paths of      *)
(* fork() free exactly what was allocated.                                   *)
StackSafe ==
  /\ \A c \in CPUs : cproc[c] # 0 => kstack[cproc[c]]
  /\ \A s \in Slots : /\ state[s] \notin {"UNUSED", "EMBRYO"} => kstack[s]
                      /\ state[s] = "UNUSED" => ~kstack[s]

(* A parent asleep in wait() has no dead child and was not killed: neither   *)
(* the wakeup of exit() nor that of kill() is lost.                          *)
NoMissedExit ==
  lock = None => \A p \in Slots : state[p] = "SLEEPING" =>
                   Zombies(p) = {} /\ ~killed[p]

(* Somebody can always wait for a process: its parent is neither dead nor    *)
(* gone, and only init has none.  exit() hands the children over to init.    *)
ParentAlive ==
  \A p \in Slots :
    /\ parent[p] # 0 =>
         state[parent[p]] \in {"SLEEPING", "RUNNABLE", "RUNNING"}
    /\ state[p] \notin {"UNUSED", "EMBRYO"} /\ p # initproc => parent[p] # 0

(* No two live processes share a pid. *)
UniquePids ==
  \A p, q \in Slots : p # q /\ {state[p], state[q]} \cap {"UNUSED"} = {}
                        => pid[p] # pid[q]

(* Nobody else will wait for p: its parent is init, or is gone itself. *)
Orphan(p) ==
  parent[p] = initproc \/ state[parent[p]] \in {"ZOMBIE", "UNUSED"}

(* init reaps every dead process that it has forked, or that its parent left *)
(* behind dead or alive, unless a failed fork() has made init exit.          *)
ZombiesReaped ==
  \A p \in Slots \ {initproc} :
    state[p] = "ZOMBIE" /\ parent[p] # 0 /\ Orphan(p)
      ~> state[p] = "UNUSED" \/ panicked

(* A killed process exits, whatever it was doing. *)
KilledExits ==
  \A p \in Slots \ {initproc} :
    killed[p] ~> state[p] \in {"ZOMBIE", "UNUSED"} \/ panicked
=============================================================================

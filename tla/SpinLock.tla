------------------------------ MODULE SpinLock ------------------------------
(***************************************************************************)
(* Spinlocks and interrupts (spinlock.c, and sched() of proc.c): every CPU *)
(* has an interrupt flag and the pushcli() depth, every kernel thread the  *)
(* list of steps it has still to take.  Threads are the processes and one  *)
(* scheduler per CPU.  A step is <<operation, argument>>.                  *)
(***************************************************************************)
EXTENDS Integers, Sequences, FiniteSets

CONSTANTS
    CPUs,       \* 1 .. ncpu
    Procs,      \* the processes; disjoint from CPUs
    Locks,      \* the spinlocks
    NULL        \* no holder, no channel

ASSUME SpinLockAssumption ==
    CPUs \cap Procs = {} /\ NULL \notin CPUs \cup Procs /\ "ptable" \in Locks

VARIABLES
    lock,       \* of each lock, the CPU that has it, or NULL
    cpu,        \* of each CPU: ncli, intena, FL_IF, and the thread it runs
    todo,       \* of each thread, the steps it has still to take
    state,      \* of each process
    chan,       \* what it sleeps on
    saved,      \* intena, kept by sched() across the switch; {}: not in sched()
    panic       \* the message of a panic, "" before one

spinVars == <<lock, cpu, todo, state, chan, saved, panic>>

Threads == CPUs \cup Procs
Running(c) == cpu[c].cur
Step(op, arg) == <<<<op, arg>>>>

-----------------------------------------------------------------------------
\* acquire() turns interrupts off and takes the lock, or spins for it with
\* interrupts off.  release() is one step: popcli() only concerns the CPU.
acquire(L) == Step("acquire", L)
release(L) == Step("release", L)

\* What a process runs to give up the CPU: sched() with its new state.
sched(st, ch) == Step("sched", [state |-> st, chan |-> ch])

\* Faulty forms for the mutants: the lock is given up before ptable.lock is
\* taken; it is taken again before ptable.lock is given up.
sleepEarly(ch, L) == release(L) \o acquire("ptable") \o sched("SLEEPING", ch)
                     \o release("ptable") \o acquire(L)
sleepNested(ch, L) == acquire("ptable") \o release(L) \o sched("SLEEPING", ch)
                      \o acquire(L) \o release("ptable")

sleep(ch, L) == acquire("ptable") \o release(L) \o sched("SLEEPING", ch)
                \o release("ptable") \o acquire(L)
yield == acquire("ptable") \o sched("RUNNABLE", NULL) \o release("ptable")
wakeup(ch) == acquire("ptable") \o Step("wakeup1", ch) \o release("ptable")
exit == acquire("ptable") \o sched("ZOMBIE", NULL)

\* The head of what CPU c runs is <<op, arg>>.
At(c, op) == todo[Running(c)] # <<>> /\ Head(todo[Running(c)])[1] = op
Arg(c) == Head(todo[Running(c)])[2]
Rest(c) == Tail(todo[Running(c)])
Then(c, steps) == todo' = [todo EXCEPT ![Running(c)] = steps]

-----------------------------------------------------------------------------
\* The effect of pushcli() on a CPU.
Pushed(r) ==
    [r EXCEPT !.intena = IF r.ncli = 0 THEN r.FL_IF ELSE @, !.ncli = @ + 1, !.FL_IF = FALSE]

do_acquire(c) ==
    /\ At(c, "acquire")
    /\ panic' = IF lock[Arg(c)] = c THEN "acquire" ELSE ""
    /\ cpu' = [cpu EXCEPT ![c] = Pushed(@)]
    /\ IF lock[Arg(c)] = NULL
       THEN lock' = [lock EXCEPT ![Arg(c)] = c] /\ Then(c, Rest(c))
       ELSE UNCHANGED lock /\ Then(c, Step("xchg", Arg(c)) \o Rest(c))
    /\ UNCHANGED <<state, chan, saved>>

\* The spinning CPU finds the lock free.
xchg(c) ==
    /\ At(c, "xchg")
    /\ lock[Arg(c)] = NULL
    /\ lock' = [lock EXCEPT ![Arg(c)] = c]
    /\ Then(c, Rest(c))
    /\ UNCHANGED <<cpu, state, chan, saved, panic>>

\* A faulty form for the mutants: an inner popcli() enables interrupts.
PoppedInner(r) == [r EXCEPT !.ncli = @ - 1, !.FL_IF = r.intena]

\* The effect of popcli() on a CPU.
Popped(r) == [r EXCEPT !.ncli = @ - 1, !.FL_IF = r.ncli = 1 /\ r.intena]

ReleasePanic(c) ==
    IF lock[Arg(c)] # c THEN "release"
    ELSE IF cpu[c].FL_IF THEN "popcli - interruptible"
    ELSE IF cpu[c].ncli < 1 THEN "popcli" ELSE ""

do_release(c) ==
    /\ At(c, "release")
    /\ panic' = ReleasePanic(c)
    /\ lock' = [lock EXCEPT ![Arg(c)] = NULL]
    /\ cpu' = [cpu EXCEPT ![c] = Popped(@)]
    /\ Then(c, Rest(c))
    /\ UNCHANGED <<state, chan, saved>>

\* sched(): the process gives the CPU, with ptable.lock, to the scheduler.
SchedPanic(c) ==
    IF lock["ptable"] # c THEN "sched ptable.lock"
    ELSE IF cpu[c].ncli # 1 THEN "sched locks"
    ELSE IF cpu[c].FL_IF THEN "sched interruptible" ELSE ""

do_sched(c) ==
    LET p == Running(c) IN
    /\ At(c, "sched")
    /\ panic' = SchedPanic(c)
    /\ state' = [state EXCEPT ![p] = Arg(c).state]
    /\ chan' = [chan EXCEPT ![p] = Arg(c).chan]
    /\ saved' = [saved EXCEPT ![p] = {cpu[c].intena}]
    /\ cpu' = [cpu EXCEPT ![c].cur = c]
    /\ Then(c, Rest(c))
    /\ UNCHANGED lock

wakeup1(c) ==
    /\ At(c, "wakeup1")
    /\ state' = [p \in Procs |-> IF state[p] = "SLEEPING" /\ chan[p] = Arg(c)
                                 THEN "RUNNABLE" ELSE state[p]]
    /\ Then(c, Rest(c))
    /\ UNCHANGED <<lock, cpu, chan, saved, panic>>

-----------------------------------------------------------------------------
\* scheduler(): interrupts on, then a pass over the table with the lock.
scheduler(c) ==
    /\ Running(c) = c
    /\ todo[c] = <<>>
    /\ cpu' = [cpu EXCEPT ![c].FL_IF = TRUE]
    /\ todo' = [todo EXCEPT ![c] = acquire("ptable") \o Step("scan", NULL)]
    /\ UNCHANGED <<lock, state, chan, saved, panic>>

\* intena after the switch to p: what its sched() kept; a new process has
\* none, and forkret() finds the scheduler's.
Restored(c, p) == IF saved[p] = {} THEN cpu[c].intena ELSE TRUE \in saved[p]

\* The pass meets a RUNNABLE process (Proc has the order), which goes on
\* with ptable.lock held, after its sched() or in forkret().
scan_switch(c) ==
    /\ At(c, "scan")
    /\ \E p \in Procs :
         /\ state[p] = "RUNNABLE"
         /\ state' = [state EXCEPT ![p] = "RUNNING"]
         /\ chan' = [chan EXCEPT ![p] = NULL]
         /\ cpu' = [cpu EXCEPT ![c].cur = p, ![c].intena = Restored(c, p)]
         /\ saved' = [saved EXCEPT ![p] = {}]
    /\ UNCHANGED <<lock, todo, panic>>

scan_end(c) ==
    /\ At(c, "scan")
    /\ lock' = [lock EXCEPT !["ptable"] = NULL]
    /\ cpu' = [cpu EXCEPT ![c] = Popped(@)]
    /\ Then(c, Rest(c))
    /\ UNCHANGED <<state, chan, saved, panic>>

\* The steps every kernel thread shares.
spin(c) ==
    \/ do_acquire(c) \/ xchg(c) \/ do_release(c) \/ do_sched(c) \/ wakeup1(c)
    \/ scheduler(c) \/ scan_switch(c) \/ scan_end(c)

SpinInit ==
    /\ lock = [L \in Locks |-> NULL]
    /\ cpu = [c \in CPUs |-> [ncli |-> 0, intena |-> FALSE, FL_IF |-> FALSE, cur |-> c]]
    /\ todo = [t \in Threads |-> IF t \in CPUs THEN <<>> ELSE release("ptable") \o Step("sysret", NULL)]
    /\ state = [p \in Procs |-> "RUNNABLE"]
    /\ chan = [p \in Procs |-> NULL]
    /\ saved = [p \in Procs |-> {}]
    /\ panic = ""

-----------------------------------------------------------------------------
\* acquire(), release(), popcli() and sched() never find a lock or the
\* interrupt flag in a state they panic about, on any CPU, whatever
\* interrupts arrive and processes migrate: no interrupt handler meets a
\* lock that its own CPU holds.  Nor does the code that uses them panic.
NoKernelPanic == panic = ""

\* No set of CPUs waits in a circle: some CPU that has or wants a lock can
\* always go on.
NoSpinCycle ==
    ~ \E S \in SUBSET CPUs :
        /\ S # {}
        /\ \A c \in S : At(c, "xchg") /\ lock[Arg(c)] \in S
=============================================================================

------------------------------- MODULE Console -------------------------------
(***************************************************************************)
(* The console and the clock: consoleread(), consolewrite(), sys_sleep()   *)
(* and sys_kill() of processes, and the interrupts that feed them          *)
(* (console.c, kbd.c, uart.c, trap.c, sysproc.c), on the CPUs and locks of *)
(* SpinLock.  A key is the character kbdgetc() or uartgetc() returns.      *)
(***************************************************************************)
EXTENDS SpinLock

CONSTANTS
    INPUT_BUF,  \* size of the input ring
    UINT,       \* indices are unsigned, modulo this; a multiple of INPUT_BUF
    MaxTraps,   \* bound: the interrupts
    Keys,       \* the characters that are typed
    ReadSizes,  \* the n of consoleread()
    SleepTicks, \* the n of sys_sleep()
    COLS, ROWS, \* the CGA screen, 80 by 25
    Workloads   \* what happens: the calls each process makes, the keys typed
                \* and, as a bound, how many: records [calls, keys, maxkeys]

ASSUME ConsoleAssumption ==
    /\ {"ptable", "cons", "tickslock"} \subseteq Locks
    /\ INPUT_BUF \in Nat \ {0} /\ UINT \in Nat /\ UINT % INPUT_BUF = 0 /\ UINT > INPUT_BUF

VARIABLES
    input,      \* the ring: buf and the indices r, w and e
    ticks,
    local,      \* of each process, the variables of its call
    killed,     \* of each process
    work,       \* the workload of this behaviour
    ntraps,     \* interrupts so far
    nkeys,      \* keys typed so far
    pos,        \* the cursor of the CGA screen
    ready,      \* history: the characters a reader may have, in order
    edited      \* history: the line being typed

\* Left alone by what is not about CPUs and locks, not about the keyboard.
cpuVars == <<lock, cpu, state, chan, saved, panic>>
lineVars == <<work, input, nkeys, pos, ready, edited>>
consVars == <<input, ticks, local, killed, work, ntraps, nkeys, pos, ready, edited>>
vars == <<spinVars, consVars>>

NoCall == [call |-> "none", n |-> 0, target |-> 0, ticks0 |-> 0]
Plus(i, k) == (i + k) % UINT
Minus(i, k) == (i - k) % UINT
Slot(i) == i % INPUT_BUF

-----------------------------------------------------------------------------
\* The steps of the handlers and the calls.
timer(c) ==
    (IF c = 1 THEN acquire("tickslock") \o Step("tick", NULL) \o wakeup("ticks") \o release("tickslock")
     ELSE <<>>) \o Step("trap_end", "timer")
consoleintr == acquire("cons") \o Step("getc", NULL) \o release("cons") \o Step("trap_end", "kbd")

\* consoleread() and consolewrite() release the inode before, and lock it
\* again after, what is shown here.
consoleread == acquire("cons") \o Step("read", NULL) \o release("cons") \o Step("sysret", NULL)
consolewrite == acquire("cons") \o Step("putc", "x") \o Step("putc", "\n") \o release("cons") \o Step("sysret", NULL)
sys_sleep == acquire("tickslock") \o Step("check", NULL) \o release("tickslock") \o Step("sysret", NULL)
sys_kill(q) == acquire("ptable") \o Step("kill", q) \o release("ptable") \o Step("sysret", NULL)

InUser(c) == Running(c) \in Procs /\ todo[Running(c)] = <<>>

\* A device interrupts a CPU whose interrupts are on, in user space, in the
\* kernel or in the scheduler; the gate turns them off until the iret.
\* ioapicenable() sends keyboard and serial interrupts to the first CPU.
trap(c) ==
    /\ cpu[c].FL_IF
    /\ ntraps < MaxTraps
    /\ ntraps' = ntraps + 1
    /\ \E steps \in {timer(c), consoleintr} :
         /\ steps = consoleintr => c = 1 /\ nkeys < work.maxkeys
         /\ Then(c, steps \o Step("iret", NULL) \o todo[Running(c)])
    /\ cpu' = [cpu EXCEPT ![c].FL_IF = FALSE]
    /\ UNCHANGED <<lock, state, chan, saved, panic, lineVars, ticks, local, killed>>

\* The end of trap(): a killed process in user space exits, a clock tick
\* makes the process yield.
trap_end(c) ==
    LET p == Running(c)
        user == Len(todo[p]) = 2
    IN  /\ At(c, "trap_end")
        /\ Then(c, (IF p \in Procs /\ killed[p] /\ user THEN exit
                    ELSE IF p \in Procs /\ Arg(c) = "timer" THEN yield
                    ELSE <<>>) \o Rest(c))
        /\ UNCHANGED <<cpuVars, consVars>>

\* The return from an interrupt or a system call: to user space only if the process is not killed.
iret(c) ==
    LET p == Running(c) IN
    /\ At(c, "iret") \/ At(c, "sysret")
    /\ IF p \in Procs /\ Rest(c) = <<>> /\ killed[p]
       THEN Then(c, exit) /\ UNCHANGED cpu
       ELSE Then(c, Rest(c)) /\ cpu' = [cpu EXCEPT ![c].FL_IF = TRUE]
    /\ UNCHANGED <<lock, state, chan, saved, panic, consVars>>

\* A system call; its gate leaves interrupts on.  A process killed before it
\* exits instead.
syscall(c) ==
    LET p == Running(c) IN
    /\ InUser(c)
    /\ work.calls[p] # {}
    /\ IF killed[p] THEN Then(c, exit) /\ UNCHANGED local
       ELSE \/ /\ "read" \in work.calls[p]
               /\ \E n \in ReadSizes :
                    local' = [local EXCEPT ![p] = [NoCall EXCEPT !.call = "read", !.n = n, !.target = n]]
               /\ Then(c, consoleread)
            \/ /\ "sleep" \in work.calls[p]
               /\ \E n \in SleepTicks :
                    local' = [local EXCEPT ![p] = [NoCall EXCEPT !.call = "sleep", !.n = n]]
               /\ Then(c, sys_sleep)
            \/ /\ "write" \in work.calls[p]
               /\ Then(c, consolewrite)
               /\ UNCHANGED local
            \/ /\ "kill" \in work.calls[p]
               /\ \E q \in Procs \ {p} : Then(c, sys_kill(q))
               /\ UNCHANGED local
    /\ UNCHANGED <<cpuVars, lineVars, ticks, killed, ntraps>>

kill(c) ==
    /\ At(c, "kill")
    /\ killed' = [killed EXCEPT ![Arg(c)] = TRUE]
    /\ state' = [state EXCEPT ![Arg(c)] = IF @ = "SLEEPING" THEN "RUNNABLE" ELSE @]
    /\ Then(c, Rest(c))
    /\ UNCHANGED <<lock, cpu, chan, saved, panic, lineVars, ticks, local, ntraps>>

-----------------------------------------------------------------------------
\* The clock.
tick(c) ==
    /\ At(c, "tick")
    /\ ticks' = ticks + 1
    /\ Then(c, Rest(c))
    /\ UNCHANGED <<cpuVars, lineVars, local, killed, ntraps>>

\* The loop of sys_sleep(); its first turn reads ticks0.
sleep_check(c) ==
    LET p == Running(c)
        t0 == IF local[p].call = "sleep" THEN ticks ELSE local[p].ticks0
    IN  /\ At(c, "check")
        /\ IF ticks - t0 < local[p].n /\ ~killed[p]
           THEN /\ Then(c, sleep("ticks", "tickslock") \o todo[p])
                /\ local' = [local EXCEPT ![p].call = "asleep", ![p].ticks0 = t0]
           ELSE Then(c, Rest(c)) /\ local' = [local EXCEPT ![p] = NoCall]
        /\ UNCHANGED <<cpuVars, lineVars, ticks, killed, ntraps>>

-----------------------------------------------------------------------------
\* cgaputc(): the cursor moves, and the screen scrolls when it comes to the
\* last row.
Moved(k) == IF k = "\n" THEN pos + COLS - (pos % COLS) ELSE pos + 1
cgaputc(k) ==
    /\ panic' = IF Moved(k) > ROWS * COLS THEN "pos under/overflow" ELSE panic
    /\ pos' = IF Moved(k) \div COLS >= ROWS - 1 THEN Moved(k) - COLS ELSE Moved(k)

putc(c) ==
    /\ At(c, "putc")
    /\ cgaputc(Arg(c))
    /\ Then(c, Rest(c))
    /\ UNCHANGED <<lock, cpu, state, chan, saved, input, ticks, local, work, killed, ntraps, nkeys, ready, edited>>

-----------------------------------------------------------------------------
\* The characters of the ring from index i up to index j.
Ring(i, j) == [k \in 1 .. Minus(j, i) |-> input.buf[Slot(Plus(i, k - 1))]]

\* How many characters the kill-line key takes back: down to w, or to the
\* end of the line before.
LineLength ==
    CHOOSE k \in 0 .. Minus(input.e, input.w) :
        /\ k = Minus(input.e, input.w) \/ input.buf[Slot(Minus(input.e, k + 1))] = "\n"
        /\ \A j \in 0 .. (k - 1) : input.buf[Slot(Minus(input.e, j + 1))] # "\n"

\* A faulty form for the mutants: backspace reaches into finished lines.
ErasesAny(k) == CASE k = "^U" -> LineLength
                  [] k = "^H" -> IF input.e # input.r THEN 1 ELSE 0
                  [] OTHER    -> 0

\* The keys that take characters back, and how many.
Erases(k) == CASE k = "^U" -> LineLength
               [] k = "^H" -> IF input.e # input.w THEN 1 ELSE 0
               [] OTHER    -> 0

erase(c, k) ==
    /\ k \in {"^U", "^H"}
    /\ input' = [input EXCEPT !.e = Minus(@, Erases(k))]
    /\ edited' = IF k = "^U" THEN <<>> ELSE SubSeq(edited, 1, Len(edited) - 1)
    /\ pos' = IF Erases(k) < pos THEN pos - Erases(k) ELSE 0
    /\ UNCHANGED <<todo, ready, panic>>

\* A faulty form for the mutants: a full ring is not announced.
AnnouncedLine(full, k) == k \in {"\n", "^D"}

\* What makes the typed characters available, and when there is no room.
Announced(full, k) == k \in {"\n", "^D"} \/ full
Full == Minus(input.e, input.r) >= INPUT_BUF

\* Any other key is stored and echoed unless the ring is full; the end of a
\* line or of the ring makes it all available and wakes the readers.
store(c, k) ==
    LET e == Plus(input.e, 1)
        done == Announced(e = Plus(input.r, INPUT_BUF), k)
    IN  /\ k \notin {"^U", "^H"}
        /\ ~Full
        /\ input' = [input EXCEPT !.buf[Slot(input.e)] = k, !.e = e, !.w = IF done THEN e ELSE @]
        /\ IF done
           THEN /\ ready' = ready \o Append(edited, k)
                /\ edited' = <<>>
                /\ Then(c, wakeup("input") \o todo[Running(c)])
           ELSE /\ edited' = Append(edited, k)
                /\ UNCHANGED <<ready, todo>>
        /\ cgaputc(k)

getc(c) ==
    /\ At(c, "getc")
    /\ nkeys < work.maxkeys
    /\ nkeys' = nkeys + 1
    /\ \E k \in Keys \cap work.keys :
         \/ erase(c, k)
         \/ store(c, k)
         \/ k \notin {"^U", "^H"} /\ Full /\ UNCHANGED <<input, ready, edited, pos, panic, todo>>
    /\ UNCHANGED <<lock, cpu, state, chan, saved, ticks, local, work, killed, ntraps>>

getc_end(c) ==
    /\ At(c, "getc")
    /\ Then(c, Rest(c))
    /\ UNCHANGED <<cpuVars, consVars>>

-----------------------------------------------------------------------------
ReturnRead(c) ==
    /\ Then(c, Rest(c))
    /\ local' = [local EXCEPT ![Running(c)] = NoCall]

\* One turn of the loop of consoleread(): nothing to read, a character, or
\* the end-of-file key, which is left for the next call if this one has
\* something to return.
read_wait(c) ==
    /\ At(c, "read")
    /\ input.r = input.w
    /\ IF killed[Running(c)] THEN ReturnRead(c)
       ELSE Then(c, sleep("input", "cons") \o todo[Running(c)]) /\ UNCHANGED local
    /\ UNCHANGED <<cpuVars, lineVars, ticks, killed, ntraps>>

read_char(c) ==
    LET p == Running(c)
        k == input.buf[Slot(input.r)]
    IN  /\ At(c, "read")
        /\ input.r # input.w
        /\ k # "^D"
        /\ input' = [input EXCEPT !.r = Plus(@, 1)]
        /\ ready' = Tail(ready)
        /\ IF k = "\n" \/ local[p].n = 1 THEN ReturnRead(c)
           ELSE local' = [local EXCEPT ![p].n = @ - 1] /\ UNCHANGED todo
        /\ UNCHANGED <<cpuVars, ticks, work, killed, ntraps, nkeys, pos, edited>>

read_eof(c) ==
    LET p == Running(c) IN
    /\ At(c, "read")
    /\ input.r # input.w
    /\ input.buf[Slot(input.r)] = "^D"
    /\ IF local[p].n < local[p].target THEN UNCHANGED <<input, ready>>
       ELSE input' = [input EXCEPT !.r = Plus(@, 1)] /\ ready' = Tail(ready)
    /\ ReturnRead(c)
    /\ UNCHANGED <<cpuVars, ticks, work, killed, ntraps, nkeys, pos, edited>>

-----------------------------------------------------------------------------
Init ==
    /\ SpinInit
    /\ input = [buf |-> [i \in 0 .. (INPUT_BUF - 1) |-> "0"], r |-> 0, w |-> 0, e |-> 0]
    /\ ticks = 0
    /\ local = [p \in Procs |-> NoCall]
    /\ killed = [p \in Procs |-> FALSE]
    /\ work \in Workloads
    /\ ntraps = 0
    /\ nkeys = 0
    /\ pos = 0
    /\ ready = <<>>
    /\ edited = <<>>

handler(c) ==
    \/ trap_end(c) \/ iret(c) \/ kill(c) \/ tick(c) \/ sleep_check(c) \/ putc(c)
    \/ getc(c) \/ getc_end(c) \/ read_wait(c) \/ read_char(c) \/ read_eof(c)

Next ==
    /\ panic = ""
    /\ \E c \in CPUs : (spin(c) /\ UNCHANGED consVars) \/ handler(c) \/ trap(c) \/ syscall(c)

Spec == Init /\ [][Next]_vars

-----------------------------------------------------------------------------
\* The ring with its three wrapping indices is the line discipline it
\* stands for: between r and w the finished lines in the order they were
\* typed, between w and e the line being edited, and nothing is
\* overwritten before it is read.
RingIsQueue == Ring(input.r, input.w) = ready /\ Ring(input.w, input.e) = edited

\* Reader and typist never wait for each other: when there is no room for
\* another key there is something to read.
RingNeverStuck == Full => input.r # input.w

\* Nobody sleeps for something that has already happened: while a process
\* sleeps in consoleread() there is nothing to read, and while one sleeps
\* in sys_sleep() its time is not over, unless the interrupt handler that
\* made it happen still has the lock and is about to call wakeup().
NoMissedWakeup ==
    \A p \in Procs : state[p] = "SLEEPING" =>
        \/ /\ chan[p] = "input"
           /\ input.r = input.w \/ lock["cons"] # NULL
        \/ /\ chan[p] = "ticks"
           /\ ticks - local[p].ticks0 < local[p].n \/ lock["tickslock"] # NULL
=============================================================================

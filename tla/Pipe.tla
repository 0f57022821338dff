-------------------------------- MODULE Pipe --------------------------------
(***************************************************************************)
(* A pipe (pipe.c): a ring buffer under a spinlock, and the sleep/wakeup   *)
(* protocol of proc.c with a lock other than ptable.lock.                  *)
(*                                                                         *)
(* nread and nwrite are machine words: they count modulo UINT.  A step is  *)
(* one byte, or one critical section of ptable.lock; p->lock is explicit   *)
(* because sleep() gives it up between two critical sections.              *)
(***************************************************************************)
EXTENDS Naturals, Sequences, FiniteSets

CONSTANTS
  Readers, Writers,   \* processes that hold the read end, the write end
  None,
  Values,             \* bytes
  PIPESIZE,
  UINT,               \* 2^32 in the code
  MaxCount            \* bound on the byte count of a call

ASSUME PipeAssumption ==
  /\ Readers \cap Writers = {}
  /\ None \notin Readers \cup Writers \cup {"nread", "nwrite"}
  /\ PIPESIZE \in Nat \ {0} /\ UINT \in Nat /\ MaxCount \in Nat
  /\ UINT > PIPESIZE /\ UINT % PIPESIZE = 0

Procs == Readers \cup Writers

VARIABLES
  data, nread, nwrite, readopen, writeopen,  \* struct pipe
  freed,      \* kfree() has been called for it
  out,        \* the byte that piperead copied last
  lock,       \* the process that holds p->lock, or None
  plock,      \* the process that holds ptable.lock, or None
  asleep,     \* the channel a process sleeps on, or None
  killed,
  fd,         \* whether a process still has its end open
  pc, left,   \* program point, and bytes to go in the current call
  some        \* whether piperead has copied a byte

pipeVars == <<data, nread, nwrite, readopen, writeopen, freed, out>>
procVars == <<asleep, killed, fd>>
vars == <<data, nread, nwrite, readopen, writeopen, freed, out, lock, plock,
          asleep, killed, fd, pc, left, some>>

(* The channels are the addresses of the two counters. *)
Chans == {"nread", "nwrite"}

PCs == {"user", "acquire", "write", "empty", "copy", "sleep", "release",
        "sched", "slept", "close", "closing"}

(* As pipealloc leaves it. *)
Init ==
  /\ data \in [0..(PIPESIZE - 1) -> Values]
  /\ nread = 0 /\ nwrite = 0
  /\ readopen = TRUE /\ writeopen = TRUE
  /\ freed = FALSE
  /\ out = None
  /\ lock = None /\ plock = None
  /\ asleep = [p \in Procs |-> None]
  /\ killed = [p \in Procs |-> FALSE]
  /\ fd = [p \in Procs |-> TRUE]
  /\ pc = [p \in Procs |-> "user"]
  /\ left = [p \in Procs |-> 0]
  /\ some = [p \in Readers |-> FALSE]

Goto(p, l) == pc' = [pc EXCEPT ![p] = l]

(* The value of asleep after wakeup() on a channel. *)
Woken(ch) == [p \in Procs |-> IF asleep[p] = ch THEN None ELSE asleep[p]]

(* A call returns to user code. *)
Return(p) ==
  /\ Goto(p, "user")
  /\ left' = [left EXCEPT ![p] = 0]
  /\ some' = [q \in Readers |-> q # p /\ some[q]]

-----------------------------------------------------------------------------
(* sleep(chan, &p->lock) *)

Chan(p) == IF p \in Readers THEN "nread" ELSE "nwrite"

(* ... without ptable.lock. *)
sleep_acquire_unlocked(p) ==
  /\ pc[p] = "sleep"
  /\ Goto(p, "release")
  /\ UNCHANGED <<pipeVars, lock, plock, procVars, left, some>>

sleep_acquire(p) ==
  /\ pc[p] = "sleep" /\ plock = None
  /\ plock' = p
  /\ Goto(p, "release")
  /\ UNCHANGED <<pipeVars, lock, procVars, left, some>>

sleep_release(p) ==
  /\ pc[p] = "release"
  /\ lock' = None
  /\ Goto(p, "sched")
  /\ UNCHANGED <<pipeVars, plock, procVars, left, some>>

sleep_sched(p) ==
  /\ pc[p] = "sched"
  /\ asleep' = [asleep EXCEPT ![p] = Chan(p)]
  /\ plock' = None
  /\ Goto(p, "slept")
  /\ UNCHANGED <<pipeVars, lock, killed, fd, left, some>>

(* Woken up, sleep() takes p->lock again and the caller tests its condition; *)
(* faulty: piperead does not test again.                                     *)
sleep_return_if(p) ==
  /\ pc[p] = "slept" /\ asleep[p] = None /\ lock = None
  /\ lock' = p
  /\ Goto(p, IF p \in Readers THEN "copy" ELSE "write")
  /\ UNCHANGED <<pipeVars, plock, procVars, left, some>>

sleep_return(p) ==
  /\ pc[p] = "slept" /\ asleep[p] = None /\ lock = None
  /\ lock' = p
  /\ Goto(p, IF p \in Readers THEN "empty" ELSE "write")
  /\ UNCHANGED <<pipeVars, plock, procVars, left, some>>

sleep(p) ==
  sleep_acquire(p) \/ sleep_release(p) \/ sleep_sched(p) \/ sleep_return(p)

-----------------------------------------------------------------------------
(* A process calls pipewrite or piperead for n bytes and takes p->lock. *)
call(p, n) ==
  /\ pc[p] = "user" /\ fd[p] /\ ~killed[p]
  /\ left' = [left EXCEPT ![p] = n]
  /\ Goto(p, "acquire")
  /\ UNCHANGED <<pipeVars, lock, plock, procVars, some>>

acquire(p) ==
  /\ pc[p] = "acquire" /\ lock = None
  /\ lock' = p
  /\ Goto(p, IF p \in Readers THEN "empty" ELSE "write")
  /\ UNCHANGED <<pipeVars, plock, procVars, left, some>>

(* The test before a byte is written; faulty: the counters compared without  *)
(* regard to their width.                                                    *)
FullWide == nwrite = nread + PIPESIZE

Full == nwrite = (nread + PIPESIZE) % UINT

(* A counter's successor. *)
After(n) == (n + 1) % UINT

write_byte(p) ==
  /\ pc[p] = "write" /\ left[p] > 0 /\ ~Full
  /\ \E v \in Values : data' = [data EXCEPT ![nwrite % PIPESIZE] = v]
  /\ nwrite' = After(nwrite)
  /\ left' = [left EXCEPT ![p] = @ - 1]
  /\ UNCHANGED <<nread, readopen, writeopen, freed, out, lock, plock, procVars,
                 pc, some>>

(* The pipe is full: give up, or wake the readers and sleep. *)
write_full(p) ==
  /\ pc[p] = "write" /\ left[p] > 0 /\ Full
  /\ \/ /\ ~readopen \/ killed[p]
        /\ lock' = None
        /\ Return(p)
        /\ UNCHANGED asleep
     \/ /\ readopen /\ ~killed[p] /\ plock = None
        /\ asleep' = Woken("nread")
        /\ Goto(p, "sleep")
        /\ UNCHANGED <<lock, left, some>>
  /\ UNCHANGED <<pipeVars, plock, killed, fd>>

write_end(p) ==
  /\ pc[p] = "write" /\ left[p] = 0 /\ plock = None
  /\ asleep' = Woken("nread")
  /\ lock' = None
  /\ Return(p)
  /\ UNCHANGED <<pipeVars, plock, killed, fd>>

pipewrite(p) == write_byte(p) \/ write_full(p) \/ write_end(p)

Empty == nread = nwrite

(* piperead's first loop: wait for a byte or for the end of the stream. *)
read_empty(p) ==
  /\ pc[p] = "empty"
  /\ \/ /\ Empty /\ writeopen /\ killed[p]
        /\ lock' = None
        /\ Return(p)
     \/ /\ Empty /\ writeopen /\ ~killed[p]
        /\ Goto(p, "sleep")
        /\ UNCHANGED <<lock, left, some>>
     \/ /\ ~(Empty /\ writeopen)
        /\ Goto(p, "copy")
        /\ UNCHANGED <<lock, left, some>>
  /\ UNCHANGED <<pipeVars, plock, procVars>>

read_byte(p) ==
  /\ pc[p] = "copy" /\ left[p] > 0 /\ ~Empty
  /\ out' = data[nread % PIPESIZE]
  /\ nread' = After(nread)
  /\ left' = [left EXCEPT ![p] = @ - 1]
  /\ some' = [some EXCEPT ![p] = TRUE]
  /\ UNCHANGED <<data, nwrite, readopen, writeopen, freed, lock, plock,
                 procVars, pc>>

read_end(p) ==
  /\ pc[p] = "copy" /\ (left[p] = 0 \/ Empty) /\ plock = None
  /\ asleep' = Woken("nwrite")
  /\ lock' = None
  /\ Return(p)
  /\ UNCHANGED <<pipeVars, plock, killed, fd>>

piperead(p) == read_empty(p) \/ read_byte(p) \/ read_end(p)

-----------------------------------------------------------------------------
(* fileclose drops a reference; the last one of an end calls pipeclose. *)
Last(p) ==
  \A q \in (IF p \in Readers THEN Readers ELSE Writers) \ {p} : ~fd[q]

fileclose(p) ==
  /\ pc[p] = "user" /\ fd[p]
  /\ fd' = [fd EXCEPT ![p] = FALSE]
  /\ Goto(p, IF Last(p) THEN "close" ELSE "user")
  /\ UNCHANGED <<pipeVars, lock, plock, asleep, killed, left, some>>

close_flag(p) ==
  /\ pc[p] = "close" /\ lock = None
  /\ lock' = p
  /\ readopen' = (readopen /\ p \notin Readers)
  /\ writeopen' = (writeopen /\ p \notin Writers)
  /\ Goto(p, "closing")
  /\ UNCHANGED <<data, nread, nwrite, freed, out, plock, procVars, left, some>>

(* The channel of the other end, and of the wrong one. *)
OwnSide(p) == Chan(p)

OtherSide(p) == IF p \in Readers THEN "nwrite" ELSE "nread"

(* Whether pipeclose frees the pipe; faulty: when one end is closed. *)
OneEndClosed == ~readopen \/ ~writeopen

BothEndsClosed == ~readopen /\ ~writeopen

close_wake(p) ==
  /\ pc[p] = "closing" /\ plock = None
  /\ asleep' = Woken(OtherSide(p))
  /\ lock' = None
  /\ freed' = (freed \/ BothEndsClosed)
  /\ Goto(p, "user")
  /\ UNCHANGED <<data, nread, nwrite, readopen, writeopen, out, plock, killed,
                 fd, left, some>>

pipeclose(p) == close_flag(p) \/ close_wake(p)

(* kill(): a critical section of ptable.lock that also ends a sleep. *)
kill(p) ==
  /\ plock = None /\ ~killed[p]
  /\ killed' = [killed EXCEPT ![p] = TRUE]
  /\ asleep' = [asleep EXCEPT ![p] = None]
  /\ UNCHANGED <<pipeVars, lock, plock, fd, pc, left, some>>

-----------------------------------------------------------------------------
(* Steps of a process that is inside a call. *)
kernel(p) == acquire(p) \/ pipewrite(p) \/ piperead(p) \/ sleep(p) \/ pipeclose(p)

Next ==
  \E p \in Procs :
    kernel(p) \/ fileclose(p) \/ kill(p) \/ \E n \in 0..MaxCount : call(p, n)

Spec == Init /\ [][Next]_vars

(* Every process is scheduled, and a killed one exits and closes its files.  *)
(* The spinlock itself is not fair; on one CPU, where interrupts are off     *)
(* while it is held, a running process never finds it taken.                 *)
Acquires(p) == acquire(p) \/ sleep_return(p) \/ close_flag(p)

KernelFairness ==
  \A p \in Procs : /\ WF_vars(kernel(p)) /\ SF_vars(Acquires(p))
                   /\ WF_vars(killed[p] /\ fileclose(p))

(* ... and programs go on using their end until they close it. *)
Uses(p) == fileclose(p) \/ \E n \in 1..MaxCount : call(p, n)

Fairness == KernelFairness /\ \A p \in Procs : SF_vars(Uses(p))

FairSpec == Spec /\ Fairness

-----------------------------------------------------------------------------
(* Properties *)

TypeOK ==
  /\ data \in [0..(PIPESIZE - 1) -> Values]
  /\ nread \in 0..(UINT - 1) /\ nwrite \in 0..(UINT - 1)
  /\ readopen \in BOOLEAN /\ writeopen \in BOOLEAN /\ freed \in BOOLEAN
  /\ out \in Values \cup {None}
  /\ lock \in Procs \cup {None} /\ plock \in Procs \cup {None}
  /\ asleep \in [Procs -> Chans \cup {None}]
  /\ killed \in [Procs -> BOOLEAN] /\ fd \in [Procs -> BOOLEAN]
  /\ pc \in [Procs -> PCs]
  /\ left \in [Procs -> 0..MaxCount] /\ some \in [Readers -> BOOLEAN]

(* The bytes in the ring, oldest first; the counters may have wrapped. *)
Count == (nwrite + UINT - nread) % UINT

queue == [i \in 1..Count |-> data[(nread + i - 1) % PIPESIZE]]

Stream == INSTANCE ByteStream WITH readers <- readopen, writers <- writeopen

(* The ring buffer is a bounded first-in first-out queue: no byte is lost,   *)
(* repeated or reordered, also when the counters overflow.                   *)
FirstInFirstOut == Stream!Spec

Settled == lock = None /\ plock = None

(* Nobody sleeps through the event it waits for: when no step of the         *)
(* protocol is under way a sleeping reader has nothing to read and a writer  *)
(* left, a sleeping writer has no room and a reader left.  The exception is  *)
(* pipewrite's early return for a killed process, which wakes no reader.     *)
NoLostWakeupUnlessKilled ==
  Settled => \A p \in Procs :
    /\ asleep[p] = "nread" =>
         writeopen /\ (Empty \/ \E w \in Writers : killed[w])
    /\ asleep[p] = "nwrite" => Full /\ readopen

(* pipeclose frees the pipe once nobody can use it any more. *)
NoUseAfterFree ==
  freed => lock = None /\ \A p \in Procs : ~fd[p] /\ pc[p] = "user"

(* piperead returns no bytes, and pipewrite fewer than asked, only at the    *)
(* end of the stream or for a killed process.                                *)
ShortCount ==
  [][\A p \in Procs :
       pc[p] \in {"write", "empty", "copy"} /\ pc'[p] = "user" /\ ~killed[p] =>
         /\ p \in Readers /\ left[p] > 0 => some[p] \/ (Empty /\ ~writeopen)
         /\ p \in Writers /\ left[p] > 0 => ~readopen]_vars

(* A call returns if the processes at the other end go on or close.          *)
CallReturns == \A p \in Procs : pc[p] # "user" ~> pc[p] = "user"
=============================================================================

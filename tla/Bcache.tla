------------------------------ MODULE Bcache ------------------------------
(* The buffer cache (bio.c), its sleep locks (sleeplock.c) and the IDE       *)
(* driver (ide.c) below it.  A process uses one buffer at a time.  Each      *)
(* action is one critical section of bcache.lock, a sleep lock's lk or       *)
(* idelock, or one step between them; Pipe models sleep() and wakeup()       *)
(* themselves.                                                               *)
EXTENDS Naturals, Sequences, FiniteSets, Functions

CONSTANTS Procs, Blocks, Values, None,
          Bufs,      \* bcache.buf
          LOGSIZE,   \* how many buffers log.c pins at once
          MaxErrors  \* bound: the blocks on which the disk fails

ASSUME BcacheAssumption ==
  /\ IsFiniteSet(Bufs) /\ IsFiniteSet(Procs)
  /\ LOGSIZE \in Nat /\ MaxErrors \in Nat
  /\ None \notin Procs \cup Blocks \cup Bufs

VARIABLES
  lru,        \* the list from head.next to head.prev
  blockno,    \* b->blockno, None before the first use (dev 0)
  valid,      \* the buffers with B_VALID
  dirty,      \* the buffers with B_DIRTY
  refcnt,
  data,
  locked,     \* the process that holds b->lock, or None
  idequeue,
  device,     \* the command the disk works on
  disk,
  pc, buf,    \* where a process is, and the buffer it uses
  want,       \* the block it asked bread for
  mem,        \* history: the last contents given to each block
  bad         \* history: blocks on which a command has failed

bufVars == <<lru, blockno, valid, dirty, refcnt, data, locked>>
ideVars == <<idequeue, device, disk>>
procVars == <<pc, buf, want>>
history == <<mem, bad>>
vars == <<bufVars, ideVars, procVars, history>>

Idle == [status |-> "idle"]

(* binit: every buffer on the list, in some order, unused. *)
Init ==
  /\ lru = CHOOSE s \in Bijection(1..Cardinality(Bufs), Bufs) : TRUE
  /\ blockno = [b \in Bufs |-> None]
  /\ valid = {} /\ dirty = {}
  /\ refcnt = [b \in Bufs |-> 0]
  /\ locked = [b \in Bufs |-> None]
  /\ \E v \in Values : /\ data = [b \in Bufs |-> v]
                       /\ disk = [k \in Blocks |-> v]
  /\ idequeue = <<>> /\ device = Idle
  /\ pc = [p \in Procs |-> "idle"]
  /\ buf = [p \in Procs |-> None]
  /\ want = [p \in Procs |-> None]
  /\ mem = disk /\ bad = {}

BcacheUnlocked == \A p \in Procs : pc[p] # "panicked"

Goto(p, l) == pc' = [pc EXCEPT ![p] = l]

-----------------------------------------------------------------------------
(* bget, under bcache.lock: a hit takes a reference, a miss recycles the     *)
(* least recently used buffer that is neither referenced nor pinned.         *)
Cached(k) == {b \in Bufs : blockno[b] = k}

UnusedDirty(b) == refcnt[b] = 0                         \* faulty: no B_DIRTY

Unused(b) == refcnt[b] = 0 /\ b \notin dirty

bget_hit(p, k) ==
  \E b \in Cached(k) :
    /\ buf' = [buf EXCEPT ![p] = b]
    /\ refcnt' = [refcnt EXCEPT ![b] = @ + 1]
    /\ UNCHANGED <<blockno, valid>>

bget_recycle(p, k) ==
  /\ Cached(k) = {}
  /\ \E i \in DOMAIN lru : LET b == lru[i] IN
       /\ Unused(b) /\ \A j \in DOMAIN lru : j > i => ~Unused(lru[j])
       /\ buf' = [buf EXCEPT ![p] = b]
       /\ blockno' = [blockno EXCEPT ![b] = k]
       /\ valid' = valid \ {b}
       /\ refcnt' = [refcnt EXCEPT ![b] = 1]

bget(p, k) ==
  /\ pc[p] = "idle" /\ BcacheUnlocked
  /\ bget_hit(p, k) \/ bget_recycle(p, k)
  /\ want' = [want EXCEPT ![p] = k]
  /\ Goto(p, "acquire")
  /\ UNCHANGED <<lru, dirty, data, locked, ideVars, history>>

(* "bget: no buffers": panic() never returns, and bcache.lock stays held. *)
bget_panic(p, k) ==
  /\ pc[p] = "idle" /\ BcacheUnlocked
  /\ Cached(k) = {} /\ \A i \in DOMAIN lru : ~Unused(lru[i])
  /\ Goto(p, "panicked")
  /\ UNCHANGED <<bufVars, ideVars, buf, want, history>>

(* One turn of acquiresleep's loop. *)
acquiresleep(p) ==
  /\ pc[p] = "acquire"
  /\ \/ /\ locked[buf[p]] = None
        /\ locked' = [locked EXCEPT ![buf[p]] = p]
        /\ Goto(p, "locked")
     \/ /\ locked[buf[p]] # None
        /\ Goto(p, "asleep")
        /\ UNCHANGED locked
  /\ UNCHANGED <<lru, blockno, valid, dirty, refcnt, data, buf, want, ideVars,
                 history>>

(* bread reads the disk unless the contents are there. *)
bread(p) ==
  /\ pc[p] = "locked"
  /\ Goto(p, IF buf[p] \in valid THEN "hold" ELSE "iderw")
  /\ UNCHANGED <<bufVars, ideVars, buf, want, history>>

(* The holder changes the contents and owes a log_write or a bwrite. *)
modify(p, v) ==
  /\ pc[p] = "hold"
  /\ data' = [data EXCEPT ![buf[p]] = v]
  /\ mem' = [mem EXCEPT ![want[p]] = v]
  /\ Goto(p, "modified")
  /\ UNCHANGED <<lru, blockno, valid, dirty, refcnt, locked, ideVars, buf,
                 want, bad>>

log_write_clean(p) ==                                   \* faulty: no B_DIRTY
  /\ pc[p] = "modified"
  /\ Goto(p, "hold")
  /\ UNCHANGED <<bufVars, ideVars, buf, want, history>>

(* log_write pins the buffer; the log has room for LOGSIZE of them. *)
log_write(p) ==
  /\ pc[p] = "modified"
  /\ Cardinality(dirty \cup {buf[p]}) <= LOGSIZE
  /\ dirty' = dirty \cup {buf[p]}
  /\ Goto(p, "hold")
  /\ UNCHANGED <<lru, blockno, valid, refcnt, data, locked, ideVars, buf, want,
                 history>>

bwrite(p) ==
  /\ pc[p] \in {"hold", "modified"}
  /\ dirty' = dirty \cup {buf[p]}
  /\ Goto(p, "iderw")
  /\ UNCHANGED <<lru, blockno, valid, refcnt, data, locked, ideVars, buf, want,
                 history>>

releasesleep_silent(p) ==                               \* faulty: no wakeup
  /\ pc[p] = "hold"
  /\ locked' = [locked EXCEPT ![buf[p]] = None]
  /\ Goto(p, "release")
  /\ UNCHANGED <<lru, blockno, valid, dirty, refcnt, data, ideVars, buf, want,
                 history>>

(* brelse, first half: releasesleep wakes every process asleep on b->lock. *)
releasesleep(p) ==
  /\ pc[p] = "hold"
  /\ locked' = [locked EXCEPT ![buf[p]] = None]
  /\ pc' = [q \in Procs |-> IF q = p THEN "release"
                            ELSE IF pc[q] = "asleep" /\ buf[q] = buf[p]
                                 THEN "acquire" ELSE pc[q]]
  /\ UNCHANGED <<lru, blockno, valid, dirty, refcnt, data, ideVars, buf, want,
                 history>>

(* The list when b has been moved to its front. *)
ToFront(s, b) ==
  LET n == CHOOSE i \in DOMAIN s : s[i] = b
  IN [i \in DOMAIN s |-> IF i = 1 THEN b ELSE IF i <= n THEN s[i - 1] ELSE s[i]]

brelse_leak(p) ==                                       \* faulty: no refcnt--
  /\ pc[p] = "release" /\ BcacheUnlocked
  /\ buf' = [buf EXCEPT ![p] = None]
  /\ want' = [want EXCEPT ![p] = None]
  /\ Goto(p, "idle")
  /\ UNCHANGED <<bufVars, ideVars, history>>

(* brelse, second half: drop the reference; the last one moves the buffer to *)
(* the front of the list.                                                    *)
brelse(p) ==
  /\ pc[p] = "release" /\ BcacheUnlocked
  /\ refcnt' = [refcnt EXCEPT ![buf[p]] = @ - 1]
  /\ lru' = IF refcnt'[buf[p]] = 0
            THEN ToFront(lru, buf[p]) ELSE lru
  /\ buf' = [buf EXCEPT ![p] = None]
  /\ want' = [want EXCEPT ![p] = None]
  /\ Goto(p, "idle")
  /\ UNCHANGED <<blockno, valid, dirty, data, locked, ideVars, history>>

-----------------------------------------------------------------------------
(* idestart: a write hands its data to the disk at once. *)
idestart(b) ==
  [status |-> "busy", block |-> blockno[b],
   write |-> b \in dirty, data |-> data[b]]

(* iderw appends the buffer, starts an idle disk and sleeps on the buffer. *)
iderw(p) ==
  /\ pc[p] = "iderw"
  /\ idequeue' = Append(idequeue, buf[p])
  /\ device' = IF idequeue = <<>> THEN idestart(buf[p]) ELSE device
  /\ Goto(p, "wait")
  /\ UNCHANGED <<bufVars, disk, buf, want, history>>

(* A process that ideintr woke tests the flags again. *)
iderw_return(p) ==
  /\ pc[p] = "woken"
  /\ Goto(p, IF buf[p] \in valid \ dirty THEN "hold" ELSE "wait")
  /\ UNCHANGED <<bufVars, ideVars, buf, want, history>>

(* The disk finishes its command, or fails, and raises an interrupt. *)
disk_done ==
  /\ device.status = "busy"
  /\ \/ /\ device' = [device EXCEPT !.status = "done"]
        /\ disk' = IF device.write
                   THEN [disk EXCEPT ![device.block] = device.data] ELSE disk
        /\ UNCHANGED bad
     \/ /\ device' = [device EXCEPT !.status = "error"]
        /\ bad' = bad \cup {device.block}
        /\ Cardinality(bad') <= MaxErrors
        /\ UNCHANGED disk
  /\ UNCHANGED <<bufVars, idequeue, procVars, mem>>

NextCommand(q) == IF q = <<>> THEN Idle ELSE idestart(Head(q))

(* ideintr completes the first request.  It looks at the error bits of a     *)
(* read only, and sets B_VALID whatever they say.                            *)
ideintr ==
  /\ device.status \in {"done", "error"}
  /\ LET b == Head(idequeue) IN
       /\ data' = IF b \notin dirty /\ device.status = "done"
                  THEN [data EXCEPT ![b] = disk[device.block]] ELSE data
       /\ valid' = valid \cup {b}
       /\ dirty' = dirty \ {b}
       /\ pc' = [q \in Procs |-> IF pc[q] = "wait" /\ buf[q] = b
                                 THEN "woken" ELSE pc[q]]
  /\ idequeue' = Tail(idequeue)
  /\ device' = NextCommand(Tail(idequeue))
  /\ UNCHANGED <<lru, blockno, refcnt, locked, disk, buf, want, history>>

-----------------------------------------------------------------------------
process(p) ==
  \/ \E k \in Blocks : bget(p, k) \/ bget_panic(p, k)
  \/ acquiresleep(p) \/ bread(p)
  \/ \E v \in Values : modify(p, v)
  \/ log_write(p) \/ bwrite(p) \/ releasesleep(p) \/ brelse(p)
  \/ iderw(p) \/ iderw_return(p)

Next == disk_done \/ ideintr \/ \E p \in Procs : process(p)

Spec == Init /\ [][Next]_vars

-----------------------------------------------------------------------------
Labels == {"idle", "acquire", "asleep", "locked", "hold", "modified", "iderw",
           "wait", "woken", "release", "panicked"}

(* The program points at which a process holds its buffer's sleep lock. *)
Owning == {"locked", "hold", "modified", "iderw", "wait", "woken"}

(* Types; a reference count never exceeds the number of processes, so that   *)
(* no brelse drops a reference that was not taken.                           *)
TypeOK ==
  /\ lru \in Seq(Bufs) /\ Len(lru) = Cardinality(Bufs) /\ Range(lru) = Bufs
  /\ blockno \in [Bufs -> Blocks \cup {None}]
  /\ valid \subseteq Bufs /\ dirty \subseteq Bufs
  /\ refcnt \in [Bufs -> 0..Cardinality(Procs)]
  /\ data \in [Bufs -> Values]
  /\ locked \in [Bufs -> Procs \cup {None}]
  /\ idequeue \in Seq(Bufs)
  /\ device = Idle \/
     device \in [status : {"busy", "done", "error"}, block : Blocks,
                 write : BOOLEAN, data : Values]
  /\ disk \in [Blocks -> Values] /\ mem \in [Blocks -> Values]
  /\ bad \subseteq Blocks
  /\ pc \in [Procs -> Labels]
  /\ buf \in [Procs -> Bufs \cup {None}]
  /\ want \in [Procs -> Blocks \cup {None}]

(* bio.c is "a synchronization point for disk blocks used by multiple        *)
(* processes": no block is ever in two buffers, and the holder of a buffer   *)
(* holds its lock alone, however bget and brelse of others interleave with   *)
(* its wait for the lock.                                                    *)
OneHolder ==
  /\ \A b, c \in Bufs : blockno[b] = blockno[c] /\ blockno[b] # None => b = c
  /\ \A p \in Procs : pc[p] \in Owning => locked[buf[p]] = p

(* bread returns "a locked buf with the contents of the indicated block":    *)
(* the buffer was not recycled for another block while the process waited,   *)
(* and it has the last contents any process gave the block, unless the disk  *)
(* reported an error for that block, which the driver does not pass on.      *)
ReadsLast ==
  \A p \in Procs :
    /\ buf[p] # None => blockno[buf[p]] = want[p]
    /\ pc[p] = "hold" /\ want[p] \notin bad => data[buf[p]] = mem[want[p]]

(* What is neither pinned nor being changed is on the disk: dropping a clean *)
(* buffer, as bget does, loses nothing.                                      *)
CleanIsOnDisk ==
  \A b \in valid \ dirty :
    (blockno[b] \notin bad /\ ~\E p \in Procs : pc[p] = "modified" /\ buf[p] = b)
      => data[b] = disk[blockno[b]]

(* "First queued buffer is the active request": the disk works on the head   *)
(* of idequeue, a buffer is queued once, by the process that waits for it,   *)
(* and nobody waits for a buffer that is not queued.                         *)
ActiveRequest ==
  /\ device = Idle <=> idequeue = <<>>
  /\ idequeue # <<>> => /\ device.block = blockno[Head(idequeue)]
                        /\ device.write <=> Head(idequeue) \in dirty
  /\ IsInjective(idequeue)
  /\ Range(idequeue) = {buf[p] : p \in {q \in Procs : pc[q] = "wait"}}

(* A process asleep in acquiresleep has a holder that will wake it. *)
NoLostWakeup ==
  \A p \in Procs : pc[p] = "asleep" => locked[buf[p]] # None

(* The references are those of the processes. *)
RefInv ==
  /\ \A b \in Bufs : refcnt[b] = Cardinality({p \in Procs : buf[p] = b})
  /\ \A p \in Procs : buf[p] = None <=> pc[p] \in {"idle", "panicked"}

(* What a process waits for or holds is what it asked for. *)
WantInv ==
  \A p \in Procs : buf[p] # None => want[p] \in Blocks /\ blockno[buf[p]] = want[p]

(* The flags of a buffer fit the point that its holder has come to. *)
FlagInv ==
  /\ dirty \subseteq valid
  /\ \A p \in Procs :
       /\ pc[p] \in {"hold", "modified"} => buf[p] \in valid
       /\ pc[p] = "woken" => buf[p] \in valid \ dirty
       /\ pc[p] \in {"iderw", "wait"} /\ buf[p] \in valid => buf[p] \in dirty

(* A valid buffer has the last contents of its block, and so has the disk    *)
(* unless a buffer still has to be written; a command carries the contents   *)
(* of the buffer it is for.                                                  *)
Pending(b) == b \in dirty \/ \E p \in Procs : pc[p] = "modified" /\ buf[p] = b

DataInv ==
  /\ \A b \in valid : /\ blockno[b] \in Blocks
                      /\ blockno[b] \notin bad => data[b] = mem[blockno[b]]
  /\ \A k \in Blocks \ bad :
       disk[k] # mem[k] => \E b \in valid : blockno[b] = k /\ Pending(b)
  /\ idequeue # <<>> =>
       /\ device.data = data[Head(idequeue)]
       /\ device.status = "done" /\ device.write => disk[device.block] = device.data
       /\ device.status = "error" => device.block \in bad

(* What the other properties rest on, by induction over the steps of bget,   *)
(* bread, bwrite, brelse, iderw and ideintr.                                 *)
BcacheInv ==
  /\ TypeOK /\ OneHolder /\ ActiveRequest /\ NoLostWakeup
  /\ RefInv /\ WantInv /\ FlagInv /\ DataInv

(* No reference leaks: bget panics with "no buffers" only when each buffer   *)
(* is really taken, by a process that uses it or by the log.                 *)
BufferAvailable ==
  LET using == {p \in Procs : buf[p] # None} IN
  Cardinality(using) + Cardinality(dirty) < Cardinality(Bufs) => \E b \in Bufs : Unused(b)
=============================================================================

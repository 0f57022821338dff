-------------------------------- MODULE Log --------------------------------
(***************************************************************************)
(* The write-ahead redo log of log.c with group commit, on top of the      *)
(* buffer cache (bio.c) and a disk that writes one sector atomically.      *)
(*                                                                         *)
(* A step is one critical section of log.lock or one block written to the  *)
(* disk, so every interleaving of system calls and a crash after any disk  *)
(* write are behaviours.  A block's contents is one element of Values.     *)
(***************************************************************************)
EXTENDS Naturals, Sequences, FiniteSets

CONSTANTS
  Procs,        \* processes that make file-system calls
  Blocks,       \* home locations, outside the log area
  Values,       \* contents of a block
  None,         \* no buffer holds the block; a process holds no buffer
  MAXOPBLOCKS,  \* blocks begin_op reserves for a call (param.h)
  OpBlocks,     \* distinct blocks that a call writes at most
  LOGSIZE,      \* entries of struct logheader's block[] (param.h)
  NLOG          \* log.size: blocks of the log area, header included (mkfs)

(* mkfs makes nlog = LOGSIZE, one of which is the header: the area has one   *)
(* block less than begin_op hands out.  No call writes all that is reserved  *)
(* for it: a chunk of filewrite writes most, seven blocks of ten (four data  *)
(* blocks, the indirect block, the bitmap and the inode).                    *)
ASSUME LogAssumption ==
  /\ IsFiniteSet(Procs)
  /\ None \notin Values \cup Blocks
  /\ Values # {}
  /\ MAXOPBLOCKS \in Nat /\ OpBlocks \in Nat \ {0} /\ OpBlocks < MAXOPBLOCKS
  /\ LOGSIZE \in Nat /\ MAXOPBLOCKS <= LOGSIZE
  /\ NLOG \in Nat /\ LOGSIZE <= NLOG /\ MAXOPBLOCKS < NLOG

VARIABLES
  disk,         \* home location of each block, on disk
  dlog,         \* data blocks of the log area, on disk
  dhead,        \* block numbers in the on-disk header; its n is Len(dhead)
  cache,        \* contents of the buffer of each block, or None
  dirty,        \* blocks whose buffer has B_DIRTY
  lh,           \* log.lh: block numbers of the running transaction
  outstanding,  \* log.outstanding
  committing,   \* log.committing
  tail,         \* index of the loops of write_log and install_trans, from 1
  boot,         \* progress of initlog/recover_from_log; "up" afterwards
  pc,           \* program point of each process
  blk,          \* the block whose buffer a process has locked to update it
  wrote         \* the distinct blocks the current call has passed to log_write

diskVars == <<disk, dlog, dhead>>
memVars  == <<cache, dirty, lh, outstanding, committing, tail, boot>>
procVars == <<pc, blk, wrote>>
vars     == <<disk, dlog, dhead, cache, dirty, lh, outstanding, committing,
              tail, boot, pc, blk, wrote>>

CommitPoints == {"write_log", "write_head", "install_trans", "erase",
                 "committed"}

BufferPoints == {"modified", "checked"}

OpPoints == {"op"} \cup BufferPoints

PCs == {"idle", "begin_op", "sleeping"} \cup OpPoints \cup CommitPoints

InOp(p) == pc[p] \in OpPoints

TypeOK ==
  /\ disk \in [Blocks -> Values]
  /\ dlog \in [1..(NLOG - 1) -> Values]
  /\ dhead \in Seq(Blocks)
  /\ cache \in [Blocks -> Values \cup {None}]
  /\ dirty \subseteq Blocks
  /\ lh \in Seq(Blocks)
  /\ outstanding \in Nat
  /\ committing \in BOOLEAN
  /\ tail \in Nat \ {0}
  /\ boot \in {"read_head", "install_trans", "erase", "up"}
  /\ pc \in [Procs -> PCs]
  /\ blk \in [Procs -> Blocks \cup {None}]
  /\ wrote \in [Procs -> SUBSET Blocks]

(* What a block that mkfs cleared holds. *)
Zeroes == CHOOSE v \in Values : TRUE

(* A fresh image of mkfs: an empty log; the home blocks are arbitrary. *)
Init ==
  /\ disk \in [Blocks -> Values]
  /\ dlog = [i \in 1..(NLOG - 1) |-> Zeroes]
  /\ dhead = <<>>
  /\ cache = [b \in Blocks |-> None]
  /\ dirty = {}
  /\ lh = <<>>
  /\ outstanding = 0
  /\ committing = FALSE
  /\ tail = 1
  /\ boot = "read_head"
  /\ pc = [p \in Procs |-> "idle"]
  /\ blk = [p \in Procs |-> None]
  /\ wrote = [p \in Procs |-> {}]

-----------------------------------------------------------------------------
(* The buffer cache, as far as the log depends on it. *)

(* What bread returns for b. *)
Contents(b) == IF cache[b] = None THEN disk[b] ELSE cache[b]

(* The buffer's sleep lock is held by a process inside an update. *)
BufferLocked(b) == \E q \in Procs : blk[q] = b

(* A call that writes nothing, or any lookup, reads b. *)
bread(b) ==
  /\ boot = "up"
  /\ cache[b] = None
  /\ cache' = [cache EXCEPT ![b] = disk[b]]
  /\ UNCHANGED <<diskVars, dirty, lh, outstanding, committing, tail, boot,
                 procVars>>

RecyclableDirty(b) == ~BufferLocked(b)                 \* faulty: no B_DIRTY test

(* bget recycles only unreferenced buffers without B_DIRTY. *)
Recyclable(b) == ~BufferLocked(b) /\ b \notin dirty

bget_recycle(b) ==
  /\ cache[b] # None
  /\ Recyclable(b)
  /\ cache' = [cache EXCEPT ![b] = None]
  /\ UNCHANGED <<diskVars, dirty, lh, outstanding, committing, tail, boot,
                 procVars>>

-----------------------------------------------------------------------------
(* The machine stops, as it also does after a panic, and boots again: the   *)
(* disk survives, memory does not.                                          *)
Crash ==
  /\ cache' = [b \in Blocks |-> None]
  /\ dirty' = {}
  /\ lh' = <<>>
  /\ outstanding' = 0
  /\ committing' = FALSE
  /\ tail' = 1
  /\ boot' = "read_head"
  /\ pc' = [p \in Procs |-> "idle"]
  /\ blk' = [p \in Procs |-> None]
  /\ wrote' = [p \in Procs |-> {}]
  /\ UNCHANGED diskVars

(* wakeup(&log), for the processes that sleep in begin_op. *)
Woken(f) == [q \in Procs |-> IF f[q] = "sleeping" THEN "begin_op" ELSE f[q]]

NoSpaceLate == Len(lh) + outstanding * MAXOPBLOCKS > LOGSIZE   \* faulty

(* The reservation test: this call might exhaust log space. *)
NoSpace == Len(lh) + (outstanding + 1) * MAXOPBLOCKS > LOGSIZE

MustWaitSpaceOnly == NoSpace                       \* faulty: committing ignored

MustWait == committing \/ NoSpace

(* One turn of the loop: go to sleep on &log, or enter. *)
begin_op(p) ==
  /\ boot = "up"
  /\ pc[p] \in {"idle", "begin_op"}
  /\ \/ /\ MustWait
        /\ pc' = [pc EXCEPT ![p] = "sleeping"]
        /\ UNCHANGED outstanding
     \/ /\ ~MustWait
        /\ outstanding' = outstanding + 1
        /\ pc' = [pc EXCEPT ![p] = "op"]
  /\ UNCHANGED <<diskVars, cache, dirty, lh, committing, tail, boot, blk,
                 wrote>>

(* What the calls of sysfile.c and file.c write. *)
WithinBudget(p, b) == Cardinality(wrote[p] \cup {b}) <= OpBlocks

(* bp = bread(b); modify bp->data. *)
modify(p, b, v) ==
  /\ pc[p] = "op"
  /\ WithinBudget(p, b)
  /\ ~BufferLocked(b)
  /\ cache' = [cache EXCEPT ![b] = v]
  /\ blk' = [blk EXCEPT ![p] = b]
  /\ pc' = [pc EXCEPT ![p] = "modified"]
  /\ UNCHANGED <<diskVars, dirty, lh, outstanding, committing, tail, boot,
                 wrote>>

(* "too big a transaction". *)
TooBig == Len(lh) >= LOGSIZE \/ Len(lh) >= NLOG - 1

Pass(p) ==
  /\ pc' = [pc EXCEPT ![p] = "checked"]
  /\ UNCHANGED <<diskVars, memVars, blk, wrote>>

(* The tests of log_write are made without log.lock. *)
log_write_check(p) ==
  /\ pc[p] = "modified"
  /\ IF TooBig \/ outstanding < 1 THEN Crash ELSE Pass(p)

(* Log absorption: a block already in the transaction keeps its place. *)
Logged(s, b) == IF \E i \in 1..Len(s) : s[i] = b THEN s ELSE Append(s, b)

(* log_write under log.lock, then brelse(bp). *)
log_write(p) ==
  /\ pc[p] = "checked"
  /\ lh' = Logged(lh, blk[p])
  /\ dirty' = dirty \cup {blk[p]}
  /\ wrote' = [wrote EXCEPT ![p] = @ \cup {blk[p]}]
  /\ blk' = [blk EXCEPT ![p] = None]
  /\ pc' = [pc EXCEPT ![p] = "op"]
  /\ UNCHANGED <<diskVars, cache, outstanding, committing, tail, boot>>

-----------------------------------------------------------------------------
FirstCommitPointHead ==                   \* faulty: header before the data
  IF Len(lh) > 0 THEN "write_head" ELSE "committed"

(* end_op.  The last call out starts the commit and does not wake anybody;  *)
(* commit() with an empty transaction does nothing.                         *)
FirstCommitPoint == IF Len(lh) > 0 THEN "write_log" ELSE "committed"

Leave(p) ==
  /\ outstanding' = outstanding - 1
  /\ \/ /\ outstanding' = 0
        /\ committing' = TRUE
        /\ pc' = [pc EXCEPT ![p] = FirstCommitPoint]
     \/ /\ outstanding' # 0
        /\ pc' = Woken([pc EXCEPT ![p] = "idle"])
        /\ UNCHANGED committing
  /\ wrote' = [wrote EXCEPT ![p] = {}]
  /\ UNCHANGED <<diskVars, cache, dirty, lh, tail, boot, blk>>

end_op(p) ==
  /\ pc[p] = "op"
  /\ IF committing THEN Crash ELSE Leave(p)

(* write_log: one turn of its loop writes one data block of the log area. *)
write_log(p) ==
  /\ pc[p] = "write_log"
  /\ \/ /\ tail <= Len(lh)
        /\ cache' = [cache EXCEPT ![lh[tail]] = Contents(lh[tail])]
        /\ dlog' = [dlog EXCEPT ![tail] = Contents(lh[tail])]
        /\ tail' = tail + 1
        /\ UNCHANGED pc
     \/ /\ tail > Len(lh)
        /\ pc' = [pc EXCEPT ![p] = "write_head"]
        /\ tail' = 1
        /\ UNCHANGED <<cache, dlog>>
  /\ UNCHANGED <<disk, dhead, dirty, lh, outstanding, committing, boot, blk,
                 wrote>>

(* write_head: "the true point at which the current transaction commits". *)
write_head(p) ==
  /\ pc[p] = "write_head"
  /\ dhead' = lh
  /\ pc' = [pc EXCEPT ![p] = "install_trans"]
  /\ UNCHANGED <<disk, dlog, cache, dirty, lh, outstanding, committing, tail,
                 boot, blk, wrote>>

(* One turn of install_trans: copy a log block to its home location.  The   *)
(* disk driver clears B_DIRTY when the write is done.                       *)
install_block ==
  /\ tail <= Len(lh)
  /\ cache' = [cache EXCEPT ![lh[tail]] = dlog[tail]]
  /\ disk' = [disk EXCEPT ![lh[tail]] = dlog[tail]]
  /\ dirty' = dirty \ {lh[tail]}
  /\ tail' = tail + 1

install_trans(p) ==
  /\ pc[p] = "install_trans"
  /\ \/ /\ install_block
        /\ UNCHANGED pc
     \/ /\ tail > Len(lh)
        /\ pc' = [pc EXCEPT ![p] = "erase"]
        /\ tail' = 1
        /\ UNCHANGED <<cache, disk, dirty>>
  /\ UNCHANGED <<dlog, dhead, lh, outstanding, committing, boot, blk, wrote>>

clear_head_on_disk == dhead' = <<>> /\ lh' = lh        \* faulty: lh.n not reset

(* log.lh.n = 0; write_head(). *)
clear_head ==
  /\ lh' = <<>>
  /\ dhead' = <<>>

erase(p) ==
  /\ pc[p] = "erase"
  /\ clear_head
  /\ pc' = [pc EXCEPT ![p] = "committed"]
  /\ UNCHANGED <<disk, dlog, cache, dirty, outstanding, committing, tail, boot,
                 blk, wrote>>

commit_done_busy(p) ==                    \* faulty: committing stays set
  /\ pc[p] = "committed"
  /\ pc' = Woken([pc EXCEPT ![p] = "idle"])
  /\ UNCHANGED <<diskVars, memVars, blk, wrote>>

(* end_op after commit(): release the waiting calls. *)
commit_done(p) ==
  /\ pc[p] = "committed"
  /\ committing' = FALSE
  /\ pc' = Woken([pc EXCEPT ![p] = "idle"])
  /\ UNCHANGED <<diskVars, cache, dirty, lh, outstanding, tail, boot, blk,
                 wrote>>

-----------------------------------------------------------------------------
(* initlog calls recover_from_log before any process makes a call. *)
recover_read_head ==
  /\ boot = "read_head"
  /\ lh' = dhead
  /\ boot' = "install_trans"
  /\ UNCHANGED <<diskVars, cache, dirty, outstanding, committing, tail,
                 procVars>>

recover_install ==
  /\ boot = "install_trans"
  /\ \/ /\ install_block
        /\ UNCHANGED boot
     \/ /\ tail > Len(lh)
        /\ boot' = "erase"
        /\ tail' = 1
        /\ UNCHANGED <<cache, disk, dirty>>
  /\ UNCHANGED <<dlog, dhead, lh, outstanding, committing, procVars>>

recover_erase ==
  /\ boot = "erase"
  /\ clear_head
  /\ boot' = "up"
  /\ UNCHANGED <<disk, dlog, cache, dirty, outstanding, committing, tail,
                 procVars>>

recover_from_log == recover_read_head \/ recover_install \/ recover_erase

commit(p) == \/ write_log(p)
             \/ write_head(p)
             \/ install_trans(p)
             \/ erase(p)
             \/ commit_done(p)

Next ==
  \/ \E b \in Blocks : bread(b) \/ bget_recycle(b)
  \/ \E p \in Procs : begin_op(p) \/ end_op(p) \/ commit(p)
  \/ \E p \in Procs : log_write_check(p) \/ log_write(p)
  \/ \E p \in Procs, b \in Blocks, v \in Values : modify(p, b, v)
  \/ recover_from_log
  \/ Crash

Spec == Init /\ [][Next]_vars

(* The scheduler runs every runnable process again and again, the disk      *)
(* answers, and a call updates finitely many blocks before its end_op.      *)
Fairness ==
  /\ WF_vars(recover_from_log)
  /\ \A p \in Procs :
       /\ WF_vars(pc[p] = "begin_op" /\ begin_op(p))
       /\ WF_vars(log_write_check(p) \/ log_write(p))
       /\ WF_vars(commit(p))
       /\ SF_vars(end_op(p))

FairSpec == Spec /\ Fairness

-----------------------------------------------------------------------------
(* The contents of the home locations after recovery from the disk as it is. *)
Redo(d, head, data) ==
  [b \in Blocks |-> IF \E i \in 1..Len(head) : head[i] = b
                    THEN data[CHOOSE i \in 1..Len(head) : head[i] = b]
                    ELSE d[b]]

stable == Redo(disk, dhead, dlog)

(* Between a crash and the end of recovery nobody reads a block. *)
view == IF boot = "up" THEN [b \in Blocks |-> Contents(b)] ELSE stable

active == {p \in Procs : InOp(p)}

Abstract == INSTANCE AtomicDisk

(* log.c implements the atomic disk: whatever the interleaving of calls and  *)
(* wherever commit or recovery is cut by a crash, the updates of the calls   *)
(* of one transaction survive together or not at all, and a transaction is   *)
(* written only when none of its calls is still running.                     *)
Atomicity == Abstract!Spec

(* No call panics, although the log area is a block smaller than what        *)
(* begin_op hands out and log_write tests lh.n before it looks for the       *)
(* block: each call leaves one reserved block unused, which pays for the     *)
(* header, and for a block that a call logs again.  log_write always runs    *)
(* inside a transaction, and no call ends while a commit is under way.       *)
NoLogPanic ==
  \A p \in Procs :
    /\ pc[p] = "modified" => ~TooBig /\ outstanding >= 1
    /\ pc[p] = "op" => ~committing

(* log_write tests lh.n before it takes log.lock, so another call may append *)
(* in between; even so the header array and the log area never overflow.     *)
LogFits == Len(lh) <= LOGSIZE /\ Len(lh) <= NLOG - 1

(* When no call runs and no commit is under way, nothing is only in memory:  *)
(* the log is empty, no buffer is pinned, and the disk holds what calls see. *)
QuiescentDurable ==
  (boot = "up" /\ outstanding = 0 /\ ~committing) =>
    /\ lh = <<>> /\ dhead = <<>> /\ dirty = {}
    /\ \A b \in Blocks : Contents(b) = disk[b]

(* A call asleep in begin_op is never forgotten: some other call that will   *)
(* run end_op, or a commit that will call wakeup(&log), is still going on.   *)
NoLostWakeup ==
  (\E p \in Procs : pc[p] = "sleeping") => outstanding > 0 \/ committing

-----------------------------------------------------------------------------
(* The inductive invariant behind these properties. *)

InLog(b) == \E i \in 1..Len(lh) : lh[i] = b

NoDuplicates(s) == \A i, j \in 1..Len(s) : s[i] = s[j] => i = j

(* Who is where: outstanding counts the running calls, one process at most   *)
(* commits and then no call runs, a buffer has one owner.                    *)
ControlInv ==
  /\ outstanding = Cardinality(active)
  /\ committing <=> \E p \in Procs : pc[p] \in CommitPoints
  /\ \A p, q \in Procs :
       pc[p] \in CommitPoints => ~InOp(q) /\ (pc[q] \in CommitPoints => p = q)
  /\ boot # "up" => \A p \in Procs : pc[p] = "idle"
  /\ \A p \in Procs : pc[p] \in BufferPoints <=> blk[p] # None
  /\ \A p, q \in Procs : blk[p] = blk[q] /\ blk[p] # None => p = q

(* The block slots the running calls may still use: call p has used as many  *)
(* of its OpBlocks as it has logged distinct blocks.                      *)
Reserved ==
  {t \in active \X (1..OpBlocks) : t[2] > Cardinality(wrote[t[1]])}

(* The most blocks that may be logged when log_write makes its test.         *)
Room == IF LOGSIZE < NLOG THEN LOGSIZE - 1 ELSE NLOG - 2

(* Used and reserved slots together leave room for the test.                 *)
SpaceInv ==
  /\ Len(lh) + Cardinality(Reserved) <= Room
  /\ Len(dhead) <= Room
  /\ \A p \in Procs :
       /\ IsFiniteSet(wrote[p])
       /\ \A b \in wrote[p] : InOp(p) /\ InLog(b)
       /\ blk[p] # None => WithinBudget(p, blk[p])

(* Contents(b) may differ from the home location only while b is in the log  *)
(* or locked by its writer; such a block stays in the cache.                 *)
CacheInv ==
  /\ \A b \in Blocks :
       Contents(b) # disk[b] => boot = "up" /\ (InLog(b) \/ BufferLocked(b))
  /\ \A p \in Procs : blk[p] # None => cache[blk[p]] # None
  /\ \A b \in dirty : cache[b] # None

(* The pinned buffers are those of the log entries from k on.                *)
Pinned(k) ==
  /\ \A i \in 1..Len(lh) : i >= k => lh[i] \in dirty
  /\ \A b \in dirty : \E i \in 1..Len(lh) : i >= k /\ lh[i] = b

Installing == boot = "install_trans"
                \/ \E p \in Procs : pc[p] = "install_trans"

Writing == \E p \in Procs : pc[p] = "write_log"

Installed == boot = "erase" \/ \E p \in Procs : pc[p] = "erase"

(* The header names a block once. *)
Distinct == NoDuplicates(lh) /\ NoDuplicates(dhead)

(* From the commit point on the disk names the transaction. *)
Committed == Installing \/ Installed => dhead = lh

(* Before it the disk names nothing and the logged blocks are pinned. *)
Running == boot = "up" /\ ~Installing /\ ~Installed => dhead = <<>> /\ Pinned(1)

Clean == Installed \/ boot # "up" => dirty = {}

(* How far install_trans has come. *)
Home == /\ Installing => \A i \in 1..Len(lh) : i < tail => disk[lh[i]] = dlog[i]
        /\ Installed => \A i \in 1..Len(lh) : disk[lh[i]] = dlog[i]
        /\ Installing \/ Writing \/ tail = 1

(* The log area holds what the committing calls wrote. *)
Copies ==
  \A p \in Procs :
    /\ pc[p] = "write_log" =>
         \A i \in 1..Len(lh) : i < tail => dlog[i] = Contents(lh[i])
    /\ pc[p] \in {"write_head", "install_trans", "erase"} =>
         \A i \in 1..Len(lh) : dlog[i] = Contents(lh[i])
    /\ pc[p] = "install_trans" => Pinned(tail)
    /\ pc[p] = "committed" => lh = <<>>

Quiet == /\ boot = "read_head" => lh = <<>>
         /\ boot = "up" /\ outstanding = 0 /\ ~committing => lh = <<>>

(* Where each logged block's contents is, stage by stage.                    *)
StageInv ==
  Distinct /\ Committed /\ Running /\ Clean /\ Home /\ Copies /\ Quiet

(* The log's bookkeeping agrees with the disk, the cache and the processes   *)
(* at every step of begin_op, log_write, commit and recovery.                *)
LogInv == ControlInv /\ SpaceInv /\ CacheInv /\ StageInv

-----------------------------------------------------------------------------
(* Every sleeper in begin_op is woken; it may find the space taken again.    *)
SleeperWoken ==
  \A p \in Procs : pc[p] = "sleeping" ~> pc[p] # "sleeping"

=============================================================================

# A TLA+ verification of the xv6 kernel

xv6 is a small Unix-like kernel for x86 multiprocessors. This directory holds
TLA+ models of its kernel and of its shell, the TLC configurations that check
them on small instances, and TLAPS proofs of the properties that matter most,
for every instance.

## 1. The system and its parts

| Part | Source | State it owns | Module |
|---|---|---|---|
| Log | `log.c` | `log.lh`, `outstanding`, `committing`, the log area on disk | `Log`, abstract `AtomicDisk` |
| Buffer cache, sleep locks, disk driver | `bio.c`, `sleeplock.c`, `ide.c` | `bcache`, `idequeue` | `Bcache` |
| Block allocation and file contents | `fs.c`, `file.c`, `mkfs.c` | bitmap, `addrs` and `size` of inodes, `f->off` | `File` |
| Inode cache, directories, names, calls that name files | `fs.c`, `sysfile.c` | `icache`, dinodes, directory entries, `ofile[]`, `cwd` | `Inode` |
| Processes and scheduler | `proc.c`, `swtch.S`, `trap.c`, `init.c` | `ptable`, `nextpid`, per CPU `proc` | `Proc` |
| Spin locks and the interrupt flag | `spinlock.c`, `sched()` | `locked`, `cpu`; per CPU `ncli`, `intena` | `SpinLock` |
| Console, clock | `console.c`, `kbd.c`, `uart.c`, `trap.c`, `sysproc.c` | `input`, `ticks`, the cursor | `Console`, on top of `SpinLock` |
| Pages, page tables, sbrk, fork, exec, wait | `kalloc.c`, `vm.c`, `exec.c`, `syscall.c`, `proc.c` | free list, page tables, `sz` | `Memory` |
| Pipes, `sleep` and `wakeup` | `pipe.c`, `proc.c` | `nread`, `nwrite`, `readopen`, `writeopen` | `Pipe`, abstract `ByteStream` |
| Shell, first process | `sh.c`, `init.c`, `cat.c`, `echo.c` | the command tree, descriptors | `ShellParser`, `Shell` |

How they fit together: a file system call of `sysfile.c` runs between
`begin_op` and `end_op` of the log, changes blocks that it holds in the buffer
cache, and the log writes them through the driver. The modules follow this
layering. Each takes the layer below as the calls it makes: `Inode` has
directory entries where `File` has blocks, `File` has blocks where `Bcache` has
buffers, `Log` has cached contents and pinned buffers, which `Bcache` has in
detail. `Console` is composed with `SpinLock`: it extends that module, and the
threads of both take their steps on the same CPUs and locks.

## 2. The modules and the code

**`Log`** is `log.c` with the part of `bio.c` it relies on. `lh`, `outstanding`
and `committing` are the fields of `log`; `dhead`, `dlog` and `disk` are the
header, the log area and the home locations on disk; `cache` and `dirty` are
the cached contents and the pinned buffers. `begin_op` and `end_op` are one
action each (critical sections of `log.lock`). `log_write` is two, because it
tests `lh.n` before it takes the lock. `commit` and `recover_from_log` take one
step per disk write, and the machine may crash between any two: a crash loses
the memory and keeps the disk, and a single block is written atomically. The log
area has `NLOG` blocks, the header among them, as `mkfs` makes it.
`AtomicDisk` says what the log promises: calls change a view of the disk, and a
crash returns to the last stable view.

**`Bcache`** is `bio.c`, the locks of `sleeplock.c` and the driver `ide.c`.
`valid` and `dirty` are the buffers with `B_VALID` and `B_DIRTY`, `lru` is the
list, `device` the command the disk works on. `disk_done` is the disk itself
(external): it completes a command or fails. The histories `mem` and `bad`
record the last contents given to a block and the blocks on which a command
failed. `bget` may panic; it then keeps `bcache.lock` for ever.

**`File`** is the block layer of `fs.c` (`balloc`, `bmap` with the indirect
block, `itrunc`, `readi`, `writei`), `fileread`, `filewrite` in chunks and
`filelseek` of `file.c`, and `mkfs.c`, which builds the initial state. `fs` is
the disk as these see it. A step of a read or a write is one turn of the loop of
`readi` or `writei`, between which other processes seek, since `filelseek` takes
no lock. A read that needs a block where no process has a transaction open
panics in `log_write`, as in the code. The history `data` is what each file
should hold, `from` where an open file was opened or sought to (-1 after a seek
in the middle of a call), `passed` the bytes read and written through it since.
Offsets are modulo `UINT`. The root directory can be read, and not written or
truncated.

**`Inode`** is the inode cache, directories and path lookup of `fs.c`, and
`link`, `unlink`, `open`, `mkdir`, `mknod`, `chdir` and `close` of
`sysfile.c`. A call is a list of steps (`todo`) and a step runs from taking an
inode's lock to giving it up, so that lookups, `create`, `unlink` and the three
parts of `iput` of two processes interleave. `icache` has `ref`, `valid` and the
copied fields. The processes start in the root directory, or inside a directory
`/d/x` that is then removed. The histories `strays`, `raced` and `gone` name the
inodes for which the code breaks a rule (section 5).

**`Proc`** is `proc.c` with the timer tick of `trap.c` and the loop of
`init.c`. A step is one critical section of `ptable.lock` or one access made
without it. `sched` keeps the lock until the thread that is switched to
releases it, as in the code.

**`SpinLock`** is `spinlock.c` and the part of `sched` and `scheduler` that
deals with locks and interrupts: `FL_IF`, `ncli` and `intena` per CPU, the
`intena` that `sched` keeps across the switch, and every panic of these
functions. A thread is the list of steps it has still to take. **`Console`**
adds the interrupts, which a CPU takes at any step with `FL_IF` set: the clock,
and a key that goes through `consoleintr`'s line editing into the ring
`input`; and the calls that wait for them, `consoleread` and `sys_sleep`, with
`consolewrite` and `kill`.

**`Memory`** counts pages: the free list is a number, a page table the set of
its slots that hold a page. `sbrk`, `fork` and `exec` take their pages one
`kalloc` at a time, in the order of the code, and any may fail; `bad` is what
their error paths give back. Sizes are bytes and wrap at `UINT`. `argptr`,
`fetchint` and `fetchstr` are the tests of `syscall.c`.

**`Pipe`** is `pipe.c` with `sleep`, `wakeup` and `kill` of `proc.c` at the
grain of the two locks `p->lock` and `ptable.lock`. `nread` and `nwrite` are
unsigned integers modulo `UINT`. `ByteStream` is the queue a pipe promises.

**`ShellParser`** is the parser of `sh.c` on the characters of a line: words
are positions until `nulterminate` writes their ends. **`Shell`** runs the
trees: `runcmd` is the list of system calls it makes for a tree, and each step
is one call of some process, on a process table and a file table that fill up.
`init` starts the shell again when it ends.

The `MC` modules add inputs and symmetry for TLC. `LogProofs`, `BcacheProofs`,
`PipeProofs`, `ProcProofs`, `ConsoleProofs`, `MemoryProofs` and `FileProofs`
hold the proofs, `Modular` the arithmetic with remainders that several of them
share (section 4). Operators marked "faulty"
are variants with a plausible bug; the specification does not use them. Each
property is violated when one of them replaces the definition that follows it.


## 3. The runs

| Run | Instance | Distinct states | What it shows |
|---|---|---|---|
| `log` | 2 processes, 3 blocks, 2 contents, a log of 4 blocks with its header | 184,736 | the log implements `AtomicDisk` across crashes (`Atomicity`), at rest the disk has everything (`QuiescentDurable`), no call panics (`NoLogPanic`), sleepers are woken (`SleeperWoken`) |
| `bcache` | 3 processes, 2 buffers, 3 blocks, 1 pin, 1 failing block | 413,276 (symmetry) | `bread` returns the last contents of the right block (`ReadsLast`), eviction loses nothing (`CleanIsOnDisk`), no reference leaks (`BufferAvailable`), the inductive invariant of the proofs holds (`BcacheInv`) |
| `file` | 2 processes, 3 open files, one of them the root directory, blocks of 2 bytes, files of 3 blocks | 231,674 (symmetry) | files hold what was written (`HoldsWritten`), blocks are owned once (`BlocksOwned`), what goes through a shared offset leaves no gap and no overlap (`SharedOffset`), reads allocate nothing but what `mkfs` left out (`ReadsAllocateNothing`) |
| `inode` | 2 processes, 3 calls on `/d`, `/f` and `/d/x` of 3 workloads, 4 inodes, 4 cache entries | 526,892 (symmetry) | reference and link counts are right between calls (`RefsAtRest`, `LinksAtRest`), inodes in use or looked up are not freed (`InUse`) and unused ones are (`Reclaimed`), the cache agrees with the disk (`Coherent`) |
| `inode_deadlock` | the same, 2 calls | violation | `create` and `unlink` can wait for each other's inode lock (`NoDeadlock` fails) |
| `proc_safe` | 2 CPUs, 3 slots, 4 pids | 693,876 (symmetry) | one CPU per process (`OneCpu`), no stack is freed in use (`StackSafe`), orphans get a live parent (`ParentAlive`), no exit is missed (`NoMissedExit`) |
| `proc_live` | 1 CPU, 3 slots, 4 pids | 126,118 | a zombie whose parent is `init` or gone is reaped (`ZombiesReaped`), killed processes exit (`KilledExits`) |
| `console` | 2 CPUs, 2 processes, 2 interrupts, 5 workloads | 830,812 | no panic of the lock code (`NoKernelPanic`), no deadlock of CPUs (`NoSpinCycle`), the ring is the queue of edited lines (`RingIsQueue`) and never stuck (`RingNeverStuck`), nobody misses a wakeup (`NoMissedWakeup`) |
| `memory` | 3 processes, 17 pages, 4 pages per address space | 336,295 | no page is lost or freed twice (`PagesConserved`), `sz` and page table agree and `vm.c` does not panic (`SizeMapped`), accepted pointers are mapped (`ArgumentsMapped`) |
| `pipe_safe` | 1 reader, 2 writers, 2 values, `PIPESIZE` 2, `UINT` 4 | 837,308 (symmetry) | the pipe is a queue (`FirstInFirstOut`), short counts are right (`ShortCount`), no use after free (`NoUseAfterFree`), no lost wakeup unless a writer was killed (`NoLostWakeupUnlessKilled`) |
| `pipe_live` | 1 reader, 1 writer | 23,188 | calls return (`CallReturns`) |
| `shell` | 2 lines of 6, 6 process slots, 5 descriptors, 5 open files | 55,752 | lines are parsed and run as meant (`ParsedAsMeant`, `RunsAsMeant`), the shell waits for foreground commands (`ForegroundDone`), the prompt returns (`PromptReturns`) |

**Bounds.** `MaxPid`, `MaxCount`, `MaxErrors`, `MaxOps`, `MaxCalls`,
`MaxTraps`, `MaxLines` and the `maxkeys` of a workload of `Console` bound what
the code does not. In each run they leave room for the case that matters:

- `log`: `nlog = LOGSIZE = 4` as in `mkfs.c`, so three data blocks; a call may
  write one of the two blocks it reserves. A transaction comes within one block of
  what `log_write` tests for, a call waits for space while another commits, two
  calls are between the test and the lock of `log_write` at once, and a crash can hit
  every write. For calls of several blocks see the theorems.
- `bcache`: three blocks for two buffers force evictions, with one buffer
  pinned and a process waiting.
- `file`: a file grows through its direct and its indirect block to its largest
  size, is truncated and its blocks are used again; a write takes two chunks.
  The entries of the root directory end with a block, the case in which `mkfs`
  leaves out the last block of its size.
- `inode`: three calls let one process look a directory up, the other remove
  it, and the first go on. In the third workload the processes begin in `/d/x`,
  so three calls remove it, remove `/d` and go up to it by `..`. Paths have up to two elements; the inodes, the open
  files and the descriptors run out.
- `proc_live`: the fourth pid lets `init` start a new shell after the first has
  left it an orphan, and go on to reap the orphan.
- `proc_safe`: two CPUs and three slots make a slot be used twice, and two
  children of one parent.
- `console`: a ring of two fills, with every editing key in one workload; in
  another, five line ends take its indices past their wrap-around, with
  `UINT = 4`. Two interrupts let a tick preempt the call that a key or another
  tick wakes. The workloads are alternatives: a behaviour has one of them.
- `memory`: the pages are too few for three processes, so each `kalloc` fails
  in some behaviour; an address space has two page-table pages.
- `pipe_safe`: counters wrap, one call fills the pipe and goes on.
- `shell`: a pipeline of three, lists, background commands, redirections and
  both kinds of syntax error; the process table and the file table fill up. A
  file that one line creates is read by the next. A read of the console or of a
  file finds its end at once.

Deadlock is not checked where the machine stops after a panic, an idle
scheduler changes nothing, a pipe is closed or a bound is used up; `inode`
states its freedom from it as a property, which fails.

**Fairness.** `Log`: runnable processes run and the disk answers (weak), and a
call reaches its `end_op` (strong). `Proc`: each CPU's scheduler goes on
(weak); a pending timer tick is taken and kernel code of a process goes on once
it runs often enough (strong, since preemption disables both for a while).
`Pipe`: as for processes, plus strong fairness of lock acquisition, which holds
on one CPU, where a running process never finds the lock taken, and is not
guaranteed by `xchg` spinning on several; and programs use their end until they
close it. `Shell`: something happens as long as something can, which is all
that `PromptReturns` needs. The other runs check safety only.

## 4. What is proved

Each theorem holds for every value of the constants that the module's `ASSUME`
allows: any finite set of processes or CPUs, any size of the log, the ring, the
pipe or memory.

| Theorem | Module | States |
|---|---|---|
| `LogInvariant` | `LogProofs` | types and bookkeeping (`LogInv`) always hold |
| `NoPanic` | `LogProofs` | `NoLogPanic`: no panic in `log_write` or `end_op` |
| `NoOverflow` | `LogProofs` | header array and log area never overflow |
| `Quiescence` | `LogProofs` | `QuiescentDurable`: with no call and no commit, everything is on the disk |
| `SleepersKnown` | `LogProofs` | a sleeper in `begin_op` has somebody to wake it |
| `Atomic` | `LogProofs` | `Atomicity`: `Log` implements `AtomicDisk` |
| `BcacheInvariant` | `BcacheProofs` | `BcacheInv`: reference counts, sleep locks and the list agree |
| `BgetFinds` | `BcacheProofs` | `BufferAvailable`: no reference leaks |
| `BreadLast` | `BcacheProofs` | `ReadsLast`: `bread` returns the last contents of the block |
| `EvictionSafe` | `BcacheProofs` | `CleanIsOnDisk`: what `bget` may evict is on the disk |
| `PipeInvariant` | `PipeProofs` | the inductive invariant of the pipe |
| `FreedUnused` | `PipeProofs` | `NoUseAfterFree` |
| `SleepersKnown` | `PipeProofs` | `NoLostWakeupUnlessKilled` |
| `Fifo` | `PipeProofs` | `FirstInFirstOut`: `Pipe` implements `ByteStream` |
| `ReturnsCount` | `PipeProofs` | `ShortCount`: what `read` and `write` return is what was moved |
| `ProcInvariant` | `ProcProofs` | the inductive invariant of the process table |
| `RunsOnce`, `StacksSafe`, `ExitsSeen`, `ParentsAlive` | `ProcProofs` | `OneCpu`, `StackSafe`, `NoMissedExit`, `ParentAlive` |
| `PidsUnique` | `ProcProofs` | no two slots in use have one pid |
| `RingInvariant` | `ConsoleProofs` | the three indices of the ring stay in order while they wrap |
| `RingQueue`, `NeverStuck` | `ConsoleProofs` | `RingIsQueue`, `RingNeverStuck` |
| `FileInvariant` | `FileProofs` | the inductive invariant of blocks, offsets and contents |
| `BlocksUsedOnce`, `FilesHoldWritten`, `OffsetShared` | `FileProofs` | `BlocksOwned`, `HoldsWritten`, `SharedOffset` |
| `ReadsNeverAllocate` | `FileProofs` | `ReadsAllocateNothing` |
| `PanicsKnown` | `FileProofs` | nothing panics but a `balloc` on a full disk, and a read outside a transaction of a block that `mkfs` left out |
| `MemoryInvariant` | `MemoryProofs` | the inductive invariant of the page tables |
| `SizesMapped`, `PointersMapped`, `NoPageLost` | `MemoryProofs` | `SizeMapped`, `ArgumentsMapped`, `PagesConserved` |

Hardly any of these properties is inductive. For each module an inductive
invariant is proved first, one step per action, and the properties follow from
it (`BcacheInv` is also an invariant of the run `bcache`). Where a step counts (`SpaceInv`, `refcnt`, the pages in use), the lemma takes the
facts about finite sets as a hypothesis, and `FiniteSetTheorems` supplies them at
the end of the module.

- **Log.** `TypeOK /\ LogInv`, in four parts. `ControlInv`: `outstanding` counts
  the running calls, and a commit excludes them. `SpaceInv`: used and reserved
  slots together stay below what `log_write` tests for (`Room`), a cardinality
  argument; it is what makes the unlocked test harmless, and a second `log_write`
  of a block as well. `CacheInv`: contents differ from the
  home location only for logged or locked blocks. `StageInv`: where each logged
  block's contents are at each stage of commit and recovery; it is what makes
  installing a transaction twice harmless. `AtomicStep` maps each step to a step
  of `AtomicDisk` or a stutter.
- **Bcache.** `BcacheInv` is inductive: `refcnt` counts the processes between
  `bget` and `brelse`, the holder of a sleep lock is one of them, and the
  sleepers of a lock have a holder to wake them; flags, the driver's queue and
  the contents of buffer and disk go together while a command is queued, under
  way or done. The steps for counts, locks
  and types come first, then those for flags, queue and contents.
- **Pipe.** The invariant ties `nwrite - nread`, taken modulo `UINT`, to the
  bytes of the abstract queue, and each slot of `data` to its byte; it says who
  holds `p->lock`, what a call half way has moved, and whom each sleeper waits
  for. `UINT` has to be a multiple of `PIPESIZE`, which `PipeAssumption` states
  and the code meets (512 divides 2^32).
- **Proc.** `ProcInv` is `TypeOK` and six parts: which process each CPU runs and
  who holds `ptable.lock` (`CpuInv`), what a `fork` half done has built
  (`ForkInv`), the owner of each kernel stack (`StackInv`), that a parent can
  reap (`ParentInv`), what a sleeper waits for (`SleepInv`) and the pids
  (`PidInv`). Each part depends on few variables, and a lemma per part says so;
  most actions then need an argument for one or two parts only.
- **Console.** `RingInv` holds whatever the threads of the machine do: only
  `store`, `erase`, `read_char` and `read_eof` touch the ring. It says that the
  finished input and then the line being edited follow `r` in the ring, where
  they would be without wrapping; that together they fit; that the line being
  edited has no line end, so that the kill-line key takes back all of it; and
  that a full ring has been announced to the reader.
- **File.** The first half is about disks, without variables: `BmapWorks` says
  that `bmap`, through either kind of address and with up to two calls of
  `balloc`, keeps each block's one use (`Uses`) and every byte of every file;
  `ReadWorks`, `WriteWorks`, `ResizeWorks` and `TruncWorks` say what one turn of
  `readi` or `writei`, the new size and `itrunc` do to the bytes of all files.
  `FileInv` then ties the calls half way to the disk: a busy call holds the lock
  of its inode alone (`Locked`, `Exclusive`), its offset has not moved unless
  somebody sought (`Steady`), it stays within the file or the addresses
  (`Ranges`), the bytes a write has come past have the new value (`Latest`) and
  all others are still what was written before (`Holds`); a file in use is open,
  so it is not truncated (`InUse`). `Covered` says that files have no holes but
  those of the image (`LeftOut`), also where a write is past the size it will set.
  `FileAssumption` asks that blocks are not empty and that the largest file ends
  below `UINT`; `ImageAssumption` that each block of the image has one use.
- **Modular** has the arithmetic of remainders. For `Pipe` and `Console`: where the
  n-th place after a wrapping index is, and that no two of the places in use
  coincide when the size of the ring divides the range of the index.
- **Memory.** `MemoryInv` says of each slot of `ptable`, by itself, how its
  entry, its call and its two page tables fit (`Fits`): at rest the pages are
  those below `sz`, or the first is gone and the process can only fault; in
  `growproc`, `fork` and `exec` they are those below the address the loop has
  come to, which stays within a page of its end, and a page in hand waits for
  its page-table page. So every action is first a lemma about four values
  without variables. The one relation between slots is that the child of each
  `fork` under way is an `EMBRYO` of its own. Which pages the user may not touch
  (`guard`) plays no part. `NoPageLost` adds up: replacing one table changes the
  pages in use by the difference of two cardinalities, and `kalloc` adds a page
  that the table did not have. `MemoryAssumption` asks that page tables cover
  the addresses below `KERNBASE`, that `KERNBASE` is at most half of `UINT`, that
  an `int` fits a page and that there are pages for `userinit`; all hold in
  `mmu.h` and `memlayout.h`.

One assumption about the log matters to a reader of the code. `mkfs` makes
`nlog = LOGSIZE`, so the log holds one block less than `begin_op` hands out.
`LogAssumption` admits that size and asks instead that a call writes fewer
distinct blocks than `MAXOPBLOCKS` (`OpBlocks < MAXOPBLOCKS`). The calls of
`file.c` and `sysfile.c` meet it: a chunk of `filewrite` writes most, four data
blocks, the indirect block, the bitmap block and the inode, seven of ten. Calls
that used their whole reservation would not be safe on that image: the log could
fill up and `log_write` panic, or two calls pass its test together and
`write_log` run into the first inode block.

**Only model-checked:**

- liveness, since the prover has neither fairness nor ENABLED: `SleeperWoken`,
  `ZombiesReaped`, `KilledExits`, `CallReturns`, `PromptReturns`;
- the shell (`ParsedAsMeant`, `RunsAsMeant`, `ForegroundDone`): its parser is
  recursive, and what a recursive definition computes takes induction over the
  line;
- that `mkfs` builds a good image for every list of files (induction over that
  list): `ImageAssumption` is evaluated on the image of the run, and assumed in
  the proofs about `File`;
- `Inode`: its calls are lists of steps that a step extends, and the invariant
  would have to speak of every suffix of every list; nothing was attempted;
- `NoKernelPanic`, `NoSpinCycle` and `NoMissedWakeup`: the invariant would
  relate `ncli`, `intena` and the locks held to the steps each thread has still
  to take, a recursion over that list.

## 5. Where code and text disagree

`inode_deadlock`: `create` keeps the lock of the new inode when it calls
`iunlockput(dp)` (`sysfile.c:297`), whose `iput` takes the lock of the directory
again. In between, `sys_unlink` of the same name can lock the directory and wait
for the new inode: each holds what the other waits for. `fs.c:149` says that
separating `iget` from `ilock` "helps avoid deadlock", and `usertests.c:855` has
a test "to look for deadlocks".

The models reach other cases that the properties make explicit or leave out:

- in a log area of `mkfs`'s size, calls that wrote all of `MAXOPBLOCKS` would
  panic or overwrite the first inode block (section 4);
- `kill` of a pid that names no process marks a free slot (`proc.c:486`);
- `pipewrite` of a killed process returns without waking the reader
  (`pipe.c:86`): `NoLostWakeupUnlessKilled` has the exception in its name;
- a `kill` between the test of `killed` and `sleep` does not end the call
  (`piperead`, `pipewrite`, `sys_sleep`, `consoleread`);
- `iput` drops the lock between its test and its free, and two of them can leave
  an inode that nobody frees (`fs.c:335`, history `raced`);
- an entry can be linked into a directory that has been removed (history
  `strays`);
- a directory that is removed while somebody is in it keeps its `..`, although
  the link is no longer counted: the parent can be removed and freed as well, and
  `ilock` then panics ("ilock: no type", `fs.c:309`) when somebody goes up to it
  (history `gone`, excepted in `InUse`);
- `filelseek` takes no lock and `SEEK_CUR` can pass the end of the file
  (`file.c:163`); a seek in the middle of a call has the call add its count to
  the new offset, and `SharedOffset` holds again after the next seek or open;
- `mkfs` gives the root directory a size of one block more than it fills when
  its entries end at a block's end (`mkfs.c:161`); a read of it then allocates a
  block, and panics if no call has a transaction open (excepted in
  `ReadsAllocateNothing`);
- `sbrk(-sz)` frees every page and reports failure, keeping `sz`
  (`proc.c:169`); the process is taken to fault next, and `SizeMapped` leaves it
  out. As the TLB is not flushed on that path, a processor may run it on until
  the next switch;
- if the fork of the shell and then that of `init` fails, `init` exits and the
  kernel panics (`init.c:25`); the bounds of `shell` do not get there;
- of two redirections to the same descriptor the shell keeps the first;
- the driver ignores disk errors (`ide.c:118`): `ReadsLast` and `CleanIsOnDisk`
  leave out the blocks on which a command failed.

## 6. Not modelled

The user allocator `umalloc.c` and the other user programs are sequential;
`memide.c` is a test stand-in for the disk; startup code, device registers, the
keyboard's tables and `cprintf` only move bytes; `procdump` takes no lock and
prints; `filestat`, `getpid` and `uptime` return a field; `cd` in the shell is
`chdir` of `Inode`. Spurious interrupts are dropped by the code. In `Bcache` a
process uses one buffer at a time, although `install_trans` and `write_log` hold
two, in a fixed order. In `File` the inode in memory and the one on disk are one.
In `Memory` the arguments of `exec` are shorter than the 32 MB from which the
stack pointer would wrap to addresses without a page table, for which `uva2ka`
(`vm.c:354`) has no test. A crash is modelled in `Log` only, with atomic block
writes and no disk errors.

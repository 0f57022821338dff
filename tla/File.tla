-------------------------------- MODULE File --------------------------------
(* The contents of files: the block bitmap, bmap, itrunc, readi and writei   *)
(* (fs.c), the offsets of open files (file.c), and the image that mkfs.c     *)
(* builds.  A step of a read or a write is one iteration of the loop of      *)
(* readi or writei; the inode's lock is held from the first to the last.     *)
(*                                                                           *)
(* A byte and a block number are both one cell of a block: sizeof(uint) = 1. *)
EXTENDS Integers, Sequences, FiniteSets, FiniteSetsExt

CONSTANTS
  Procs,
  BSIZE, NDIRECT,
  nmeta,      \* blocks before the data blocks
  FSSIZE,
  MaxChunk,   \* filewrite's max
  UINT,       \* 2^32
  FileOf,     \* open files and the inode each is of
  Contents0,  \* the files given to mkfs, from inode 1 on
  WriteSizes, ReadSizes, Seeks, Values,
  MaxOps      \* bound on the calls

Inums == DOMAIN Contents0
ROOTINO == 1
Files == DOMAIN FileOf
NINDIRECT == BSIZE
MAXFILE == NDIRECT + NINDIRECT
Blocks == 0..(FSSIZE - 1)
Zeroes == [k \in 0..(BSIZE - 1) |-> 0]

ASSUME FileAssumption ==
  /\ BSIZE \in Nat \ {0} /\ NDIRECT \in Nat /\ MaxChunk \in Nat \ {0}
  /\ nmeta \in Nat \ {0} /\ FSSIZE \in Nat /\ UINT \in Nat /\ UINT > MAXFILE * BSIZE
  /\ FileOf \in [Files -> Inums]
  /\ WriteSizes \subseteq Nat \ {0} /\ ReadSizes \subseteq Nat /\ Values \subseteq Nat
  /\ \A s \in Seeks : s[1] \in Nat

VARIABLES
  fs,        \* bitmap, content of the blocks, size and addrs of the inodes
  lock,      \* ip->lock of each inode
  opened,    \* the open files
  off,       \* f->off
  op,        \* the call each process is in
  nops, panic,
  data,      \* history: each file as the calls so far have written it
  from,      \* history: where each open file was opened or last sought to,
             \* -1 if that was in the middle of a read or write of it
  passed     \* history: the bytes read or written through it since then

vars == <<fs, lock, opened, off, op, nops, panic, data, from, passed>>

-----------------------------------------------------------------------------
(* Blocks. *)

FreeBlocks(d) == Blocks \ d.bitmap

(* balloc marks the first free block and zeroes it; faulty: it is not zeroed.*)
ballocDirty(d) == [d EXCEPT !.bitmap = @ \cup {Min(FreeBlocks(d))}]

balloc(d) ==
  LET b == Min(FreeBlocks(d))
  IN [d EXCEPT !.bitmap = @ \cup {b}, !.content[b] = Zeroes]

(* bmap: the address of block bn of inode f, 0 if it has none. *)
Addr(d, f, bn) ==
  LET a == d.inode[f].addrs IN
    IF bn < NDIRECT THEN a[bn]
    ELSE IF a[NDIRECT] = 0 THEN 0 ELSE d.content[a[NDIRECT]][bn - NDIRECT]

(* The disk once the blocks that were missing on the way are allocated.      *)
Mapped(Alloc(_), d, f, bn) ==
  IF Addr(d, f, bn) # 0 THEN d
  ELSE IF bn < NDIRECT
       THEN [Alloc(d) EXCEPT !.inode[f].addrs[bn] = Min(FreeBlocks(d))]
       ELSE LET i == IF d.inode[f].addrs[NDIRECT] # 0 THEN d
                     ELSE [Alloc(d) EXCEPT !.inode[f].addrs[NDIRECT] = Min(FreeBlocks(d))]
            IN [Alloc(i) EXCEPT !.content[i.inode[f].addrs[NDIRECT]][bn - NDIRECT]
                                  = Min(FreeBlocks(i))]

bmap(d, f, bn) == Mapped(balloc, d, f, bn)

(* How many blocks bmap allocates. *)
Missing(d, f, bn) ==
  IF Addr(d, f, bn) # 0 THEN 0
  ELSE IF bn >= NDIRECT /\ d.inode[f].addrs[NDIRECT] = 0 THEN 2 ELSE 1

(* The blocks of an inode: those of its data and, last, the indirect block.  *)
Places == 0..MAXFILE
BlockAt(d, f, k) == IF k = MAXFILE THEN d.inode[f].addrs[NDIRECT] ELSE Addr(d, f, k)

Owned(d, f) == {BlockAt(d, f, k) : k \in Places} \ {0}

(* What itrunc frees; faulty: the indirect block stays in use. *)
FreedData(d, f) == {Addr(d, f, bn) : bn \in 0..(MAXFILE - 1)} \ {0}

Freed(d, f) == Owned(d, f)

itruncated(d, f) ==
  [d EXCEPT !.bitmap = @ \ Freed(d, f),
            !.inode[f] = [size |-> 0, addrs |-> [k \in 0..NDIRECT |-> 0]]]

(* The m cells from o on within block b become v. *)
Put(d, b, o, m, v) ==
  [d EXCEPT !.content[b] = [k \in 0..(BSIZE - 1) |-> IF k \in o..(o + m - 1) THEN v ELSE @[k]]]

(* The bytes of an inode, through its blocks; those of a missing one are 0.  *)
Cell(d, f, k) ==
  LET b == Addr(d, f, k \div BSIZE) IN IF b = 0 THEN 0 ELSE d.content[b][k % BSIZE]

Bytes(d, f) == [k \in 1..d.inode[f].size |-> Cell(d, f, k - 1)]

-----------------------------------------------------------------------------
(* mkfs.  iappend takes blocks in order, beginning with the first data block.*)
mkfsBlock(d) == [d EXCEPT !.bitmap = @ \cup {Min(FreeBlocks(d))}]

iappend(d, f, byte) ==
  LET o == d.inode[f].size
      e == Mapped(mkfsBlock, d, f, o \div BSIZE)
  IN [Put(e, Addr(e, f, o \div BSIZE), o % BSIZE, 1, byte) EXCEPT !.inode[f].size = o + 1]

mkfsFile(d, f) ==
  LET image[n \in 0..Len(Contents0[f])] ==
        IF n = 0 THEN d ELSE iappend(image[n - 1], f, Contents0[f][n])
  IN image[Len(Contents0[f])]

(* "fix size of root inode dir": up to the end of its last block, which is   *)
(* a block more when it was full.                                            *)
mkfsRoot(d) == [d EXCEPT !.inode[ROOTINO].size = ((@ \div BSIZE) + 1) * BSIZE]

Blank ==
  [bitmap |-> 0..(nmeta - 1), content |-> [b \in Blocks |-> Zeroes],
   inode |-> [f \in Inums |-> [size |-> 0, addrs |-> [k \in 0..NDIRECT |-> 0]]]]

mkfs ==
  LET image[f \in 0..Len(Contents0)] == IF f = 0 THEN Blank ELSE mkfsFile(image[f - 1], f)
  IN mkfsRoot(image[Len(Contents0)])

(* The disks that the code may find: types, and each block has one use.      *)
Disks ==
  [bitmap : SUBSET Blocks, content : [Blocks -> [0..(BSIZE - 1) -> Nat]],
   inode : [Inums -> [size : Nat, addrs : [0..NDIRECT -> Blocks]]]]

OwnedOnce(d) ==
  /\ d.bitmap = 0..(nmeta - 1) \cup UNION {Owned(d, f) : f \in Inums}
  /\ \A f \in Inums, k \in Places : BlockAt(d, f, k) # 0 =>
       \A g \in Inums, l \in Places : BlockAt(d, g, l) = BlockAt(d, f, k) => f = g /\ k = l
  /\ \A f \in Inums : /\ d.inode[f].size <= MAXFILE * BSIZE
                      /\ Owned(d, f) \cap 0..(nmeta - 1) = {}

(* The files fit: mkfs asserts so, and runs out of neither blocks nor places.*)
ASSUME ImageAssumption == mkfs \in Disks /\ OwnedOnce(mkfs)

-----------------------------------------------------------------------------
Idle == [pc |-> "idle"]

Init ==
  /\ fs = mkfs
  /\ lock = [f \in Inums |-> FALSE]
  /\ opened = Files
  /\ off = [o \in Files |-> 0]
  /\ op = [p \in Procs |-> Idle]
  /\ nops = 0 /\ panic = ""
  /\ data = [f \in Inums |-> Bytes(mkfs, f)]
  /\ from = [o \in Files |-> 0] /\ passed = [o \in Files |-> {}]

Begin(p) == panic = "" /\ op[p] = Idle /\ nops < MaxOps /\ nops' = nops + 1
argfd(o) == o \in opened
At(p, pc) == panic = "" /\ op[p].pc = pc
Goto(p, r) == op' = [op EXCEPT ![p] = r]
Inode(p) == FileOf[op[p].o]
Size(f) == fs.inode[f].size

Panic(m) == panic' = m /\ UNCHANGED <<fs, lock, opened, off, op, nops, data, from, passed>>

(* readi and writei refuse an offset past the end. *)
Refuses(f, x, n) == x > Size(f) \/ (x + n) % UINT < x

(* What an iteration of their loops is about: the offset, the block and how  *)
(* much of it; and why bmap panics, "" if it does not.                       *)
Cur(p) == op[p].x + op[p].tot
Bn(p) == Cur(p) \div BSIZE
Part(p) == Min({op[p].n1 - op[p].tot, BSIZE - (Cur(p) % BSIZE)})
Problem(p) ==
  IF Bn(p) >= MAXFILE THEN "bmap: out of range"
  ELSE IF Missing(fs, Inode(p), Bn(p)) > Cardinality(FreeBlocks(fs)) THEN "balloc: out of blocks"
  ELSE ""

-----------------------------------------------------------------------------
(* fileread. *)

(* readi reads at most to the end of the file; faulty: on to the next block. *)
ClampedNot(f, x, n) == n

Clamped(f, x, n) == Min({n, Size(f) - x})

fileread(p, o, n) ==
  /\ Begin(p) /\ argfd(o) /\ ~lock[FileOf[o]]
  /\ LET f == FileOf[o]
         x == off[o]
     IN \/ /\ Refuses(f, x, n)
           /\ UNCHANGED <<lock, op>>
        \/ /\ ~Refuses(f, x, n)
           /\ lock' = [lock EXCEPT ![f] = TRUE]
           /\ Goto(p, [pc |-> "readi", o |-> o, x |-> x, n1 |-> Clamped(f, x, n), tot |-> 0])
  /\ UNCHANGED <<fs, opened, off, panic, data, from, passed>>

(* A read is in no transaction of its own.  bmap may allocate nevertheless   *)
(* if another process, writing or in another part of the kernel, has one.    *)
NoTransaction(p) ==
  /\ Missing(fs, Inode(p), Bn(p)) > 0
  /\ \A q \in Procs : op[q].pc # "writei"

(* One iteration of readi's loop. *)
readi(p) ==
  /\ At(p, "readi") /\ op[p].tot < op[p].n1
  /\ \/ Problem(p) # "" /\ Panic(Problem(p))
     \/ /\ Problem(p) = ""
        /\ fs' = bmap(fs, Inode(p), Bn(p))
        /\ Goto(p, [op[p] EXCEPT !.tot = @ + Part(p)])
        /\ UNCHANGED <<lock, opened, off, nops, panic, data, from, passed>>
     \/ Problem(p) = "" /\ NoTransaction(p) /\ Panic("log_write outside of trans")

Passed(o, x, n) == [passed EXCEPT ![o] = @ \cup x..(x + n - 1)]

(* f->off += r and iunlock. *)
fileread_done(p) ==
  /\ At(p, "readi") /\ op[p].tot = op[p].n1
  /\ off' = [off EXCEPT ![op[p].o] = (@ + op[p].n1) % UINT]
  /\ lock' = [lock EXCEPT ![Inode(p)] = FALSE]
  /\ passed' = Passed(op[p].o, op[p].x, op[p].n1)
  /\ Goto(p, Idle)
  /\ UNCHANGED <<fs, opened, nops, panic, data, from>>

-----------------------------------------------------------------------------
(* filewrite: a transaction per chunk. *)

(* sys_open opens a directory for reading only. *)
Writable(o) == FileOf[o] # ROOTINO

sys_write(p, o, n, v) ==
  /\ Begin(p) /\ argfd(o) /\ Writable(o)
  /\ Goto(p, [pc |-> "chunk", o |-> o, left |-> n, v |-> v])
  /\ UNCHANGED <<fs, lock, opened, off, panic, data, from, passed>>

(* writei refuses to grow a file past its last block. *)
TooBig(x, n) == x + n > MAXFILE * BSIZE

(* The lock of a chunk; faulty: another writer need not have finished. *)
AnyTime(f) == TRUE

Unlocked(f) == ~lock[f]

filewrite_chunk(p) ==
  /\ At(p, "chunk") /\ Unlocked(Inode(p))
  /\ LET x == off[op[p].o]
         n1 == Min({op[p].left, MaxChunk})
     IN \/ /\ Refuses(Inode(p), x, n1) \/ TooBig(x, n1)
           /\ Goto(p, Idle)
           /\ UNCHANGED lock
        \/ /\ ~Refuses(Inode(p), x, n1) /\ ~TooBig(x, n1)
           /\ lock' = [lock EXCEPT ![Inode(p)] = TRUE]
           /\ Goto(p, [pc |-> "writei", o |-> op[p].o, left |-> op[p].left, v |-> op[p].v,
                       x |-> x, n1 |-> n1, tot |-> 0])
  /\ UNCHANGED <<fs, opened, off, nops, panic, data, from, passed>>

(* One iteration of writei's loop. *)
writei(p) ==
  /\ At(p, "writei") /\ op[p].tot < op[p].n1
  /\ \/ Problem(p) # "" /\ Panic(Problem(p))
     \/ /\ Problem(p) = ""
        /\ LET d == bmap(fs, Inode(p), Bn(p))
           IN fs' = Put(d, Addr(d, Inode(p), Bn(p)), Cur(p) % BSIZE, Part(p), op[p].v)
        /\ Goto(p, [op[p] EXCEPT !.tot = @ + Part(p)])
        /\ UNCHANGED <<lock, opened, off, nops, panic, data, from, passed>>

Overlay(s, x, n, v) ==
  [k \in 1..Max({Len(s), x + n}) |-> IF k \in (x + 1)..(x + n) THEN v ELSE s[k]]

(* The size after the loop, f->off += r, iunlock, and the next chunk.  The   *)
(* inode in memory and the dinode are one here: a block that bmap adds below *)
(* the size stays out of the dinode until some iupdate.  mkfs leaves such a  *)
(* block in the root directory only, which nobody writes.                    *)
filewrite_done(p) ==
  /\ At(p, "writei") /\ op[p].tot = op[p].n1
  /\ LET f == Inode(p)
         x == op[p].x
         n1 == op[p].n1
     IN /\ fs' = [fs EXCEPT !.inode[f].size = Max({@, x + n1})]
        /\ data' = [data EXCEPT ![f] = Overlay(@, x, n1, op[p].v)]
        /\ off' = [off EXCEPT ![op[p].o] = (@ + n1) % UINT]
        /\ passed' = Passed(op[p].o, x, n1)
        /\ lock' = [lock EXCEPT ![f] = FALSE]
        /\ Goto(p, IF op[p].left = n1 THEN Idle
                   ELSE [pc |-> "chunk", o |-> op[p].o, left |-> op[p].left - n1, v |-> op[p].v])
  /\ UNCHANGED <<opened, nops, panic, from>>

-----------------------------------------------------------------------------
(* A read or write of o has fetched the offset and not yet advanced it. *)
InCall(o) == \E q \in Procs : op[q].pc \in {"readi", "writei"} /\ op[q].o = o

(* filelseek takes no lock. *)
filelseek(p, o, offset, whence) ==
  /\ Begin(p) /\ argfd(o)
  /\ LET size == Size(FileOf[o]) IN
       \/ offset > size /\ UNCHANGED <<off, from, passed>>
       \/ /\ offset <= size
          /\ off' = [off EXCEPT ![o] = CASE whence = 0 -> offset
                                         [] whence = 1 -> (@ + offset) % UINT
                                         [] whence = 2 -> size - offset
                                         [] OTHER -> @]
          /\ from' = [from EXCEPT ![o] = IF InCall(o) THEN -1 ELSE off'[o]]
          /\ passed' = [passed EXCEPT ![o] = {}]
  /\ UNCHANGED <<fs, lock, opened, op, panic, data>>

(* The last close of an open file, and opening it again. *)
fileclose(o) ==
  /\ panic = "" /\ o \in opened
  /\ \A p \in Procs : op[p] # Idle => op[p].o # o
  /\ opened' = opened \ {o}
  /\ UNCHANGED <<fs, lock, off, op, nops, panic, data, from, passed>>

sys_open(o) ==
  /\ panic = "" /\ o \notin opened
  /\ opened' = opened \cup {o}
  /\ off' = [off EXCEPT ![o] = 0]
  /\ from' = [from EXCEPT ![o] = 0] /\ passed' = [passed EXCEPT ![o] = {}]
  /\ UNCHANGED <<fs, lock, op, nops, panic, data>>

(* iput of a file that was unlinked, with nobody using it; its inode is used *)
(* again for a new, empty file.                                              *)
itrunc(f) ==
  /\ panic = "" /\ f # ROOTINO /\ \A o \in opened : FileOf[o] # f
  /\ Size(f) > 0
  /\ fs' = itruncated(fs, f)
  /\ data' = [data EXCEPT ![f] = <<>>]
  /\ panic' = IF Owned(fs, f) \subseteq fs.bitmap THEN "" ELSE "freeing free block"
  /\ UNCHANGED <<lock, opened, off, op, nops, from, passed>>

Next ==
  \/ \E p \in Procs, o \in Files :
       \/ \E n \in ReadSizes : fileread(p, o, n)
       \/ \E n \in WriteSizes, v \in Values : sys_write(p, o, n, v)
       \/ \E s \in Seeks : filelseek(p, o, s[1], s[2])
  \/ \E p \in Procs : readi(p) \/ fileread_done(p) \/ filewrite_chunk(p) \/ writei(p) \/ filewrite_done(p)
  \/ \E o \in Files : fileclose(o) \/ sys_open(o)
  \/ \E f \in Inums : itrunc(f)

Spec == Init /\ [][Next]_vars

-----------------------------------------------------------------------------
(* Every block is used once: no two places hold the same one, and what the  *)
(* bitmap marks is a meta block or belongs to a file; no file is larger than *)
(* it has addresses.                                                         *)
BlocksOwned == panic = "" => OwnedOnce(fs)

(* Through blocks, indirect block and size, a file that nobody is writing    *)
(* holds exactly what was written to it, whoever wrote, wherever the offset  *)
(* had been moved, whatever the blocks held before: no hole, no old data.    *)
HoldsWritten ==
  \A f \in Inums : ~lock[f] => Bytes(fs, f) = data[f]

(* Processes that share an open file share its offset, and the inode's lock  *)
(* makes fetching and advancing it one step: together their reads and writes *)
(* cover every byte from where the file was opened or sought to up to the    *)
(* offset, none twice and none left out, unless a seek, which takes no lock, *)
(* came in the middle of one.                                                *)
SharedOffset ==
  \A o \in Files : from[o] # -1 =>
    from[o] <= off[o] /\ passed[o] = from[o]..(off[o] - 1)

(* mkfs has left block bn of f out although it is below the size. *)
LeftOut(f, bn) == bn * BSIZE < mkfs.inode[f].size /\ Addr(mkfs, f, bn) = 0

(* A read never allocates a block that a write, a truncation or a new file   *)
(* has left out: it runs outside a transaction, where log_write panics.  It  *)
(* does so for the last block of a root directory whose entries fill whole   *)
(* blocks, which mkfs counts in the size and does not provide.               *)
ReadsAllocateNothing ==
  [][\A p \in Procs : readi(p) /\ ~LeftOut(Inode(p), Bn(p)) => fs'.bitmap = fs.bitmap]_vars
=============================================================================

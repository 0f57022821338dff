-------------------------------- MODULE Inode --------------------------------
(* Inodes, directories and paths (fs.c) and the system calls that name them  *)
(* (sysfile.c), with the processes' open files and current directories.      *)
(*                                                                           *)
(* A step runs from taking an inode's sleep lock to releasing it; a lock     *)
(* that stays held while another one is taken, or while iput() runs, is held *)
(* across steps.  icache.lock is only held inside a step.  Blocks, contents  *)
(* and transactions are modelled by File and Log.                            *)
EXTENDS Naturals, Sequences, FiniteSets, FiniteSetsExt, TLC

CONSTANTS
  Procs,
  Names,      \* the names of directory entries besides the dots
  ninodes,    \* sb.ninodes: inode numbers are below it
  NINODE,     \* entries of the inode cache (param.h)
  NOFILE,     \* descriptors of a process
  NFILE,      \* open files of the system
  Workloads,  \* the calls to make (op, path, and link's new) and where to start
  MaxCalls    \* bound on how many they make

Inums == 1..(ninodes - 1)
Slots == 1..NINODE
DirNames == Names \cup {".", ".."}
ROOTINO == 1
NoProc == "nobody"
NoEnts == [n \in DirNames |-> 0]

ASSUME InodeAssumption ==
  /\ ninodes \in Nat \ {0, 1} /\ NINODE \in Nat \ {0}
  /\ NOFILE \in Nat /\ NFILE \in Nat /\ MaxCalls \in Nat
  /\ NoProc \notin Procs

VARIABLES
  disk,      \* dinodes: type, nlink and, of a directory, its entries
  icache,    \* inum, ref, valid, the copy of type and nlink, who holds lock
  cwd,       \* the cache entry of each process's current directory
  ofile,     \* the cache entries of its open files, 0: closed
  st,        \* the system call a process is in: what is left, its variables
  calls,     \* the workload of this behaviour
  ncalls,
  panic,     \* the message of panic(), "" while the machine runs
  strays,    \* history: inodes linked into a directory that has been removed
  raced,     \* history: inodes that two processes put at the same time
  gone       \* history: inodes freed while some directory has them as its ".."

vars == <<disk, icache, cwd, ofile, st, calls, ncalls, panic, strays, raced, gone>>

Idle == [todo |-> <<>>, op |-> "none", new |-> <<>>, path |-> <<>>, name |-> ".",
         cur |-> 0, next |-> 0, ip |-> 0, dp |-> 0, old |-> 0]

-----------------------------------------------------------------------------
(* The inode cache. *)

Dinode(s) == disk[icache[s].inum]

Cached(i) == {s \in Slots : icache[s].ref > 0 /\ icache[s].inum = i}
Unused == {s \in Slots : icache[s].ref = 0}

(* The entry iget returns for inode i, 0 if it panics. *)
igetSlot(i) == IF Cached(i) # {} THEN Min(Cached(i))
               ELSE IF Unused # {} THEN Min(Unused) ELSE 0

(* The cache c after idup(s) and after iget(i). *)
idup(c, s) == [c EXCEPT ![s].ref = @ + 1]

iget(c, i) ==
  LET s == igetSlot(i) IN
    IF c[s].ref > 0 THEN idup(c, s)
    ELSE [c EXCEPT ![s].inum = i, ![s].ref = 1, ![s].valid = FALSE]

(* The entry once ilock has read the inode, if it had to. *)
Loaded(s) ==
  IF icache[s].valid THEN icache[s]
  ELSE [icache[s] EXCEPT !.valid = TRUE, !.type = Dinode(s).type, !.nlink = Dinode(s).nlink]

(* The disk d after iupdate of the entry e. *)
iupdate(d, e) == [d EXCEPT ![e.inum].type = e.type, ![e.inum].nlink = e.nlink]

(* dirlookup: the inode that the directory of entry s has under n, or 0. *)
dirlookup(s, n) == Dinode(s).ents[n]

(* The disk d after dirlink has written (n, i) into the directory of s. *)
dirlink(d, s, n, i) == [d EXCEPT ![icache[s].inum].ents[n] = i]

isdirempty(s) == \A n \in Names : dirlookup(s, n) = 0

(* ialloc takes the first free inode and clears it. *)
FreeInums == {i \in Inums : disk[i].type = "free"}

ialloc(type) == [disk EXCEPT ![Min(FreeInums)] = [type |-> type, nlink |-> 0, ents |-> NoEnts]]

-----------------------------------------------------------------------------
(* A system call is a list of steps, each with the variable it is about; a   *)
(* step is replaced by the steps that follow from it.                        *)

At(p, step) == panic = "" /\ st[p].todo # <<>> /\ Head(st[p].todo)[1] = step
Var(p) == st[p][Head(st[p].todo)[2]]
Go(p, r, steps) ==
  LET t == steps \o Tail(st[p].todo)
  IN st' = [st EXCEPT ![p] = IF t = <<>> THEN Idle ELSE [r EXCEPT !.todo = t]]

Iput(v) == <<"iput", v>>
Iunlock(v) == <<"iunlock", v>>
iunlockput(v) == <<Iunlock(v), Iput(v)>>
Do(step) == <<step, "cur">>
DoIp(step) == <<step, "ip">>

Walks(p) == At(p, "namei") \/ At(p, "nameiparent")
LastElement(p) == At(p, "nameiparent") /\ Len(st[p].path) = 1

(* ip->lock is what the next step takes; by ilock unless it is iput.         *)
Locks(p) ==
  \/ Walks(p) /\ st[p].path # <<>>
  \/ \E step \in {"iput", "link", "link_new", "link_bad", "unlink", "unlink_entry",
                  "create", "create_old", "create_new", "open", "chdir"} :
       At(p, step) /\ Var(p) # 0

CanLock(p) == Locks(p) /\ icache[Var(p)].lock = NoProc

(* The name the next step looks up in the directory it locks, "" if none. *)
Lookup(p) ==
  IF Walks(p) /\ ~LastElement(p) THEN Head(st[p].path)
  ELSE IF At(p, "link_new") \/ At(p, "create")
          \/ (At(p, "unlink") /\ st[p].name \notin {".", ".."})
       THEN st[p].name ELSE ""

(* Why the next step panics once it has the lock, "" if it does not. *)
PanicMsg(p) ==
  LET s == Var(p)
      e == Loaded(s)
      i == dirlookup(s, Lookup(p))
  IN IF At(p, "iput") THEN ""
     ELSE IF ~icache[s].valid /\ Dinode(s).type = "free" THEN "ilock: no type"
     ELSE IF At(p, "unlink_entry") /\ e.nlink < 1 THEN "unlink: nlink < 1"
     ELSE IF Lookup(p) = "" THEN ""
     ELSE IF e.type # "dir" THEN IF Walks(p) THEN "" ELSE "dirlookup not DIR"
     ELSE IF i # 0 THEN IF igetSlot(i) = 0 THEN "iget: no inodes" ELSE ""
     ELSE IF ~At(p, "create") THEN ""
     ELSE IF FreeInums = {} THEN "ialloc: no inodes"
     ELSE IF igetSlot(Min(FreeInums)) = 0 THEN "iget: no inodes" ELSE ""

(* The next step of p is step, its lock is free and it does not panic. *)
Enter(p, step) == At(p, step) /\ CanLock(p) /\ PanicMsg(p) = ""

panics(p) ==
  /\ CanLock(p) /\ PanicMsg(p) # ""
  /\ panic' = PanicMsg(p)
  /\ UNCHANGED <<disk, icache, cwd, ofile, st, ncalls, strays, raced, gone>>

(* A walk found nothing: the call fails; link has an increment to undo.      *)
not_found(p) ==
  /\ \E step \in {"link", "link_new", "unlink", "create", "open", "chdir"} : At(p, step)
  /\ Var(p) = 0
  /\ Go(p, st[p], IF At(p, "link_new") THEN <<DoIp("link_bad")>> ELSE <<>>)
  /\ UNCHANGED <<disk, icache, cwd, ofile, ncalls, panic, strays, raced, gone>>

-----------------------------------------------------------------------------
(* iunlock and iput. *)

iunlock(p) ==
  /\ At(p, "iunlock")
  /\ icache' = [icache EXCEPT ![Var(p)].lock = NoProc]
  /\ Go(p, st[p], <<>>)
  /\ UNCHANGED <<disk, cwd, ofile, ncalls, panic, strays, raced, gone>>

(* When iput frees the inode; faulty: whatever the references, one reference *)
(* too early.                                                                *)
LastRefAny(s) == icache[s].valid /\ icache[s].nlink = 0

LastRefButOne(s) == icache[s].valid /\ icache[s].nlink = 0 /\ icache[s].ref = 2

LastRef(s) == icache[s].valid /\ icache[s].nlink = 0 /\ icache[s].ref = 1

(* Another process has looked at the same references and not yet dropped its *)
(* own: neither will see that it is the last.                                *)
Racing(s) == \E q \in Procs : At(q, "deref") /\ Var(q) = s

(* Another directory, itself removed but in use, still has i as its "..". *)
IsParent(i) == \E d \in Inums \ {i} : disk[d].type = "dir" /\ disk[d].ents[".."] = i

iput(p) ==
  /\ At(p, "iput") /\ CanLock(p)
  /\ LET s == Var(p)
         v == Head(st[p].todo)[2]
     IN \/ /\ ~LastRef(s)
           /\ Go(p, st[p], <<<<"deref", v>>>>)
           /\ raced' = IF Racing(s) THEN raced \cup {icache[s].inum} ELSE raced
           /\ UNCHANGED <<disk, icache, gone>>
        \/ /\ LastRef(s)
           /\ icache' = [icache EXCEPT ![s].type = "free", ![s].lock = p]
           /\ disk' = [iupdate(disk, icache'[s]) EXCEPT ![icache[s].inum].ents = NoEnts]
           /\ Go(p, st[p], <<<<"freed", v>>, <<"deref", v>>>>)
           /\ gone' = IF IsParent(icache[s].inum) THEN gone \cup {icache[s].inum} ELSE gone
           /\ UNCHANGED raced
  /\ UNCHANGED <<cwd, ofile, ncalls, panic, strays>>

(* ip->valid once the free inode is on the disk; faulty: left as it was. *)
StillValid(s) == icache[s].valid

Invalid(s) == FALSE

iput_freed(p) ==
  /\ At(p, "freed")
  /\ icache' = [icache EXCEPT ![Var(p)].valid = Invalid(Var(p)), ![Var(p)].lock = NoProc]
  /\ Go(p, st[p], <<>>)
  /\ UNCHANGED <<disk, cwd, ofile, ncalls, panic, strays, raced, gone>>

iput_deref(p) ==
  /\ At(p, "deref")
  /\ icache' = [icache EXCEPT ![Var(p)].ref = @ - 1]
  /\ Go(p, st[p], <<>>)
  /\ UNCHANGED <<disk, cwd, ofile, ncalls, panic, strays, raced, gone>>

-----------------------------------------------------------------------------
(* namex. *)

Absolute(pth) == pth # <<>> /\ Head(pth) = "/"
Start(p, pth) == IF Absolute(pth) THEN igetSlot(ROOTINO) ELSE cwd[p]
Elements(pth) == IF Absolute(pth) THEN Tail(pth) ELSE pth

(* No element is left: nameiparent has nothing to return. *)
namex_end(p) ==
  /\ Walks(p) /\ st[p].path = <<>>
  /\ IF At(p, "namei") THEN Go(p, st[p], <<>>)
     ELSE Go(p, [st[p] EXCEPT !.next = st[p].cur, !.cur = 0], <<Iput("next")>>)
  /\ UNCHANGED <<disk, icache, cwd, ofile, ncalls, panic, strays, raced, gone>>

(* One element: stop at the parent of the last one, give up, or go down.     *)
namex(p) ==
  LET s == st[p].cur
      e == Loaded(s)
      n == Head(st[p].path)
      i == dirlookup(s, n)
  IN
  /\ Enter(p, "namei") \/ Enter(p, "nameiparent")
  /\ \/ /\ e.type = "dir" /\ LastElement(p)
        /\ icache' = [icache EXCEPT ![s] = e]
        /\ Go(p, [st[p] EXCEPT !.name = n], <<>>)
     \/ /\ e.type # "dir" \/ (~LastElement(p) /\ i = 0)
        /\ icache' = [icache EXCEPT ![s] = e]
        /\ Go(p, [st[p] EXCEPT !.next = s, !.cur = 0], <<Iput("next")>>)
     \/ /\ e.type = "dir" /\ ~LastElement(p) /\ i # 0
        /\ icache' = iget([icache EXCEPT ![s] = e], i)
        /\ Go(p, [st[p] EXCEPT !.next = s, !.cur = igetSlot(i), !.path = Tail(@)],
              <<Iput("next"), Head(st[p].todo)>>)
  /\ UNCHANGED <<disk, cwd, ofile, ncalls, panic, strays, raced, gone>>

-----------------------------------------------------------------------------
(* The system calls. *)

FirstSteps(op) ==
  CASE op = "link"   -> <<Do("namei"), Do("link")>>
    [] op = "unlink" -> <<Do("nameiparent"), Do("unlink")>>
    [] op \in {"open", "openw"} -> <<Do("namei"), Do("open")>>
    [] op \in {"creat", "mkdir", "mknod"} -> <<Do("nameiparent"), Do("create")>>
    [] op = "chdir"  -> <<Do("namei"), Do("chdir")>>

sys_call(p, c) ==
  /\ panic = "" /\ st[p] = Idle /\ ncalls < MaxCalls
  /\ ncalls' = ncalls + 1
  /\ icache' = idup(icache, Start(p, c.path))
  /\ st' = [st EXCEPT ![p] = [Idle EXCEPT !.todo = FirstSteps(c.op), !.op = c.op,
                                !.new = c.new, !.path = Elements(c.path), !.cur = Start(p, c.path)]]
  /\ UNCHANGED <<disk, cwd, ofile, panic, strays, raced, gone>>

sys_close(p, fd) ==
  /\ panic = "" /\ st[p] = Idle /\ ofile[p][fd] # 0
  /\ ofile' = [ofile EXCEPT ![p][fd] = 0]
  /\ st' = [st EXCEPT ![p] = [Idle EXCEPT !.todo = <<Iput("ip")>>, !.ip = ofile[p][fd]]]
  /\ UNCHANGED <<disk, icache, cwd, ncalls, panic, strays, raced, gone>>

(* sys_link counts the link before it writes the entry. *)
link(p) ==
  /\ Enter(p, "link")
  /\ LET s == st[p].cur
         e == Loaded(s)
         e1 == [e EXCEPT !.nlink = @ + 1]
         new == st[p].new
     IN \/ /\ e.type = "dir"
           /\ icache' = [icache EXCEPT ![s] = e]
           /\ Go(p, st[p], <<Iput("cur")>>)
           /\ UNCHANGED disk
        \/ /\ e.type # "dir"
           /\ icache' = idup([icache EXCEPT ![s] = e1], Start(p, new))
           /\ disk' = iupdate(disk, e1)
           /\ Go(p, [st[p] EXCEPT !.ip = s, !.cur = Start(p, new), !.path = Elements(new)],
                 <<Do("nameiparent"), Do("link_new")>>)
  /\ UNCHANGED <<cwd, ofile, ncalls, panic, strays, raced, gone>>

Stray(s, i) == IF Loaded(s).nlink = 0 THEN strays \cup {i} ELSE strays

link_new(p) ==
  /\ Enter(p, "link_new")
  /\ LET s == st[p].cur
         e == Loaded(s)
         i == dirlookup(s, st[p].name)
         inum == icache[st[p].ip].inum
     IN \/ /\ i # 0   \* dirlink puts the inode it found and fails
           /\ icache' = iget([icache EXCEPT ![s] = [e EXCEPT !.lock = p]], i)
           /\ Go(p, [st[p] EXCEPT !.dp = s, !.next = igetSlot(i)],
                 <<Iput("next")>> \o iunlockput("dp") \o <<DoIp("link_bad")>>)
           /\ UNCHANGED <<disk, strays>>
        \/ /\ i = 0
           /\ icache' = [icache EXCEPT ![s] = e]
           /\ disk' = dirlink(disk, s, st[p].name, inum)
           /\ strays' = Stray(s, inum)
           /\ Go(p, st[p], <<Iput("cur"), Iput("ip")>>)
  /\ UNCHANGED <<cwd, ofile, ncalls, panic, raced, gone>>

(* The count after a failed link; faulty: left incremented. *)
UndoNothing(n) == n

UndoLink(n) == n - 1

link_bad(p) ==
  /\ Enter(p, "link_bad")
  /\ LET e == [Loaded(st[p].ip) EXCEPT !.nlink = UndoLink(@)] IN
       /\ icache' = [icache EXCEPT ![st[p].ip] = e]
       /\ disk' = iupdate(disk, e)
  /\ Go(p, st[p], <<Iput("ip")>>)
  /\ UNCHANGED <<cwd, ofile, ncalls, panic, strays, raced, gone>>

unlink(p) ==
  /\ Enter(p, "unlink")
  /\ LET s == st[p].cur
         e == Loaded(s)
         i == dirlookup(s, st[p].name)
     IN \/ /\ st[p].name \in {".", ".."} \/ i = 0
           /\ icache' = [icache EXCEPT ![s] = e]
           /\ Go(p, st[p], <<Iput("cur")>>)
        \/ /\ st[p].name \notin {".", ".."} /\ i # 0
           /\ icache' = iget([icache EXCEPT ![s] = [e EXCEPT !.lock = p]], i)
           /\ Go(p, [st[p] EXCEPT !.dp = s, !.ip = igetSlot(i)], <<DoIp("unlink_entry")>>)
  /\ UNCHANGED <<disk, cwd, ofile, ncalls, panic, strays, raced, gone>>

RefusesUnlink(s) == Loaded(s).type = "dir" /\ ~isdirempty(s)

unlink_entry(p) ==
  /\ Enter(p, "unlink_entry")
  /\ LET s == st[p].ip
         e == Loaded(s)
         d == st[p].dp
         e1 == [icache[d] EXCEPT !.lock = NoProc,
                                 !.nlink = IF e.type = "dir" THEN @ - 1 ELSE @]
     IN \/ /\ RefusesUnlink(s)
           /\ icache' = [icache EXCEPT ![s] = e]
           /\ Go(p, st[p], <<Iput("ip")>> \o iunlockput("dp"))
           /\ UNCHANGED disk
        \/ /\ ~RefusesUnlink(s)
           /\ icache' = [icache EXCEPT ![s] = [e EXCEPT !.lock = p], ![d] = e1]
           /\ disk' = iupdate(dirlink(disk, d, st[p].name, 0), e1)
           /\ Go(p, st[p], <<Iput("dp"), DoIp("unlink_count")>>)
  /\ UNCHANGED <<cwd, ofile, ncalls, panic, strays, raced, gone>>

unlink_count(p) ==
  /\ At(p, "unlink_count")
  /\ LET e == [icache[st[p].ip] EXCEPT !.nlink = @ - 1, !.lock = NoProc] IN
       /\ icache' = [icache EXCEPT ![st[p].ip] = e]
       /\ disk' = iupdate(disk, e)
  /\ Go(p, st[p], <<Iput("ip")>>)
  /\ UNCHANGED <<cwd, ofile, ncalls, panic, strays, raced, gone>>

TypeOf(op) == CASE op = "creat" -> "file" [] op = "mkdir" -> "dir" [] op = "mknod" -> "dev"

(* create finds the name, or allocates an inode with dp still locked. *)
create(p) ==
  /\ Enter(p, "create")
  /\ LET s == st[p].cur
         e == Loaded(s)
         i == dirlookup(s, st[p].name)
         f == Min(FreeInums)
     IN \/ /\ i # 0
           /\ icache' = iget([icache EXCEPT ![s] = e], i)
           /\ Go(p, [st[p] EXCEPT !.dp = s, !.ip = igetSlot(i)],
                 <<Iput("dp"), DoIp("create_old")>>)
           /\ UNCHANGED <<disk, gone>>
        \/ /\ i = 0
           /\ disk' = ialloc(TypeOf(st[p].op)) /\ gone' = gone \ {f}
           /\ icache' = iget([icache EXCEPT ![s] = [e EXCEPT !.lock = p]], f)
           /\ Go(p, [st[p] EXCEPT !.dp = s, !.ip = igetSlot(f)], <<DoIp("create_new")>>)
  /\ UNCHANGED <<cwd, ofile, ncalls, panic, strays, raced>>

create_old(p) ==
  /\ Enter(p, "create_old")
  /\ LET s == st[p].ip
         e == Loaded(s)
         opens == st[p].op = "creat" /\ e.type = "file"
     IN /\ icache' = [icache EXCEPT ![s] = IF opens THEN [e EXCEPT !.lock = p] ELSE e]
        /\ Go(p, st[p], IF opens THEN <<DoIp("open_file")>> ELSE <<Iput("ip")>>)
  /\ UNCHANGED <<disk, cwd, ofile, ncalls, panic, strays, raced, gone>>

create_new(p) ==
  /\ Enter(p, "create_new")
  /\ LET s == st[p].ip
         d == st[p].dp
         e == [Loaded(s) EXCEPT !.nlink = 1, !.lock = p]
         isdir == e.type = "dir"
         e1 == [icache[d] EXCEPT !.lock = NoProc, !.nlink = IF isdir THEN @ + 1 ELSE @]
         dots == IF isdir THEN dirlink(dirlink(disk, s, ".", e.inum), s, "..", e1.inum) ELSE disk
     IN /\ icache' = [icache EXCEPT ![s] = e, ![d] = e1]
        /\ disk' = dirlink(iupdate(iupdate(dots, e), e1), d, st[p].name, e.inum)
        /\ strays' = Stray(d, e.inum)
        /\ Go(p, st[p], <<Iput("dp")>> \o IF st[p].op = "creat" THEN <<DoIp("open_file")>>
                                          ELSE iunlockput("ip"))
  /\ UNCHANGED <<cwd, ofile, ncalls, panic, raced, gone>>

open(p) ==
  /\ Enter(p, "open")
  /\ LET s == st[p].cur
         e == Loaded(s)
     IN \/ /\ e.type = "dir" /\ st[p].op = "openw"
           /\ icache' = [icache EXCEPT ![s] = e]
           /\ Go(p, st[p], <<Iput("cur")>>)
        \/ /\ ~(e.type = "dir" /\ st[p].op = "openw")
           /\ icache' = [icache EXCEPT ![s] = [e EXCEPT !.lock = p]]
           /\ Go(p, [st[p] EXCEPT !.ip = s], <<DoIp("open_file")>>)
  /\ UNCHANGED <<disk, cwd, ofile, ncalls, panic, strays, raced, gone>>

FreeFds(p) == {fd \in 1..NOFILE : ofile[p][fd] = 0}
OpenFiles == {<<p, fd>> \in Procs \X (1..NOFILE) : ofile[p][fd] # 0}

(* filealloc and fdalloc; faulty: a failure keeps the inode. *)
NoDescriptorLeak == <<>>

NoDescriptor == <<Iput("ip")>>

open_file(p) ==
  /\ At(p, "open_file")
  /\ icache' = [icache EXCEPT ![st[p].ip].lock = NoProc]
  /\ LET fails == Cardinality(OpenFiles) = NFILE \/ FreeFds(p) = {} IN
       \/ fails /\ Go(p, st[p], NoDescriptor) /\ UNCHANGED ofile
       \/ /\ ~fails
          /\ ofile' = [ofile EXCEPT ![p][Min(FreeFds(p))] = st[p].ip]
          /\ Go(p, st[p], <<>>)
  /\ UNCHANGED <<disk, cwd, ncalls, panic, strays, raced, gone>>

chdir(p) ==
  /\ Enter(p, "chdir")
  /\ LET s == st[p].cur
         isdir == Loaded(s).type = "dir"
     IN /\ icache' = [icache EXCEPT ![s] = Loaded(s)]
        /\ Go(p, [st[p] EXCEPT !.old = cwd[p]],
              IF isdir THEN <<Iput("old"), Do("chdir_set")>> ELSE <<Iput("cur")>>)
  /\ UNCHANGED <<disk, cwd, ofile, ncalls, panic, strays, raced, gone>>

chdir_set(p) ==
  /\ At(p, "chdir_set")
  /\ cwd' = [cwd EXCEPT ![p] = st[p].cur]
  /\ Go(p, st[p], <<>>)
  /\ UNCHANGED <<disk, icache, ofile, ncalls, panic, strays, raced, gone>>

-----------------------------------------------------------------------------
(* A directory d and a file f below the root.  The processes start in the    *)
(* root directory, or in a directory x below d that they have gone into;     *)
(* init stays in the root.                                                   *)
Ents(m) == [n \in DirNames |-> IF n \in DOMAIN m THEN m[n] ELSE 0]
Dots(i, parent) == [n \in {".", ".."} |-> IF n = "." THEN i ELSE parent]
Dir(links, ents) == [type |-> "dir", nlink |-> links, ents |-> Ents(ents)]
NoDinode == [type |-> "free", nlink |-> 0, ents |-> NoEnts]
NoEntry == [inum |-> 0, ref |-> 0, valid |-> FALSE, type |-> "free", nlink |-> 0, lock |-> NoProc]
Entry(i, type, n, nlink) ==
  [NoEntry EXCEPT !.inum = i, !.ref = n, !.valid = TRUE, !.type = type, !.nlink = nlink]

InRoot ==
  /\ disk = [i \in Inums |->
       CASE i = 1 -> Dir(2, Dots(1, 1) @@ [d |-> 2, f |-> 3])
         [] i = 2 -> Dir(1, Dots(2, 1))
         [] i = 3 -> [NoDinode EXCEPT !.type = "file", !.nlink = 1]
         [] OTHER -> NoDinode]
  /\ icache = [s \in Slots |->
       IF s = 1 THEN [NoEntry EXCEPT !.inum = ROOTINO, !.ref = 1 + Cardinality(Procs)]
       ELSE NoEntry]
  /\ cwd = [p \in Procs |-> 1]

InX ==
  /\ disk = [i \in Inums |->
       CASE i = 1 -> Dir(2, Dots(1, 1) @@ [d |-> 2, f |-> 3])
         [] i = 2 -> Dir(2, Dots(2, 1) @@ [x |-> 4])
         [] i = 3 -> [NoDinode EXCEPT !.type = "file", !.nlink = 1]
         [] i = 4 -> Dir(1, Dots(4, 2))
         [] OTHER -> NoDinode]
  /\ icache = [s \in Slots |->
       CASE s = 1 -> Entry(ROOTINO, "dir", 1, 2)
         [] s = 2 -> Entry(4, "dir", Cardinality(Procs), 1)
         [] OTHER -> NoEntry]
  /\ cwd = [p \in Procs |-> 2]

Init ==
  /\ \E w \in Workloads : calls = w.calls /\ IF w.start = "x" THEN InX ELSE InRoot
  /\ ofile = [p \in Procs |-> [fd \in 1..NOFILE |-> 0]]
  /\ st = [p \in Procs |-> Idle]
  /\ ncalls = 0 /\ panic = "" /\ strays = {} /\ raced = {} /\ gone = {}

Quiet == \A p \in Procs : st[p] = Idle

(* Nothing is left to do, or the machine has panicked. *)
Done ==
  /\ panic # "" \/ (Quiet /\ ncalls = MaxCalls /\ OpenFiles = {})
  /\ UNCHANGED vars

Step(p) ==
  \/ panics(p) \/ not_found(p) \/ iunlock(p) \/ iput(p) \/ iput_freed(p) \/ iput_deref(p)
  \/ namex_end(p) \/ namex(p) \/ link(p) \/ link_new(p) \/ link_bad(p)
  \/ unlink(p) \/ unlink_entry(p) \/ unlink_count(p)
  \/ create(p) \/ create_old(p) \/ create_new(p) \/ open(p) \/ open_file(p)
  \/ chdir(p) \/ chdir_set(p)

Next ==
  /\ \/ \E p \in Procs : Step(p) \/ (\E c \in calls : sys_call(p, c))
                         \/ (\E fd \in 1..NOFILE : sys_close(p, fd))
     \/ Done
  /\ UNCHANGED calls

Spec == Init /\ [][Next]_vars

-----------------------------------------------------------------------------
(* sys_chdir puts the old directory before it sets cwd. *)
CwdOf(p) ==
  IF \E i \in DOMAIN st[p].todo : st[p].todo[i] = Do("chdir_set") THEN st[p].cur ELSE cwd[p]

Holders(s) == Cardinality({p \in Procs : CwdOf(p) = s})
              + Cardinality({o \in OpenFiles : ofile[o[1]][o[2]] = s})
              + IF s = 1 THEN 1 ELSE 0

(* An inode that is an open file or a current directory is never freed and   *)
(* its cache entry never reused, whatever is unlinked meanwhile: the count   *)
(* of references covers the pointers, and the inode on disk keeps its type.  *)
(* Nor does a call come upon a freed inode where it follows an entry, and    *)
(* panic, with one exception: the ".." of a directory that is removed while  *)
(* in use is left in place and holds no link, so its parent can be removed   *)
(* too, and freed, and ilock panics for who goes up to it ("ilock: no type").*)
InUse ==
  /\ \A p \in Procs : CanLock(p) =>
       CASE PanicMsg(p) = "ilock: no type" -> icache[Var(p)].inum \in gone
         [] OTHER -> PanicMsg(p) \notin {"dirlookup not DIR", "unlink: nlink < 1"}
  /\ \A s \in Slots : Holders(s) > 0 => icache[s].ref >= Holders(s) /\ Dinode(s).type # "free"

(* No path through a system call, failing or not, loses or keeps a           *)
(* reference: between calls ip->ref is the number of open files and current  *)
(* directories that point to the entry, and nobody holds its lock.           *)
RefsAtRest ==
  Quiet /\ panic = "" =>
    \A s \in Slots : icache[s].ref = Holders(s) /\ icache[s].lock = NoProc

(* The cache is write-through and has one entry per inode: an unlocked entry *)
(* that is valid agrees with the disk.                                       *)
Coherent ==
  /\ \A i \in Inums : Cardinality(Cached(i)) <= 1
  /\ \A s \in Slots : icache[s].ref > 0 /\ icache[s].valid /\ icache[s].lock = NoProc =>
       icache[s].type = Dinode(s).type /\ icache[s].nlink = Dinode(s).nlink

Links(i) == Cardinality({<<d, n>> \in Inums \X (DirNames \ {"."}) :
              disk[d].type = "dir" /\ disk[d].nlink > 0 /\ disk[d].ents[n] = i})

(* "Number of links to inode in file system" (fs.h): between calls nlink is  *)
(* the number of entries for the inode, "." aside, in directories that are   *)
(* themselves linked.  It fails once create or link, having found their      *)
(* directory before it was removed, put an entry into it (strays).           *)
LinksAtRest ==
  Quiet /\ panic = "" /\ strays = {} =>
    \A i \in Inums : disk[i].type # "free" => disk[i].nlink = Links(i)

(* Some call in progress can go on: the processes never all wait for inode   *)
(* locks that they hold ("The separation also helps avoid deadlock", fs.c).  *)
NoDeadlock ==
  panic = "" /\ ~Quiet => \E p \in Procs : st[p] # Idle /\ (Locks(p) => CanLock(p))

(* "iput() frees if the reference and link counts have fallen to zero"       *)
(* (fs.c): between calls an inode without links is free or in use, but for   *)
(* those that two processes put at the same time, which stay allocated.      *)
Reclaimed ==
  Quiet /\ panic = "" =>
    \A i \in Inums \ raced : disk[i].type # "free" /\ disk[i].nlink = 0 => Cached(i) # {}

=============================================================================

------------------------------- MODULE Memory -------------------------------
(***************************************************************************)
(* Physical pages and address spaces: the page allocator (kalloc.c), page  *)
(* tables (vm.c) and the calls that build, grow and drop them: sbrk, fork, *)
(* exec, exit and wait.  A call takes its pages one kalloc() at a time, so *)
(* calls of different processes interleave and any kalloc() may be the one *)
(* that fails.  kfree() never fails and a run of kfree()s commutes with    *)
(* the other processes' steps, so the frees of one error path are one step.*)
(* Pages are interchangeable: the free list is a number, a page table the  *)
(* set of its slots that hold a page.  Sizes and addresses are bytes.      *)
(***************************************************************************)
EXTENDS Integers, Sequences, FiniteSets, Functions

CONSTANTS
    Procs,      \* slots of ptable, 1 .. NPROC; slot 1 is initproc
    PGSIZE,     \* bytes of a page
    NPTENTRIES, \* pages a page-table page maps
    KERNBASE,   \* first kernel address
    UINT,       \* addresses are computed modulo this
    end,        \* first physical address after the kernel
    KINIT,      \* where kinit1() stops and kinit2() goes on
    PHYSTOP,    \* end of physical memory
    MAXARG,     \* exec()'s argument limit
    Sbrks,      \* the increments processes pass to sbrk()
    Programs,   \* the program headers exec() may find in a file
    Argvs       \* the argument lengths exec() may be given

VARIABLES
    free,       \* the length of kmem.freelist
    proc,       \* ptable: state, kstack, sz, parent of every slot
    vm,         \* page tables: in use ("cur") or being built ("new"), by slot
    guard,      \* of each page table, the pages without PTE_U
    call,       \* what each process is doing in the kernel
    panic       \* the message of a panic, "" before one

vars == <<free, proc, vm, guard, call, panic>>

initproc == 1
NULL == 0

PGROUNDUP(a) == ((a + PGSIZE - 1) \div PGSIZE) * PGSIZE
VPages == 0 .. (KERNBASE \div PGSIZE - 1)
PDX(v) == v \div NPTENTRIES

\* The pages freerange() hands to kfree(): whole pages of [vstart, vend).
freerange(vstart, vend) ==
    {p \in PGROUNDUP(vstart) .. vend : p % PGSIZE = 0 /\ p + PGSIZE <= vend}

\* kinit1() and kinit2() together.
NPAGES == Cardinality(freerange(end, KINIT)) + Cardinality(freerange(KINIT, PHYSTOP))

\* An int fits a page, page tables cover the addresses below KERNBASE, which
\* is at most the middle of the address range, and there is memory for
\* userinit()'s five pages.
ASSUME MemoryAssumption ==
    /\ IsFiniteSet(Procs) /\ initproc \in Procs
    /\ PGSIZE \in Nat /\ PGSIZE >= 4 /\ NPTENTRIES \in Nat \ {0}
    /\ KERNBASE \in Nat /\ KERNBASE % PGSIZE = 0 /\ PGSIZE < KERNBASE
    /\ UINT \in Nat /\ 2 * KERNBASE <= UINT
    /\ end \in Nat /\ KINIT \in Nat /\ PHYSTOP \in Nat /\ NPAGES >= 5
    /\ Sbrks \subseteq Int
    /\ Programs \subseteq Seq([vaddr : Nat, memsz : Nat, filesz : Nat, short : BOOLEAN])

\* "mem" is the page allocuvm() or copyuvm() has taken and not yet mapped,
\* "ktab" stands for the page-table pages of the kernel's mappings.
Slots == {<<s, 0>> : s \in {"dir", "ktab", "mem"}}
         \cup ({"tab"} \X {PDX(v) : v \in VPages}) \cup ({"pte"} \X VPages)
Cur(p) == <<p, "cur">>
New(p) == <<p, "new">>
Dirs == Procs \X {"cur", "new"}
Pte(v) == <<"pte", v>>
Mem == <<"mem", 0>>
Idle == [do |-> "idle"]

\* The free list after kfree() of n pages.
kfree(n) == free + n

Unused == [state |-> "UNUSED", kstack |-> 0, sz |-> 0, parent |-> NULL]

-----------------------------------------------------------------------------
\* A faulty form for the mutants: newsz is not rounded up.
deallocuvmDown(t, oldsz, newsz) ==
    t \ {Pte(v) : v \in {u \in VPages : newsz < (u + 1) * PGSIZE /\ u * PGSIZE < oldsz}}

\* deallocuvm(): the user pages from newsz up to oldsz leave the table; its
\* page-table pages stay.
deallocuvm(t, oldsz, newsz) ==
    t \ {Pte(v) : v \in {u \in VPages : PGROUNDUP(newsz) <= u * PGSIZE /\ u * PGSIZE < oldsz}}

\* The next page table slot walkpgdir(), setupkvm() or the loop of
\* allocuvm() and copyuvm() needs a page for: the directory, the kernel's
\* tables, the page itself, and last the page-table page it is mapped in.
Tab(a) == <<"tab", PDX(a \div PGSIZE)>>
Wanted(t, a) ==
    IF <<"dir", 0>> \notin t THEN <<"dir", 0>>
    ELSE IF <<"ktab", 0>> \notin t THEN <<"ktab", 0>>
    ELSE IF Mem \notin t THEN Mem ELSE Tab(a)

\* A page in hand can be mapped once its page-table page exists.
CanMap(t, a) == Mem \in t /\ Tab(a) \in t
mappages(t, a) == (t \ {Mem}) \cup {Pte(a \div PGSIZE)}

\* The table the call of p works on: growproc() extends the one in use.
Target(p) == IF call[p].do = "grow" THEN Cur(p) ELSE New(p)
Busy(p) == call[p].do # "idle"
Runs(p) == proc[p].state = "RUNNING" /\ panic = ""

\* A process whose first page is gone cannot execute an instruction: the
\* fetch faults, trap() marks it killed and it exits.  (growproc() returns
\* without switchuvm() after it has freed them all, so this takes a processor
\* that has not kept their translations in its TLB; one that has runs the
\* process on until the next switch, which is not modelled.)
Faults(p) == Pte(0) \notin vm[Cur(p)] \/ 0 \in guard[Cur(p)]
Calls(p) == Runs(p) /\ ~Busy(p) /\ ~Faults(p)

-----------------------------------------------------------------------------
\* A faulty form for the mutants: a shrink forgets to store the new size.
ShrunkSizeKept(p, newsz) == proc[p].sz

\* growproc()'s sz after deallocuvm(): a shrink to 0 frees every page but,
\* as the result is 0, reports failure and leaves sz alone.
ShrunkSize(p, newsz) == IF newsz = 0 THEN proc[p].sz ELSE newsz

\* sys_sbrk() and growproc() up to the first kalloc().  A decrement below
\* zero wraps, and deallocuvm() then does nothing.  init.c never calls sbrk().
sys_sbrk(p) ==
    /\ Calls(p)
    /\ p # initproc
    /\ \E n \in Sbrks :
         LET sz == proc[p].sz
             newsz == (sz + n) % UINT
         IN  \/ /\ n > 0
                /\ newsz < KERNBASE
                /\ newsz >= sz
                /\ call' = [call EXCEPT ![p] = [do |-> "grow", a |-> PGROUNDUP(sz), to |-> newsz]]
                /\ UNCHANGED <<free, proc, vm, guard, panic>>
             \/ /\ n < 0
                /\ newsz < sz
                /\ vm' = [vm EXCEPT ![Cur(p)] = deallocuvm(@, sz, newsz)]
                /\ free' = kfree(Cardinality(vm[Cur(p)] \ vm'[Cur(p)]))
                /\ guard' = [guard EXCEPT ![Cur(p)] = {v \in @ : Pte(v) \in vm'[Cur(p)]}]
                /\ proc' = [proc EXCEPT ![p].sz = ShrunkSize(p, newsz)]
                /\ UNCHANGED <<call, panic>>

\* fork() and allocproc(): the first UNUSED slot and a kernel stack for it.
fork(p) ==
    /\ Calls(p)
    /\ free > 0
    /\ free' = free - 1
    /\ \E np \in Procs :
         /\ proc[np].state = "UNUSED"
         /\ \A q \in 1 .. (np - 1) : proc[q].state # "UNUSED"
         /\ proc' = [proc EXCEPT ![np].state = "EMBRYO", ![np].kstack = 1]
         /\ call' = [call EXCEPT ![p] = [do |-> "fork", np |-> np, a |-> 0, to |-> proc[p].sz]]
    /\ UNCHANGED <<vm, guard, panic>>

\* exec() up to setupkvm(); the segments still to load and the arguments.
exec(p) ==
    /\ Calls(p)
    /\ \E segs \in Programs, argv \in Argvs :
         call' = [call EXCEPT ![p] = [do |-> "exec", at |-> "header", segs |-> segs,
                                      argv |-> argv, a |-> 0, to |-> 0]]
    /\ UNCHANGED <<free, proc, vm, guard, panic>>

\* The call still needs a page: a table to begin with, or a page below "to".
Needs(p) ==
    ~({<<"dir", 0>>, <<"ktab", 0>>} \subseteq vm[Target(p)]) \/ call[p].a < call[p].to

-----------------------------------------------------------------------------
\* What the error paths give back.  growproc(): the pages allocuvm() added
\* and the one in hand.  exec() and fork(): the whole new table by freevm(),
\* and the page in hand.
UndoGrow(p) == deallocuvm(vm[Cur(p)], call[p].to, proc[p].sz) \ {Mem}

bad(p) ==
    LET t == IF call[p].do = "grow" THEN UndoGrow(p) ELSE {}
        kstack == IF call[p].do = "fork" THEN 1 ELSE 0
    IN  /\ vm' = [vm EXCEPT ![Target(p)] = t]
        /\ guard' = [guard EXCEPT ![New(p)] = {}]
        /\ free' = kfree(Cardinality(vm[Target(p)] \ t) + kstack)
        /\ proc' = IF call[p].do = "fork"
                   THEN [proc EXCEPT ![call[p].np].state = "UNUSED", ![call[p].np].kstack = 0]
                   ELSE proc
        /\ call' = [call EXCEPT ![p] = Idle]
        /\ UNCHANGED panic

\* The kalloc() of setupkvm(), walkpgdir(), allocuvm() or copyuvm() returns 0.
kalloc_fails(p) ==
    /\ Runs(p)
    /\ Busy(p)
    /\ Needs(p)
    /\ free = 0
    /\ bad(p)

\* The flags copyuvm() copies with the page at a: whether PTE_U is absent.
Flags(p, a) == IF call[p].do = "fork" THEN guard[Cur(p)] \cap {a \div PGSIZE} ELSE {}

\* What is wrong with mapping the page at a, if anything: copyuvm() finds
\* no page in the parent, mappages() finds one already there.
MapPanic(p, a) ==
    IF call[p].do = "fork" /\ Pte(a \div PGSIZE) \notin vm[Cur(p)]
    THEN "copyuvm: page not present"
    ELSE IF Pte(a \div PGSIZE) \in vm[Target(p)] THEN "remap" ELSE ""

\* That kalloc() succeeds; a page that can now be mapped is, and the loop
\* moves to the next.
kalloc(p) ==
    /\ Runs(p)
    /\ Busy(p)
    /\ Needs(p)
    /\ free > 0
    /\ free' = free - 1
    /\ LET d == Target(p)
           a == call[p].a
           t == vm[d] \cup {Wanted(vm[d], a)}
       IN  /\ IF CanMap(t, a)
              THEN /\ vm' = [vm EXCEPT ![d] = mappages(t, a)]
                   /\ call' = [call EXCEPT ![p].a = a + PGSIZE]
                   /\ guard' = [guard EXCEPT ![d] = @ \cup Flags(p, a)]
                   /\ panic' = MapPanic(p, a)
              ELSE /\ vm' = [vm EXCEPT ![d] = t]
                   /\ UNCHANGED <<call, guard, panic>>
    /\ UNCHANGED proc

-----------------------------------------------------------------------------
\* The end of growproc().
growproc(p) ==
    /\ Runs(p)
    /\ call[p].do = "grow"
    /\ ~Needs(p)
    /\ proc' = [proc EXCEPT ![p].sz = call[p].to]
    /\ call' = [call EXCEPT ![p] = Idle]
    /\ UNCHANGED <<free, vm, guard, panic>>

\* The end of fork(): the child gets the copy and is made runnable.
fork_done(p) ==
    LET np == call[p].np IN
    /\ Runs(p)
    /\ call[p].do = "fork"
    /\ ~Needs(p)
    /\ vm' = [vm EXCEPT ![Cur(np)] = vm[New(p)], ![New(p)] = {}]
    /\ guard' = [guard EXCEPT ![Cur(np)] = guard[New(p)], ![New(p)] = {}]
    /\ proc' = [proc EXCEPT ![np] = [@ EXCEPT !.state = "RUNNING", !.sz = proc[p].sz, !.parent = p]]
    /\ call' = [call EXCEPT ![p] = Idle]
    /\ UNCHANGED <<free, panic>>

\* exec()'s loop over the program headers.  A header that cannot be used,
\* or whose segment does not fit below KERNBASE, fails the call, and so does
\* an empty one at 0 while sz is still 0: allocuvm() returns 0.
SegFails(seg, sz) ==
    \/ seg.memsz < seg.filesz
    \/ (seg.vaddr + seg.memsz) % UINT < seg.vaddr
    \/ seg.vaddr + seg.memsz >= KERNBASE
    \/ sz = 0 /\ seg.vaddr + seg.memsz = 0

\* allocuvm() sets out from size sz for size newsz, and never shrinks it.
AllocTo(p, at, sz, newsz) ==
    /\ call' = [call EXCEPT ![p].at = at, ![p].a = PGROUNDUP(sz),
                            ![p].to = IF newsz < sz THEN sz ELSE newsz]
    /\ UNCHANGED <<free, proc, vm, guard, panic>>

exec_header(p) ==
    /\ Runs(p)
    /\ call[p].do = "exec"
    /\ ~Needs(p)
    /\ call[p].at = "header"
    /\ call[p].segs # <<>>
    /\ LET seg == Head(call[p].segs) IN
       IF SegFails(seg, call[p].to) THEN bad(p)
       ELSE AllocTo(p, "load", call[p].to, seg.vaddr + seg.memsz)

\* loaduvm() of the segment that now has its pages: its address must be
\* aligned and the file must have all its bytes.
exec_load(p) ==
    /\ Runs(p)
    /\ call[p].do = "exec"
    /\ ~Needs(p)
    /\ call[p].at = "load"
    /\ LET seg == Head(call[p].segs) IN
       IF seg.vaddr % PGSIZE # 0 \/ seg.short THEN bad(p)
       ELSE /\ call' = [call EXCEPT ![p].at = "header", ![p].segs = Tail(@)]
            /\ UNCHANGED <<free, proc, vm, guard, panic>>

\* Two more pages: the inaccessible one and the user stack.
exec_stack(p) ==
    LET sz == PGROUNDUP(call[p].to) IN
    /\ Runs(p)
    /\ call[p].do = "exec"
    /\ ~Needs(p)
    /\ call[p].at = "header"
    /\ call[p].segs = <<>>
    /\ IF sz + 2 * PGSIZE >= KERNBASE THEN bad(p)
       ELSE AllocTo(p, "args", sz, sz + 2 * PGSIZE)

\* The bytes the arguments and ustack take below sz.
StackBytes(argv) ==
    FoldFunction(LAMBDA n, b : b + ((n + 4) \div 4) * 4, 0, argv) + (4 + Len(argv)) * 4

\* copyout() fails when it meets the page without PTE_U below the stack page.
\* (An argument longer than the new image takes sp below 0, to addresses of
\* the kernel, where it fails as well; one of more than 32 MB, to addresses
\* that have no page table, for which uva2ka() has no test.  Arguments here
\* are shorter.)
copyout_fails(argv) == StackBytes(argv) > PGSIZE

clearpteu(sz) == {(sz - 2 * PGSIZE) \div PGSIZE}

\* A faulty form for the mutants: the old page table is not freed.
OldPagesKept(p) == 0

\* freevm(oldpgdir).
OldPages(p) == Cardinality(vm[Cur(p)])

\* The arguments are pushed, and the new image replaces the old one.
exec_commit(p) ==
    LET sz == call[p].to
        argv == call[p].argv
    IN  /\ Runs(p)
        /\ call[p].do = "exec"
        /\ ~Needs(p)
        /\ call[p].at = "args"
        /\ IF Len(argv) > MAXARG \/ copyout_fails(argv) THEN bad(p)
           ELSE /\ vm' = [vm EXCEPT ![Cur(p)] = vm[New(p)], ![New(p)] = {}]
                /\ guard' = [guard EXCEPT ![Cur(p)] = clearpteu(sz)]
                /\ free' = kfree(OldPages(p))
                /\ proc' = [proc EXCEPT ![p].sz = sz]
                /\ call' = [call EXCEPT ![p] = Idle]
                /\ UNCHANGED panic

-----------------------------------------------------------------------------
\* exit(), by the program or because it faulted: the memory stays until the
\* parent's wait(); children pass to initproc.
exit(p) ==
    /\ Runs(p)
    /\ p # initproc
    /\ ~Busy(p)
    /\ proc' = [q \in Procs |-> IF q = p THEN [proc[q] EXCEPT !.state = "ZOMBIE"]
                                ELSE IF proc[q].parent = p THEN [proc[q] EXCEPT !.parent = initproc]
                                ELSE proc[q]]
    /\ UNCHANGED <<free, vm, guard, call, panic>>

\* wait() finds a zombie child: kernel stack and address space are freed.
wait(p) ==
    /\ Calls(p)
    /\ \E c \in Procs :
         /\ proc[c].parent = p
         /\ proc[c].state = "ZOMBIE"
         /\ free' = kfree(proc[c].kstack + Cardinality(vm[Cur(c)]))
         /\ vm' = [vm EXCEPT ![Cur(c)] = {}]
         /\ guard' = [guard EXCEPT ![Cur(c)] = {}]
         /\ proc' = [proc EXCEPT ![c] = Unused]
    /\ UNCHANGED <<call, panic>>

\* userinit(): setupkvm() and inituvm() give initproc one page for initcode.
Init ==
    /\ proc = [p \in Procs |-> IF p = initproc
                               THEN [state |-> "RUNNING", kstack |-> 1, sz |-> PGSIZE, parent |-> NULL]
                               ELSE Unused]
    /\ vm = [d \in Dirs |-> IF d = Cur(initproc)
                            THEN {<<"dir", 0>>, <<"ktab", 0>>, <<"tab", 0>>, Pte(0)} ELSE {}]
    /\ free = NPAGES - 5
    /\ guard = [d \in Dirs |-> {}]
    /\ call = [p \in Procs |-> Idle]
    /\ panic = ""

Next ==
    \E p \in Procs :
        \/ sys_sbrk(p) \/ growproc(p)
        \/ fork(p) \/ fork_done(p)
        \/ exec(p) \/ exec_header(p) \/ exec_load(p) \/ exec_stack(p) \/ exec_commit(p)
        \/ kalloc(p) \/ kalloc_fails(p)
        \/ exit(p) \/ wait(p)

Spec == Init /\ [][Next]_vars

-----------------------------------------------------------------------------
\* The pointers that the system calls of p accept: argptr() for n bytes at
\* addr, fetchint() for an int, fetchstr() for a string with n bytes and its
\* 0.  An int n is less than half of UINT.
argptr(p, addr, n) == addr < proc[p].sz /\ (addr + n) % UINT <= proc[p].sz
fetchint(p, addr) == addr < proc[p].sz /\ (addr + 4) % UINT <= proc[p].sz
fetchstr(p, addr, n) == addr < proc[p].sz /\ addr + n < proc[p].sz

Mapped(p, first, last) ==
    \A v \in (first \div PGSIZE) .. (last \div PGSIZE) : Pte(v) \in vm[Cur(p)]

\* The pages in use, each once: those of the page tables, with the one in
\* hand, and the kernel stacks.
PageTables == UNION {{d} \X vm[d] : d \in Dirs}
Stacks == {p \in Procs : proc[p].kstack = 1}

\* With the free list, the pages in use make up all of memory.  So no error
\* path of sbrk(), fork() or exec() loses a page or frees one twice,
\* and no page table gets a page that another one still has.
PagesConserved == free + Cardinality(PageTables) + Cardinality(Stacks) = NPAGES

\* Between calls, the pages a process has are exactly those below sz, so
\* that fork()'s copyuvm() and the next mappages() never meet what they
\* panic about, whatever calls failed before.  The one exception is a
\* process that sbrk() left without any page, which faults.
SizeMapped ==
    /\ panic = ""
    /\ \A p \in Procs :
        (proc[p].state = "RUNNING" /\ call[p].do # "grow" /\ ~Faults(p)) =>
            \A v \in VPages : Pte(v) \in vm[Cur(p)] <=> v * PGSIZE < proc[p].sz

\* The kernel never faults on a pointer it has accepted: what argptr(),
\* fetchint() and fetchstr() let through by comparing it with sz is mapped,
\* whatever the process has grown, given back, copied or failed to get, and
\* no sum wraps around.
ArgumentsMapped ==
    \A p \in Procs : Calls(p) =>
        \A addr \in 0 .. (UINT - 1) :
            /\ fetchint(p, addr) => Mapped(p, addr, addr + 3)
            /\ \A n \in {0, 1, PGSIZE, UINT \div 2 - 1} :
                 /\ argptr(p, addr, n) => Mapped(p, addr, addr + n - 1)
                 /\ fetchstr(p, addr, n) => Mapped(p, addr, addr + n)

=============================================================================

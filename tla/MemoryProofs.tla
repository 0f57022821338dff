---------------------------- MODULE MemoryProofs ----------------------------
(***************************************************************************)
(* Proofs about Memory: page tables agree with sz, vm.c does not panic,    *)
(* the pointers that system calls accept are mapped, and no page is lost   *)
(* or freed twice.                                                         *)
(***************************************************************************)
EXTENDS Memory, Modular

Sizes == 0 .. (KERNBASE - 1)
Segment == [vaddr : Nat, memsz : Nat, filesz : Nat, short : BOOLEAN]

ProcType == [state : {"UNUSED", "EMBRYO", "RUNNING", "ZOMBIE"}, kstack : {0, 1},
             sz : Sizes, parent : Procs \cup {NULL}]
Grow == [do : {"grow"}, a : Nat, to : Sizes]
Fork == [do : {"fork"}, np : Procs, a : Nat, to : Sizes]
Exec == [do : {"exec"}, at : {"header", "load", "args"}, segs : Seq(Segment),
         argv : Argvs, a : Nat, to : Sizes]

(* A page table has the pages of the addresses below sz and no others.       *)
Exact(t, sz) == \A v \in VPages : Pte(v) \in t <=> v * PGSIZE < sz

Rooted(t) == <<"dir", 0>> \in t /\ <<"ktab", 0>> \in t

(* How far a call has come with the table t: it has the pages below a and    *)
(* stops at the first page not below to; a page in hand waits for the        *)
(* page-table page of a.                                                     *)
Built(t, a, to) ==
  /\ Exact(t, a)
  /\ a % PGSIZE = 0
  /\ a < to + PGSIZE
  /\ Mem \in t => Rooted(t) /\ a < to /\ Tab(a) \notin t

(* What a slot's entry pr of ptable, its call c, its page table cur and the  *)
(* table new that its call builds have to do with each other.                *)
AtRest(pr, c, cur, new) ==
  /\ c = Idle
  /\ new = {}
  /\ Mem \notin cur
  /\ pr.state \in {"UNUSED", "EMBRYO"} => cur = {}
  /\ pr.state = "RUNNING" => Rooted(cur) /\ (Exact(cur, pr.sz) \/ Pte(0) \notin cur)

Growing(pr, c, cur, new) ==
  /\ c \in Grow
  /\ pr.state = "RUNNING"
  /\ new = {}
  /\ Rooted(cur)
  /\ Built(cur, c.a, c.to)
  /\ pr.sz <= c.to /\ pr.sz <= c.a

Forking(pr, c, cur, new) ==
  /\ c \in Fork
  /\ pr.state = "RUNNING"
  /\ Mem \notin cur
  /\ Rooted(cur)
  /\ Exact(cur, pr.sz)
  /\ Built(new, c.a, c.to)
  /\ c.to = pr.sz

Execing(pr, c, cur, new) ==
  /\ c \in Exec
  /\ pr.state = "RUNNING"
  /\ Mem \notin cur
  /\ Rooted(cur)
  /\ Exact(cur, pr.sz)
  /\ Built(new, c.a, c.to)
  /\ c.at = "load" => c.segs # <<>>

Fits(pr, c, cur, new) ==
  /\ pr \in ProcType
  /\ pr.kstack = 1 <=> pr.state # "UNUSED"
  /\ cur \subseteq Slots /\ new \subseteq Slots
  /\ \/ AtRest(pr, c, cur, new)
     \/ Growing(pr, c, cur, new)
     \/ Forking(pr, c, cur, new)
     \/ Execing(pr, c, cur, new)

(* The child of a fork under way is an EMBRYO, and nobody else's.            *)
Children ==
  \A p \in Procs : call[p].do = "fork" =>
    /\ proc[call[p].np].state = "EMBRYO"
    /\ \A q \in Procs : call[q].do = "fork" /\ call[q].np = call[p].np => q = p

(* A page table is a finite set of slots (lemma SlotsFinite).                *)
TablesFinite == \A t \in SUBSET Slots : IsFiniteSet(t) /\ Cardinality(t) \in Nat

(* The inductive invariant.  guard plays no part in it.                      *)
MemoryInv ==
  /\ free \in Nat
  /\ panic = ""
  /\ proc = [p \in Procs |-> proc[p]]
  /\ call = [p \in Procs |-> call[p]]
  /\ vm = [d \in Dirs |-> vm[d]]
  /\ \A p \in Procs : Fits(proc[p], call[p], vm[Cur(p)], vm[New(p)])
  /\ Children

-----------------------------------------------------------------------------
(* The constants, as the arithmetic needs them.                              *)
LEMMA Constants ==
  /\ PGSIZE \in Nat \ {0} /\ KERNBASE \in Nat /\ KERNBASE % PGSIZE = 0
  /\ PGSIZE < KERNBASE
BY MemoryAssumption

(* Pages and their addresses are in the same order.                          *)
LEMMA PageOrder ==
  ASSUME NEW v \in Nat, NEW k \in Nat
  PROVE  v * PGSIZE < k * PGSIZE <=> v < k
<1>1. ASSUME NEW i \in Nat, NEW j \in Nat, i <= j PROVE i * PGSIZE <= j * PGSIZE
  <2>1. j - i \in Nat
    BY <1>1
  <2>2. (j - i) * PGSIZE >= 0
    BY <2>1, Constants
  <2>3. j * PGSIZE = i * PGSIZE + (j - i) * PGSIZE
    BY Constants
  <2>4. j * PGSIZE \in Int /\ i * PGSIZE \in Int /\ (j - i) * PGSIZE \in Int
    BY Constants
  <2> QED
    BY <2>2, <2>3, <2>4
<1>2. CASE v < k
  <2>1. v + 1 \in Nat /\ v + 1 <= k
    BY <1>2
  <2>2. (v + 1) * PGSIZE <= k * PGSIZE
    BY <1>1, <2>1, Zenon
  <2>3. (v + 1) * PGSIZE = v * PGSIZE + PGSIZE
    BY Constants
  <2>4. v * PGSIZE \in Int /\ k * PGSIZE \in Int
    BY Constants
  <2> QED
    BY <1>2, <2>2, <2>3, <2>4, Constants
<1>3. CASE k <= v
  <2>1. k * PGSIZE <= v * PGSIZE
    BY <1>1, <1>3, Zenon
  <2>4. v * PGSIZE \in Int /\ k * PGSIZE \in Int
    BY Constants
  <2> QED
    BY <1>3, <2>1, <2>4
<1> QED
  BY <1>2, <1>3

(* An aligned address is that of its page.                                   *)
LEMMA Aligned ==
  ASSUME NEW a \in Nat, a % PGSIZE = 0
  PROVE  a \div PGSIZE \in Nat /\ a = (a \div PGSIZE) * PGSIZE
<1>1. /\ a \div PGSIZE \in Nat
      /\ a = PGSIZE * (a \div PGSIZE) + (a % PGSIZE)
  BY Constants, Division, Zenon
<1> QED
  BY <1>1, Constants

(* An address of a page is aligned.                                          *)
LEMMA PageAligned ==
  ASSUME NEW k \in Nat
  PROVE  k * PGSIZE \in Nat /\ (k * PGSIZE) % PGSIZE = 0 /\ (k * PGSIZE) \div PGSIZE = k
<1> DEFINE x == k * PGSIZE
           q == x \div PGSIZE
           r == x % PGSIZE
<1>1. x \in Nat /\ x = PGSIZE * k + 0
  BY Constants
<1>2. r \in 0..(PGSIZE - 1) /\ q \in Nat /\ x = PGSIZE * q + r
  <2> HIDE DEF x
  <2> QED
    BY <1>1, Constants, Division, Zenon
<1>3. 0 \in 0..(PGSIZE - 1)
  BY Constants
<1> HIDE DEF x, q, r
<1>4. PGSIZE * q + r = PGSIZE * k + 0
  BY <1>1, <1>2, Zenon
<1>5. q = k /\ r = 0
  BY <1>2, <1>3, <1>4, Constants, Unique
<1> QED
  BY <1>1, <1>5, Zenon DEF q, r, x

(* PGROUNDUP gives the next aligned address.                                 *)
LEMMA Round ==
  ASSUME NEW sz \in Nat
  PROVE  /\ PGROUNDUP(sz) \in Nat /\ PGROUNDUP(sz) % PGSIZE = 0
         /\ sz <= PGROUNDUP(sz) /\ PGROUNDUP(sz) < sz + PGSIZE
<1> DEFINE x == sz + PGSIZE - 1
           q == x \div PGSIZE
           r == x % PGSIZE
<1>1. x \in Nat /\ x = sz + PGSIZE - 1
  BY Constants
<1>2. r \in 0..(PGSIZE - 1) /\ q \in Nat /\ x = PGSIZE * q + r
  <2> HIDE DEF x
  <2> QED
    BY <1>1, Constants, Division, Zenon
<1>3. PGROUNDUP(sz) = q * PGSIZE
  BY Zenon DEF PGROUNDUP
<1> HIDE DEF x, q, r
<1>4. q * PGSIZE = PGSIZE * q /\ q * PGSIZE \in Nat
  BY <1>2, Constants
<1>5. (q * PGSIZE) % PGSIZE = 0
  BY <1>2, PageAligned, Zenon
<1>6. sz <= q * PGSIZE /\ q * PGSIZE < sz + PGSIZE
  BY <1>1, <1>2, <1>4, Constants
<1> QED
  BY <1>3, <1>4, <1>5, <1>6, Zenon

(* Below an aligned address less than a page above sz there are the same     *)
(* pages as below sz.                                                        *)
LEMMA SameBelow ==
  ASSUME NEW a \in Nat, NEW sz \in Nat, a % PGSIZE = 0, sz <= a, a < sz + PGSIZE,
         NEW v \in Nat
  PROVE  v * PGSIZE < a <=> v * PGSIZE < sz
<1> DEFINE k == a \div PGSIZE
<1>1. k \in Nat /\ a = k * PGSIZE
  BY Aligned, Zenon
<1> HIDE DEF k
<1>2. v * PGSIZE \in Nat
  BY Constants
<1>3. ASSUME v * PGSIZE < a PROVE v * PGSIZE < sz
  <2>1. v < k
    BY <1>1, <1>3, PageOrder, Zenon
  <2>2. v + 1 \in Nat /\ ~(k < v + 1)
    BY <1>1, <2>1
  <2>3. ~(k * PGSIZE < (v + 1) * PGSIZE)
    BY <1>1, <2>2, PageOrder, Zenon
  <2>4. (v + 1) * PGSIZE = v * PGSIZE + PGSIZE
    BY Constants
  <2> QED
    BY <1>1, <1>2, <2>3, <2>4, Constants
<1> QED
  BY <1>2, <1>3

(* Two aligned addresses less than a page apart are the same.                *)
LEMMA SameAddress ==
  ASSUME NEW a \in Nat, NEW b \in Nat, a % PGSIZE = 0, b % PGSIZE = 0, NEW sz \in Nat,
         sz <= a, a < sz + PGSIZE, sz <= b, b < sz + PGSIZE
  PROVE  a = b
<1> DEFINE k == a \div PGSIZE
           l == b \div PGSIZE
<1>1. k \in Nat /\ a = k * PGSIZE /\ l \in Nat /\ b = l * PGSIZE
  BY Aligned, Zenon
<1> HIDE DEF k, l
<1>2. ~(a < b)
  <2>1. a < b <=> a < sz
    BY <1>1, SameBelow, Zenon
  <2> QED
    BY <2>1
<1>3. ~(b < a)
  <2>1. b < a <=> b < sz
    BY <1>1, SameBelow, Zenon
  <2> QED
    BY <2>1
<1> QED
  BY <1>2, <1>3

(* The page at an aligned address below KERNBASE, and the address after it.  *)
LEMMA NextPage ==
  ASSUME NEW a \in Nat, a % PGSIZE = 0
  PROVE  /\ (a + PGSIZE) % PGSIZE = 0
         /\ a < KERNBASE => a \div PGSIZE \in VPages
         /\ \A v \in VPages : v * PGSIZE < a + PGSIZE <=> v * PGSIZE < a \/ v = a \div PGSIZE
<1> DEFINE k == a \div PGSIZE
           n == KERNBASE \div PGSIZE
<1>1. k \in Nat /\ a = k * PGSIZE /\ n \in Nat /\ KERNBASE = n * PGSIZE
  BY Aligned, Constants, Zenon
<1> HIDE DEF k
<1>2. k + 1 \in Nat /\ (k + 1) * PGSIZE = a + PGSIZE
  BY <1>1, Constants
<1>3. (a + PGSIZE) % PGSIZE = 0
  BY <1>2, PageAligned
<1>4. VPages = 0..(n - 1)
  BY Zenon DEF VPages
<1> HIDE DEF n
<1>5. ASSUME a < KERNBASE PROVE k \in VPages
  <2>1. k < n
    BY <1>1, <1>5, PageOrder, Zenon
  <2> QED
    BY <1>1, <1>4, <2>1
<1>6. ASSUME NEW v \in VPages
      PROVE  v * PGSIZE < a + PGSIZE <=> v * PGSIZE < a \/ v = k
  <2>1. v \in Nat
    BY <1>1, <1>4
  <2>2. v * PGSIZE < (k + 1) * PGSIZE <=> v < k + 1
    BY <1>2, <2>1, PageOrder, Zenon
  <2>3. v * PGSIZE < k * PGSIZE <=> v < k
    BY <1>1, <2>1, PageOrder, Zenon
  <2>4. v < k + 1 <=> v < k \/ v = k
    BY <1>1, <2>1
  <2> QED
    BY <1>1, <1>2, <2>2, <2>3, <2>4, Zenon
<1> QED
  BY <1>3, <1>5, <1>6, Zenon DEF k

-----------------------------------------------------------------------------
(* Pages and slots are what they should be.                                  *)
LEMMA PagesAndSlots ==
  /\ \A v \in VPages : v \in Nat /\ Pte(v) \in Slots
  /\ 0 \in VPages
  /\ <<"dir", 0>> \in Slots /\ <<"ktab", 0>> \in Slots /\ Mem \in Slots
  /\ \A a \in Nat : a % PGSIZE = 0 /\ a < KERNBASE => Tab(a) \in Slots /\ Pte(a \div PGSIZE) \in Slots
<1>1. \A v \in VPages : v \in Nat
  BY Aligned, Constants DEF VPages
<1>2. \A v \in VPages : Pte(v) \in Slots
  BY Zenon DEF Pte, Slots
<1>3. 0 \in VPages
  <2>1. 0 \in Nat /\ 0 % PGSIZE = 0 /\ 0 < KERNBASE /\ 0 \div PGSIZE = 0
    BY Constants
  <2> QED
    BY <2>1, NextPage, Zenon
<1>4. <<"dir", 0>> \in Slots /\ <<"ktab", 0>> \in Slots /\ Mem \in Slots
  BY Zenon DEF Slots, Mem
<1>5. ASSUME NEW a \in Nat, a % PGSIZE = 0, a < KERNBASE
      PROVE  Tab(a) \in Slots /\ Pte(a \div PGSIZE) \in Slots
  <2>1. a \div PGSIZE \in VPages
    BY <1>5, NextPage, Zenon
  <2>2. Tab(a) \in Slots
    BY <2>1, Zenon DEF Tab, Slots
  <2> QED
    BY <1>2, <2>1, <2>2, Zenon
<1> QED
  BY <1>1, <1>2, <1>3, <1>4, <1>5, Zenon

(* setupkvm() comes first.                                                   *)
LEMMA WantedRoot ==
  ASSUME NEW t, NEW a, ~Rooted(t)
  PROVE  Wanted(t, a) \in {<<"dir", 0>>, <<"ktab", 0>>}
<1>1. CASE <<"dir", 0>> \notin t
  <2>1. Wanted(t, a) = <<"dir", 0>>
    BY <1>1, Zenon DEF Wanted
  <2> QED
    BY <2>1, Zenon
<1>2. CASE <<"dir", 0>> \in t /\ <<"ktab", 0>> \notin t
  <2>1. Wanted(t, a) = <<"ktab", 0>>
    BY <1>2, Zenon DEF Wanted
  <2> QED
    BY <2>1, Zenon
<1> QED
  BY <1>1, <1>2, Zenon DEF Rooted

(* The page of the next kalloc() goes to a slot that has none.               *)
LEMMA WantedFree ==
  ASSUME NEW t \in SUBSET Slots, NEW a \in Nat, NEW to \in Sizes, Built(t, a, to),
         ~Rooted(t) \/ a < to
  PROVE  Wanted(t, a) \in Slots \ t
<1>1. to \in Nat /\ to < KERNBASE
  BY Constants DEF Sizes
<1>2. CASE ~Rooted(t)
  BY <1>2, PagesAndSlots, Zenon DEF Wanted, Rooted
<1>3. CASE Rooted(t) /\ Mem \notin t
  BY <1>3, PagesAndSlots, Zenon DEF Wanted, Rooted
<1>4. CASE Rooted(t) /\ Mem \in t
  <2>1. Wanted(t, a) = Tab(a)
    BY <1>4, Zenon DEF Wanted, Rooted
  <2>2. Tab(a) \notin t /\ a < KERNBASE /\ a % PGSIZE = 0
    BY <1>1, <1>4, Constants DEF Built
  <2> QED
    BY <2>1, <2>2, PagesAndSlots, Zenon
<1> QED
  BY <1>2, <1>3, <1>4, Zenon

(* A page that cannot be mapped yet: the table is built as far as before.    *)
LEMMA NotMapped ==
  ASSUME NEW t \in SUBSET Slots, NEW a \in Nat, NEW to \in Sizes, Built(t, a, to),
         ~Rooted(t) \/ a < to, ~CanMap(t \cup {Wanted(t, a)}, a)
  PROVE  Built(t \cup {Wanted(t, a)}, a, to)
<1> DEFINE w == Wanted(t, a)
           u == t \cup {w}
<1>1. CASE ~Rooted(t)
  <2>1. w \in {<<"dir", 0>>, <<"ktab", 0>>}
    BY <1>1, WantedRoot, Zenon
  <2>2. \A v \in VPages : Pte(v) \in u <=> Pte(v) \in t
    BY <2>1 DEF Pte
  <2>3. Mem \notin u
    BY <1>1, <2>1 DEF Built, Mem
  <2> QED
    BY <2>2, <2>3, Zenon DEF Built, Exact
<1>2. CASE Rooted(t) /\ Mem \notin t
  <2>1. w = Mem
    BY <1>2, Zenon DEF Wanted, Rooted
  <2>2. \A v \in VPages : Pte(v) \in u <=> Pte(v) \in t
    BY <2>1 DEF Pte, Mem
  <2>3. Tab(a) \notin u
    BY <2>1, Zenon DEF CanMap
  <2>4. Rooted(u)
    BY <1>2, Zenon DEF Rooted
  <2> QED
    BY <1>2, <2>2, <2>3, <2>4, Zenon DEF Built, Exact
<1>3. CASE Rooted(t) /\ Mem \in t
  BY <1>3, Zenon DEF Wanted, Rooted, CanMap
<1> QED
  BY <1>1, <1>2, <1>3, Zenon

(* A page that can be mapped: mappages() finds no page there, and the table  *)
(* has one page more.                                                        *)
LEMMA MappedOne ==
  ASSUME NEW t \in SUBSET Slots, NEW a \in Nat, NEW to \in Sizes, Built(t, a, to),
         ~Rooted(t) \/ a < to, CanMap(t \cup {Wanted(t, a)}, a)
  PROVE  /\ Rooted(t) /\ a < to
         /\ a \div PGSIZE \in VPages
         /\ Pte(a \div PGSIZE) \notin t
         /\ Pte(a \div PGSIZE) \notin t \cup {Wanted(t, a)}
         /\ mappages(t \cup {Wanted(t, a)}, a) \subseteq Slots
         /\ Rooted(mappages(t \cup {Wanted(t, a)}, a))
         /\ Built(mappages(t \cup {Wanted(t, a)}, a), a + PGSIZE, to)
<1> DEFINE w == Wanted(t, a)
           u == t \cup {w}
           m == mappages(u, a)
           k == a \div PGSIZE
<1>1. to \in Nat /\ to < KERNBASE
  BY Constants DEF Sizes
<1>2. Rooted(t)
  <2> SUFFICES ASSUME ~Rooted(t) PROVE FALSE
    BY Zenon
  <2>1. w \in {<<"dir", 0>>, <<"ktab", 0>>}
    BY WantedRoot, Zenon
  <2>2. Mem \notin u
    BY <2>1 DEF Built, Mem
  <2> QED
    BY <2>2, Zenon DEF CanMap
<1>3. a < to
  BY <1>2, Zenon
<1>4. a % PGSIZE = 0 /\ a < KERNBASE
  BY <1>1, <1>3, Constants DEF Built
<1>5. k \in VPages /\ k * PGSIZE = a
  BY <1>4, NextPage, Aligned, Zenon
<1> HIDE DEF k
<1>6. Pte(k) \notin t
  <2>1. ~(k * PGSIZE < a)
    BY <1>5
  <2> QED
    BY <1>5, <2>1, Zenon DEF Built, Exact
<1>7. w \in {Mem, Tab(a)}
  BY <1>2, Zenon DEF Wanted, Rooted
<1>8. \A v : Pte(v) # w
  BY <1>7 DEF Pte, Mem, Tab
<1>9. m = (t \ {Mem}) \cup {Pte(k)} \cup ({w} \ {Mem})
  BY Zenon DEF mappages, k
<1> HIDE DEF m, w
<1>10. \A v \in VPages : Pte(v) \in m <=> Pte(v) \in t \/ v = k
  <2>1. \A v : Pte(v) # Mem
    BY Zenon DEF Pte, Mem
  <2>2. \A v : Pte(v) = Pte(k) <=> v = k
    BY Zenon DEF Pte
  <2> QED
    BY <1>8, <1>9, <2>1, <2>2
<1>11. Exact(m, a + PGSIZE)
  <2>1. \A v \in VPages : v * PGSIZE < a + PGSIZE <=> v * PGSIZE < a \/ v = k
    BY <1>4, NextPage, Zenon DEF k
  <2> QED
    BY <1>10, <2>1, Zenon DEF Built, Exact
<1>12. Mem \notin m
  BY <1>9, Zenon DEF Pte, Mem
<1>13. (a + PGSIZE) % PGSIZE = 0 /\ a + PGSIZE < to + PGSIZE
  BY <1>1, <1>3, <1>4, NextPage, Constants
<1>14. m \subseteq Slots
  BY <1>4, <1>5, <1>7, <1>9, PagesAndSlots, Zenon
<1>15. Rooted(m)
  BY <1>2, <1>9, Zenon DEF Rooted, Mem
<1>16. Built(m, a + PGSIZE, to)
  BY <1>11, <1>12, <1>13, Zenon DEF Built
<1>17. Pte(k) \notin u
  BY <1>6, <1>8, Zenon DEF w
<1> QED
  BY <1>2, <1>3, <1>5, <1>6, <1>14, <1>15, <1>16, <1>17, Zenon DEF m, w, k

-----------------------------------------------------------------------------
(* What a call is doing tells which part of Fits holds.                      *)
LEMMA Kinds ==
  ASSUME NEW pr, NEW c, NEW cur, NEW new, Fits(pr, c, cur, new)
  PROVE  /\ c.do = "idle" => AtRest(pr, c, cur, new)
         /\ c.do = "grow" => Growing(pr, c, cur, new)
         /\ c.do = "fork" => Forking(pr, c, cur, new)
         /\ c.do = "exec" => Execing(pr, c, cur, new)
         /\ c.do \in {"idle", "grow", "fork", "exec"}
         /\ pr.state # "RUNNING" => AtRest(pr, c, cur, new)
         /\ c.do # "idle" => c.a \in Nat /\ c.to \in Sizes
<1>1. CASE AtRest(pr, c, cur, new)
  BY <1>1, Zenon DEF AtRest, Idle
<1>2. CASE Growing(pr, c, cur, new)
  BY <1>2, Zenon DEF Growing, Grow
<1>3. CASE Forking(pr, c, cur, new)
  BY <1>3, Zenon DEF Forking, Fork
<1>4. CASE Execing(pr, c, cur, new)
  BY <1>4, Zenon DEF Execing, Exec
<1> QED
  BY <1>1, <1>2, <1>3, <1>4, Zenon DEF Fits

(* A page for sbrk().                                                        *)
LEMMA KallocGrow ==
  ASSUME NEW pr, NEW c, NEW cur, NEW new, Fits(pr, c, cur, new), c.do = "grow",
         ~Rooted(cur) \/ c.a < c.to
  PROVE  LET u == cur \cup {Wanted(cur, c.a)}
         IN  IF CanMap(u, c.a)
             THEN Fits(pr, [c EXCEPT !.a = c.a + PGSIZE], mappages(u, c.a), new)
             ELSE Fits(pr, c, u, new)
<1> DEFINE u == cur \cup {Wanted(cur, c.a)}
           m == mappages(u, c.a)
           d == [c EXCEPT !.a = c.a + PGSIZE]
<1>1. Growing(pr, c, cur, new)
  BY Kinds, Zenon
<1>2. c \in Grow /\ c.a \in Nat /\ c.to \in Sizes
  BY <1>1, Zenon DEF Growing, Grow
<1>3. cur \in SUBSET Slots /\ Built(cur, c.a, c.to)
  BY <1>1, Zenon DEF Fits, Growing
<1>4. CASE ~CanMap(u, c.a)
  <2>1. Built(u, c.a, c.to)
    BY <1>2, <1>3, <1>4, NotMapped, Zenon
  <2>2. u \subseteq Slots
    BY <1>2, <1>3, WantedFree
  <2>3. Rooted(u)
    BY <1>1, Zenon DEF Growing, Rooted
  <2> HIDE DEF u
  <2>4. Growing(pr, c, u, new)
    BY <1>1, <2>1, <2>3, Zenon DEF Growing
  <2>5. Fits(pr, c, u, new)
    BY <2>2, <2>4, Zenon DEF Fits
  <2> QED
    BY <1>4, <2>5, Zenon DEF u
<1>5. CASE CanMap(u, c.a)
  <2>1. m \subseteq Slots /\ Rooted(m) /\ Built(m, c.a + PGSIZE, c.to)
    BY <1>2, <1>3, <1>5, MappedOne, Zenon
  <2>2. d \in Grow /\ d.a = c.a + PGSIZE /\ d.to = c.to
    BY <1>2, Constants DEF Grow
  <2> HIDE DEF u, m, d
  <2>3. pr.sz \in Nat /\ pr.sz <= c.to /\ pr.sz <= d.a
    BY <1>1, <1>2, <2>2, Constants DEF Growing, Fits, ProcType, Sizes
  <2>4. Growing(pr, d, m, new)
    BY <1>1, <2>1, <2>2, <2>3, Zenon DEF Growing
  <2>5. Fits(pr, d, m, new)
    BY <2>1, <2>4, Zenon DEF Fits
  <2> QED
    BY <1>5, <2>5, Zenon DEF u, m, d
<1> QED
  BY <1>4, <1>5, Zenon

(* A page for the table that fork() or exec() builds.                        *)
LEMMA KallocNew ==
  ASSUME NEW pr, NEW c, NEW cur, NEW new, Fits(pr, c, cur, new), c.do \in {"fork", "exec"},
         ~Rooted(new) \/ c.a < c.to
  PROVE  LET u == new \cup {Wanted(new, c.a)}
         IN  IF CanMap(u, c.a)
             THEN Fits(pr, [c EXCEPT !.a = c.a + PGSIZE], cur, mappages(u, c.a))
             ELSE Fits(pr, c, cur, u)
<1> DEFINE u == new \cup {Wanted(new, c.a)}
           m == mappages(u, c.a)
           d == [c EXCEPT !.a = c.a + PGSIZE]
<1>1. Forking(pr, c, cur, new) \/ Execing(pr, c, cur, new)
  BY Kinds, Zenon
<1>2. c.a \in Nat /\ c.to \in Sizes
  BY <1>1, Zenon DEF Forking, Fork, Execing, Exec
<1>3. new \in SUBSET Slots /\ Built(new, c.a, c.to)
  BY <1>1, Zenon DEF Fits, Forking, Execing
<1>4. CASE ~CanMap(u, c.a)
  <2>1. Built(u, c.a, c.to)
    BY <1>2, <1>3, <1>4, NotMapped, Zenon
  <2>2. u \subseteq Slots
    BY <1>2, <1>3, WantedFree
  <2> HIDE DEF u
  <2>4. Forking(pr, c, cur, u) \/ Execing(pr, c, cur, u)
    BY <1>1, <2>1, Zenon DEF Forking, Execing
  <2>5. Fits(pr, c, cur, u)
    BY <2>2, <2>4, Zenon DEF Fits
  <2> QED
    BY <1>4, <2>5, Zenon DEF u
<1>5. CASE CanMap(u, c.a)
  <2>1. m \subseteq Slots /\ Rooted(m) /\ Built(m, c.a + PGSIZE, c.to)
    BY <1>2, <1>3, <1>5, MappedOne, Zenon
  <2>2. ASSUME Forking(pr, c, cur, new) PROVE Forking(pr, d, cur, m)
    <3>1. d \in Fork /\ d.a = c.a + PGSIZE /\ d.to = c.to
      BY <1>2, <2>2, Constants DEF Forking, Fork
    <3> HIDE DEF u, m, d
    <3> QED
      BY <2>1, <2>2, <3>1, Zenon DEF Forking
  <2>3. ASSUME Execing(pr, c, cur, new) PROVE Execing(pr, d, cur, m)
    <3>1. d \in Exec /\ d.a = c.a + PGSIZE /\ d.to = c.to /\ d.at = c.at /\ d.segs = c.segs
      BY <1>2, <2>3, Constants DEF Execing, Exec
    <3> HIDE DEF u, m, d
    <3> QED
      BY <2>1, <2>3, <3>1, Zenon DEF Execing
  <2> HIDE DEF u, m, d
  <2>5. Fits(pr, d, cur, m)
    BY <1>1, <2>1, <2>2, <2>3, Zenon DEF Fits
  <2> QED
    BY <1>5, <2>5, Zenon DEF u, m, d
<1> QED
  BY <1>4, <1>5, Zenon

-----------------------------------------------------------------------------
(* deallocuvm() takes a table that is exact for oldsz down to newsz, and     *)
(* leaves everything else in it.                                             *)
LEMMA Deallocated ==
  ASSUME NEW t \in SUBSET Slots, NEW a \in Nat, NEW oldsz \in Nat, NEW newsz \in Nat,
         Exact(t, a), a % PGSIZE = 0, a < oldsz + PGSIZE, PGROUNDUP(newsz) <= a
  PROVE  /\ Exact(deallocuvm(t, oldsz, newsz), newsz)
         /\ deallocuvm(t, oldsz, newsz) \subseteq t
         /\ \A s \in t : (\A v : s # Pte(v)) => s \in deallocuvm(t, oldsz, newsz)
<1> DEFINE r == PGROUNDUP(newsz)
           gone == {u \in VPages : r <= u * PGSIZE /\ u * PGSIZE < oldsz}
           rest == deallocuvm(t, oldsz, newsz)
<1>1. r \in Nat /\ r % PGSIZE = 0 /\ newsz <= r /\ r < newsz + PGSIZE
  BY Round, Zenon
<1>2. rest = t \ {Pte(v) : v \in gone}
  BY Zenon DEF deallocuvm
<1>3. PGROUNDUP(newsz) = r
  BY Zenon
<1> HIDE DEF r
<1>4. ASSUME NEW v \in VPages PROVE Pte(v) \in rest <=> v * PGSIZE < newsz
  <2>1. v \in Nat /\ v * PGSIZE \in Nat
    BY PagesAndSlots, Constants
  <2>2. v * PGSIZE < r <=> v * PGSIZE < newsz
    BY <1>1, <2>1, SameBelow, Zenon
  <2>3. Pte(v) \in t <=> v * PGSIZE < a
    BY Zenon DEF Exact
  <2>4. v * PGSIZE < a => v * PGSIZE < oldsz
    <3>1. CASE a < oldsz
      BY <2>1, <3>1
    <3>2. CASE oldsz <= a
      BY <2>1, <3>2, SameBelow, Zenon
    <3> QED
      BY <3>1, <3>2
  <2>5. Pte(v) \in rest <=> Pte(v) \in t /\ v \notin gone
    BY <1>2, Zenon DEF Pte
  <2>6. v \in gone <=> r <= v * PGSIZE /\ v * PGSIZE < oldsz
    BY Zenon
  <2> HIDE DEF gone, rest
  <2> QED
    BY <1>1, <1>3, <2>1, <2>2, <2>3, <2>4, <2>5, <2>6
<1>5. Exact(rest, newsz)
  BY <1>4, Zenon DEF Exact
<1>6. rest \subseteq t
  BY <1>2, Zenon
<1>7. \A s \in t : (\A v : s # Pte(v)) => s \in rest
  BY <1>2, Zenon
<1> HIDE DEF rest
<1> QED
  BY <1>5, <1>6, <1>7, Zenon DEF rest

(* The root of a table, its page-table pages and the page in hand are not    *)
(* user pages.                                                               *)
LEMMA NotPte ==
  \A v : <<"dir", 0>> # Pte(v) /\ <<"ktab", 0>> # Pte(v) /\ Mem # Pte(v)
BY Zenon DEF Pte, Mem

(* growproc()'s error path: the table is again as before the call.           *)
LEMMA BadGrow ==
  ASSUME NEW pr, NEW c, NEW cur, NEW new, Fits(pr, c, cur, new), c.do = "grow"
  PROVE  /\ Fits(pr, Idle, deallocuvm(cur, c.to, pr.sz) \ {Mem}, new)
         /\ deallocuvm(cur, c.to, pr.sz) \ {Mem} \subseteq cur
<1> DEFINE rest == deallocuvm(cur, c.to, pr.sz)
           t == rest \ {Mem}
<1>1. Growing(pr, c, cur, new) /\ pr \in ProcType /\ cur \in SUBSET Slots
  BY Kinds, Zenon DEF Fits
<1>2. c.a \in Nat /\ c.to \in Nat /\ pr.sz \in Nat
  BY <1>1, Constants DEF Growing, Grow, Sizes, ProcType
<1>3. Exact(cur, c.a) /\ c.a % PGSIZE = 0 /\ c.a < c.to + PGSIZE
  BY <1>1, Zenon DEF Growing, Built
<1>4. PGROUNDUP(pr.sz) <= c.a
  <2> DEFINE r == PGROUNDUP(pr.sz)
  <2>1. r \in Nat /\ r % PGSIZE = 0 /\ pr.sz <= r /\ r < pr.sz + PGSIZE
    BY <1>2, Round, Zenon
  <2> HIDE DEF r
  <2>2. c.a \div PGSIZE \in Nat /\ c.a = (c.a \div PGSIZE) * PGSIZE
    BY <1>2, <1>3, Aligned, Zenon
  <2>3. c.a < r <=> c.a < pr.sz
    BY <1>2, <2>1, <2>2, SameBelow
  <2>4. pr.sz <= c.a
    BY <1>1, Zenon DEF Growing
  <2> QED
    BY <1>2, <2>1, <2>3, <2>4 DEF r
<1>5. /\ Exact(rest, pr.sz) /\ rest \subseteq cur
      /\ \A s \in cur : (\A v : s # Pte(v)) => s \in rest
  BY <1>1, <1>2, <1>3, <1>4, Deallocated
<1> HIDE DEF rest
<1>6. Rooted(t)
  BY <1>1, <1>5, NotPte, Zenon DEF Growing, Rooted, Mem
<1>7. Exact(t, pr.sz)
  BY <1>5, NotPte, Zenon DEF Exact
<1>8. Mem \notin t /\ t \subseteq cur
  BY <1>5, Zenon
<1> HIDE DEF t
<1>9. AtRest(pr, Idle, t, new)
  BY <1>1, <1>6, <1>7, <1>8, Zenon DEF AtRest, Growing
<1>10. Fits(pr, Idle, t, new)
  BY <1>1, <1>8, <1>9, Zenon DEF Fits
<1> QED
  BY <1>8, <1>10, Zenon DEF t, rest

(* The error paths of fork() and exec(): the new table is gone.              *)
LEMMA BadNew ==
  ASSUME NEW pr, NEW c, NEW cur, NEW new, Fits(pr, c, cur, new), c.do \in {"fork", "exec"}
  PROVE  Fits(pr, Idle, cur, {})
<1>1. Forking(pr, c, cur, new) \/ Execing(pr, c, cur, new)
  BY Kinds, Zenon
<1>2. AtRest(pr, Idle, cur, {})
  BY <1>1, Zenon DEF Forking, Execing, AtRest
<1> QED
  BY <1>2, Zenon DEF Fits

(* sbrk() of a positive number, up to the first kalloc().                    *)
LEMMA GrowStarts ==
  ASSUME NEW pr, NEW cur, NEW new, Fits(pr, Idle, cur, new), pr.state = "RUNNING",
         Pte(0) \in cur, NEW to \in Sizes, to >= pr.sz
  PROVE  Fits(pr, [do |-> "grow", a |-> PGROUNDUP(pr.sz), to |-> to], cur, new)
<1> DEFINE c == [do |-> "grow", a |-> PGROUNDUP(pr.sz), to |-> to]
           r == PGROUNDUP(pr.sz)
<1>1. AtRest(pr, Idle, cur, new) /\ pr \in ProcType
  BY Kinds, Zenon DEF Fits, Idle
<1>2. pr.sz \in Nat /\ to \in Nat
  BY <1>1, Constants DEF Sizes, ProcType
<1>3. r \in Nat /\ r % PGSIZE = 0 /\ pr.sz <= r /\ r < pr.sz + PGSIZE
  BY <1>2, Round, Zenon
<1>4. c \in Grow /\ c.a = r /\ c.to = to
  BY <1>3, Zenon DEF Grow
<1> HIDE DEF c, r
<1>5. Exact(cur, pr.sz)
  BY <1>1, Zenon DEF AtRest
<1>6. Exact(cur, r)
  <2>1. \A v \in VPages : v * PGSIZE < r <=> v * PGSIZE < pr.sz
    BY <1>2, <1>3, SameBelow, PagesAndSlots, Zenon
  <2> QED
    BY <1>5, <2>1, Zenon DEF Exact
<1>7. r < to + PGSIZE
  BY <1>2, <1>3, Constants
<1>8. Built(cur, r, to)
  BY <1>1, <1>3, <1>6, <1>7, Zenon DEF Built, AtRest
<1>9. Growing(pr, c, cur, new)
  BY <1>1, <1>3, <1>4, <1>8, Zenon DEF Growing, AtRest
<1>10. Fits(pr, c, cur, new)
  BY <1>9, Zenon DEF Fits
<1> QED
  BY <1>10, Zenon DEF c, r

(* sbrk() of a negative number: the pages above newsz go, and all of them    *)
(* when newsz is 0.                                                          *)
LEMMA Shrinks ==
  ASSUME NEW pr, NEW cur, NEW new, Fits(pr, Idle, cur, new), pr.state = "RUNNING",
         Pte(0) \in cur, NEW newsz \in Nat, newsz < pr.sz
  PROVE  LET t == deallocuvm(cur, pr.sz, newsz)
         IN  /\ Fits([pr EXCEPT !.sz = IF newsz = 0 THEN pr.sz ELSE newsz], Idle, t, new)
             /\ t \subseteq cur
<1> DEFINE t == deallocuvm(cur, pr.sz, newsz)
           n == IF newsz = 0 THEN pr.sz ELSE newsz
           q == [pr EXCEPT !.sz = n]
           a == PGROUNDUP(pr.sz)
<1>1. AtRest(pr, Idle, cur, new) /\ pr \in ProcType /\ cur \in SUBSET Slots
  BY Kinds, Zenon DEF Fits, Idle
<1>2. pr.sz \in Nat /\ pr.sz < KERNBASE
  BY <1>1, Constants DEF Sizes, ProcType
<1>3. a \in Nat /\ a % PGSIZE = 0 /\ pr.sz <= a /\ a < pr.sz + PGSIZE
  BY <1>2, Round, Zenon
<1> HIDE DEF a
<1>4. Exact(cur, a)
  <2>1. \A v \in VPages : v * PGSIZE < a <=> v * PGSIZE < pr.sz
    BY <1>2, <1>3, SameBelow, PagesAndSlots, Zenon
  <2>2. Exact(cur, pr.sz)
    BY <1>1, Zenon DEF AtRest
  <2> QED
    BY <2>1, <2>2, Zenon DEF Exact
<1>5. PGROUNDUP(newsz) <= a
  <2> DEFINE r == PGROUNDUP(newsz)
  <2>1. r \in Nat /\ r % PGSIZE = 0 /\ newsz <= r /\ r < newsz + PGSIZE
    BY Round, Zenon
  <2>2. a \div PGSIZE \in Nat /\ a = (a \div PGSIZE) * PGSIZE
    BY <1>3, Aligned, Zenon
  <2> HIDE DEF r
  <2>3. a < r <=> a < newsz
    BY <2>1, <2>2, SameBelow
  <2> QED
    BY <1>2, <1>3, <2>1, <2>3 DEF r
<1>6. /\ Exact(t, newsz) /\ t \subseteq cur
      /\ \A s \in cur : (\A v : s # Pte(v)) => s \in t
  BY <1>1, <1>2, <1>3, <1>4, <1>5, Deallocated, Zenon
<1>7. q \in ProcType /\ q.state = pr.state /\ q.kstack = pr.kstack /\ q.sz = n
  <2>1. n \in Sizes
    BY <1>2, Constants DEF Sizes
  <2> HIDE DEF n
  <2> QED
    BY <1>1, <2>1, Zenon DEF ProcType
<1> HIDE DEF t, q, n
<1>8. Rooted(t) /\ Mem \notin t
  BY <1>1, <1>6, NotPte, Zenon DEF AtRest, Rooted
<1>9. Exact(t, n) \/ Pte(0) \notin t
  <2>1. CASE newsz = 0
    <3>1. ~(0 * PGSIZE < newsz)
      BY <2>1, Constants
    <3> QED
      BY <1>6, <3>1, PagesAndSlots, Zenon DEF Exact
  <2>2. CASE newsz # 0
    BY <1>6, <2>2, Zenon DEF n
  <2> QED
    BY <2>1, <2>2, Zenon
<1>10. AtRest(q, Idle, t, new)
  BY <1>1, <1>7, <1>8, <1>9, Zenon DEF AtRest
<1>11. Fits(q, Idle, t, new)
  BY <1>1, <1>6, <1>7, <1>10, Zenon DEF Fits
<1> QED
  BY <1>6, <1>11, Zenon DEF t, q, n

-----------------------------------------------------------------------------
(* A table without pages is the beginning of any table.                      *)
LEMMA NothingBuilt ==
  ASSUME NEW to \in Sizes
  PROVE  Built({}, 0, to)
<1>1. \A v \in VPages : ~(v * PGSIZE < 0)
  BY PagesAndSlots, Constants
<1>2. 0 % PGSIZE = 0 /\ 0 < to + PGSIZE
  BY Constants DEF Sizes
<1> QED
  BY <1>1, <1>2, Zenon DEF Built, Exact

(* fork(), up to the first kalloc() of copyuvm().                            *)
LEMMA ForkStarts ==
  ASSUME NEW pr, NEW cur, NEW new, Fits(pr, Idle, cur, new), pr.state = "RUNNING",
         Pte(0) \in cur, NEW np \in Procs
  PROVE  Fits(pr, [do |-> "fork", np |-> np, a |-> 0, to |-> pr.sz], cur, new)
<1> DEFINE c == [do |-> "fork", np |-> np, a |-> 0, to |-> pr.sz]
<1>1. AtRest(pr, Idle, cur, new) /\ pr \in ProcType
  BY Kinds, Zenon DEF Fits, Idle
<1>2. pr.sz \in Sizes
  BY <1>1, Zenon DEF ProcType
<1>3. c \in Fork /\ c.a = 0 /\ c.to = pr.sz
  BY <1>2, Zenon DEF Fork
<1> HIDE DEF c
<1>4. Forking(pr, c, cur, new)
  BY <1>1, <1>2, <1>3, NothingBuilt, Zenon DEF Forking, AtRest
<1>5. Fits(pr, c, cur, new)
  BY <1>4, Zenon DEF Fits
<1> QED
  BY <1>5, Zenon DEF c

(* exec(), up to setupkvm().                                                 *)
LEMMA ExecStarts ==
  ASSUME NEW pr, NEW cur, NEW new, Fits(pr, Idle, cur, new), pr.state = "RUNNING",
         Pte(0) \in cur, NEW segs \in Programs, NEW argv \in Argvs
  PROVE  Fits(pr, [do |-> "exec", at |-> "header", segs |-> segs, argv |-> argv,
                   a |-> 0, to |-> 0], cur, new)
<1> DEFINE c == [do |-> "exec", at |-> "header", segs |-> segs, argv |-> argv,
                 a |-> 0, to |-> 0]
<1>1. AtRest(pr, Idle, cur, new) /\ pr \in ProcType
  BY Kinds, Zenon DEF Fits, Idle
<1>2. 0 \in Sizes /\ segs \in Seq(Segment)
  BY Constants, MemoryAssumption DEF Sizes, Segment
<1>3. c \in Exec /\ c.a = 0 /\ c.to = 0 /\ c.at = "header"
  BY <1>2, Zenon DEF Exec
<1> HIDE DEF c
<1>4. Execing(pr, c, cur, new)
  BY <1>1, <1>2, <1>3, NothingBuilt, Zenon DEF Execing, AtRest
<1>5. Fits(pr, c, cur, new)
  BY <1>4, Zenon DEF Fits
<1> QED
  BY <1>5, Zenon DEF c

(* A table that is built has the pages below its size and none in hand.      *)
LEMMA BuiltExact ==
  ASSUME NEW t, NEW a \in Nat, NEW to \in Sizes, Built(t, a, to), ~(a < to)
  PROVE  Exact(t, to) /\ Mem \notin t /\ a = PGROUNDUP(to)
<1>1. to \in Nat
  BY Constants DEF Sizes
<1>2. a % PGSIZE = 0 /\ to <= a /\ a < to + PGSIZE
  BY <1>1 DEF Built
<1>3. Exact(t, to)
  <2>1. \A v \in VPages : v * PGSIZE < a <=> v * PGSIZE < to
    BY <1>1, <1>2, SameBelow, PagesAndSlots, Zenon
  <2> QED
    BY <2>1, Zenon DEF Built, Exact
<1>4. a = PGROUNDUP(to)
  <2> DEFINE r == PGROUNDUP(to)
  <2>1. r \in Nat /\ r % PGSIZE = 0 /\ to <= r /\ r < to + PGSIZE
    BY <1>1, Round, Zenon
  <2> HIDE DEF r
  <2>2. a = r
    BY <1>1, <1>2, <2>1, SameAddress, Zenon
  <2> QED
    BY <2>2, Zenon DEF r
<1> QED
  BY <1>3, <1>4, Zenon DEF Built

(* The end of growproc().                                                    *)
LEMMA GrowEnds ==
  ASSUME NEW pr, NEW c, NEW cur, NEW new, Fits(pr, c, cur, new), c.do = "grow",
         ~(c.a < c.to)
  PROVE  Fits([pr EXCEPT !.sz = c.to], Idle, cur, new)
<1> DEFINE q == [pr EXCEPT !.sz = c.to]
<1>1. Growing(pr, c, cur, new) /\ pr \in ProcType /\ c.a \in Nat /\ c.to \in Sizes
  BY Kinds, Zenon DEF Fits
<1>2. Exact(cur, c.to) /\ Mem \notin cur
  BY <1>1, BuiltExact, Zenon DEF Growing
<1>3. q \in ProcType /\ q.sz = c.to /\ q.state = pr.state /\ q.kstack = pr.kstack
  BY <1>1, Zenon DEF ProcType
<1> HIDE DEF q
<1>4. AtRest(q, Idle, cur, new)
  BY <1>1, <1>2, <1>3, Zenon DEF AtRest, Growing
<1>5. Fits(q, Idle, cur, new)
  BY <1>3, <1>4, Zenon DEF Fits
<1> QED
  BY <1>5, Zenon DEF q

(* The end of fork(): the child has a copy of its parent's memory.           *)
LEMMA ForkEnds ==
  ASSUME NEW pr, NEW c, NEW cur, NEW new, Fits(pr, c, cur, new), c.do = "fork",
         Rooted(new), ~(c.a < c.to), NEW p \in Procs,
         NEW pc, NEW cc, NEW ccur, NEW cnew, Fits(pc, cc, ccur, cnew), pc.state = "EMBRYO"
  PROVE  /\ cc = Idle /\ ccur = {} /\ cnew = {}
         /\ Fits([pc EXCEPT !.state = "RUNNING", !.sz = pr.sz, !.parent = p], Idle, new, {})
<1> DEFINE q == [pc EXCEPT !.state = "RUNNING", !.sz = pr.sz, !.parent = p]
<1>1. Forking(pr, c, cur, new) /\ pr \in ProcType /\ c.a \in Nat /\ c.to \in Sizes
  BY Kinds, Zenon DEF Fits
<1>2. Exact(new, c.to) /\ Mem \notin new /\ c.to = pr.sz
  BY <1>1, BuiltExact, Zenon DEF Forking
<1>3. AtRest(pc, cc, ccur, cnew) /\ pc \in ProcType /\ pc.kstack = 1
  BY Kinds, Zenon DEF Fits
<1>4. q \in ProcType /\ q.sz = pr.sz /\ q.state = "RUNNING" /\ q.kstack = 1
  BY <1>1, <1>3, Zenon DEF ProcType
<1>5. cc = Idle /\ ccur = {} /\ cnew = {}
  BY <1>3, Zenon DEF AtRest
<1> HIDE DEF q
<1>6. AtRest(q, Idle, new, {})
  BY <1>2, <1>4, Zenon DEF AtRest
<1>7. Fits(q, Idle, new, {})
  BY <1>4, <1>6, Zenon DEF Fits
<1> QED
  BY <1>5, <1>7, Zenon DEF q

(* allocuvm() goes on from the size reached to a new one below KERNBASE.     *)
LEMMA AllocNext ==
  ASSUME NEW pr, NEW c, NEW cur, NEW new, Fits(pr, c, cur, new), c.do = "exec",
         ~(c.a < c.to), NEW at \in {"load", "args"}, at = "load" => c.segs # <<>>,
         NEW sz \in Nat, NEW newsz \in Nat, newsz < KERNBASE,
         c.to <= sz, sz <= PGROUNDUP(c.to), newsz < sz => sz = c.to
  PROVE  Fits(pr, [c EXCEPT !.at = at, !.a = PGROUNDUP(sz), !.to = IF newsz < sz THEN sz ELSE newsz],
              cur, new)
<1> DEFINE to == IF newsz < sz THEN sz ELSE newsz
           r == PGROUNDUP(sz)
           d == [c EXCEPT !.at = at, !.a = r, !.to = to]
<1>1. Execing(pr, c, cur, new) /\ c.a \in Nat /\ c.to \in Sizes /\ c.to \in Nat
  BY Kinds, Constants DEF Fits, Sizes
<1>2. Built(new, c.a, c.to) /\ c.a = PGROUNDUP(c.to) /\ Mem \notin new
  BY <1>1, BuiltExact, Zenon DEF Execing
<1>3. c.a % PGSIZE = 0 /\ c.a < c.to + PGSIZE /\ Exact(new, c.a)
  BY <1>2, Zenon DEF Built
<1>4. r \in Nat /\ r % PGSIZE = 0 /\ sz <= r /\ r < sz + PGSIZE
  BY Round, Zenon
<1>5. to \in Sizes /\ to \in Nat /\ sz <= to
  BY <1>1, Constants DEF Sizes
<1> HIDE DEF r, to
<1>6. c.a = r
  <2>1. sz <= c.a /\ c.a < sz + PGSIZE
    BY <1>1, <1>2, <1>3, Constants
  <2> QED
    BY <1>1, <1>3, <1>4, <2>1, SameAddress, Zenon
<1>7. c.a < to + PGSIZE
  BY <1>4, <1>5, <1>6, Constants
<1>8. Built(new, c.a, to)
  BY <1>2, <1>3, <1>7, Zenon DEF Built
<1>9. d \in Exec /\ d.a = c.a /\ d.to = to /\ d.at = at /\ d.segs = c.segs
  BY <1>1, <1>4, <1>5, <1>6, Zenon DEF Execing, Exec
<1> HIDE DEF d
<1>10. Execing(pr, d, cur, new)
  BY <1>1, <1>8, <1>9, Zenon DEF Execing
<1>11. Fits(pr, d, cur, new)
  BY <1>10, Zenon DEF Fits
<1> QED
  BY <1>11, Zenon DEF d, r, to

(* exec() goes on to the next program header.                                *)
LEMMA LoadEnds ==
  ASSUME NEW pr, NEW c, NEW cur, NEW new, Fits(pr, c, cur, new), c.do = "exec", c.at = "load"
  PROVE  Fits(pr, [c EXCEPT !.at = "header", !.segs = Tail(c.segs)], cur, new)
<1> DEFINE d == [c EXCEPT !.at = "header", !.segs = Tail(c.segs)]
<1>1. Execing(pr, c, cur, new)
  BY Kinds, Zenon
<1>2. c.segs \in Seq(Segment) /\ c.segs # <<>>
  BY <1>1, Zenon DEF Execing, Exec
<1>3. Tail(c.segs) \in Seq(Segment)
  BY <1>2
<1>4. d \in Exec /\ d.a = c.a /\ d.to = c.to /\ d.at = "header"
  BY <1>1, <1>3, Zenon DEF Execing, Exec
<1> HIDE DEF d
<1>5. Execing(pr, d, cur, new)
  BY <1>1, <1>4, Zenon DEF Execing
<1>6. Fits(pr, d, cur, new)
  BY <1>5, Zenon DEF Fits
<1> QED
  BY <1>6, Zenon DEF d

(* The end of exec(): the new table replaces the old one.                    *)
LEMMA ExecEnds ==
  ASSUME NEW pr, NEW c, NEW cur, NEW new, Fits(pr, c, cur, new), c.do = "exec",
         Rooted(new), ~(c.a < c.to)
  PROVE  Fits([pr EXCEPT !.sz = c.to], Idle, new, {})
<1> DEFINE q == [pr EXCEPT !.sz = c.to]
<1>1. Execing(pr, c, cur, new) /\ pr \in ProcType /\ c.a \in Nat /\ c.to \in Sizes
  BY Kinds, Zenon DEF Fits
<1>2. Exact(new, c.to) /\ Mem \notin new
  BY <1>1, BuiltExact, Zenon DEF Execing
<1>3. q \in ProcType /\ q.sz = c.to /\ q.state = pr.state /\ q.kstack = pr.kstack
  BY <1>1, Zenon DEF ProcType
<1> HIDE DEF q
<1>4. AtRest(q, Idle, new, {})
  BY <1>1, <1>2, <1>3, Zenon DEF AtRest, Execing
<1>5. Fits(q, Idle, new, {})
  BY <1>3, <1>4, Zenon DEF Fits
<1> QED
  BY <1>5, Zenon DEF q

(* A slot is taken by allocproc() and given back by fork()'s error path.     *)
LEMMA Embryo ==
  ASSUME NEW pr, NEW c, NEW cur, NEW new, Fits(pr, c, cur, new)
  PROVE  /\ pr.state = "UNUSED" => Fits([pr EXCEPT !.state = "EMBRYO", !.kstack = 1], c, cur, new)
         /\ pr.state = "EMBRYO" => Fits([pr EXCEPT !.state = "UNUSED", !.kstack = 0], c, cur, new)
<1>1. ASSUME NEW s \in {"EMBRYO", "UNUSED"}, NEW k \in {0, 1}, k = 1 <=> s # "UNUSED",
             pr.state \in {"EMBRYO", "UNUSED"}
      PROVE  Fits([pr EXCEPT !.state = s, !.kstack = k], c, cur, new)
  <2> DEFINE q == [pr EXCEPT !.state = s, !.kstack = k]
  <2>1. AtRest(pr, c, cur, new) /\ pr \in ProcType
    BY <1>1, Kinds, Zenon DEF Fits
  <2>2. q \in ProcType /\ q.state = s /\ q.kstack = k
    BY <2>1, Zenon DEF ProcType
  <2> HIDE DEF q
  <2>3. AtRest(q, c, cur, new)
    BY <1>1, <2>1, <2>2, Zenon DEF AtRest
  <2>4. Fits(q, c, cur, new)
    BY <1>1, <2>2, <2>3, Zenon DEF Fits
  <2> QED
    BY <2>4, Zenon DEF q
<1> QED
  BY <1>1

(* exit() makes a zombie, or gives a slot another parent.                    *)
LEMMA Exits ==
  ASSUME NEW pr, NEW c, NEW cur, NEW new, Fits(pr, c, cur, new)
  PROVE  /\ c.do = "idle" /\ pr.state = "RUNNING" => Fits([pr EXCEPT !.state = "ZOMBIE"], c, cur, new)
         /\ Fits([pr EXCEPT !.parent = initproc], c, cur, new)
<1>1. ASSUME c.do = "idle", pr.state = "RUNNING"
      PROVE  Fits([pr EXCEPT !.state = "ZOMBIE"], c, cur, new)
  <2> DEFINE q == [pr EXCEPT !.state = "ZOMBIE"]
  <2>1. AtRest(pr, c, cur, new) /\ pr \in ProcType
    BY <1>1, Kinds, Zenon DEF Fits
  <2>2. q \in ProcType /\ q.state = "ZOMBIE" /\ q.kstack = pr.kstack
    BY <2>1, Zenon DEF ProcType
  <2> HIDE DEF q
  <2>3. AtRest(q, c, cur, new)
    BY <2>1, <2>2, Zenon DEF AtRest
  <2>4. Fits(q, c, cur, new)
    BY <1>1, <2>2, <2>3, Zenon DEF Fits
  <2> QED
    BY <2>4, Zenon DEF q
<1>2. Fits([pr EXCEPT !.parent = initproc], c, cur, new)
  <2> DEFINE q == [pr EXCEPT !.parent = initproc]
  <2>1. pr \in ProcType
    BY Zenon DEF Fits
  <2>2. q \in ProcType /\ q.state = pr.state /\ q.kstack = pr.kstack /\ q.sz = pr.sz
    BY <2>1, MemoryAssumption, Zenon DEF ProcType
  <2> HIDE DEF q
  <2>3. Fits(q, c, cur, new)
    BY <2>2, Zenon DEF Fits, AtRest, Growing, Forking, Execing
  <2> QED
    BY <2>3, Zenon DEF q
<1> QED
  BY <1>1, <1>2, Zenon

(* wait() empties the slot of a zombie.                                      *)
LEMMA Waits ==
  ASSUME NEW pr, NEW c, NEW cur, NEW new, Fits(pr, c, cur, new), pr.state = "ZOMBIE"
  PROVE  c = Idle /\ new = {} /\ pr.kstack = 1 /\ Fits(Unused, Idle, {}, {})
<1>1. AtRest(pr, c, cur, new) /\ pr.kstack = 1
  BY Kinds, Zenon DEF Fits
<1>2. Unused \in ProcType /\ Unused.state = "UNUSED" /\ Unused.kstack = 0
  BY Constants DEF Unused, ProcType, Sizes
<1>3. AtRest(Unused, Idle, {}, {})
  BY <1>2, Zenon DEF AtRest
<1>4. Fits(Unused, Idle, {}, {})
  BY <1>2, <1>3 DEF Fits
<1> QED
  BY <1>1, <1>4, Zenon DEF AtRest

-----------------------------------------------------------------------------
(* What it takes to show that a step preserves the invariant: the slots it   *)
(* leaves alone keep fitting.                                                *)
LEMMA Frame ==
  ASSUME MemoryInv, free' \in Nat, panic' = "",
         proc' = [p \in Procs |-> proc'[p]], call' = [p \in Procs |-> call'[p]],
         vm' = [d \in Dirs |-> vm'[d]],
         NEW S \in SUBSET Procs,
         \A q \in Procs \ S : /\ proc'[q] = proc[q] /\ call'[q] = call[q]
                              /\ vm'[Cur(q)] = vm[Cur(q)] /\ vm'[New(q)] = vm[New(q)],
         \A q \in S : Fits(proc'[q], call'[q], vm'[Cur(q)], vm'[New(q)]),
         Children'
  PROVE  MemoryInv'
<1>1. ASSUME NEW q \in Procs PROVE Fits(proc'[q], call'[q], vm'[Cur(q)], vm'[New(q)])
  <2>1. CASE q \in S
    BY <2>1, Zenon
  <2>2. CASE q \notin S
    <3>1. Fits(proc[q], call[q], vm[Cur(q)], vm[New(q)])
      BY Zenon DEF MemoryInv
    <3>2. /\ proc'[q] = proc[q] /\ call'[q] = call[q]
          /\ vm'[Cur(q)] = vm[Cur(q)] /\ vm'[New(q)] = vm[New(q)]
      BY <2>2, Zenon
    <3> QED
      BY <3>1, <3>2, Zenon
  <2> QED
    BY <2>1, <2>2, Zenon
<1>2. \A q \in Procs : Fits(proc[q], call[q], vm[Cur(q)], vm[New(q)])'
  <2> SUFFICES ASSUME NEW q \in Procs PROVE Fits(proc[q], call[q], vm[Cur(q)], vm[New(q)])'
    BY Zenon
  <2>1. Cur(q)' = Cur(q) /\ New(q)' = New(q)
    BY Zenon DEF Cur, New
  <2> QED
    BY <1>1, Zenon DEF Cur, New
<1> QED
  BY <1>2, Zenon DEF MemoryInv

(* The same for steps that touch the slots p and r only.                     *)
LEMMA FrameTwo ==
  ASSUME MemoryInv, free' \in Nat, panic' = "",
         proc' = [q \in Procs |-> proc'[q]], call' = [q \in Procs |-> call'[q]],
         vm' = [d \in Dirs |-> vm'[d]],
         NEW p \in Procs, NEW r \in Procs,
         \A q \in Procs \ {p, r} : /\ proc'[q] = proc[q] /\ call'[q] = call[q]
                                  /\ vm'[Cur(q)] = vm[Cur(q)] /\ vm'[New(q)] = vm[New(q)],
         Fits(proc'[p], call'[p], vm'[Cur(p)], vm'[New(p)]),
         Fits(proc'[r], call'[r], vm'[Cur(r)], vm'[New(r)]),
         Children'
  PROVE  MemoryInv'
<1> DEFINE S == {p, r}
<1>1. S \in SUBSET Procs
  BY Zenon
<1>2. \A q \in Procs \ S : /\ proc'[q] = proc[q] /\ call'[q] = call[q]
                           /\ vm'[Cur(q)] = vm[Cur(q)] /\ vm'[New(q)] = vm[New(q)]
  BY Zenon
<1>3. \A q \in S : Fits(proc'[q], call'[q], vm'[Cur(q)], vm'[New(q)])
  BY Zenon
<1> HIDE DEF S
<1> QED
  BY <1>1, <1>2, <1>3, Frame, Zenon

(* The same for steps that touch one slot.                                   *)
LEMMA FrameOne ==
  ASSUME MemoryInv, free' \in Nat, panic' = "",
         proc' = [q \in Procs |-> proc'[q]], call' = [q \in Procs |-> call'[q]],
         vm' = [d \in Dirs |-> vm'[d]],
         NEW p \in Procs,
         \A q \in Procs \ {p} : /\ proc'[q] = proc[q] /\ call'[q] = call[q]
                               /\ vm'[Cur(q)] = vm[Cur(q)] /\ vm'[New(q)] = vm[New(q)],
         Fits(proc'[p], call'[p], vm'[Cur(p)], vm'[New(p)]),
         Children'
  PROVE  MemoryInv'
<1>1. \A q \in Procs \ {p, p} : /\ proc'[q] = proc[q] /\ call'[q] = call[q]
                               /\ vm'[Cur(q)] = vm[Cur(q)] /\ vm'[New(q)] = vm[New(q)]
  BY Zenon
<1> QED
  BY <1>1, FrameTwo, Zenon

(* No fork starts and no EMBRYO of one that goes on is touched.              *)
LEMMA ChildrenKept ==
  ASSUME Children,
         \A q \in Procs : call'[q].do = "fork" =>
           /\ call[q].do = "fork" /\ call'[q].np = call[q].np
           /\ proc'[call[q].np].state = "EMBRYO"
  PROVE  Children'
BY DEF Children

(* Page tables of different slots, and the two of one slot, are different.   *)
LEMMA Tables ==
  /\ \A p \in Procs : Cur(p) \in Dirs /\ New(p) \in Dirs
  /\ \A p, q : (Cur(p) = Cur(q) <=> p = q) /\ (New(p) = New(q) <=> p = q) /\ Cur(p) # New(q)
BY Zenon DEF Cur, New, Dirs

(* A process that makes a system call has its first page.                    *)
LEMMA CallsFirst ==
  ASSUME MemoryInv, NEW p \in Procs, Calls(p)
  PROVE  /\ Fits(proc[p], Idle, vm[Cur(p)], vm[New(p)])
         /\ call[p] = Idle /\ proc[p].state = "RUNNING" /\ Pte(0) \in vm[Cur(p)]
<1>1. Fits(proc[p], call[p], vm[Cur(p)], vm[New(p)])
  BY Zenon DEF MemoryInv
<1>2. call[p].do = "idle" /\ proc[p].state = "RUNNING" /\ Pte(0) \in vm[Cur(p)]
  BY Zenon DEF Calls, Runs, Busy, Faults
<1>3. call[p] = Idle
  <2>1. AtRest(proc[p], call[p], vm[Cur(p)], vm[New(p)])
    BY <1>1, <1>2, Kinds, Zenon
  <2> QED
    BY <2>1, Zenon DEF AtRest
<1> QED
  BY <1>1, <1>2, <1>3, Zenon

(* Steps that only change what the call of p, not a fork, has still to do.   *)
LEMMA CallOnly ==
  ASSUME MemoryInv, NEW p \in Procs, NEW c, c.do # "fork",
         Fits(proc[p], c, vm[Cur(p)], vm[New(p)]),
         call' = [call EXCEPT ![p] = c], UNCHANGED <<free, proc, vm, panic>>
  PROVE  MemoryInv'
<1>1. call' = [q \in Procs |-> call'[q]] /\ call'[p] = c /\ \A q \in Procs \ {p} : call'[q] = call[q]
  BY Zenon DEF MemoryInv
<1>2. Children'
  <2>1. \A q \in Procs : call'[q].do = "fork" =>
          /\ call[q].do = "fork" /\ call'[q].np = call[q].np
          /\ proc'[call[q].np].state = "EMBRYO"
    BY <1>1, Zenon DEF MemoryInv, Children
  <2> QED
    BY <2>1, ChildrenKept, Zenon DEF MemoryInv
<1>3. /\ free' \in Nat /\ panic' = ""
      /\ proc' = [q \in Procs |-> proc'[q]] /\ vm' = [d \in Dirs |-> vm'[d]]
  BY Zenon DEF MemoryInv
<1>4. \A q \in Procs \ {p} : /\ proc'[q] = proc[q] /\ call'[q] = call[q]
                             /\ vm'[Cur(q)] = vm[Cur(q)] /\ vm'[New(q)] = vm[New(q)]
  BY <1>1, Zenon
<1>5. Fits(proc'[p], call'[p], vm'[Cur(p)], vm'[New(p)])
  BY <1>1, Zenon
<1> QED
  BY <1>1, <1>2, <1>3, <1>4, <1>5, FrameOne, Zenon

(* The child of a fork is a slot.                                            *)
LEMMA ChildSlot ==
  ASSUME MemoryInv, NEW p \in Procs, call[p].do = "fork"
  PROVE  call[p].np \in Procs /\ proc[call[p].np].state = "EMBRYO" /\ call[p].np # p
<1>1. Forking(proc[p], call[p], vm[Cur(p)], vm[New(p)])
  BY Kinds, Zenon DEF MemoryInv
<1>2. call[p].np \in Procs /\ proc[p].state = "RUNNING"
  BY <1>1, Zenon DEF Forking, Fork
<1>3. proc[call[p].np].state = "EMBRYO"
  BY Zenon DEF MemoryInv, Children
<1> QED
  BY <1>2, <1>3, Zenon

(* sbrk() preserves the invariant.                                           *)
LEMMA SbrkStep ==
  ASSUME TablesFinite, MemoryInv, NEW p \in Procs, sys_sbrk(p)
  PROVE  MemoryInv'
<1>1. /\ Fits(proc[p], Idle, vm[Cur(p)], vm[New(p)])
      /\ call[p] = Idle /\ proc[p].state = "RUNNING" /\ Pte(0) \in vm[Cur(p)]
  BY CallsFirst, Zenon DEF sys_sbrk
<1>2. PICK n \in Sbrks :
        LET sz == proc[p].sz
            newsz == (sz + n) % UINT
        IN  \/ /\ n > 0
               /\ newsz < KERNBASE
               /\ newsz >= sz
               /\ call' = [call EXCEPT ![p] = [do |-> "grow", a |-> PGROUNDUP(sz), to |-> newsz]]
               /\ UNCHANGED <<free, proc, vm, guard, panic>>
            \/ /\ n < 0
               /\ newsz < sz
               /\ vm' = [vm EXCEPT ![Cur(p)] = deallocuvm(@, sz, newsz)]
               /\ free' = kfree(Cardinality(vm[Cur(p)] \ vm'[Cur(p)]))
               /\ guard' = [guard EXCEPT ![Cur(p)] = {v \in @ : Pte(v) \in vm'[Cur(p)]}]
               /\ proc' = [proc EXCEPT ![p].sz = ShrunkSize(p, newsz)]
               /\ UNCHANGED <<call, panic>>
  BY Zenon DEF sys_sbrk
<1> DEFINE newsz == (proc[p].sz + n) % UINT
<1>3. newsz \in Nat
  <2>1. proc[p].sz \in Int /\ n \in Int /\ UINT \in Nat \ {0}
    <3>1. proc[p] \in ProcType
      BY <1>1, Zenon DEF Fits
    <3>2. proc[p].sz \in Int
      BY <3>1, Constants DEF ProcType, Sizes
    <3>3. n \in Int /\ UINT \in Nat \ {0}
      BY MemoryAssumption, Constants
    <3> QED
      BY <3>2, <3>3, Zenon
  <2> QED
    BY <2>1
<1> HIDE DEF newsz
<1>4. CASE /\ newsz < KERNBASE /\ newsz >= proc[p].sz
           /\ call' = [call EXCEPT ![p] = [do |-> "grow", a |-> PGROUNDUP(proc[p].sz), to |-> newsz]]
           /\ UNCHANGED <<free, proc, vm, panic>>
  <2> DEFINE c == [do |-> "grow", a |-> PGROUNDUP(proc[p].sz), to |-> newsz]
  <2>1. newsz \in Sizes
    BY <1>3, <1>4, Constants DEF Sizes
  <2>2. Fits(proc[p], c, vm[Cur(p)], vm[New(p)])
    BY <1>1, <1>4, <2>1, GrowStarts, Zenon
  <2>3. c.do # "fork"
    BY Zenon
  <2> HIDE DEF c
  <2>4. call' = [call EXCEPT ![p] = c] /\ UNCHANGED <<free, proc, vm, panic>>
    BY <1>4, Zenon DEF c
  <2> QED
    BY <2>2, <2>3, <2>4, CallOnly, Zenon
<1>5. CASE /\ newsz < proc[p].sz
           /\ vm' = [vm EXCEPT ![Cur(p)] = deallocuvm(@, proc[p].sz, newsz)]
           /\ free' = kfree(Cardinality(vm[Cur(p)] \ vm'[Cur(p)]))
           /\ proc' = [proc EXCEPT ![p].sz = ShrunkSize(p, newsz)]
           /\ UNCHANGED <<call, panic>>
  <2> DEFINE t == deallocuvm(vm[Cur(p)], proc[p].sz, newsz)
             pr == [proc[p] EXCEPT !.sz = IF newsz = 0 THEN proc[p].sz ELSE newsz]
  <2>1. Fits(pr, Idle, t, vm[New(p)]) /\ t \subseteq vm[Cur(p)]
    BY <1>1, <1>3, <1>5, Shrinks, Zenon
  <2>2. pr.state = proc[p].state
    BY <1>1, Zenon DEF Fits, ProcType
  <2> HIDE DEF t, pr
  <2>3. vm' = [vm EXCEPT ![Cur(p)] = t] /\ proc' = [proc EXCEPT ![p] = pr]
    BY <1>5, Zenon DEF t, pr, ShrunkSize, MemoryInv
  <2>4. /\ proc' = [q \in Procs |-> proc'[q]] /\ proc'[p] = pr
        /\ \A q \in Procs \ {p} : proc'[q] = proc[q]
    BY <2>3, Zenon DEF MemoryInv
  <2>5. /\ vm' = [d \in Dirs |-> vm'[d]] /\ vm'[Cur(p)] = t /\ vm'[New(p)] = vm[New(p)]
        /\ \A q \in Procs \ {p} : vm'[Cur(q)] = vm[Cur(q)] /\ vm'[New(q)] = vm[New(q)]
    BY <2>3, Tables, Zenon DEF MemoryInv
  <2>6. Children'
    <3>1. \A q \in Procs : proc'[q].state = proc[q].state
      BY <2>2, <2>4, Zenon
    <3>2. \A q \in Procs : call[q].do = "fork" => call[q].np \in Procs
      BY ChildSlot, Zenon
    <3>3. \A q \in Procs : call'[q].do = "fork" =>
            /\ call[q].do = "fork" /\ call'[q].np = call[q].np
            /\ proc'[call[q].np].state = "EMBRYO"
      BY <1>5, <3>1, <3>2, Zenon DEF MemoryInv, Children
    <3> QED
      BY <3>3, ChildrenKept, Zenon DEF MemoryInv
  <2>7. free' \in Nat
    <3>1. vm[Cur(p)] \ vm'[Cur(p)] \in SUBSET Slots
      BY <1>1, Zenon DEF Fits
    <3>2. Cardinality(vm[Cur(p)] \ vm'[Cur(p)]) \in Nat
      BY <3>1, Zenon DEF TablesFinite
    <3>3. free \in Nat
      BY Zenon DEF MemoryInv
    <3> QED
      BY <1>5, <3>2, <3>3 DEF kfree
  <2>8. panic' = "" /\ call' = [q \in Procs |-> call'[q]]
    BY <1>5, Zenon DEF MemoryInv
  <2>9. Fits(proc'[p], call'[p], vm'[Cur(p)], vm'[New(p)])
    BY <1>1, <1>5, <2>1, <2>4, <2>5, Zenon
  <2>10. \A q \in Procs \ {p} : /\ proc'[q] = proc[q] /\ call'[q] = call[q]
                               /\ vm'[Cur(q)] = vm[Cur(q)] /\ vm'[New(q)] = vm[New(q)]
    BY <1>5, <2>4, <2>5, Zenon
  <2> QED
    BY <2>4, <2>5, <2>6, <2>7, <2>8, <2>9, <2>10, FrameOne, Zenon
<1> QED
  BY <1>2, <1>4, <1>5, Zenon DEF newsz

(* The end of growproc() preserves the invariant.                            *)
LEMMA GrowprocStep ==
  ASSUME MemoryInv, NEW p \in Procs, growproc(p)
  PROVE  MemoryInv'
<1> DEFINE pr == [proc[p] EXCEPT !.sz = call[p].to]
<1>1. Fits(proc[p], call[p], vm[Cur(p)], vm[New(p)]) /\ call[p].do = "grow"
  BY Zenon DEF MemoryInv, growproc
<1>2. ~(call[p].a < call[p].to)
  BY Zenon DEF growproc, Needs
<1>3. Fits(pr, Idle, vm[Cur(p)], vm[New(p)])
  BY <1>1, <1>2, GrowEnds, Zenon
<1>4. pr.state = proc[p].state
  BY <1>1, Zenon DEF Fits, ProcType
<1> HIDE DEF pr
<1>5. /\ proc' = [proc EXCEPT ![p] = pr] /\ call' = [call EXCEPT ![p] = Idle]
      /\ UNCHANGED <<free, vm, panic>>
  BY Zenon DEF growproc, pr, MemoryInv
<1>6. /\ proc' = [q \in Procs |-> proc'[q]] /\ proc'[p] = pr
      /\ \A q \in Procs \ {p} : proc'[q] = proc[q]
  BY <1>5, Zenon DEF MemoryInv
<1>7. /\ call' = [q \in Procs |-> call'[q]] /\ call'[p] = Idle
      /\ \A q \in Procs \ {p} : call'[q] = call[q]
  BY <1>5, Zenon DEF MemoryInv
<1>8. Children'
  <2>1. \A q \in Procs : proc'[q].state = proc[q].state
    BY <1>4, <1>6, Zenon
  <2>2. \A q \in Procs : call'[q].do = "fork" =>
          /\ call[q].do = "fork" /\ call'[q].np = call[q].np
          /\ proc'[call[q].np].state = "EMBRYO"
    BY <1>7, <2>1, ChildSlot DEF Idle
  <2> QED
    BY <2>2, ChildrenKept, Zenon DEF MemoryInv
<1>9. /\ free' \in Nat /\ panic' = "" /\ vm' = [d \in Dirs |-> vm'[d]]
  BY <1>5, Zenon DEF MemoryInv
<1>10. \A q \in Procs \ {p} : /\ proc'[q] = proc[q] /\ call'[q] = call[q]
                             /\ vm'[Cur(q)] = vm[Cur(q)] /\ vm'[New(q)] = vm[New(q)]
  BY <1>5, <1>6, <1>7, Zenon
<1>11. Fits(proc'[p], call'[p], vm'[Cur(p)], vm'[New(p)])
  BY <1>3, <1>5, <1>6, <1>7, Zenon
<1> QED
  BY <1>6, <1>7, <1>8, <1>9, <1>10, <1>11, FrameOne, Zenon

(* The beginning of exec() preserves the invariant.                          *)
LEMMA ExecStep ==
  ASSUME MemoryInv, NEW p \in Procs, exec(p)
  PROVE  MemoryInv'
<1>1. /\ Fits(proc[p], Idle, vm[Cur(p)], vm[New(p)])
      /\ proc[p].state = "RUNNING" /\ Pte(0) \in vm[Cur(p)]
  BY CallsFirst, Zenon DEF exec
<1>2. PICK segs \in Programs, argv \in Argvs :
        call' = [call EXCEPT ![p] = [do |-> "exec", at |-> "header", segs |-> segs,
                                     argv |-> argv, a |-> 0, to |-> 0]]
  BY Zenon DEF exec
<1> DEFINE c == [do |-> "exec", at |-> "header", segs |-> segs, argv |-> argv, a |-> 0, to |-> 0]
<1>3. Fits(proc[p], c, vm[Cur(p)], vm[New(p)])
  BY <1>1, ExecStarts, Zenon
<1>4. c.do # "fork"
  BY Zenon
<1>5. call' = [call EXCEPT ![p] = c] /\ UNCHANGED <<free, proc, vm, panic>>
  BY <1>2, Zenon DEF exec
<1> HIDE DEF c
<1> QED
  BY <1>3, <1>4, <1>5, CallOnly, Zenon

(* The beginning of fork() preserves the invariant.                          *)
LEMMA ForkStep ==
  ASSUME MemoryInv, NEW p \in Procs, fork(p)
  PROVE  MemoryInv'
<1>1. /\ Fits(proc[p], Idle, vm[Cur(p)], vm[New(p)])
      /\ proc[p].state = "RUNNING" /\ Pte(0) \in vm[Cur(p)]
  BY CallsFirst, Zenon DEF fork
<1>2. PICK np \in Procs :
         /\ proc[np].state = "UNUSED"
         /\ proc' = [proc EXCEPT ![np].state = "EMBRYO", ![np].kstack = 1]
         /\ call' = [call EXCEPT ![p] = [do |-> "fork", np |-> np, a |-> 0, to |-> proc[p].sz]]
  BY Zenon DEF fork
<1> DEFINE c == [do |-> "fork", np |-> np, a |-> 0, to |-> proc[p].sz]
           pn == [proc[np] EXCEPT !.state = "EMBRYO", !.kstack = 1]
<1>3. Fits(proc[p], c, vm[Cur(p)], vm[New(p)])
  BY <1>1, ForkStarts, Zenon
<1>4. Fits(pn, call[np], vm[Cur(np)], vm[New(np)])
  BY <1>2, Embryo, Zenon DEF MemoryInv
<1>5. c.do = "fork" /\ c.np = np
  BY Zenon
<1>6. pn.state = "EMBRYO" /\ np # p
  <2>1. proc[np] \in ProcType
    BY Zenon DEF MemoryInv, Fits
  <2> QED
    BY <1>1, <1>2, <2>1, Zenon DEF ProcType
<1> HIDE DEF c, pn
<1>7. proc' = [proc EXCEPT ![np] = pn] /\ call' = [call EXCEPT ![p] = c]
  BY <1>2, Zenon DEF c, pn, MemoryInv
<1>8. /\ proc' = [q \in Procs |-> proc'[q]] /\ proc'[np] = pn
      /\ \A q \in Procs \ {np} : proc'[q] = proc[q]
  BY <1>7, Zenon DEF MemoryInv
<1>9. /\ call' = [q \in Procs |-> call'[q]] /\ call'[p] = c
      /\ \A q \in Procs \ {p} : call'[q] = call[q]
  BY <1>7, Zenon DEF MemoryInv
<1>10. free' \in Nat /\ panic' = "" /\ vm' = [d \in Dirs |-> vm'[d]] /\ vm' = vm
  <2>1. free \in Nat /\ free > 0 /\ free' = free - 1
    BY Zenon DEF MemoryInv, fork
  <2>2. free' \in Nat
    BY <2>1
  <2>3. vm' = vm /\ panic' = "" /\ vm' = [d \in Dirs |-> vm'[d]]
    BY Zenon DEF MemoryInv, fork
  <2> QED
    BY <2>2, <2>3, Zenon
<1>11. Children'
  <2>1. \A q \in Procs \ {p} : call[q].do = "fork" =>
          call[q].np \in Procs /\ call[q].np # np /\ proc'[call[q].np].state = "EMBRYO"
    BY <1>2, <1>8, ChildSlot, Zenon
  <2>2. proc'[np].state = "EMBRYO"
    BY <1>6, <1>8, Zenon
  <2>3. \A q \in Procs : call'[q].do = "fork" =>
          /\ proc'[call'[q].np].state = "EMBRYO"
          /\ q # p => call'[q].np # np
    BY <1>5, <1>9, <2>1, <2>2
  <2>4. \A q, r \in Procs \ {p} :
          call'[q].do = "fork" /\ call'[r].do = "fork" /\ call'[r].np = call'[q].np => r = q
    <3>1. \A q, r \in Procs \ {p} :
            call[q].do = "fork" /\ call[r].do = "fork" /\ call[r].np = call[q].np => r = q
      BY Zenon DEF MemoryInv, Children
    <3> QED
      BY <1>9, <3>1, Zenon
  <2>5. \A q, r \in Procs :
          call'[q].do = "fork" /\ call'[r].do = "fork" /\ call'[r].np = call'[q].np => r = q
    BY <1>5, <1>9, <2>3, <2>4, Zenon
  <2> QED
    BY <2>3, <2>5, Zenon DEF Children
<1>12. \A q \in Procs \ {p, np} : /\ proc'[q] = proc[q] /\ call'[q] = call[q]
                                 /\ vm'[Cur(q)] = vm[Cur(q)] /\ vm'[New(q)] = vm[New(q)]
  BY <1>8, <1>9, <1>10, Zenon
<1>13. Fits(proc'[p], call'[p], vm'[Cur(p)], vm'[New(p)])
  BY <1>3, <1>6, <1>8, <1>9, <1>10, Zenon
<1>14. Fits(proc'[np], call'[np], vm'[Cur(np)], vm'[New(np)])
  BY <1>4, <1>6, <1>8, <1>9, <1>10, Zenon
<1> QED
  BY <1>8, <1>9, <1>10, <1>11, <1>12, <1>13, <1>14, FrameTwo, Zenon

(* The end of fork() preserves the invariant.                                *)
LEMMA ForkDoneStep ==
  ASSUME MemoryInv, NEW p \in Procs, fork_done(p)
  PROVE  MemoryInv'
<1> DEFINE np == call[p].np
           pn == [proc[np] EXCEPT !.state = "RUNNING", !.sz = proc[p].sz, !.parent = p]
<1>1. Fits(proc[p], call[p], vm[Cur(p)], vm[New(p)]) /\ call[p].do = "fork"
  BY Zenon DEF MemoryInv, fork_done
<1>2. np \in Procs /\ proc[np].state = "EMBRYO" /\ np # p
  BY <1>1, ChildSlot, Zenon
<1>3. Rooted(vm[New(p)]) /\ ~(call[p].a < call[p].to)
  BY <1>1, Zenon DEF fork_done, Needs, Target, Rooted
<1>4. Fits(proc[np], call[np], vm[Cur(np)], vm[New(np)])
  BY <1>2, Zenon DEF MemoryInv
<1> HIDE DEF np
<1>5. /\ call[np] = Idle /\ vm[Cur(np)] = {} /\ vm[New(np)] = {}
      /\ Fits(pn, Idle, vm[New(p)], {})
  BY <1>1, <1>2, <1>3, <1>4, ForkEnds, Zenon
<1>6. Fits(proc[p], Idle, vm[Cur(p)], {})
  BY <1>1, BadNew, Zenon
<1> HIDE DEF pn
<1>7. /\ vm' = [vm EXCEPT ![Cur(np)] = vm[New(p)], ![New(p)] = {}]
      /\ proc' = [proc EXCEPT ![np] = pn] /\ call' = [call EXCEPT ![p] = Idle]
      /\ UNCHANGED <<free, panic>>
  BY Zenon DEF fork_done, np, pn, MemoryInv
<1>8. /\ proc' = [q \in Procs |-> proc'[q]] /\ proc'[np] = pn
      /\ \A q \in Procs \ {np} : proc'[q] = proc[q]
  BY <1>2, <1>7, Zenon DEF MemoryInv
<1>9. /\ call' = [q \in Procs |-> call'[q]] /\ call'[p] = Idle
      /\ \A q \in Procs \ {p} : call'[q] = call[q]
  BY <1>7, Zenon DEF MemoryInv
<1>10. /\ vm' = [d \in Dirs |-> vm'[d]]
       /\ vm'[Cur(np)] = vm[New(p)] /\ vm'[New(np)] = vm[New(np)]
       /\ vm'[Cur(p)] = vm[Cur(p)] /\ vm'[New(p)] = {}
       /\ \A q \in Procs \ {p, np} : vm'[Cur(q)] = vm[Cur(q)] /\ vm'[New(q)] = vm[New(q)]
  BY <1>2, <1>7, Tables, Zenon DEF MemoryInv
<1>11. Children'
  <2>1. \A q \in Procs \ {p} : call[q].do = "fork" => call[q].np # np
    BY <1>1, Zenon DEF MemoryInv, Children, np
  <2>2. \A q \in Procs : call'[q].do = "fork" =>
          /\ call[q].do = "fork" /\ call'[q].np = call[q].np
          /\ proc'[call[q].np].state = "EMBRYO"
    BY <1>8, <1>9, <2>1, ChildSlot DEF Idle
  <2> QED
    BY <2>2, ChildrenKept, Zenon DEF MemoryInv
<1>12. free' \in Nat /\ panic' = ""
  BY <1>7, Zenon DEF MemoryInv
<1>13. \A q \in Procs \ {p, np} : /\ proc'[q] = proc[q] /\ call'[q] = call[q]
                                 /\ vm'[Cur(q)] = vm[Cur(q)] /\ vm'[New(q)] = vm[New(q)]
  BY <1>8, <1>9, <1>10, Zenon
<1>14. Fits(proc'[p], call'[p], vm'[Cur(p)], vm'[New(p)])
  BY <1>2, <1>6, <1>8, <1>9, <1>10, Zenon
<1>15. Fits(proc'[np], call'[np], vm'[Cur(np)], vm'[New(np)])
  BY <1>2, <1>5, <1>8, <1>9, <1>10, Zenon
<1> QED
  BY <1>2, <1>8, <1>9, <1>10, <1>11, <1>12, <1>13, <1>14, <1>15, FrameTwo

(* The error paths preserve the invariant.                                   *)
LEMMA BadStep ==
  ASSUME TablesFinite, MemoryInv, NEW p \in Procs, Busy(p), bad(p)
  PROVE  MemoryInv'
<1> DEFINE t == IF call[p].do = "grow" THEN UndoGrow(p) ELSE {}
           d == Target(p)
           k == IF call[p].do = "fork" THEN 1 ELSE 0
<1>1. Fits(proc[p], call[p], vm[Cur(p)], vm[New(p)])
  BY Zenon DEF MemoryInv
<1>2. call[p].do \in {"grow", "fork", "exec"}
  BY <1>1, Kinds, Zenon DEF Busy
<1>3. vm' = [vm EXCEPT ![d] = t] /\ free' = kfree(Cardinality(vm[d] \ t) + k)
  BY Zenon DEF bad
<1>4. call' = [call EXCEPT ![p] = Idle] /\ panic' = panic
  BY Zenon DEF bad
<1>5. /\ call' = [q \in Procs |-> call'[q]] /\ call'[p] = Idle
      /\ \A q \in Procs \ {p} : call'[q] = call[q]
  BY <1>4, Zenon DEF MemoryInv
<1>6. d \in {Cur(p), New(p)} /\ (d = Cur(p) <=> call[p].do = "grow")
  BY <1>2, Tables, Zenon DEF Target
<1> HIDE DEF t, d
<1>7. /\ vm' = [e \in Dirs |-> vm'[e]] /\ vm'[d] = t
      /\ \A e \in Dirs : e # d => vm'[e] = vm[e]
  BY <1>3, <1>6, Tables, Zenon DEF MemoryInv
<1>8. \A q \in Procs \ {p} : vm'[Cur(q)] = vm[Cur(q)] /\ vm'[New(q)] = vm[New(q)]
  BY <1>6, <1>7, Tables
<1>9. Fits(proc[p], Idle, vm'[Cur(p)], vm'[New(p)])
  <2>1. CASE call[p].do = "grow"
    <3>1. t = deallocuvm(vm[Cur(p)], call[p].to, proc[p].sz) \ {Mem}
      BY <2>1, Zenon DEF t, UndoGrow
    <3>2. vm'[Cur(p)] = t /\ vm'[New(p)] = vm[New(p)]
      BY <1>6, <1>7, <2>1, Tables, Zenon
    <3>3. Fits(proc[p], Idle, t, vm[New(p)])
      BY <1>1, <2>1, <3>1, BadGrow, Zenon
    <3> QED
      BY <3>2, <3>3, Zenon
  <2>2. CASE call[p].do # "grow"
    <3>1. vm'[New(p)] = {} /\ vm'[Cur(p)] = vm[Cur(p)]
      BY <1>6, <1>7, <2>2, Tables, Zenon DEF t
    <3>2. Fits(proc[p], Idle, vm[Cur(p)], {})
      BY <1>1, <1>2, <2>2, BadNew, Zenon
    <3> QED
      BY <3>1, <3>2, Zenon
  <2> QED
    BY <2>1, <2>2, Zenon
<1>10. free' \in Nat /\ panic' = ""
  <2>1. vm[d] \ t \in SUBSET Slots
    BY <1>1, <1>6, Zenon DEF Fits
  <2>2. Cardinality(vm[d] \ t) \in Nat
    BY <2>1, Zenon DEF TablesFinite
  <2>3. free \in Nat /\ k \in Nat
    BY Zenon DEF MemoryInv
  <2> HIDE DEF k
  <2>4. free' \in Nat
    BY <1>3, <2>2, <2>3 DEF kfree
  <2>5. panic' = ""
    BY <1>4, Zenon DEF MemoryInv
  <2> QED
    BY <2>4, <2>5, Zenon
<1>11. CASE call[p].do # "fork"
  <2>1. proc' = proc
    BY <1>11, Zenon DEF bad
  <2>2. proc' = [q \in Procs |-> proc'[q]]
    BY <2>1, Zenon DEF MemoryInv
  <2>3. Children'
    <3>1. \A q \in Procs : call'[q].do = "fork" =>
            /\ call[q].do = "fork" /\ call'[q].np = call[q].np
            /\ proc'[call[q].np].state = "EMBRYO"
      BY <1>5, <2>1, ChildSlot DEF Idle
    <3> QED
      BY <3>1, ChildrenKept, Zenon DEF MemoryInv
  <2>4. \A q \in Procs \ {p} : /\ proc'[q] = proc[q] /\ call'[q] = call[q]
                               /\ vm'[Cur(q)] = vm[Cur(q)] /\ vm'[New(q)] = vm[New(q)]
    BY <1>5, <1>8, <2>1, Zenon
  <2>5. Fits(proc'[p], call'[p], vm'[Cur(p)], vm'[New(p)])
    BY <1>5, <1>9, <2>1, Zenon
  <2> QED
    BY <1>5, <1>7, <1>10, <2>2, <2>3, <2>4, <2>5, FrameOne, Zenon
<1>12. CASE call[p].do = "fork"
  <2> DEFINE np == call[p].np
             pn == [proc[np] EXCEPT !.state = "UNUSED", !.kstack = 0]
  <2>1. np \in Procs /\ proc[np].state = "EMBRYO" /\ np # p
    BY <1>12, ChildSlot, Zenon
  <2>2. proc' = [proc EXCEPT ![np] = pn]
    BY <1>12, Zenon DEF bad, MemoryInv
  <2>3. Fits(pn, call[np], vm[Cur(np)], vm[New(np)])
    BY <2>1, Embryo, Zenon DEF MemoryInv
  <2>4. \A q \in Procs \ {p} : call[q].do = "fork" => call[q].np # np
    BY <1>12, Zenon DEF MemoryInv, Children
  <2> HIDE DEF np, pn
  <2>5. /\ proc' = [q \in Procs |-> proc'[q]] /\ proc'[np] = pn
        /\ \A q \in Procs \ {np} : proc'[q] = proc[q]
    BY <2>1, <2>2, Zenon DEF MemoryInv
  <2>6. Children'
    <3>1. \A q \in Procs : call'[q].do = "fork" =>
            /\ call[q].do = "fork" /\ call'[q].np = call[q].np
            /\ proc'[call[q].np].state = "EMBRYO"
      BY <1>5, <2>4, <2>5, ChildSlot DEF Idle
    <3> QED
      BY <3>1, ChildrenKept, Zenon DEF MemoryInv
  <2>7. \A q \in Procs \ {p, np} : /\ proc'[q] = proc[q] /\ call'[q] = call[q]
                                  /\ vm'[Cur(q)] = vm[Cur(q)] /\ vm'[New(q)] = vm[New(q)]
    BY <1>5, <1>8, <2>5, Zenon
  <2>8. Fits(proc'[p], call'[p], vm'[Cur(p)], vm'[New(p)])
    BY <1>5, <1>9, <2>1, <2>5, Zenon
  <2>9. Fits(proc'[np], call'[np], vm'[Cur(np)], vm'[New(np)])
    BY <1>5, <1>8, <2>1, <2>3, <2>5, Zenon
  <2> QED
    BY <1>5, <1>7, <1>10, <2>1, <2>5, <2>6, <2>7, <2>8, <2>9, FrameTwo
<1> QED
  BY <1>11, <1>12, Zenon

(* Every step of exec()'s loop over the headers, and its beginning of the    *)
(* stack, preserves the invariant.                                           *)
LEMMA ExecLoopStep ==
  ASSUME TablesFinite, MemoryInv, NEW p \in Procs,
         exec_header(p) \/ exec_load(p) \/ exec_stack(p)
  PROVE  MemoryInv'
<1> DEFINE c == call[p]
<1>1. Fits(proc[p], c, vm[Cur(p)], vm[New(p)]) /\ c.do = "exec"
  BY Zenon DEF MemoryInv, exec_header, exec_load, exec_stack
<1>2. Busy(p) /\ ~(c.a < c.to)
  BY <1>1, Zenon DEF Busy, exec_header, exec_load, exec_stack, Needs
<1>3. Execing(proc[p], c, vm[Cur(p)], vm[New(p)]) /\ c.a \in Nat /\ c.to \in Sizes /\ c.to \in Nat
  <2>1. Execing(proc[p], c, vm[Cur(p)], vm[New(p)]) /\ c.a \in Nat /\ c.to \in Sizes
    BY <1>1, Kinds, Zenon
  <2>2. \A x \in Sizes : x \in Nat
    BY Constants DEF Sizes
  <2> QED
    BY <2>1, <2>2, Zenon
<1>4. c \in Exec
  BY <1>3, Zenon DEF Execing
<1>5. PGROUNDUP(c.to) \in Nat /\ c.to <= PGROUNDUP(c.to)
  BY <1>3, Round, Zenon
<1>6. ASSUME NEW at \in {"load", "args"}, at = "load" => c.segs # <<>>,
             NEW sz \in Nat, NEW newsz \in Nat, newsz < KERNBASE,
             c.to <= sz, sz <= PGROUNDUP(c.to), newsz < sz => sz = c.to,
             AllocTo(p, at, sz, newsz)
      PROVE  MemoryInv'
  <2> DEFINE d == [c EXCEPT !.at = at, !.a = PGROUNDUP(sz), !.to = IF newsz < sz THEN sz ELSE newsz]
  <2>1. Fits(proc[p], d, vm[Cur(p)], vm[New(p)])
    BY <1>1, <1>2, <1>6, AllocNext, Zenon
  <2>2. d.do # "fork"
    BY <1>4, Zenon DEF Exec
  <2>3. call' = [call EXCEPT ![p] = d] /\ UNCHANGED <<free, proc, vm, panic>>
    BY <1>6, Zenon DEF AllocTo, MemoryInv
  <2> HIDE DEF d
  <2> QED
    BY <2>1, <2>2, <2>3, CallOnly, Zenon
<1>7. CASE bad(p)
  BY <1>2, <1>7, BadStep, Zenon
<1>8. CASE exec_header(p) /\ ~bad(p)
  <2> DEFINE seg == Head(c.segs)
             newsz == seg.vaddr + seg.memsz
  <2>1. c.segs # <<>> /\ ~SegFails(seg, c.to) /\ AllocTo(p, "load", c.to, newsz)
    BY <1>8, Zenon DEF exec_header
  <2>2. seg \in Segment
    <3>1. c.segs \in Seq(Segment)
      BY <1>4, Zenon DEF Exec
    <3>2. \A s \in Seq(Segment) : s # <<>> => Head(s) \in Segment
      OBVIOUS
    <3> QED
      BY <2>1, <3>1, <3>2, Zenon
  <2>3. newsz \in Nat /\ newsz < KERNBASE
    BY <2>1, <2>2, Constants DEF SegFails, Segment
  <2> HIDE DEF newsz, c
  <2> QED
    BY <1>3, <1>5, <1>6, <2>1, <2>3
<1>9. CASE exec_load(p) /\ ~bad(p)
  <2> DEFINE d == [c EXCEPT !.at = "header", !.segs = Tail(c.segs)]
  <2>1. c.at = "load"
    BY <1>9, Zenon DEF exec_load
  <2>2. Fits(proc[p], d, vm[Cur(p)], vm[New(p)])
    BY <1>1, <2>1, LoadEnds, Zenon
  <2>3. d.do # "fork"
    BY <1>4, Zenon DEF Exec
  <2>4. call' = [call EXCEPT ![p] = d] /\ UNCHANGED <<free, proc, vm, panic>>
    BY <1>9, Zenon DEF exec_load, MemoryInv
  <2> HIDE DEF d
  <2> QED
    BY <2>2, <2>3, <2>4, CallOnly, Zenon
<1>10. CASE exec_stack(p) /\ ~bad(p)
  <2> DEFINE sz == PGROUNDUP(c.to)
             newsz == sz + 2 * PGSIZE
  <2>1. ~(newsz >= KERNBASE) /\ AllocTo(p, "args", sz, newsz)
    BY <1>10, Zenon DEF exec_stack
  <2>2. sz \in Nat /\ newsz \in Nat /\ newsz < KERNBASE /\ ~(newsz < sz) /\ c.to <= sz
    <3>1. sz \in Nat /\ c.to <= sz /\ newsz = sz + 2 * PGSIZE
      BY <1>5, Zenon
    <3> HIDE DEF sz, newsz
    <3> QED
      BY <2>1, <3>1, Constants
  <2>3. sz <= PGROUNDUP(c.to)
    BY <1>5
  <2> HIDE DEF sz, newsz, c
  <2> QED
    BY <1>6, <2>1, <2>2, <2>3, Zenon
<1> QED
  BY <1>7, <1>8, <1>9, <1>10, Zenon

(* The end of exec() preserves the invariant.                                *)
LEMMA ExecCommitStep ==
  ASSUME TablesFinite, MemoryInv, NEW p \in Procs, exec_commit(p)
  PROVE  MemoryInv'
<1> DEFINE pr == [proc[p] EXCEPT !.sz = call[p].to]
<1>1. Fits(proc[p], call[p], vm[Cur(p)], vm[New(p)]) /\ call[p].do = "exec"
  BY Zenon DEF MemoryInv, exec_commit
<1>2. Rooted(vm[New(p)]) /\ ~(call[p].a < call[p].to) /\ Busy(p)
  BY <1>1, Zenon DEF exec_commit, Needs, Target, Rooted, Busy
<1>3. Fits(pr, Idle, vm[New(p)], {})
  BY <1>1, <1>2, ExecEnds, Zenon
<1>4. pr.state = proc[p].state
  BY <1>1, Zenon DEF Fits, ProcType
<1>5. CASE bad(p)
  BY <1>2, <1>5, BadStep, Zenon
<1>6. CASE ~bad(p)
  <2>1. /\ vm' = [vm EXCEPT ![Cur(p)] = vm[New(p)], ![New(p)] = {}]
        /\ free' = kfree(OldPages(p))
        /\ proc' = [proc EXCEPT ![p] = pr]
        /\ call' = [call EXCEPT ![p] = Idle]
        /\ panic' = panic
    BY <1>6, Zenon DEF exec_commit, MemoryInv
  <2> HIDE DEF pr
  <2>2. /\ proc' = [q \in Procs |-> proc'[q]] /\ proc'[p] = pr
        /\ \A q \in Procs \ {p} : proc'[q] = proc[q]
    BY <2>1, Zenon DEF MemoryInv
  <2>3. /\ call' = [q \in Procs |-> call'[q]] /\ call'[p] = Idle
        /\ \A q \in Procs \ {p} : call'[q] = call[q]
    BY <2>1, Zenon DEF MemoryInv
  <2>4. /\ vm' = [d \in Dirs |-> vm'[d]]
        /\ vm'[Cur(p)] = vm[New(p)] /\ vm'[New(p)] = {}
        /\ \A q \in Procs \ {p} : vm'[Cur(q)] = vm[Cur(q)] /\ vm'[New(q)] = vm[New(q)]
    BY <2>1, Tables, Zenon DEF MemoryInv
  <2>5. Children'
    <3>1. \A q \in Procs : proc'[q].state = proc[q].state
      BY <1>4, <2>2, Zenon
    <3>2. \A q \in Procs : call'[q].do = "fork" =>
            /\ call[q].do = "fork" /\ call'[q].np = call[q].np
            /\ proc'[call[q].np].state = "EMBRYO"
      BY <2>3, <3>1, ChildSlot DEF Idle
    <3> QED
      BY <3>2, ChildrenKept, Zenon DEF MemoryInv
  <2>6. free' \in Nat
    <3>1. Cardinality(vm[Cur(p)]) \in Nat
      BY <1>1, Zenon DEF Fits, TablesFinite
    <3>2. free \in Nat
      BY Zenon DEF MemoryInv
    <3> QED
      BY <2>1, <3>1, <3>2 DEF kfree, OldPages
  <2>7. panic' = ""
    BY <2>1, Zenon DEF MemoryInv
  <2>8. Fits(proc'[p], call'[p], vm'[Cur(p)], vm'[New(p)])
    BY <1>3, <2>2, <2>3, <2>4, Zenon
  <2>9. \A q \in Procs \ {p} : /\ proc'[q] = proc[q] /\ call'[q] = call[q]
                               /\ vm'[Cur(q)] = vm[Cur(q)] /\ vm'[New(q)] = vm[New(q)]
    BY <2>2, <2>3, <2>4, Zenon
  <2> QED
    BY <2>2, <2>3, <2>4, <2>5, <2>6, <2>7, <2>8, <2>9, FrameOne, Zenon
<1> QED
  BY <1>5, <1>6, Zenon

(* The call that wants a page: its table, and what is left to build.         *)
LEMMA NeedsPage ==
  ASSUME MemoryInv, NEW p \in Procs, Busy(p), Needs(p)
  PROVE  /\ Target(p) \in Dirs /\ vm[Target(p)] \in SUBSET Slots
         /\ call[p].a \in Nat /\ call[p].to \in Sizes
         /\ Built(vm[Target(p)], call[p].a, call[p].to)
         /\ ~Rooted(vm[Target(p)]) \/ call[p].a < call[p].to
         /\ call[p].do = "fork" => Exact(vm[Cur(p)], call[p].to)
<1>1. Fits(proc[p], call[p], vm[Cur(p)], vm[New(p)])
  BY Zenon DEF MemoryInv
<1>2. call[p].do \in {"grow", "fork", "exec"} /\ call[p].a \in Nat /\ call[p].to \in Sizes
  BY <1>1, Kinds, Zenon DEF Busy
<1>3. Target(p) \in Dirs /\ vm[Target(p)] \in SUBSET Slots
  BY <1>1, Tables, Zenon DEF Target, Fits
<1>4. Built(vm[Target(p)], call[p].a, call[p].to)
  BY <1>1, <1>2, Kinds, Zenon DEF Target, Growing, Forking, Execing
<1>5. ~Rooted(vm[Target(p)]) \/ call[p].a < call[p].to
  BY Zenon DEF Needs, Rooted
<1>6. call[p].do = "fork" => Exact(vm[Cur(p)], call[p].to)
  BY <1>1, Kinds, Zenon DEF Forking
<1> QED
  BY <1>2, <1>3, <1>4, <1>5, <1>6, Zenon

(* Neither copyuvm() nor mappages() panics.                                  *)
LEMMA NoMapPanic ==
  ASSUME MemoryInv, NEW p \in Procs, Busy(p), Needs(p),
         CanMap(vm[Target(p)] \cup {Wanted(vm[Target(p)], call[p].a)}, call[p].a)
  PROVE  MapPanic(p, call[p].a) = ""
<1> DEFINE a == call[p].a
           t == vm[Target(p)]
<1>1. /\ t \in SUBSET Slots /\ a \in Nat /\ call[p].to \in Sizes
      /\ Built(t, a, call[p].to) /\ (~Rooted(t) \/ a < call[p].to)
      /\ call[p].do = "fork" => Exact(vm[Cur(p)], call[p].to)
  BY NeedsPage, Zenon
<1>2. a < call[p].to /\ a \div PGSIZE \in VPages /\ Pte(a \div PGSIZE) \notin t
  BY <1>1, MappedOne, Zenon
<1>3. (a \div PGSIZE) * PGSIZE = a
  BY <1>1, Aligned, Zenon DEF Built
<1>4. call[p].do = "fork" => Pte(a \div PGSIZE) \in vm[Cur(p)]
  BY <1>1, <1>2, <1>3, Zenon DEF Exact
<1> QED
  BY <1>2, <1>4, Zenon DEF MapPanic

(* A successful kalloc() preserves the invariant.                            *)
LEMMA KallocStep ==
  ASSUME MemoryInv, NEW p \in Procs, kalloc(p)
  PROVE  MemoryInv'
<1> DEFINE d == Target(p)
           a == call[p].a
           u == vm[d] \cup {Wanted(vm[d], a)}
           c == [call[p] EXCEPT !.a = a + PGSIZE]
<1>1. Fits(proc[p], call[p], vm[Cur(p)], vm[New(p)]) /\ Busy(p) /\ Needs(p)
  BY Zenon DEF MemoryInv, kalloc
<1>2. call[p].do \in {"grow", "fork", "exec"}
  BY <1>1, Kinds, Zenon DEF Busy
<1>3. d \in {Cur(p), New(p)} /\ (d = Cur(p) <=> call[p].do = "grow")
  BY <1>2, Tables, Zenon DEF Target
<1>4. ~Rooted(vm[d]) \/ a < call[p].to
  BY <1>1, NeedsPage, Zenon
<1>5. free' \in Nat
  <2>1. free \in Nat /\ free > 0 /\ free' = free - 1
    BY Zenon DEF MemoryInv, kalloc
  <2> QED
    BY <2>1
<1>6. c.do = call[p].do /\ (c.do = "fork" => c.np = call[p].np)
  <2>1. CASE call[p].do = "grow"
    BY <1>1, <2>1, Kinds DEF Growing, Grow
  <2>2. CASE call[p].do = "fork"
    BY <1>1, <2>2, Kinds, Zenon DEF Forking, Fork
  <2>3. CASE call[p].do = "exec"
    BY <1>1, <2>3, Kinds DEF Execing, Exec
  <2> QED
    BY <1>2, <2>1, <2>2, <2>3, Zenon
<1>7. proc' = proc
  BY Zenon DEF kalloc
<1>8. ASSUME NEW t, NEW e, vm' = [vm EXCEPT ![d] = t], call' = [call EXCEPT ![p] = e],
             e.do = call[p].do, e.do = "fork" => e.np = call[p].np, panic' = "",
             d = Cur(p) => Fits(proc[p], e, t, vm[New(p)]),
             d = New(p) => Fits(proc[p], e, vm[Cur(p)], t)
      PROVE  MemoryInv'
  <2> HIDE DEF d
  <2>0. panic' = "" /\ e.do = call[p].do /\ (e.do = "fork" => e.np = call[p].np)
    BY <1>8, Zenon
  <2>1. /\ vm' = [x \in Dirs |-> vm'[x]] /\ vm'[d] = t
        /\ \A x \in Dirs : x # d => vm'[x] = vm[x]
    BY <1>3, <1>8, Tables, Zenon DEF MemoryInv
  <2>2. /\ call' = [q \in Procs |-> call'[q]] /\ call'[p] = e
        /\ \A q \in Procs \ {p} : call'[q] = call[q]
    BY <1>8, Zenon DEF MemoryInv
  <2>3. proc' = [q \in Procs |-> proc'[q]]
    BY <1>7, Zenon DEF MemoryInv
  <2>4. \A q \in Procs \ {p} : vm'[Cur(q)] = vm[Cur(q)] /\ vm'[New(q)] = vm[New(q)]
    BY <1>3, <2>1, Tables
  <2>5. \A q \in Procs \ {p} : /\ proc'[q] = proc[q] /\ call'[q] = call[q]
                               /\ vm'[Cur(q)] = vm[Cur(q)] /\ vm'[New(q)] = vm[New(q)]
    BY <1>7, <2>2, <2>4, Zenon
  <2>6. Fits(proc'[p], call'[p], vm'[Cur(p)], vm'[New(p)])
    <3>1. CASE d = Cur(p)
      <4>1. vm'[Cur(p)] = t /\ vm'[New(p)] = vm[New(p)]
        BY <2>1, <3>1, Tables, Zenon
      <4> QED
        BY <1>7, <1>8, <2>2, <3>1, <4>1, Zenon
    <3>2. CASE d = New(p)
      <4>1. vm'[New(p)] = t /\ vm'[Cur(p)] = vm[Cur(p)]
        BY <2>1, <3>2, Tables, Zenon
      <4> QED
        BY <1>7, <1>8, <2>2, <3>2, <4>1, Zenon
    <3> QED
      BY <1>3, <3>1, <3>2, Zenon
  <2>7. Children'
    <3>1. \A q \in Procs : call'[q].do = "fork" =>
            /\ call[q].do = "fork" /\ call'[q].np = call[q].np
            /\ proc'[call[q].np].state = "EMBRYO"
      BY <1>7, <2>0, <2>2, ChildSlot, Zenon
    <3> QED
      BY <3>1, ChildrenKept, Zenon DEF MemoryInv
  <2> QED
    BY <1>5, <2>0, <2>1, <2>2, <2>3, <2>5, <2>6, <2>7, FrameOne, Zenon
<1>9. CASE CanMap(u, a)
  <2> DEFINE m == mappages(u, a)
  <2>1. /\ vm' = [vm EXCEPT ![d] = m] /\ panic' = MapPanic(p, a)
        /\ call' = [call EXCEPT ![p] = c]
    BY <1>9, Zenon DEF kalloc, MemoryInv
  <2>2. panic' = ""
    BY <1>1, <1>9, <2>1, NoMapPanic, Zenon
  <2>3. d = Cur(p) => Fits(proc[p], c, m, vm[New(p)])
    BY <1>1, <1>3, <1>4, <1>9, KallocGrow, Zenon
  <2>4. d = New(p) => Fits(proc[p], c, vm[Cur(p)], m)
    BY <1>1, <1>2, <1>3, <1>4, <1>9, Tables, KallocNew, Zenon
  <2> HIDE DEF m, c, d
  <2> QED
    BY <1>6, <1>8, <2>1, <2>2, <2>3, <2>4, Zenon
<1>10. CASE ~CanMap(u, a)
  <2>1. vm' = [vm EXCEPT ![d] = u] /\ panic' = panic /\ call' = call
    BY <1>10, Zenon DEF kalloc
  <2>2. panic' = ""
    BY <2>1, Zenon DEF MemoryInv
  <2>3. d = Cur(p) => Fits(proc[p], call[p], u, vm[New(p)])
    BY <1>1, <1>3, <1>4, <1>10, KallocGrow, Zenon
  <2>4. d = New(p) => Fits(proc[p], call[p], vm[Cur(p)], u)
    BY <1>1, <1>2, <1>3, <1>4, <1>10, Tables, KallocNew, Zenon
  <2>5. call' = [call EXCEPT ![p] = call[p]]
    BY <2>1, Zenon DEF MemoryInv
  <2> HIDE DEF u, d
  <2> QED
    BY <1>8, <2>1, <2>2, <2>3, <2>4, <2>5, Zenon
<1> QED
  BY <1>9, <1>10, Zenon

(* exit() preserves the invariant.                                           *)
LEMMA ExitStep ==
  ASSUME MemoryInv, NEW p \in Procs, exit(p)
  PROVE  MemoryInv'
<1>1. /\ proc[p].state = "RUNNING" /\ call[p].do = "idle"
      /\ UNCHANGED <<free, vm, call, panic>>
      /\ proc' = [q \in Procs |->
                    IF q = p THEN [proc[q] EXCEPT !.state = "ZOMBIE"]
                    ELSE IF proc[q].parent = p THEN [proc[q] EXCEPT !.parent = initproc]
                    ELSE proc[q]]
  BY Zenon DEF exit, Runs, Busy
<1>2. \A q \in Procs : Fits(proc'[q], call'[q], vm'[Cur(q)], vm'[New(q)])
  <2> SUFFICES ASSUME NEW q \in Procs
               PROVE  Fits(proc'[q], call'[q], vm'[Cur(q)], vm'[New(q)])
    BY Zenon
  <2>1. Fits(proc[q], call[q], vm[Cur(q)], vm[New(q)])
    BY Zenon DEF MemoryInv
  <2>2. /\ q = p => Fits([proc[q] EXCEPT !.state = "ZOMBIE"], call[q], vm[Cur(q)], vm[New(q)])
        /\ Fits([proc[q] EXCEPT !.parent = initproc], call[q], vm[Cur(q)], vm[New(q)])
    BY <1>1, <2>1, Exits, Zenon
  <2>3. proc'[q] = IF q = p THEN [proc[q] EXCEPT !.state = "ZOMBIE"]
                   ELSE IF proc[q].parent = p THEN [proc[q] EXCEPT !.parent = initproc]
                   ELSE proc[q]
    BY <1>1, Zenon
  <2>4. call'[q] = call[q] /\ vm'[Cur(q)] = vm[Cur(q)] /\ vm'[New(q)] = vm[New(q)]
    BY <1>1, Zenon
  <2>5. Fits(proc'[q], call[q], vm[Cur(q)], vm[New(q)])
    <3> HIDE <1>1
    <3> QED
      BY <2>1, <2>2, <2>3, Zenon
  <2> QED
    BY <2>4, <2>5, Zenon
<1>3. Children'
  <2>1. ASSUME NEW q \in Procs, q # p PROVE proc'[q].state = proc[q].state
    <3>1. proc[q] \in ProcType
      BY Zenon DEF MemoryInv, Fits
    <3> QED
      BY <1>1, <2>1, <3>1, Zenon DEF ProcType
  <2>2. \A q \in Procs : call'[q].do = "fork" =>
          /\ call[q].do = "fork" /\ call'[q].np = call[q].np
          /\ proc'[call[q].np].state = "EMBRYO"
    BY <1>1, <2>1, ChildSlot
  <2> QED
    BY <2>2, ChildrenKept, Zenon DEF MemoryInv
<1>4. /\ free' \in Nat /\ panic' = "" /\ proc' = [q \in Procs |-> proc'[q]]
      /\ call' = [q \in Procs |-> call'[q]] /\ vm' = [d \in Dirs |-> vm'[d]]
  BY <1>1, Zenon DEF MemoryInv
<1> DEFINE S == Procs
<1>5. /\ S \in SUBSET Procs
      /\ \A q \in Procs \ S : /\ proc'[q] = proc[q] /\ call'[q] = call[q]
                              /\ vm'[Cur(q)] = vm[Cur(q)] /\ vm'[New(q)] = vm[New(q)]
      /\ \A q \in S : Fits(proc'[q], call'[q], vm'[Cur(q)], vm'[New(q)])
  BY <1>2, Zenon
<1> HIDE DEF S
<1> QED
  BY <1>3, <1>4, <1>5, Frame, Zenon

(* wait() preserves the invariant.                                           *)
LEMMA WaitStep ==
  ASSUME TablesFinite, MemoryInv, NEW p \in Procs, wait(p)
  PROVE  MemoryInv'
<1>1. PICK c \in Procs :
        /\ proc[c].state = "ZOMBIE"
        /\ free' = kfree(proc[c].kstack + Cardinality(vm[Cur(c)]))
        /\ vm' = [vm EXCEPT ![Cur(c)] = {}]
        /\ proc' = [proc EXCEPT ![c] = Unused]
  BY Zenon DEF wait
<1>2. call' = call /\ panic' = panic
  BY Zenon DEF wait
<1>3. Fits(proc[c], call[c], vm[Cur(c)], vm[New(c)])
  BY Zenon DEF MemoryInv
<1>4. call[c] = Idle /\ vm[New(c)] = {} /\ proc[c].kstack = 1 /\ Fits(Unused, Idle, {}, {})
  BY <1>1, <1>3, Waits, Zenon
<1>5. /\ proc' = [q \in Procs |-> proc'[q]] /\ proc'[c] = Unused
      /\ \A q \in Procs \ {c} : proc'[q] = proc[q]
  BY <1>1, Zenon DEF MemoryInv
<1>6. /\ vm' = [d \in Dirs |-> vm'[d]] /\ vm'[Cur(c)] = {} /\ vm'[New(c)] = vm[New(c)]
      /\ \A q \in Procs \ {c} : vm'[Cur(q)] = vm[Cur(q)] /\ vm'[New(q)] = vm[New(q)]
  BY <1>1, Tables, Zenon DEF MemoryInv
<1>7. Children'
  <2>1. \A q \in Procs : call[q].do = "fork" => call[q].np # c
    BY <1>1, ChildSlot, Zenon
  <2>2. \A q \in Procs : call'[q].do = "fork" =>
          /\ call[q].do = "fork" /\ call'[q].np = call[q].np
          /\ proc'[call[q].np].state = "EMBRYO"
    BY <1>2, <1>5, <2>1, ChildSlot, Zenon
  <2> QED
    BY <2>2, ChildrenKept, Zenon DEF MemoryInv
<1>8. free' \in Nat
  <2>1. Cardinality(vm[Cur(c)]) \in Nat
    BY <1>3, Zenon DEF Fits, TablesFinite
  <2>2. free \in Nat
    BY Zenon DEF MemoryInv
  <2> QED
    BY <1>1, <1>4, <2>1, <2>2 DEF kfree
<1>9. panic' = "" /\ call' = [q \in Procs |-> call'[q]]
  BY <1>2, Zenon DEF MemoryInv
<1>10. \A q \in Procs \ {c} : /\ proc'[q] = proc[q] /\ call'[q] = call[q]
                             /\ vm'[Cur(q)] = vm[Cur(q)] /\ vm'[New(q)] = vm[New(q)]
  BY <1>2, <1>5, <1>6, Zenon
<1>11. Fits(proc'[c], call'[c], vm'[Cur(c)], vm'[New(c)])
  BY <1>2, <1>4, <1>5, <1>6, Zenon
<1> QED
  BY <1>5, <1>6, <1>7, <1>8, <1>9, <1>10, <1>11, FrameOne, Zenon

(* A range of addresses that lies below sz is mapped.                        *)
LEMMA BelowMapped ==
  ASSUME NEW t, NEW sz \in Sizes, Exact(t, sz), NEW first \in Nat, NEW last \in Int, last < sz,
         NEW v \in (first \div PGSIZE) .. (last \div PGSIZE)
  PROVE  Pte(v) \in t
<1>1. first \div PGSIZE \in Nat
  BY Constants, Division, Zenon
<1>2. last \div PGSIZE \in Int
  BY Constants
<1>3. v \in Nat /\ v <= last \div PGSIZE
  BY <1>1, <1>2
<1>4. last \in Nat
  <2> SUFFICES ASSUME last < 0 PROVE FALSE
    OBVIOUS
  <2>1. last \div PGSIZE < 0
    BY Constants
  <2> QED
    BY <1>2, <1>3, <2>1
<1>5. v * PGSIZE <= last
  <2> DEFINE q == last \div PGSIZE
             r == last % PGSIZE
  <2>1. q \in Nat /\ r \in 0..(PGSIZE - 1) /\ last = PGSIZE * q + r
    BY <1>4, Constants, Division, Zenon
  <2>2. v * PGSIZE \in Int /\ q * PGSIZE \in Int /\ PGSIZE * q = q * PGSIZE
    BY <1>3, <2>1, Constants
  <2>3. ~(q * PGSIZE < v * PGSIZE)
    <3>1. v <= q
      BY <1>3, Zenon
    <3> HIDE DEF q
    <3> QED
      BY <1>3, <2>1, <3>1, PageOrder
  <2> HIDE DEF q, r
  <2> QED
    BY <1>4, <2>1, <2>2, <2>3, Constants
<1>6. v * PGSIZE \in Nat /\ v * PGSIZE < sz /\ v * PGSIZE < KERNBASE
  BY <1>3, <1>4, <1>5, Constants DEF Sizes
<1>7. v \in VPages
  <2>1. KERNBASE \div PGSIZE \in Nat /\ KERNBASE = (KERNBASE \div PGSIZE) * PGSIZE
    BY Constants, Aligned, Zenon
  <2>2. v < KERNBASE \div PGSIZE
    BY <1>3, <1>6, <2>1, PageOrder, Zenon
  <2> QED
    BY <1>3, <2>1, <2>2 DEF VPages
<1> QED
  BY <1>6, <1>7, Zenon DEF Exact

-----------------------------------------------------------------------------
(* Pages are counted by cardinality. *)
INSTANCE FiniteSetTheorems

(* There are finitely many slots.                                            *)
LEMMA SlotsFinite ==
  /\ IsFiniteSet(Slots)
  /\ \A t \in SUBSET Slots : IsFiniteSet(t) /\ Cardinality(t) \in Nat
<1> DEFINE n == KERNBASE \div PGSIZE
<1>1. n \in Nat
  BY Aligned, Constants, Zenon
<1>2. VPages = 0..(n - 1)
  BY Zenon DEF VPages
<1> HIDE DEF n
<1>3. IsFiniteSet(VPages)
  BY <1>1, <1>2, FS_Interval
<1>4. IsFiniteSet({PDX(v) : v \in VPages})
  <2> DEFINE S == {PDX(v) : v \in VPages}
  <2>1. ASSUME NEW v \in VPages PROVE PDX(v) \in Nat /\ PDX(v) <= n
    <3>1. v \in Nat /\ v <= n
      BY <1>1, <1>2
    <3>2. NPTENTRIES \in Nat \ {0}
      BY MemoryAssumption, Zenon
    <3> DEFINE q == v \div NPTENTRIES
               r == v % NPTENTRIES
    <3>3. q \in Nat /\ r \in 0..(NPTENTRIES - 1) /\ v = NPTENTRIES * q + r
      BY <3>1, <3>2, Division, Zenon
    <3>4. PDX(v) = q
      BY Zenon DEF PDX
    <3> HIDE DEF q, r
    <3>5. NPTENTRIES * q >= q
      BY <3>2, <3>3
    <3>6. q <= v
      BY <3>1, <3>2, <3>3, <3>5
    <3> QED
      BY <1>1, <3>1, <3>3, <3>4, <3>6
  <2>2. S \in SUBSET Nat /\ \A s \in S : s <= n
    BY <2>1, Zenon
  <2> HIDE DEF S
  <2>3. IsFiniteSet(S)
    BY <1>1, <2>2, FS_BoundedSetOfNaturals, Zenon
  <2> QED
    BY <2>3, Zenon DEF S
<1>5. IsFiniteSet({"tab"} \X {PDX(v) : v \in VPages}) /\ IsFiniteSet({"pte"} \X VPages)
  BY <1>3, <1>4, FS_Singleton, FS_Product, Zenon
<1>6. IsFiniteSet({<<s, 0>> : s \in {"dir", "ktab", "mem"}})
  <2>1. {<<s, 0>> : s \in {"dir", "ktab", "mem"}} =
          (({} \cup {<<"dir", 0>>}) \cup {<<"ktab", 0>>}) \cup {<<"mem", 0>>}
    BY Zenon
  <2>2. IsFiniteSet({} \cup {<<"dir", 0>>})
    BY FS_EmptySet, FS_AddElement, Zenon
  <2>3. IsFiniteSet(({} \cup {<<"dir", 0>>}) \cup {<<"ktab", 0>>})
    BY <2>2, FS_AddElement, Zenon
  <2>4. IsFiniteSet((({} \cup {<<"dir", 0>>}) \cup {<<"ktab", 0>>}) \cup {<<"mem", 0>>})
    BY <2>3, FS_AddElement, Zenon
  <2> QED
    BY <2>1, <2>4, Zenon
<1>7. IsFiniteSet(Slots)
  BY <1>5, <1>6, FS_Union, Zenon DEF Slots
<1> QED
  BY <1>7, FS_Subset, FS_CardinalityType, Zenon

(* Memory has a number of pages.                                             *)
LEMMA PagesFinite == NPAGES \in Nat
<1>1. ASSUME NEW x \in Nat, NEW y \in Nat PROVE Cardinality(freerange(x, y)) \in Nat
  <2>1. PGROUNDUP(x) \in Int /\ y \in Int
    BY Round
  <2>2. IsFiniteSet(PGROUNDUP(x) .. y)
    BY <2>1, FS_Interval, Zenon
  <2>3. freerange(x, y) \in SUBSET (PGROUNDUP(x) .. y)
    BY Zenon DEF freerange
  <2>4. IsFiniteSet(freerange(x, y))
    BY <2>2, <2>3, FS_Subset, Zenon
  <2> QED
    BY <2>4, FS_CardinalityType, Zenon
<1>2. Cardinality(freerange(end, KINIT)) \in Nat /\ Cardinality(freerange(KINIT, PHYSTOP)) \in Nat
  BY <1>1, MemoryAssumption, Zenon
<1> QED
  BY <1>2 DEF NPAGES

(* What userinit() leaves behind satisfies the invariant.                    *)
LEMMA MemoryInit == Init => MemoryInv
<1> SUFFICES ASSUME Init PROVE MemoryInv
  BY Zenon
<1> DEFINE t == {<<"dir", 0>>, <<"ktab", 0>>, <<"tab", 0>>, Pte(0)}
           pr == [state |-> "RUNNING", kstack |-> 1, sz |-> PGSIZE, parent |-> NULL]
<1>1. free \in Nat
  <2>1. free = NPAGES - 5 /\ NPAGES >= 5
    BY MemoryAssumption, Zenon DEF Init
  <2> QED
    BY <2>1, PagesFinite
<1>2. /\ panic = "" /\ proc = [p \in Procs |-> proc[p]] /\ call = [p \in Procs |-> call[p]]
      /\ vm = [d \in Dirs |-> vm[d]]
  BY Zenon DEF Init
<1>3. \A p \in Procs : call[p] = Idle
  BY Zenon DEF Init
<1>4. Children
  BY <1>3 DEF Children, Idle
<1>5. PGSIZE \in Sizes /\ 0 \in Sizes
  BY Constants DEF Sizes
<1>6. Fits(Unused, Idle, {}, {})
  BY <1>5 DEF Fits, AtRest, Unused, ProcType
<1>7. Fits(pr, Idle, t, {})
  <2>1. pr \in ProcType
    BY <1>5, Zenon DEF ProcType
  <2>2. t \subseteq Slots
    <3>1. <<"tab", 0>> \in Slots
      <4>1. 0 \in VPages /\ PDX(0) = 0
        BY PagesAndSlots, MemoryAssumption DEF PDX
      <4> QED
        BY <4>1, Zenon DEF Slots
    <3> QED
      BY <3>1, PagesAndSlots, Zenon
  <2>3. Exact(t, PGSIZE)
    <3> SUFFICES ASSUME NEW v \in VPages PROVE Pte(v) \in t <=> v * PGSIZE < PGSIZE
      BY Zenon DEF Exact
    <3>1. v \in Nat
      BY PagesAndSlots, Zenon
    <3>2. v * PGSIZE < 1 * PGSIZE <=> v < 1
      BY <3>1, PageOrder, Zenon
    <3>3. 1 * PGSIZE = PGSIZE
      BY Constants
    <3>4. Pte(v) \in t <=> v = 0
      BY Zenon DEF Pte
    <3> QED
      BY <3>1, <3>2, <3>3, <3>4
  <2>4. Mem \notin t /\ Rooted(t)
    BY Zenon DEF Mem, Pte, Rooted
  <2>5. AtRest(pr, Idle, t, {})
    BY <2>3, <2>4, Zenon DEF AtRest
  <2> QED
    BY <2>1, <2>2, <2>5, Zenon DEF Fits
<1>8. ASSUME NEW p \in Procs PROVE Fits(proc[p], call[p], vm[Cur(p)], vm[New(p)])
  <2>1. vm[New(p)] = {} /\ vm[Cur(p)] = IF p = initproc THEN t ELSE {}
    BY Tables, Zenon DEF Init
  <2>2. proc[p] = IF p = initproc THEN pr ELSE Unused
    BY Zenon DEF Init
  <2> QED
    BY <1>3, <1>6, <1>7, <2>1, <2>2, Zenon
<1> QED
  BY <1>1, <1>2, <1>4, <1>8, Zenon DEF MemoryInv

(* Every step preserves the invariant.                                       *)
LEMMA MemoryStep == MemoryInv /\ [Next]_vars => MemoryInv'
<1> SUFFICES ASSUME MemoryInv, [Next]_vars PROVE MemoryInv'
  BY Zenon
<1>0. TablesFinite
  BY SlotsFinite, Zenon DEF TablesFinite
<1>1. CASE UNCHANGED vars
  <2>1. UNCHANGED <<free, proc, vm, call, panic>>
    BY <1>1, Zenon DEF vars
  <2> QED
    BY <2>1, Zenon DEF MemoryInv, Children
<1>2. ASSUME NEW p \in Procs, kalloc_fails(p) PROVE MemoryInv'
  BY <1>0, <1>2, BadStep, Zenon DEF kalloc_fails
<1> QED
  BY <1>0, <1>1, <1>2, SbrkStep, GrowprocStep, ForkStep, ForkDoneStep, ExecStep, ExecLoopStep,
     ExecCommitStep, KallocStep, ExitStep, WaitStep, Zenon DEF Next

(* Whatever sbrk(), fork(), exec(), exit() and wait() do, and whichever      *)
(* kalloc() of theirs fails, every slot of ptable fits its page tables.      *)
THEOREM MemoryInvariant == Spec => []MemoryInv
<1>1. Init => MemoryInv
  BY MemoryInit, Zenon
<1>2. MemoryInv /\ [Next]_vars => MemoryInv'
  BY MemoryStep, Zenon
<1> QED
  BY <1>1, <1>2, PTL DEF Spec

(* growproc(), copyuvm() and exec() keep the pages of a process equal to     *)
(* those below sz, so copyuvm() and mappages() never panic.                  *)
THEOREM SizesMapped == Spec => []SizeMapped
<1>1. MemoryInv => SizeMapped
  <2> SUFFICES ASSUME MemoryInv, NEW p \in Procs,
                      proc[p].state = "RUNNING", call[p].do # "grow", ~Faults(p)
               PROVE  \A v \in VPages : Pte(v) \in vm[Cur(p)] <=> v * PGSIZE < proc[p].sz
    BY Zenon DEF SizeMapped, MemoryInv
  <2>1. Fits(proc[p], call[p], vm[Cur(p)], vm[New(p)]) /\ Pte(0) \in vm[Cur(p)]
    BY Zenon DEF MemoryInv, Faults
  <2>2. Exact(vm[Cur(p)], proc[p].sz)
    BY <2>1, Kinds, Zenon DEF AtRest, Forking, Execing
  <2> QED
    BY <2>2, Zenon DEF Exact
<1> QED
  BY <1>1, MemoryInvariant, PTL

(* The pointers that argptr(), fetchint() and fetchstr() accept are mapped.  *)
THEOREM PointersMapped == Spec => []ArgumentsMapped
<1>1. MemoryInv => ArgumentsMapped
  <2> SUFFICES ASSUME MemoryInv, NEW p \in Procs, Calls(p), NEW addr \in 0 .. (UINT - 1)
               PROVE  /\ fetchint(p, addr) => Mapped(p, addr, addr + 3)
                      /\ \A n \in {0, 1, PGSIZE, UINT \div 2 - 1} :
                           /\ argptr(p, addr, n) => Mapped(p, addr, addr + n - 1)
                           /\ fetchstr(p, addr, n) => Mapped(p, addr, addr + n)
    BY Zenon DEF ArgumentsMapped
  <2> DEFINE sz == proc[p].sz
  <2>1. /\ Fits(proc[p], Idle, vm[Cur(p)], vm[New(p)]) /\ Pte(0) \in vm[Cur(p)]
        /\ proc[p].state = "RUNNING"
    BY CallsFirst, Zenon
  <2>2. sz \in Sizes /\ Exact(vm[Cur(p)], sz)
    <3>1. proc[p] \in ProcType /\ AtRest(proc[p], Idle, vm[Cur(p)], vm[New(p)])
      BY <2>1, Kinds, Zenon DEF Fits, Idle
    <3>2. Exact(vm[Cur(p)], sz)
      BY <2>1, <3>1, Zenon DEF AtRest
    <3> QED
      BY <3>1, <3>2, Zenon DEF ProcType
  <2>3. UINT \in Nat /\ KERNBASE \in Nat /\ 2 * KERNBASE <= UINT /\ 4 <= PGSIZE
        /\ PGSIZE \in Nat /\ PGSIZE < KERNBASE
    BY MemoryAssumption, Zenon
  <2>4. addr \in Nat /\ sz \in Nat /\ sz < KERNBASE
    BY <2>2, <2>3 DEF Sizes
  <2>5. ASSUME NEW last \in Int, last < sz PROVE Mapped(p, addr, last)
    <3> HIDE DEF sz
    <3> QED
      BY <2>2, <2>4, <2>5, BelowMapped, Zenon DEF Mapped
  <2>6. \A n \in {0, 1, 4, PGSIZE, UINT \div 2 - 1} : n \in Nat /\ 2 * n <= UINT
    BY <2>3
  <2>7. ASSUME NEW n \in {0, 1, 4, PGSIZE, UINT \div 2 - 1}, addr < sz
        PROVE  (addr + n) % UINT = addr + n
    <3>0. n \in Nat /\ 2 * n <= UINT /\ addr < KERNBASE
      BY <2>3, <2>4, <2>6, <2>7
    <3>1. addr + n \in Nat /\ addr + n < UINT
      <4> HIDE DEF sz
      <4> QED
        BY <2>3, <2>4, <3>0
    <3>2. UINT \in Nat \ {0}
      BY <2>3
    <3> DEFINE x == addr + n
    <3>3. x \in Nat /\ x < UINT
      BY <3>1, Zenon
    <3> HIDE DEF x
    <3>4. x % UINT = x
      BY <3>2, <3>3, Modulo, Zenon
    <3> QED
      BY <3>4, Zenon DEF x
  <2>8. fetchint(p, addr) => Mapped(p, addr, addr + 3)
    BY <2>4, <2>5, <2>7 DEF fetchint
  <2>9. ASSUME NEW n \in {0, 1, PGSIZE, UINT \div 2 - 1}
        PROVE  /\ argptr(p, addr, n) => Mapped(p, addr, addr + n - 1)
               /\ fetchstr(p, addr, n) => Mapped(p, addr, addr + n)
    <3>1. n \in Nat
      BY <2>6, Zenon
    <3>2. argptr(p, addr, n) => addr + n - 1 \in Int /\ addr + n - 1 < sz
      BY <2>4, <2>7, <3>1 DEF argptr
    <3>3. fetchstr(p, addr, n) => addr + n \in Int /\ addr + n < sz
      BY <2>4, <3>1 DEF fetchstr
    <3> QED
      BY <2>5, <3>2, <3>3, Zenon
  <2> QED
    BY <2>8, <2>9, Zenon
<1> QED
  BY <1>1, MemoryInvariant, PTL

-----------------------------------------------------------------------------
(* The pages that the tables f of the directories D hold.                    *)
Pages(f, D) == {e \in D \X Slots : e[2] \in f[e[1]]}

(* Page tables are finite, and what is taken out of one counts.              *)
LEMMA TableSizes ==
  ASSUME NEW u \in SUBSET Slots, NEW t \in SUBSET u
  PROVE  /\ Cardinality(u) \in Nat /\ Cardinality(t) \in Nat
         /\ Cardinality(u \ t) = Cardinality(u) - Cardinality(t)
<1>1. IsFiniteSet(u) /\ Cardinality(u) \in Nat /\ Cardinality(t) \in Nat
  BY SlotsFinite, Zenon
<1>2. Cardinality(u \ t) = Cardinality(u) - Cardinality(u \cap t)
  BY <1>1, FS_Difference, Zenon
<1>3. u \cap t = t
  BY Zenon
<1> QED
  BY <1>1, <1>2, <1>3, Zenon

(* The pages of a table and those of the others make up all.                 *)
LEMMA OneAndOthers ==
  ASSUME NEW f, NEW d \in Dirs, f[d] \subseteq Slots
  PROVE  /\ IsFiniteSet(Pages(f, Dirs)) /\ Cardinality(Pages(f, Dirs \ {d})) \in Nat
         /\ Cardinality(Pages(f, Dirs)) = Cardinality(Pages(f, Dirs \ {d})) + Cardinality(f[d])
<1> DEFINE A == Pages(f, Dirs)
           B == Pages(f, Dirs \ {d})
           T == {d} \X f[d]
<1>1. IsFiniteSet(Dirs \X Slots)
  <2>1. IsFiniteSet({"cur", "new"})
    <3>1. IsFiniteSet({"cur"}) /\ {"cur", "new"} = {"cur"} \cup {"new"}
      BY FS_Singleton, Zenon
    <3> QED
      BY <3>1, FS_AddElement, Zenon
  <2>2. IsFiniteSet(Dirs)
    BY <2>1, MemoryAssumption, FS_Product, Zenon DEF Dirs
  <2> QED
    BY <2>2, SlotsFinite, FS_Product, Zenon
<1>2. A \in SUBSET (Dirs \X Slots) /\ B \in SUBSET (Dirs \X Slots)
  BY Zenon DEF Pages
<1>3. IsFiniteSet(A) /\ IsFiniteSet(B) /\ Cardinality(B) \in Nat
  BY <1>1, <1>2, FS_Subset, FS_CardinalityType, Zenon
<1>4. IsFiniteSet(T) /\ Cardinality(T) = Cardinality(f[d])
  <2>1. IsFiniteSet(f[d]) /\ Cardinality(f[d]) \in Nat
    BY SlotsFinite, Zenon
  <2>2. IsFiniteSet({d}) /\ Cardinality({d}) = 1
    BY FS_Singleton, Zenon
  <2>3. IsFiniteSet(T) /\ Cardinality(T) = Cardinality({d}) * Cardinality(f[d])
    BY <2>1, <2>2, FS_Product, Zenon
  <2> QED
    BY <2>1, <2>2, <2>3
<1>5. A = B \cup T
  <2>1. ASSUME NEW e PROVE e \in A <=> e \in B \cup T
    BY Zenon DEF Pages
  <2> HIDE DEF A, B, T
  <2> QED
    BY <2>1, Zenon
<1>6. B \cap T = {}
  BY Zenon DEF Pages
<1>7. Cardinality(B \cup T) = Cardinality(B) + Cardinality(T) - Cardinality(B \cap T)
  BY <1>3, <1>4, FS_Union, Zenon
<1>8. Cardinality(B \cap T) = 0 /\ Cardinality(f[d]) \in Nat
  BY <1>6, FS_EmptySet, SlotsFinite, Zenon
<1> HIDE DEF A, B, T
<1>9. Cardinality(A) = Cardinality(B) + Cardinality(f[d])
  BY <1>3, <1>4, <1>5, <1>7, <1>8
<1> QED
  BY <1>3, <1>9, Zenon DEF A, B

(* When one table is replaced, the pages in use change by the difference.    *)
LEMMA OneReplaced ==
  ASSUME NEW f, NEW g, NEW d \in Dirs, f[d] \subseteq Slots, g[d] \subseteq Slots,
         \A x \in Dirs : x # d => g[x] = f[x]
  PROVE  /\ Cardinality(Pages(f, Dirs)) \in Nat /\ Cardinality(Pages(g, Dirs)) \in Nat
         /\ Cardinality(f[d]) \in Nat /\ Cardinality(g[d]) \in Nat
         /\ Cardinality(Pages(g, Dirs)) + Cardinality(f[d])
              = Cardinality(Pages(f, Dirs)) + Cardinality(g[d])
<1>1. Pages(f, Dirs \ {d}) = Pages(g, Dirs \ {d})
  <2>1. ASSUME NEW e PROVE e \in Pages(f, Dirs \ {d}) <=> e \in Pages(g, Dirs \ {d})
    BY Zenon DEF Pages
  <2> QED
    BY <2>1, Zenon
<1>2. Cardinality(f[d]) \in Nat /\ Cardinality(g[d]) \in Nat
  BY SlotsFinite, Zenon
<1>3. /\ Cardinality(Pages(f, Dirs \ {d})) \in Nat
      /\ Cardinality(Pages(f, Dirs)) = Cardinality(Pages(f, Dirs \ {d})) + Cardinality(f[d])
      /\ Cardinality(Pages(g, Dirs)) = Cardinality(Pages(g, Dirs \ {d})) + Cardinality(g[d])
  BY OneAndOthers, Zenon
<1> QED
  BY <1>1, <1>2, <1>3

(* The same when a table moves to an empty place and leaves none behind.     *)
LEMMA Moved ==
  ASSUME NEW f, NEW g, NEW c \in Dirs, NEW n \in Dirs, c # n,
         f[c] \subseteq Slots, f[n] \subseteq Slots, g[c] = f[n], g[n] = {},
         \A x \in Dirs : x # c /\ x # n => g[x] = f[x]
  PROVE  /\ Cardinality(Pages(f, Dirs)) \in Nat /\ Cardinality(Pages(g, Dirs)) \in Nat
         /\ Cardinality(f[c]) \in Nat
         /\ Cardinality(Pages(g, Dirs)) + Cardinality(f[c]) = Cardinality(Pages(f, Dirs))
<1> DEFINE h == [x \in Dirs |-> IF x = c THEN f[n] ELSE f[x]]
<1>1. /\ h[c] = f[n] /\ h[n] = f[n] /\ \A x \in Dirs : x # c => h[x] = f[x]
      /\ \A x \in Dirs : x # n => g[x] = h[x]
  BY Zenon
<1>2. h[c] \subseteq Slots /\ h[n] \subseteq Slots /\ g[n] \subseteq Slots
  BY <1>1, Zenon
<1> HIDE DEF h
<1>3. /\ Cardinality(Pages(f, Dirs)) \in Nat /\ Cardinality(Pages(h, Dirs)) \in Nat
      /\ Cardinality(f[c]) \in Nat /\ Cardinality(h[c]) \in Nat
      /\ Cardinality(Pages(h, Dirs)) + Cardinality(f[c])
           = Cardinality(Pages(f, Dirs)) + Cardinality(h[c])
  BY <1>1, <1>2, OneReplaced, Zenon
<1>4. /\ Cardinality(Pages(g, Dirs)) \in Nat
      /\ Cardinality(Pages(g, Dirs)) + Cardinality(h[n])
           = Cardinality(Pages(h, Dirs)) + Cardinality(g[n])
  <2>1. \A x \in Dirs : x # n => g[x] = h[x]
    BY <1>1, Zenon
  <2> QED
    BY <1>2, <2>1, OneReplaced, Zenon
<1>5. Cardinality(g[n]) = 0 /\ h[n] = h[c]
  BY <1>1, FS_EmptySet, Zenon
<1> QED
  BY <1>3, <1>4, <1>5

(* The pages of the page tables, counted as one set.                         *)
LEMMA InUse ==
  ASSUME NEW f, \A p \in Procs : f[Cur(p)] \subseteq Slots /\ f[New(p)] \subseteq Slots
  PROVE  /\ \A d \in Dirs : f[d] \subseteq Slots
         /\ UNION {{d} \X f[d] : d \in Dirs} = Pages(f, Dirs)
<1>1. ASSUME NEW d \in Dirs PROVE f[d] \subseteq Slots
  <2>1. PICK p \in Procs : d = Cur(p) \/ d = New(p)
    BY DEF Dirs, Cur, New
  <2> QED
    BY <2>1, Zenon
<1>2. ASSUME NEW e
      PROVE  e \in UNION {{d} \X f[d] : d \in Dirs} <=> e \in Pages(f, Dirs)
  <2>1. e \in UNION {{d} \X f[d] : d \in Dirs} <=> \E d \in Dirs : e \in {d} \X f[d]
    BY Zenon
  <2>2. (\E d \in Dirs : e \in {d} \X f[d]) <=> e \in Pages(f, Dirs)
    BY <1>1, Zenon DEF Pages
  <2> QED
    BY <2>1, <2>2, Zenon
<1> QED
  BY <1>1, <1>2, Zenon

(* A step that replaces one page table.                                      *)
LEMMA OneTable ==
  ASSUME MemoryInv, MemoryInv', NEW d \in Dirs, \A x \in Dirs : x # d => vm'[x] = vm[x]
  PROVE  /\ Cardinality(PageTables) \in Nat /\ Cardinality(PageTables') \in Nat
         /\ vm[d] \in SUBSET Slots /\ vm'[d] \in SUBSET Slots
         /\ Cardinality(vm[d]) \in Nat /\ Cardinality(vm'[d]) \in Nat
         /\ Cardinality(PageTables') + Cardinality(vm[d])
              = Cardinality(PageTables) + Cardinality(vm'[d])
<1> DEFINE f == vm
           g == vm'
<1>1. /\ \A p \in Procs : f[Cur(p)] \subseteq Slots /\ f[New(p)] \subseteq Slots
      /\ \A p \in Procs : g[Cur(p)] \subseteq Slots /\ g[New(p)] \subseteq Slots
  BY Zenon DEF MemoryInv, Fits
<1>2. PageTables = UNION {{x} \X f[x] : x \in Dirs} /\ PageTables' = UNION {{x} \X g[x] : x \in Dirs}
  BY Zenon DEF PageTables
<1>3. \A x \in Dirs : x # d => g[x] = f[x]
  BY Zenon
<1> HIDE DEF f, g
<1>4. /\ f[d] \subseteq Slots /\ g[d] \subseteq Slots
      /\ PageTables = Pages(f, Dirs) /\ PageTables' = Pages(g, Dirs)
  BY <1>1, <1>2, InUse, Zenon
<1>5. /\ Cardinality(Pages(f, Dirs)) \in Nat /\ Cardinality(Pages(g, Dirs)) \in Nat
      /\ Cardinality(f[d]) \in Nat /\ Cardinality(g[d]) \in Nat
      /\ Cardinality(Pages(g, Dirs)) + Cardinality(f[d])
           = Cardinality(Pages(f, Dirs)) + Cardinality(g[d])
  BY <1>3, <1>4, OneReplaced, Zenon
<1> QED
  BY <1>4, <1>5, Zenon DEF f, g

(* A step that moves the table n to c.                                       *)
LEMMA TableMoved ==
  ASSUME MemoryInv, MemoryInv', NEW c \in Dirs, NEW n \in Dirs, c # n,
         vm'[c] = vm[n], vm'[n] = {}, \A x \in Dirs : x # c /\ x # n => vm'[x] = vm[x]
  PROVE  /\ Cardinality(PageTables) \in Nat /\ Cardinality(PageTables') \in Nat
         /\ Cardinality(vm[c]) \in Nat
         /\ Cardinality(PageTables') + Cardinality(vm[c]) = Cardinality(PageTables)
<1> DEFINE f == vm
           g == vm'
<1>1. /\ \A p \in Procs : f[Cur(p)] \subseteq Slots /\ f[New(p)] \subseteq Slots
      /\ \A p \in Procs : g[Cur(p)] \subseteq Slots /\ g[New(p)] \subseteq Slots
  BY Zenon DEF MemoryInv, Fits
<1>2. PageTables = UNION {{x} \X f[x] : x \in Dirs} /\ PageTables' = UNION {{x} \X g[x] : x \in Dirs}
  BY Zenon DEF PageTables
<1>3. g[c] = f[n] /\ g[n] = {} /\ \A x \in Dirs : x # c /\ x # n => g[x] = f[x]
  BY Zenon
<1> HIDE DEF f, g
<1>4. /\ f[c] \subseteq Slots /\ f[n] \subseteq Slots
      /\ PageTables = Pages(f, Dirs) /\ PageTables' = Pages(g, Dirs)
  BY <1>1, <1>2, InUse, Zenon
<1>5. /\ Cardinality(Pages(f, Dirs)) \in Nat /\ Cardinality(Pages(g, Dirs)) \in Nat
      /\ Cardinality(f[c]) \in Nat
      /\ Cardinality(Pages(g, Dirs)) + Cardinality(f[c]) = Cardinality(Pages(f, Dirs))
  BY <1>3, <1>4, Moved, Zenon
<1> QED
  BY <1>4, <1>5, Zenon DEF f, g

(* The pages in use are finitely many.                                       *)
LEMMA Counted ==
  ASSUME MemoryInv
  PROVE  Cardinality(PageTables) \in Nat /\ Cardinality(Stacks) \in Nat /\ IsFiniteSet(Stacks)
<1>1. Stacks \in SUBSET Procs
  BY Zenon DEF Stacks
<1>2. IsFiniteSet(Stacks) /\ Cardinality(Stacks) \in Nat
  BY <1>1, MemoryAssumption, FS_Subset, FS_CardinalityType, Zenon
<1> DEFINE f == vm
<1>3. \A p \in Procs : f[Cur(p)] \subseteq Slots /\ f[New(p)] \subseteq Slots
  BY Zenon DEF MemoryInv, Fits
<1>4. PageTables = UNION {{x} \X f[x] : x \in Dirs} /\ Cur(initproc) \in Dirs
  BY MemoryAssumption, Tables, Zenon DEF PageTables
<1> HIDE DEF f
<1>5. PageTables = Pages(f, Dirs) /\ f[Cur(initproc)] \subseteq Slots
  BY <1>3, <1>4, InUse, Zenon
<1>6. IsFiniteSet(PageTables)
  BY <1>4, <1>5, OneAndOthers, Zenon
<1> QED
  BY <1>2, <1>6, FS_CardinalityType, Zenon

(* A step that leaves every kernel stack where it is.                        *)
LEMMA StacksKept ==
  ASSUME \A q \in Procs : proc'[q].kstack = proc[q].kstack
  PROVE  Stacks' = Stacks
<1>1. ASSUME NEW q PROVE q \in Stacks' <=> q \in Stacks
  BY Zenon DEF Stacks
<1> QED
  BY <1>1, Zenon

(* fork() takes a kernel stack for the child.                                *)
LEMMA StackTaken ==
  ASSUME MemoryInv, NEW c \in Procs, proc[c].kstack = 0, proc'[c].kstack = 1,
         \A q \in Procs \ {c} : proc'[q] = proc[q]
  PROVE  Cardinality(Stacks') = Cardinality(Stacks) + 1
<1>1. ASSUME NEW q PROVE q \in Stacks' <=> q \in Stacks \cup {c}
  BY Zenon DEF Stacks
<1>2. Stacks' = Stacks \cup {c} /\ c \notin Stacks
  BY <1>1 DEF Stacks
<1> QED
  BY <1>2, Counted, FS_AddElement, Zenon

(* A failing fork(), or wait(), gives the child's kernel stack back.         *)
LEMMA StackFreed ==
  ASSUME MemoryInv, NEW c \in Procs, proc[c].kstack = 1, proc'[c].kstack = 0,
         \A q \in Procs \ {c} : proc'[q] = proc[q]
  PROVE  Cardinality(Stacks') = Cardinality(Stacks) - 1
<1>1. ASSUME NEW q PROVE q \in Stacks' <=> q \in Stacks \ {c}
  BY DEF Stacks
<1>2. Stacks' = Stacks \ {c} /\ c \in Stacks
  BY <1>1, Zenon DEF Stacks
<1> QED
  BY <1>2, Counted, FS_RemoveElement, Zenon

Total == free + Cardinality(PageTables) + Cardinality(Stacks)

(* A step that touches neither a table, a stack nor the free list.           *)
LEMMA NothingTaken ==
  ASSUME MemoryInv, free' = free, vm' = vm, \A q \in Procs : proc'[q].kstack = proc[q].kstack
  PROVE  Total' = Total
<1>1. Stacks' = Stacks
  BY StacksKept, Zenon
<1>2. PageTables' = PageTables
  BY Zenon DEF PageTables
<1> QED
  BY <1>1, <1>2, Zenon DEF Total

(* sbrk() hands as many pages to kfree() as it takes out of the table.       *)
LEMMA SbrkPages ==
  ASSUME MemoryInv, MemoryInv', NEW p \in Procs, sys_sbrk(p)
  PROVE  Total' = Total
<1>0. \A q \in Procs : proc[q] \in ProcType
  BY Zenon DEF MemoryInv, Fits
<1>1. CASE UNCHANGED <<free, proc, vm>>
  BY <1>1, NothingTaken, Zenon
<1>2. ASSUME NEW newsz, NEW sz,
             vm' = [vm EXCEPT ![Cur(p)] = deallocuvm(@, sz, newsz)],
             free' = kfree(Cardinality(vm[Cur(p)] \ vm'[Cur(p)])),
             proc' = [proc EXCEPT ![p].sz = ShrunkSize(p, newsz)]
      PROVE  Total' = Total
  <2> DEFINE d == Cur(p)
  <2>1. d \in Dirs
    BY Tables, Zenon
  <2>2. /\ vm'[d] = deallocuvm(vm[d], sz, newsz)
        /\ \A x \in Dirs : x # d => vm'[x] = vm[x]
    BY <1>2, <2>1, Zenon DEF MemoryInv
  <2>3. vm'[d] \subseteq vm[d]
    BY <2>2, Zenon DEF deallocuvm
  <2>4. \A q \in Procs : proc'[q].kstack = proc[q].kstack
    BY <1>0, <1>2, Zenon DEF MemoryInv, ProcType
  <2>5. Stacks' = Stacks
    BY <2>4, StacksKept, Zenon
  <2> HIDE DEF d
  <2>6. /\ Cardinality(PageTables) \in Nat /\ Cardinality(PageTables') \in Nat
        /\ vm[d] \in SUBSET Slots /\ Cardinality(vm[d]) \in Nat /\ Cardinality(vm'[d]) \in Nat
        /\ Cardinality(PageTables') + Cardinality(vm[d])
             = Cardinality(PageTables) + Cardinality(vm'[d])
    BY <2>1, <2>2, OneTable, Zenon
  <2>7. Cardinality(vm[d] \ vm'[d]) = Cardinality(vm[d]) - Cardinality(vm'[d])
    BY <2>3, <2>6, TableSizes, Zenon
  <2>8. free \in Nat /\ free' = free + Cardinality(vm[d] \ vm'[d])
    BY <1>2, Zenon DEF d, kfree, MemoryInv
  <2>9. Cardinality(Stacks) \in Nat
    BY Counted, Zenon
  <2> QED
    <3>1. free' = free + (Cardinality(vm[d]) - Cardinality(vm'[d]))
      BY <2>7, <2>8, Zenon
    <3>2. Cardinality(PageTables') = Cardinality(PageTables) - (Cardinality(vm[d]) - Cardinality(vm'[d]))
      BY <2>6
    <3>3. free' + Cardinality(PageTables') = free + Cardinality(PageTables)
      BY <2>6, <2>8, <3>1, <3>2
    <3> QED
      BY <2>5, <3>3, Zenon DEF Total
<1> QED
  BY <1>1, <1>2, Zenon DEF sys_sbrk

(* The error paths give back what the call had taken.                        *)
LEMMA BadPages ==
  ASSUME MemoryInv, MemoryInv', NEW p \in Procs, Busy(p), bad(p)
  PROVE  Total' = Total
<1> DEFINE t == IF call[p].do = "grow" THEN UndoGrow(p) ELSE {}
           d == Target(p)
           k == IF call[p].do = "fork" THEN 1 ELSE 0
<1>1. d \in Dirs
  BY Tables, Zenon DEF Target
<1>2. vm' = [vm EXCEPT ![d] = t] /\ free' = kfree(Cardinality(vm[d] \ t) + k)
  BY Zenon DEF bad
<1>3. t \subseteq vm[d]
  BY Zenon DEF UndoGrow, deallocuvm, Target
<1>4. k \in Nat
  BY Zenon
<1>5. Cardinality(Stacks') + k = Cardinality(Stacks) /\ Cardinality(Stacks) \in Nat
  <2>1. Cardinality(Stacks) \in Nat
    BY Counted, Zenon
  <2>2. CASE call[p].do # "fork"
    <3>1. proc' = proc
      BY <2>2, Zenon DEF bad
    <3>2. Stacks' = Stacks
      BY <3>1, Zenon DEF Stacks
    <3> QED
      BY <2>1, <2>2, <3>2
  <2>3. CASE call[p].do = "fork"
    <3> DEFINE np == call[p].np
    <3>1. np \in Procs /\ proc[np].state = "EMBRYO"
      BY <2>3, ChildSlot, Zenon
    <3>2. proc[np] \in ProcType /\ proc[np].kstack = 1
      BY <3>1, Zenon DEF MemoryInv, Fits
    <3>3. proc' = [proc EXCEPT ![np].state = "UNUSED", ![np].kstack = 0]
      BY <2>3, Zenon DEF bad
    <3>4. proc'[np].kstack = 0 /\ \A q \in Procs \ {np} : proc'[q] = proc[q]
      BY <3>1, <3>2, <3>3, Zenon DEF MemoryInv, ProcType
    <3> HIDE DEF np
    <3>5. Cardinality(Stacks') = Cardinality(Stacks) - 1
      BY <3>1, <3>2, <3>4, StackFreed, Zenon
    <3> QED
      BY <2>1, <2>3, <3>5
  <2> QED
    BY <2>2, <2>3, Zenon
<1> HIDE DEF t, d, k
<1>6. vm'[d] = t /\ \A x \in Dirs : x # d => vm'[x] = vm[x]
  BY <1>1, <1>2, Zenon DEF MemoryInv
<1>7. /\ Cardinality(PageTables) \in Nat /\ Cardinality(PageTables') \in Nat
      /\ vm[d] \in SUBSET Slots /\ Cardinality(vm[d]) \in Nat /\ Cardinality(t) \in Nat
      /\ Cardinality(PageTables') + Cardinality(vm[d]) = Cardinality(PageTables) + Cardinality(t)
  BY <1>1, <1>6, OneTable, Zenon
<1>8. Cardinality(vm[d] \ t) = Cardinality(vm[d]) - Cardinality(t)
  BY <1>3, <1>7, TableSizes, Zenon
<1>9. free \in Nat /\ free' = free + (Cardinality(vm[d] \ t) + k)
  BY <1>2, Zenon DEF kfree, MemoryInv
<1>10. Cardinality(Stacks') = Cardinality(Stacks) - k
  <2>1. Cardinality(Stacks') \in Int
    <3>1. Stacks' \in SUBSET Procs
      BY Zenon DEF Stacks
    <3> DEFINE S == Stacks'
    <3> HIDE DEF S
    <3>2. S \in SUBSET Procs
      BY <3>1, Zenon DEF S
    <3>3. IsFiniteSet(S) /\ Cardinality(S) \in Nat
      BY <3>2, MemoryAssumption, FS_Subset, FS_CardinalityType, Zenon
    <3> QED
      BY <3>3 DEF S
  <2> QED
    BY <1>4, <1>5, <2>1
<1> QED
  <2>1. free' = free + ((Cardinality(vm[d]) - Cardinality(t)) + k)
    BY <1>8, <1>9, Zenon
  <2>2. Cardinality(PageTables') = Cardinality(PageTables) - (Cardinality(vm[d]) - Cardinality(t))
    BY <1>7
  <2> QED
    BY <1>4, <1>5, <1>7, <1>9, <1>10, <2>1, <2>2 DEF Total

(* The page of a kalloc() is one more page of the table, in hand or mapped.  *)
LEMMA PageAdded ==
  ASSUME NEW t \in SUBSET Slots, NEW a \in Nat, NEW to \in Sizes, Built(t, a, to),
         ~Rooted(t) \/ a < to
  PROVE  LET u == t \cup {Wanted(t, a)}
         IN  /\ Cardinality(u) = Cardinality(t) + 1
             /\ CanMap(u, a) => Cardinality(mappages(u, a)) = Cardinality(t) + 1
<1> DEFINE w == Wanted(t, a)
           u == t \cup {w}
           s == u \ {Mem}
           e == Pte(a \div PGSIZE)
<1>1. w \in Slots \ t
  BY WantedFree, Zenon
<1>2. IsFiniteSet(t) /\ Cardinality(t) \in Nat
  BY SlotsFinite, Zenon
<1> HIDE DEF w
<1>3. IsFiniteSet(u) /\ Cardinality(u) = Cardinality(t) + 1
  BY <1>1, <1>2, FS_AddElement, Zenon
<1>4. ASSUME CanMap(u, a) PROVE Cardinality(mappages(u, a)) = Cardinality(t) + 1
  <2>1. Mem \in u /\ e \notin u
    BY <1>4, MappedOne, Zenon DEF CanMap, w
  <2> HIDE DEF u, e
  <2>2. IsFiniteSet(s) /\ Cardinality(s) = Cardinality(u) - 1 /\ e \notin s
    BY <1>3, <2>1, FS_RemoveElement, Zenon
  <2> HIDE DEF s
  <2>3. Cardinality(s \cup {e}) = Cardinality(s) + 1
    BY <2>2, FS_AddElement, Zenon
  <2>4. mappages(u, a) = s \cup {e}
    BY Zenon DEF mappages, s, e
  <2> QED
    BY <1>2, <1>3, <2>2, <2>3, <2>4
<1> QED
  BY <1>3, <1>4, Zenon DEF w

(* kalloc() moves one page from the free list to a table.                    *)
LEMMA KallocPages ==
  ASSUME MemoryInv, MemoryInv', NEW p \in Procs, kalloc(p)
  PROVE  Total' = Total
<1> DEFINE d == Target(p)
           a == call[p].a
           u == vm[d] \cup {Wanted(vm[d], a)}
<1>1. Busy(p) /\ Needs(p)
  BY Zenon DEF kalloc
<1>2. /\ d \in Dirs /\ vm[d] \in SUBSET Slots /\ a \in Nat /\ call[p].to \in Sizes
      /\ Built(vm[d], a, call[p].to) /\ (~Rooted(vm[d]) \/ a < call[p].to)
  BY <1>1, NeedsPage, Zenon
<1>3. vm' = [vm EXCEPT ![d] = IF CanMap(u, a) THEN mappages(u, a) ELSE u]
  BY Zenon DEF kalloc
<1>4. proc' = proc /\ free' = free - 1 /\ free > 0
  BY Zenon DEF kalloc
<1> HIDE DEF d, a
<1>5. /\ Cardinality(u) = Cardinality(vm[d]) + 1
      /\ CanMap(u, a) => Cardinality(mappages(u, a)) = Cardinality(vm[d]) + 1
  BY <1>2, PageAdded, Zenon
<1> HIDE DEF u
<1>6. /\ vm'[d] = (IF CanMap(u, a) THEN mappages(u, a) ELSE u)
      /\ \A x \in Dirs : x # d => vm'[x] = vm[x]
  BY <1>2, <1>3, Zenon DEF MemoryInv
<1>7. Cardinality(vm'[d]) = Cardinality(vm[d]) + 1
  BY <1>5, <1>6, Zenon
<1>8. /\ Cardinality(PageTables) \in Nat /\ Cardinality(PageTables') \in Nat
      /\ Cardinality(vm[d]) \in Nat
      /\ Cardinality(PageTables') + Cardinality(vm[d])
           = Cardinality(PageTables) + Cardinality(vm'[d])
  BY <1>2, <1>6, OneTable, Zenon
<1>9. Stacks' = Stacks /\ Cardinality(Stacks) \in Nat
  BY <1>4, StacksKept, Counted, Zenon
<1>10. free \in Nat
  BY Zenon DEF MemoryInv
<1> QED
  BY <1>4, <1>7, <1>8, <1>9, <1>10 DEF Total

(* allocproc() moves one page from the free list to a kernel stack.          *)
LEMMA ForkPages ==
  ASSUME MemoryInv, MemoryInv', NEW p \in Procs, fork(p)
  PROVE  Total' = Total
<1>1. PICK np \in Procs :
         /\ proc[np].state = "UNUSED"
         /\ proc' = [proc EXCEPT ![np].state = "EMBRYO", ![np].kstack = 1]
  BY Zenon DEF fork
<1>2. proc[np] \in ProcType /\ proc[np].kstack = 0
  BY <1>1, Zenon DEF MemoryInv, Fits, ProcType
<1>3. proc'[np].kstack = 1 /\ \A q \in Procs \ {np} : proc'[q] = proc[q]
  BY <1>1, <1>2, Zenon DEF MemoryInv, ProcType
<1>4. Cardinality(Stacks') = Cardinality(Stacks) + 1
  BY <1>2, <1>3, StackTaken, Zenon
<1>5. vm' = vm /\ free' = free - 1
  BY Zenon DEF fork
<1>6. PageTables' = PageTables
  BY <1>5, Zenon DEF PageTables
<1>7. free \in Nat /\ Cardinality(PageTables) \in Nat /\ Cardinality(Stacks) \in Nat
  BY Counted, Zenon DEF MemoryInv
<1> QED
  BY <1>4, <1>5, <1>6, <1>7 DEF Total

(* The end of fork() moves the copy to the child.                            *)
LEMMA ForkDonePages ==
  ASSUME MemoryInv, MemoryInv', NEW p \in Procs, fork_done(p)
  PROVE  Total' = Total
<1> DEFINE np == call[p].np
<1>1. call[p].do = "fork" /\ free' = free
  BY Zenon DEF fork_done
<1>2. np \in Procs /\ proc[np].state = "EMBRYO"
  BY <1>1, ChildSlot, Zenon
<1>3. vm' = [vm EXCEPT ![Cur(np)] = vm[New(p)], ![New(p)] = {}]
  BY Zenon DEF fork_done
<1>4. proc' = [proc EXCEPT ![np] = [@ EXCEPT !.state = "RUNNING", !.sz = proc[p].sz, !.parent = p]]
  BY Zenon DEF fork_done
<1> HIDE DEF np
<1>5. vm[Cur(np)] = {}
  BY <1>2, Kinds, Zenon DEF MemoryInv, AtRest
<1>6. \A q \in Procs : proc'[q].kstack = proc[q].kstack
  <2>1. \A q \in Procs : proc[q] \in ProcType
    BY Zenon DEF MemoryInv, Fits
  <2> QED
    BY <1>2, <1>4, <2>1, Zenon DEF MemoryInv, ProcType
<1>7. Stacks' = Stacks /\ Cardinality(Stacks) \in Nat
  BY <1>6, StacksKept, Counted, Zenon
<1>8. /\ Cur(np) \in Dirs /\ New(p) \in Dirs /\ Cur(np) # New(p)
      /\ vm'[Cur(np)] = vm[New(p)] /\ vm'[New(p)] = {}
      /\ \A x \in Dirs : x # Cur(np) /\ x # New(p) => vm'[x] = vm[x]
  BY <1>2, <1>3, Tables, Zenon DEF MemoryInv
<1>9. /\ Cardinality(PageTables) \in Nat /\ Cardinality(PageTables') \in Nat
      /\ Cardinality(PageTables') + Cardinality(vm[Cur(np)]) = Cardinality(PageTables)
  BY <1>8, TableMoved, Zenon
<1>10. Cardinality(vm[Cur(np)]) = 0
  BY <1>5, FS_EmptySet, Zenon
<1> QED
  BY <1>1, <1>7, <1>9, <1>10 DEF Total

(* exec() gives the old table back when the new one takes its place.         *)
LEMMA ExecCommitPages ==
  ASSUME MemoryInv, MemoryInv', NEW p \in Procs, exec_commit(p)
  PROVE  Total' = Total
<1>1. CASE bad(p)
  BY <1>1, BadPages, Zenon DEF exec_commit, Busy
<1>2. CASE /\ vm' = [vm EXCEPT ![Cur(p)] = vm[New(p)], ![New(p)] = {}]
           /\ free' = kfree(OldPages(p))
           /\ proc' = [proc EXCEPT ![p].sz = call[p].to]
  <2>1. \A q \in Procs : proc'[q].kstack = proc[q].kstack
    <3>1. \A q \in Procs : proc[q] \in ProcType
      BY Zenon DEF MemoryInv, Fits
    <3> QED
      BY <1>2, <3>1, Zenon DEF MemoryInv, ProcType
  <2>2. Stacks' = Stacks /\ Cardinality(Stacks) \in Nat
    BY <2>1, StacksKept, Counted, Zenon
  <2>3. /\ Cur(p) \in Dirs /\ New(p) \in Dirs /\ Cur(p) # New(p)
        /\ vm'[Cur(p)] = vm[New(p)] /\ vm'[New(p)] = {}
        /\ \A x \in Dirs : x # Cur(p) /\ x # New(p) => vm'[x] = vm[x]
    BY <1>2, Tables, Zenon DEF MemoryInv
  <2>4. /\ Cardinality(PageTables) \in Nat /\ Cardinality(PageTables') \in Nat
        /\ Cardinality(vm[Cur(p)]) \in Nat
        /\ Cardinality(PageTables') + Cardinality(vm[Cur(p)]) = Cardinality(PageTables)
    BY <2>3, TableMoved, Zenon
  <2>5. free \in Nat /\ free' = free + Cardinality(vm[Cur(p)])
    BY <1>2, Zenon DEF kfree, OldPages, MemoryInv
  <2> QED
    BY <2>2, <2>4, <2>5 DEF Total
<1> QED
  BY <1>1, <1>2, Zenon DEF exec_commit

(* wait() gives back the kernel stack and the page table of the zombie.      *)
LEMMA WaitPages ==
  ASSUME MemoryInv, MemoryInv', NEW p \in Procs, wait(p)
  PROVE  Total' = Total
<1>1. PICK c \in Procs :
        /\ proc[c].state = "ZOMBIE"
        /\ free' = kfree(proc[c].kstack + Cardinality(vm[Cur(c)]))
        /\ vm' = [vm EXCEPT ![Cur(c)] = {}]
        /\ proc' = [proc EXCEPT ![c] = Unused]
  BY Zenon DEF wait
<1>2. proc[c].kstack = 1
  BY <1>1, Waits, Zenon DEF MemoryInv
<1>3. proc'[c].kstack = 0 /\ \A q \in Procs \ {c} : proc'[q] = proc[q]
  BY <1>1, Zenon DEF MemoryInv, Unused
<1>4. Cardinality(Stacks') = Cardinality(Stacks) - 1 /\ Cardinality(Stacks) \in Nat
  BY <1>2, <1>3, StackFreed, Counted, Zenon
<1>5. Cur(c) \in Dirs /\ vm'[Cur(c)] = {} /\ \A x \in Dirs : x # Cur(c) => vm'[x] = vm[x]
  BY <1>1, Tables, Zenon DEF MemoryInv
<1>6. /\ Cardinality(PageTables) \in Nat /\ Cardinality(PageTables') \in Nat
      /\ Cardinality(vm[Cur(c)]) \in Nat
      /\ Cardinality(PageTables') + Cardinality(vm[Cur(c)])
           = Cardinality(PageTables) + Cardinality(vm'[Cur(c)])
  BY <1>5, OneTable, Zenon
<1>7. Cardinality(vm'[Cur(c)]) = 0
  BY <1>5, FS_EmptySet, Zenon
<1>8. free \in Nat /\ free' = free + (1 + Cardinality(vm[Cur(c)]))
  BY <1>1, <1>2, Zenon DEF kfree, MemoryInv
<1> QED
  <2>1. Cardinality(PageTables') = Cardinality(PageTables) - Cardinality(vm[Cur(c)])
    BY <1>6, <1>7
  <2> QED
    BY <1>4, <1>6, <1>8, <2>1 DEF Total

(* The other steps take no page and give none back.                          *)
LEMMA OtherPages ==
  ASSUME MemoryInv, MemoryInv', NEW p \in Procs,
         \/ growproc(p) \/ exec(p) \/ exec_header(p) \/ exec_load(p) \/ exec_stack(p) \/ exit(p)
  PROVE  Total' = Total
<1>1. \A q \in Procs : proc[q] \in ProcType
  BY Zenon DEF MemoryInv, Fits
<1>2. CASE growproc(p)
  <2>1. free' = free /\ vm' = vm /\ proc' = [proc EXCEPT ![p].sz = call[p].to]
    BY <1>2, Zenon DEF growproc
  <2>2. \A q \in Procs : proc'[q].kstack = proc[q].kstack
    BY <1>1, <2>1, Zenon DEF MemoryInv, ProcType
  <2> QED
    BY <2>1, <2>2, NothingTaken, Zenon
<1>3. CASE exec(p)
  <2>1. free' = free /\ vm' = vm /\ proc' = proc
    BY <1>3, Zenon DEF exec
  <2> QED
    BY <2>1, NothingTaken, Zenon
<1>4. CASE exec_header(p) \/ exec_load(p) \/ exec_stack(p)
  <2>1. (free' = free /\ vm' = vm /\ proc' = proc) \/ (Busy(p) /\ bad(p))
    BY <1>4, Zenon DEF exec_header, exec_load, exec_stack, AllocTo, Busy
  <2> QED
    BY <2>1, NothingTaken, BadPages, Zenon
<1>5. CASE exit(p)
  <2>1. /\ free' = free /\ vm' = vm
        /\ proc' = [q \in Procs |->
                      IF q = p THEN [proc[q] EXCEPT !.state = "ZOMBIE"]
                      ELSE IF proc[q].parent = p THEN [proc[q] EXCEPT !.parent = initproc]
                      ELSE proc[q]]
    BY <1>5, Zenon DEF exit
  <2>2. \A q \in Procs : proc'[q].kstack = proc[q].kstack
    BY <1>1, <2>1, Zenon DEF ProcType
  <2> QED
    BY <2>1, <2>2, NothingTaken, Zenon
<1> QED
  BY <1>2, <1>3, <1>4, <1>5, Zenon

(* userinit() takes five pages.                                              *)
LEMMA InitPages == Init => PagesConserved
<1> SUFFICES ASSUME Init PROVE PagesConserved
  BY Zenon
<1> DEFINE t1 == {<<"dir", 0>>}
           t2 == t1 \cup {<<"ktab", 0>>}
           t3 == t2 \cup {<<"tab", 0>>}
           t == t3 \cup {Pte(0)}
           i == Cur(initproc)
<1>1. IsFiniteSet(t) /\ Cardinality(t) = 4
  <2>1. IsFiniteSet(t1) /\ Cardinality(t1) = 1
    BY FS_Singleton, Zenon
  <2>2. <<"ktab", 0>> \notin t1 /\ <<"tab", 0>> \notin t2 /\ Pte(0) \notin t3
    BY Zenon DEF Pte
  <2> HIDE DEF t1
  <2>3. IsFiniteSet(t2) /\ Cardinality(t2) = 2
    BY <2>1, <2>2, FS_AddElement
  <2> HIDE DEF t2
  <2>4. IsFiniteSet(t3) /\ Cardinality(t3) = 3
    BY <2>2, <2>3, FS_AddElement
  <2> HIDE DEF t3
  <2> QED
    BY <2>2, <2>4, FS_AddElement
<1>2. \A d \in Dirs : vm[d] = IF d = i THEN t ELSE {}
  BY Zenon DEF Init
<1>3. i \in Dirs
  BY MemoryAssumption, Tables, Zenon
<1> HIDE DEF t, i
<1>4. Cardinality(PageTables) = 4
  <2>1. ASSUME NEW e PROVE e \in PageTables <=> e \in {i} \X t
    <3>1. e \in PageTables <=> \E d \in Dirs : e \in {d} \X vm[d]
      BY Zenon DEF PageTables
    <3> QED
      BY <1>2, <1>3, <3>1, Zenon
  <2>2. PageTables = {i} \X t
    BY <2>1, Zenon
  <2>3. IsFiniteSet({i}) /\ Cardinality({i}) = 1
    BY FS_Singleton, Zenon
  <2>4. Cardinality({i} \X t) = Cardinality({i}) * Cardinality(t)
    BY <1>1, <2>3, FS_Product, Zenon
  <2> QED
    BY <1>1, <2>2, <2>3, <2>4
<1>5. Cardinality(Stacks) = 1
  <2>1. ASSUME NEW p PROVE p \in Stacks <=> p = initproc
    <3>1. p \in Procs => proc[p].kstack = IF p = initproc THEN 1 ELSE 0
      BY Zenon DEF Init, Unused
    <3> QED
      BY <3>1, MemoryAssumption DEF Stacks
  <2>2. Stacks = {initproc}
    BY <2>1, Zenon
  <2> QED
    BY <2>2, FS_Singleton, Zenon
<1>6. free = NPAGES - 5
  BY Zenon DEF Init
<1> QED
  BY <1>4, <1>5, <1>6, PagesFinite DEF PagesConserved

(* No step changes the number of pages, free and in use together.            *)
LEMMA PagesStep == MemoryInv /\ PagesConserved /\ [Next]_vars => PagesConserved'
<1> SUFFICES ASSUME MemoryInv, PagesConserved, [Next]_vars PROVE PagesConserved'
  BY Zenon
<1>1. MemoryInv'
  BY MemoryStep, Zenon
<1>2. SUFFICES Total' = Total
  BY Zenon DEF Total, PagesConserved
<1>3. CASE UNCHANGED vars
  <2>1. free' = free /\ vm' = vm /\ proc' = proc
    BY <1>3, Zenon DEF vars
  <2> QED
    BY <2>1, NothingTaken, Zenon
<1>4. ASSUME NEW p \in Procs, kalloc_fails(p) PROVE Total' = Total
  BY <1>1, <1>4, BadPages, Zenon DEF kalloc_fails
<1> QED
  BY <1>1, <1>3, <1>4, SbrkPages, ForkPages, ForkDonePages, ExecCommitPages, KallocPages,
     WaitPages, OtherPages, Zenon DEF Next

(* Every page of memory is on the free list, in one slot of one page table,  *)
(* or one process's kernel stack: sbrk(), fork(), exec() and wait(), with    *)
(* all their error paths, lose no page and free none twice.                  *)
THEOREM NoPageLost == Spec => []PagesConserved
<1>1. Init => PagesConserved
  BY InitPages, Zenon
<1>2. MemoryInv /\ PagesConserved /\ [Next]_vars => PagesConserved'
  BY PagesStep, Zenon
<1> QED
  BY <1>1, <1>2, MemoryInvariant, PTL DEF Spec

=============================================================================

----------------------------- MODULE FileProofs -----------------------------
(* Files hold what was written to them, for every size of the disk and of    *)
(* blocks and files, any number of processes, files and calls.               *)
(*                                                                           *)
(* What the operators of File do to a disk is stated first, without          *)
(* variables; then come the invariant and its steps.                         *)
EXTENDS File, Modular

-----------------------------------------------------------------------------
(* Least elements and finite sets. *)

(* What the proofs use of sets of blocks; BlockSetFacts proves it. *)
BlockSets ==
  \A S \in SUBSET Blocks :
    /\ S # {} => Min(S) \in S
    /\ Cardinality(S) \in Nat
    /\ Cardinality(S) >= 1 => S # {}
    /\ Cardinality(S) >= 2 => \A b : S \ {b} # {}

(* The lesser of two numbers. *)
LEMMA MinOfTwo ==
  ASSUME NEW a \in Int, NEW b \in Int
  PROVE  Min({a, b}) = IF a <= b THEN a ELSE b
<1> DEFINE P(x) == x \in {a, b} /\ \A y \in {a, b} : x <= y
<1>1. P(IF a <= b THEN a ELSE b)
  OBVIOUS
<1>2. \A x : P(x) => x = IF a <= b THEN a ELSE b
  OBVIOUS
<1>3. Min({a, b}) = CHOOSE x : P(x)
  BY Zenon DEF Min
<1>4. P(CHOOSE x : P(x))
  <2> HIDE DEF P
  <2> QED
    BY <1>1, Zenon
<1> QED
  <2> HIDE DEF P
  <2> QED
    BY <1>2, <1>3, <1>4, Zenon

(* The greater of two numbers. *)
LEMMA MaxOfTwo ==
  ASSUME NEW a \in Int, NEW b \in Int
  PROVE  Max({a, b}) = IF a >= b THEN a ELSE b
<1> DEFINE P(x) == x \in {a, b} /\ \A y \in {a, b} : x >= y
<1>1. P(IF a >= b THEN a ELSE b)
  OBVIOUS
<1>2. \A x : P(x) => x = IF a >= b THEN a ELSE b
  OBVIOUS
<1>3. Max({a, b}) = CHOOSE x : P(x)
  BY Zenon DEF Max
<1>4. P(CHOOSE x : P(x))
  <2> HIDE DEF P
  <2> QED
    BY <1>1, Zenon
<1> QED
  <2> HIDE DEF P
  <2> QED
    BY <1>2, <1>3, <1>4, Zenon

(* How many addresses an inode has. *)
LEMMA Sizes ==
  /\ BSIZE \in Nat \ {0} /\ NDIRECT \in Nat /\ nmeta \in Nat \ {0} /\ FSSIZE \in Nat
  /\ MAXFILE \in Nat /\ MAXFILE = NDIRECT + BSIZE /\ NDIRECT < MAXFILE
BY FileAssumption DEF MAXFILE, NINDIRECT

(* The offset of byte j of block n, and back. *)
LEMMA Offset ==
  ASSUME NEW k \in Nat
  PROVE  /\ k \div BSIZE \in Nat /\ k % BSIZE \in 0..(BSIZE - 1)
         /\ k = BSIZE * (k \div BSIZE) + (k % BSIZE)
BY Sizes, Division

(* Offsets below the largest size are in blocks that have an address. *)
LEMMA InRange ==
  ASSUME NEW k \in Nat
  PROVE  k < MAXFILE * BSIZE <=> k \div BSIZE < MAXFILE
<1> DEFINE q == k \div BSIZE
           r == k % BSIZE
<1>1. q \in Nat /\ r \in 0..(BSIZE - 1) /\ k = BSIZE * q + r
  BY Offset
<1>2. BSIZE \in Nat \ {0} /\ MAXFILE \in Nat
  BY Sizes
<1> HIDE DEF q, r
<1>3. ASSUME q < MAXFILE PROVE k < MAXFILE * BSIZE
  <2>1. MAXFILE - q - 1 \in Nat
    BY <1>1, <1>2, <1>3
  <2>2. BSIZE * (MAXFILE - q - 1) >= 0
    BY <1>2, <2>1
  <2>3. MAXFILE * BSIZE = BSIZE * q + BSIZE + BSIZE * (MAXFILE - q - 1)
    BY <1>1, <1>2
  <2> QED
    BY <1>1, <1>2, <2>2, <2>3
<1>4. ASSUME q >= MAXFILE PROVE k >= MAXFILE * BSIZE
  <2>1. q - MAXFILE \in Nat
    BY <1>1, <1>2, <1>4
  <2>2. BSIZE * (q - MAXFILE) >= 0
    BY <1>2, <2>1
  <2>3. BSIZE * q = MAXFILE * BSIZE + BSIZE * (q - MAXFILE)
    BY <1>1, <1>2
  <2> QED
    BY <1>1, <1>2, <2>2, <2>3
<1>5. MAXFILE * BSIZE \in Nat
  BY <1>2
<1> QED
  BY <1>1, <1>2, <1>3, <1>4, <1>5 DEF q

(* The offsets of the bytes i to i + m - 1 of the block that x is in. *)
LEMMA Within ==
  ASSUME NEW x \in Nat, NEW m \in Nat, (x % BSIZE) + m <= BSIZE, NEW k \in Nat
  PROVE  k \in x..(x + m - 1) <=>
           k \div BSIZE = x \div BSIZE /\ k % BSIZE \in (x % BSIZE)..((x % BSIZE) + m - 1)
<1> DEFINE q == k \div BSIZE
           r == k % BSIZE
           y == x \div BSIZE
           i == x % BSIZE
<1>1. q \in Nat /\ r \in 0..(BSIZE - 1) /\ k = BSIZE * q + r
  BY Offset
<1>2. y \in Nat /\ i \in 0..(BSIZE - 1) /\ x = BSIZE * y + i
  BY Offset
<1>3. BSIZE \in Nat \ {0}
  BY Sizes
<1>4. i + m <= BSIZE
  OBVIOUS
<1> HIDE DEF q, r, y, i
<1>5. ASSUME k \in x..(x + m - 1) PROVE q = y /\ r \in i..(i + m - 1)
  <2> DEFINE t == i + (k - x)
  <2>1. t \in 0..(BSIZE - 1) /\ BSIZE * q + r = BSIZE * y + t
    BY <1>1, <1>2, <1>3, <1>4, <1>5
  <2> HIDE DEF t
  <2>2. q = y /\ r = t
    BY <1>1, <1>2, <1>3, <2>1, Unique
  <2> QED
    BY <1>1, <1>2, <1>5, <2>2 DEF t
<1>6. ASSUME q = y, r \in i..(i + m - 1) PROVE k \in x..(x + m - 1)
  BY <1>1, <1>2, <1>3, <1>6
<1> QED
  BY <1>5, <1>6 DEF q, r, y, i

-----------------------------------------------------------------------------
(* Disks. *)

(* OwnedOnce, block by block. *)
Marked(d) ==
  \A f \in Inums, k \in Places : BlockAt(d, f, k) # 0 =>
    BlockAt(d, f, k) \in d.bitmap /\ BlockAt(d, f, k) >= nmeta
Placed(d) ==
  \A b \in d.bitmap : b < nmeta \/ \E f \in Inums, k \in Places : BlockAt(d, f, k) = b
Meta(d) == 0..(nmeta - 1) \subseteq d.bitmap
Single(d) ==
  \A f, g \in Inums, k, l \in Places :
    BlockAt(d, f, k) # 0 /\ BlockAt(d, g, l) = BlockAt(d, f, k) => f = g /\ k = l
Addressed(d) == \A f \in Inums : d.inode[f].size <= MAXFILE * BSIZE

Uses(d) == Marked(d) /\ Placed(d) /\ Meta(d) /\ Single(d) /\ Addressed(d)

(* The two say the same. *)
LEMMA OwnedUses ==
  ASSUME NEW d \in Disks
  PROVE  OwnedOnce(d) <=> Uses(d)
<1>1. d.bitmap \subseteq Blocks /\ Blocks \subseteq Nat
  BY Sizes DEF Disks, Blocks
<1>2. nmeta \in Nat \ {0}
  BY Sizes
<1>3. \A f : \A b : b \in Owned(d, f) <=> b # 0 /\ \E k \in Places : BlockAt(d, f, k) = b
  BY Zenon DEF Owned
<1>4. ASSUME OwnedOnce(d) PROVE Uses(d)
  <2>1. \A b : b \in d.bitmap <=> b \in 0..(nmeta - 1) \/ \E f \in Inums : b \in Owned(d, f)
    BY <1>4, Zenon DEF OwnedOnce
  <2>2. ASSUME NEW f \in Inums, NEW k \in Places, BlockAt(d, f, k) # 0
        PROVE  BlockAt(d, f, k) \in d.bitmap /\ BlockAt(d, f, k) >= nmeta
    <3>1. BlockAt(d, f, k) \in Owned(d, f)
      BY <1>3, <2>2, Zenon
    <3>2. BlockAt(d, f, k) \in d.bitmap
      BY <2>1, <3>1, Zenon
    <3>3. BlockAt(d, f, k) \notin 0..(nmeta - 1)
      BY <1>4, <3>1, Zenon DEF OwnedOnce
    <3>4. BlockAt(d, f, k) \in Nat
      BY <1>1, <3>2, Zenon
    <3> QED
      BY <1>2, <3>2, <3>3, <3>4
  <2>3. ASSUME NEW b \in d.bitmap
        PROVE  b < nmeta \/ \E f \in Inums, k \in Places : BlockAt(d, f, k) = b
    <3>1. CASE b \in 0..(nmeta - 1)
      BY <1>2, <3>1
    <3>2. CASE \E f \in Inums : b \in Owned(d, f)
      BY <1>3, <3>2, Zenon
    <3> QED
      BY <2>1, <2>3, <3>1, <3>2, Zenon
  <2>4. 0..(nmeta - 1) \subseteq d.bitmap
    BY <2>1, Zenon
  <2>5. \A f, g \in Inums, k, l \in Places :
          BlockAt(d, f, k) # 0 /\ BlockAt(d, g, l) = BlockAt(d, f, k) => f = g /\ k = l
    BY <1>4, Zenon DEF OwnedOnce
  <2>6. \A f \in Inums : d.inode[f].size <= MAXFILE * BSIZE
    BY <1>4, Zenon DEF OwnedOnce
  <2> QED
    BY <2>2, <2>3, <2>4, <2>5, <2>6, Zenon DEF Uses, Marked, Placed, Meta, Single, Addressed
<1>5. ASSUME Uses(d) PROVE OwnedOnce(d)
  <2>1. ASSUME NEW b
        PROVE  b \in d.bitmap <=> b \in 0..(nmeta - 1) \/ \E f \in Inums : b \in Owned(d, f)
    <3>1. ASSUME b \in d.bitmap PROVE b \in 0..(nmeta - 1) \/ \E f \in Inums : b \in Owned(d, f)
      <4>1. b \in Nat
        BY <1>1, <3>1, Zenon
      <4>2. CASE b < nmeta
        BY <1>2, <4>1, <4>2
      <4>3. CASE ~(b < nmeta)
        <5>1. PICK f \in Inums, k \in Places : BlockAt(d, f, k) = b
          BY <1>5, <3>1, <4>3, Zenon DEF Uses, Placed
        <5>2. b # 0
          BY <1>2, <4>1, <4>3
        <5> QED
          BY <1>3, <5>1, <5>2, Zenon
      <4> QED
        BY <4>2, <4>3
    <3>2. ASSUME b \in 0..(nmeta - 1) PROVE b \in d.bitmap
      BY <1>5, <3>2, Zenon DEF Uses, Meta
    <3>3. ASSUME NEW f \in Inums, b \in Owned(d, f) PROVE b \in d.bitmap
      <4>1. PICK k \in Places : BlockAt(d, f, k) = b
        BY <1>3, <3>3, Zenon
      <4>2. b # 0
        BY <1>3, <3>3, Zenon
      <4> QED
        BY <1>5, <4>1, <4>2, Zenon DEF Uses, Marked
    <3> QED
      BY <3>1, <3>2, <3>3, Zenon
  <2>2. d.bitmap = 0..(nmeta - 1) \cup UNION {Owned(d, f) : f \in Inums}
    BY <2>1, Zenon
  <2>3. ASSUME NEW f \in Inums PROVE Owned(d, f) \cap 0..(nmeta - 1) = {}
    <3>1. ASSUME NEW b \in Owned(d, f) PROVE b >= nmeta
      <4>1. PICK k \in Places : BlockAt(d, f, k) = b
        BY <1>3, <3>1, Zenon
      <4>2. b # 0
        BY <1>3, <3>1, Zenon
      <4> QED
        BY <1>5, <4>1, <4>2, Zenon DEF Uses, Marked
    <3>2. \A b \in 0..(nmeta - 1) : ~(b >= nmeta)
      BY <1>2
    <3> QED
      BY <3>1, <3>2, Zenon
  <2> QED
    BY <1>5, <2>2, <2>3 DEF Uses, Single, Addressed, OwnedOnce
<1> QED
  BY <1>4, <1>5, Zenon

(* e is d with the free block b, zeroed, in the empty place k of file f.     *)
Taken(d, e, f, k, b) ==
  /\ b \in Blocks \ d.bitmap
  /\ e.bitmap = d.bitmap \cup {b}
  /\ BlockAt(d, f, k) = 0
  /\ \A g \in Inums, l \in Places :
       BlockAt(e, g, l) = IF g = f /\ l = k THEN b ELSE BlockAt(d, g, l)
  /\ e.content[b] = Zeroes
  /\ \A g \in Inums, l \in 0..(MAXFILE - 1) : BlockAt(d, g, l) # 0 =>
       e.content[BlockAt(d, g, l)] = d.content[BlockAt(d, g, l)]
  /\ \A g \in Inums : e.inode[g].size = d.inode[g].size

(* Byte j of block n of file f. *)
ByteAt(d, f, n, j) == IF Addr(d, f, n) = 0 THEN 0 ELSE d.content[Addr(d, f, n)][j]

(* e is d with some more blocks in place, all zero.                          *)
Grown(d, e) ==
  /\ e \in Disks /\ Uses(e)
  /\ \A g \in Inums, n \in 0..(MAXFILE - 1) : Addr(d, g, n) # 0 => Addr(e, g, n) # 0
  /\ \A g \in Inums, n \in 0..(MAXFILE - 1), j \in 0..(BSIZE - 1) :
       ByteAt(e, g, n, j) = ByteAt(d, g, n, j)
  /\ \A g \in Inums : e.inode[g].size = d.inode[g].size

(* A block was taken for place k of f. *)
Took(d, e, f, k) ==
  /\ e \in Disks /\ Grown(d, e) /\ BlockAt(e, f, k) # 0
  /\ \E b : Taken(d, e, f, k, b) /\ FreeBlocks(e) = FreeBlocks(d) \ {b}

(* Taking a free block keeps the disk sound and the bytes of all files.     *)
LEMMA TakenGrown ==
  ASSUME NEW d \in Disks, NEW e \in Disks, Uses(d), NEW f \in Inums, NEW k \in Places, NEW b,
         Taken(d, e, f, k, b)
  PROVE  Took(d, e, f, k)
<1>1. nmeta \in Nat \ {0} /\ MAXFILE \in Nat
  BY Sizes
<1>2. b \in Nat /\ b >= nmeta /\ b # 0 /\ b \notin d.bitmap
  <2>1. b \in Nat /\ b \notin d.bitmap
    BY Sizes DEF Taken, Blocks
  <2>2. ~(b \in 0..(nmeta - 1))
    BY <2>1, Zenon DEF Uses, Meta
  <2> QED
    BY <1>1, <2>1, <2>2
<1>3. \A g \in Inums, l \in Places :
        BlockAt(e, g, l) = IF g = f /\ l = k THEN b ELSE BlockAt(d, g, l)
  BY Zenon DEF Taken
<1>4. e.bitmap = d.bitmap \cup {b} /\ BlockAt(d, f, k) = 0
  BY Zenon DEF Taken
<1>5. \A g \in Inums, l \in Places : BlockAt(d, g, l) # b
  BY <1>2, Zenon DEF Uses, Marked
<1>6. Uses(e)
  <2>1. \A g \in Inums, l \in Places : BlockAt(e, g, l) # 0 =>
          BlockAt(e, g, l) \in e.bitmap /\ BlockAt(e, g, l) >= nmeta
    BY <1>2, <1>3, <1>4, Zenon DEF Uses, Marked
  <2>2. ASSUME NEW c \in e.bitmap
        PROVE  c < nmeta \/ \E g \in Inums, l \in Places : BlockAt(e, g, l) = c
    <3>1. CASE c = b
      BY <1>3, <3>1, Zenon
    <3>2. ASSUME c \in d.bitmap, ~(c < nmeta)
          PROVE  \E g \in Inums, l \in Places : BlockAt(e, g, l) = c
      <4>1. PICK g \in Inums, l \in Places : BlockAt(d, g, l) = c
        BY <3>2, Zenon DEF Uses, Placed
      <4>2. c # 0
        BY <1>1, <3>2
      <4>3. ~(g = f /\ l = k)
        BY <1>4, <4>1, <4>2, Zenon
      <4> QED
        BY <1>3, <4>1, <4>3, Zenon
    <3> QED
      BY <1>4, <2>2, <3>1, <3>2, Zenon
  <2>3. 0..(nmeta - 1) \subseteq e.bitmap
    BY <1>4, Zenon DEF Uses, Meta
  <2>4. ASSUME NEW g \in Inums, NEW h \in Inums, NEW l \in Places, NEW m \in Places,
               BlockAt(e, g, l) # 0, BlockAt(e, h, m) = BlockAt(e, g, l)
        PROVE  g = h /\ l = m
    <3>1. CASE g = f /\ l = k
      BY <1>3, <1>5, <2>4, <3>1, Zenon
    <3>2. CASE h = f /\ m = k
      BY <1>3, <1>5, <2>4, <3>2, Zenon
    <3>3. CASE ~(g = f /\ l = k) /\ ~(h = f /\ m = k)
      BY <1>3, <2>4, <3>3 DEF Uses, Single
    <3> QED
      BY <3>1, <3>2, <3>3, Zenon
  <2>5. \A g \in Inums : e.inode[g].size <= MAXFILE * BSIZE
    BY Zenon DEF Uses, Addressed, Taken
  <2> QED
    BY <2>1, <2>2, <2>3, <2>4, <2>5 DEF Uses, Marked, Placed, Meta, Single, Addressed
<1>7. ASSUME NEW g \in Inums, NEW n \in 0..(MAXFILE - 1)
      PROVE  /\ Addr(d, g, n) # 0 => Addr(e, g, n) # 0
             /\ \A j \in 0..(BSIZE - 1) : ByteAt(e, g, n, j) = ByteAt(d, g, n, j)
  <2>1. n \in Places /\ n # MAXFILE
    BY <1>1 DEF Places
  <2>2. Addr(d, g, n) = BlockAt(d, g, n) /\ Addr(e, g, n) = BlockAt(e, g, n)
    BY <2>1, Zenon DEF BlockAt
  <2>3. CASE g = f /\ n = k
    <3>1. Addr(d, g, n) = 0 /\ Addr(e, g, n) = b
      BY <1>3, <1>4, <2>1, <2>2, <2>3, Zenon
    <3>2. \A j \in 0..(BSIZE - 1) : e.content[b][j] = 0
      BY Zenon DEF Taken, Zeroes
    <3> QED
      BY <1>2, <3>1, <3>2, Zenon DEF ByteAt
  <2>4. CASE ~(g = f /\ n = k)
    <3>1. Addr(e, g, n) = Addr(d, g, n)
      BY <1>3, <2>1, <2>2, <2>4, Zenon
    <3>2. Addr(d, g, n) # 0 => e.content[Addr(d, g, n)] = d.content[Addr(d, g, n)]
      BY <2>2, Zenon DEF Taken
    <3> QED
      BY <3>1, <3>2, Zenon DEF ByteAt
  <2> QED
    BY <2>3, <2>4, Zenon
<1>8. \A g \in Inums : e.inode[g].size = d.inode[g].size
  BY Zenon DEF Taken
<1>9. FreeBlocks(e) = FreeBlocks(d) \ {b}
  BY <1>4, Zenon DEF FreeBlocks
<1>10. Grown(d, e)
  BY <1>6, <1>7, <1>8, Zenon DEF Grown
<1> QED
  BY <1>2, <1>3, <1>9, <1>10, Zenon DEF Took

(* The types of the parts of a disk. *)
LEMMA Parts ==
  ASSUME NEW d \in Disks
  PROVE  /\ d.bitmap \in SUBSET Blocks
         /\ d.content \in [Blocks -> [0..(BSIZE - 1) -> Nat]]
         /\ d.inode \in [Inums -> [size : Nat, addrs : [0..NDIRECT -> Blocks]]]
         /\ d = [bitmap |-> d.bitmap, content |-> d.content, inode |-> d.inode]
BY DEF Disks

(* One part of a disk changes. *)
LEMMA PartChanged ==
  ASSUME NEW x, NEW y, NEW z, NEW w, NEW r, r = [bitmap |-> x, content |-> y, inode |-> z]
  PROVE  /\ [r EXCEPT !.bitmap = w] = [bitmap |-> w, content |-> y, inode |-> z]
         /\ [r EXCEPT !.content = w] = [bitmap |-> x, content |-> w, inode |-> z]
         /\ [r EXCEPT !.inode = w] = [bitmap |-> x, content |-> y, inode |-> w]
         /\ r.bitmap = x /\ r.content = y /\ r.inode = z
OBVIOUS

(* Places and addresses. *)
LEMMA Address ==
  ASSUME NEW d, NEW f, NEW k \in Places
  PROVE  /\ k < NDIRECT => BlockAt(d, f, k) = d.inode[f].addrs[k]
         /\ k = MAXFILE => BlockAt(d, f, k) = d.inode[f].addrs[NDIRECT]
         /\ k >= NDIRECT /\ k < MAXFILE =>
              BlockAt(d, f, k) = IF d.inode[f].addrs[NDIRECT] = 0 THEN 0
                                 ELSE d.content[d.inode[f].addrs[NDIRECT]][k - NDIRECT]
BY Sizes DEF BlockAt, Addr, Places

(* The tables of inodes; u is z with address b in addrs[k] of f. *)
Tables ==
  [Inums -> [size : Nat, addrs : [0..NDIRECT -> Blocks]]]
Pointed(u, z, f, k, b) ==
  /\ u \in Tables
  /\ \A g \in Inums : u[g].size = z[g].size
  /\ \A g \in Inums, l \in 0..NDIRECT :
       u[g].addrs[l] = IF g = f /\ l = k THEN b ELSE z[g].addrs[l]

(* An address changes in a table of inodes. *)
LEMMA AddressChanged ==
  ASSUME NEW z \in Tables, NEW f \in Inums, NEW k \in 0..NDIRECT, NEW b \in Blocks
  PROVE  Pointed([z EXCEPT ![f].addrs[k] = b], z, f, k, b)
<1> DEFINE I == Inums
           K == 0..NDIRECT
           B == Blocks
<1>0. z \in [I -> [size : Nat, addrs : [K -> B]]] /\ f \in I /\ k \in K /\ b \in B
  BY Zenon DEF Tables
<1> HIDE DEF I, K, B
<1> DEFINE a == [z[f].addrs EXCEPT ![k] = b]
           r == [size |-> z[f].size, addrs |-> a]
           y == [z EXCEPT ![f] = r]
<1>1. z[f] = [size |-> z[f].size, addrs |-> z[f].addrs] /\ z[f].size \in Nat /\ z[f].addrs \in [K -> B]
  BY <1>0
<1>2. a \in [K -> B] /\ \A l \in K : a[l] = IF l = k THEN b ELSE z[f].addrs[l]
  BY <1>0, <1>1
<1>3. [z[f] EXCEPT !.addrs = a] = r
  <2> HIDE DEF a
  <2> QED
    BY <1>1
<1>4. [z EXCEPT ![f].addrs[k] = b] = y
  BY <1>3, Zenon
<1> HIDE DEF a
<1>5. r \in [size : Nat, addrs : [K -> B]] /\ r.size = z[f].size /\ r.addrs = a
  BY <1>1, <1>2
<1> HIDE DEF r
<1>6. y \in [I -> [size : Nat, addrs : [K -> B]]] /\ \A g \in I : y[g] = IF g = f THEN r ELSE z[g]
  BY <1>0, <1>5
<1> HIDE DEF y
<1>7. ASSUME NEW g \in I
      PROVE  /\ y[g].size = z[g].size
             /\ \A l \in K : y[g].addrs[l] = IF g = f /\ l = k THEN b ELSE z[g].addrs[l]
  <2>1. CASE g = f
    BY <1>2, <1>5, <1>6, <2>1
  <2>2. CASE g # f
    BY <1>6, <2>2
  <2> QED
    BY <2>1, <2>2
<1>8. Pointed(y, z, f, k, b)
  BY <1>6, <1>7, Zenon DEF Pointed, Tables, I, K, B
<1> QED
  BY <1>4, <1>8, Zenon

(* What balloc does to the parts of a disk. *)
LEMMA Allocated ==
  ASSUME NEW d \in Disks
  PROVE  balloc(d) = [bitmap |-> d.bitmap \cup {Min(FreeBlocks(d))},
                      content |-> [d.content EXCEPT ![Min(FreeBlocks(d))] = Zeroes],
                      inode |-> d.inode]
<1> DEFINE b == Min(FreeBlocks(d))
           x == d.bitmap \cup {b}
           r == [bitmap |-> x, content |-> d.content, inode |-> d.inode]
           y == [d.content EXCEPT ![b] = Zeroes]
<1>1. d = [bitmap |-> d.bitmap, content |-> d.content, inode |-> d.inode]
  BY Parts
<1>2. [d EXCEPT !.bitmap = x] = r
  <2> HIDE DEF x
  <2> QED
    BY <1>1, PartChanged, SMT
<1>3. r.content = d.content
  BY PartChanged, Zenon
<1>4. [r EXCEPT !.content = y] = [bitmap |-> x, content |-> y, inode |-> d.inode]
  <2> HIDE DEF x, y
  <2> QED
    BY PartChanged, SMT
<1>5. balloc(d) = [[d EXCEPT !.bitmap = x] EXCEPT !.content = [[d EXCEPT !.bitmap = x].content EXCEPT ![b] = Zeroes]]
  BY Zenon DEF balloc
<1> HIDE DEF x, r
<1> QED
  BY <1>2, <1>3, <1>4, <1>5, Zenon DEF x

(* The first free block is free, and not block 0. *)
LEMMA FreeFirst ==
  ASSUME BlockSets, NEW d \in Disks, Uses(d), FreeBlocks(d) # {}
  PROVE  Min(FreeBlocks(d)) \in Blocks \ d.bitmap /\ Min(FreeBlocks(d)) # 0
<1>1. FreeBlocks(d) \in SUBSET Blocks
  BY Zenon DEF FreeBlocks
<1>2. Min(FreeBlocks(d)) \in FreeBlocks(d)
  BY <1>1, Zenon DEF BlockSets
<1>3. Min(FreeBlocks(d)) \in Blocks \ d.bitmap
  BY <1>2, Zenon DEF FreeBlocks
<1>4. 0 \in 0..(nmeta - 1)
  BY Sizes
<1> QED
  BY <1>3, <1>4, Zenon DEF Uses, Meta

(* e is d with the zeroed block b, which was free, in addrs[k] of file f.    *)
Direct(d, e, f, k, b) ==
  /\ e \in Disks
  /\ e.bitmap = d.bitmap \cup {b}
  /\ e.content[b] = Zeroes
  /\ \A c \in Blocks : c # b => e.content[c] = d.content[c]
  /\ \A g \in Inums : e.inode[g].size = d.inode[g].size
  /\ \A g \in Inums, l \in 0..NDIRECT :
       e.inode[g].addrs[l] = IF g = f /\ l = k THEN b ELSE d.inode[g].addrs[l]

(* The first assignment of bmap, to addrs. *)
LEMMA AssignDirect ==
  ASSUME BlockSets, NEW d \in Disks, Uses(d), FreeBlocks(d) # {},
         NEW f \in Inums, NEW k \in 0..NDIRECT
  PROVE  Direct(d, [balloc(d) EXCEPT !.inode[f].addrs[k] = Min(FreeBlocks(d))], f, k,
                Min(FreeBlocks(d)))
<1> DEFINE b == Min(FreeBlocks(d))
           x == d.bitmap \cup {b}
           y == [d.content EXCEPT ![b] = Zeroes]
           z == [d.inode EXCEPT ![f].addrs[k] = b]
           e == [bitmap |-> x, content |-> y, inode |-> z]
<1>1. b \in Blocks
  BY FreeFirst, Zenon
<1>2. Zeroes \in [0..(BSIZE - 1) -> Nat]
  BY DEF Zeroes
<1>3. [balloc(d) EXCEPT !.inode[f].addrs[k] = b] = e
  <2> DEFINE r == [bitmap |-> x, content |-> y, inode |-> d.inode]
  <2>1. r.inode = d.inode /\ [r EXCEPT !.inode = z] = e
    <3> HIDE DEF x, y, z
    <3> QED
      BY PartChanged, SMT
  <2>2. balloc(d) = [bitmap |-> x, content |-> y, inode |-> d.inode]
    BY Allocated, Zenon
  <2> HIDE DEF x, y, b, e, r
  <2> QED
    BY <2>1, <2>2, Zenon DEF r
<1> HIDE DEF b
<1>4. x \in SUBSET Blocks
  BY <1>1, Parts
<1>5. /\ y \in [Blocks -> [0..(BSIZE - 1) -> Nat]]
      /\ y[b] = Zeroes
      /\ \A c \in Blocks : c # b => y[c] = d.content[c]
  <2> HIDE DEF Zeroes
  <2> QED
    BY <1>1, <1>2, Parts
<1>6. /\ z \in [Inums -> [size : Nat, addrs : [0..NDIRECT -> Blocks]]]
      /\ \A g \in Inums : z[g].size = d.inode[g].size
      /\ \A g \in Inums, l \in 0..NDIRECT :
           z[g].addrs[l] = IF g = f /\ l = k THEN b ELSE d.inode[g].addrs[l]
  <2>1. d.inode \in Tables
    BY Parts DEF Tables
  <2>2. Pointed(z, d.inode, f, k, b)
    BY <1>1, <2>1, AddressChanged, Zenon
  <2> HIDE DEF z
  <2> QED
    BY <2>2, Zenon DEF Pointed, Tables
<1> HIDE DEF x, y, z
<1>7. e.bitmap = x /\ e.content = y /\ e.inode = z /\ e \in Disks
  BY <1>4, <1>5, <1>6 DEF Disks
<1> HIDE DEF e
<1>8. Direct(d, e, f, k, b)
  BY <1>5, <1>6, <1>7, Zenon DEF Direct, x
<1> QED
  BY <1>3, <1>8, Zenon DEF b

(* A free block is at no place of a file. *)
LEMMA FreeNowhere ==
  ASSUME NEW d \in Disks, Uses(d), NEW b \in Blocks \ d.bitmap
  PROVE  b # 0 /\ \A g \in Inums, l \in Places : BlockAt(d, g, l) # b
<1>1. 0 \in 0..(nmeta - 1)
  BY Sizes
<1>2. b # 0
  BY <1>1, Zenon DEF Uses, Meta
<1> QED
  BY <1>2, Zenon DEF Uses, Marked

(* What is at a place is a block. *)
LEMMA PlacedBlock ==
  ASSUME NEW d \in Disks, Uses(d), NEW g \in Inums, NEW l \in Places
  PROVE  BlockAt(d, g, l) # 0 => BlockAt(d, g, l) \in Blocks /\ BlockAt(d, g, l) \in d.bitmap
<1>1. d.bitmap \in SUBSET Blocks
  BY Parts, Zenon
<1> QED
  BY <1>1, Zenon DEF Uses, Marked

(* The block that was assigned is in its place. *)
LEMMA DirectTaken ==
  ASSUME NEW d \in Disks, Uses(d), NEW f \in Inums, NEW k \in 0..NDIRECT,
         d.inode[f].addrs[k] = 0, NEW b \in Blocks \ d.bitmap, NEW e, Direct(d, e, f, k, b)
  PROVE  Taken(d, e, f, IF k = NDIRECT THEN MAXFILE ELSE k, b)
<1> DEFINE pl == IF k = NDIRECT THEN MAXFILE ELSE k
<1>1. b # 0 /\ \A g \in Inums, l \in Places : BlockAt(d, g, l) # b
  BY FreeNowhere, Zenon
<1>2. pl \in Places /\ MAXFILE \in Places
  BY Sizes DEF Places
<1>3. \A g \in Inums, l \in 0..NDIRECT :
        e.inode[g].addrs[l] = IF g = f /\ l = k THEN b ELSE d.inode[g].addrs[l]
  BY Zenon DEF Direct
<1>4. \A c \in Blocks : c # b => e.content[c] = d.content[c]
  BY Zenon DEF Direct
<1>5. BlockAt(d, f, pl) = 0
  BY <1>2, Address, Sizes DEF Places
<1>6. ASSUME NEW g \in Inums, NEW l \in Places
      PROVE  BlockAt(e, g, l) = IF g = f /\ l = pl THEN b ELSE BlockAt(d, g, l)
  <2>1. CASE l < NDIRECT
    <3>1. l \in 0..NDIRECT /\ (l = pl <=> l = k)
      BY <2>1, Sizes DEF Places
    <3>2. BlockAt(e, g, l) = e.inode[g].addrs[l] /\ BlockAt(d, g, l) = d.inode[g].addrs[l]
      BY <2>1, Address
    <3> QED
      BY <1>3, <3>1, <3>2, Zenon
  <2>2. CASE l = MAXFILE
    <3>1. NDIRECT \in 0..NDIRECT /\ (l = pl <=> k = NDIRECT)
      BY <2>2, Sizes DEF Places
    <3>2. BlockAt(e, g, l) = e.inode[g].addrs[NDIRECT] /\ BlockAt(d, g, l) = d.inode[g].addrs[NDIRECT]
      BY <2>2, Address
    <3> QED
      BY <1>3, <3>1, <3>2, Zenon
  <2>3. CASE l >= NDIRECT /\ l < MAXFILE
    <3> DEFINE c == d.inode[g].addrs[NDIRECT]
               w == e.inode[g].addrs[NDIRECT]
               j == l - NDIRECT
    <3>1. NDIRECT \in 0..NDIRECT /\ l # pl /\ j \in 0..(BSIZE - 1)
      BY <2>3, Sizes DEF Places
    <3>2. BlockAt(e, g, l) = (IF w = 0 THEN 0 ELSE e.content[w][j])
          /\ BlockAt(d, g, l) = (IF c = 0 THEN 0 ELSE d.content[c][j])
      BY <2>3, Address
    <3>3. BlockAt(d, g, MAXFILE) = c
      BY <1>2, Address
    <3>4. w = IF g = f /\ NDIRECT = k THEN b ELSE c
      BY <1>3, <3>1, Zenon
    <3> HIDE DEF w, j
    <3>5. CASE g = f /\ NDIRECT = k
      <4>1. c = 0
        BY <3>5, Zenon
      <4>2. e.content[b][j] = 0
        BY <3>1, Zenon DEF Direct, Zeroes
      <4> QED
        BY <1>1, <3>1, <3>2, <3>4, <3>5, <4>1, <4>2, Zenon
    <3>6. CASE ~(g = f /\ NDIRECT = k)
      <4>1. c # 0 => e.content[c] = d.content[c]
        BY <1>1, <1>2, <1>4, <3>3, PlacedBlock, Zenon
      <4> QED
        BY <3>1, <3>2, <3>4, <3>6, <4>1, Zenon
    <3> QED
      BY <3>5, <3>6, Zenon
  <2> QED
    BY <2>1, <2>2, <2>3, Sizes DEF Places
<1> HIDE DEF pl
<1>7. ASSUME NEW g \in Inums, NEW l \in 0..(MAXFILE - 1), BlockAt(d, g, l) # 0
      PROVE  e.content[BlockAt(d, g, l)] = d.content[BlockAt(d, g, l)]
  <2>1. l \in Places
    BY Sizes DEF Places
  <2> QED
    BY <1>1, <1>4, <1>7, <2>1, PlacedBlock, Zenon
<1>8. Taken(d, e, f, pl, b)
  BY <1>5, <1>6, <1>7, Zenon DEF Taken, Direct
<1> QED
  BY <1>8, Zenon DEF pl

(* e is d with the zeroed block b, which was free, in cell j of block c.     *)
Indirect(d, e, c, j, b) ==
  /\ e \in Disks
  /\ e.bitmap = d.bitmap \cup {b}
  /\ e.inode = d.inode
  /\ e.content[b] = Zeroes
  /\ \A x \in Blocks : x # b /\ x # c => e.content[x] = d.content[x]
  /\ \A l \in 0..(BSIZE - 1) : e.content[c][l] = IF l = j THEN b ELSE d.content[c][l]

(* The second assignment of bmap, to a cell of the indirect block. *)
LEMMA AssignIndirect ==
  ASSUME BlockSets, NEW d \in Disks, Uses(d), FreeBlocks(d) # {},
         NEW c \in d.bitmap, NEW j \in 0..(BSIZE - 1)
  PROVE  Indirect(d, [balloc(d) EXCEPT !.content[c][j] = Min(FreeBlocks(d))], c, j,
                  Min(FreeBlocks(d)))
<1> DEFINE b == Min(FreeBlocks(d))
           x == d.bitmap \cup {b}
           y == [d.content EXCEPT ![b] = Zeroes]
           w == [y[c] EXCEPT ![j] = b]
           z == [y EXCEPT ![c] = w]
           e == [bitmap |-> x, content |-> z, inode |-> d.inode]
<1>1. b \in Blocks /\ b \notin d.bitmap /\ b \in Nat
  <2>1. b \in Blocks /\ b \notin d.bitmap
    BY FreeFirst, Zenon
  <2> QED
    BY <2>1, Sizes DEF Blocks
<1>2. Zeroes \in [0..(BSIZE - 1) -> Nat]
  BY DEF Zeroes
<1>3. [balloc(d) EXCEPT !.content[c][j] = b] = e
  <2> DEFINE r == [bitmap |-> x, content |-> y, inode |-> d.inode]
  <2>1. r.content = y /\ [r EXCEPT !.content = z] = e
    <3> HIDE DEF x, y, z
    <3> QED
      BY PartChanged, SMT
  <2>2. balloc(d) = r
    BY Allocated, Zenon
  <2> HIDE DEF x, y, b, e, r
  <2> QED
    BY <2>1, <2>2, Zenon
<1> HIDE DEF b
<1>4. x \in SUBSET Blocks /\ c \in Blocks /\ c # b
  BY <1>1, Parts
<1>5. /\ y \in [Blocks -> [0..(BSIZE - 1) -> Nat]]
      /\ y[b] = Zeroes
      /\ \A a \in Blocks : a # b => y[a] = d.content[a]
  <2> HIDE DEF Zeroes
  <2> QED
    BY <1>1, <1>2, Parts
<1> HIDE DEF y
<1>6. /\ w \in [0..(BSIZE - 1) -> Nat]
      /\ \A l \in 0..(BSIZE - 1) : w[l] = IF l = j THEN b ELSE y[c][l]
  BY <1>1, <1>4, <1>5
<1> HIDE DEF w
<1>7. /\ z \in [Blocks -> [0..(BSIZE - 1) -> Nat]]
      /\ z[c] = w
      /\ \A a \in Blocks : a # c => z[a] = y[a]
  BY <1>4, <1>5, <1>6
<1> HIDE DEF x, z
<1>8. e.bitmap = x /\ e.content = z /\ e.inode = d.inode /\ e \in Disks
  BY <1>4, <1>7, Parts DEF Disks
<1> HIDE DEF e
<1>9. \A l \in 0..(BSIZE - 1) : e.content[c][l] = IF l = j THEN b ELSE d.content[c][l]
  BY <1>4, <1>5, <1>6, <1>7, <1>8, Zenon
<1>10. e.content[b] = Zeroes /\ \A a \in Blocks : a # b /\ a # c => e.content[a] = d.content[a]
  BY <1>1, <1>4, <1>5, <1>7, <1>8, Zenon
<1>11. Indirect(d, e, c, j, b)
  BY <1>8, <1>9, <1>10, Zenon DEF Indirect, x
<1> QED
  BY <1>3, <1>11, Zenon DEF b

(* The block that was assigned is in its place. *)
LEMMA IndirectTaken ==
  ASSUME NEW d \in Disks, Uses(d), NEW f \in Inums, NEW k \in NDIRECT..(MAXFILE - 1),
         d.inode[f].addrs[NDIRECT] # 0, BlockAt(d, f, k) = 0, NEW b \in Blocks \ d.bitmap,
         NEW e, Indirect(d, e, d.inode[f].addrs[NDIRECT], k - NDIRECT, b)
  PROVE  Taken(d, e, f, k, b)
<1> DEFINE c == d.inode[f].addrs[NDIRECT]
<1>1. b # 0 /\ \A g \in Inums, l \in Places : BlockAt(d, g, l) # b
  BY FreeNowhere, Zenon
<1>2. k \in Places /\ MAXFILE \in Places /\ MAXFILE # k
  BY Sizes DEF Places
<1>3. e.inode = d.inode
  BY Zenon DEF Indirect
<1>4. /\ \A x \in Blocks : x # b /\ x # c => e.content[x] = d.content[x]
      /\ \A l \in 0..(BSIZE - 1) : e.content[c][l] = IF l = k - NDIRECT THEN b ELSE d.content[c][l]
  BY Zenon DEF Indirect
<1>5. BlockAt(d, f, MAXFILE) = c /\ c # 0
  BY <1>2, Address
<1>6. ASSUME NEW g \in Inums, NEW l \in Places, BlockAt(d, g, l) = c
      PROVE  g = f /\ l = MAXFILE
  BY <1>2, <1>5, <1>6 DEF Uses, Single
<1> HIDE DEF c
<1>7. ASSUME NEW g \in Inums, NEW l \in Places
      PROVE  BlockAt(e, g, l) = IF g = f /\ l = k THEN b ELSE BlockAt(d, g, l)
  <2>1. CASE l < NDIRECT
    <3>1. l # k
      BY <2>1, Sizes DEF Places
    <3>2. BlockAt(e, g, l) = e.inode[g].addrs[l] /\ BlockAt(d, g, l) = d.inode[g].addrs[l]
      BY <2>1, Address
    <3> QED
      BY <1>3, <3>1, <3>2, Zenon
  <2>2. CASE l = MAXFILE
    <3>1. BlockAt(e, g, l) = e.inode[g].addrs[NDIRECT] /\ BlockAt(d, g, l) = d.inode[g].addrs[NDIRECT]
      BY <2>2, Address
    <3> QED
      BY <1>2, <1>3, <2>2, <3>1, Zenon
  <2>3. CASE l >= NDIRECT /\ l < MAXFILE
    <3> DEFINE a == d.inode[g].addrs[NDIRECT]
               j == l - NDIRECT
    <3>1. j \in 0..(BSIZE - 1) /\ (l = k <=> j = k - NDIRECT)
      BY <2>3, Sizes DEF Places
    <3>2. e.inode[g].addrs[NDIRECT] = a
      BY <1>3, Zenon
    <3>3. BlockAt(e, g, l) = (IF a = 0 THEN 0 ELSE e.content[a][j])
          /\ BlockAt(d, g, l) = (IF a = 0 THEN 0 ELSE d.content[a][j])
      BY <2>3, <3>2, Address
    <3>4. BlockAt(d, g, MAXFILE) = a
      BY <1>2, Address
    <3> HIDE DEF a, j
    <3>5. CASE g = f
      <4>1. a = c
        BY <1>5, <3>4, <3>5, Zenon
      <4> QED
        BY <1>4, <1>5, <3>1, <3>3, <3>5, <4>1, Zenon
    <3>6. CASE g # f
      <4>1. a # c
        BY <1>2, <1>6, <3>4, <3>6, Zenon
      <4>2. a # 0 => e.content[a] = d.content[a]
        BY <1>1, <1>2, <1>4, <3>4, <4>1, PlacedBlock, Zenon
      <4> QED
        BY <3>3, <3>6, <4>2, Zenon
    <3> QED
      BY <3>5, <3>6, Zenon
  <2> QED
    BY <2>1, <2>2, <2>3, Sizes DEF Places
<1>8. ASSUME NEW g \in Inums, NEW l \in 0..(MAXFILE - 1), BlockAt(d, g, l) # 0
      PROVE  e.content[BlockAt(d, g, l)] = d.content[BlockAt(d, g, l)]
  <2>1. l \in Places /\ l # MAXFILE
    BY Sizes DEF Places
  <2> QED
    BY <1>1, <1>4, <1>6, <1>8, <2>1, PlacedBlock, Zenon
<1> QED
  BY <1>3, <1>7, <1>8, Zenon DEF Taken, Indirect

(* Growing composes. *)
LEMMA GrownTwice ==
  ASSUME NEW d, NEW e, NEW u, Grown(d, e), Grown(e, u)
  PROVE  Grown(d, u)
BY Zenon DEF Grown

(* Data blocks have their address in the place of their number. *)
LEMMA DataPlace ==
  ASSUME NEW bn \in 0..(MAXFILE - 1), NEW d, NEW f
  PROVE  bn \in Places /\ bn # MAXFILE /\ Addr(d, f, bn) = BlockAt(d, f, bn)
<1>1. bn \in Places /\ bn # MAXFILE
  BY Sizes DEF Places
<1> QED
  BY <1>1, Zenon DEF BlockAt

(* bmap to an address in the inode. *)
LEMMA DirectWorks ==
  ASSUME BlockSets, NEW d \in Disks, Uses(d), FreeBlocks(d) # {},
         NEW f \in Inums, NEW k \in 0..NDIRECT, d.inode[f].addrs[k] = 0
  PROVE  Took(d, [balloc(d) EXCEPT !.inode[f].addrs[k] = Min(FreeBlocks(d))], f,
              IF k = NDIRECT THEN MAXFILE ELSE k)
<1> DEFINE b == Min(FreeBlocks(d))
           e == [balloc(d) EXCEPT !.inode[f].addrs[k] = Min(FreeBlocks(d))]
           pl == IF k = NDIRECT THEN MAXFILE ELSE k
<1>1. Direct(d, e, f, k, b)
  BY AssignDirect, Zenon
<1>2. b \in Blocks \ d.bitmap
  BY FreeFirst, Zenon
<1> HIDE DEF b, e
<1>3. Taken(d, e, f, pl, b)
  BY <1>1, <1>2, DirectTaken, Zenon
<1>4. e \in Disks
  BY <1>1, Zenon DEF Direct
<1>5. pl \in Places
  BY Sizes DEF Places
<1> HIDE DEF pl
<1>6. Took(d, e, f, pl)
  BY <1>3, <1>4, <1>5, TakenGrown, Zenon
<1> QED
  BY <1>6, Zenon DEF e, pl

(* bmap to an address in the indirect block. *)
LEMMA IndirectWorks ==
  ASSUME BlockSets, NEW d \in Disks, Uses(d), FreeBlocks(d) # {},
         NEW f \in Inums, NEW k \in NDIRECT..(MAXFILE - 1),
         d.inode[f].addrs[NDIRECT] # 0, BlockAt(d, f, k) = 0
  PROVE  Took(d, [balloc(d) EXCEPT !.content[d.inode[f].addrs[NDIRECT]][k - NDIRECT]
                                     = Min(FreeBlocks(d))], f, k)
<1> DEFINE b == Min(FreeBlocks(d))
           c == d.inode[f].addrs[NDIRECT]
           j == k - NDIRECT
           e == [balloc(d) EXCEPT !.content[c][j] = b]
<1>1. k \in Places /\ MAXFILE \in Places /\ j \in 0..(BSIZE - 1)
  BY Sizes DEF Places
<1>2. BlockAt(d, f, MAXFILE) = c
  BY <1>1, Address
<1>3. c \in d.bitmap
  BY <1>1, <1>2, PlacedBlock, Zenon
<1> HIDE DEF c, j
<1>4. Indirect(d, e, c, j, b)
  BY <1>1, <1>3, AssignIndirect, Zenon
<1>5. b \in Blocks \ d.bitmap
  BY FreeFirst, Zenon
<1> HIDE DEF b, e
<1>6. Taken(d, e, f, k, b)
  BY <1>4, <1>5, IndirectTaken, Zenon DEF c, j
<1>7. e \in Disks
  BY <1>4, Zenon DEF Indirect
<1>8. Took(d, e, f, k)
  BY <1>1, <1>6, <1>7, TakenGrown, Zenon
<1> QED
  BY <1>8, Zenon DEF e, b, c, j

(* What bmap promises. *)
Maps(d, e, f, bn) ==
  /\ e \in Disks /\ Grown(d, e)
  /\ Addr(e, f, bn) # 0
  /\ Addr(d, f, bn) # 0 => e = d

(* bmap maps its block while there are blocks enough, and changes no byte of *)
(* any file.                                                                 *)
LEMMA BmapWorks ==
  ASSUME BlockSets, NEW d \in Disks, Uses(d), NEW f \in Inums, NEW bn \in 0..(MAXFILE - 1),
         Missing(d, f, bn) <= Cardinality(FreeBlocks(d))
  PROVE  Maps(d, bmap(d, f, bn), f, bn)
<1>1. bn \in Places /\ bn # MAXFILE /\ \A e : Addr(e, f, bn) = BlockAt(e, f, bn)
  BY DataPlace, Zenon
<1>2. FreeBlocks(d) \in SUBSET Blocks
  BY Zenon DEF FreeBlocks
<1>3. Cardinality(FreeBlocks(d)) \in Nat
  BY <1>2, Zenon DEF BlockSets
<1>4. CASE Addr(d, f, bn) # 0
  <2>1. bmap(d, f, bn) = d
    BY <1>4, Zenon DEF bmap, Mapped
  <2>2. Grown(d, d)
    BY Zenon DEF Grown
  <2> QED
    BY <1>4, <2>1, <2>2, Zenon DEF Maps
<1>5. CASE Addr(d, f, bn) = 0 /\ bn < NDIRECT
  <2> DEFINE e == [balloc(d) EXCEPT !.inode[f].addrs[bn] = Min(FreeBlocks(d))]
  <2>1. bmap(d, f, bn) = e
    BY <1>5, Zenon DEF bmap, Mapped
  <2>2. bn \in 0..NDIRECT /\ bn # NDIRECT /\ ~(bn >= NDIRECT)
    BY <1>5, Sizes
  <2>3. Missing(d, f, bn) = 1
    BY <1>5, <2>2, Zenon DEF Missing
  <2>4. FreeBlocks(d) # {}
    <3>1. Cardinality(FreeBlocks(d)) >= 1
      BY <1>3, <2>3
    <3> QED
      BY <1>2, <3>1, Zenon DEF BlockSets
  <2>5. d.inode[f].addrs[bn] = 0
    BY <1>1, <1>5, Address
  <2>6. Took(d, e, f, IF bn = NDIRECT THEN MAXFILE ELSE bn)
    BY <2>2, <2>4, <2>5, DirectWorks, Zenon
  <2> HIDE DEF e
  <2>7. Took(d, e, f, bn)
    BY <2>2, <2>6, Zenon
  <2> QED
    BY <1>1, <1>5, <2>1, <2>7, Zenon DEF Maps, Took
<1>6. CASE Addr(d, f, bn) = 0 /\ ~(bn < NDIRECT) /\ d.inode[f].addrs[NDIRECT] # 0
  <2> DEFINE e == [balloc(d) EXCEPT !.content[d.inode[f].addrs[NDIRECT]][bn - NDIRECT]
                                      = Min(FreeBlocks(d))]
  <2>1. bmap(d, f, bn) = e
    BY <1>6, Zenon DEF bmap, Mapped
  <2>2. bn \in NDIRECT..(MAXFILE - 1)
    BY <1>6, Sizes
  <2>3. Missing(d, f, bn) = 1
    BY <1>6, Zenon DEF Missing
  <2>4. FreeBlocks(d) # {}
    <3>1. Cardinality(FreeBlocks(d)) >= 1
      BY <1>3, <2>3
    <3> QED
      BY <1>2, <3>1, Zenon DEF BlockSets
  <2>5. Took(d, e, f, bn)
    BY <1>1, <1>6, <2>2, <2>4, IndirectWorks, Zenon
  <2> HIDE DEF e
  <2> QED
    BY <1>1, <1>6, <2>1, <2>5, Zenon DEF Maps, Took
<1>7. CASE Addr(d, f, bn) = 0 /\ ~(bn < NDIRECT) /\ d.inode[f].addrs[NDIRECT] = 0
  <2> DEFINE i == [balloc(d) EXCEPT !.inode[f].addrs[NDIRECT] = Min(FreeBlocks(d))]
             e == [balloc(i) EXCEPT !.content[i.inode[f].addrs[NDIRECT]][bn - NDIRECT]
                                      = Min(FreeBlocks(i))]
  <2>1. bmap(d, f, bn) = e
    BY <1>7, Zenon DEF bmap, Mapped
  <2>2. bn \in NDIRECT..(MAXFILE - 1) /\ bn >= NDIRECT /\ NDIRECT \in 0..NDIRECT /\ MAXFILE \in Places
    BY <1>7, Sizes DEF Places
  <2>3. Missing(d, f, bn) = 2
    BY <1>7, <2>2, Zenon DEF Missing
  <2>4. FreeBlocks(d) # {} /\ \A b : FreeBlocks(d) \ {b} # {}
    <3>1. Cardinality(FreeBlocks(d)) >= 1 /\ Cardinality(FreeBlocks(d)) >= 2
      BY <1>3, <2>3
    <3> QED
      BY <1>2, <3>1, Zenon DEF BlockSets
  <2>5. /\ i \in Disks /\ Grown(d, i) /\ BlockAt(i, f, MAXFILE) # 0
        /\ \E b : Taken(d, i, f, MAXFILE, b) /\ FreeBlocks(i) = FreeBlocks(d) \ {b}
    <3>1. Took(d, i, f, IF NDIRECT = NDIRECT THEN MAXFILE ELSE NDIRECT)
      BY <1>7, <2>2, <2>4, DirectWorks, Zenon
    <3> HIDE DEF i
    <3> QED
      BY <3>1, Zenon DEF Took
  <2> HIDE DEF i
  <2>6. FreeBlocks(i) # {} /\ BlockAt(i, f, bn) = 0
    BY <1>1, <1>7, <2>4, <2>5, Zenon DEF Taken
  <2>7. i.inode[f].addrs[NDIRECT] # 0
    BY <2>2, <2>5, Address
  <2>8. Uses(i)
    BY <2>5, Zenon DEF Grown
  <2>9. Took(i, e, f, bn)
    BY <2>2, <2>5, <2>6, <2>7, <2>8, IndirectWorks, Zenon
  <2> HIDE DEF e
  <2>10. Grown(d, e)
    BY <2>5, <2>9, GrownTwice, Zenon DEF Took
  <2> QED
    BY <1>1, <1>7, <2>1, <2>9, <2>10, Zenon DEF Maps, Took
<1> QED
  BY <1>4, <1>5, <1>6, <1>7, Zenon

(* e is d but for the m cells of block b from o on, which are v. *)
Stored(d, e, b, o, m, v) ==
  /\ e \in Disks /\ e.bitmap = d.bitmap /\ e.inode = d.inode
  /\ \A x \in Blocks : x # b => e.content[x] = d.content[x]
  /\ \A j \in 0..(BSIZE - 1) : e.content[b][j] = IF j \in o..(o + m - 1) THEN v ELSE d.content[b][j]

(* What Put does to the parts of a disk. *)
LEMMA PutStored ==
  ASSUME NEW d \in Disks, NEW b \in Blocks, NEW o, NEW m, NEW v \in Nat
  PROVE  Stored(d, Put(d, b, o, m, v), b, o, m, v)
<1> DEFINE w == [k \in 0..(BSIZE - 1) |-> IF k \in o..(o + m - 1) THEN v ELSE d.content[b][k]]
           y == [d.content EXCEPT ![b] = w]
           e == [bitmap |-> d.bitmap, content |-> y, inode |-> d.inode]
<1>1. d = [bitmap |-> d.bitmap, content |-> d.content, inode |-> d.inode]
  BY Parts
<1>2. Put(d, b, o, m, v) = e
  <2>1. Put(d, b, o, m, v) = [d EXCEPT !.content = y]
    BY Zenon DEF Put
  <2> HIDE DEF y
  <2> QED
    BY <1>1, <2>1, PartChanged, SMT
<1>3. d.content \in [Blocks -> [0..(BSIZE - 1) -> Nat]]
  BY Parts
<1>4. \A j \in 0..(BSIZE - 1) : d.content[b][j] \in Nat
  BY <1>3
<1>5. /\ w \in [0..(BSIZE - 1) -> Nat]
      /\ \A j \in 0..(BSIZE - 1) : w[j] = IF j \in o..(o + m - 1) THEN v ELSE d.content[b][j]
  BY <1>4, Zenon
<1> HIDE DEF w
<1>6. /\ y \in [Blocks -> [0..(BSIZE - 1) -> Nat]]
      /\ y[b] = w /\ \A x \in Blocks : x # b => y[x] = d.content[x]
  BY <1>3, <1>5
<1> HIDE DEF y
<1>7. e \in Disks /\ e.bitmap = d.bitmap /\ e.content = y /\ e.inode = d.inode
  BY <1>6, Parts DEF Disks
<1> HIDE DEF e
<1>8. Stored(d, e, b, o, m, v)
  BY <1>5, <1>6, <1>7, Zenon DEF Stored
<1> QED
  BY <1>2, <1>8, Zenon

(* Whatever is at the places of d is there in e, too. *)
SamePlaces(d, e) == \A g \in Inums, l \in Places : BlockAt(e, g, l) = BlockAt(d, g, l)

(* Uses depends on the places, the bitmap and the sizes. *)
LEMMA SameUses ==
  ASSUME NEW d, NEW e, Uses(d), SamePlaces(d, e), e.bitmap = d.bitmap, Addressed(e)
  PROVE  Uses(e)
<1>1. Marked(e)
  BY Zenon DEF Uses, Marked, SamePlaces
<1>2. Placed(e)
  <2>1. ASSUME NEW c \in e.bitmap, ~(c < nmeta)
        PROVE  \E g \in Inums, l \in Places : BlockAt(e, g, l) = c
    <3>1. PICK g \in Inums, l \in Places : BlockAt(d, g, l) = c
      BY <2>1, Zenon DEF Uses, Placed
    <3> QED
      BY <3>1, Zenon DEF SamePlaces
  <2> QED
    BY <2>1, Zenon DEF Placed
<1>3. Meta(e)
  BY Zenon DEF Uses, Meta
<1>4. Single(e)
  BY DEF Uses, Single, SamePlaces
<1> QED
  BY <1>1, <1>2, <1>3, <1>4, Zenon DEF Uses

(* The places depend on the inodes and on the indirect blocks. *)
LEMMA PlacesKept ==
  ASSUME NEW d, NEW e, \A g \in Inums : e.inode[g].addrs = d.inode[g].addrs,
         \A g \in Inums : BlockAt(d, g, MAXFILE) # 0 =>
           \A j \in 0..(BSIZE - 1) :
             e.content[BlockAt(d, g, MAXFILE)][j] = d.content[BlockAt(d, g, MAXFILE)][j]
  PROVE  SamePlaces(d, e)
<1>1. ASSUME NEW g \in Inums, NEW l \in Places PROVE BlockAt(e, g, l) = BlockAt(d, g, l)
  <2>1. e.inode[g].addrs = d.inode[g].addrs
    BY Zenon
  <2>2. CASE l < NDIRECT
    <3>1. BlockAt(e, g, l) = e.inode[g].addrs[l] /\ BlockAt(d, g, l) = d.inode[g].addrs[l]
      BY <2>2, Address
    <3> QED
      BY <2>1, <3>1, Zenon
  <2>3. CASE l = MAXFILE
    <3>1. BlockAt(e, g, l) = e.inode[g].addrs[NDIRECT] /\ BlockAt(d, g, l) = d.inode[g].addrs[NDIRECT]
      BY <2>3, Address
    <3> QED
      BY <2>1, <3>1, Zenon
  <2>4. CASE l >= NDIRECT /\ l < MAXFILE
    <3> DEFINE a == d.inode[g].addrs[NDIRECT]
               j == l - NDIRECT
    <3>1. j \in 0..(BSIZE - 1) /\ MAXFILE \in Places
      BY <2>4, Sizes DEF Places
    <3>2. e.inode[g].addrs[NDIRECT] = a
      BY <2>1, Zenon
    <3>3. BlockAt(e, g, l) = (IF a = 0 THEN 0 ELSE e.content[a][j])
          /\ BlockAt(d, g, l) = (IF a = 0 THEN 0 ELSE d.content[a][j])
      BY <2>4, <3>2, Address
    <3>4. BlockAt(d, g, MAXFILE) = a
      BY <3>1, Address
    <3> HIDE DEF a, j
    <3> QED
      BY <3>1, <3>3, <3>4, Zenon
  <2> QED
    BY <2>2, <2>3, <2>4, Sizes DEF Places
<1> QED
  BY <1>1, Zenon DEF SamePlaces

(* The offsets that have an address. *)
Offsets == 0..(MAXFILE * BSIZE - 1)

(* e is d but for m bytes of block n of f. *)
Overwritten(d, e, f, n, o, m, v) ==
  /\ Uses(e) /\ SamePlaces(d, e)
  /\ \A g \in Inums, i \in 0..(MAXFILE - 1), j \in 0..(BSIZE - 1) :
       ByteAt(e, g, i, j) = IF g = f /\ i = n /\ j \in o..(o + m - 1) THEN v
                            ELSE ByteAt(d, g, i, j)

(* Storing into a data block changes no place, and those bytes only. *)
LEMMA StoredWorks ==
  ASSUME NEW d \in Disks, Uses(d), NEW f \in Inums, NEW n \in 0..(MAXFILE - 1),
         Addr(d, f, n) # 0, NEW o, NEW m, NEW v, NEW e, Stored(d, e, Addr(d, f, n), o, m, v)
  PROVE  Overwritten(d, e, f, n, o, m, v)
<1> DEFINE b == Addr(d, f, n)
<1>1. n \in Places /\ n # MAXFILE /\ b = BlockAt(d, f, n) /\ MAXFILE \in Places
  <2>1. MAXFILE \in Places
    BY Sizes DEF Places
  <2> QED
    BY <2>1, DataPlace, Zenon
<1>2. ASSUME NEW g \in Inums, NEW l \in Places, BlockAt(d, g, l) = b
      PROVE  g = f /\ l = n
  BY <1>1, <1>2 DEF Uses, Single
<1>3. \A x \in Blocks : x # b => e.content[x] = d.content[x]
  BY Zenon DEF Stored
<1>4. e.inode = d.inode /\ e.bitmap = d.bitmap
  BY Zenon DEF Stored
<1>5. \A j \in 0..(BSIZE - 1) : e.content[b][j] = IF j \in o..(o + m - 1) THEN v ELSE d.content[b][j]
  BY Zenon DEF Stored
<1> HIDE DEF b
<1>6. SamePlaces(d, e)
  <2>1. \A g \in Inums : BlockAt(d, g, MAXFILE) # 0 =>
          e.content[BlockAt(d, g, MAXFILE)] = d.content[BlockAt(d, g, MAXFILE)]
    BY <1>1, <1>2, <1>3, PlacedBlock, Zenon
  <2>2. \A g \in Inums : e.inode[g].addrs = d.inode[g].addrs
    BY <1>4, Zenon
  <2> QED
    BY <2>1, <2>2, PlacesKept, Zenon
<1>7. Uses(e)
  <2>1. Addressed(e)
    BY <1>4, Zenon DEF Uses, Addressed
  <2> QED
    BY <1>4, <1>6, <2>1, SameUses, Zenon
<1>8. ASSUME NEW g \in Inums, NEW i \in 0..(MAXFILE - 1), NEW j \in 0..(BSIZE - 1)
      PROVE  ByteAt(e, g, i, j) = IF g = f /\ i = n /\ j \in o..(o + m - 1) THEN v
                                  ELSE ByteAt(d, g, i, j)
  <2> DEFINE c == BlockAt(d, g, i)
  <2>1. i \in Places /\ Addr(d, g, i) = c /\ Addr(e, g, i) = c
    BY <1>6, DataPlace, Zenon DEF SamePlaces
  <2>2. CASE g = f /\ i = n
    <3>1. c = b /\ b # 0
      BY <1>1, <2>2, Zenon DEF b
    <3> QED
      BY <1>5, <2>1, <2>2, <3>1, Zenon DEF ByteAt
  <2>3. CASE ~(g = f /\ i = n)
    <3>1. c # b
      BY <1>2, <2>1, <2>3, Zenon
    <3>2. c # 0 => e.content[c] = d.content[c]
      BY <1>3, <2>1, <3>1, PlacedBlock, Zenon
    <3> QED
      BY <2>1, <2>3, <3>2, Zenon DEF ByteAt
  <2> QED
    BY <2>2, <2>3, Zenon
<1> QED
  BY <1>6, <1>7, <1>8, Zenon DEF Overwritten

(* Byte k of a file is in a block. *)
HasBlock(d, f, k) == Addr(d, f, k \div BSIZE) # 0

(* e holds the same files as d, in blocks that d has or has not. *)
Kept(d, e) ==
  /\ e \in Disks /\ Uses(e)
  /\ \A g \in Inums : e.inode[g].size = d.inode[g].size
  /\ \A g \in Inums, k \in Offsets : Cell(e, g, k) = Cell(d, g, k)
  /\ \A g \in Inums, k \in Offsets : HasBlock(d, g, k) => HasBlock(e, g, k)

(* e holds the same files as d, but for the m bytes of f from x on, now v.   *)
Wrote(d, e, f, x, m, v) ==
  /\ e \in Disks /\ Uses(e)
  /\ \A g \in Inums : e.inode[g].size = d.inode[g].size
  /\ \A g \in Inums, k \in Offsets :
       Cell(e, g, k) = IF g = f /\ k \in x..(x + m - 1) THEN v ELSE Cell(d, g, k)
  /\ \A g \in Inums, k \in Offsets :
       HasBlock(d, g, k) \/ (g = f /\ k \in x..(x + m - 1)) => HasBlock(e, g, k)

(* An offset, its block and its byte. *)
LEMMA OffsetParts ==
  ASSUME NEW k \in Offsets
  PROVE  /\ k \in Nat /\ k \div BSIZE \in 0..(MAXFILE - 1) /\ k % BSIZE \in 0..(BSIZE - 1)
         /\ \A d, f : Cell(d, f, k) = ByteAt(d, f, k \div BSIZE, k % BSIZE)
<1>1. k \in Nat /\ k < MAXFILE * BSIZE
  BY Sizes DEF Offsets
<1>2. k \div BSIZE < MAXFILE
  BY <1>1, InRange, Zenon
<1>3. k \div BSIZE \in Nat /\ k % BSIZE \in 0..(BSIZE - 1)
  BY <1>1, Offset, Zenon
<1>4. k \div BSIZE \in 0..(MAXFILE - 1)
  BY <1>2, <1>3, Sizes
<1> QED
  BY <1>1, <1>3, <1>4, Zenon DEF Cell, ByteAt

(* bmap, for a read: the files stay as they are, and the disk does when the  *)
(* block is there.                                                           *)
LEMMA ReadWorks ==
  ASSUME BlockSets, NEW d \in Disks, Uses(d), NEW f \in Inums, NEW x \in Offsets,
         Missing(d, f, x \div BSIZE) <= Cardinality(FreeBlocks(d))
  PROVE  /\ Kept(d, bmap(d, f, x \div BSIZE))
         /\ HasBlock(d, f, x) => bmap(d, f, x \div BSIZE) = d
<1> DEFINE e == bmap(d, f, x \div BSIZE)
<1>1. x \div BSIZE \in 0..(MAXFILE - 1)
  BY OffsetParts, Zenon
<1>2. Maps(d, e, f, x \div BSIZE)
  BY <1>1, BmapWorks, Zenon
<1> HIDE DEF e
<1>3. ASSUME NEW g \in Inums, NEW k \in Offsets PROVE Cell(e, g, k) = Cell(d, g, k)
  <2>1. /\ k \div BSIZE \in 0..(MAXFILE - 1) /\ k % BSIZE \in 0..(BSIZE - 1)
        /\ Cell(e, g, k) = ByteAt(e, g, k \div BSIZE, k % BSIZE)
        /\ Cell(d, g, k) = ByteAt(d, g, k \div BSIZE, k % BSIZE)
    BY OffsetParts, Zenon
  <2> QED
    BY <1>2, <2>1, Zenon DEF Maps, Grown
<1>4. \A g \in Inums, k \in Offsets : HasBlock(d, g, k) => HasBlock(e, g, k)
  BY <1>2, OffsetParts, Zenon DEF Maps, Grown, HasBlock
<1>5. Kept(d, e)
  BY <1>2, <1>3, <1>4, Zenon DEF Kept, Maps, Grown
<1>6. HasBlock(d, f, x) => e = d
  BY <1>2, Zenon DEF Maps, HasBlock
<1> QED
  BY <1>5, <1>6, Zenon DEF e

(* An iteration of writei. *)
LEMMA WriteWorks ==
  ASSUME BlockSets, NEW d \in Disks, Uses(d), NEW f \in Inums, NEW x \in Offsets,
         Missing(d, f, x \div BSIZE) <= Cardinality(FreeBlocks(d)),
         NEW m \in Nat, (x % BSIZE) + m <= BSIZE, NEW v \in Nat,
         NEW i, i = bmap(d, f, x \div BSIZE)
  PROVE  Wrote(d, Put(i, Addr(i, f, x \div BSIZE), x % BSIZE, m, v), f, x, m, v)
<1> DEFINE n == x \div BSIZE
           o == x % BSIZE
           b == Addr(i, f, n)
           e == Put(i, b, o, m, v)
<1>1. n \in 0..(MAXFILE - 1) /\ x \in Nat
  BY OffsetParts, Zenon
<1>2. Maps(d, i, f, n)
  BY <1>1, BmapWorks, Zenon
<1>3. i \in Disks /\ Uses(i) /\ b # 0
  BY <1>2, Zenon DEF Maps, Grown
<1>4. b \in Blocks
  <2>1. n \in Places /\ b = BlockAt(i, f, n)
    BY <1>1, DataPlace, Zenon
  <2> QED
    BY <1>3, <2>1, PlacedBlock, Zenon
<1>5. Stored(i, e, b, o, m, v)
  BY <1>3, <1>4, PutStored, Zenon
<1> HIDE DEF e
<1>6. Overwritten(i, e, f, n, o, m, v)
  BY <1>1, <1>3, <1>5, StoredWorks, Zenon
<1>7. ASSUME NEW k \in Offsets
      PROVE  k \in x..(x + m - 1) <=> k \div BSIZE = n /\ k % BSIZE \in o..(o + m - 1)
  BY <1>1, OffsetParts, Within, Zenon
<1>8. ASSUME NEW g \in Inums, NEW k \in Offsets
      PROVE  Cell(e, g, k) = IF g = f /\ k \in x..(x + m - 1) THEN v ELSE Cell(d, g, k)
  <2>1. /\ k \div BSIZE \in 0..(MAXFILE - 1) /\ k % BSIZE \in 0..(BSIZE - 1)
        /\ Cell(e, g, k) = ByteAt(e, g, k \div BSIZE, k % BSIZE)
        /\ Cell(d, g, k) = ByteAt(d, g, k \div BSIZE, k % BSIZE)
    BY OffsetParts, Zenon
  <2>2. ByteAt(i, g, k \div BSIZE, k % BSIZE) = ByteAt(d, g, k \div BSIZE, k % BSIZE)
    BY <1>2, <2>1, Zenon DEF Maps, Grown
  <2> QED
    <3>1. ByteAt(e, g, k \div BSIZE, k % BSIZE) =
            IF g = f /\ k \div BSIZE = n /\ k % BSIZE \in o..(o + m - 1) THEN v
            ELSE ByteAt(i, g, k \div BSIZE, k % BSIZE)
      BY <1>6, <2>1, Zenon DEF Overwritten
    <3> QED
      BY <1>7, <2>1, <2>2, <3>1, Zenon
<1>9. ASSUME NEW g \in Inums, NEW k \in Offsets, HasBlock(d, g, k) \/ (g = f /\ k \in x..(x + m - 1))
      PROVE  HasBlock(e, g, k)
  <2>1. k \div BSIZE \in 0..(MAXFILE - 1)
    BY OffsetParts, Zenon
  <2>2. Addr(i, g, k \div BSIZE) # 0
    BY <1>2, <1>3, <1>7, <1>9, <2>1, Zenon DEF Maps, Grown, HasBlock
  <2>3. Addr(e, g, k \div BSIZE) = Addr(i, g, k \div BSIZE)
    <3>1. /\ k \div BSIZE \in Places
          /\ Addr(e, g, k \div BSIZE) = BlockAt(e, g, k \div BSIZE)
          /\ Addr(i, g, k \div BSIZE) = BlockAt(i, g, k \div BSIZE)
      BY <2>1, DataPlace, Zenon
    <3> QED
      BY <1>6, <3>1, Zenon DEF SamePlaces, Overwritten
  <2> QED
    BY <2>2, <2>3, Zenon DEF HasBlock
<1>10. e \in Disks /\ \A g \in Inums : e.inode[g].size = d.inode[g].size
  BY <1>2, <1>5, Zenon DEF Stored, Maps, Grown
<1>11. Wrote(d, e, f, x, m, v)
  BY <1>6, <1>8, <1>9, <1>10, Zenon DEF Wrote, Overwritten
<1> QED
  BY <1>11, Zenon DEF e

(* Disks that agree on places and data blocks of g hold the same bytes of g. *)
LEMMA SameCells ==
  ASSUME NEW d \in Disks, Uses(d), NEW e, NEW g \in Inums,
         \A l \in Places : BlockAt(e, g, l) = BlockAt(d, g, l), e.content = d.content,
         NEW k \in Offsets
  PROVE  Cell(e, g, k) = Cell(d, g, k) /\ HasBlock(e, g, k) = HasBlock(d, g, k)
<1> DEFINE n == k \div BSIZE
<1>1. n \in 0..(MAXFILE - 1)
  BY OffsetParts, Zenon
<1>2. n \in Places /\ Addr(e, g, n) = BlockAt(e, g, n) /\ Addr(d, g, n) = BlockAt(d, g, n)
  BY <1>1, DataPlace, Zenon
<1>3. Addr(e, g, n) = Addr(d, g, n)
  BY <1>2, Zenon
<1> QED
  BY <1>3, Zenon DEF Cell, HasBlock

(* e is d but for the size of f. *)
Resized(d, e, f, s) ==
  /\ e \in Disks /\ Uses(e)
  /\ \A g \in Inums : e.inode[g].size = IF g = f THEN s ELSE d.inode[g].size
  /\ \A g \in Inums, k \in Offsets :
       Cell(e, g, k) = Cell(d, g, k) /\ HasBlock(e, g, k) = HasBlock(d, g, k)

(* The end of writei. *)
LEMMA ResizeWorks ==
  ASSUME NEW d \in Disks, Uses(d), NEW f \in Inums, NEW s \in Nat, s <= MAXFILE * BSIZE
  PROVE  Resized(d, [d EXCEPT !.inode[f].size = s], f, s)
<1> DEFINE r == [size |-> s, addrs |-> d.inode[f].addrs]
           z == [d.inode EXCEPT ![f] = r]
           e == [bitmap |-> d.bitmap, content |-> d.content, inode |-> z]
<1>1. d.inode \in [Inums -> [size : Nat, addrs : [0..NDIRECT -> Blocks]]]
  BY Parts
<1>2. /\ d.inode[f] = [size |-> d.inode[f].size, addrs |-> d.inode[f].addrs]
      /\ d.inode[f].addrs \in [0..NDIRECT -> Blocks]
  BY <1>1
<1>3. [d.inode[f] EXCEPT !.size = s] = r
  BY <1>2
<1>4. [d EXCEPT !.inode = z] = e
  <2>1. d = [bitmap |-> d.bitmap, content |-> d.content, inode |-> d.inode]
    BY Parts
  <2> HIDE DEF z
  <2> QED
    BY <2>1, PartChanged, SMT
<1>5. [d EXCEPT !.inode[f].size = s] = e
  <2> HIDE DEF r, e
  <2> QED
    BY <1>3, <1>4, Zenon
<1>6. r \in [size : Nat, addrs : [0..NDIRECT -> Blocks]] /\ r.size = s /\ r.addrs = d.inode[f].addrs
  BY <1>2
<1> HIDE DEF r
<1>7. /\ z \in [Inums -> [size : Nat, addrs : [0..NDIRECT -> Blocks]]]
      /\ \A g \in Inums : z[g] = IF g = f THEN r ELSE d.inode[g]
  BY <1>1, <1>6
<1> HIDE DEF z
<1>8. e \in Disks /\ e.bitmap = d.bitmap /\ e.content = d.content /\ e.inode = z
  BY <1>7, Parts DEF Disks
<1> HIDE DEF e
<1>9. ASSUME NEW g \in Inums
      PROVE  e.inode[g].addrs = d.inode[g].addrs
             /\ e.inode[g].size = IF g = f THEN s ELSE d.inode[g].size
  <2>1. e.inode[g] = IF g = f THEN r ELSE d.inode[g]
    BY <1>7, <1>8, Zenon
  <2>2. CASE g = f
    BY <1>6, <2>1, <2>2, Zenon
  <2>3. CASE g # f
    BY <2>1, <2>3, Zenon
  <2> QED
    BY <2>2, <2>3, Zenon
<1>10. SamePlaces(d, e)
  BY <1>8, <1>9, PlacesKept, Zenon
<1>11. Addressed(e)
  BY <1>9, Zenon DEF Uses, Addressed
<1>12. Uses(e)
  BY <1>8, <1>10, <1>11, SameUses, Zenon
<1>13. ASSUME NEW g \in Inums, NEW k \in Offsets
       PROVE  Cell(e, g, k) = Cell(d, g, k) /\ HasBlock(e, g, k) = HasBlock(d, g, k)
  <2>1. \A l \in Places : BlockAt(e, g, l) = BlockAt(d, g, l)
    BY <1>10, Zenon DEF SamePlaces
  <2> QED
    BY <1>8, <2>1, SameCells, Zenon
<1>14. Resized(d, e, f, s)
  BY <1>8, <1>9, <1>12, <1>13, Zenon DEF Resized
<1> QED
  BY <1>5, <1>14, Zenon

(* e is d with f empty. *)
Emptied(d, e, f) ==
  /\ e \in Disks /\ Uses(e)
  /\ \A g \in Inums : e.inode[g].size = IF g = f THEN 0 ELSE d.inode[g].size
  /\ \A g \in Inums, k \in Offsets : g # f =>
       Cell(e, g, k) = Cell(d, g, k) /\ HasBlock(e, g, k) = HasBlock(d, g, k)

(* itrunc frees the blocks of f and keeps every other file. *)
LEMMA TruncWorks ==
  ASSUME NEW d \in Disks, Uses(d), NEW f \in Inums
  PROVE  Emptied(d, itruncated(d, f), f) /\ Owned(d, f) \subseteq d.bitmap
<1> DEFINE r == [size |-> 0, addrs |-> [k \in 0..NDIRECT |-> 0]]
           x == d.bitmap \ Freed(d, f)
           i == [bitmap |-> x, content |-> d.content, inode |-> d.inode]
           z == [d.inode EXCEPT ![f] = r]
           e == [bitmap |-> x, content |-> d.content, inode |-> z]
<1>1. d.inode \in [Inums -> [size : Nat, addrs : [0..NDIRECT -> Blocks]]] /\ d.bitmap \in SUBSET Blocks
  BY Parts
<1>2. itruncated(d, f) = e
  <2>1. d = [bitmap |-> d.bitmap, content |-> d.content, inode |-> d.inode]
    BY Parts
  <2>2. [d EXCEPT !.bitmap = x] = i
    <3> HIDE DEF x
    <3> QED
      BY <2>1, PartChanged, SMT
  <2>3. i.inode = d.inode
    <3> HIDE DEF x
    <3> QED
      BY PartChanged, SMT
  <2>4. [i EXCEPT !.inode = z] = e
    <3> HIDE DEF x, z
    <3> QED
      BY PartChanged, SMT
  <2>5. itruncated(d, f) =
          [[d EXCEPT !.bitmap = x] EXCEPT !.inode = [[d EXCEPT !.bitmap = x].inode EXCEPT ![f] = r]]
    BY Zenon DEF itruncated
  <2> HIDE DEF x, i, e
  <2> QED
    BY <2>2, <2>3, <2>4, <2>5, Zenon
<1>3. 0 \in Blocks
  BY <1>1, Sizes DEF Uses, Meta
<1>4. r \in [size : Nat, addrs : [0..NDIRECT -> Blocks]] /\ r.size = 0 /\ \A k \in 0..NDIRECT : r.addrs[k] = 0
  BY <1>3
<1> HIDE DEF r
<1>5. /\ z \in [Inums -> [size : Nat, addrs : [0..NDIRECT -> Blocks]]]
      /\ \A g \in Inums : z[g] = IF g = f THEN r ELSE d.inode[g]
  BY <1>1, <1>4
<1>6. x \in SUBSET Blocks
  BY <1>1, Zenon
<1>7. \A b : b \in x <=> b \in d.bitmap /\ (b = 0 \/ \A k \in Places : BlockAt(d, f, k) # b)
  BY Zenon DEF Freed, Owned
<1> HIDE DEF x, z
<1>8. e \in Disks /\ e.bitmap = x /\ e.content = d.content /\ e.inode = z
  BY <1>5, <1>6, Parts DEF Disks
<1> HIDE DEF e
<1>9. \A g \in Inums : e.inode[g] = IF g = f THEN r ELSE d.inode[g]
  BY <1>5, <1>8, Zenon
<1>10. ASSUME NEW l \in Places PROVE BlockAt(e, f, l) = 0
  <2>1. NDIRECT \in 0..NDIRECT /\ (l < NDIRECT => l \in 0..NDIRECT)
    BY Sizes DEF Places
  <2>2. \A k \in 0..NDIRECT : e.inode[f].addrs[k] = 0
    BY <1>4, <1>9, Zenon
  <2>3. l < NDIRECT \/ l = MAXFILE \/ (l >= NDIRECT /\ l < MAXFILE)
    BY Sizes DEF Places
  <2> QED
    BY <2>1, <2>2, <2>3, Address
<1>11. ASSUME NEW g \in Inums, g # f, NEW l \in Places PROVE BlockAt(e, g, l) = BlockAt(d, g, l)
  <2>1. e.inode[g] = d.inode[g]
    BY <1>9, <1>11, Zenon
  <2> QED
    BY <1>8, <2>1, Zenon DEF BlockAt, Addr
<1>12. Marked(e)
  <2>1. ASSUME NEW g \in Inums, NEW l \in Places, BlockAt(e, g, l) # 0
        PROVE  BlockAt(e, g, l) \in e.bitmap /\ BlockAt(e, g, l) >= nmeta
    <3> DEFINE b == BlockAt(d, g, l)
    <3>1. g # f /\ BlockAt(e, g, l) = b
      BY <1>10, <1>11, <2>1, Zenon
    <3>2. b \in d.bitmap /\ b >= nmeta
      BY <2>1, <3>1, Zenon DEF Uses, Marked
    <3>3. \A k \in Places : BlockAt(d, f, k) # b
      BY <2>1, <3>1 DEF Uses, Single
    <3> QED
      BY <1>7, <1>8, <3>1, <3>2, <3>3, Zenon
  <2> QED
    BY <2>1, Zenon DEF Marked
<1>13. Placed(e)
  <2>1. ASSUME NEW c \in e.bitmap, ~(c < nmeta)
        PROVE  \E g \in Inums, l \in Places : BlockAt(e, g, l) = c
    <3>1. c # 0
      BY <2>1, Sizes
    <3>2. c \in d.bitmap /\ \A k \in Places : BlockAt(d, f, k) # c
      BY <1>7, <1>8, <3>1, Zenon
    <3>3. PICK g \in Inums, l \in Places : BlockAt(d, g, l) = c
      BY <2>1, <3>2, Zenon DEF Uses, Placed
    <3>4. g # f
      BY <3>2, <3>3, Zenon
    <3> QED
      BY <1>11, <3>3, <3>4, Zenon
  <2> QED
    BY <2>1, Zenon DEF Placed
<1>14. Meta(e)
  <2>1. ASSUME NEW b \in 0..(nmeta - 1) PROVE b \in e.bitmap
    <3>1. b \in d.bitmap
      BY Zenon DEF Uses, Meta
    <3>2. ~(b >= nmeta)
      BY Sizes
    <3>3. b = 0 \/ \A k \in Places : BlockAt(d, f, k) # b
      BY <3>2, Zenon DEF Uses, Marked
    <3> QED
      BY <1>7, <1>8, <3>1, <3>3, Zenon
  <2> QED
    BY <2>1, Zenon DEF Meta
<1>15. Single(e)
  <2>1. ASSUME NEW g \in Inums, NEW h \in Inums, NEW l \in Places, NEW m \in Places,
               BlockAt(e, g, l) # 0, BlockAt(e, h, m) = BlockAt(e, g, l)
        PROVE  g = h /\ l = m
    <3>1. g # f /\ h # f
      BY <1>10, <2>1, Zenon
    <3>2. BlockAt(e, g, l) = BlockAt(d, g, l)
      BY <1>11, <3>1, Zenon
    <3>3. BlockAt(e, h, m) = BlockAt(d, h, m)
      BY <1>11, <3>1, Zenon
    <3>4. BlockAt(d, g, l) # 0 /\ BlockAt(d, h, m) = BlockAt(d, g, l)
      BY <2>1, <3>2, <3>3, Zenon
    <3>5. Single(d)
      BY Zenon DEF Uses
    <3> QED
      BY <3>4, <3>5 DEF Single
  <2> QED
    BY <2>1 DEF Single
<1>16. \A g \in Inums : e.inode[g].size = IF g = f THEN 0 ELSE d.inode[g].size
  BY <1>4, <1>9, Zenon
<1>17. Addressed(e)
  <2>1. 0 <= MAXFILE * BSIZE
    BY Sizes
  <2> QED
    BY <1>16, <2>1, Zenon DEF Uses, Addressed
<1>18. Uses(e)
  BY <1>12, <1>13, <1>14, <1>15, <1>17, Zenon DEF Uses
<1>19. ASSUME NEW g \in Inums, NEW k \in Offsets, g # f
       PROVE  Cell(e, g, k) = Cell(d, g, k) /\ HasBlock(e, g, k) = HasBlock(d, g, k)
  BY <1>8, <1>11, <1>19, SameCells, Zenon
<1>20. Emptied(d, e, f)
  BY <1>8, <1>16, <1>18, <1>19, Zenon DEF Emptied
<1>21. Owned(d, f) \subseteq d.bitmap
  BY Zenon DEF Uses, Marked, Owned
<1> QED
  BY <1>2, <1>20, <1>21, Zenon

-----------------------------------------------------------------------------
(* The invariant. *)

(* The calls that processes are in; those of "readi" and "writei" hold the   *)
(* lock of the inode.                                                        *)
Chunks == [pc : {"chunk"}, o : Files, left : Nat \ {0}, v : Values]
Reads == [pc : {"readi"}, o : Files, x : Nat, n1 : Nat, tot : Nat]
Writes ==
  [pc : {"writei"}, o : Files, left : Nat \ {0}, v : Values, x : Nat, n1 : Nat \ {0}, tot : Nat]

Reading(r) == r.pc = "readi"
Writing(r) == r.pc = "writei"
Busy(r) == Reading(r) \/ Writing(r)
Of(r) == FileOf[r.o]
Done(r) == r.x..(r.x + r.tot - 1)

Calls == {Idle} \cup Chunks \cup Reads \cup Writes

Types ==
  /\ fs \in Disks /\ Uses(fs)
  /\ lock \in [Inums -> BOOLEAN]
  /\ opened \subseteq Files
  /\ off \in [Files -> Nat]
  /\ op \in [Procs -> Calls]
  /\ from \in [Files -> Int] /\ DOMAIN passed = Files
  /\ DOMAIN data = Inums

(* Nobody closes a file in use, and a locked inode has one user. *)
InUse == \A p \in Procs : op[p] # Idle => op[p].o \in opened
Locked == \A p \in Procs : Busy(op[p]) => lock[Of(op[p])]
Exclusive ==
  \A p, q \in Procs : Busy(op[p]) /\ Busy(op[q]) /\ Of(op[p]) = Of(op[q]) => p = q

(* A read ends within the file, a write within what has addresses; neither   *)
(* starts after the end.                                                     *)
Fits(d, r) ==
  /\ r.tot <= r.n1
  /\ r.x <= d.inode[Of(r)].size
  /\ r.x + r.n1 <= MAXFILE * BSIZE
  /\ Reading(r) => r.x + r.n1 <= d.inode[Of(r)].size
  /\ Writing(r) => r.n1 <= r.left
Ranges == \A p \in Procs : Busy(op[p]) => Fits(fs, op[p])

(* The offset does not move under a call unless somebody seeks.              *)
Steady == \A p \in Procs : Busy(op[p]) /\ from[op[p].o] # -1 => op[p].x = off[op[p].o]

(* A file is what was written, but for what a write in progress has changed. *)
Latest == \A p \in Procs : Writing(op[p]) => \A k \in Done(op[p]) : Cell(fs, Of(op[p]), k) = op[p].v
Domains == \A f \in Inums : data[f] = [k \in 1..Size(f) |-> data[f][k]]
Holds ==
  \A f \in Inums, k \in Nat : k < Size(f) =>
    \/ Cell(fs, f, k) = data[f][k + 1]
    \/ \E p \in Procs : Writing(op[p]) /\ Of(op[p]) = f /\ k \in Done(op[p])

(* Files have the blocks below their size but for those mkfs left out, and   *)
(* a write in progress has those that it has written.                        *)
Provided(f, k) == HasBlock(fs, f, k) \/ LeftOut(f, k \div BSIZE)
Backed == \A f \in Inums, k \in Nat : k < Size(f) => Provided(f, k)
Filled ==
  \A p \in Procs : Writing(op[p]) => \A k \in Done(op[p]) : HasBlock(fs, Of(op[p]), k)
Covered == Backed /\ Filled

FileInv ==
  /\ Types /\ InUse /\ Locked /\ Exclusive /\ Ranges /\ Steady /\ SharedOffset
  /\ Latest /\ Domains /\ Holds /\ Covered

(* What a call is, by its pc. *)
LEMMA Kinds ==
  ASSUME NEW r \in Calls
  PROVE  /\ r # Idle => r.o \in Files /\ Of(r) \in Inums
         /\ Busy(r) => /\ r # Idle /\ r.x \in Nat /\ r.n1 \in Nat /\ r.tot \in Nat
                       /\ r.o \in Files /\ Of(r) \in Inums
         /\ Reading(r) <=> r \in Reads
         /\ Writing(r) <=> r \in Writes
<1>1. FileOf \in [Files -> Inums]
  BY FileAssumption
<1>2. CASE r = Idle
  BY <1>2 DEF Idle, Busy, Reading, Writing, Reads, Writes
<1>3. CASE r \in Chunks
  BY <1>1, <1>3 DEF Idle, Busy, Reading, Writing, Reads, Writes, Chunks, Of
<1>4. CASE r \in Reads
  BY <1>1, <1>4 DEF Idle, Busy, Reading, Writing, Reads, Writes, Of
<1>5. CASE r \in Writes
  BY <1>1, <1>5 DEF Idle, Busy, Reading, Writing, Reads, Writes, Of
<1> QED
  BY <1>2, <1>3, <1>4, <1>5, Zenon DEF Calls

(* What a process is doing after a step of p. *)
LEMMA OpChanged ==
  ASSUME Types, NEW p \in Procs, NEW r \in Calls, op' = [op EXCEPT ![p] = r]
  PROVE  /\ op' \in [Procs -> Calls]
         /\ \A q \in Procs : op'[q] = IF q = p THEN r ELSE op[q]
<1>1. op \in [Procs -> Calls]
  BY Zenon DEF Types
<1> HIDE DEF Calls
<1> QED
  BY <1>1

(* At first everything is as mkfs left it, and nobody is doing anything.     *)
LEMMA InitInv ==
  ASSUME Init
  PROVE  FileInv
<1>1. \A p \in Procs : op[p] = Idle
  BY Zenon DEF Init
<1>2. ~Busy(Idle)
  BY DEF Idle, Busy, Reading, Writing
<1>3. \A p \in Procs : ~Busy(op[p]) /\ ~Writing(op[p])
  BY <1>1, <1>2, Zenon DEF Busy
<1>4. Types
  <2>1. mkfs \in Disks /\ Uses(mkfs)
    BY ImageAssumption, OwnedUses, Zenon
  <2>2. fs \in Disks /\ Uses(fs)
    BY <2>1, Zenon DEF Init
  <2>3. lock \in [Inums -> BOOLEAN] /\ opened \subseteq Files /\ DOMAIN data = Inums
    BY Zenon DEF Init
  <2>4. off \in [Files -> Nat] /\ from \in [Files -> Int] /\ DOMAIN passed = Files
    <3>1. 0 \in Nat /\ 0 \in Int
      OBVIOUS
    <3> QED
      BY <3>1, Zenon DEF Init
  <2>5. op \in [Procs -> Calls]
    BY Zenon DEF Init, Calls
  <2> QED
    BY <2>2, <2>3, <2>4, <2>5, Zenon DEF Types
<1>5. InUse
  BY <1>1, Zenon DEF InUse
<1>6. Locked /\ Exclusive /\ Ranges /\ Steady /\ Latest
  BY <1>3, Zenon DEF Locked, Exclusive, Ranges, Steady, Latest
<1>7. SharedOffset
  <2>1. 0..(0 - 1) = {} /\ 0 <= 0
    OBVIOUS
  <2> QED
    BY <2>1, Zenon DEF Init, SharedOffset
<1>8. ASSUME NEW f \in Inums
      PROVE  data[f] = [k \in 1..Size(f) |-> Cell(fs, f, k - 1)]
  BY Zenon DEF Init, Bytes, Size
<1>9. Domains
  <2>1. ASSUME NEW f \in Inums PROVE data[f] = [k \in 1..Size(f) |-> data[f][k]]
    <3> DEFINE n == Size(f)
               c(k) == Cell(fs, f, k - 1)
    <3>1. data[f] = [k \in 1..n |-> c(k)]
      BY <1>8, Zenon
    <3> HIDE DEF n, c
    <3>2. data[f] = [k \in 1..n |-> data[f][k]]
      BY <3>1, Zenon
    <3> QED
      BY <3>2, Zenon DEF n
  <2> QED
    BY <2>1, Zenon DEF Domains
<1>10. Holds
  <2>1. ASSUME NEW f \in Inums, NEW k \in Nat, k < Size(f)
        PROVE  Cell(fs, f, k) = data[f][k + 1]
    <3>1. Size(f) \in Nat
      BY <1>4 DEF Types, Disks, Size
    <3>2. k + 1 \in 1..Size(f) /\ (k + 1) - 1 = k
      BY <2>1, <3>1
    <3>3. data[f][k + 1] = Cell(fs, f, (k + 1) - 1)
      BY <1>8, <3>2, Zenon
    <3> QED
      BY <3>2, <3>3, Zenon
  <2> QED
    BY <2>1, Zenon DEF Holds
<1>11. Covered
  <2>1. ASSUME NEW f \in Inums, NEW k \in Nat, k < Size(f) PROVE Provided(f, k)
    <3>1. Size(f) = mkfs.inode[f].size /\ Size(f) \in Nat /\ fs = mkfs
      BY <1>4 DEF Init, Types, Disks, Size
    <3>2. (k \div BSIZE) * BSIZE <= k /\ (k \div BSIZE) * BSIZE \in Nat
      BY FileAssumption
    <3>3. (k \div BSIZE) * BSIZE < Size(f)
      BY <2>1, <3>1, <3>2
    <3> QED
      BY <3>1, <3>3, Zenon DEF Provided, HasBlock, LeftOut
  <2> QED
    BY <1>3, <2>1, Zenon DEF Covered, Backed, Filled
<1> QED
  BY <1>4, <1>5, <1>6, <1>7, <1>9, <1>10, <1>11, Zenon DEF FileInv

(* A step that changes no file and no call that holds a lock. *)
LEMMA Quiet ==
  ASSUME FileInv, Types', InUse', SharedOffset', Steady', fs' = fs, data' = data, lock' = lock,
         \A q \in Procs : Busy(op[q]) \/ Busy(op'[q]) => op'[q] = op[q]
  PROVE  FileInv'
<1>1. \A q \in Procs : Busy(op'[q]) => op'[q] = op[q] /\ Busy(op[q])
  BY Zenon
<1>2. \A q \in Procs : Writing(op[q]) \/ Writing(op'[q]) => op'[q] = op[q]
  BY Zenon DEF Busy
<1>3. \A f : Size(f)' = Size(f)
  BY Zenon DEF Size
<1>4. Locked'
  BY <1>1, Zenon DEF FileInv, Locked
<1>5. Exclusive'
  BY <1>1, Zenon DEF FileInv, Exclusive
<1>6. Ranges'
  BY <1>1, Zenon DEF FileInv, Ranges
<1>7. Latest'
  BY <1>2, Zenon DEF FileInv, Latest
<1>8. Domains'
  BY <1>3, Zenon DEF FileInv, Domains
<1>9. Holds'
  BY <1>2, <1>3, Zenon DEF FileInv, Holds
<1>10. Covered'
  <2>1. Filled => Filled'
    BY <1>2, Zenon DEF Filled
  <2> QED
    BY <1>3, <2>1, Zenon DEF FileInv, Covered, Backed, Provided
<1> QED
  BY <1>4, <1>5, <1>6, <1>7, <1>8, <1>9, <1>10, Zenon DEF FileInv

(* A call locks its inode. *)
LEMMA Enter ==
  ASSUME FileInv, NEW p \in Procs, ~Busy(op[p]),
         NEW r \in Calls, Busy(r), r.tot = 0, r.o \in opened, Fits(fs, r), r.x = off[r.o],
         ~lock[Of(r)], op' = [op EXCEPT ![p] = r], lock' = [lock EXCEPT ![Of(r)] = TRUE],
         UNCHANGED <<fs, opened, off, data, from, passed>>
  PROVE  FileInv'
<1>1. Types
  BY Zenon DEF FileInv
<1>2. op' \in [Procs -> Calls] /\ \A q \in Procs : op'[q] = IF q = p THEN r ELSE op[q]
  BY <1>1, OpChanged, Zenon
<1>3. fs' = fs /\ opened' = opened /\ off' = off /\ data' = data
      /\ from' = from /\ passed' = passed
  OBVIOUS
<1>4. \A f : Size(f)' = Size(f)
  BY <1>3, Zenon DEF Size
<1>5. Of(r) \in Inums /\ r.x \in Nat /\ r # Idle
  BY Kinds, Zenon
<1>6. \A q \in Procs : op[q] \in Calls
  BY <1>1, Zenon DEF Types
<1>7. Done(r) = {}
  BY <1>5 DEF Done
<1>8. lock' \in [Inums -> BOOLEAN] /\ \A f \in Inums : lock'[f] = IF f = Of(r) THEN TRUE ELSE lock[f]
  <2>1. lock \in [Inums -> BOOLEAN]
    BY <1>1, Zenon DEF Types
  <2> QED
    BY <2>1, <1>5, Zenon
<1>9. Types'
  BY <1>1, <1>2, <1>3, <1>8, Zenon DEF Types
<1>10. InUse'
  BY <1>2, <1>3, Zenon DEF FileInv, InUse
<1>11. Locked'
  <2>1. ASSUME NEW q \in Procs, Busy(op'[q]) PROVE lock'[Of(op'[q])]
    <3>1. CASE q = p
      BY <1>2, <1>5, <1>8, <3>1, Zenon
    <3>2. CASE q # p
      <4>1. op'[q] = op[q]
        BY <1>2, <3>2, Zenon
      <4>2. lock[Of(op[q])] /\ Of(op[q]) \in Inums
        BY <1>6, <2>1, <4>1, Kinds, Zenon DEF FileInv, Locked
      <4> QED
        BY <1>8, <4>1, <4>2, Zenon
    <3> QED
      BY <3>1, <3>2, Zenon
  <2> QED
    BY <2>1, Zenon DEF Locked
<1>12. Exclusive'
  <2>1. ASSUME NEW q \in Procs, q # p, Busy(op[q]) PROVE Of(op[q]) # Of(r)
    BY <2>1, Zenon DEF FileInv, Locked
  <2>2. ASSUME NEW q \in Procs, NEW s \in Procs, Busy(op'[q]), Busy(op'[s]), Of(op'[q]) = Of(op'[s])
        PROVE  q = s
    <3>1. CASE q = p
      BY <1>2, <2>1, <2>2, <3>1, Zenon
    <3>2. CASE s = p
      BY <1>2, <2>1, <2>2, <3>2, Zenon
    <3>3. CASE q # p /\ s # p
      BY <1>2, <2>2, <3>3, Zenon DEF FileInv, Exclusive
    <3> QED
      BY <3>1, <3>2, <3>3, Zenon
  <2> QED
    BY <2>2, Zenon DEF Exclusive
<1>13. Ranges'
  BY <1>2, <1>3, Zenon DEF FileInv, Ranges
<1>14. Steady'
  BY <1>2, <1>3, Zenon DEF FileInv, Steady
<1>15. SharedOffset'
  BY <1>3, Zenon DEF FileInv, SharedOffset
<1>16. Latest'
  BY <1>2, <1>3, <1>7, Zenon DEF FileInv, Latest
<1>17. Domains'
  BY <1>3, <1>4, Zenon DEF FileInv, Domains
<1>18. Holds'
  <2>1. ASSUME NEW q \in Procs, Writing(op[q]) PROVE op'[q] = op[q]
    BY <1>2, <2>1, Zenon DEF Busy
  <2> QED
    BY <1>3, <1>4, <2>1, Zenon DEF FileInv, Holds
<1>19. Covered'
  <2>1. Filled => Filled'
    BY <1>2, <1>3, <1>7, Zenon DEF Filled
  <2> QED
    BY <1>3, <1>4, <2>1, Zenon DEF FileInv, Covered, Backed, Provided
<1> QED
  BY <1>9, <1>10, <1>11, <1>12, <1>13, <1>14, <1>15, <1>16, <1>17, <1>18, <1>19, Zenon DEF FileInv

(* A step that changes nothing but the counters. *)
LEMMA Unchanged ==
  ASSUME FileInv, UNCHANGED <<fs, lock, opened, off, op, data, from, passed>>
  PROVE  FileInv'
<1>1. Types' /\ InUse' /\ SharedOffset' /\ Steady'
  BY Zenon DEF FileInv, Types, InUse, SharedOffset, Steady
<1> QED
  BY <1>1, Quiet, Zenon

(* readi and writei start at an offset that they do not refuse: it and the   *)
(* end do not wrap.                                                          *)
LEMMA NotRefused ==
  ASSUME Types, NEW f \in Inums, NEW x \in Nat, NEW n \in Nat, ~Refuses(f, x, n)
  PROVE  Size(f) \in Nat /\ x <= Size(f) /\ Size(f) <= MAXFILE * BSIZE
<1>1. Size(f) \in Nat
  BY DEF Types, Disks, Size
<1>2. x <= Size(f)
  BY <1>1 DEF Refuses
<1>3. Size(f) <= MAXFILE * BSIZE
  BY Zenon DEF Types, Uses, Addressed, Size
<1> QED
  BY <1>1, <1>2, <1>3, Zenon

(* fileread. *)
LEMMA StepRead ==
  ASSUME FileInv, NEW p \in Procs, NEW o \in Files, NEW n \in ReadSizes, fileread(p, o, n)
  PROVE  FileInv'
<1>1. Types /\ n \in Nat /\ FileOf[o] \in Inums /\ off[o] \in Nat
  <2>1. Types
    BY Zenon DEF FileInv
  <2>2. ReadSizes \subseteq Nat /\ FileOf \in [Files -> Inums]
    BY FileAssumption, Zenon
  <2> QED
    BY <2>1, <2>2, Zenon DEF Types
<1>2. op[p] = Idle /\ o \in opened /\ ~lock[FileOf[o]] /\ UNCHANGED <<fs, opened, off, data, from, passed>>
  BY Zenon DEF fileread, Begin, argfd
<1>3. ~Busy(op[p])
  BY <1>2 DEF Idle, Busy, Reading, Writing
<1>4. CASE UNCHANGED <<lock, op>>
  BY <1>2, <1>4, Unchanged, Zenon
<1> DEFINE f == FileOf[o]
           x == off[o]
           m == Clamped(f, x, n)
           r == [pc |-> "readi", o |-> o, x |-> x, n1 |-> m, tot |-> 0]
<1>5. CASE ~Refuses(f, x, n) /\ lock' = [lock EXCEPT ![f] = TRUE] /\ op' = [op EXCEPT ![p] = r]
  <2>1. Size(f) \in Nat /\ x <= Size(f) /\ Size(f) <= MAXFILE * BSIZE
    BY <1>1, <1>5, NotRefused, Zenon
  <2>2. m = Min({n, Size(f) - x})
    BY Zenon DEF Clamped
  <2>3. m \in Nat /\ x + m <= Size(f)
    <3>1. Size(f) - x \in Int
      BY <1>1, <2>1
    <3>2. m = IF n <= Size(f) - x THEN n ELSE Size(f) - x
      BY <1>1, <2>2, <3>1, MinOfTwo
    <3> HIDE DEF m
    <3> QED
      BY <1>1, <2>1, <3>2
  <2> HIDE DEF m
  <2>4. r \in Reads /\ r.tot = 0 /\ r.o = o /\ r.x = x /\ r.n1 = m /\ r.pc = "readi"
    BY <1>1, <2>3 DEF Reads
  <2> HIDE DEF r
  <2>5. r \in Calls /\ Busy(r) /\ Of(r) = f
    BY <2>4, Zenon DEF Calls, Busy, Reading, Of
  <2>6. Fits(fs, r)
    <3>1. x + m <= MAXFILE * BSIZE
      BY <1>1, <2>1, <2>3, Sizes
    <3>2. ~Writing(r)
      BY <2>4 DEF Writing
    <3>3. 0 <= m
      BY <2>3
    <3> QED
      BY <2>1, <2>3, <2>4, <2>5, <3>1, <3>2, <3>3, Zenon DEF Fits, Size
  <2> QED
    BY <1>2, <1>3, <1>5, <2>4, <2>5, <2>6, Enter, Zenon
<1> QED
  BY <1>4, <1>5, Zenon DEF fileread, Goto

(* A process outside readi and writei goes on to another call outside them.  *)
LEMMA OpOnly ==
  ASSUME FileInv, NEW p \in Procs, ~Busy(op[p]), NEW r \in Calls, ~Busy(r),
         r = Idle \/ r.o \in opened, op' = [op EXCEPT ![p] = r],
         UNCHANGED <<fs, lock, opened, off, data, from, passed>>
  PROVE  FileInv'
<1>1. Types
  BY Zenon DEF FileInv
<1>2. op' \in [Procs -> Calls] /\ \A q \in Procs : op'[q] = IF q = p THEN r ELSE op[q]
  BY <1>1, OpChanged, Zenon
<1>3. fs' = fs /\ lock' = lock /\ opened' = opened /\ off' = off /\ data' = data
      /\ from' = from /\ passed' = passed
  OBVIOUS
<1>4. Types'
  BY <1>1, <1>2, <1>3, Zenon DEF Types
<1>5. InUse'
  BY <1>2, <1>3, Zenon DEF FileInv, InUse
<1>6. SharedOffset'
  BY <1>3, Zenon DEF FileInv, SharedOffset
<1>7. \A q \in Procs : Busy(op[q]) \/ Busy(op'[q]) => op'[q] = op[q]
  BY <1>2, Zenon
<1>8. Steady'
  BY <1>3, <1>7, Zenon DEF FileInv, Steady
<1> QED
  BY <1>3, <1>4, <1>5, <1>6, <1>7, <1>8, Quiet, Zenon

(* sys_write. *)
LEMMA StepWrite ==
  ASSUME FileInv, NEW p \in Procs, NEW o \in Files, NEW n \in WriteSizes, NEW v \in Values,
         sys_write(p, o, n, v)
  PROVE  FileInv'
<1> DEFINE r == [pc |-> "chunk", o |-> o, left |-> n, v |-> v]
<1>1. n \in Nat \ {0}
  BY FileAssumption, Zenon
<1>2. r \in Chunks /\ r.o = o /\ r.pc = "chunk"
  BY <1>1 DEF Chunks
<1>3. /\ op[p] = Idle /\ o \in opened /\ op' = [op EXCEPT ![p] = r]
      /\ UNCHANGED <<fs, lock, opened, off, data, from, passed>>
  BY Zenon DEF sys_write, Begin, argfd, Goto
<1>4. ~Busy(op[p])
  BY <1>3 DEF Idle, Busy, Reading, Writing
<1> HIDE DEF r
<1>5. r \in Calls /\ ~Busy(r)
  BY <1>2 DEF Calls, Busy, Reading, Writing
<1> QED
  BY <1>2, <1>3, <1>4, <1>5, OpOnly, Zenon

(* A chunk: refused, or the inode is locked. *)
LEMMA StepChunk ==
  ASSUME FileInv, NEW p \in Procs, filewrite_chunk(p)
  PROVE  FileInv'
<1> DEFINE s == op[p]
           f == Inode(p)
           x == off[s.o]
           m == Min({s.left, MaxChunk})
           r == [pc |-> "writei", o |-> s.o, left |-> s.left, v |-> s.v, x |-> x, n1 |-> m, tot |-> 0]
<1>1. Types
  BY Zenon DEF FileInv
<1>2. /\ s.pc = "chunk" /\ ~lock[f]
      /\ UNCHANGED <<fs, opened, off, data, from, passed>>
  BY Zenon DEF filewrite_chunk, At, Unlocked
<1>3. s \in Calls
  BY <1>1, Zenon DEF Types
<1>4. ~Busy(s) /\ s # Idle /\ s.left \in Nat \ {0} /\ s.v \in Values
  <2>1. s \in Chunks
    BY <1>2, <1>3 DEF Calls, Idle, Reads, Writes
  <2> QED
    BY <1>2, <2>1 DEF Chunks, Busy, Reading, Writing, Idle
<1>5. s.o \in Files /\ f \in Inums /\ s.o \in opened /\ f = FileOf[s.o]
  BY <1>3, <1>4, Kinds, Zenon DEF FileInv, InUse, Of, Inode
<1>6. x \in Nat
  BY <1>1, <1>5, Zenon DEF Types
<1>7. m \in Nat \ {0} /\ m <= s.left
  <2>1. MaxChunk \in Nat \ {0}
    BY FileAssumption
  <2>2. m = IF s.left <= MaxChunk THEN s.left ELSE MaxChunk
    BY <1>4, <2>1, MinOfTwo
  <2> HIDE DEF m, s
  <2> QED
    BY <1>4, <2>1, <2>2
<1>8. CASE op' = [op EXCEPT ![p] = Idle] /\ UNCHANGED lock
  <2>1. Idle \in Calls /\ ~Busy(Idle)
    BY DEF Calls, Busy, Reading, Writing, Idle
  <2> QED
    BY <1>2, <1>4, <1>8, <2>1, OpOnly, Zenon
<1>9. CASE ~Refuses(f, x, m) /\ ~TooBig(x, m) /\ lock' = [lock EXCEPT ![f] = TRUE]
           /\ op' = [op EXCEPT ![p] = r]
  <2> HIDE DEF m, x, f, s
  <2>1. Size(f) \in Nat /\ x <= Size(f)
    BY <1>1, <1>5, <1>6, <1>7, <1>9, NotRefused, Zenon
  <2>2. x + m <= MAXFILE * BSIZE
    BY <1>6, <1>7, <1>9, Sizes DEF TooBig
  <2>3. r \in Writes /\ r.tot = 0 /\ r.o = s.o /\ r.x = x /\ r.n1 = m /\ r.left = s.left /\ r.pc = "writei"
    BY <1>4, <1>5, <1>6, <1>7 DEF Writes
  <2> HIDE DEF r
  <2>4. r \in Calls /\ Busy(r) /\ Of(r) = f /\ ~Reading(r)
    BY <1>5, <2>3 DEF Calls, Busy, Reading, Writing, Of
  <2>5. Fits(fs, r)
    <3>1. 0 <= m
      BY <1>7
    <3> QED
      BY <1>7, <2>1, <2>2, <2>3, <2>4, <3>1, Zenon DEF Fits, Size
  <2>6. ~Busy(op[p]) /\ r.o \in opened /\ r.x = off[r.o]
    BY <1>4, <1>5, <2>3, Zenon DEF s, x
  <2> QED
    BY <1>2, <1>9, <2>3, <2>4, <2>5, <2>6, Enter, Zenon
<1> QED
  BY <1>8, <1>9, Zenon DEF filewrite_chunk, Goto

(* filelseek. *)
LEMMA StepSeek ==
  ASSUME FileInv, NEW p \in Procs, NEW o \in Files, NEW s \in Seeks, filelseek(p, o, s[1], s[2])
  PROVE  FileInv'
<1> DEFINE size == Size(FileOf[o])
           a == CASE s[2] = 0 -> s[1]
                  [] s[2] = 1 -> (off[o] + s[1]) % UINT
                  [] s[2] = 2 -> size - s[1]
                  [] OTHER -> off[o]
<1>1. Types
  BY Zenon DEF FileInv
<1>2. UNCHANGED <<fs, lock, opened, op, data>>
  BY Zenon DEF filelseek
<1>3. CASE UNCHANGED <<off, from, passed>>
  BY <1>2, <1>3, Unchanged, Zenon
<1>4. CASE /\ s[1] <= size /\ off' = [off EXCEPT ![o] = a]
           /\ from' = [from EXCEPT ![o] = IF InCall(o) THEN -1 ELSE off'[o]]
           /\ passed' = [passed EXCEPT ![o] = {}]
  <2>1. s[1] \in Nat /\ UINT \in Nat /\ UINT > 0 /\ off[o] \in Nat
    <3>1. MAXFILE * BSIZE \in Nat
      BY Sizes
    <3>2. s[1] \in Nat /\ UINT \in Nat /\ UINT > MAXFILE * BSIZE
      BY FileAssumption, Zenon
    <3>3. off[o] \in Nat
      BY <1>1, Zenon DEF Types
    <3> QED
      BY <3>1, <3>2, <3>3
  <2>2. size \in Nat
    <3>1. FileOf[o] \in Inums
      BY FileAssumption
    <3> QED
      BY <1>1, <3>1 DEF Types, Disks, Size
  <2>3. a \in Nat
    <3>1. (off[o] + s[1]) % UINT \in Nat
      BY <2>1
    <3> DEFINE w == (off[o] + s[1]) % UINT
               h == s[1]
               u == s[2]
               c == off[o]
    <3> HIDE DEF w, size, h, u, c
    <3>2. w \in Nat /\ size \in Nat /\ h \in Nat /\ h <= size /\ c \in Nat
      BY <1>4, <2>1, <2>2, <3>1, Zenon DEF w, h, c
    <3>3. (CASE u = 0 -> h [] u = 1 -> w [] u = 2 -> size - h [] OTHER -> c) \in Nat
      BY <3>2
    <3> QED
      BY <3>3, Zenon DEF w, h, u, c
  <2> HIDE DEF a
  <2>4. off' \in [Files -> Nat] /\ off'[o] = a /\ \A e \in Files : e # o => off'[e] = off[e]
    BY <1>1, <1>4, <2>3 DEF Types
  <2> DEFINE w == IF InCall(o) THEN -1 ELSE off'[o]
  <2>5. /\ from' \in [Files -> Int] /\ from'[o] = w /\ DOMAIN passed' = Files /\ passed'[o] = {}
        /\ \A e \in Files : e # o => from'[e] = from[e] /\ passed'[e] = passed[e]
    <3>1. w \in Int
      BY <2>3, <2>4
    <3>2. from \in [Files -> Int] /\ DOMAIN passed = Files
      BY <1>1, Zenon DEF Types
    <3> HIDE DEF w
    <3>3. from' = [from EXCEPT ![o] = w] /\ passed' = [passed EXCEPT ![o] = {}]
      BY <1>4, Zenon DEF w
    <3> QED
      BY <3>1, <3>2, <3>3, Zenon
  <2>6. Types'
    BY <1>1, <1>2, <2>4, <2>5, Zenon DEF Types
  <2>7. InUse'
    BY <1>2, Zenon DEF FileInv, InUse
  <2>8. SharedOffset'
    <3>1. ASSUME NEW e \in Files, from'[e] # -1
          PROVE  from'[e] <= off'[e] /\ passed'[e] = from'[e]..(off'[e] - 1)
      <4>1. CASE e # o
        BY <2>4, <2>5, <3>1, <4>1, Zenon DEF FileInv, SharedOffset
      <4>2. CASE e = o
        <5>1. from'[e] = a /\ off'[e] = a /\ passed'[e] = {}
          BY <2>4, <2>5, <3>1, <4>2, Zenon DEF w
        <5>2. a <= a /\ a..(a - 1) = {}
          BY <2>3
        <5> QED
          BY <5>1, <5>2, Zenon
      <4> QED
        BY <4>1, <4>2, Zenon
    <3> QED
      BY <3>1, Zenon DEF SharedOffset
  <2>9. Steady'
    <3>1. ASSUME NEW q \in Procs, Busy(op[q]), from'[op[q].o] # -1
          PROVE  op[q].x = off'[op[q].o]
      <4>1. op[q].o \in Files
        BY <1>1, <3>1, Kinds, Zenon DEF Types
      <4>2. op[q].o # o
        <5>1. op[q].o = o => InCall(o)
          BY <3>1, Zenon DEF InCall, Busy, Reading, Writing
        <5> QED
          BY <2>5, <3>1, <5>1, Zenon DEF w
      <4> QED
        BY <2>4, <2>5, <3>1, <4>1, <4>2, Zenon DEF FileInv, Steady
    <3> QED
      BY <1>2, <3>1, Zenon DEF Steady
  <2> QED
    BY <1>2, <2>6, <2>7, <2>8, <2>9, Quiet, Zenon
<1> QED
  BY <1>3, <1>4, Zenon DEF filelseek

(* fileclose. *)
LEMMA StepClose ==
  ASSUME FileInv, NEW o \in Files, fileclose(o)
  PROVE  FileInv'
<1>1. /\ \A p \in Procs : op[p] # Idle => op[p].o # o
      /\ opened' = opened \ {o} /\ UNCHANGED <<fs, lock, off, op, data, from, passed>>
  BY Zenon DEF fileclose
<1>2. Types'
  BY <1>1, Zenon DEF FileInv, Types
<1>3. InUse'
  BY <1>1, Zenon DEF FileInv, InUse
<1>4. SharedOffset' /\ Steady'
  BY <1>1, Zenon DEF FileInv, SharedOffset, Steady
<1> QED
  BY <1>1, <1>2, <1>3, <1>4, Quiet, Zenon

(* sys_open: nobody can be using the file. *)
LEMMA StepOpen ==
  ASSUME FileInv, NEW o \in Files, sys_open(o)
  PROVE  FileInv'
<1>1. /\ o \notin opened /\ opened' = opened \cup {o}
      /\ off' = [off EXCEPT ![o] = 0] /\ from' = [from EXCEPT ![o] = 0]
      /\ passed' = [passed EXCEPT ![o] = {}]
      /\ UNCHANGED <<fs, lock, op, data>>
  BY Zenon DEF sys_open
<1>2. Types
  BY Zenon DEF FileInv
<1>3. /\ off' \in [Files -> Nat] /\ from' \in [Files -> Int] /\ off'[o] = 0 /\ from'[o] = 0
      /\ DOMAIN passed' = Files /\ passed'[o] = {}
      /\ \A e \in Files : e # o => off'[e] = off[e] /\ from'[e] = from[e] /\ passed'[e] = passed[e]
  <2>1. 0 \in Nat /\ 0 \in Int
    OBVIOUS
  <2> QED
    BY <1>1, <1>2, <2>1, Zenon DEF Types
<1>4. Types'
  BY <1>1, <1>2, <1>3, Zenon DEF Types
<1>5. InUse'
  BY <1>1, Zenon DEF FileInv, InUse
<1>6. SharedOffset'
  <2>1. 0..(0 - 1) = {} /\ 0 <= 0
    OBVIOUS
  <2> QED
    BY <1>3, <2>1, Zenon DEF FileInv, SharedOffset
<1>7. Steady'
  <2>1. ASSUME NEW q \in Procs, Busy(op[q]), from'[op[q].o] # -1
        PROVE  op[q].x = off'[op[q].o]
    <3>1. op[q].o \in Files /\ op[q] # Idle
      BY <1>2, <2>1, Kinds, Zenon DEF Types
    <3>2. op[q].o # o
      BY <1>1, <3>1, Zenon DEF FileInv, InUse
    <3> QED
      BY <1>3, <2>1, <3>1, <3>2, Zenon DEF FileInv, Steady
  <2> QED
    BY <1>1, <2>1, Zenon DEF Steady
<1> QED
  BY <1>1, <1>4, <1>5, <1>6, <1>7, Quiet, Zenon

(* Below the size of a file, and within what a call has done, every offset   *)
(* has an address.                                                           *)
LEMMA HaveAddresses ==
  ASSUME FileInv
  PROVE  /\ \A f \in Inums, k \in Nat : k < Size(f) => k \in Offsets
         /\ \A q \in Procs : Busy(op[q]) => Done(op[q]) \subseteq Offsets
<1>1. Types /\ MAXFILE * BSIZE \in Nat
  BY Sizes DEF FileInv
<1>2. ASSUME NEW f \in Inums, NEW k \in Nat, k < Size(f) PROVE k \in Offsets
  <2>1. Size(f) \in Nat
    BY <1>1 DEF Types, Disks, Size
  <2>2. Size(f) <= MAXFILE * BSIZE
    BY <1>1, Zenon DEF Types, Uses, Addressed, Size
  <2> QED
    BY <1>1, <1>2, <2>1, <2>2 DEF Offsets
<1>3. ASSUME NEW q \in Procs, Busy(op[q]) PROVE Done(op[q]) \subseteq Offsets
  <2>1. op[q].x \in Nat /\ op[q].n1 \in Nat /\ op[q].tot \in Nat
    BY <1>1, <1>3, Kinds, Zenon DEF Types
  <2>2. op[q].tot <= op[q].n1 /\ op[q].x + op[q].n1 <= MAXFILE * BSIZE
    BY <1>3, Zenon DEF FileInv, Ranges, Fits
  <2> QED
    BY <1>1, <2>1, <2>2 DEF Done, Offsets
<1> QED
  BY <1>2, <1>3, Zenon

(* Process p, whose call was s, goes on to r, having done a little more.     *)
More(s, r) ==
  /\ Busy(s) /\ r \in Calls /\ r.pc = s.pc /\ r.o = s.o /\ r.x = s.x /\ r.n1 = s.n1
  /\ Writing(s) => r.v = s.v /\ r.left = s.left
  /\ r.tot \in Nat /\ s.tot <= r.tot /\ r.tot <= r.n1
New(s, r) == (s.x + s.tot)..(s.x + r.tot - 1)

(* What it has done is what it had done and what is new. *)
LEMMA DoneMore ==
  ASSUME NEW s \in Calls, NEW r, More(s, r)
  PROVE  /\ Done(r) = Done(s) \cup New(s, r)
         /\ Busy(r) /\ Of(r) = Of(s) /\ (Writing(r) <=> Writing(s)) /\ r # Idle
<1>1. s.x \in Nat /\ s.tot \in Nat
  BY Kinds, Zenon DEF More
<1>2. r.x = s.x /\ r.tot \in Nat /\ s.tot <= r.tot
  BY Zenon DEF More
<1>3. Done(r) = Done(s) \cup New(s, r)
  BY <1>1, <1>2 DEF Done, New
<1>4. Busy(r) /\ Of(r) = Of(s) /\ (Writing(r) <=> Writing(s))
  BY Zenon DEF More, Busy, Reading, Writing, Of
<1>5. r # Idle
  BY <1>4, Kinds, Zenon DEF More
<1> QED
  BY <1>3, <1>4, <1>5, Zenon

(* An iteration of readi, or of writei: the new bytes are its own. *)
LEMMA Continue ==
  ASSUME FileInv, NEW p \in Procs, NEW r, More(op[p], r), op' = [op EXCEPT ![p] = r],
         UNCHANGED <<lock, opened, off, data, from, passed>>, fs' \in Disks, Uses(fs'),
         \A f \in Inums : Size(f)' = Size(f),
         \A f \in Inums, k \in Offsets :
           Cell(fs', f, k) = IF Writing(r) /\ f = Of(r) /\ k \in New(op[p], r) THEN r.v
                             ELSE Cell(fs, f, k),
         \A f \in Inums, k \in Offsets :
           HasBlock(fs, f, k) \/ (Writing(r) /\ f = Of(r) /\ k \in New(op[p], r)) => HasBlock(fs', f, k)
  PROVE  FileInv'
<1>1. Types
  BY Zenon DEF FileInv
<1>2. r \in Calls /\ Busy(op[p])
  BY Zenon DEF More
<1>3. op' \in [Procs -> Calls] /\ \A q \in Procs : op'[q] = IF q = p THEN r ELSE op[q]
  BY <1>1, <1>2, OpChanged, Zenon
<1>4. lock' = lock /\ opened' = opened /\ off' = off /\ data' = data
      /\ from' = from /\ passed' = passed
  OBVIOUS
<1>5. \A q \in Procs : op[q] \in Calls
  BY <1>1, Zenon DEF Types
<1>6. /\ Done(r) = Done(op[p]) \cup New(op[p], r)
      /\ Busy(r) /\ Of(r) = Of(op[p]) /\ (Writing(r) <=> Writing(op[p])) /\ r # Idle
  BY <1>5, DoneMore, Zenon
<1>7. r.o = op[p].o /\ r.x = op[p].x /\ r.n1 = op[p].n1
  BY Zenon DEF More
<1>0. Done(r) \subseteq Offsets
  <2>1. r.tot <= r.n1 /\ r.tot \in Nat /\ r.n1 = op[p].n1 /\ r.x = op[p].x
    BY Zenon DEF More
  <2>2. op[p].x \in Nat /\ op[p].n1 \in Nat /\ op[p].x + op[p].n1 <= MAXFILE * BSIZE
    BY <1>2, <1>5, Kinds, Zenon DEF FileInv, Ranges, Fits
  <2> QED
    BY <2>1, <2>2, Sizes DEF Offsets, Done
<1>8. \A q \in Procs : Busy(op'[q]) => Busy(op[q]) /\ Of(op'[q]) = Of(op[q])
  BY <1>2, <1>3, <1>6, Zenon
<1>9. Types'
  BY <1>1, <1>3, <1>4, Zenon DEF Types
<1>10. InUse'
  BY <1>2, <1>3, <1>4, <1>5, <1>7, Kinds, Zenon DEF FileInv, InUse
<1>11. Locked'
  BY <1>4, <1>8, Zenon DEF FileInv, Locked
<1>12. Exclusive'
  BY <1>8, Zenon DEF FileInv, Exclusive
<1>13. Ranges'
  <2>1. ASSUME NEW q \in Procs, Busy(op'[q]) PROVE Fits(fs', op'[q])
    <3>1. Fits(fs, op[q]) /\ Of(op[q]) \in Inums
      BY <1>5, <1>8, <2>1, Kinds, Zenon DEF FileInv, Ranges
    <3>2. fs'.inode[Of(op[q])].size = fs.inode[Of(op[q])].size
      BY <3>1, Zenon DEF Size
    <3>3. CASE q # p
      BY <1>3, <3>1, <3>2, <3>3, Zenon DEF Fits
    <3>4. CASE q = p
      <4>1. r.tot <= r.n1 /\ r.pc = op[p].pc /\ (Writing(op[p]) => r.left = op[p].left)
        BY Zenon DEF More
      <4> QED
        BY <1>3, <1>6, <1>7, <3>1, <3>2, <3>4, <4>1, Zenon DEF Fits, Reading
    <3> QED
      BY <3>3, <3>4, Zenon
  <2> QED
    BY <2>1, Zenon DEF Ranges
<1>14. Steady'
  BY <1>2, <1>3, <1>4, <1>7, Zenon DEF FileInv, Steady
<1>15. SharedOffset'
  BY <1>4, Zenon DEF FileInv, SharedOffset
<1>16. Latest'
  <2>1. ASSUME NEW q \in Procs, Writing(op'[q]), NEW k, k \in Done(op'[q])
        PROVE  Cell(fs', Of(op'[q]), k) = op'[q].v
    <3>1. CASE q = p
      <4>1. op'[q] = r /\ Writing(op[p]) /\ r.v = op[p].v /\ Of(r) \in Inums
        BY <1>2, <1>3, <1>6, <2>1, <3>1, Kinds, Zenon DEF More
      <4>2. k \in Offsets
        BY <1>0, <2>1, <4>1, Zenon
      <4>3. CASE k \in New(op[p], r)
        BY <1>6, <4>1, <4>2, <4>3, Zenon
      <4>4. CASE k \notin New(op[p], r)
        <5>1. k \in Done(op[p])
          BY <1>6, <2>1, <4>1, <4>4, Zenon
        <5>2. Cell(fs, Of(op[p]), k) = op[p].v
          BY <4>1, <5>1, Zenon DEF FileInv, Latest
        <5> QED
          BY <1>6, <4>1, <4>2, <4>4, <5>2, Zenon
      <4> QED
        BY <4>3, <4>4, Zenon
    <3>2. CASE q # p
      <4>1. op'[q] = op[q]
        BY <1>3, <3>2, Zenon
      <4>2. Busy(op[q])
        BY <2>1, <4>1, Zenon DEF Busy
      <4>3. Of(op[q]) \in Inums /\ k \in Offsets
        BY <1>5, <2>1, <4>1, <4>2, Kinds, HaveAddresses, Zenon
      <4>4. Of(op[q]) # Of(r)
        BY <1>2, <1>6, <3>2, <4>2, Zenon DEF FileInv, Exclusive
      <4> QED
        BY <2>1, <4>1, <4>3, <4>4, Zenon DEF FileInv, Latest
    <3> QED
      BY <3>1, <3>2, Zenon
  <2> QED
    BY <2>1, Zenon DEF Latest
<1>17. Domains'
  BY <1>4, Zenon DEF FileInv, Domains
<1>18. Holds'
  <2>1. ASSUME NEW f \in Inums, NEW k \in Nat, k < Size(f)',
               Cell(fs', f, k) # data'[f][k + 1]
        PROVE  \E q \in Procs : Writing(op'[q]) /\ Of(op'[q]) = f /\ k \in Done(op'[q])
    <3>1. k < Size(f) /\ k \in Offsets
      BY <2>1, HaveAddresses, Zenon
    <3>2. CASE Writing(r) /\ f = Of(r) /\ k \in New(op[p], r)
      BY <1>3, <1>6, <3>2, Zenon
    <3>3. CASE ~(Writing(r) /\ f = Of(r) /\ k \in New(op[p], r))
      <4>1. Cell(fs, f, k) # data[f][k + 1]
        BY <1>4, <2>1, <3>1, <3>3, Zenon
      <4>2. PICK q \in Procs : Writing(op[q]) /\ Of(op[q]) = f /\ k \in Done(op[q])
        BY <3>1, <4>1, Zenon DEF FileInv, Holds
      <4>3. CASE q = p
        BY <1>3, <1>6, <4>2, <4>3, Zenon
      <4>4. CASE q # p
        BY <1>3, <4>2, <4>4, Zenon
      <4> QED
        BY <4>3, <4>4, Zenon
    <3> QED
      BY <3>2, <3>3, Zenon
  <2> QED
    BY <2>1, Zenon DEF Holds
<1>19. Covered'
  <2>1. ASSUME NEW f \in Inums, NEW k \in Nat, k < Size(f)' PROVE Provided(f, k)'
    <3>1. k < Size(f)
      BY <2>1, Zenon
    <3>2. k \in Offsets
      BY <3>1, HaveAddresses, Zenon
    <3>3. Provided(f, k)
      BY <3>1, Zenon DEF FileInv, Covered, Backed
    <3> QED
      BY <3>2, <3>3, Zenon DEF Provided
  <2>2. ASSUME Filled, NEW q \in Procs, Writing(op'[q]), NEW k, k \in Done(op'[q])
        PROVE  HasBlock(fs', Of(op'[q]), k)
    <3>1. CASE q = p
      <4>1. op'[q] = r /\ Writing(op[p]) /\ Writing(r) /\ Of(r) \in Inums
        BY <1>2, <1>3, <1>6, <2>2, <3>1, Kinds, Zenon
      <4>2. k \in Offsets
        BY <1>0, <2>2, <4>1, Zenon
      <4>3. k \in Done(op[p]) \/ k \in New(op[p], r)
        BY <1>6, <2>2, <4>1, Zenon
      <4>4. k \in Done(op[p]) => HasBlock(fs, Of(r), k)
        BY <1>6, <2>2, <4>1, Zenon DEF Filled
      <4> QED
        BY <4>1, <4>2, <4>3, <4>4, Zenon
    <3>2. CASE q # p
      <4>1. op'[q] = op[q]
        BY <1>3, <3>2, Zenon
      <4>2. Busy(op[q])
        BY <2>2, <4>1, Zenon DEF Busy
      <4>3. Of(op[q]) \in Inums /\ k \in Offsets
        BY <1>5, <2>2, <4>1, <4>2, Kinds, HaveAddresses, Zenon
      <4>4. HasBlock(fs, Of(op[q]), k)
        BY <2>2, <4>1, Zenon DEF Filled
      <4> QED
        BY <4>1, <4>3, <4>4, Zenon
    <3> QED
      BY <3>1, <3>2, Zenon
  <2>3. Filled => Filled'
    BY <2>2, Zenon DEF Filled
  <2> QED
    BY <2>1, <2>3, Zenon DEF FileInv, Covered, Backed
<1> QED
  BY <1>9, <1>10, <1>11, <1>12, <1>13, <1>14, <1>15, <1>16, <1>17, <1>18, <1>19, Zenon DEF FileInv

(* bmap does not panic. *)
NoProblem(p) == Problem(p) = ""

(* One iteration of a loop: where it is, how far it gets, what is missing.   *)
LEMMA Iteration ==
  ASSUME BlockSets, FileInv, NEW p \in Procs, Busy(op[p]), op[p].tot < op[p].n1, NoProblem(p)
  PROVE  /\ Cur(p) \in Offsets /\ Part(p) \in Nat /\ (Cur(p) % BSIZE) + Part(p) <= BSIZE
         /\ Inode(p) = Of(op[p]) /\ Of(op[p]) \in Inums
         /\ Missing(fs, Of(op[p]), Cur(p) \div BSIZE) <= Cardinality(FreeBlocks(fs))
         /\ More(op[p], [op[p] EXCEPT !.tot = @ + Part(p)])
         /\ New(op[p], [op[p] EXCEPT !.tot = @ + Part(p)]) = Cur(p)..(Cur(p) + Part(p) - 1)
<1> DEFINE s == op[p]
           m == Part(p)
           r == [s EXCEPT !.tot = @ + m]
           c == Cur(p)
           i == c % BSIZE
<1>1. s \in Calls
  BY Zenon DEF FileInv, Types
<1>2. s.x \in Nat /\ s.n1 \in Nat /\ s.tot \in Nat /\ Of(s) \in Inums
  BY <1>1, Kinds, Zenon
<1>3. s.x + s.n1 <= MAXFILE * BSIZE
  BY Zenon DEF FileInv, Ranges, Fits
<1>4. c = s.x + s.tot
  BY Zenon DEF Cur
<1>5. c \in Nat /\ c \in Offsets
  BY <1>2, <1>3, <1>4, Sizes DEF Offsets
<1>6. i \in 0..(BSIZE - 1)
  BY <1>5, Offset, Zenon
<1>7. m = Min({s.n1 - s.tot, BSIZE - i})
  BY Zenon DEF Part
<1> HIDE DEF i, m, c
<1>8. m \in Nat /\ i + m <= BSIZE /\ s.tot + m <= s.n1
  <2>1. s.n1 - s.tot \in Int /\ BSIZE - i \in Int /\ BSIZE \in Nat
    BY <1>2, <1>6, Sizes
  <2>2. m = IF s.n1 - s.tot <= BSIZE - i THEN s.n1 - s.tot ELSE BSIZE - i
    BY <1>7, <2>1, MinOfTwo
  <2> HIDE DEF s
  <2>3. s.tot < s.n1
    BY DEF s
  <2> QED
    BY <1>2, <1>6, <2>1, <2>2, <2>3
<1>9. Missing(fs, Of(s), c \div BSIZE) <= Cardinality(FreeBlocks(fs))
  <2>1. Inode(p) = Of(s) /\ Bn(p) = c \div BSIZE
    BY Zenon DEF Inode, Of, Bn, c
  <2>2. ~(Missing(fs, Inode(p), Bn(p)) > Cardinality(FreeBlocks(fs)))
    BY Zenon DEF NoProblem, Problem
  <2>3. Missing(fs, Inode(p), Bn(p)) \in Nat
    BY DEF Missing
  <2>4. Cardinality(FreeBlocks(fs)) \in Nat
    <3>1. FreeBlocks(fs) \in SUBSET Blocks
      BY Zenon DEF FreeBlocks
    <3> QED
      BY <3>1, Zenon DEF BlockSets
  <2> QED
    BY <2>1, <2>2, <2>3, <2>4
<1>10. More(s, r)
  <2>1. s \in Reads \/ s \in Writes
    BY <1>1, Kinds, Zenon DEF Busy
  <2> HIDE DEF s
  <2>2. s.tot + m \in Nat /\ s.tot <= s.tot + m
    BY <1>2, <1>8
  <2>3. /\ r \in Reads \/ r \in Writes
        /\ r.pc = s.pc /\ r.o = s.o /\ r.x = s.x /\ r.n1 = s.n1 /\ r.tot = s.tot + m
        /\ s \in Writes => r.v = s.v /\ r.left = s.left
    <3>1. CASE s \in Reads
      BY <2>2, <3>1 DEF Reads, Writes
    <3>2. CASE s \in Writes
      BY <2>2, <3>2 DEF Writes
    <3> QED
      BY <2>1, <3>1, <3>2
  <2> HIDE DEF r
  <2>4. r \in Calls
    BY <2>3, Zenon DEF Calls
  <2>5. Busy(s) /\ (Writing(s) <=> s \in Writes)
    BY <1>1, Kinds, Zenon DEF s
  <2> QED
    BY <1>8, <2>2, <2>3, <2>4, <2>5, Zenon DEF More
<1>11. New(s, r) = c..(c + m - 1)
  <2>1. r.tot = s.tot + m
    <3>1. s \in Reads \/ s \in Writes
      BY <1>1, Kinds, Zenon DEF Busy
    <3> HIDE DEF s
    <3> QED
      BY <3>1 DEF Reads, Writes
  <2> HIDE DEF s, r
  <2>2. s.x + r.tot - 1 = c + m - 1
    BY <1>2, <1>4, <1>8, <2>1
  <2> QED
    BY <1>4, <2>2, Zenon DEF New
<1> QED
  BY <1>2, <1>5, <1>8, <1>9, <1>10, <1>11, Zenon DEF Inode, Of, m, c, i

(* An iteration of readi. *)
LEMMA StepReadi ==
  ASSUME BlockSets, FileInv, NEW p \in Procs, readi(p)
  PROVE  FileInv'
<1> DEFINE s == op[p]
           r == [op[p] EXCEPT !.tot = @ + Part(p)]
<1>1. s.pc = "readi" /\ s.tot < s.n1
  BY Zenon DEF readi, At
<1>2. Busy(s) /\ ~Writing(s) /\ s \in Calls
  <2>1. Reading(s) /\ s \in Calls
    BY <1>1, Zenon DEF Reading, FileInv, Types
  <2>2. ~Writing(s)
    BY <1>1, Zenon DEF Writing
  <2> QED
    BY <2>1, <2>2, Zenon DEF Busy
<1>3. CASE UNCHANGED <<fs, lock, opened, off, op, nops, data, from, passed>>
  BY <1>3, Unchanged, Zenon
<1>4. CASE /\ NoProblem(p) /\ fs' = bmap(fs, Inode(p), Bn(p)) /\ op' = [op EXCEPT ![p] = r]
           /\ UNCHANGED <<lock, opened, off, nops, panic, data, from, passed>>
  <2>1. /\ Cur(p) \in Offsets /\ Inode(p) = Of(s) /\ Of(s) \in Inums
        /\ Missing(fs, Of(s), Cur(p) \div BSIZE) <= Cardinality(FreeBlocks(fs))
    BY <1>1, <1>2, <1>4, Iteration, Zenon
  <2>2. More(s, r)
    BY <1>1, <1>2, <1>4, Iteration, Zenon
  <2> HIDE DEF r
  <2>3. ~Writing(r)
    BY <1>2, <2>2, DoneMore, Zenon
  <2>4. fs \in Disks /\ Uses(fs)
    BY Zenon DEF FileInv, Types
  <2>5. Kept(fs, bmap(fs, Of(s), Cur(p) \div BSIZE))
    BY <2>1, <2>4, ReadWorks, Zenon
  <2>6. Kept(fs, fs')
    BY <1>4, <2>1, <2>5, Zenon DEF Bn
  <2>7. fs' \in Disks /\ Uses(fs') /\ \A f \in Inums : Size(f)' = Size(f)
    BY <2>6, Zenon DEF Kept, Size
  <2>8. \A f \in Inums, k \in Offsets :
          Cell(fs', f, k) = IF Writing(r) /\ f = Of(r) /\ k \in New(op[p], r) THEN r.v
                            ELSE Cell(fs, f, k)
    BY <2>3, <2>6, Zenon DEF Kept
  <2>9. \A f \in Inums, k \in Offsets :
          HasBlock(fs, f, k) \/ (Writing(r) /\ f = Of(r) /\ k \in New(op[p], r)) => HasBlock(fs', f, k)
    BY <2>3, <2>6, Zenon DEF Kept
  <2> QED
    BY <1>4, <2>2, <2>7, <2>8, <2>9, Continue, Zenon
<1> QED
  BY <1>3, <1>4, Zenon DEF readi, Panic, Goto, NoProblem

(* An iteration of writei. *)
LEMMA StepWritei ==
  ASSUME BlockSets, FileInv, NEW p \in Procs, writei(p)
  PROVE  FileInv'
<1> DEFINE s == op[p]
           r == [op[p] EXCEPT !.tot = @ + Part(p)]
           i == bmap(fs, Inode(p), Bn(p))
<1>1. s.pc = "writei" /\ s.tot < s.n1
  BY Zenon DEF writei, At
<1>2. Busy(s) /\ Writing(s) /\ s \in Calls /\ s.v \in Nat
  <2>1. Writing(s) /\ s \in Calls
    BY <1>1, Zenon DEF Writing, FileInv, Types
  <2>2. s \in Writes /\ Values \subseteq Nat
    BY <2>1, Kinds, FileAssumption, Zenon
  <2>3. s.v \in Values
    BY <2>2 DEF Writes
  <2> QED
    BY <2>1, <2>2, <2>3, Zenon DEF Busy
<1>3. CASE UNCHANGED <<fs, lock, opened, off, op, nops, data, from, passed>>
  BY <1>3, Unchanged, Zenon
<1>4. CASE /\ NoProblem(p)
           /\ fs' = Put(i, Addr(i, Inode(p), Bn(p)), Cur(p) % BSIZE, Part(p), s.v)
           /\ op' = [op EXCEPT ![p] = r]
           /\ UNCHANGED <<lock, opened, off, nops, panic, data, from, passed>>
  <2>1. /\ Cur(p) \in Offsets /\ Part(p) \in Nat /\ (Cur(p) % BSIZE) + Part(p) <= BSIZE
        /\ Inode(p) = Of(s) /\ Of(s) \in Inums
        /\ Missing(fs, Of(s), Cur(p) \div BSIZE) <= Cardinality(FreeBlocks(fs))
    BY <1>1, <1>2, <1>4, Iteration, Zenon
  <2>2. More(s, r) /\ New(s, r) = Cur(p)..(Cur(p) + Part(p) - 1)
    BY <1>1, <1>2, <1>4, Iteration, Zenon
  <2> HIDE DEF r
  <2>3. Writing(r) /\ Of(r) = Of(s) /\ r.v = s.v
    BY <1>2, <2>2, DoneMore, Zenon DEF More
  <2>4. fs \in Disks /\ Uses(fs)
    BY Zenon DEF FileInv, Types
  <2>5. i = bmap(fs, Of(s), Cur(p) \div BSIZE)
    BY <2>1, Zenon DEF Bn
  <2> HIDE DEF i
  <2>6. Wrote(fs, Put(i, Addr(i, Of(s), Cur(p) \div BSIZE), Cur(p) % BSIZE, Part(p), s.v),
              Of(s), Cur(p), Part(p), s.v)
    BY <1>2, <2>1, <2>4, <2>5, WriteWorks, Zenon
  <2>7. Wrote(fs, fs', Of(s), Cur(p), Part(p), s.v)
    BY <1>4, <2>1, <2>6, Zenon DEF Bn
  <2>8. fs' \in Disks /\ Uses(fs') /\ \A f \in Inums : Size(f)' = Size(f)
    BY <2>7, Zenon DEF Wrote, Size
  <2>9. ASSUME NEW f \in Inums, NEW k \in Offsets
        PROVE  Cell(fs', f, k) = IF Writing(r) /\ f = Of(r) /\ k \in New(op[p], r) THEN r.v
                                 ELSE Cell(fs, f, k)
    <3>1. Cell(fs', f, k) = IF f = Of(s) /\ k \in Cur(p)..(Cur(p) + Part(p) - 1) THEN s.v
                            ELSE Cell(fs, f, k)
      BY <2>7, Zenon DEF Wrote
    <3> QED
      BY <2>2, <2>3, <3>1, Zenon
  <2>10. \A f \in Inums, k \in Offsets :
           HasBlock(fs, f, k) \/ (Writing(r) /\ f = Of(r) /\ k \in New(op[p], r)) => HasBlock(fs', f, k)
    BY <2>2, <2>3, <2>7, Zenon DEF Wrote
  <2> QED
    BY <1>4, <2>2, <2>8, <2>9, <2>10, Continue, Zenon
<1> QED
  BY <1>3, <1>4, Zenon DEF writei, Panic, Goto, NoProblem

(* A call unlocks its inode and moves the offset of its file by n1. *)
LEMMA Leave ==
  ASSUME FileInv, NEW p \in Procs, Busy(op[p]),
         NEW r \in Calls, ~Busy(r), r = Idle \/ r.o \in opened, op' = [op EXCEPT ![p] = r],
         lock' = [lock EXCEPT ![Of(op[p])] = FALSE], opened' = opened,
         off' = [off EXCEPT ![op[p].o] = (@ + op[p].n1) % UINT],
         passed' = Passed(op[p].o, op[p].x, op[p].n1), from' = from,
         fs' \in Disks, Uses(fs'), DOMAIN data' = Inums
  PROVE  /\ Types' /\ InUse' /\ Locked' /\ Exclusive' /\ Steady' /\ SharedOffset'
         /\ \A q \in Procs : q # p => op'[q] = op[q]
         /\ \A q \in Procs : Busy(op'[q]) =>
              q # p /\ op'[q] = op[q] /\ Busy(op[q]) /\ Of(op[q]) # Of(op[p])
<1> DEFINE o == op[p].o
           n == op[p].n1
           f == Of(op[p])
<1>1. Types
  BY Zenon DEF FileInv
<1>2. op' \in [Procs -> Calls] /\ \A q \in Procs : op'[q] = IF q = p THEN r ELSE op[q]
  BY <1>1, OpChanged, Zenon
<1>3. \A q \in Procs : op[q] \in Calls
  BY <1>1, Zenon DEF Types
<1>4. o \in Files /\ f \in Inums /\ n \in Nat /\ op[p].x \in Nat /\ op[p] # Idle
  BY <1>3, Kinds, Zenon
<1>5. ASSUME NEW q \in Procs, Busy(op'[q])
      PROVE  q # p /\ op'[q] = op[q] /\ Busy(op[q]) /\ Of(op[q]) # f /\ op[q].o # o
  <2>1. q # p /\ op'[q] = op[q]
    BY <1>2, <1>5, Zenon
  <2>2. Of(op[q]) # f
    BY <1>5, <2>1, Zenon DEF FileInv, Exclusive
  <2> QED
    BY <1>5, <2>1, <2>2, Zenon DEF Of
<1>6. lock' \in [Inums -> BOOLEAN] /\ \A g \in Inums : g # f => lock'[g] = lock[g]
  <2>1. lock \in [Inums -> BOOLEAN]
    BY <1>1, Zenon DEF Types
  <2> QED
    BY <2>1, <1>4, Zenon
<1>7. /\ off' \in [Files -> Nat] /\ off'[o] = (off[o] + n) % UINT
      /\ \A e \in Files : e # o => off'[e] = off[e]
  <2>1. off \in [Files -> Nat]
    BY <1>1, Zenon DEF Types
  <2>2. UINT \in Nat /\ UINT > MAXFILE * BSIZE /\ MAXFILE * BSIZE \in Nat
    BY Sizes, FileAssumption
  <2>3. off[o] \in Nat
    BY <1>4, <2>1, Zenon
  <2> DEFINE w == (off[o] + n) % UINT
  <2>4. w \in Nat
    BY <1>4, <2>2, <2>3
  <2>5. off' = [off EXCEPT ![o] = w]
    BY Zenon
  <2> HIDE DEF w, o
  <2>6. off' \in [Files -> Nat] /\ off'[o] = w /\ \A e \in Files : e # o => off'[e] = off[e]
    BY <1>4, <2>1, <2>4, <2>5, Zenon
  <2> QED
    BY <2>6, Zenon DEF w
<1>8. /\ DOMAIN passed' = Files /\ passed'[o] = passed[o] \cup op[p].x..(op[p].x + n - 1)
      /\ \A e \in Files : e # o => passed'[e] = passed[e]
  <2>1. DOMAIN passed = Files
    BY <1>1, Zenon DEF Types
  <2> DEFINE A == op[p].x..(op[p].x + n - 1)
  <2>2. passed' = [passed EXCEPT ![o] = @ \cup A]
    BY Zenon DEF Passed
  <2> HIDE DEF A, o
  <2>3. DOMAIN passed' = Files /\ passed'[o] = passed[o] \cup A /\ \A e \in Files : e # o => passed'[e] = passed[e]
    BY <1>4, <2>1, <2>2, Zenon
  <2> QED
    BY <2>3, Zenon DEF A
<1>9. Types'
  BY <1>1, <1>2, <1>6, <1>7, <1>8, Zenon DEF Types
<1>10. InUse'
  BY <1>2, Zenon DEF FileInv, InUse
<1>11. Locked'
  <2>1. ASSUME NEW q \in Procs, Busy(op'[q]) PROVE lock'[Of(op'[q])]
    <3>1. lock[Of(op[q])] /\ Of(op[q]) \in Inums
      BY <1>3, <1>5, <2>1, Kinds, Zenon DEF FileInv, Locked
    <3> QED
      BY <1>5, <1>6, <2>1, <3>1, Zenon
  <2> QED
    BY <2>1, Zenon DEF Locked
<1>12. Exclusive'
  BY <1>5, Zenon DEF FileInv, Exclusive
<1>13. Steady'
  <2>1. ASSUME NEW q \in Procs, Busy(op'[q]), from'[op'[q].o] # -1
        PROVE  op'[q].x = off'[op'[q].o]
    <3>1. op'[q] = op[q] /\ Busy(op[q]) /\ op[q].o # o /\ op[q].o \in Files
      BY <1>3, <1>5, <2>1, Kinds, Zenon
    <3>2. from[op[q].o] # -1
      BY <2>1, <3>1, Zenon
    <3>3. op[q].x = off[op[q].o]
      BY <3>1, <3>2, Zenon DEF FileInv, Steady
    <3> QED
      BY <1>7, <3>1, <3>3, Zenon
  <2> QED
    BY <2>1, Zenon DEF Steady
<1>14. SharedOffset'
  <2>1. ASSUME NEW e \in Files, from[e] # -1
        PROVE  from[e] <= off'[e] /\ passed'[e] = from[e]..(off'[e] - 1)
    <3>1. CASE e # o
      BY <1>7, <1>8, <2>1, <3>1, Zenon DEF FileInv, SharedOffset
    <3>2. CASE e = o
      <4> DEFINE a == off[o]
                 b == from[o]
                 m == MAXFILE * BSIZE
      <4>1. b <= a /\ passed[o] = b..(a - 1) /\ op[p].x = a
        BY <1>4, <2>1, <3>2, Zenon DEF FileInv, SharedOffset, Steady
      <4>2. op[p].x + n <= m
        BY Zenon DEF FileInv, Ranges, Fits
      <4>3. UINT \in Nat /\ UINT > m /\ m \in Nat
        BY Sizes, FileAssumption
      <4>4. a \in Nat /\ n \in Nat /\ b \in Int
        BY <1>1, <1>4, Zenon DEF Types
      <4>5. passed'[o] = b..(a - 1) \cup a..(a + n - 1) /\ off'[o] = (a + n) % UINT
        BY <1>7, <1>8, <4>1, Zenon
      <4> HIDE DEF a, b, n, m
      <4>6. a + n \in 0..(UINT - 1)
        BY <4>1, <4>2, <4>3, <4>4
      <4>7. (a + n) % UINT = a + n
        BY <4>3, <4>6
      <4>8. b <= a + n /\ b..(a - 1) \cup a..(a + n - 1) = b..(a + n - 1)
        BY <4>1, <4>4
      <4>9. off'[o] = a + n
        BY <4>5, <4>7, Zenon
      <4>10. passed'[o] = b..(a + n - 1)
        BY <4>5, <4>8, Zenon
      <4>11. \A c, A : c = a + n /\ A = b..(a + n - 1) => b <= c /\ A = b..(c - 1)
        BY <4>4, <4>8
      <4>12. b <= off'[o] /\ passed'[o] = b..(off'[o] - 1)
        BY <4>9, <4>10, <4>11, Zenon
      <4> QED
        BY <3>2, <4>12, Zenon DEF b
    <3> QED
      BY <3>1, <3>2, Zenon
  <2> QED
    BY <2>1, Zenon DEF SharedOffset
<1> QED
  BY <1>2, <1>5, <1>9, <1>10, <1>11, <1>12, <1>13, <1>14, Zenon

(* The end of a read. *)
LEMMA StepReadDone ==
  ASSUME FileInv, NEW p \in Procs, fileread_done(p)
  PROVE  FileInv'
<1> DEFINE s == op[p]
<1>1. /\ s.pc = "readi" /\ fs' = fs /\ opened' = opened /\ data' = data
      /\ op' = [op EXCEPT ![p] = Idle]
      /\ off' = [off EXCEPT ![s.o] = (@ + s.n1) % UINT]
      /\ passed' = Passed(s.o, s.x, s.n1) /\ from' = from
      /\ lock' = [lock EXCEPT ![Inode(p)] = FALSE]
  BY Zenon DEF fileread_done, At, Goto
<1>2. Busy(s) /\ ~Writing(s) /\ Inode(p) = Of(s)
  BY <1>1, Zenon DEF Busy, Reading, Writing, Inode, Of
<1>3. Idle \in Calls /\ ~Busy(Idle)
  BY DEF Calls, Busy, Reading, Writing, Idle
<1>4. fs' \in Disks /\ Uses(fs') /\ DOMAIN data' = Inums
  BY <1>1, Zenon DEF FileInv, Types
<1>5. /\ Types' /\ InUse' /\ Locked' /\ Exclusive' /\ Steady' /\ SharedOffset'
      /\ \A q \in Procs : q # p => op'[q] = op[q]
      /\ \A q \in Procs : Busy(op'[q]) => q # p /\ op'[q] = op[q] /\ Busy(op[q])
  <2>1. lock' = [lock EXCEPT ![Of(s)] = FALSE]
    BY <1>1, <1>2, Zenon
  <2> QED
    BY <1>1, <1>2, <1>3, <1>4, <2>1, Leave, Zenon
<1>6. \A f : Size(f)' = Size(f)
  BY <1>1, Zenon DEF Size
<1>7. Ranges'
  BY <1>1, <1>5, Zenon DEF FileInv, Ranges
<1>8. Latest'
  <2>1. \A q \in Procs : Writing(op'[q]) => op'[q] = op[q]
    BY <1>5, Zenon DEF Busy
  <2> QED
    BY <1>1, <2>1, Zenon DEF FileInv, Latest
<1>9. Domains'
  BY <1>1, <1>6, Zenon DEF FileInv, Domains
<1>10. Holds'
  <2>1. \A q \in Procs : Writing(op[q]) => op'[q] = op[q]
    BY <1>2, <1>5, Zenon
  <2> QED
    BY <1>1, <1>6, <2>1, Zenon DEF FileInv, Holds
<1>11. Covered'
  <2>1. \A q \in Procs : Writing(op'[q]) => op'[q] = op[q]
    BY <1>5, Zenon DEF Busy
  <2>2. Filled => Filled'
    BY <1>1, <2>1, Zenon DEF Filled
  <2> QED
    BY <1>1, <1>6, <2>2, Zenon DEF FileInv, Covered, Backed, Provided
<1> QED
  BY <1>5, <1>7, <1>8, <1>9, <1>10, <1>11, Zenon DEF FileInv

(* The length of a sequence given by its elements. *)
LEMMA LenOf ==
  ASSUME NEW n \in Nat, NEW s, s = [k \in 1..n |-> s[k]]
  PROVE  Len(s) = n
<1> DEFINE S == {s[k] : k \in 1..n}
<1>1. \A k \in 1..n : s[k] \in S
  BY Zenon
<1> HIDE DEF S
<1>2. s \in [1..n -> S]
  BY <1>1, Zenon
<1> QED
  BY <1>2

(* w is s with v from x on, n times. *)
Overlaid(w, s, x, n, v, m) ==
  /\ w = [k \in 1..m |-> w[k]]
  /\ \A k \in Nat : k < m => w[k + 1] = IF k \in x..(x + n - 1) THEN v ELSE s[k + 1]

(* What Overlay is. *)
LEMMA OverlayWorks ==
  ASSUME NEW a \in Nat, NEW s, s = [k \in 1..a |-> s[k]], NEW x \in Nat, NEW n \in Nat, NEW v
  PROVE  Overlaid(Overlay(s, x, n, v), s, x, n, v, IF a >= x + n THEN a ELSE x + n)
<1> DEFINE m == IF a >= x + n THEN a ELSE x + n
           w(k) == IF k \in (x + 1)..(x + n) THEN v ELSE s[k]
<1>1. Len(s) = a
  BY LenOf, Zenon
<1>2. Max({a, x + n}) = m /\ m \in Nat
  <2>1. x + n \in Int
    OBVIOUS
  <2> QED
    BY <2>1, MaxOfTwo
<1> HIDE DEF m
<1>3. Overlay(s, x, n, v) = [k \in 1..m |-> w(k)]
  BY <1>1, <1>2, Zenon DEF Overlay
<1> HIDE DEF w
<1>4. Overlay(s, x, n, v) = [k \in 1..m |-> Overlay(s, x, n, v)[k]]
  BY <1>3, Zenon
<1>5. ASSUME NEW k \in Nat, k < m
      PROVE  Overlay(s, x, n, v)[k + 1] = IF k \in x..(x + n - 1) THEN v ELSE s[k + 1]
  <2>1. k + 1 \in 1..m /\ (k \in x..(x + n - 1) <=> k + 1 \in (x + 1)..(x + n))
    BY <1>2, <1>5
  <2>2. Overlay(s, x, n, v)[k + 1] = w(k + 1)
    BY <1>3, <2>1, Zenon
  <2> QED
    BY <2>1, <2>2, Zenon DEF w
<1>6. Overlaid(Overlay(s, x, n, v), s, x, n, v, m)
  BY <1>4, <1>5, Zenon DEF Overlaid
<1> QED
  BY <1>6, Zenon DEF m

(* The end of a chunk. *)
LEMMA StepWriteDone ==
  ASSUME FileInv, NEW p \in Procs, filewrite_done(p)
  PROVE  FileInv'
<1> DEFINE s == op[p]
           f == Of(s)
           x == s.x
           n == s.n1
           a == Size(f)
           m == IF a >= x + n THEN a ELSE x + n
           w == Overlay(data[f], x, n, s.v)
           r == IF s.left = n THEN Idle
                ELSE [pc |-> "chunk", o |-> s.o, left |-> s.left - n, v |-> s.v]
<1>1. /\ s.pc = "writei" /\ s.tot = n /\ opened' = opened
      /\ fs' = [fs EXCEPT !.inode[f].size = Max({a, x + n})]
      /\ data' = [data EXCEPT ![f] = w]
      /\ off' = [off EXCEPT ![s.o] = (@ + n) % UINT]
      /\ passed' = Passed(s.o, x, n) /\ from' = from
      /\ lock' = [lock EXCEPT ![f] = FALSE]
      /\ op' = [op EXCEPT ![p] = r]
  BY Zenon DEF filewrite_done, At, Goto, Inode, Of, Size
<1>2. Types
  BY Zenon DEF FileInv
<1>3. \A q \in Procs : op[q] \in Calls
  BY <1>2, Zenon DEF Types
<1>4. Writing(s) /\ Busy(s) /\ s \in Writes
  BY <1>1, <1>3, Kinds, Zenon DEF Writing, Busy
<1>5. f \in Inums /\ x \in Nat /\ n \in Nat /\ s.o \in Files /\ s.o \in opened
  BY <1>3, <1>4, Kinds, Zenon DEF FileInv, InUse
<1>6. x <= a /\ x + n <= MAXFILE * BSIZE /\ n <= s.left
  BY <1>4, Zenon DEF FileInv, Ranges, Fits, Size
<1>7. a \in Nat /\ a <= MAXFILE * BSIZE /\ fs \in Disks /\ Uses(fs)
  <2>1. a \in Nat
    BY <1>2, <1>5 DEF Types, Disks, Size
  <2>2. a <= MAXFILE * BSIZE
    BY <1>2, <1>5, Zenon DEF Types, Uses, Addressed, Size
  <2> QED
    BY <1>2, <2>1, <2>2, Zenon DEF Types
<1>8. r \in Calls /\ ~Busy(r) /\ (r = Idle \/ r.o \in opened)
  <2>1. CASE s.left = n
    <3>1. Idle \in Calls /\ ~Busy(Idle)
      BY DEF Calls, Busy, Reading, Writing, Idle
    <3> QED
      BY <2>1, <3>1, Zenon
  <2>2. CASE s.left # n
    <3> DEFINE c == [pc |-> "chunk", o |-> s.o, left |-> s.left - n, v |-> s.v]
    <3>1. s.left \in Nat /\ s.v \in Values
      BY <1>4 DEF Writes
    <3>2. s.left - n \in Nat \ {0}
      BY <1>5, <1>6, <2>2, <3>1
    <3>3. c \in Chunks /\ c.o = s.o /\ c.pc = "chunk"
      BY <1>5, <3>1, <3>2 DEF Chunks
    <3>4. r = c
      BY <2>2, Zenon
    <3> HIDE DEF c
    <3>5. c \in Calls /\ ~Busy(c)
      BY <3>3 DEF Calls, Busy, Reading, Writing
    <3> QED
      BY <1>5, <3>3, <3>4, <3>5, Zenon
  <2> QED
    BY <2>1, <2>2, Zenon
<1> HIDE DEF r
<1>9. data[f] = [k \in 1..a |-> data[f][k]]
  BY <1>5, Zenon DEF FileInv, Domains
<1>10. Max({a, x + n}) = m /\ Overlaid(w, data[f], x, n, s.v, m)
  <2>1. Overlaid(w, data[f], x, n, s.v, m)
    BY <1>5, <1>7, <1>9, OverlayWorks, Zenon
  <2>2. a \in Int /\ x + n \in Int
    BY <1>5, <1>7
  <2> HIDE DEF w, a, x, n
  <2> QED
    BY <2>1, <2>2, MaxOfTwo, Zenon
<1>11. m \in Nat /\ m <= MAXFILE * BSIZE
  BY <1>5, <1>6, <1>7, Sizes
<1> HIDE DEF w, m, s, a
<1>12. Resized(fs, fs', f, m)
  <2>1. Resized(fs, [fs EXCEPT !.inode[f].size = m], f, m)
    BY <1>5, <1>7, <1>11, ResizeWorks, Zenon
  <2> QED
    BY <1>1, <1>10, <2>1, Zenon
<1>13. /\ DOMAIN data' = Inums /\ data'[f] = w
       /\ \A g \in Inums : g # f => data'[g] = data[g]
  <2>1. DOMAIN data = Inums
    BY <1>2, Zenon DEF Types
  <2> QED
    BY <1>1, <1>5, <2>1, Zenon
<1>14. /\ fs' \in Disks /\ Uses(fs')
       /\ \A g \in Inums : Size(g)' = IF g = f THEN m ELSE Size(g)
       /\ \A g \in Inums, k \in Offsets :
            Cell(fs', g, k) = Cell(fs, g, k) /\ HasBlock(fs', g, k) = HasBlock(fs, g, k)
  BY <1>5, <1>12, Zenon DEF Resized, Size
<1>15. /\ Types' /\ InUse' /\ Locked' /\ Exclusive' /\ Steady' /\ SharedOffset'
       /\ \A q \in Procs : q # p => op'[q] = op[q]
       /\ \A q \in Procs : Busy(op'[q]) =>
            q # p /\ op'[q] = op[q] /\ Busy(op[q]) /\ Of(op[q]) # f
  BY <1>1, <1>4, <1>8, <1>13, <1>14, Leave, Zenon DEF s
<1>16. Ranges'
  <2>1. ASSUME NEW q \in Procs, Busy(op'[q]) PROVE Fits(fs', op'[q])
    <3>1. op'[q] = op[q] /\ Fits(fs, op[q]) /\ Of(op[q]) # f /\ Of(op[q]) \in Inums
      BY <1>3, <1>15, <2>1, Kinds, Zenon DEF FileInv, Ranges
    <3>2. fs'.inode[Of(op[q])].size = fs.inode[Of(op[q])].size
      BY <1>14, <3>1, Zenon DEF Size
    <3> QED
      BY <3>1, <3>2, Zenon DEF Fits
  <2> QED
    BY <2>1, Zenon DEF Ranges
<1>17. Latest'
  <2>1. ASSUME NEW q \in Procs, Writing(op'[q]), NEW k, k \in Done(op'[q])
        PROVE  Cell(fs', Of(op'[q]), k) = op'[q].v
    <3>1. Busy(op'[q])
      BY <2>1, Zenon DEF Busy
    <3>2. op'[q] = op[q] /\ Busy(op[q])
      BY <1>15, <3>1, Zenon
    <3>3. Of(op[q]) \in Inums /\ k \in Offsets
      BY <1>3, <2>1, <3>2, Kinds, HaveAddresses, Zenon
    <3> QED
      BY <1>14, <2>1, <3>2, <3>3, Zenon DEF FileInv, Latest
  <2> QED
    BY <2>1, Zenon DEF Latest
<1>18. Domains'
  <2>1. ASSUME NEW g \in Inums PROVE data'[g] = [k \in 1..Size(g)' |-> data'[g][k]]
    <3>1. CASE g = f
      <4>1. data'[g] = w /\ Size(g)' = m
        BY <1>13, <1>14, <3>1, Zenon
      <4>2. w = [k \in 1..m |-> w[k]]
        BY <1>10, Zenon DEF Overlaid
      <4> QED
        BY <4>1, <4>2, Zenon
    <3>2. CASE g # f
      BY <1>13, <1>14, <3>2, Zenon DEF FileInv, Domains
    <3> QED
      BY <3>1, <3>2, Zenon
  <2> QED
    BY <2>1, Zenon DEF Domains
<1>19. Holds'
  <2>1. ASSUME NEW g \in Inums, NEW k \in Nat, k < Size(g)', Cell(fs', g, k) # data'[g][k + 1]
        PROVE  \E q \in Procs : Writing(op'[q]) /\ Of(op'[q]) = g /\ k \in Done(op'[q])
    <3>1. CASE g # f
      <4>1. k < Size(g) /\ k \in Offsets
        BY <1>14, <2>1, <3>1, HaveAddresses, Zenon
      <4>2. Cell(fs, g, k) # data[g][k + 1]
        BY <1>13, <1>14, <2>1, <3>1, <4>1, Zenon
      <4>3. PICK q \in Procs : Writing(op[q]) /\ Of(op[q]) = g /\ k \in Done(op[q])
        BY <4>1, <4>2, Zenon DEF FileInv, Holds
      <4>4. q # p
        BY <3>1, <4>3, Zenon DEF s
      <4> QED
        BY <1>15, <4>3, <4>4, Zenon
    <3>2. CASE g = f
      <4>1. k < m
        BY <1>14, <2>1, <3>2, Zenon
      <4>2. k \in Offsets
        BY <1>11, <4>1, Sizes DEF Offsets
      <4>3. Cell(fs, f, k) # (IF k \in x..(x + n - 1) THEN s.v ELSE data[f][k + 1])
        BY <1>10, <1>13, <1>14, <2>1, <3>2, <4>1, <4>2, Zenon DEF Overlaid
      <4>4. Done(s) = x..(x + n - 1)
        BY <1>1, Zenon DEF Done
      <4>5. CASE k \in x..(x + n - 1)
        <5>1. Cell(fs, f, k) = s.v
          BY <1>4, <4>4, <4>5, Zenon DEF FileInv, Latest, s
        <5> QED
          BY <4>3, <4>5, <5>1, Zenon
      <4>6. CASE k \notin x..(x + n - 1)
        <5>1. k < a
          BY <1>5, <1>6, <1>7, <4>1, <4>6 DEF m
        <5>2. Cell(fs, f, k) # data[f][k + 1]
          BY <4>3, <4>6, Zenon
        <5>3. PICK q \in Procs : Writing(op[q]) /\ Of(op[q]) = f /\ k \in Done(op[q])
          BY <1>5, <5>1, <5>2, Zenon DEF FileInv, Holds, a
        <5>4. q = p
          BY <1>4, <5>3, Zenon DEF FileInv, Exclusive, Busy, s
        <5> QED
          BY <4>4, <4>6, <5>3, <5>4, Zenon DEF s
      <4> QED
        BY <4>5, <4>6, Zenon
    <3> QED
      BY <3>1, <3>2, Zenon
  <2> QED
    BY <2>1, Zenon DEF Holds
<1>20. Covered'
  <2>1. ASSUME NEW g \in Inums, NEW k \in Nat, k < Size(g)' PROVE Provided(g, k)'
    <3>1. Backed /\ Filled
      BY Zenon DEF FileInv, Covered
    <3>2. CASE k < Size(g)
      <4>1. k \in Offsets /\ Provided(g, k)
        BY <3>1, <3>2, HaveAddresses, Zenon DEF Backed
      <4> QED
        BY <1>14, <4>1, Zenon DEF Provided
    <3>3. CASE ~(k < Size(g))
      <4>1. g = f /\ k < m /\ ~(k < a)
        BY <1>14, <2>1, <3>3, Zenon DEF a
      <4>2. k \in x..(x + n - 1)
        BY <1>5, <1>6, <1>7, <4>1 DEF m
      <4>3. Done(s) = x..(x + n - 1)
        BY <1>1, Zenon DEF Done
      <4>4. k \in Offsets /\ HasBlock(fs, f, k)
        BY <1>4, <3>1, <4>2, <4>3, HaveAddresses, Zenon DEF Filled, s
      <4> QED
        BY <1>14, <4>1, <4>4, Zenon DEF Provided
    <3> QED
      BY <3>2, <3>3, Zenon
  <2>2. ASSUME Filled, NEW q \in Procs, Writing(op'[q]), NEW k, k \in Done(op'[q])
        PROVE  HasBlock(fs', Of(op'[q]), k)
    <3>1. Busy(op'[q])
      BY <2>2, Zenon DEF Busy
    <3>2. op'[q] = op[q] /\ Busy(op[q])
      BY <1>15, <3>1, Zenon
    <3>3. Of(op[q]) \in Inums /\ k \in Offsets
      BY <1>3, <2>2, <3>2, Kinds, HaveAddresses, Zenon
    <3> QED
      BY <1>14, <2>2, <3>2, <3>3, Zenon DEF Filled
  <2> QED
    BY <2>1, <2>2, Zenon DEF FileInv, Covered, Backed, Filled
<1> QED
  BY <1>15, <1>16, <1>17, <1>18, <1>19, <1>20, Zenon DEF FileInv

(* A file that nobody has open is truncated. *)
LEMMA StepTrunc ==
  ASSUME FileInv, NEW f \in Inums, itrunc(f)
  PROVE  FileInv'
<1>1. /\ \A o \in opened : FileOf[o] # f
      /\ fs' = itruncated(fs, f) /\ data' = [data EXCEPT ![f] = <<>>]
      /\ UNCHANGED <<lock, opened, off, op, from, passed>>
  BY Zenon DEF itrunc
<1>2. Types /\ fs \in Disks /\ Uses(fs)
  BY Zenon DEF FileInv, Types
<1>3. Emptied(fs, itruncated(fs, f), f)
  BY <1>2, TruncWorks, Zenon
<1>4. /\ fs' \in Disks /\ Uses(fs')
      /\ \A g \in Inums : Size(g)' = IF g = f THEN 0 ELSE Size(g)
      /\ \A g \in Inums, k \in Offsets : g # f =>
           Cell(fs', g, k) = Cell(fs, g, k) /\ HasBlock(fs', g, k) = HasBlock(fs, g, k)
  BY <1>1, <1>3, Zenon DEF Emptied, Size
<1>5. /\ DOMAIN data' = Inums
      /\ \A g \in Inums : data'[g] = IF g = f THEN <<>> ELSE data[g]
  BY <1>1, <1>2, Zenon DEF Types
<1>6. \A q \in Procs : Busy(op[q]) => Of(op[q]) \in Inums /\ Of(op[q]) # f
  <2>1. \A q \in Procs : op[q] \in Calls
    BY <1>2, Zenon DEF Types
  <2>2. \A q \in Procs : op[q] # Idle => op[q].o \in opened
    BY Zenon DEF FileInv, InUse
  <2> QED
    BY <1>1, <2>1, <2>2, Kinds, Zenon DEF Of
<1>7. Types' /\ InUse' /\ Locked' /\ Exclusive' /\ Steady' /\ SharedOffset'
  BY <1>1, <1>4, <1>5, Zenon
     DEF FileInv, Types, InUse, Locked, Exclusive, Steady, SharedOffset
<1>8. Ranges'
  <2>1. ASSUME NEW q \in Procs, Busy(op'[q]) PROVE Fits(fs', op'[q])
    <3>1. op'[q] = op[q] /\ Busy(op[q])
      BY <1>1, <2>1, Zenon
    <3>2. fs'.inode[Of(op[q])].size = fs.inode[Of(op[q])].size
      BY <1>4, <1>6, <3>1, Zenon DEF Size
    <3>3. Fits(fs, op[q])
      BY <3>1, Zenon DEF FileInv, Ranges
    <3> QED
      BY <3>1, <3>2, <3>3, Zenon DEF Fits
  <2> QED
    BY <2>1, Zenon DEF Ranges
<1>9. \A q \in Procs : Writing(op[q]) => Busy(op[q]) /\ Done(op[q]) \subseteq Offsets
  BY HaveAddresses, Zenon DEF Busy
<1>10. Latest'
  BY <1>1, <1>4, <1>6, <1>9, Zenon DEF FileInv, Latest
<1>11. Domains'
  <2>1. \A g \in Inums : g # f => data'[g] = data[g] /\ Size(g)' = Size(g)
    BY <1>4, <1>5, Zenon
  <2>2. \A g \in Inums : g # f => data[g] = [k \in 1..Size(g) |-> data[g][k]]
    BY Zenon DEF FileInv, Domains
  <2>3. \A g \in Inums : g # f => data'[g] = [k \in 1..Size(g)' |-> data'[g][k]]
    BY <2>1, <2>2, Zenon
  <2>4. data'[f] = <<>> /\ Size(f)' = 0
    BY <1>4, <1>5, Zenon
  <2>5. <<>> = [k \in 1..0 |-> <<>>[k]]
    OBVIOUS
  <2>6. data'[f] = [k \in 1..Size(f)' |-> data'[f][k]]
    BY <2>4, <2>5, Zenon
  <2> QED
    BY <2>3, <2>6, Zenon DEF Domains
<1>12. Holds'
  <2>1. ASSUME NEW g \in Inums, NEW k \in Nat, k < Size(g)', g # f
        PROVE  \/ Cell(fs', g, k) = data'[g][k + 1]
               \/ \E p \in Procs : Writing(op'[p]) /\ Of(op'[p]) = g /\ k \in Done(op'[p])
    <3>1. k < Size(g) /\ data'[g] = data[g]
      BY <1>4, <1>5, <2>1, Zenon
    <3>2. Cell(fs', g, k) = Cell(fs, g, k)
      BY <1>4, <2>1, <3>1, HaveAddresses, Zenon
    <3> QED
      BY <1>1, <2>1, <3>1, <3>2, Zenon DEF FileInv, Holds
  <2>2. \A k \in Nat : ~(k < 0)
    OBVIOUS
  <2>3. \A k \in Nat : ~(k < Size(f)')
    BY <1>4, <2>2, Zenon
  <2> QED
    BY <2>1, <2>3, Zenon DEF Holds
<1>13. Covered'
  <2>1. ASSUME NEW g \in Inums, NEW k \in Nat, k < Size(g)' PROVE Provided(g, k)'
    <3>1. \A i \in Nat : ~(i < 0)
      OBVIOUS
    <3>2. g # f
      BY <1>4, <2>1, <3>1, Zenon
    <3>3. k < Size(g)
      BY <1>4, <2>1, <3>2, Zenon
    <3>4. k \in Offsets /\ Provided(g, k)
      BY <3>3, HaveAddresses, Zenon DEF FileInv, Covered, Backed
    <3> QED
      BY <1>4, <3>2, <3>4, Zenon DEF Provided
  <2>2. Filled => Filled'
    BY <1>1, <1>4, <1>6, <1>9, Zenon DEF Filled
  <2> QED
    BY <2>1, <2>2, Zenon DEF FileInv, Covered, Backed
<1> QED
  BY <1>7, <1>8, <1>10, <1>11, <1>12, <1>13, Zenon DEF FileInv

(* Every step keeps the invariant. *)
LEMMA NextInv ==
  ASSUME BlockSets, FileInv, [Next]_vars
  PROVE  FileInv'
<1>1. ASSUME NEW p \in Procs, NEW o \in Files, NEW n \in ReadSizes, fileread(p, o, n) PROVE FileInv'
  BY <1>1, StepRead, Zenon
<1>2. ASSUME NEW p \in Procs, NEW o \in Files, NEW n \in WriteSizes, NEW v \in Values, sys_write(p, o, n, v)
      PROVE  FileInv'
  BY <1>2, StepWrite, Zenon
<1>3. ASSUME NEW p \in Procs, NEW o \in Files, NEW s \in Seeks, filelseek(p, o, s[1], s[2])
      PROVE  FileInv'
  BY <1>3, StepSeek, Zenon
<1>4. ASSUME NEW p \in Procs, readi(p) \/ fileread_done(p) PROVE FileInv'
  BY <1>4, StepReadi, StepReadDone, Zenon
<1>5. ASSUME NEW p \in Procs, filewrite_chunk(p) \/ writei(p) \/ filewrite_done(p) PROVE FileInv'
  BY <1>5, StepChunk, StepWritei, StepWriteDone, Zenon
<1>6. ASSUME NEW o \in Files, fileclose(o) \/ sys_open(o) PROVE FileInv'
  BY <1>6, StepClose, StepOpen, Zenon
<1>7. ASSUME NEW f \in Inums, itrunc(f) PROVE FileInv'
  BY <1>7, StepTrunc, Zenon
<1>8. CASE UNCHANGED vars
  <2>1. UNCHANGED <<fs, lock, opened, off, op, data, from, passed>>
    BY <1>8, Zenon DEF vars
  <2> QED
    BY <2>1, Unchanged, Zenon
<1> QED
  BY <1>1, <1>2, <1>3, <1>4, <1>5, <1>6, <1>7, <1>8, Zenon DEF Next

-----------------------------------------------------------------------------
(* A read that has bytes to copy is at a block that the file has, or that    *)
(* mkfs left out.                                                            *)
LEMMA ReadProvided ==
  ASSUME FileInv, NEW p \in Procs, Reading(op[p]), op[p].tot < op[p].n1, ~LeftOut(Inode(p), Bn(p))
  PROVE  HasBlock(fs, Inode(p), Cur(p))
<1> DEFINE s == op[p]
<1>1. s \in Calls /\ Busy(s) /\ fs \in Disks
  BY Zenon DEF Busy, FileInv, Types
<1>2. s.x \in Nat /\ s.n1 \in Nat /\ s.tot \in Nat /\ Of(s) \in Inums
  BY <1>1, Kinds, Zenon
<1>3. s.x + s.n1 <= Size(Of(s))
  BY <1>1, Zenon DEF FileInv, Ranges, Fits, Size
<1>4. Cur(p) = s.x + s.tot /\ Inode(p) = Of(s) /\ s.tot < s.n1
  BY Zenon DEF Cur, Inode, Of
<1>5. Size(Of(s)) \in Nat
  BY <1>1, <1>2 DEF Disks, Size
<1> HIDE DEF s
<1>6. Cur(p) \in Nat /\ Cur(p) < Size(Of(s))
  BY <1>2, <1>3, <1>4, <1>5
<1>7. Provided(Of(s), Cur(p))
  BY <1>2, <1>6, Zenon DEF FileInv, Covered, Backed
<1> QED
  BY <1>4, <1>7, Zenon DEF Provided, Bn

(* It changes nothing then. *)
LEMMA ReadKeeps ==
  ASSUME BlockSets, FileInv, NEW p \in Procs, readi(p), ~LeftOut(Inode(p), Bn(p))
  PROVE  fs' = fs
<1> DEFINE s == op[p]
           n == Cur(p) \div BSIZE
<1>1. s.pc = "readi" /\ s.tot < s.n1
  BY Zenon DEF readi, At
<1>2. Reading(s) /\ Busy(s)
  BY <1>1, Zenon DEF Reading, Busy
<1>3. CASE fs' = fs
  BY <1>3
<1>4. CASE NoProblem(p) /\ fs' = bmap(fs, Inode(p), Bn(p))
  <2>1. /\ Cur(p) \in Offsets /\ Inode(p) = Of(s) /\ Of(s) \in Inums
        /\ Missing(fs, Of(s), n) <= Cardinality(FreeBlocks(fs))
    BY <1>1, <1>2, <1>4, Iteration, Zenon
  <2>2. fs \in Disks /\ Uses(fs)
    BY Zenon DEF FileInv, Types
  <2>3. HasBlock(fs, Of(s), Cur(p))
    BY <1>1, <1>2, <2>1, ReadProvided, Zenon
  <2>4. bmap(fs, Of(s), n) = fs
    BY <2>1, <2>2, <2>3, ReadWorks, Zenon
  <2> QED
    BY <1>4, <2>1, <2>4, Zenon DEF Bn
<1> QED
  BY <1>3, <1>4, Zenon DEF readi, Panic, NoProblem

(* The reasons there are to panic: the disk is full, or a read, in nobody's  *)
(* transaction, has come to a block that mkfs left out.                      *)
Outside == "log_write outside of trans"
KnownPanics ==
  /\ panic \in {"", "balloc: out of blocks", Outside}
  /\ panic = Outside => \E p \in Procs : Reading(op[p]) /\ LeftOut(Inode(p), Bn(p))

(* Neither loop asks bmap for a block past the largest file. *)
LEMMA InAddresses ==
  ASSUME FileInv, NEW p \in Procs, Busy(op[p]), op[p].tot < op[p].n1
  PROVE  ~(Bn(p) >= MAXFILE)
<1> DEFINE s == op[p]
<1>1. s \in Calls
  BY Zenon DEF FileInv, Types
<1>2. s.x \in Nat /\ s.n1 \in Nat /\ s.tot \in Nat
  BY <1>1, Kinds, Zenon
<1>3. s.x + s.n1 <= MAXFILE * BSIZE
  BY Zenon DEF FileInv, Ranges, Fits
<1>4. Cur(p) = s.x + s.tot
  BY Zenon DEF Cur
<1>5. s.tot < s.n1
  OBVIOUS
<1> HIDE DEF s
<1>6. Cur(p) \in Offsets
  BY <1>2, <1>3, <1>4, <1>5, Sizes DEF Offsets
<1>7. Cur(p) \div BSIZE \in 0..(MAXFILE - 1)
  BY <1>6, OffsetParts, Zenon
<1>8. MAXFILE \in Nat
  BY Sizes
<1> QED
  BY <1>7, <1>8 DEF Bn

(* Nothing else panics. *)
LEMMA NextPanics ==
  ASSUME FileInv, KnownPanics, [Next]_vars
  PROVE  KnownPanics'
<1>0. ASSUME panic' \in {"", "balloc: out of blocks"} PROVE KnownPanics'
  BY <1>0, Zenon DEF KnownPanics, Outside
<1>1. ASSUME NEW p \in Procs, readi(p) \/ writei(p) PROVE KnownPanics'
  <2>1. Busy(op[p]) /\ op[p].tot < op[p].n1 /\ panic = ""
    BY <1>1, Zenon DEF readi, writei, At, Busy, Reading, Writing
  <2>2. Problem(p) \in {"", "balloc: out of blocks"}
    BY <2>1, InAddresses, Zenon DEF Problem
  <2>3. CASE panic' = panic \/ panic' = Problem(p)
    BY <1>0, <2>1, <2>2, <2>3, Zenon
  <2>4. CASE readi(p) /\ NoTransaction(p) /\ Panic(Outside)
    <3>1. Reading(op[p])
      BY <2>4, Zenon DEF readi, At, Reading
    <3>2. Addr(fs, Inode(p), Bn(p)) = 0
      BY <2>4 DEF NoTransaction, Missing
    <3>3. LeftOut(Inode(p), Bn(p))
      BY <2>1, <3>1, <3>2, ReadProvided, Zenon DEF HasBlock, Bn
    <3>4. panic' = Outside /\ op' = op
      BY <2>4, Zenon DEF Panic
    <3>5. Reading(op'[p]) /\ LeftOut(Inode(p)', Bn(p)')
      BY <3>1, <3>3, <3>4, Zenon DEF Inode, Bn, Cur
    <3> QED
      BY <3>4, <3>5, Zenon DEF KnownPanics
  <2> QED
    BY <1>1, <2>3, <2>4, Zenon DEF readi, writei, Panic, Outside
<1>2. ASSUME NEW f \in Inums, itrunc(f) PROVE KnownPanics'
  <2>1. Owned(fs, f) \subseteq fs.bitmap
    BY TruncWorks, Zenon DEF FileInv, Types
  <2> QED
    BY <1>0, <1>2, <2>1, Zenon DEF itrunc
<1>3. ASSUME NEW p \in Procs, NEW o \in Files,
             \/ \E n \in ReadSizes : fileread(p, o, n)
             \/ \E n \in WriteSizes, v \in Values : sys_write(p, o, n, v)
             \/ \E s \in Seeks : filelseek(p, o, s[1], s[2])
      PROVE  KnownPanics'
  BY <1>0, <1>3, Zenon DEF fileread, sys_write, filelseek, Begin
<1>4. ASSUME NEW p \in Procs, fileread_done(p) \/ filewrite_chunk(p) \/ filewrite_done(p)
      PROVE  KnownPanics'
  BY <1>0, <1>4, Zenon DEF fileread_done, filewrite_chunk, filewrite_done, At
<1>5. ASSUME NEW o \in Files, fileclose(o) \/ sys_open(o) PROVE KnownPanics'
  BY <1>0, <1>5, Zenon DEF fileclose, sys_open
<1>6. CASE UNCHANGED vars
  BY <1>6, Zenon DEF vars, KnownPanics, Inode, Bn, Cur
<1> QED
  BY <1>1, <1>2, <1>3, <1>4, <1>5, <1>6, Zenon DEF Next

-----------------------------------------------------------------------------
INSTANCE FiniteSetTheorems
INSTANCE WellFoundedInduction

(* A nonempty set of numbers has a least one. *)
LEMMA Least ==
  ASSUME NEW S \in SUBSET Nat, S # {}
  PROVE  Min(S) \in S
<1>1. \E x \in S : \A y \in S : ~(<<y, x>> \in OpToRel(<, Nat))
  BY NatLessThanWellFounded, WFMin, Zenon
<1>2. PICK x \in S : \A y \in S : ~(<<y, x>> \in OpToRel(<, Nat))
  BY <1>1
<1>3. \A y \in S : y < x => <<y, x>> \in OpToRel(<, Nat)
  BY Zenon DEF OpToRel
<1>4. \A y \in S : ~(y < x)
  BY <1>2, <1>3, Zenon
<1>5. \A y \in S : x <= y
  BY <1>4
<1> QED
  BY <1>5, Zenon DEF Min

(* The blocks are finitely many. *)
LEMMA BlockSetFacts == BlockSets
<1>1. FSSIZE - 1 \in Int /\ 0 \in Int
  BY FileAssumption
<1>2. IsFiniteSet(Blocks)
  BY <1>1, FS_Interval, Zenon DEF Blocks
<1>3. ASSUME NEW S \in SUBSET Blocks
      PROVE  /\ S # {} => Min(S) \in S
             /\ Cardinality(S) \in Nat
             /\ Cardinality(S) >= 1 => S # {}
             /\ Cardinality(S) >= 2 => \A b : S \ {b} # {}
  <2>1. IsFiniteSet(S)
    BY <1>2, FS_Subset, Zenon
  <2>2. S \in SUBSET Nat
    BY <1>1 DEF Blocks
  <2>3. S # {} => Min(S) \in S
    BY <2>2, Least, Zenon
  <2>4. Cardinality(S) \in Nat
    BY <2>1, FS_CardinalityType, Zenon
  <2>5. Cardinality(S) >= 1 => S # {}
    <3>1. Cardinality({}) = 0
      BY FS_EmptySet, Zenon
    <3> QED
      BY <3>1
  <2>6. ASSUME Cardinality(S) >= 2, NEW b PROVE S \ {b} # {}
    <3>1. Cardinality(S \ {b}) = IF b \in S THEN Cardinality(S) - 1 ELSE Cardinality(S)
      BY <2>1, FS_RemoveElement, Zenon
    <3>2. Cardinality({}) = 0
      BY FS_EmptySet, Zenon
    <3>3. Cardinality(S \ {b}) # 0
      BY <2>4, <2>6, <3>1
    <3> QED
      BY <3>2, <3>3, Zenon
  <2> QED
    BY <2>3, <2>4, <2>5, <2>6, Zenon
<1> QED
  BY <1>3, Zenon DEF BlockSets

-----------------------------------------------------------------------------
(* The invariant holds in every state that the reads, writes, seeks, opens,  *)
(* closes and truncations of the processes reach.                            *)
THEOREM FileInvariant == Spec => []FileInv
<1>1. Init => FileInv
  BY InitInv, Zenon
<1>2. FileInv /\ [Next]_vars => FileInv'
  BY NextInv, BlockSetFacts, Zenon
<1> QED
  BY <1>1, <1>2, PTL DEF Spec

(* bmap and itrunc use every block once, in every state that does not follow *)
(* a panic: no two places hold the same block, the bitmap marks what the     *)
(* files and the meta blocks use, and no file outgrows its addresses.        *)
THEOREM BlocksUsedOnce == Spec => []BlocksOwned
<1>1. FileInv => BlocksOwned
  BY OwnedUses, Zenon DEF FileInv, Types, BlocksOwned
<1> QED
  BY <1>1, FileInvariant, PTL

(* A file that no readi or writei is in the middle of holds what was written *)
(* to it, byte by byte.                                                      *)
THEOREM FilesHoldWritten == Spec => []HoldsWritten
<1>1. ASSUME FileInv, NEW f \in Inums, ~lock[f] PROVE Bytes(fs, f) = data[f]
  <2> DEFINE n == Size(f)
  <2>1. \A p \in Procs : ~(Writing(op[p]) /\ Of(op[p]) = f)
    BY <1>1, Zenon DEF FileInv, Locked, Busy
  <2>2. \A k \in Nat : k < n => Cell(fs, f, k) = data[f][k + 1]
    BY <1>1, <2>1, Zenon DEF FileInv, Holds
  <2>3. n \in Nat
    BY <1>1 DEF FileInv, Types, Disks, Size
  <2>4. data[f] = [k \in 1..n |-> data[f][k]]
    BY <1>1, Zenon DEF FileInv, Domains
  <2>5. Bytes(fs, f) = [k \in 1..n |-> Cell(fs, f, k - 1)]
    BY Zenon DEF Bytes, Size
  <2> HIDE DEF n
  <2>6. \A k \in 1..n : k - 1 \in Nat /\ k - 1 < n /\ (k - 1) + 1 = k
    BY <2>3
  <2>7. \A k \in 1..n : Cell(fs, f, k - 1) = data[f][k]
    <3> TAKE k \in 1..n
    <3>1. k - 1 \in Nat /\ k - 1 < n /\ (k - 1) + 1 = k
      BY <2>6, Zenon
    <3>2. Cell(fs, f, k - 1) = data[f][(k - 1) + 1]
      BY <2>2, <3>1, Zenon
    <3> QED
      BY <3>1, <3>2, Zenon
  <2> QED
    BY <2>4, <2>5, <2>7, Zenon
<1>2. FileInv => HoldsWritten
  BY <1>1, Zenon DEF HoldsWritten
<1> QED
  BY <1>2, FileInvariant, PTL

(* What the users of a shared open file have read and written through it is  *)
(* all there is from where it was opened or sought to up to the offset, each *)
(* byte once, unless a seek came in the middle of a read or write.           *)
THEOREM OffsetShared == Spec => []SharedOffset
<1>1. FileInv => SharedOffset
  BY Zenon DEF FileInv
<1> QED
  BY <1>1, FileInvariant, PTL

(* The bmap of a read finds its block and allocates nothing, for every file  *)
(* that processes write, truncate and create anew, and for those of mkfs;    *)
(* but for a block below the size that mkfs itself has left out.             *)
THEOREM ReadsNeverAllocate == Spec => ReadsAllocateNothing
<1>1. FileInv =>
        [\A p \in Procs : readi(p) /\ ~LeftOut(Inode(p), Bn(p)) => fs'.bitmap = fs.bitmap]_vars
  BY ReadKeeps, BlockSetFacts, Zenon
<1> QED
  BY <1>1, FileInvariant, PTL DEF ReadsAllocateNothing

(* Reads, writes and truncations panic for want of a free block, or because  *)
(* a read outside of a transaction has come to a block that mkfs left out:   *)
(* bmap is never asked for a block that no file has an address for, itrunc   *)
(* never frees a block that is free.                                         *)
THEOREM PanicsKnown == Spec => []KnownPanics
<1>1. Init => KnownPanics
  BY Zenon DEF Init, KnownPanics, Outside
<1>2. FileInv /\ KnownPanics /\ [Next]_vars => KnownPanics'
  BY NextPanics, Zenon
<1> QED
  BY <1>1, <1>2, FileInvariant, PTL DEF Spec
=============================================================================

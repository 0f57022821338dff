----------------------------- MODULE LogProofs -----------------------------
(***************************************************************************)
(* Machine-checked proofs about Log for any number of processes, blocks,   *)
(* contents and log slots: types, where the contents of each block is at   *)
(* every stage of a commit, that every step is one of AtomicDisk, the      *)
(* running calls and the space they reserve in the log; then the theorems: *)
(* no panic, durability at rest, no forgotten sleeper, and that Log        *)
(* implements AtomicDisk.                                                  *)
(***************************************************************************)
EXTENDS Log, TLAPS

IInv == TypeOK /\ LogInv

(* log_write and end_op when their tests do not fail; else they are Crash.  *)
Checked(p) == pc[p] = "modified" /\ Pass(p)
Ended(p) == pc[p] = "op" /\ Leave(p)

(* What the first part uses of the counters: outstanding is zero exactly    *)
(* when no call runs, and the header is within its bounds.  Lemma Counting  *)
(* shows that it follows from IInv.                                         *)
CountsHold ==
  /\ \A p \in Procs : InOp(p) => outstanding >= 1
  /\ outstanding = 0 => \A p \in Procs : ~InOp(p)
  /\ Len(lh) <= Room

(* What the counts below need of finite sets and of the slots of the calls  *)
(* in A; lemma FiniteSetFacts has it from FiniteSetTheorems.                *)
Cardinals ==
  /\ IsFiniteSet({}) /\ Cardinality({}) = 0
  /\ \A S : IsFiniteSet(S) => Cardinality(S) \in Nat /\ (S # {} => Cardinality(S) # 0)
  /\ \A S : IsFiniteSet(S) => \A T \in SUBSET S :
       IsFiniteSet(T) /\ Cardinality(T) <= Cardinality(S)
  /\ \A S, x : IsFiniteSet(S) =>
       /\ IsFiniteSet(S \cup {x})
       /\ x \notin S => Cardinality(S \cup {x}) = Cardinality(S) + 1
       /\ x \in S => Cardinality(S \ {x}) = Cardinality(S) - 1
  /\ \A A : IsFiniteSet(A) => \A R \in SUBSET (A \X (1..OpBlocks)) :
       IsFiniteSet(R) /\ Cardinality(R) <= Cardinality(A) * OpBlocks

-----------------------------------------------------------------------------
(* log_write adds the block to the transaction and keeps what is there; an  *)
(* entry is new only when the block was not there.                          *)
LEMMA LoggedEntries ==
  ASSUME NEW s \in Seq(Blocks), NEW c \in Blocks
  PROVE  /\ Logged(s, c) \in Seq(Blocks)
         /\ Len(Logged(s, c)) >= Len(s)
         /\ \A i \in 1..Len(s) : Logged(s, c)[i] = s[i]
         /\ \A b \in Blocks : (\E i \in 1..Len(Logged(s, c)) : Logged(s, c)[i] = b)
                                <=> (\E i \in 1..Len(s) : s[i] = b) \/ b = c
         /\ NoDuplicates(s) => NoDuplicates(Logged(s, c))
<1>1. CASE \E i \in 1..Len(s) : s[i] = c
  BY <1>1 DEF Logged
<1>2. CASE ~ \E i \in 1..Len(s) : s[i] = c
  <2>1. Logged(s, c) = Append(s, c)
    BY <1>2, Zenon DEF Logged
  <2>2. /\ Len(Append(s, c)) = Len(s) + 1
        /\ \A i \in 1..Len(s) : Append(s, c)[i] = s[i]
        /\ Append(s, c)[Len(s) + 1] = c
    OBVIOUS
  <2>3. \A i \in 1..Len(Append(s, c)) : i \in 1..Len(s) \/ i = Len(s) + 1
    BY <2>2
  <2>4. \A i \in 1..Len(s) : i \in 1..Len(Append(s, c))
    BY <2>2
  <2>5. Len(s) + 1 \in 1..Len(Append(s, c))
    BY <2>2
  <2>6. \A b \in Blocks : (\E i \in 1..Len(Append(s, c)) : Append(s, c)[i] = b)
                             <=> (\E i \in 1..Len(s) : s[i] = b) \/ b = c
    BY <2>2, <2>3, <2>4, <2>5, Zenon
  <2>7. NoDuplicates(s) => NoDuplicates(Append(s, c))
    BY <1>2, <2>2, <2>3, Zenon DEF NoDuplicates
  <2> QED
    BY <2>1, <2>2, <2>6, <2>7
<1> QED
  BY <1>1, <1>2, Zenon

(* Only an active call has a buffer locked or ends. *)
LEMMA Stages ==
  /\ "op" \in OpPoints /\ "modified" \in OpPoints /\ "checked" \in OpPoints
  /\ \A x \in CommitPoints : x \notin OpPoints
BY Zenon DEF OpPoints, BufferPoints, CommitPoints

(* What log_write tests for leaves a slot of the header and of the area.     *)
LEMMA RoomFits ==
  Room \in Nat /\ Room < LOGSIZE /\ Room < NLOG - 1 /\ NLOG \in Nat
BY LogAssumption DEF Room

(* A new entry takes one slot of the header at most.                        *)
LEMMA LoggedLength ==
  ASSUME NEW s \in Seq(Blocks), NEW c \in Blocks
  PROVE  Len(Logged(s, c)) \in Nat /\ Len(Logged(s, c)) <= Len(s) + 1
BY DEF Logged

(* The slots used and those reserved, when reservations shrink, move into   *)
(* the header or are those of one call more.                                *)
LEMMA SlotSums ==
  ASSUME NEW l \in Nat, NEW r \in Nat, l + r <= Room
  PROVE  /\ l <= Room
         /\ \A k \in Nat : k <= r => l + k <= Room
         /\ \A k, m \in Nat : k <= l + 1 /\ m = r - 1 => k + m <= Room
BY RoomFits

(* begin_op lets a call in only if the slots of all calls fit.              *)
LEMMA RoomLeft ==
  ASSUME TypeOK, ~MustWait, outstanding = 0 => Len(lh) = 0, NEW r \in Nat, r <= (outstanding + 1) * OpBlocks
  PROVE  Len(lh) + r <= Room
<1> DEFINE k == outstanding + 1
<1>1. k \in Nat /\ Len(lh) \in Nat /\ Len(lh) + k * MAXOPBLOCKS <= LOGSIZE
  BY LogAssumption DEF MustWait, NoSpace, TypeOK
<1>2. k = 1 => Len(lh) = 0
  BY DEF TypeOK
<1>3. k >= 1 /\ r <= k * OpBlocks
  BY DEF TypeOK
<1> HIDE DEF k
<1>4. k * MAXOPBLOCKS >= k * (OpBlocks + 1) /\ k * (OpBlocks + 1) = k * OpBlocks + k
  <2>1. k * MAXOPBLOCKS = k * (OpBlocks + 1) + k * (MAXOPBLOCKS - (OpBlocks + 1))
    BY <1>1, LogAssumption
  <2>2. k * (MAXOPBLOCKS - (OpBlocks + 1)) >= 0
    BY <1>1, LogAssumption
  <2> QED
    BY <1>1, <2>1, <2>2, LogAssumption
<1>5. CASE k = 1
  BY <1>2, <1>3, <1>5, LogAssumption DEF Room
<1>6. CASE k >= 2
  BY <1>1, <1>3, <1>4, <1>6, LogAssumption DEF Room
<1> QED
  BY <1>1, <1>3, <1>5, <1>6

(* A call that logs one block more gives up one reserved slot.              *)
LEMMA SlotTaken ==
  ASSUME NEW p \in active, active' = active, NEW n \in Nat, n + 1 <= OpBlocks,
         Cardinality(wrote[p]) = n, Cardinality(wrote'[p]) = n + 1,
         \A q \in active : q # p => wrote'[q] = wrote[q]
  PROVE  <<p, n + 1>> \in Reserved /\ Reserved' = Reserved \ {<<p, n + 1>>}
<1>1. <<p, n + 1>> \in Reserved
  BY LogAssumption DEF Reserved
<1>2. ASSUME NEW q \in active, NEW i \in 1..OpBlocks
      PROVE  i > Cardinality(wrote'[q]) <=>
               i > Cardinality(wrote[q]) /\ <<q, i>> # <<p, n + 1>>
  BY <1>2, LogAssumption
<1>3. \A t \in active \X (1..OpBlocks) :
        t[2] > Cardinality(wrote'[t[1]]) <=>
          t[2] > Cardinality(wrote[t[1]]) /\ t # <<p, n + 1>>
  BY <1>2
<1> QED
  BY <1>1, <1>3 DEF Reserved

(* Writing the header, to commit or to erase, starts no call.               *)
LEMMA HeadWritten ==
  ASSUME TypeOK, NEW p \in Procs, write_head(p) \/ erase(p), \A q \in Procs : ~InOp(q)
  PROVE  /\ \A q \in Procs : ~InOp(q)'
         /\ (lh' = lh /\ dhead' = lh) \/ (lh' = <<>> /\ dhead' = <<>>)
<1>1. \A q \in Procs : ~InOp(q)'
  BY DEF write_head, erase, TypeOK, InOp, OpPoints, BufferPoints
<1>2. (lh' = lh /\ dhead' = lh) \/ (lh' = <<>> /\ dhead' = <<>>)
  BY Zenon DEF write_head, erase, clear_head
<1> QED
  BY <1>1, <1>2, Zenon

-----------------------------------------------------------------------------
(* initlog() establishes the inductive invariant.                          *)
LEMMA InitHolds == Cardinals /\ Init => IInv
<1> SUFFICES ASSUME Cardinals, Init PROVE IInv
  BY Zenon
<1>1. /\ Len(lh) = 0 /\ Len(dhead) = 0 /\ boot = "read_head" /\ dirty = {}
      /\ \A p \in Procs : pc[p] = "idle" /\ blk[p] = None /\ wrote[p] = {}
  BY Zenon DEF Init
<1>2. TypeOK
  <2>z. Zeroes \in Values
    BY LogAssumption, Zenon DEF Zeroes
  <2>1. <<>> \in Seq(Blocks)
    OBVIOUS
  <2>2. /\ disk \in [Blocks -> Values]
        /\ dlog \in [1..(NLOG - 1) -> Values]
        /\ cache \in [Blocks -> Values \cup {None}]
        /\ pc \in [Procs -> PCs]
        /\ blk \in [Procs -> Blocks \cup {None}]
        /\ wrote \in [Procs -> SUBSET Blocks]
        /\ outstanding \in Nat /\ tail \in Nat \ {0}
    BY <2>z DEF Init, PCs
  <2>3. /\ committing \in BOOLEAN
        /\ lh \in Seq(Blocks) /\ dhead \in Seq(Blocks)
        /\ boot \in {"read_head", "install_trans", "erase", "up"}
        /\ dirty \subseteq Blocks
    BY <2>1, Zenon DEF Init
  <2> QED
    BY <2>2, <2>3, Zenon DEF TypeOK
<1>3. active = {} /\ Reserved = {}
  BY <1>1, Zenon DEF active, InOp, OpPoints, BufferPoints, Reserved
<1>4. Cardinality(active) = 0 /\ Cardinality(Reserved) = 0
  BY <1>3, Zenon DEF Cardinals
<1>5. \A p \in Procs : pc[p] \notin CommitPoints /\ pc[p] \notin BufferPoints
  BY <1>1, Zenon DEF CommitPoints, BufferPoints
<1>6. ControlInv
  <2>1. outstanding = Cardinality(active)
    BY <1>4, Zenon DEF Init
  <2>2. committing <=> \E p \in Procs : pc[p] \in CommitPoints
    BY <1>5, Zenon DEF Init
  <2> QED
    BY <1>1, <1>5, <2>1, <2>2, Zenon DEF ControlInv
<1>7. SpaceInv
  <2>1. Len(lh) + Cardinality(Reserved) <= Room /\ Len(dhead) <= Room
    BY <1>1, <1>4, RoomFits
  <2>2. \A p \in Procs : IsFiniteSet(wrote[p])
    BY <1>1, Zenon DEF Cardinals
  <2> QED
    BY <1>1, <2>1, <2>2, Zenon DEF SpaceInv
<1>8. CacheInv
  BY <1>1, Zenon DEF CacheInv, Contents, Init
<1>9. ~Installing /\ ~Installed
  BY <1>1, Zenon DEF Installing, Installed
<1>10. StageInv
  <2>1. Distinct /\ Committed /\ Clean /\ Quiet
    BY <1>1, <1>9 DEF Distinct, Committed, Clean, Quiet, NoDuplicates, Init
  <2>2. Running /\ Home
    BY <1>1, <1>9, Zenon DEF Running, Home, Init
  <2>3. Copies
    BY <1>1, Zenon DEF Copies, Init
  <2> QED
    BY <2>1, <2>2, <2>3, Zenon DEF StageInv
<1> QED
  BY <1>2, <1>6, <1>7, <1>8, <1>10, Zenon DEF IInv, LogInv

-----------------------------------------------------------------------------
(* Type correctness.  dlog[tail] is read only inside the header's bounds,   *)
(* and end_op decrements outstanding only when a call runs: both need the   *)
(* rest of the invariant.                                                   *)
LEMMA TypeStep ==
  ASSUME TypeOK, ControlInv, CountsHold, [Next]_vars
  PROVE  TypeOK'
<1> USE DEF TypeOK
<1>len. Len(lh) \in Nat /\ Len(lh) <= Room
  BY LogAssumption DEF CountsHold
<1>emp. <<>> \in Seq(Blocks)
  OBVIOUS
<1>ins. ASSUME install_block
        PROVE  /\ cache' \in [Blocks -> Values \cup {None}]
               /\ disk' \in [Blocks -> Values]
               /\ dirty' \subseteq Blocks
               /\ tail' \in Nat \ {0}
  <2>1. tail \in 1..Len(lh) /\ tail \in 1..(NLOG - 1)
    BY <1>ins, <1>len, RoomFits DEF install_block
  <2>2. lh[tail] \in Blocks /\ dlog[tail] \in Values
    BY <2>1
  <2> QED
    BY <1>ins, <2>2 DEF install_block
<1>con. \A b \in Blocks : Contents(b) \in Values
  BY Zenon DEF Contents
<1>pcs. PCs = {"idle", "begin_op", "sleeping", "op", "modified", "checked",
               "write_log", "write_head", "install_trans", "erase",
               "committed"}
  BY Zenon DEF PCs, OpPoints, BufferPoints, CommitPoints
<1>1. ASSUME NEW b \in Blocks, bread(b) \/ bget_recycle(b)
      PROVE  TypeOK'
  BY <1>1, Zenon DEF bread, bget_recycle, diskVars, procVars
<1>2. ASSUME NEW p \in Procs, begin_op(p)
      PROVE  TypeOK'
  BY <1>2, <1>pcs DEF begin_op, diskVars
<1>3. ASSUME NEW p \in Procs, Ended(p)
      PROVE  TypeOK'
  <2>1. outstanding - 1 \in Nat
    BY <1>3, Stages DEF Ended, Leave, InOp, CountsHold
  <2>2. pc' \in [Procs -> PCs]
    BY <1>3, <1>pcs, Zenon DEF Ended, Leave, Woken, FirstCommitPoint
  <2> QED
    BY <1>3, <2>1, <2>2, Zenon DEF Ended, Leave, diskVars
<1>4. ASSUME NEW p \in Procs, write_log(p)
      PROVE  TypeOK'
  BY <1>4, <1>con, <1>pcs, SMTT(30) DEF write_log
<1>5. ASSUME NEW p \in Procs, write_head(p) \/ erase(p)
      PROVE  TypeOK'
  BY <1>5, <1>emp, <1>pcs, Zenon DEF write_head, erase, clear_head
<1>6. ASSUME NEW p \in Procs, install_trans(p)
      PROVE  TypeOK'
  BY <1>6, <1>ins, <1>pcs DEF install_trans
<1>7. ASSUME NEW p \in Procs, commit_done(p)
      PROVE  TypeOK'
  BY <1>7, <1>pcs, Zenon DEF commit_done, Woken, diskVars
<1>8. ASSUME NEW p \in Procs, Checked(p)
      PROVE  TypeOK'
  BY <1>8, <1>pcs, Zenon DEF Checked, Pass, diskVars, memVars
<1>9. ASSUME NEW p \in Procs, log_write(p)
      PROVE  TypeOK'
  <2>0. blk[p] \in Blocks
    BY <1>9, Zenon DEF log_write, ControlInv, BufferPoints
  <2>1. lh' \in Seq(Blocks)
    BY <1>9, <2>0 DEF log_write, Logged
  <2> QED
    BY <1>9, <2>0, <2>1, <1>pcs, Zenon DEF log_write, diskVars
<1>10. ASSUME NEW p \in Procs, NEW b \in Blocks, NEW v \in Values,
              modify(p, b, v)
       PROVE  TypeOK'
  BY <1>10, <1>pcs, Zenon DEF modify, diskVars
<1>11. CASE Crash
  <2>1. /\ disk' \in [Blocks -> Values]
        /\ dlog' \in [1..(NLOG - 1) -> Values]
        /\ dhead' \in Seq(Blocks)
    BY <1>11, Zenon DEF Crash, diskVars
  <2>2. /\ cache' \in [Blocks -> Values \cup {None}]
        /\ pc' \in [Procs -> PCs]
        /\ blk' \in [Procs -> Blocks \cup {None}]
        /\ wrote' \in [Procs -> SUBSET Blocks]
    BY <1>11, <1>pcs, Zenon DEF Crash
  <2>3. /\ outstanding' \in Nat
        /\ tail' \in Nat \ {0}
        /\ boot' \in {"read_head", "install_trans", "erase", "up"}
    BY <1>11 DEF Crash
  <2>4. /\ lh' \in Seq(Blocks)
        /\ dirty' \subseteq Blocks
        /\ committing' \in BOOLEAN
    BY <1>11, <1>emp, Zenon DEF Crash
  <2> QED
    BY <2>1, <2>2, <2>3, <2>4, Zenon
<1>12. CASE recover_from_log
  <2>1. CASE recover_read_head
    BY <2>1, Zenon DEF recover_read_head, diskVars, procVars
  <2>2. CASE recover_install
    BY <2>2, <1>ins DEF recover_install, procVars
  <2>3. CASE recover_erase
    BY <2>3, <1>emp, Zenon DEF recover_erase, clear_head, procVars
  <2> QED
    BY <1>12, <2>1, <2>2, <2>3, Zenon DEF recover_from_log
<1>13. CASE UNCHANGED vars
  BY <1>13, Zenon DEF vars
<1> QED
  BY <1>1, <1>2, <1>3, <1>4, <1>5, <1>6, <1>7, <1>8, <1>9, <1>10, <1>11,
     <1>12, <1>13, Zenon DEF Next, commit, log_write_check, end_op, Checked, Ended

-----------------------------------------------------------------------------
(* The index of a loop is inside the header and the log area. *)
LEMMA TailInRange ==
  ASSUME TypeOK, CountsHold, tail <= Len(lh)
  PROVE  /\ tail \in 1..Len(lh) /\ tail \in 1..(NLOG - 1)
         /\ lh[tail] \in Blocks /\ dlog[tail] \in Values
         /\ dlog[tail] # None
<1>1. Len(lh) \in Nat /\ Len(lh) <= Room
  BY LogAssumption DEF CountsHold, TypeOK
<1>2. tail \in 1..Len(lh) /\ tail \in 1..(NLOG - 1)
  BY <1>1, RoomFits DEF TypeOK
<1> QED
  BY <1>2, LogAssumption DEF TypeOK

(* Cache: what is not yet at home is in the log or locked, and stays cached. *)
LEMMA CacheStep ==
  ASSUME IInv, CountsHold, [Next]_vars
  PROVE  CacheInv'
<1> USE DEF IInv, LogInv
<1>0. /\ \A b \in Blocks :
           Contents(b) # disk[b] => boot = "up" /\ (InLog(b) \/ BufferLocked(b))
      /\ \A p \in Procs : blk[p] # None => cache[blk[p]] # None
      /\ \A b \in dirty : cache[b] # None
  BY Zenon DEF CacheInv
<1>t. /\ disk \in [Blocks -> Values]
      /\ cache \in [Blocks -> Values \cup {None}]
      /\ dirty \subseteq Blocks
      /\ blk \in [Procs -> Blocks \cup {None}]
      /\ None \notin Values /\ None \notin Blocks
  BY LogAssumption, Zenon DEF TypeOK
<1>1. ASSUME UNCHANGED <<disk, cache, dirty, lh, blk, boot>>
      PROVE  CacheInv'
  BY <1>0, <1>1, Zenon DEF CacheInv, Contents, InLog, BufferLocked
<1>2. ASSUME NEW p \in Procs, begin_op(p) \/ Ended(p) \/ Checked(p) \/
                              commit_done(p) \/ write_head(p)
      PROVE  CacheInv'
  BY <1>1, <1>2, Zenon DEF begin_op, Ended, Leave, Checked, Pass, commit_done, write_head,
     diskVars, memVars
<1>3. CASE UNCHANGED vars
  BY <1>1, <1>3, Zenon DEF vars
<1>4. ASSUME NEW b \in Blocks, bread(b)
      PROVE  CacheInv'
  <2>1. UNCHANGED <<disk, dirty, lh, blk, boot>>
    BY <1>4, Zenon DEF bread, diskVars, procVars
  <2>2. cache[b] = None /\ cache' = [cache EXCEPT ![b] = disk[b]]
    BY <1>4, Zenon DEF bread
  <2> QED
    BY <1>0, <1>t, <2>1, <2>2, Zenon DEF CacheInv, Contents, InLog, BufferLocked
<1>5. ASSUME NEW b \in Blocks, bget_recycle(b)
      PROVE  CacheInv'
  <2>1. UNCHANGED <<disk, dirty, lh, blk, boot>>
    BY <1>5, Zenon DEF bget_recycle, diskVars, procVars
  <2>2. /\ cache' = [cache EXCEPT ![b] = None]
        /\ b \notin dirty
        /\ \A q \in Procs : blk[q] # b
    BY <1>5, Zenon DEF bget_recycle, Recyclable, BufferLocked
  <2> QED
    BY <1>0, <1>t, <2>1, <2>2, Zenon DEF CacheInv, Contents, InLog, BufferLocked
<1>6. ASSUME NEW p \in Procs, NEW b \in Blocks, NEW v \in Values,
             modify(p, b, v)
      PROVE  CacheInv'
  <2>1. UNCHANGED <<disk, dirty, lh, boot>>
    BY <1>6, Zenon DEF modify, diskVars
  <2>2. /\ cache' = [cache EXCEPT ![b] = v]
        /\ blk' = [blk EXCEPT ![p] = b]
        /\ pc[p] = "op"
    BY <1>6, Zenon DEF modify
  <2>3. blk[p] = None /\ boot = "up"
    BY <2>2, Zenon DEF ControlInv, BufferPoints
  <2> QED
    BY <1>0, <1>t, <2>1, <2>2, <2>3 DEF CacheInv, Contents, InLog, BufferLocked
<1>7. ASSUME NEW p \in Procs, log_write(p)
      PROVE  CacheInv'
  <2>1. UNCHANGED <<disk, cache, boot>>
    BY <1>7, Zenon DEF log_write, diskVars
  <2>2. /\ blk[p] \in Blocks /\ blk[p] # None
        /\ blk' = [blk EXCEPT ![p] = None]
        /\ dirty' = dirty \cup {blk[p]}
        /\ lh' = Logged(lh, blk[p])
    BY <1>7, <1>t, Zenon DEF log_write, ControlInv, BufferPoints
  <2>3. \A b \in Blocks :
          (\E i \in 1..Len(Logged(lh, blk[p])) : Logged(lh, blk[p])[i] = b)
            <=> (\E i \in 1..Len(lh) : lh[i] = b) \/ b = blk[p]
    BY <2>2, LoggedEntries, ZenonT(30) DEF TypeOK
  <2>4. \A b \in Blocks : InLog(b)' <=> InLog(b) \/ b = blk[p]
    BY <2>2, <2>3, Zenon DEF InLog
  <2>5. \A b \in Blocks : BufferLocked(b) => BufferLocked(b)' \/ b = blk[p]
    BY <1>t, <2>2, Zenon DEF BufferLocked
  <2> QED
    BY <1>0, <1>t, <2>1, <2>2, <2>4, <2>5, Zenon DEF CacheInv, Contents
<1>8. ASSUME NEW p \in Procs, write_log(p)
      PROVE  CacheInv'
  <2>1. UNCHANGED <<disk, dirty, lh, blk, boot>>
    BY <1>8, Zenon DEF write_log
  <2>2. CASE cache' = cache
    BY <1>1, <2>1, <2>2, Zenon
  <2>3. CASE /\ tail <= Len(lh)
             /\ cache' = [cache EXCEPT ![lh[tail]] = Contents(lh[tail])]
    <3>1. lh[tail] \in Blocks
      BY <2>3, TailInRange, Zenon
    <3> QED
      BY <1>0, <1>t, <2>1, <2>3, <3>1 DEF CacheInv, Contents, InLog,
         BufferLocked
  <2> QED
    BY <1>8, <2>2, <2>3, Zenon DEF write_log
<1>9. ASSUME install_block, UNCHANGED <<lh, blk, boot>>
      PROVE  CacheInv'
  <2>1. lh[tail] \in Blocks /\ dlog[tail] \in Values
    BY <1>9, TailInRange, Zenon DEF install_block
  <2> QED
    BY <1>0, <1>t, <1>9, <2>1, Zenon DEF install_block, CacheInv, Contents, InLog,
       BufferLocked
<1>10. ASSUME NEW p \in Procs, install_trans(p)
       PROVE  CacheInv'
  BY <1>1, <1>9, <1>10, Zenon DEF install_trans
<1>11. ASSUME \A b \in Blocks : Contents(b) = disk[b],
              UNCHANGED <<disk, cache, dirty, blk>>
       PROVE  CacheInv'
  BY <1>0, <1>11, Zenon DEF CacheInv, Contents
<1>12. ASSUME NEW p \in Procs, erase(p)
       PROVE  CacheInv'
  <2>1. pc[p] = "erase" /\ UNCHANGED <<disk, cache, dirty, blk>>
    BY <1>12, Zenon DEF erase
  <2>2. \A i \in 1..Len(lh) : Contents(lh[i]) = disk[lh[i]]
    <3>1. Home /\ Copies /\ Installed
      BY <2>1, Zenon DEF StageInv, Installed
    <3>2. \A i \in 1..Len(lh) : disk[lh[i]] = dlog[i]
      BY <3>1, Zenon DEF Home
    <3>3. \A i \in 1..Len(lh) : dlog[i] = Contents(lh[i])
      BY <2>1, <3>1, Zenon DEF Copies
    <3> QED
      BY <3>2, <3>3, Zenon
  <2>3. \A q \in Procs : blk[q] = None
    BY <2>1, Zenon DEF ControlInv, CommitPoints, InOp, OpPoints
  <2>4. \A b \in Blocks : Contents(b) = disk[b]
    BY <1>0, <1>t, <2>2, <2>3 DEF InLog, BufferLocked
  <2> QED
    BY <1>11, <2>1, <2>4, Zenon
<1>13. CASE recover_from_log
  <2>0. boot # "up"
    BY <1>13, Zenon DEF recover_from_log, recover_read_head, recover_install,
       recover_erase
  <2>1. \A b \in Blocks : Contents(b) = disk[b]
    BY <1>0, <2>0, Zenon
  <2>2. CASE recover_read_head \/ recover_erase
    BY <1>11, <2>1, <2>2, Zenon DEF recover_read_head, recover_erase, diskVars, procVars
  <2>3. CASE recover_install
    <3>1. CASE install_block
      <4>1. lh[tail] \in Blocks /\ dlog[tail] \in Values
        BY <3>1, TailInRange, Zenon DEF install_block
      <4>2. \A b \in Blocks : Contents(b)' = disk'[b]
        BY <1>t, <2>1, <3>1, <4>1, Zenon DEF install_block, Contents
      <4>3. blk' = blk
        BY <2>3, Zenon DEF recover_install, procVars
      <4> QED
        BY <1>0, <1>t, <3>1, <4>1, <4>2, <4>3, Zenon DEF install_block, CacheInv
    <3>2. CASE UNCHANGED <<disk, cache, dirty, blk>>
      BY <1>11, <2>1, <3>2, Zenon
    <3> QED
      BY <2>3, <3>1, <3>2, Zenon DEF recover_install, procVars
  <2> QED
    BY <1>13, <2>2, <2>3, Zenon DEF recover_from_log
<1>14. CASE Crash
  BY <1>14, <1>t, Zenon DEF Crash, CacheInv, Contents, diskVars
<1> QED
  BY <1>2, <1>3, <1>4, <1>5, <1>6, <1>7, <1>8, <1>10, <1>12, <1>13, <1>14, Zenon
     DEF Next, commit, log_write_check, end_op, Checked, Ended

(* bget never recycles the only copy of a block: what it drops is at home.  *)
LEMMA RecycledIsHome ==
  ASSUME IInv, NEW b \in Blocks, bget_recycle(b)
  PROVE  Contents(b) = disk[b]
<1> USE DEF IInv, LogInv
<1>1. b \notin dirty /\ ~BufferLocked(b)
  BY Zenon DEF bget_recycle, Recyclable
<1>2. SUFFICES ASSUME InLog(b), boot = "up"
               PROVE  Contents(b) = disk[b]
  BY <1>1, Zenon DEF CacheInv
<1>3. PICK i \in 1..Len(lh) : lh[i] = b
  BY <1>2, Zenon DEF InLog
<1>4. Len(lh) \in Nat /\ tail \in Nat
  BY DEF TypeOK
<1>s. Running /\ Home /\ Copies
  BY Zenon DEF StageInv
<1>5. CASE Installed
  <2>1. PICK p \in Procs : pc[p] = "erase"
    BY <1>2, <1>5, Zenon DEF Installed
  <2>2. disk[lh[i]] = dlog[i] /\ dlog[i] = Contents(lh[i])
    BY <1>s, <1>3, <1>5, <2>1, Zenon DEF Home, Copies
  <2> QED
    BY <1>3, <2>2, Zenon
<1>6. CASE Installing
  <2>1. PICK p \in Procs : pc[p] = "install_trans"
    BY <1>2, <1>6, Zenon DEF Installing
  <2>2. Pinned(tail) /\ dlog[i] = Contents(lh[i])
    BY <1>s, <1>3, <2>1, Zenon DEF Copies
  <2>3. i < tail
    BY <1>1, <1>3, <1>4, <2>2 DEF Pinned
  <2>4. disk[lh[i]] = dlog[i]
    BY <1>s, <1>3, <1>6, <2>3, Zenon DEF Home
  <2> QED
    BY <1>3, <2>2, <2>4, Zenon
<1>7. CASE ~Installing /\ ~Installed
  <2>1. Pinned(1)
    BY <1>s, <1>2, <1>7, Zenon DEF Running
  <2> QED
    BY <1>1, <1>3, <1>4, <2>1 DEF Pinned
<1> QED
  BY <1>5, <1>6, <1>7, Zenon

-----------------------------------------------------------------------------
(* Stages: write_log fills the log area, write_head commits, install_trans  *)
(* copies the blocks home, the second write_head erases the transaction.    *)
LEMMA StageStep ==
  ASSUME IInv, CountsHold, [Next]_vars
  PROVE  StageInv'
<1> USE DEF IInv, LogInv
<1>s. Distinct /\ Committed /\ Running /\ Clean /\ Home /\ Copies /\ Quiet
  BY Zenon DEF StageInv
<1>s1. StageInv' <=> Distinct' /\ Committed' /\ Running' /\ Clean' /\ Home'
                       /\ Copies' /\ Quiet'
  BY Zenon DEF StageInv
<1>t. /\ disk \in [Blocks -> Values]
      /\ cache \in [Blocks -> Values \cup {None}]
      /\ lh \in Seq(Blocks) /\ dhead \in Seq(Blocks)
      /\ dlog \in [1..(NLOG - 1) -> Values]
      /\ Len(lh) \in Nat /\ tail \in Nat \ {0}
      /\ pc \in [Procs -> PCs]
      /\ None \notin Values /\ None \notin Blocks
  BY LogAssumption DEF TypeOK
<1>c. \A p \in Procs : pc[p] \in CommitPoints =>
         /\ boot = "up"
         /\ \A q \in Procs : ~InOp(q) /\ (q # p => pc[q] \notin CommitPoints)
  BY Zenon DEF ControlInv, CommitPoints
<1>o. \A p \in Procs : InOp(p) =>
         /\ boot = "up" /\ ~Installing /\ ~Installed /\ ~Writing
         /\ \A q \in Procs : pc[q] \notin CommitPoints
  BY <1>c, Zenon DEF Installing, Installed, ControlInv, CommitPoints, InOp, OpPoints,
     BufferPoints, Writing

<1>1. ASSUME UNCHANGED <<disk, dlog, dhead, dirty, lh, tail, boot>>,
             \A q \in Procs : pc'[q] \in CommitPoints \/ pc[q] \in CommitPoints
                                => pc'[q] = pc[q],
             (\E q \in Procs : pc[q] \in CommitPoints) =>
                \A b \in Blocks : Contents(b)' = Contents(b),
             boot = "up" /\ outstanding' = 0 /\ ~committing' => lh = <<>>
      PROVE  StageInv'
  <2>1. /\ Installing' <=> Installing
        /\ Installed' <=> Installed
        /\ Writing' <=> Writing
        /\ \A k : Pinned(k)' <=> Pinned(k)
    BY <1>1, Zenon DEF Installing, Installed, Pinned, CommitPoints, Writing
  <2>2. Distinct' /\ Committed' /\ Running' /\ Clean' /\ Home'
    <3>1. Distinct'
      BY <1>s, <1>1, <2>1 DEF Distinct, NoDuplicates
    <3>2. Committed'
      BY <1>s, <1>1, <2>1, Zenon DEF Committed
    <3>3. Running'
      BY <1>s, <1>1, <2>1, Zenon DEF Running
    <3>4. Clean'
      BY <1>s, <1>1, <2>1, Zenon DEF Clean
    <3>5. Home'
      BY <1>s, <1>1, <2>1, Zenon DEF Home
    <3> QED
      BY <3>1, <3>2, <3>3, <3>4, <3>5, Zenon
  <2>3. Copies'
    <3> SUFFICES ASSUME NEW p \in Procs, pc'[p] \in CommitPoints
                 PROVE  Copies!(p)'
      BY Zenon DEF CommitPoints, Copies
    <3>1. pc'[p] = pc[p] /\ \A b \in Blocks : Contents(b)' = Contents(b)
      BY <1>1, Zenon
    <3>2. \A i \in 1..Len(lh) : Contents(lh[i])' = Contents(lh[i])
      BY <1>t, <1>1, <3>1
    <3> QED
      BY <1>s, <1>1, <2>1, <3>1, <3>2, Zenon DEF Copies
  <2>4. Quiet'
    BY <1>s, <1>1, Zenon DEF Quiet
  <2> QED
    BY <1>s1, <2>2, <2>3, <2>4, Zenon
<1>2. CASE UNCHANGED vars
  BY <1>1, <1>2, <1>s, Zenon DEF vars, Contents, Quiet
<1>3. ASSUME NEW b \in Blocks, bread(b)
      PROVE  StageInv'
  BY <1>1, <1>3, <1>s, <1>t, Zenon DEF bread, Contents, diskVars, procVars, Quiet
<1>4. ASSUME NEW b \in Blocks, bget_recycle(b)
      PROVE  StageInv'
  <2>2. Contents(b) = disk[b]
    BY <1>4, RecycledIsHome, Zenon
  <2>3. \A a \in Blocks : Contents(a)' = Contents(a)
    BY <1>4, <1>t, <2>2, Zenon DEF bget_recycle, Contents, diskVars
  <2> QED
    BY <1>1, <1>4, <1>s, <2>3, Zenon DEF bget_recycle, diskVars, procVars, Quiet
<1>5. ASSUME NEW p \in Procs, begin_op(p) \/ Checked(p)
      PROVE  StageInv'
  <2>1. \A b \in Blocks : Contents(b)' = Contents(b)
    BY <1>5, Zenon DEF begin_op, Checked, Pass, Contents, diskVars, memVars
  <2>2. UNCHANGED <<disk, dlog, dhead, dirty, lh, tail, boot, committing>>
    BY <1>5, Zenon DEF begin_op, Checked, Pass, diskVars, memVars
  <2>3. outstanding' = 0 => outstanding = 0
    BY <1>5 DEF begin_op, Checked, Pass, memVars, TypeOK
  <2>4. \A q \in Procs : pc'[q] \in CommitPoints \/ pc[q] \in CommitPoints
                           => pc'[q] = pc[q]
    BY <1>5, <1>t, Zenon DEF begin_op, Checked, Pass, CommitPoints
  <2> QED
    BY <1>1, <1>s, <2>1, <2>2, <2>3, <2>4, Zenon DEF Quiet
<1>6. ASSUME NEW p \in Procs, NEW b \in Blocks, NEW v \in Values,
             modify(p, b, v)
      PROVE  StageInv'
  <2>1. InOp(p) /\ UNCHANGED <<disk, dlog, dhead, dirty, lh, tail, boot,
                               outstanding, committing>>
    BY <1>6, Zenon DEF modify, InOp, OpPoints, diskVars
  <2>2. \A q \in Procs : pc[q] \notin CommitPoints /\ pc'[q] \notin CommitPoints
    BY <1>o, <1>t, <1>6, <2>1, Zenon DEF modify, CommitPoints
  <2> QED
    BY <1>1, <1>s, <2>1, <2>2, Zenon DEF Quiet
<1>7. ASSUME NEW p \in Procs, log_write(p)
      PROVE  StageInv'
  <2> DEFINE c == blk[p]
  <2>1. /\ InOp(p)
        /\ UNCHANGED <<disk, dlog, dhead, cache, tail, boot, outstanding,
                       committing>>
        /\ lh' = Logged(lh, c) /\ dirty' = dirty \cup {c}
    BY <1>7, Zenon DEF log_write, InOp, OpPoints, BufferPoints, diskVars
  <2>2. c \in Blocks
    BY <1>7, Zenon DEF log_write, ControlInv, BufferPoints, TypeOK
  <2>3. \A q \in Procs : pc[q] \notin CommitPoints /\ pc'[q] \notin CommitPoints
    BY <1>o, <1>t, <1>7, <2>1, Zenon DEF log_write, CommitPoints
  <2>4. /\ boot = "up" /\ ~Installing /\ ~Installed /\ ~Writing
        /\ ~Installing' /\ ~Installed' /\ ~Writing'
    BY <1>o, <2>1, <2>3, ZenonT(30) DEF Installing, Installed, CommitPoints, Writing
  <2>5. /\ NoDuplicates(Logged(lh, c))
        /\ \A b \in Blocks : (\E i \in 1..Len(Logged(lh, c)) : Logged(lh, c)[i] = b)
                                <=> (\E i \in 1..Len(lh) : lh[i] = b) \/ b = c
        /\ Logged(lh, c) \in Seq(Blocks)
    <3>1. NoDuplicates(lh) /\ lh \in Seq(Blocks)
      BY <1>s, <1>t, Zenon DEF Distinct
    <3> QED
      BY <2>2, <3>1, LoggedEntries, Zenon
  <2>6. Distinct'
    <3>1. NoDuplicates(lh') /\ NoDuplicates(dhead')
      BY <1>s, <2>1, <2>5, Zenon DEF Distinct
    <3> QED
      BY <3>1, Zenon DEF NoDuplicates, Distinct
  <2>7. Pinned(1)'
    <3>1. \A i \in 1..Len(lh') : lh'[i] \in dirty'
      <4> SUFFICES ASSUME NEW i \in 1..Len(Logged(lh, c))
                   PROVE  Logged(lh, c)[i] \in dirty \cup {c}
        BY <2>1, Zenon
      <4>1. Logged(lh, c)[i] \in Blocks
        BY <2>5
      <4>2. \/ \E j \in 1..Len(lh) : lh[j] = Logged(lh, c)[i]
            \/ Logged(lh, c)[i] = c
        BY <2>5, <4>1, Zenon
      <4>3. Pinned(1)
        BY <1>s, <2>4, Zenon DEF Running
      <4>4. ASSUME NEW j \in 1..Len(lh), lh[j] = Logged(lh, c)[i]
            PROVE  Logged(lh, c)[i] \in dirty
        BY <1>t, <4>3, <4>4 DEF Pinned
      <4> QED
        BY <4>2, <4>4, Zenon
    <3>2. ASSUME NEW b \in dirty \cup {c}
          PROVE  \E i \in 1..Len(Logged(lh, c)) : Logged(lh, c)[i] = b
      <4>1. b \in Blocks /\ ((\E i \in 1..Len(lh) : lh[i] = b) \/ b = c)
        BY <1>s, <2>2, <2>4, <3>2, Zenon DEF Pinned, TypeOK, Running
      <4> QED
        BY <2>5, <4>1, Zenon
    <3>3. \A b \in dirty' : \E i \in 1..Len(lh') : lh'[i] = b
      BY <2>1, <3>2, Zenon
    <3>4. \A i \in 1..Len(lh') : i >= 1
      <4>1. \A s \in Seq(Blocks) : \A i \in 1..Len(s) : i >= 1
        OBVIOUS
      <4>2. lh' \in Seq(Blocks)
        BY <2>1, <2>5, Zenon
      <4> QED
        BY <4>1, <4>2, Zenon
    <3> QED
      BY <3>1, <3>3, <3>4, Zenon DEF Pinned
  <2>8. Committed' /\ Running' /\ Clean' /\ Home'
    <3>1. Committed'
      BY <1>s, <2>1, <2>4, <2>7, Zenon DEF Committed
    <3>2. Running'
      BY <1>s, <2>1, <2>4, <2>7, Zenon DEF Running
    <3>3. Clean'
      BY <1>s, <2>1, <2>4, <2>7, Zenon DEF Clean
    <3>4. Home'
      BY <1>s, <2>1, <2>4, <2>7, Zenon DEF Home
    <3> QED
      BY <3>1, <3>2, <3>3, <3>4, Zenon
  <2>9. Copies'
    BY <2>3, Zenon DEF CommitPoints, Copies
  <2>10. Quiet'
    BY <2>1, <2>4, Zenon DEF TypeOK, Quiet, CountsHold
  <2> QED
    BY <1>s1, <2>6, <2>8, <2>9, <2>10, Zenon
<1>8. ASSUME NEW p \in Procs, Ended(p)
      PROVE  StageInv'
  <2>1. /\ InOp(p)
        /\ UNCHANGED <<disk, dlog, dhead, cache, dirty, lh, tail, boot>>
    BY <1>8, Zenon DEF Ended, Leave, InOp, OpPoints, diskVars
  <2>2. /\ boot = "up" /\ ~Installing /\ ~Installed /\ ~Writing
        /\ \A q \in Procs : pc[q] \notin CommitPoints
    BY <1>o, <2>1, Zenon DEF Writing
  <2>3. \A q \in Procs :
          /\ pc'[q] \notin {"write_head", "install_trans", "erase"}
          /\ pc'[q] = "committed" => Len(lh) = 0
    BY <1>8, <1>t, <2>2, SMTT(30) DEF Ended, Leave, Woken, FirstCommitPoint, CommitPoints
  <2>4. ~Installing' /\ ~Installed'
    BY <2>1, <2>2, <2>3, Zenon DEF Installing, Installed
  <2>5. tail = 1 /\ \A k : Pinned(k)' <=> Pinned(k)
    BY <1>s, <2>1, <2>2, Zenon DEF Pinned, Home
  <2>6. Distinct' /\ Committed' /\ Running' /\ Clean' /\ Home'
    <3>1. Distinct'
      BY <1>s, <2>1, <2>2, <2>4, <2>5, Zenon DEF Distinct, NoDuplicates
    <3>2. Committed'
      BY <1>s, <2>1, <2>2, <2>4, <2>5, Zenon DEF Committed
    <3>3. Running'
      BY <1>s, <2>1, <2>2, <2>4, <2>5, Zenon DEF Running
    <3>4. Clean'
      BY <1>s, <2>1, <2>2, <2>4, <2>5, Zenon DEF Clean
    <3>5. Home'
      BY <1>s, <2>1, <2>2, <2>4, <2>5, Zenon DEF Home
    <3> QED
      BY <3>1, <3>2, <3>3, <3>4, <3>5, Zenon
  <2>7. Len(lh) = 0 => lh = <<>>
    BY <1>t
  <2>8. Copies'
    BY <1>t, <2>1, <2>3, <2>5, <2>7 DEF Copies
  <2>9. outstanding' = 0 => committing'
    BY <1>8, Zenon DEF Ended, Leave
  <2>10. Quiet'
    BY <2>1, <2>2, <2>9, Zenon DEF Quiet
  <2> QED
    BY <1>s1, <2>6, <2>8, <2>10, Zenon
<1>9. ASSUME NEW p \in Procs, commit_done(p)
      PROVE  StageInv'
  <2>1. /\ pc[p] = "committed" /\ pc[p] \in CommitPoints
        /\ UNCHANGED <<disk, dlog, dhead, cache, dirty, lh, tail, boot>>
    BY <1>9, Zenon DEF commit_done, CommitPoints, diskVars
  <2>2. boot = "up" /\ lh = <<>>
    BY <1>c, <1>s, <2>1, Zenon DEF Copies
  <2>3. \A q \in Procs : pc'[q] \notin CommitPoints
    BY <1>9, <1>c, <1>t, <2>1, Zenon DEF commit_done, Woken, CommitPoints
  <2>4. \A q \in Procs : q # p => pc[q] \notin CommitPoints
    BY <1>c, <2>1, Zenon
  <2>5. /\ ~Installing /\ ~Installed /\ ~Writing
        /\ ~Installing' /\ ~Installed'
    BY <2>1, <2>2, <2>3, <2>4, Zenon DEF Installing, Installed, CommitPoints, Writing
  <2>6. \A k : Pinned(k)' <=> Pinned(k)
    BY <2>1, Zenon DEF Pinned
  <2>7. Distinct' /\ Committed' /\ Running' /\ Clean' /\ Home'
    <3>1. Distinct'
      BY <1>s, <2>1, <2>5, <2>6, Zenon DEF Distinct, NoDuplicates
    <3>2. Committed'
      BY <1>s, <2>1, <2>5, <2>6, Zenon DEF Committed
    <3>3. Running'
      BY <1>s, <2>1, <2>5, <2>6, Zenon DEF Running
    <3>4. Clean'
      BY <1>s, <2>1, <2>5, <2>6, Zenon DEF Clean
    <3>5. Home'
      BY <1>s, <2>1, <2>5, <2>6, Zenon DEF Home
    <3> QED
      BY <3>1, <3>2, <3>3, <3>4, <3>5, Zenon
  <2>8. Copies'
    BY <2>3, Zenon DEF CommitPoints, Copies
  <2>9. Quiet'
    BY <2>1, <2>2, Zenon DEF Quiet
  <2> QED
    BY <1>s1, <2>7, <2>8, <2>9, Zenon
<1>10. ASSUME NEW p \in Procs, write_log(p)
       PROVE  StageInv'
  <2>1. /\ pc[p] = "write_log" /\ pc[p] \in CommitPoints
        /\ UNCHANGED <<disk, dhead, dirty, lh, boot, outstanding, committing>>
    BY <1>10, Zenon DEF write_log, CommitPoints
  <2>2. /\ boot = "up"
        /\ \A q \in Procs : q # p => pc[q] \notin CommitPoints
        /\ \A q \in Procs : q # p => pc'[q] = pc[q]
        /\ pc'[p] \in {"write_log", "write_head"}
    BY <1>10, <1>c, <1>t, <2>1, Zenon DEF write_log
  <2>3. ~Installing /\ ~Installed /\ ~Installing' /\ ~Installed'
    BY <2>1, <2>2, Zenon DEF Installing, Installed, CommitPoints
  <2>4. \A k : Pinned(k)' <=> Pinned(k)
    BY <2>1, Zenon DEF Pinned
  <2>5. Distinct' /\ Committed' /\ Running' /\ Clean' /\ Quiet'
    <3>1. Distinct'
      BY <1>s, <2>1, <2>3, <2>4, Zenon DEF Distinct, NoDuplicates
    <3>2. Committed'
      BY <1>s, <2>1, <2>3, <2>4, Zenon DEF Committed
    <3>3. Running'
      BY <1>s, <2>1, <2>3, <2>4, Zenon DEF Running
    <3>4. Clean'
      BY <1>s, <2>1, <2>3, <2>4, Zenon DEF Clean
    <3>5. Quiet'
      BY <1>s, <2>1, <2>3, <2>4, Zenon DEF Quiet
    <3> QED
      BY <3>1, <3>2, <3>3, <3>4, <3>5, Zenon
  <2>6. \A q \in Procs : q # p => pc'[q] \notin CommitPoints
    BY <2>2, Zenon
  <2>7. CASE tail <= Len(lh)
    <3>0. tail \in 1..Len(lh) /\ tail \in 1..(NLOG - 1) /\ lh[tail] \in Blocks
      BY <2>7, TailInRange, Zenon
    <3>1. /\ dlog' = [dlog EXCEPT ![tail] = Contents(lh[tail])]
          /\ cache' = [cache EXCEPT ![lh[tail]] = Contents(lh[tail])]
          /\ tail' = tail + 1 /\ pc' = pc
      BY <1>10, <1>t, <2>7, SMTT(30) DEF write_log
    <3>2. \A b \in Blocks : Contents(b)' = Contents(b)
      BY <1>t, <2>1, <3>0, <3>1, Zenon DEF Contents
    <3>3. Writing'
      BY <2>1, <3>1, Zenon DEF Writing
    <3>4. Home'
      BY <2>3, <3>3, Zenon DEF Home
    <3>5. \A i \in 1..Len(lh) : i < tail + 1 => dlog'[i] = Contents(lh[i])
      BY <1>s, <1>t, <2>1, <3>0, <3>1, SMTT(30) DEF Copies
    <3>6. \A i \in 1..Len(lh) : Contents(lh[i])' = Contents(lh[i])
      BY <1>t, <2>1, <3>2
    <3>7. Copies'
      BY <2>1, <2>6, <3>1, <3>5, <3>6, Zenon DEF CommitPoints, Copies
    <3> QED
      BY <1>s1, <2>5, <3>4, <3>7, Zenon
  <2>8. CASE tail > Len(lh)
    <3>1. /\ tail' = 1 /\ UNCHANGED <<cache, dlog>>
          /\ pc'[p] = "write_head"
      BY <1>10, <1>t, <2>8 DEF write_log
    <3>2. Home'
      BY <2>3, <3>1, Zenon DEF Home
    <3>3. \A b \in Blocks : Contents(b)' = Contents(b)
      BY <2>1, <3>1, Zenon DEF Contents
    <3>4. \A i \in 1..Len(lh) : dlog[i] = Contents(lh[i]) /\ lh[i] \in Blocks
      BY <1>s, <1>t, <2>1, <2>8, SMTT(30) DEF Copies
    <3>5. Copies'
      BY <2>1, <2>6, <3>1, <3>3, <3>4, Zenon DEF CommitPoints, Copies
    <3> QED
      BY <1>s1, <2>5, <3>2, <3>5, Zenon
  <2> QED
    BY <1>t, <2>7, <2>8
<1>11. ASSUME NEW p \in Procs, write_head(p)
       PROVE  StageInv'
  <2>1. /\ pc[p] = "write_head" /\ pc[p] \in CommitPoints
        /\ UNCHANGED <<disk, dlog, cache, dirty, lh, tail, boot, outstanding,
                       committing>>
        /\ dhead' = lh /\ pc' = [pc EXCEPT ![p] = "install_trans"]
    BY <1>11, Zenon DEF write_head, CommitPoints
  <2>2. /\ boot = "up" /\ pc'[p] = "install_trans"
        /\ \A q \in Procs : q # p => /\ pc[q] \notin CommitPoints
                                      /\ pc'[q] \notin CommitPoints
    BY <1>c, <1>t, <2>1, Zenon
  <2>3. /\ ~Installing /\ ~Installed /\ ~Writing
        /\ Installing' /\ ~Installed'
    BY <2>1, <2>2, Zenon DEF Installing, Installed, CommitPoints, Writing
  <2>4. tail = 1 /\ Pinned(1) /\ Pinned(tail)'
    BY <1>s, <2>1, <2>2, <2>3, Zenon DEF Pinned, Home, Running
  <2>5. Distinct' /\ Committed' /\ Running' /\ Clean' /\ Home' /\ Quiet'
    <3>1. Distinct'
      BY <1>s, <1>t, <2>1, <2>2, <2>3, <2>4, Zenon DEF Distinct, NoDuplicates
    <3>2. Committed'
      BY <1>s, <1>t, <2>1, <2>2, <2>3, <2>4, Zenon DEF Committed
    <3>3. Running'
      BY <1>s, <1>t, <2>1, <2>2, <2>3, <2>4, Zenon DEF Running
    <3>4. Clean'
      BY <1>s, <1>t, <2>1, <2>2, <2>3, <2>4, Zenon DEF Clean
    <3>5. Home'
      <4>1. \A i \in 1..Len(lh') : ~ i < tail'
        BY <1>t, <2>1, <2>4, SMTT(30)
      <4> QED
        BY <2>3, <4>1, Zenon DEF Home
    <3>6. Quiet'
      BY <1>s, <1>t, <2>1, <2>2, <2>3, <2>4, Zenon DEF Quiet
    <3> QED
      BY <3>1, <3>2, <3>3, <3>4, <3>5, <3>6, Zenon
  <2>6. \A b \in Blocks : Contents(b)' = Contents(b)
    BY <2>1, Zenon DEF Contents
  <2>7. \A i \in 1..Len(lh) : dlog[i] = Contents(lh[i]) /\ lh[i] \in Blocks
    BY <1>s, <1>t, <2>1 DEF Copies
  <2>8. Copies'
    BY <2>1, <2>2, <2>4, <2>6, <2>7, Zenon DEF CommitPoints, Copies
  <2> QED
    BY <1>s1, <2>5, <2>8, Zenon
<1>12. ASSUME install_block, dhead' = dhead, UNCHANGED <<dlog, lh>>,
              \A i \in 1..Len(lh) : i < tail => disk[lh[i]] = dlog[i]
       PROVE  /\ tail \in 1..Len(lh) /\ tail' = tail + 1
              /\ Distinct'
              /\ \A i \in 1..Len(lh) : i < tail' => disk'[lh[i]] = dlog[i]
              /\ \A i \in 1..Len(lh) :
                   dlog[i] = Contents(lh[i]) => dlog[i] = Contents(lh[i])'
              /\ Pinned(tail) => Pinned(tail)'
  <2>0. /\ tail \in 1..Len(lh) /\ lh[tail] \in Blocks
        /\ dlog[tail] \in Values /\ dlog[tail] # None
    BY <1>12, TailInRange, Zenon DEF install_block
  <2>1. /\ cache' = [cache EXCEPT ![lh[tail]] = dlog[tail]]
        /\ disk' = [disk EXCEPT ![lh[tail]] = dlog[tail]]
        /\ dirty' = dirty \ {lh[tail]}
        /\ tail' = tail + 1
    BY <1>12, Zenon DEF install_block
  <2>2. Distinct'
    BY <1>s, <1>12, ZenonT(30) DEF NoDuplicates, Distinct
  <2>3. \A i \in 1..Len(lh) : lh[i] \in Blocks /\ (i # tail => lh[i] # lh[tail])
    BY <1>s, <1>t, <2>0, SMTT(30) DEF NoDuplicates, Distinct
  <2>4. \A i \in 1..Len(lh) : i < tail' => disk'[lh[i]] = dlog[i]
    BY <1>t, <1>12, <2>0, <2>1, <2>3, SMTT(30)
  <2>5. \A i \in 1..Len(lh) :
          dlog[i] = Contents(lh[i]) => dlog[i] = Contents(lh[i])'
    <3> SUFFICES ASSUME NEW i \in 1..Len(lh), dlog[i] = Contents(lh[i])
                 PROVE  dlog[i] = Contents(lh[i])'
      BY Zenon
    <3>1. CASE i = tail
      BY <1>t, <1>12, <2>0, <2>1, <3>1, Zenon DEF Contents
    <3>2. CASE i # tail
      BY <1>t, <1>12, <2>0, <2>1, <2>3, <3>2, Zenon DEF Contents
    <3> QED
      BY <3>1, <3>2, Zenon
  <2>6. Pinned(tail) => Pinned(tail)'
    BY <1>t, <1>12, <2>0, <2>1, <2>3 DEF Pinned
  <2> QED
    BY <2>0, <2>1, <2>2, <2>4, <2>5, <2>6, Zenon
<1>13. ASSUME NEW p \in Procs, install_trans(p)
       PROVE  StageInv'
  <2>1. /\ pc[p] = "install_trans" /\ pc[p] \in CommitPoints
        /\ UNCHANGED <<dlog, dhead, lh, boot, outstanding, committing>>
    BY <1>13, Zenon DEF install_trans, CommitPoints
  <2>2. /\ boot = "up" /\ committing
        /\ \A q \in Procs : q # p => pc[q] \notin CommitPoints
    BY <1>c, <2>1, Zenon DEF ControlInv
  <2>3. /\ Installing /\ dhead = lh /\ Pinned(tail)
        /\ \A i \in 1..Len(lh) : i < tail => disk[lh[i]] = dlog[i]
        /\ \A i \in 1..Len(lh) : dlog[i] = Contents(lh[i]) /\ lh[i] \in Blocks
    BY <1>s, <1>t, <2>1, SMTT(30) DEF Installing, Committed, Home, Copies
  <2>4. Committed' /\ Quiet'
    BY <2>1, <2>2, <2>3, Zenon DEF Committed, Quiet
  <2>5. CASE install_block /\ pc' = pc
    <3>1. Installing' /\ ~Installed'
      BY <2>1, <2>2, <2>5, Zenon DEF Installing, Installed, CommitPoints
    <3>2. /\ Distinct'
          /\ \A i \in 1..Len(lh) : i < tail' => disk'[lh[i]] = dlog[i]
          /\ \A i \in 1..Len(lh) : dlog[i] = Contents(lh[i])'
          /\ Pinned(tail)'
      BY <1>12, <2>1, <2>3, <2>5, Zenon DEF Distinct
    <3>3. Running' /\ Clean' /\ Home'
      <4>1. Running'
        BY <2>1, <2>2, <3>1, <3>2, ZenonT(30) DEF Running
      <4>2. Clean'
        BY <2>1, <2>2, <3>1, <3>2, Zenon DEF Clean
      <4>3. Home'
        BY <2>1, <2>2, <3>1, <3>2, Zenon DEF Home
      <4> QED
        BY <4>1, <4>2, <4>3, Zenon
    <3>4. Copies'
      BY <2>1, <2>2, <2>5, <3>2, Zenon DEF CommitPoints, Copies
    <3> QED
      BY <1>s1, <2>4, <3>2, <3>3, <3>4, Zenon
  <2>6. CASE /\ tail > Len(lh) /\ tail' = 1
             /\ pc' = [pc EXCEPT ![p] = "erase"]
             /\ UNCHANGED <<cache, disk, dirty>>
    <3>1. /\ pc'[p] = "erase"
          /\ \A q \in Procs : q # p => pc'[q] \notin CommitPoints
      BY <1>t, <2>2, <2>6, Zenon
    <3>2. ~Installing' /\ Installed'
      BY <2>1, <2>2, <3>1, Zenon DEF Installing, Installed, CommitPoints
    <3>3. dirty = {}
      BY <1>t, <2>3, <2>6, SMTT(30) DEF Pinned
    <3>4. \A i \in 1..Len(lh) : disk[lh[i]] = dlog[i]
      BY <1>t, <2>3, <2>6
    <3>5. Distinct' /\ Running' /\ Clean' /\ Home'
      <4>1. Distinct'
        BY <1>s, <2>1, <2>2, <2>6, <3>2, <3>3, <3>4, Zenon DEF Distinct, NoDuplicates
      <4>2. Running'
        BY <1>s, <2>1, <2>2, <2>6, <3>2, <3>3, <3>4, Zenon DEF Running
      <4>3. Clean'
        BY <1>s, <2>1, <2>2, <2>6, <3>2, <3>3, <3>4, Zenon DEF Clean
      <4>4. Home'
        BY <1>s, <2>1, <2>2, <2>6, <3>2, <3>3, <3>4, Zenon DEF Home
      <4> QED
        BY <4>1, <4>2, <4>3, <4>4, Zenon
    <3>6. \A b \in Blocks : Contents(b)' = Contents(b)
      BY <2>6, Zenon DEF Contents
    <3>7. Copies'
      BY <2>1, <2>3, <3>1, <3>6, Zenon DEF CommitPoints, Copies
    <3> QED
      BY <1>s1, <2>4, <3>5, <3>7, Zenon
  <2> QED
    BY <1>13, <2>5, <2>6, Zenon DEF install_trans
<1>14. ASSUME lh' = <<>>, dhead' = <<>>, dirty = {}, dirty' = dirty,
              boot' = "up", tail' = 1,
              \A q \in Procs : pc'[q] \in CommitPoints => pc'[q] = "committed"
       PROVE  StageInv'
  <2>1. ~Installing' /\ ~Installed'
    BY <1>14, Zenon DEF Installing, Installed, CommitPoints
  <2>2. Len(lh') = 0 /\ Len(dhead') = 0
    BY <1>14, Zenon
  <2>3. Distinct' /\ Pinned(1)'
    BY <1>14, <2>2 DEF NoDuplicates, Pinned, Distinct
  <2>4. Committed' /\ Running' /\ Clean' /\ Home' /\ Quiet'
    <3>1. Committed'
      BY <1>14, <2>1, <2>3, Zenon DEF Committed
    <3>2. Running'
      BY <1>14, <2>1, <2>3, Zenon DEF Running
    <3>3. Clean'
      BY <1>14, <2>1, <2>3, Zenon DEF Clean
    <3>4. Home'
      BY <1>14, <2>1, <2>3, Zenon DEF Home
    <3>5. Quiet'
      BY <1>14, <2>1, <2>3, Zenon DEF Quiet
    <3> QED
      BY <3>1, <3>2, <3>3, <3>4, <3>5, Zenon
  <2>5. Copies'
    BY <1>14, Zenon DEF CommitPoints, Copies
  <2> QED
    BY <1>s1, <2>3, <2>4, <2>5, Zenon
<1>15. ASSUME NEW p \in Procs, erase(p)
       PROVE  StageInv'
  <2>1. pc[p] = "erase" /\ pc[p] \in CommitPoints
    BY <1>15, Zenon DEF erase, CommitPoints
  <2>2. /\ boot = "up" /\ Installed /\ ~Installing /\ ~Writing
        /\ \A q \in Procs : q # p => pc[q] \notin CommitPoints
    BY <1>c, <2>1, Zenon DEF Installing, Installed, CommitPoints, Writing
  <2>3. dirty = {} /\ tail = 1
    BY <1>s, <2>2, Zenon DEF Clean, Home
  <2>4. \A q \in Procs : pc'[q] \in CommitPoints => pc'[q] = "committed"
    BY <1>15, <1>t, <2>2, Zenon DEF erase
  <2> QED
    BY <1>14, <1>15, <2>2, <2>3, <2>4, Zenon DEF erase, clear_head
<1>16. CASE Crash
  <2>1. /\ lh' = <<>> /\ dhead' = dhead /\ dirty' = {} /\ tail' = 1
        /\ boot' = "read_head"
        /\ \A q \in Procs : pc'[q] = "idle"
    BY <1>16, Zenon DEF Crash, diskVars
  <2>2. ~Installing' /\ ~Installed'
    BY <2>1, Zenon DEF Installing, Installed
  <2>3. Len(lh') = 0
    BY <2>1, Zenon
  <2>4. Distinct'
    BY <1>s, <2>1, <2>3 DEF NoDuplicates, Distinct
  <2>5. Committed' /\ Running' /\ Clean' /\ Home' /\ Copies' /\ Quiet'
    <3>1. Committed'
      BY <2>1, <2>2, Zenon DEF Committed
    <3>2. Running'
      BY <2>1, <2>2, Zenon DEF Running
    <3>3. Clean'
      BY <2>1, <2>2, Zenon DEF Clean
    <3>4. Home'
      BY <2>1, <2>2, Zenon DEF Home
    <3>5. Copies'
      BY <2>1, <2>2, Zenon DEF Copies
    <3>6. Quiet'
      BY <2>1, <2>2, Zenon DEF Quiet
    <3> QED
      BY <3>1, <3>2, <3>3, <3>4, <3>5, <3>6, Zenon
  <2> QED
    BY <1>s1, <2>4, <2>5, Zenon
<1>17. CASE recover_from_log
  <2>1. /\ boot # "up" /\ dirty = {}
        /\ \A q \in Procs : pc[q] = "idle" /\ pc'[q] = "idle"
    BY <1>17, <1>s, Zenon DEF recover_from_log, recover_read_head, recover_install,
       recover_erase, procVars, ControlInv, Clean
  <2>2. ~Writing
    BY <2>1, Zenon DEF Writing
  <2>3. CASE recover_read_head
    <3>1. /\ boot = "read_head" /\ boot' = "install_trans" /\ lh' = dhead
          /\ UNCHANGED <<disk, dlog, dhead, dirty, tail>>
      BY <2>3, Zenon DEF recover_read_head, diskVars
    <3>2. ~Installing /\ Installing' /\ ~Installed' /\ tail = 1
      BY <1>s, <2>1, <2>2, <3>1, Zenon DEF Installing, Installed, Home, Writing
    <3>3. Distinct'
      BY <1>s, <3>1, Zenon DEF NoDuplicates, Distinct
    <3>4. Committed' /\ Running' /\ Clean' /\ Copies' /\ Quiet'
      <4>1. Committed'
        BY <2>1, <3>1, <3>2, Zenon DEF Committed
      <4>2. Running'
        BY <2>1, <3>1, <3>2, Zenon DEF Running
      <4>3. Clean'
        BY <2>1, <3>1, <3>2, Zenon DEF Clean
      <4>4. Copies'
        BY <2>1, <3>1, <3>2, Zenon DEF Copies
      <4>5. Quiet'
        BY <2>1, <3>1, <3>2, Zenon DEF Quiet
      <4> QED
        BY <4>1, <4>2, <4>3, <4>4, <4>5, Zenon
    <3>5. \A i \in 1..Len(dhead) : ~(i < 1)
      BY <1>t
    <3>6. Home'
      BY <3>1, <3>2, <3>5, Zenon DEF Home
    <3> QED
      BY <1>s1, <3>3, <3>4, <3>6, Zenon
  <2>4. CASE recover_install
    <3>1. /\ boot = "install_trans"
          /\ UNCHANGED <<dlog, dhead, lh>>
      BY <2>4, Zenon DEF recover_install
    <3>2. /\ Installing /\ dhead = lh
          /\ \A i \in 1..Len(lh) : i < tail => disk[lh[i]] = dlog[i]
      BY <1>s, <3>1, Zenon DEF Installing, Committed, Home
    <3>3. CASE install_block /\ boot' = boot
      <4>1. /\ Distinct'
            /\ \A i \in 1..Len(lh) : i < tail' => disk'[lh[i]] = dlog[i]
        BY <1>12, <3>1, <3>2, <3>3, Zenon DEF Distinct
      <4>2. Installing' /\ ~Installed'
        BY <2>1, <3>1, <3>3, Zenon DEF Installing, Installed
      <4>3. dirty' = {}
        BY <2>1, <3>3, Zenon DEF install_block
      <4>4. Committed' /\ Running' /\ Clean' /\ Home' /\ Copies' /\ Quiet'
        <5>1. Committed'
          BY <2>1, <3>1, <3>2, <3>3, <4>1, <4>2, <4>3, Zenon DEF Committed
        <5>2. Running'
          BY <2>1, <3>1, <3>2, <3>3, <4>1, <4>2, <4>3, Zenon DEF Running
        <5>3. Clean'
          BY <2>1, <3>1, <3>2, <3>3, <4>1, <4>2, <4>3, Zenon DEF Clean
        <5>4. Home'
          BY <2>1, <3>1, <3>2, <3>3, <4>1, <4>2, <4>3, Zenon DEF Home
        <5>5. Copies'
          BY <2>1, <3>1, <3>2, <3>3, <4>1, <4>2, <4>3, Zenon DEF Copies
        <5>6. Quiet'
          BY <2>1, <3>1, <3>2, <3>3, <4>1, <4>2, <4>3, Zenon DEF Quiet
        <5> QED
          BY <5>1, <5>2, <5>3, <5>4, <5>5, <5>6, Zenon
      <4> QED
        BY <1>s1, <4>1, <4>4, Zenon
    <3>4. CASE /\ tail > Len(lh) /\ boot' = "erase" /\ tail' = 1
               /\ UNCHANGED <<cache, disk, dirty>>
      <4>1. \A i \in 1..Len(lh) : disk[lh[i]] = dlog[i]
        BY <1>t, <3>2, <3>4, SMTT(30)
      <4>2. ~Installing' /\ Installed'
        BY <2>1, <3>4, Zenon DEF Installing, Installed
      <4>3. Distinct'
        BY <1>s, <3>1, Zenon DEF NoDuplicates, Distinct
      <4>4. Committed' /\ Running' /\ Clean' /\ Home' /\ Copies' /\ Quiet'
        <5>1. Committed'
          BY <2>1, <3>1, <3>2, <3>4, <4>1, <4>2, Zenon DEF Committed
        <5>2. Running'
          BY <2>1, <3>1, <3>2, <3>4, <4>1, <4>2, Zenon DEF Running
        <5>3. Clean'
          BY <2>1, <3>1, <3>2, <3>4, <4>1, <4>2, Zenon DEF Clean
        <5>4. Home'
          BY <2>1, <3>1, <3>2, <3>4, <4>1, <4>2, Zenon DEF Home
        <5>5. Copies'
          BY <2>1, <3>1, <3>2, <3>4, <4>1, <4>2, Zenon DEF Copies
        <5>6. Quiet'
          BY <2>1, <3>1, <3>2, <3>4, <4>1, <4>2, Zenon DEF Quiet
        <5> QED
          BY <5>1, <5>2, <5>3, <5>4, <5>5, <5>6, Zenon
      <4> QED
        BY <1>s1, <4>3, <4>4, Zenon
    <3> QED
      BY <2>4, <3>3, <3>4, Zenon DEF recover_install
  <2>5. CASE recover_erase
    <3>1. ~Installing /\ tail = 1
      BY <1>s, <2>1, <2>2, <2>5, Zenon DEF recover_erase, Installing, Home, Writing
    <3> QED
      BY <1>14, <2>1, <2>5, <3>1, Zenon DEF recover_erase, clear_head, CommitPoints
  <2> QED
    BY <1>17, <2>3, <2>4, <2>5, Zenon DEF recover_from_log
<1> QED
  BY <1>2, <1>3, <1>4, <1>5, <1>6, <1>7, <1>8, <1>9, <1>10, <1>11, <1>13, Zenon,
     <1>15, <1>16, <1>17 DEF Next, commit, log_write_check, end_op, Checked, Ended

-----------------------------------------------------------------------------
(* What Redo computes when the header names no block twice.                 *)
LEMMA RedoLogged ==
  ASSUME NEW d \in [Blocks -> Values], NEW head \in Seq(Blocks), NEW data,
         NoDuplicates(head), NEW i \in 1..Len(head)
  PROVE  Redo(d, head, data)[head[i]] = data[i]
<1>1. head[i] \in Blocks
  OBVIOUS
<1>2. (CHOOSE j \in 1..Len(head) : head[j] = head[i]) = i
  BY Zenon DEF NoDuplicates
<1> QED
  BY <1>1, <1>2, Zenon DEF Redo

(* Redo leaves a block that the header does not name as it is.              *)
LEMMA RedoOther ==
  ASSUME NEW d, NEW head, NEW data, NEW b \in Blocks,
         \A i \in 1..Len(head) : head[i] # b
  PROVE  Redo(d, head, data)[b] = d[b]
BY Zenon DEF Redo

(* Every step of Log is a step of AtomicDisk or changes nothing it sees.    *)
LEMMA AtomicStep ==
  IInv /\ CountsHold /\ [Next]_vars => [Abstract!Next]_<<stable, view, active>>
<1> SUFFICES ASSUME IInv, CountsHold, [Next]_vars
             PROVE  [Abstract!Next]_<<stable, view, active>>
  BY Zenon
<1> USE DEF IInv, LogInv
<1>t. /\ disk \in [Blocks -> Values]
      /\ cache \in [Blocks -> Values \cup {None}]
      /\ lh \in Seq(Blocks) /\ dhead \in Seq(Blocks)
      /\ Len(lh) \in Nat /\ tail \in Nat \ {0}
      /\ pc \in [Procs -> PCs]
      /\ None \notin Values /\ None \notin Blocks
      /\ NoDuplicates(lh) /\ NoDuplicates(dhead)
      /\ \A i \in 1..Len(lh) : lh[i] \in Blocks
  BY LogAssumption DEF TypeOK, StageInv, Distinct
<1>e. /\ "op" \in OpPoints /\ "modified" \in OpPoints /\ "checked" \in OpPoints
      /\ \A x \in CommitPoints \cup {"idle", "begin_op", "sleeping"} :
           x \notin OpPoints
  BY Zenon DEF CommitPoints, OpPoints, BufferPoints
<1>c. \A p \in Procs : pc[p] \in CommitPoints =>
        /\ boot = "up" /\ active = {}
        /\ \A q \in Procs : blk[q] = None
  BY Zenon DEF ControlInv, CommitPoints, active, InOp, OpPoints
<1>d. \A p \in Procs : InOp(p) => boot = "up"
  BY Zenon DEF ControlInv, InOp, OpPoints, BufferPoints
<1>1. ASSUME UNCHANGED <<disk, dhead, dlog, boot>>,
             \A b \in Blocks : Contents(b)' = Contents(b)
      PROVE  stable' = stable /\ view' = view
  BY <1>1, Zenon DEF stable, view
<1>2. ASSUME NEW p \in Procs, begin_op(p)
      PROVE  [Abstract!Next]_<<stable, view, active>>
  <2>1. stable' = stable /\ view' = view
    BY <1>1, <1>2, Zenon DEF begin_op, diskVars, Contents
  <2>2. active' = active \/ (p \notin active /\ active' = active \cup {p})
    BY <1>2, <1>t, <1>e DEF begin_op, active, InOp
  <2> QED
    BY <2>1, <2>2, Zenon DEF Abstract!Next, Abstract!Begin
<1>3. ASSUME NEW p \in Procs, Ended(p)
      PROVE  [Abstract!Next]_<<stable, view, active>>
  <2>1. stable' = stable /\ view' = view
    BY <1>1, <1>3, Zenon DEF Ended, Leave, diskVars, Contents
  <2>2. \A q \in Procs : InOp(q)' <=> InOp(q) /\ q # p
    BY <1>3, <1>t, Zenon DEF Ended, Leave, InOp, Woken, FirstCommitPoint, OpPoints,
       BufferPoints
  <2>3. p \in active /\ active' = active \ {p}
    BY <1>3, <1>e, <2>2, Zenon DEF Ended, Leave, active, InOp
  <2> QED
    BY <2>1, <2>3, Zenon DEF Abstract!Next, Abstract!End
<1>4. ASSUME NEW p \in Procs, Checked(p) \/ log_write(p) \/ commit_done(p)
      PROVE  UNCHANGED <<stable, view, active>>
  <2>1. stable' = stable /\ view' = view
    BY <1>1, <1>4, Zenon DEF Checked, Pass, log_write, commit_done, diskVars,
       memVars, Contents
  <2>2. \A q \in Procs : InOp(q)' <=> InOp(q)
    BY <1>4, <1>t, Zenon DEF Checked, Pass, log_write, commit_done, InOp, Woken,
       OpPoints, BufferPoints
  <2> QED
    BY <2>1, <2>2, Zenon DEF active
<1>5. ASSUME NEW p \in Procs, NEW b \in Blocks, NEW v \in Values,
             modify(p, b, v)
      PROVE  [Abstract!Next]_<<stable, view, active>>
  <2>1. /\ pc[p] = "op" /\ InOp(p) /\ boot = "up" /\ boot' = boot
        /\ UNCHANGED <<disk, dhead, dlog>>
        /\ cache' = [cache EXCEPT ![b] = v]
    BY <1>5, <1>d, <1>e, Zenon DEF modify, diskVars, InOp
  <2>2. \A q \in Procs : InOp(q)' <=> InOp(q)
    BY <1>5, <1>t, Zenon DEF modify, InOp, OpPoints, BufferPoints
  <2>3. active' = active /\ p \in active
    BY <2>1, <2>2, Zenon DEF active
  <2>4. stable' = stable
    BY <2>1, Zenon DEF stable
  <2>5. view' = [view EXCEPT ![b] = v]
    <3>1. \A a \in Blocks : Contents(a)' = IF a = b THEN v ELSE Contents(a)
      BY <1>t, <2>1, Zenon DEF Contents
    <3>2. view = [a \in Blocks |-> Contents(a)]
      BY <2>1, Zenon DEF view
    <3>3. view' = [a \in Blocks |-> Contents(a)']
      BY <2>1, Zenon DEF view
    <3> QED
      BY <3>1, <3>2, <3>3, Zenon
  <2> QED
    BY <2>3, <2>4, <2>5, Zenon DEF Abstract!Next, Abstract!Write
<1>6. ASSUME NEW b \in Blocks, bread(b) \/ bget_recycle(b)
      PROVE  UNCHANGED <<stable, view, active>>
  <2>1. bget_recycle(b) => Contents(b) = disk[b]
    BY RecycledIsHome, Zenon
  <2>2. \A a \in Blocks : Contents(a)' = Contents(a)
    BY <1>6, <1>t, <2>1, Zenon DEF bread, bget_recycle, Contents, diskVars
  <2>3. active' = active
    BY <1>6, Zenon DEF bread, bget_recycle, procVars, active, InOp
  <2> QED
    BY <1>1, <1>6, <2>2, <2>3, Zenon DEF bread, bget_recycle, diskVars
<1>7. CASE Crash
  <2>1. stable' = stable
    BY <1>7, Zenon DEF Crash, diskVars, stable
  <2>2. view' = stable
    BY <1>7, <2>1, Zenon DEF Crash, view
  <2>3. active' = {}
    BY <1>7, <1>e, Zenon DEF Crash, active, InOp
  <2> QED
    BY <2>1, <2>2, <2>3, Zenon DEF Abstract!Next, Abstract!Crash
<1>8. CASE UNCHANGED vars
  BY <1>8, Zenon DEF vars, stable, view, active, Contents, InOp
<1>r. \A a \in Blocks : /\ (\A i \in 1..Len(dhead) : dhead[i] # a) => stable[a] = disk[a]
                       /\ \A i \in 1..Len(dhead) : dhead[i] = a => stable[a] = dlog[i]
  BY <1>t, RedoLogged, RedoOther, SMTT(30) DEF stable
<1>f. /\ stable = [a \in Blocks |-> stable[a]]
      /\ stable' = [a \in Blocks |-> stable'[a]]
  BY Zenon DEF stable, Redo
<1>9. ASSUME NEW p \in Procs, NEW x \in CommitPoints, pc[p] \in CommitPoints,
             pc' = [pc EXCEPT ![p] = x]
      PROVE  active' = {}
  BY <1>9, <1>c, <1>e, <1>t, Zenon DEF active, InOp
<1>10. ASSUME NEW p \in Procs, write_log(p)
       PROVE  UNCHANGED <<stable, view, active>>
  <2>1. /\ pc[p] = "write_log" /\ pc[p] \in CommitPoints
        /\ UNCHANGED <<disk, dhead, lh, boot>>
        /\ "write_head" \in CommitPoints
    BY <1>10, Zenon DEF write_log, CommitPoints
  <2>2. active = {} /\ active' = {}
    BY <1>c, <1>9, <1>10, <2>1, Zenon DEF write_log, active, InOp
  <2>3. ~Installing /\ ~Installed
    BY <2>1, Zenon DEF ControlInv, CommitPoints, Installing, Installed
  <2>4. dhead = <<>>
    BY <1>c, <2>1, <2>3, Zenon DEF StageInv, Running
  <2>5. Len(dhead) = 0
    BY <2>4, Zenon
  <2>6. stable' = stable
    BY <2>1, <2>5 DEF stable, Redo
  <2>7. \A a \in Blocks : Contents(a)' = Contents(a)
    <3>1. tail <= Len(lh) => lh[tail] \in Blocks
      BY TailInRange, Zenon
    <3> QED
      BY <1>10, <1>t, <2>1, <3>1, Zenon DEF write_log, Contents
  <2>8. view' = view
    BY <2>1, <2>6, <2>7, Zenon DEF view
  <2> QED
    BY <2>2, <2>6, <2>8, Zenon
<1>11. ASSUME NEW p \in Procs, write_head(p)
       PROVE  [Abstract!Next]_<<stable, view, active>>
  <2>1. /\ pc[p] = "write_head" /\ pc[p] \in CommitPoints
        /\ UNCHANGED <<disk, dlog, cache, lh, boot>> /\ dhead' = lh
        /\ "install_trans" \in CommitPoints
    BY <1>11, Zenon DEF write_head, CommitPoints
  <2>2. active = {} /\ active' = {} /\ boot = "up"
    BY <1>c, <1>9, <1>11, <2>1, Zenon DEF write_head
  <2>3. view' = view /\ view = [a \in Blocks |-> Contents(a)]
    BY <2>1, <2>2, Zenon DEF view, Contents
  <2>4. ASSUME NEW a \in Blocks
        PROVE  Redo(disk, lh, dlog)[a] = Contents(a)
    <3>1. CASE InLog(a)
      <4>1. PICK i \in 1..Len(lh) : lh[i] = a
        BY <3>1, Zenon DEF InLog
      <4>2. dlog[i] = Contents(lh[i])
        BY <2>1, <4>1, Zenon DEF StageInv, Copies
      <4>3. Redo(disk, lh, dlog)[lh[i]] = dlog[i]
        BY <1>t, RedoLogged
      <4> QED
        BY <4>1, <4>2, <4>3, Zenon
    <3>2. CASE ~InLog(a)
      <4>1. Contents(a) = disk[a]
        BY <1>c, <1>t, <2>1, <3>2, Zenon DEF CacheInv, BufferLocked
      <4> QED
        BY <3>2, <4>1, RedoOther DEF InLog
    <3> QED
      BY <3>1, <3>2, Zenon
  <2>5. stable' = Redo(disk, lh, dlog)
    BY <2>1, Zenon DEF stable
  <2>6. Redo(disk, lh, dlog) = [a \in Blocks |-> Redo(disk, lh, dlog)[a]]
    BY Zenon DEF Redo
  <2>7. stable' = view
    BY <2>3, <2>4, <2>5, <2>6, Zenon
  <2> QED
    BY <2>2, <2>3, <2>7, Zenon DEF Abstract!Next, Abstract!Commit
<1>12. ASSUME install_block, UNCHANGED <<dlog, dhead>>, dhead = lh
       PROVE  /\ stable' = stable
              /\ (\A i \in 1..Len(lh) : dlog[i] = Contents(lh[i])) =>
                   \A a \in Blocks : Contents(a)' = Contents(a)
  <2>1. /\ tail \in 1..Len(lh) /\ lh[tail] \in Blocks
        /\ dlog[tail] \in Values /\ dlog[tail] # None
    BY <1>12, TailInRange, Zenon DEF install_block
  <2>2. \A a \in Blocks : a # lh[tail] => disk'[a] = disk[a] /\ cache'[a] = cache[a]
    BY <1>12, <1>t, <2>1, Zenon DEF install_block
  <2>3. stable' = stable
    BY <1>12, <2>1, <2>2, Zenon DEF stable, Redo
  <2>4. \A a \in Blocks : a # lh[tail] => Contents(a)' = Contents(a)
    BY <2>2, Zenon DEF Contents
  <2>5. cache'[lh[tail]] = dlog[tail]
    BY <1>12, <1>t, <2>1, Zenon DEF install_block
  <2>6. ASSUME \A i \in 1..Len(lh) : dlog[i] = Contents(lh[i]), NEW a \in Blocks
        PROVE  Contents(a)' = Contents(a)
    <3>1. CASE a = lh[tail]
      BY <2>1, <2>5, <2>6, <3>1, Zenon DEF Contents
    <3>2. CASE a # lh[tail]
      BY <2>4, <3>2, Zenon
    <3> QED
      BY <3>1, <3>2, Zenon
  <2> QED
    BY <2>3, <2>6, Zenon
<1>13. ASSUME NEW p \in Procs, install_trans(p)
       PROVE  UNCHANGED <<stable, view, active>>
  <2>1. /\ pc[p] = "install_trans" /\ pc[p] \in CommitPoints
        /\ UNCHANGED <<dlog, dhead, boot>>
        /\ "erase" \in CommitPoints
    BY <1>13, Zenon DEF install_trans, CommitPoints
  <2>2. active = {} /\ active' = {} /\ boot = "up"
    BY <1>c, <1>9, <1>13, <2>1, Zenon DEF install_trans, active, InOp
  <2>3. dhead = lh /\ \A i \in 1..Len(lh) : dlog[i] = Contents(lh[i])
    BY <2>1, Zenon DEF StageInv, Installing, Committed, Copies
  <2>4. CASE install_block
    BY <1>12, <2>1, <2>2, <2>3, <2>4, Zenon DEF view
  <2>5. CASE UNCHANGED <<cache, disk, dirty>>
    BY <1>1, <2>1, <2>2, <2>5, Zenon DEF Contents
  <2> QED
    BY <1>13, <2>4, <2>5, Zenon DEF install_trans
<1>14. ASSUME dhead' = <<>>, disk' = disk, dhead = lh, Installed
       PROVE  stable' = stable /\ stable = disk
  <2>1. \A i \in 1..Len(lh) : disk[lh[i]] = dlog[i]
    BY <1>14, Zenon DEF StageInv, Home
  <2>2. \A a \in Blocks : stable[a] = disk[a]
    BY <1>14, <1>r, <2>1, Zenon
  <2>3. stable = disk
    BY <1>f, <1>t, <2>2, Zenon
  <2>4. Len(dhead') = 0
    BY <1>14, Zenon
  <2>5. stable' = [a \in Blocks |-> disk[a]]
    BY <1>14, <2>4 DEF stable, Redo
  <2> QED
    BY <1>t, <2>3, <2>5, Zenon
<1>15. ASSUME NEW p \in Procs, erase(p)
       PROVE  UNCHANGED <<stable, view, active>>
  <2>1. /\ pc[p] = "erase" /\ pc[p] \in CommitPoints
        /\ UNCHANGED <<disk, cache, boot>> /\ dhead' = <<>>
        /\ "committed" \in CommitPoints
    BY <1>15, Zenon DEF erase, clear_head, CommitPoints
  <2>2. active = {} /\ active' = {}
    BY <1>c, <1>9, <1>15, <2>1, Zenon DEF erase
  <2>3. Installed
    BY <2>1, Zenon DEF Installed
  <2>4. dhead = lh
    BY <2>3, Zenon DEF StageInv, Committed
  <2>5. stable' = stable
    BY <1>14, <2>1, <2>3, <2>4, Zenon
  <2>6. view' = view
    BY <2>1, <2>5, Zenon DEF view, Contents
  <2> QED
    BY <2>2, <2>5, <2>6, Zenon
<1>16. CASE recover_from_log
  <2>1. boot # "up" /\ pc' = pc /\ active' = active
    BY <1>16, Zenon DEF recover_from_log, recover_read_head, recover_install,
       recover_erase, procVars, active, InOp
  <2>2. view = stable
    BY <2>1, Zenon DEF view
  <2>3. CASE recover_read_head
    BY <2>1, <2>2, <2>3, Zenon DEF recover_read_head, diskVars, stable, view
  <2>4. CASE recover_install
    <3>1. /\ UNCHANGED <<dlog, dhead>> /\ boot' # "up"
          /\ dhead = lh
      BY <2>4, Zenon DEF recover_install, StageInv, Committed, Installing
    <3>2. stable' = stable
      <4>1. CASE install_block
        BY <1>12, <3>1, <4>1, Zenon
      <4>2. CASE disk' = disk
        BY <3>1, <4>2, Zenon DEF stable
      <4> QED
        BY <2>4, <4>1, <4>2, Zenon DEF recover_install
    <3> QED
      BY <2>1, <2>2, <3>1, <3>2, Zenon DEF view
  <2>5. CASE recover_erase
    <3>1. /\ Installed /\ dhead = lh /\ dhead' = <<>> /\ boot' = "up"
          /\ UNCHANGED <<disk, cache>>
      BY <2>5, Zenon DEF recover_erase, clear_head, StageInv, Committed, Installed
    <3>2. stable' = stable /\ stable = disk
      BY <1>14, <3>1, Zenon
    <3>3. \A a \in Blocks : Contents(a)' = disk[a]
      BY <2>1, <3>1, Zenon DEF CacheInv, Contents
    <3>4. view' = [a \in Blocks |-> disk[a]]
      BY <3>1, <3>3, Zenon DEF view
    <3> QED
      BY <1>t, <2>1, <2>2, <3>2, <3>4, Zenon
  <2> QED
    BY <1>16, <2>3, <2>4, <2>5, Zenon DEF recover_from_log
<1> QED
  BY <1>2, <1>3, <1>4, <1>5, <1>6, <1>7, <1>8, <1>10, <1>11, <1>13, <1>15,
     <1>16, Zenon DEF Next, commit, log_write_check, end_op, Checked, Ended

-----------------------------------------------------------------------------
(* The running calls and the space they reserve are counted by cardinality. *)

(* Finitely many calls run, and outstanding is zero exactly when none does. *)
LEMMA ActiveCount ==
  ASSUME Cardinals, TypeOK, ControlInv
  PROVE  /\ IsFiniteSet(active)
         /\ \A p \in Procs : InOp(p) => outstanding >= 1
         /\ outstanding = 0 => \A p \in Procs : ~InOp(p)
<1>1. IsFiniteSet(active)
  BY LogAssumption, Zenon DEF Cardinals, active
<1>2. ASSUME NEW p \in Procs, InOp(p)
      PROVE  outstanding >= 1
  <2>1. p \in active
    BY <1>2, Zenon DEF active
  <2>2. Cardinality(active) \in Nat /\ Cardinality(active) # 0
    BY <1>1, <2>1, Zenon DEF Cardinals
  <2> QED
    BY <2>2 DEF ControlInv
<1> QED
  BY <1>1, <1>2 DEF TypeOK

(* At most OpBlocks slots are reserved for each running call.            *)
LEMMA ReservedCount ==
  ASSUME Cardinals, TypeOK, ControlInv
  PROVE  IsFiniteSet(Reserved) /\ Cardinality(Reserved) \in Nat
BY ActiveCount, Zenon DEF Cardinals, Reserved

(* The counters follow from the invariant.                                  *)
LEMMA Counting == Cardinals /\ IInv => CountsHold
<1> SUFFICES ASSUME Cardinals, IInv PROVE CountsHold
  BY Zenon
<1>1. TypeOK /\ ControlInv /\ SpaceInv
  BY Zenon DEF IInv, LogInv
<1>2. Len(lh) <= Room
  BY <1>1, ReservedCount, RoomFits DEF SpaceInv, TypeOK
<1> QED
  BY <1>1, <1>2, ActiveCount, Zenon DEF CountsHold

-----------------------------------------------------------------------------
(* Control: outstanding, committing and the owners of buffers follow the    *)
(* program points of the processes.                                         *)
LEMMA ControlStep ==
  ASSUME Cardinals, TypeOK, ControlInv, [Next]_vars
  PROVE  ControlInv'
<1> DEFINE Counted == outstanding = Cardinality(active)
           Committer == committing <=> \E p \in Procs : pc[p] \in CommitPoints
           Alone == \A p, q \in Procs :
                      pc[p] \in CommitPoints =>
                        ~InOp(q) /\ (pc[q] \in CommitPoints => p = q)
           Booting == boot # "up" => \A p \in Procs : pc[p] = "idle"
           Owners == /\ \A p \in Procs : pc[p] \in BufferPoints <=> blk[p] # None
                     /\ \A p, q \in Procs :
                          blk[p] = blk[q] /\ blk[p] # None => p = q
<1>0. ControlInv <=> Counted /\ Committer /\ Alone /\ Booting /\ Owners
  BY Zenon DEF ControlInv
<1>0a. ControlInv' <=> Counted' /\ Committer' /\ Alone' /\ Booting' /\ Owners'
  BY Zenon DEF ControlInv
<1>1. ASSUME pc' = pc, blk' = blk, outstanding' = outstanding,
             committing' = committing, boot' = boot \/ boot' # "read_head",
             boot' # "up" => boot # "up"
      PROVE  ControlInv'
  <2>1. active' = active
    BY <1>1, Zenon DEF active, InOp
  <2>2. Counted' /\ Alone' /\ Booting' /\ Owners'
    BY <1>0, <1>1, <2>1, Zenon DEF InOp
  <2>3. Committer'
    BY <1>0, <1>1, Zenon
  <2> QED
    BY <1>0a, <2>2, <2>3, Zenon
<1>2. ASSUME NEW b \in Blocks, bread(b) \/ bget_recycle(b)
      PROVE  ControlInv'
  BY <1>1, <1>2, Zenon DEF bread, bget_recycle, procVars
<1>3. CASE recover_from_log
  BY <1>1, <1>3, Zenon DEF recover_from_log, recover_read_head, recover_install,
     recover_erase, procVars
<1>4. CASE UNCHANGED vars
  BY <1>1, <1>4, Zenon DEF vars
<1>5. CASE Crash
  <2>0. \A p \in Procs : pc'[p] = "idle" /\ blk'[p] = None
    BY <1>5, Zenon DEF Crash
  <2>1. active' = {}
    BY <2>0, Zenon DEF active, InOp, OpPoints, BufferPoints
  <2>2. Counted'
    BY <1>5, <2>1, Zenon DEF Cardinals, Crash
  <2>3. \A p \in Procs : /\ pc'[p] \notin CommitPoints
                         /\ pc'[p] \notin BufferPoints
    BY <2>0, Zenon DEF CommitPoints, BufferPoints
  <2>4. Committer'
    BY <1>5, <2>3, Zenon DEF Crash
  <2>5. Alone' /\ Booting' /\ Owners'
    BY <2>0, <2>3, Zenon
  <2> QED
    BY <1>0a, <2>2, <2>4, <2>5, Zenon
<1>6. ASSUME NEW p \in Procs, NEW x \in CommitPoints,
             pc[p] \in CommitPoints, pc' = [pc EXCEPT ![p] = x],
             UNCHANGED <<blk, outstanding, committing, boot>>
      PROVE  ControlInv'
  <2>0. \A q \in Procs : /\ q # p => pc'[q] = pc[q]
                         /\ pc'[q] \in CommitPoints <=> pc[q] \in CommitPoints
                         /\ pc'[q] \in BufferPoints <=> pc[q] \in BufferPoints
                         /\ InOp(q)' <=> InOp(q)
    BY <1>6, Zenon DEF TypeOK, InOp, OpPoints, BufferPoints, CommitPoints
  <2>1. active' = active
    BY <2>0, Zenon DEF active
  <2>2. Counted' /\ Alone' /\ Owners'
    BY <1>0, <1>6, <2>0, <2>1, Zenon
  <2>3. Committer'
    BY <1>0, <1>6, <2>0, Zenon
  <2>4. Booting'
    BY <1>0, <1>6, Zenon DEF CommitPoints
  <2> QED
    BY <1>0a, <2>2, <2>3, <2>4, Zenon
<1>7. ASSUME NEW p \in Procs,
             write_log(p) \/ write_head(p) \/ install_trans(p) \/ erase(p)
      PROVE  ControlInv'
  <2>1. /\ "write_log" \in CommitPoints /\ "write_head" \in CommitPoints
        /\ "install_trans" \in CommitPoints /\ "erase" \in CommitPoints
        /\ "committed" \in CommitPoints
    BY Zenon DEF CommitPoints
  <2>2. UNCHANGED <<blk, outstanding, committing, boot>>
    BY <1>7, Zenon DEF write_log, write_head, install_trans, erase
  <2>3. pc[p] \in CommitPoints
    BY <1>7, <2>1, Zenon DEF write_log, write_head, install_trans, erase
  <2>4. pc' = pc \/ \E x \in CommitPoints : pc' = [pc EXCEPT ![p] = x]
    BY <1>7, <2>1, Zenon DEF write_log, write_head, install_trans, erase
  <2> QED
    BY <1>1, <1>6, <2>2, <2>3, <2>4, Zenon
<1>8. ASSUME NEW p \in Procs, begin_op(p)
      PROVE  ControlInv'
  <2>0. /\ UNCHANGED <<blk, committing, boot>>
        /\ pc[p] \in {"idle", "begin_op"}
        /\ pc[p] \notin CommitPoints \cup OpPoints
        /\ boot = "up"
    BY <1>8, Zenon DEF begin_op, CommitPoints, OpPoints, BufferPoints
  <2>1. CASE outstanding' = outstanding /\ pc' = [pc EXCEPT ![p] = "sleeping"]
    <3>0. \A q \in Procs : /\ pc'[q] \in CommitPoints <=> pc[q] \in CommitPoints
                           /\ pc'[q] \in BufferPoints <=> pc[q] \in BufferPoints
                           /\ InOp(q)' <=> InOp(q)
      BY <2>0, <2>1, Zenon DEF TypeOK, InOp, OpPoints, BufferPoints, CommitPoints
    <3>1. active' = active
      BY <3>0, Zenon DEF active
    <3>2. Counted' /\ Alone' /\ Owners' /\ Booting'
      BY <1>0, <2>0, <2>1, <3>0, <3>1, Zenon
    <3>3. Committer'
      BY <1>0, <2>0, <3>0, Zenon
    <3> QED
      BY <1>0a, <3>2, <3>3, Zenon
  <2>2. CASE ~MustWait /\ outstanding' = outstanding + 1
                       /\ pc' = [pc EXCEPT ![p] = "op"]
    <3>0. \A q \in Procs : /\ pc'[q] \in CommitPoints <=> pc[q] \in CommitPoints
                           /\ pc'[q] \in BufferPoints <=> pc[q] \in BufferPoints
                           /\ InOp(q)' <=> InOp(q) \/ q = p
      BY <2>0, <2>2, Zenon DEF TypeOK, InOp, OpPoints, BufferPoints, CommitPoints
    <3>1. active' = active \cup {p} /\ p \notin active
      BY <2>0, <3>0, Zenon DEF active, InOp
    <3>2. Counted'
      BY <1>0, <2>2, <3>1, ActiveCount, Zenon DEF Cardinals
    <3>3. ~committing
      BY <2>2, Zenon DEF MustWait
    <3>4. \A q \in Procs : pc[q] \notin CommitPoints
      BY <1>0, <3>3, Zenon
    <3>5. Alone' /\ Owners' /\ Booting'
      BY <1>0, <2>0, <3>0, <3>4, Zenon
    <3>6. Committer'
      BY <1>0, <2>0, <3>0, Zenon
    <3> QED
      BY <1>0a, <3>2, <3>5, <3>6, Zenon
  <2> QED
    BY <1>8, <2>1, <2>2, Zenon DEF begin_op
<1>9. ASSUME NEW p \in Procs, Ended(p)
      PROVE  ControlInv'
  <2>0. /\ UNCHANGED <<blk, boot>>
        /\ pc[p] = "op" /\ InOp(p)
        /\ outstanding' = outstanding - 1
    BY <1>9, Zenon DEF Ended, Leave, InOp, OpPoints
  <2>1. \A q \in Procs : pc[q] \notin CommitPoints
    BY <1>0, <2>0, Zenon
  <2>2. \A q \in Procs : /\ pc'[q] \in BufferPoints <=> pc[q] \in BufferPoints
                         /\ InOp(q)' <=> InOp(q) /\ q # p
                         /\ q # p => pc'[q] \notin CommitPoints
    BY <1>9, <2>0, <2>1
       DEF Ended, Leave, FirstCommitPoint, Woken, TypeOK, InOp, OpPoints,
           BufferPoints, CommitPoints
  <2>3. active' = active \ {p} /\ p \in active
    BY <2>0, <2>2, Zenon DEF active
  <2>4. Counted'
    BY <1>0, <2>0, <2>3, ActiveCount, Zenon DEF Cardinals
  <2>5. Owners' /\ Booting'
    BY <1>0, <2>0, <2>2, Zenon
  <2>6. CASE outstanding' = 0
    <3>1. committing' /\ pc'[p] \in CommitPoints
      BY <1>9, <2>6, Zenon DEF Ended, Leave, TypeOK, FirstCommitPoint, CommitPoints
    <3>2. active' = {}
      <4>1. IsFiniteSet(active')
        BY <2>3, ActiveCount, Zenon DEF Cardinals
      <4> QED
        BY <2>4, <2>6, <4>1, Zenon DEF Cardinals
    <3>3. Alone'
      BY <2>2, <3>2, Zenon DEF active
    <3>4. Committer'
      BY <3>1, Zenon
    <3> QED
      BY <1>0a, <2>4, <2>5, <3>3, <3>4, Zenon
  <2>7. CASE outstanding' # 0
    <3>1. /\ committing' = committing
          /\ pc'[p] \notin CommitPoints
      BY <1>9, <2>7, Zenon DEF Ended, Leave, TypeOK, Woken, CommitPoints
    <3>2. \A q \in Procs : pc'[q] \notin CommitPoints
      BY <2>2, <3>1, Zenon
    <3>3. Committer'
      BY <1>0, <2>1, <3>1, <3>2, Zenon
    <3>4. Alone'
      BY <3>2, Zenon
    <3> QED
      BY <1>0a, <2>4, <2>5, <3>3, <3>4, Zenon
  <2> QED
    BY <2>6, <2>7, Zenon
<1>10. ASSUME NEW p \in Procs, commit_done(p)
       PROVE  ControlInv'
  <2>0. /\ UNCHANGED <<blk, boot, outstanding>>
        /\ pc[p] = "committed" /\ pc[p] \in CommitPoints
        /\ ~committing'
    BY <1>10, Zenon DEF commit_done, CommitPoints
  <2>1. \A q \in Procs : ~InOp(q) /\ (q # p => pc[q] \notin CommitPoints)
    BY <1>0, <2>0, Zenon
  <2>2. \A q \in Procs : /\ pc'[q] \in BufferPoints <=> pc[q] \in BufferPoints
                         /\ InOp(q)' <=> InOp(q)
                         /\ pc'[q] \notin CommitPoints
    BY <1>10, <2>0, <2>1, Zenon
       DEF commit_done, Woken, TypeOK, InOp, OpPoints, BufferPoints,
           CommitPoints
  <2>3. active' = active
    BY <2>2, Zenon DEF active
  <2>4. Counted' /\ Alone' /\ Owners'
    BY <1>0, <2>0, <2>2, <2>3, Zenon
  <2>5. Booting'
    BY <1>0, <2>0, Zenon
  <2>6. Committer'
    BY <2>0, <2>2, Zenon
  <2> QED
    BY <1>0a, <2>4, <2>5, <2>6, Zenon
<1>11. ASSUME NEW p \in Procs, Checked(p)
       PROVE  ControlInv'
  <2>0. /\ UNCHANGED <<blk, boot, outstanding, committing>>
        /\ pc[p] = "modified"
        /\ pc' = [pc EXCEPT ![p] = "checked"]
    BY <1>11, Zenon DEF Checked, Pass, memVars
  <2>1. \A q \in Procs : /\ pc'[q] \in BufferPoints <=> pc[q] \in BufferPoints
                         /\ InOp(q)' <=> InOp(q)
                         /\ pc'[q] \in CommitPoints <=> pc[q] \in CommitPoints
    BY <2>0, Zenon DEF TypeOK, InOp, OpPoints, BufferPoints, CommitPoints
  <2>2. active' = active
    BY <2>1, Zenon DEF active
  <2>3. Counted' /\ Alone' /\ Owners'
    BY <1>0, <2>0, <2>1, <2>2, Zenon
  <2>4. Booting'
    BY <1>0, <2>0, Zenon
  <2>5. Committer'
    BY <1>0, <2>0, <2>1, Zenon
  <2> QED
    BY <1>0a, <2>3, <2>4, <2>5, Zenon
<1>12. ASSUME NEW p \in Procs, NEW b \in Blocks \cup {None},
              InOp(p), pc' = [pc EXCEPT ![p] = IF b = None THEN "op"
                                                            ELSE "modified"],
              blk' = [blk EXCEPT ![p] = b],
              b # None => ~BufferLocked(b),
              UNCHANGED <<boot, outstanding, committing>>
       PROVE  ControlInv'
  <2>1. \A q \in Procs : /\ q # p => /\ pc'[q] = pc[q]
                                     /\ blk'[q] = blk[q]
                         /\ InOp(q)' <=> InOp(q)
                         /\ pc'[q] \in CommitPoints <=> pc[q] \in CommitPoints
    BY <1>12, Zenon DEF TypeOK, InOp, OpPoints, BufferPoints, CommitPoints
  <2>2. active' = active
    BY <2>1, Zenon DEF active
  <2>3. Counted' /\ Alone'
    BY <1>0, <1>12, <2>1, <2>2, Zenon
  <2>4. Booting'
    BY <1>0, <1>12, Zenon DEF InOp, OpPoints, BufferPoints
  <2>5. pc'[p] \in BufferPoints <=> blk'[p] # None
    BY <1>12, Zenon DEF TypeOK, BufferPoints
  <2>6. Owners'
    BY <1>0, <1>12, <2>1, <2>5 DEF BufferLocked, TypeOK
  <2>7. Committer'
    BY <1>0, <1>12, <2>1, Zenon
  <2> QED
    BY <1>0a, <2>3, <2>4, <2>6, <2>7, Zenon
<1>13. ASSUME NEW p \in Procs, log_write(p)
       PROVE  ControlInv'
  BY <1>12, <1>13, Zenon DEF log_write, InOp, OpPoints, BufferPoints
<1>14. ASSUME NEW p \in Procs, NEW b \in Blocks, NEW v \in Values,
              modify(p, b, v)
       PROVE  ControlInv'
  BY <1>12, <1>14, LogAssumption, ZenonT(30) DEF modify, InOp, OpPoints
<1> QED
  BY <1>2, <1>3, <1>4, <1>5, <1>7, <1>8, <1>9, <1>10, <1>11, <1>13, <1>14, Zenon
     DEF Next, commit, log_write_check, end_op, Checked, Ended

-----------------------------------------------------------------------------
(* Space: begin_op reserves OpBlocks slots, log_write turns one reserved *)
(* slot into a used one at most, end_op gives up what was not used.         *)
LEMMA SpaceStep ==
  ASSUME Cardinals, TypeOK, ControlInv, SpaceInv, Quiet, [Next]_vars, TypeOK', ControlInv'
  PROVE  SpaceInv'
<1> DEFINE Calls == \A p \in Procs :
                      /\ IsFiniteSet(wrote[p])
                      /\ \A b \in wrote[p] : InOp(p) /\ InLog(b)
                      /\ blk[p] # None => WithinBudget(p, blk[p])
<1>0. /\ Len(lh) \in Nat /\ Len(dhead) \in Nat /\ Room \in Nat
      /\ IsFiniteSet(Reserved) /\ Cardinality(Reserved) \in Nat
      /\ Len(lh) + Cardinality(Reserved) <= Room
      /\ Len(dhead) <= Room
      /\ Calls
  BY ReservedCount, RoomFits, SMTT(30) DEF SpaceInv, TypeOK
<1>0a. SpaceInv' <=> /\ Len(lh') + Cardinality(Reserved') <= Room
                     /\ Len(dhead') <= Room
                     /\ Calls'
  BY Zenon DEF SpaceInv
<1>1. ASSUME UNCHANGED <<lh, dhead, wrote, blk>>,
             \A q \in Procs : InOp(q)' <=> InOp(q)
      PROVE  SpaceInv'
  <2>1. active' = active
    BY <1>1, Zenon DEF active
  <2>2. Reserved' = Reserved
    BY <1>1, <2>1, Zenon DEF Reserved
  <2>3. Calls'
    BY <1>0, <1>1, Zenon DEF InLog, WithinBudget
  <2> QED
    BY <1>0, <1>0a, <1>1, <2>2, <2>3, Zenon
<1>2. ASSUME \A q \in Procs : ~InOp(q)' /\ wrote'[q] = {} /\ blk'[q] = None,
             Len(lh') <= Room, Len(dhead') <= Room
      PROVE  SpaceInv'
  <2>1. active' = {}
    BY <1>2, Zenon DEF active
  <2>2. Reserved' = {}
    BY <2>1, Zenon DEF Reserved
  <2>3. Cardinality(Reserved') = 0
    BY <2>2, Zenon DEF Cardinals
  <2>4. Calls'
    BY <1>2, Zenon DEF Cardinals
  <2>5. Len(lh') + Cardinality(Reserved') <= Room
    BY <1>2, <2>3 DEF TypeOK
  <2> QED
    BY <1>0a, <1>2, <2>4, <2>5, Zenon
<1>3. ASSUME \A q \in Procs : ~InOp(q)
      PROVE  \A q \in Procs : wrote[q] = {} /\ blk[q] = None
  <2>1. \A q \in Procs : wrote[q] = {}
    BY <1>0, <1>3, Zenon
  <2>2. \A q \in Procs : blk[q] = None
    BY <1>3, Zenon DEF InOp, OpPoints, ControlInv
  <2> QED
    BY <2>1, <2>2, Zenon
<1>4. CASE Crash
  <2>1. \A q \in Procs : ~InOp(q)' /\ wrote'[q] = {} /\ blk'[q] = None
    BY <1>4, Zenon DEF Crash, InOp, OpPoints, BufferPoints
  <2>2. Len(lh') = 0 /\ dhead' = dhead
    BY <1>4, Zenon DEF Crash, diskVars
  <2> QED
    BY <1>0, <1>2, <2>1, <2>2
<1>5. CASE recover_from_log
  <2>0. /\ \A q \in Procs : pc[q] = "idle"
        /\ UNCHANGED <<pc, wrote, blk>>
    BY <1>5, Zenon DEF recover_from_log, recover_read_head, recover_install,
       recover_erase, ControlInv, procVars
  <2>1. \A q \in Procs : ~InOp(q) /\ ~InOp(q)'
    BY <2>0, Zenon DEF InOp, OpPoints, BufferPoints
  <2>2. \A q \in Procs : wrote[q] = {} /\ blk[q] = None
    BY <1>3, <2>1, Zenon
  <2>3. Len(lh) <= Room
    BY <1>0
  <2>4. Len(lh') <= Room /\ Len(dhead') <= Room
    BY <1>5, <1>0, <2>3 DEF recover_from_log, recover_read_head,
       recover_install, recover_erase, clear_head, diskVars
  <2> QED
    BY <1>2, <2>0, <2>1, <2>2, <2>4, Zenon
<1>6. CASE UNCHANGED vars
  BY <1>1, <1>6, Zenon DEF vars, InOp
<1>7. ASSUME NEW b \in Blocks, bread(b) \/ bget_recycle(b)
      PROVE  SpaceInv'
  BY <1>1, <1>7, Zenon DEF bread, bget_recycle, diskVars, procVars, InOp
<1>8. ASSUME NEW p \in Procs, write_log(p) \/ install_trans(p) \/
                              commit_done(p) \/ Checked(p)
      PROVE  SpaceInv'
  <2>1. UNCHANGED <<lh, dhead, wrote, blk>>
    BY <1>8, Zenon DEF write_log, install_trans, commit_done, Checked, Pass,
       diskVars, memVars
  <2>2. \A q \in Procs : InOp(q)' <=> InOp(q)
    BY <1>8 DEF write_log, install_trans, commit_done, Checked, Pass, Woken,
       TypeOK, InOp, OpPoints, BufferPoints
  <2> QED
    BY <1>1, <2>1, <2>2, Zenon
<1>9. ASSUME NEW p \in Procs, write_head(p) \/ erase(p)
      PROVE  SpaceInv'
  <2>1. pc[p] \in CommitPoints
    BY <1>9, Zenon DEF write_head, erase, CommitPoints
  <2>2. \A q \in Procs : ~InOp(q)
    BY <2>1, Zenon DEF ControlInv
  <2>3. /\ \A q \in Procs : ~InOp(q)'
        /\ (lh' = lh /\ dhead' = lh) \/ (lh' = <<>> /\ dhead' = <<>>)
    BY <1>9, <2>2, HeadWritten, Zenon
  <2>4. \A q \in Procs : wrote'[q] = {} /\ blk'[q] = None
    BY <1>3, <1>9, <2>2, Zenon DEF write_head, erase
  <2>5. Len(lh') <= Room /\ Len(dhead') <= Room
    <3>1. Len(lh) <= Room
      BY <1>0
    <3>2. Len(<<>>) <= Room
      BY RoomFits
    <3> QED
      BY <2>3, <3>1, <3>2, Zenon
  <2> QED
    BY <1>2, <2>3, <2>4, <2>5, Zenon
<1>10. ASSUME NEW p \in Procs, begin_op(p)
       PROVE  SpaceInv'
  <2>0. UNCHANGED <<lh, dhead, wrote, blk>>
    BY <1>10, Zenon DEF begin_op, diskVars
  <2>1. CASE pc' = [pc EXCEPT ![p] = "sleeping"]
    <3>1. \A q \in Procs : InOp(q)' <=> InOp(q)
      BY <1>10, <2>1, Zenon DEF begin_op, TypeOK, InOp, OpPoints, BufferPoints
    <3> QED
      BY <1>1, <2>0, <3>1, Zenon
  <2>2. CASE /\ ~MustWait
             /\ outstanding' = outstanding + 1
             /\ pc' = [pc EXCEPT ![p] = "op"]
    <3>1. \A q \in Procs : InOp(q) => InOp(q)'
      BY <1>10, <2>2, Zenon DEF begin_op, TypeOK, InOp, OpPoints, BufferPoints
    <3>2. Calls'
      BY <1>0, <2>0, <3>1, Zenon DEF InLog, WithinBudget
    <3>3. IsFiniteSet(active') /\ Cardinality(active') = outstanding + 1
      BY <2>2, LogAssumption, Zenon DEF Cardinals, active, ControlInv
    <3>4. Reserved' \in SUBSET (active' \X (1..OpBlocks))
      BY Zenon DEF Reserved
    <3>5. /\ Cardinality(Reserved') \in Nat
          /\ Cardinality(Reserved') <= (outstanding + 1) * OpBlocks
      BY <3>3, <3>4, Zenon DEF Cardinals
    <3>6. Len(lh) + Cardinality(Reserved') <= Room
      <4>1. boot = "up" /\ ~committing
        BY <1>10, <2>2, Zenon DEF begin_op, MustWait
      <4>2. outstanding = 0 => Len(lh) = 0
        BY <4>1, Zenon DEF Quiet
      <4> QED
        BY <2>2, <3>5, <4>2, RoomLeft, Zenon
    <3> QED
      BY <1>0, <1>0a, <2>0, <3>2, <3>6, Zenon
  <2> QED
    BY <1>10, <2>1, <2>2, Zenon DEF begin_op
<1>11. ASSUME NEW p \in Procs, Ended(p)
       PROVE  SpaceInv'
  <2>0. UNCHANGED <<lh, dhead, blk>> /\ wrote' = [wrote EXCEPT ![p] = {}]
    BY <1>11, Zenon DEF Ended, Leave, diskVars
  <2>1. \A q \in Procs : InOp(q)' <=> InOp(q) /\ q # p
    BY <1>11, Zenon DEF Ended, Leave, Woken, FirstCommitPoint, TypeOK, InOp, OpPoints,
       BufferPoints
  <2>2. blk[p] = None
    BY <1>11, Zenon DEF Ended, Leave, ControlInv, BufferPoints
  <2>3. Calls'
    BY <1>0, <2>0, <2>1, <2>2, ZenonT(30) DEF Cardinals, InLog, WithinBudget, TypeOK
  <2>4. Reserved' \in SUBSET Reserved
    BY <2>0, <2>1, Zenon DEF Reserved, active, TypeOK
  <2>5. Cardinality(Reserved') \in Nat /\ Cardinality(Reserved') <= Cardinality(Reserved)
    BY <1>0, <2>4, Zenon DEF Cardinals
  <2>6. Len(lh') + Cardinality(Reserved') <= Room
    <3>1. Len(lh) \in Nat /\ Cardinality(Reserved) \in Nat
      BY <1>0, Zenon DEF Cardinals, TypeOK
    <3>2. Len(lh) + Cardinality(Reserved') <= Room
      BY <1>0, <2>5, <3>1, SlotSums, Zenon
    <3> QED
      BY <2>0, <3>2, Zenon
  <2>7. Len(dhead') <= Room
    BY <1>0, <2>0, Zenon
  <2> QED
    BY <1>0a, <2>3, <2>6, <2>7, Zenon
<1>12. ASSUME NEW p \in Procs, NEW b \in Blocks, NEW v \in Values,
              modify(p, b, v)
       PROVE  SpaceInv'
  <2>0. UNCHANGED <<lh, dhead, wrote>> /\ blk' = [blk EXCEPT ![p] = b]
    BY <1>12, Zenon DEF modify, diskVars
  <2>1. \A q \in Procs : InOp(q)' <=> InOp(q)
    BY <1>12, Zenon DEF modify, TypeOK, InOp, OpPoints, BufferPoints
  <2>2. active' = active
    BY <2>1, Zenon DEF active
  <2>3. Reserved' = Reserved
    BY <2>0, <2>2, Zenon DEF Reserved
  <2>4. WithinBudget(p, b)
    BY <1>12, Zenon DEF modify
  <2>5. Calls'
    BY <1>0, <2>0, <2>1, <2>4, ZenonT(30) DEF InLog, WithinBudget, TypeOK
  <2> QED
    BY <1>0, <1>0a, <2>0, <2>3, <2>5, Zenon
<1>13. ASSUME NEW p \in Procs, log_write(p)
       PROVE  SpaceInv'
  <2> DEFINE c == blk[p]
             W == wrote[p]
  <2>0. /\ dhead' = dhead
        /\ lh' = Logged(lh, c)
        /\ wrote' = [wrote EXCEPT ![p] = W \cup {c}]
        /\ blk' = [blk EXCEPT ![p] = None]
    BY <1>13, Zenon DEF log_write, diskVars
  <2>1. /\ c \in Blocks /\ c # None
        /\ WithinBudget(p, c)
        /\ IsFiniteSet(W)
    BY <1>0, <1>13, LogAssumption, ZenonT(30) DEF log_write, ControlInv, BufferPoints, TypeOK
  <2>2. \A q \in Procs : InOp(q)' <=> InOp(q)
    BY <1>13, Zenon DEF log_write, TypeOK, InOp, OpPoints, BufferPoints
  <2>3. active' = active /\ p \in active
    BY <1>13, <2>2, Zenon DEF active, log_write, InOp, OpPoints, BufferPoints
  <2>4. IsFiniteSet(W \cup {c})
    BY <2>1, Zenon DEF Cardinals
  <2>5. \A b \in Blocks : InLog(b)' <=> InLog(b) \/ b = c
    <3>1. \A b \in Blocks :
            (\E i \in 1..Len(Logged(lh, c)) : Logged(lh, c)[i] = b)
              <=> (\E i \in 1..Len(lh) : lh[i] = b) \/ b = c
      BY <2>1, LoggedEntries, Zenon DEF TypeOK
    <3> QED
      BY <2>0, <3>1, Zenon DEF InLog
  <2>6. Calls'
    BY <1>0, <2>0, <2>1, <2>2, <2>3, <2>4, <2>5, Zenon
       DEF WithinBudget, TypeOK, active
  <2>7. CASE c \in W
    <3>1. InLog(c)
      BY <1>0, <2>7, Zenon
    <3>2. lh' = lh
      BY <2>0, <3>1, Zenon DEF Logged, InLog
    <3>3. wrote' = wrote
      BY <2>0, <2>7 DEF TypeOK
    <3>4. Reserved' = Reserved
      BY <2>3, <3>3, Zenon DEF Reserved
    <3> QED
      BY <1>0, <1>0a, <2>0, <2>6, <3>2, <3>4, Zenon
  <2>8. CASE c \notin W
    <3> DEFINE n == Cardinality(W)
    <3>1. /\ n \in Nat /\ Cardinality(W \cup {c}) = n + 1
          /\ n + 1 <= OpBlocks
      <4>1. n \in Nat
        BY <2>1, Zenon DEF Cardinals
      <4>2. Cardinality(W \cup {c}) = n + 1
        BY <2>1, <2>8, ZenonT(30) DEF Cardinals
      <4>3. Cardinality(W \cup {c}) <= OpBlocks
        BY <2>1, Zenon DEF WithinBudget
      <4> QED
        BY <4>1, <4>2, <4>3, Zenon
    <3>2. /\ Cardinality(wrote'[p]) = n + 1
          /\ \A q \in active : q # p => wrote'[q] = wrote[q]
      BY <2>0, <3>1, Zenon DEF TypeOK, active
    <3>3. <<p, n + 1>> \in Reserved /\ Reserved' = Reserved \ {<<p, n + 1>>}
      BY <2>3, <3>1, <3>2, SlotTaken, Zenon
    <3>4. /\ Cardinality(Reserved') = Cardinality(Reserved) - 1
          /\ Cardinality(Reserved') \in Nat
      BY <1>0, <3>3, Zenon DEF Cardinals
    <3>5. Len(lh') <= Len(lh) + 1 /\ Len(lh') \in Nat
      BY <2>0, <2>1, LoggedLength, Zenon DEF TypeOK
    <3>6. Len(lh') + Cardinality(Reserved') <= Room
      BY <1>0, <3>4, <3>5, SlotSums, Zenon
    <3>7. Len(dhead') <= Room
      BY <1>0, <2>0, Zenon
    <3> QED
      BY <1>0a, <2>6, <3>6, <3>7, Zenon
  <2> QED
    BY <2>7, <2>8, Zenon
<1> QED
  BY <1>4, <1>5, <1>6, <1>7, <1>8, <1>9, <1>10, <1>11, <1>12, <1>13, Zenon
     DEF Next, commit, log_write_check, end_op, Checked, Ended

-----------------------------------------------------------------------------
(* Every step of log.c, and a crash, preserves the inductive invariant.    *)
LEMMA StepHolds == Cardinals /\ IInv /\ [Next]_vars => IInv'
<1> SUFFICES ASSUME Cardinals, IInv, [Next]_vars PROVE IInv'
  BY Zenon
<1>0. CountsHold
  BY Counting, Zenon
<1>1. TypeOK'
  BY <1>0, TypeStep, Zenon DEF IInv, LogInv
<1>2. ControlInv'
  BY ControlStep, Zenon DEF IInv, LogInv
<1>3. SpaceInv'
  BY <1>1, <1>2, SpaceStep, Zenon DEF IInv, LogInv, StageInv
<1> QED
  BY <1>0, <1>1, <1>2, <1>3, CacheStep, StageStep, Zenon DEF IInv, LogInv

-----------------------------------------------------------------------------
INSTANCE FiniteSetTheorems

(* A set of reservations of the calls in A.                                 *)
LEMMA SlotCount ==
  ASSUME NEW A, IsFiniteSet(A), NEW R \in SUBSET (A \X (1..OpBlocks))
  PROVE  /\ IsFiniteSet(R)
         /\ Cardinality(R) \in Nat
         /\ Cardinality(R) <= Cardinality(A) * OpBlocks
<1>1. IsFiniteSet(1..OpBlocks) /\ Cardinality(1..OpBlocks) = OpBlocks
  <2>1. 1 \in Int /\ OpBlocks \in Int /\ 1 <= OpBlocks
    BY LogAssumption
  <2> QED
    BY <2>1, FS_Interval
<1>2. /\ IsFiniteSet(A \X (1..OpBlocks))
      /\ Cardinality(A \X (1..OpBlocks)) = Cardinality(A) * OpBlocks
  BY <1>1, FS_Product, Zenon
<1> QED
  BY <1>2, FS_Subset, FS_CardinalityType, Zenon

(* The facts about finite sets that the counts need.                        *)
LEMMA FiniteSetFacts == Cardinals
<1>1. IsFiniteSet({}) /\ Cardinality({}) = 0
  BY FS_EmptySet, Zenon
<1>2. \A S : IsFiniteSet(S) => Cardinality(S) \in Nat /\ (S # {} => Cardinality(S) # 0)
  BY FS_EmptySet, FS_CardinalityType, Zenon
<1>3. \A S : IsFiniteSet(S) => \A T \in SUBSET S :
        IsFiniteSet(T) /\ Cardinality(T) <= Cardinality(S)
  BY FS_Subset, Zenon
<1>4. \A S, x : IsFiniteSet(S) =>
        /\ IsFiniteSet(S \cup {x})
        /\ x \notin S => Cardinality(S \cup {x}) = Cardinality(S) + 1
        /\ x \in S => Cardinality(S \ {x}) = Cardinality(S) - 1
  BY FS_AddElement, FS_RemoveElement, Zenon
<1>5. \A A : IsFiniteSet(A) => \A R \in SUBSET (A \X (1..OpBlocks)) :
        IsFiniteSet(R) /\ Cardinality(R) <= Cardinality(A) * OpBlocks
  BY SlotCount, Zenon
<1> QED
  BY <1>1, <1>2, <1>3, <1>4, <1>5, Zenon DEF Cardinals

-----------------------------------------------------------------------------
(* The theorems. *)

(* Both hold, by the facts about finite sets.                               *)
LEMMA IInvInductive == (Init => IInv) /\ (IInv /\ [Next]_vars => IInv')
BY FiniteSetFacts, InitHolds, StepHolds, Zenon

(* log.c keeps the types of its state and the bookkeeping invariant that    *)
(* relates the log, the cache, the disk and the running calls.              *)
THEOREM LogInvariant == Spec => [](TypeOK /\ LogInv)
<1>1. IInv => TypeOK /\ LogInv
  BY Zenon DEF IInv
<1> QED
  BY <1>1, IInvInductive, PTL DEF Spec

(* No panic of log_write or end_op fires, in a log area of the size that     *)
(* mkfs makes, for calls that leave one of the blocks begin_op reserves      *)
(* unused: the most a transaction holds is below what log_write tests for.   *)
THEOREM NoPanic == Spec => []NoLogPanic
<1>1. IInv => NoLogPanic
  <2> SUFFICES ASSUME IInv, NEW p \in Procs
               PROVE  NoLogPanic!(p)
    BY Zenon DEF NoLogPanic
  <2>1. Len(lh) <= Room /\ Len(lh) \in Nat
    BY Counting, FiniteSetFacts DEF IInv, TypeOK, CountsHold
  <2>2. ~TooBig
    BY <2>1, RoomFits, LogAssumption DEF TooBig
  <2>3. pc[p] = "modified" => outstanding >= 1
    BY Counting, FiniteSetFacts, Stages, Zenon DEF CountsHold, InOp
  <2>4. pc[p] = "op" => InOp(p)
    BY Stages, Zenon DEF InOp
  <2>5. pc[p] = "op" => ~committing
    BY <2>4, Zenon DEF IInv, LogInv, ControlInv
  <2> QED
    BY <2>2, <2>3, <2>5, Zenon
<1> QED
  BY <1>1, IInvInductive, PTL DEF Spec

(* The header array and the log area never overflow, although log_write     *)
(* tests lh.n before it takes log.lock: write_log stays off the inodes that *)
(* follow the log area on the disk.                                         *)
THEOREM NoOverflow == Spec => []LogFits
<1>1. IInv => LogFits
  <2> SUFFICES ASSUME IInv PROVE LogFits
    BY Zenon
  <2>1. Len(lh) \in Nat /\ Len(lh) <= Room
    BY Counting, FiniteSetFacts DEF IInv, TypeOK, CountsHold
  <2> QED
    BY <2>1, RoomFits, LogAssumption DEF LogFits
<1> QED
  BY <1>1, IInvInductive, PTL DEF Spec

(* When no call runs and no commit is under way, everything calls have      *)
(* written is on disk and nothing is pinned.                                *)
THEOREM Quiescence == Spec => []QuiescentDurable
<1>1. IInv => QuiescentDurable
  <2> SUFFICES ASSUME IInv, boot = "up", outstanding = 0, ~committing
               PROVE  /\ lh = <<>> /\ dhead = <<>> /\ dirty = {}
                      /\ \A b \in Blocks : Contents(b) = disk[b]
    BY Zenon DEF QuiescentDurable
  <2>1. \A p \in Procs : pc[p] \notin CommitPoints /\ ~InOp(p)
    BY Counting, FiniteSetFacts, Zenon DEF IInv, LogInv, ControlInv, CountsHold
  <2>2. ~Installing /\ ~Installed
    BY <2>1, Zenon DEF Installing, Installed, CommitPoints
  <2>3. lh = <<>> /\ dhead = <<>> /\ Pinned(1)
    BY <2>2, Zenon DEF IInv, LogInv, StageInv, Running, Quiet
  <2>4. Len(lh) = 0
    BY <2>3, Zenon
  <2>5. dirty = {}
    BY <2>3, <2>4, SMTT(30) DEF Pinned
  <2>6. \A p \in Procs : blk[p] = None
    BY <2>1, Zenon DEF IInv, LogInv, ControlInv, InOp, OpPoints
  <2>7. \A b \in Blocks : ~InLog(b) /\ ~BufferLocked(b)
    BY <2>4, <2>6, LogAssumption DEF InLog, BufferLocked
  <2>8. \A b \in Blocks : Contents(b) = disk[b]
    BY <2>7, Zenon DEF IInv, LogInv, CacheInv
  <2> QED
    BY <2>3, <2>5, <2>8, Zenon
<1> QED
  BY <1>1, IInvInductive, PTL DEF Spec

-----------------------------------------------------------------------------
(* Sleepers: whoever finds the log busy goes to sleep only while a call or  *)
(* a commit runs, and the last of these wakes everybody.                    *)
THEOREM SleepersKnown == Spec => []NoLostWakeup
<1>1. Init => NoLostWakeup
  BY Zenon DEF Init, NoLostWakeup
<1>2. IInv /\ NoLostWakeup /\ [Next]_vars => NoLostWakeup'
  <2> SUFFICES ASSUME IInv, NoLostWakeup, [Next]_vars
               PROVE  NoLostWakeup'
    BY Zenon
  <2>t. pc \in [Procs -> PCs] /\ outstanding \in Nat
    BY Zenon DEF IInv, TypeOK
  <2>1. ASSUME \A q \in Procs : pc'[q] = "sleeping" => pc[q] = "sleeping",
               UNCHANGED <<outstanding, committing>>
        PROVE  NoLostWakeup'
    BY <2>1, Zenon DEF NoLostWakeup
  <2>2. ASSUME \A q \in Procs : pc'[q] # "sleeping"
        PROVE  NoLostWakeup'
    BY <2>2, Zenon DEF NoLostWakeup
  <2>3. ASSUME NEW p \in Procs, begin_op(p)
        PROVE  NoLostWakeup'
    <3>1. CASE MustWait /\ UNCHANGED <<outstanding, committing>>
      <4>1. CASE committing
        BY <3>1, <4>1, Zenon DEF NoLostWakeup
      <4>2. CASE ~committing /\ outstanding = 0
        <5>1. lh = <<>>
          BY <2>3, <4>2, Zenon DEF begin_op, IInv, LogInv, StageInv, Quiet
        <5>2. Len(lh) + (outstanding + 1) * MAXOPBLOCKS = MAXOPBLOCKS
          BY <4>2, <5>1, LogAssumption
        <5> QED
          BY <3>1, <4>2, <5>2, LogAssumption DEF MustWait, NoSpace
      <4> QED
        BY <2>t, <3>1, <4>1, <4>2 DEF NoLostWakeup
    <3>2. CASE outstanding' = outstanding + 1
      BY <2>t, <3>2 DEF NoLostWakeup
    <3> QED
      BY <2>3, <3>1, <3>2, Zenon DEF begin_op
  <2>4. ASSUME NEW p \in Procs, Ended(p)
        PROVE  NoLostWakeup'
    <3>1. CASE outstanding' = 0 /\ committing' = TRUE
      BY <3>1, Zenon DEF NoLostWakeup
    <3>2. CASE pc' = Woken([pc EXCEPT ![p] = "idle"])
      BY <2>t, <2>2, <3>2, Zenon DEF Woken
    <3> QED
      BY <2>4, <3>1, <3>2, Zenon DEF Ended, Leave
  <2>5. ASSUME NEW p \in Procs, commit_done(p)
        PROVE  NoLostWakeup'
    BY <2>t, <2>2, <2>5, Zenon DEF commit_done, Woken
  <2>6. ASSUME NEW p \in Procs, write_log(p) \/ write_head(p) \/
               install_trans(p) \/ erase(p) \/ Checked(p) \/ log_write(p)
        PROVE  NoLostWakeup'
    BY <2>t, <2>1, <2>6, Zenon DEF write_log, write_head, install_trans, erase,
       Checked, Pass, log_write, memVars
  <2>7. ASSUME NEW p \in Procs, NEW b \in Blocks, NEW v \in Values,
               modify(p, b, v)
        PROVE  NoLostWakeup'
    BY <2>t, <2>1, <2>7, Zenon DEF modify
  <2>8. ASSUME NEW b \in Blocks, bread(b) \/ bget_recycle(b)
        PROVE  NoLostWakeup'
    BY <2>1, <2>8, Zenon DEF bread, bget_recycle, procVars
  <2>9. CASE recover_from_log
    BY <2>1, <2>9, Zenon DEF recover_from_log, recover_read_head, recover_install,
       recover_erase, procVars
  <2>10. CASE Crash
    BY <2>2, <2>10, Zenon DEF Crash
  <2>11. CASE UNCHANGED vars
    BY <2>1, <2>11, Zenon DEF vars
  <2> QED
    BY <2>3, <2>4, <2>5, <2>6, <2>7, <2>8, <2>9, <2>10, <2>11, Zenon
       DEF Next, commit, log_write_check, end_op, Checked, Ended
<1> QED
  BY <1>1, <1>2, IInvInductive, PTL DEF Spec

-----------------------------------------------------------------------------
(* log.c implements the atomic disk: the updates of the calls of one        *)
(* transaction survive a crash together or not at all, and become durable   *)
(* only when none of its calls is still running.                            *)
THEOREM Atomic == Spec => Atomicity
<1>1. Init => Abstract!Init
  <2> SUFFICES ASSUME Init PROVE Abstract!Init
    BY Zenon
  <2>1. Len(dhead) = 0 /\ boot = "read_head" /\ disk \in [Blocks -> Values]
    BY Zenon DEF Init
  <2>2. stable \in [Blocks -> Values]
    BY <2>1 DEF stable, Redo
  <2>3. view = stable
    BY <2>1, Zenon DEF view
  <2>4. active = {}
    BY Zenon DEF Init, active, InOp, OpPoints, BufferPoints
  <2> QED
    BY <2>2, <2>3, <2>4, Zenon DEF Abstract!Init
<1> QED
  BY <1>1, IInvInductive, Counting, FiniteSetFacts, AtomicStep, PTL
     DEF Spec, Atomicity, Abstract!Spec, Abstract!vars
=============================================================================

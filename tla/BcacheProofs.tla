---------------------------- MODULE BcacheProofs ----------------------------
(***************************************************************************)
(* Machine-checked proofs about Bcache for any number of processes,        *)
(* buffers, blocks and disk errors.  First every step is shown to keep the *)
(* parts of BcacheInv that are not about counting: sleep locks, flags, the *)
(* queue of the driver, contents, types.  Then come the reference counts,  *)
(* with the facts about cardinality, and what bread, eviction and bget     *)
(* promise.                                                                *)
(***************************************************************************)
EXTENDS Bcache, TLAPS

(* What the rest needs of the counts: a buffer without references is used   *)
(* by nobody, and the other way round.                                      *)
Referenced ==
  \A b \in Bufs : /\ refcnt[b] = 0 => \A p \in Procs : buf[p] # b
                  /\ \A p \in Procs : buf[p] = b => refcnt[b] >= 1

(* No reference count passes the number of processes (lemma CountsInRange). *)
CountsBounded ==
  refcnt' \in [Bufs -> Int] => refcnt' \in [Bufs -> 0..Cardinality(Procs)]

-----------------------------------------------------------------------------
(* A process in a call of bread, bwrite or brelse uses a buffer that has    *)
(* the block it asked for.                                                  *)
LEMMA Using ==
  ASSUME TypeOK, RefInv, WantInv, NEW p \in Procs, pc[p] \notin {"idle", "panicked"}
  PROVE  /\ buf[p] \in Bufs /\ buf[p] # None
         /\ want[p] \in Blocks /\ blockno[buf[p]] = want[p]
BY Zenon DEF TypeOK, RefInv, WantInv

(* Two processes never hold the same buffer's lock.                         *)
LEMMA Exclusive ==
  ASSUME OneHolder, NEW p \in Procs, NEW q \in Procs,
         pc[p] \in Owning, pc[q] \in Owning, buf[p] = buf[q]
  PROVE  p = q
BY Zenon DEF OneHolder

(* A buffer on the driver's queue belongs to a process that waits for it.   *)
LEMMA Queued ==
  ASSUME TypeOK, ActiveRequest, NEW i \in 1..Len(idequeue)
  PROVE  idequeue[i] \in Bufs /\ \E p \in Procs : pc[p] = "wait" /\ buf[p] = idequeue[i]
<1>1. DOMAIN idequeue = 1..Len(idequeue)
  BY DEF TypeOK
<1>2. idequeue[i] \in Range(idequeue)
  BY <1>1, Zenon DEF Range
<1>3. idequeue[i] \in {buf[p] : p \in {q \in Procs : pc[q] = "wait"}}
  BY <1>2, Zenon DEF ActiveRequest
<1> QED
  BY <1>3 DEF TypeOK

(* Moving a buffer to the front of the list keeps all the others on it.     *)
LEMMA FrontList ==
  ASSUME NEW s \in Seq(Bufs), Range(s) = Bufs, NEW b \in Bufs
  PROVE  /\ ToFront(s, b) \in Seq(Bufs)
         /\ Len(ToFront(s, b)) = Len(s)
         /\ Range(ToFront(s, b)) = Bufs
<1> DEFINE n == CHOOSE i \in DOMAIN s : s[i] = b
           f == [i \in DOMAIN s |-> IF i = 1 THEN b ELSE IF i <= n THEN s[i - 1] ELSE s[i]]
<1>1. DOMAIN s = 1..Len(s) /\ Len(s) \in Nat /\ \A i \in 1..Len(s) : s[i] \in Bufs
  OBVIOUS
<1>2. \E i \in DOMAIN s : s[i] = b
  BY Zenon DEF Range
<1>3. n \in 1..Len(s) /\ s[n] = b
  BY <1>1, <1>2, Zenon
<1>4. ToFront(s, b) = f
  BY Zenon DEF ToFront
<1> HIDE DEF n
<1>5. \A i \in 1..Len(s) : f[i] \in Bufs
  BY <1>1, <1>3
<1>6. f \in Seq(Bufs) /\ Len(f) = Len(s) /\ DOMAIN f = 1..Len(s)
  BY <1>1, <1>5
<1>7. ASSUME NEW c \in Bufs PROVE \E j \in 1..Len(s) : f[j] = c
  <2>1. PICK i \in 1..Len(s) : s[i] = c
    BY <1>1, Zenon DEF Range
  <2>2. CASE i < n
    <3>1. i + 1 \in 1..Len(s) /\ f[i + 1] = c
      BY <1>1, <1>3, <2>1, <2>2
    <3> QED
      BY <3>1, Zenon
  <2>3. CASE i = n
    <3>1. 1 \in 1..Len(s) /\ f[1] = c
      BY <1>1, <1>3, <2>1, <2>3
    <3> QED
      BY <3>1, Zenon
  <2>4. CASE i > n
    <3>1. f[i] = c
      BY <1>1, <1>3, <2>1, <2>4
    <3> QED
      BY <3>1, Zenon
  <2> QED
    BY <1>1, <1>3, <2>2, <2>3, <2>4
<1> HIDE DEF f
<1>8. Range(f) = Bufs
  BY <1>5, <1>6, <1>7 DEF Range
<1> QED
  BY <1>4, <1>6, <1>8, Zenon

(* Whoever holds a lock and does not wait for the disk has its buffer off   *)
(* the queue.                                                               *)
LEMMA NotQueued ==
  ASSUME TypeOK, OneHolder, ActiveRequest, NEW p \in Procs,
         pc[p] \in Owning, pc[p] # "wait", NEW i \in 1..Len(idequeue)
  PROVE  idequeue[i] # buf[p]
BY Queued, Exclusive DEF Owning

(* bget recycles no buffer that is queued.                                  *)
LEMMA QueuedUsed ==
  ASSUME TypeOK, Referenced, ActiveRequest, NEW i \in 1..Len(idequeue)
  PROVE  refcnt[idequeue[i]] # 0
BY Queued DEF Referenced

(* The head of a queue that is not empty.                                   *)
LEMMA QueueHead ==
  ASSUME TypeOK, idequeue # <<>>
  PROVE  1 \in 1..Len(idequeue) /\ Head(idequeue) = idequeue[1] /\ Head(idequeue) \in Bufs
BY DEF TypeOK

(* What bget does, hit or miss: it takes a reference to a buffer that has   *)
(* the block, or gives an unused one to the block that no buffer has.       *)
LEMMA BgetEffect ==
  ASSUME TypeOK, NEW p \in Procs, NEW k \in Blocks, bget(p, k)
  PROVE  \E b \in Bufs :
           /\ buf' = [buf EXCEPT ![p] = b]
           /\ refcnt' = [refcnt EXCEPT ![b] = refcnt[b] + 1]
           /\ \/ blockno[b] = k /\ blockno' = blockno /\ valid' = valid
              \/ /\ refcnt[b] = 0 /\ b \notin dirty
                 /\ \A c \in Bufs : blockno[c] # k
                 /\ blockno' = [blockno EXCEPT ![b] = k]
                 /\ valid' = valid \ {b}
<1>1. CASE bget_hit(p, k)
  BY <1>1, Zenon DEF bget_hit, Cached
<1>2. CASE bget_recycle(p, k)
  <2>1. PICK i \in DOMAIN lru :
          /\ Unused(lru[i])
          /\ buf' = [buf EXCEPT ![p] = lru[i]]
          /\ blockno' = [blockno EXCEPT ![lru[i]] = k]
          /\ valid' = valid \ {lru[i]}
          /\ refcnt' = [refcnt EXCEPT ![lru[i]] = 1]
    BY <1>2, Zenon DEF bget_recycle
  <2>2. lru[i] \in Bufs
    BY <2>1 DEF TypeOK
  <2>3. refcnt[lru[i]] = 0 /\ lru[i] \notin dirty
    BY <2>1, Zenon DEF Unused
  <2>4. refcnt' = [refcnt EXCEPT ![lru[i]] = refcnt[lru[i]] + 1]
    BY <2>1, <2>3
  <2>5. \A c \in Bufs : blockno[c] # k
    BY <1>2, Zenon DEF bget_recycle, Cached
  <2> QED
    BY <2>1, <2>2, <2>3, <2>4, <2>5, Zenon
<1> QED
  BY <1>1, <1>2, Zenon DEF bget

(* A block is in one buffer, whose lock has one holder, who wakes the       *)
(* others; nobody's buffer is given to another block.                       *)
LEMMA HolderStep ==
  ASSUME BcacheInv, Referenced, Next
  PROVE  OneHolder' /\ WantInv' /\ NoLostWakeup'
<1> USE BcacheAssumption
<1>0. TypeOK /\ RefInv /\ WantInv /\ OneHolder /\ NoLostWakeup
  BY Zenon DEF BcacheInv
<1> DEFINE Goal == OneHolder' /\ WantInv' /\ NoLostWakeup'
<1>1. ASSUME NEW p \in Procs, NEW k \in Blocks, bget(p, k) PROVE Goal
  <2>1. PICK b \in Bufs :
           /\ buf' = [buf EXCEPT ![p] = b]
           /\ \/ blockno[b] = k /\ blockno' = blockno
              \/ /\ refcnt[b] = 0
                 /\ \A c \in Bufs : blockno[c] # k
                 /\ blockno' = [blockno EXCEPT ![b] = k]
    BY <1>0, <1>1, BgetEffect
  <2>2. /\ locked' = locked /\ pc' = [pc EXCEPT ![p] = "acquire"]
        /\ want' = [want EXCEPT ![p] = k]
    BY <1>1, Zenon DEF bget, Goto
  <2>3. \A c, d \in Bufs : blockno'[c] = blockno'[d] /\ blockno'[c] # None => c = d
    <3>1. \A c, d \in Bufs : blockno[c] = blockno[d] /\ blockno[c] # None => c = d
      BY <1>0, Zenon DEF OneHolder
    <3>2. blockno \in [Bufs -> Blocks \cup {None}]
      BY <1>0, Zenon DEF TypeOK
    <3> QED
      BY <2>1, <3>1, <3>2, Zenon
  <2>4. \A q \in Procs : q # p => buf'[q] = buf[q] /\ pc'[q] = pc[q] /\ want'[q] = want[q]
    BY <1>0, <2>1, <2>2, Zenon DEF TypeOK
  <2>5. pc'[p] = "acquire" /\ buf'[p] = b /\ want'[p] = k /\ blockno'[b] = k
    BY <1>0, <2>1, <2>2 DEF TypeOK
  <2>6. OneHolder'
    BY <1>0, <2>2, <2>3, <2>4, <2>5, Zenon DEF OneHolder, Owning
  <2>7. ASSUME NEW q \in Procs, q # p, buf[q] # None PROVE blockno'[buf[q]] = blockno[buf[q]]
    BY <1>0, <2>1, <2>7, Zenon DEF TypeOK, Referenced
  <2>8. WantInv'
    BY <1>0, <2>4, <2>5, <2>7 DEF WantInv
  <2>9. NoLostWakeup'
    BY <1>0, <2>2, <2>4, <2>5 DEF NoLostWakeup
  <2> QED
    BY <2>6, <2>8, <2>9, Zenon
<1>2. ASSUME NEW p \in Procs, NEW k \in Blocks, bget_panic(p, k) PROVE Goal
  BY <1>0, <1>2 DEF bget_panic, Goto, bufVars, TypeOK, OneHolder, WantInv, NoLostWakeup, Owning
<1>3. ASSUME NEW p \in Procs, acquiresleep(p) PROVE Goal
  <2>1. buf[p] \in Bufs /\ pc[p] = "acquire"
    BY <1>0, <1>3, Using, Zenon DEF acquiresleep
  <2>2. UNCHANGED <<buf, want, blockno>>
    BY <1>3, Zenon DEF acquiresleep
  <2>3. WantInv'
    BY <1>0, <2>2, Zenon DEF WantInv
  <2>4. CASE locked[buf[p]] = None
    <3>1. locked' = [locked EXCEPT ![buf[p]] = p] /\ pc' = [pc EXCEPT ![p] = "locked"]
      BY <1>3, <2>4, Zenon DEF acquiresleep, Goto
    <3>2. OneHolder'
      BY <1>0, <2>1, <2>2, <2>4, <3>1 DEF OneHolder, Owning, TypeOK
    <3>3. NoLostWakeup'
      BY <1>0, <2>1, <2>2, <3>1 DEF NoLostWakeup, TypeOK
    <3> QED
      BY <2>3, <3>2, <3>3, Zenon
  <2>5. CASE locked[buf[p]] # None
    <3>1. locked' = locked /\ pc' = [pc EXCEPT ![p] = "asleep"]
      BY <1>3, <2>5, Zenon DEF acquiresleep, Goto
    <3> QED
      BY <1>0, <2>2, <2>3, <2>5, <3>1 DEF OneHolder, NoLostWakeup, Owning, TypeOK
  <2> QED
    BY <2>4, <2>5, Zenon
<1>4. ASSUME UNCHANGED <<locked, buf, want, blockno>>,
             \A q \in Procs : /\ pc'[q] \in Owning <=> pc[q] \in Owning
                              /\ pc'[q] = "asleep" <=> pc[q] = "asleep"
      PROVE  Goal
  BY <1>0, <1>4, Zenon DEF OneHolder, WantInv, NoLostWakeup
<1>5. ASSUME NEW p \in Procs, bread(p) \/ log_write(p) \/ bwrite(p) PROVE Goal
  BY <1>0, <1>4, <1>5 DEF bread, log_write, bwrite, Goto, bufVars, TypeOK, Owning
<1>6. ASSUME NEW p \in Procs, NEW v \in Values, modify(p, v) PROVE Goal
  BY <1>0, <1>4, <1>6, Zenon DEF modify, Goto, TypeOK, Owning
<1>7. ASSUME NEW p \in Procs, iderw(p) \/ iderw_return(p) PROVE Goal
  BY <1>0, <1>4, <1>7 DEF iderw, iderw_return, Goto, bufVars, TypeOK, Owning
<1>8. ASSUME disk_done PROVE Goal
  BY <1>0, <1>4, <1>8, Zenon DEF disk_done, bufVars, procVars
<1>9. ASSUME ideintr PROVE Goal
  BY <1>0, <1>4, <1>9, Zenon DEF ideintr, TypeOK, Owning
<1>10. ASSUME NEW p \in Procs, releasesleep(p) PROVE Goal
  <2>1. buf[p] \in Bufs /\ pc[p] = "hold"
    BY <1>0, <1>10, Using, Zenon DEF releasesleep
  <2>2. UNCHANGED <<buf, want, blockno>> /\ locked' = [locked EXCEPT ![buf[p]] = None]
    BY <1>10, Zenon DEF releasesleep
  <2>3. \A q \in Procs : pc'[q] = IF q = p THEN "release"
                                   ELSE IF pc[q] = "asleep" /\ buf[q] = buf[p]
                                        THEN "acquire" ELSE pc[q]
    BY <1>10, Zenon DEF releasesleep
  <2>4. \A q \in Procs : pc[q] \in Owning /\ buf[q] = buf[p] => q = p
    BY <1>0, <2>1, Exclusive, Zenon DEF Owning
  <2>5. OneHolder'
    <3>1. ASSUME NEW q \in Procs, pc'[q] \in Owning PROVE locked'[buf[q]] = q
      <4>1. pc[q] \in Owning /\ q # p
        BY <2>3, <3>1, Zenon DEF Owning
      <4>2. buf[q] \in Bufs /\ buf[q] # buf[p]
        BY <1>0, <2>4, <4>1, Using, Zenon DEF Owning
      <4>3. locked[buf[q]] = q
        BY <1>0, <4>1, Zenon DEF OneHolder
      <4> QED
        BY <1>0, <2>1, <2>2, <4>2, <4>3, Zenon DEF TypeOK
    <3> QED
      BY <1>0, <2>2, <3>1, Zenon DEF OneHolder
  <2>6. WantInv'
    BY <1>0, <2>2, Zenon DEF WantInv
  <2>7. NoLostWakeup'
    <3>1. ASSUME NEW q \in Procs, pc'[q] = "asleep" PROVE locked'[buf[q]] # None
      <4>1. pc[q] = "asleep" /\ buf[q] # buf[p]
        BY <2>3, <3>1, Zenon
      <4>2. buf[q] \in Bufs /\ locked[buf[q]] # None
        BY <1>0, <4>1, Using, Zenon DEF NoLostWakeup
      <4> QED
        BY <1>0, <2>1, <2>2, <4>1, <4>2, Zenon DEF TypeOK
    <3> QED
      BY <2>2, <3>1, Zenon DEF NoLostWakeup
  <2> QED
    BY <2>5, <2>6, <2>7, Zenon
<1>11. ASSUME NEW p \in Procs, brelse(p) PROVE Goal
  <2>1. /\ UNCHANGED <<locked, blockno>> /\ buf' = [buf EXCEPT ![p] = None]
        /\ want' = [want EXCEPT ![p] = None] /\ pc' = [pc EXCEPT ![p] = "idle"]
    BY <1>11, Zenon DEF brelse, Goto
  <2>2. OneHolder'
    BY <1>0, <2>1 DEF OneHolder, Owning, TypeOK
  <2>3. WantInv'
    BY <1>0, <2>1, Zenon DEF WantInv, TypeOK
  <2>4. NoLostWakeup'
    BY <1>0, <2>1, Zenon DEF NoLostWakeup, TypeOK
  <2> QED
    BY <2>2, <2>3, <2>4, Zenon
<1> QED
  BY <1>1, <1>2, <1>3, <1>5, <1>6, <1>7, <1>8, <1>9, <1>10, <1>11, Zenon DEF Next, process

(* B_VALID and B_DIRTY fit what the holder of the buffer has done.          *)
LEMMA FlagStep ==
  ASSUME BcacheInv, Referenced, Next
  PROVE  FlagInv'
<1> USE BcacheAssumption
<1>0. TypeOK /\ RefInv /\ WantInv /\ OneHolder /\ ActiveRequest /\ FlagInv
  BY Zenon DEF BcacheInv
<1>1. ASSUME NEW p \in Procs, NEW k \in Blocks, bget(p, k) PROVE FlagInv'
  <2>1. PICK b \in Bufs :
           /\ buf' = [buf EXCEPT ![p] = b]
           /\ \/ valid' = valid
              \/ refcnt[b] = 0 /\ b \notin dirty /\ valid' = valid \ {b}
    BY <1>0, <1>1, BgetEffect
  <2>2. dirty' = dirty /\ pc' = [pc EXCEPT ![p] = "acquire"]
    BY <1>1, Zenon DEF bget, Goto
  <2>3. \A q \in Procs : q # p => buf'[q] = buf[q] /\ pc'[q] = pc[q]
    BY <1>0, <2>1, <2>2, Zenon DEF TypeOK
  <2>4. pc'[p] = "acquire"
    BY <1>0, <2>2, Zenon DEF TypeOK
  <2>5. \A q \in Procs : q # p => (buf[q] \in valid' <=> buf[q] \in valid)
    BY <1>0, <2>1, Zenon DEF Referenced
  <2>6. dirty' \subseteq valid'
    BY <1>0, <2>1, <2>2, Zenon DEF FlagInv
  <2> QED
    BY <1>0, <2>2, <2>3, <2>4, <2>5, <2>6, Zenon DEF FlagInv
<1>2. ASSUME NEW p \in Procs, NEW k \in Blocks, bget_panic(p, k) PROVE FlagInv'
  BY <1>0, <1>2, Zenon DEF FlagInv, bget_panic, Goto, bufVars, TypeOK
<1>3. ASSUME NEW p \in Procs, acquiresleep(p) PROVE FlagInv'
  BY <1>0, <1>3 DEF FlagInv, acquiresleep, Goto, TypeOK
<1>4. ASSUME NEW p \in Procs, bread(p) PROVE FlagInv'
  BY <1>0, <1>4, Zenon DEF FlagInv, bread, Goto, bufVars, TypeOK
<1>5. ASSUME NEW p \in Procs, NEW v \in Values, modify(p, v) PROVE FlagInv'
  BY <1>0, <1>5, Zenon DEF FlagInv, modify, Goto, TypeOK
<1>6. ASSUME NEW p \in Procs, log_write(p) \/ bwrite(p) PROVE FlagInv'
  <2>1. /\ pc[p] \in {"hold", "modified"} /\ UNCHANGED <<buf, valid>>
        /\ dirty' = dirty \cup {buf[p]}
        /\ pc' = [pc EXCEPT ![p] = "hold"] \/ pc' = [pc EXCEPT ![p] = "iderw"]
    BY <1>6, Zenon DEF log_write, bwrite, Goto
  <2>2. buf[p] \in valid
    BY <1>0, <2>1, Zenon DEF FlagInv
  <2>3. \A q \in Procs : q # p /\ pc[q] \in Owning => buf[q] # buf[p]
    BY <1>0, <2>1, Exclusive, Zenon DEF Owning
  <2> QED
    BY <1>0, <2>1, <2>2, <2>3 DEF FlagInv, Owning, TypeOK
<1>7. ASSUME NEW p \in Procs, releasesleep(p) PROVE FlagInv'
  BY <1>0, <1>7, Zenon DEF FlagInv, releasesleep, TypeOK
<1>8. ASSUME NEW p \in Procs, brelse(p) PROVE FlagInv'
  BY <1>0, <1>8, Zenon DEF FlagInv, brelse, Goto, TypeOK
<1>9. ASSUME NEW p \in Procs, iderw(p) \/ iderw_return(p) PROVE FlagInv'
  BY <1>0, <1>9 DEF FlagInv, iderw, iderw_return, Goto, bufVars, TypeOK
<1>10. ASSUME disk_done PROVE FlagInv'
  BY <1>0, <1>10, Zenon DEF FlagInv, disk_done, bufVars, procVars
<1>11. ASSUME ideintr PROVE FlagInv'
  <2> DEFINE b == Head(idequeue)
  <2>1. idequeue # <<>>
    BY <1>0, <1>11 DEF ActiveRequest, ideintr, Idle
  <2>2. /\ valid' = valid \cup {b} /\ dirty' = dirty \ {b} /\ buf' = buf
        /\ \A q \in Procs : pc'[q] = IF pc[q] = "wait" /\ buf[q] = b THEN "woken" ELSE pc[q]
    BY <1>11, Zenon DEF ideintr
  <2>3. \A q \in Procs : pc[q] \in Owning /\ pc[q] # "wait" => buf[q] # b
    BY <1>0, <2>1, QueueHead, NotQueued, Zenon
  <2> HIDE DEF b
  <2> QED
    BY <1>0, <2>2, <2>3, Zenon DEF FlagInv, Owning
<1> QED
  BY <1>1, <1>2, <1>3, <1>4, <1>5, <1>6, <1>7, <1>8, <1>9, <1>10, <1>11, Zenon DEF Next, process

(* The disk works on the head of idequeue, and each process that waits has  *)
(* its buffer on it once.                                                   *)
LEMMA RequestStep ==
  ASSUME BcacheInv, Referenced, Next
  PROVE  ActiveRequest'
<1> USE BcacheAssumption
<1>0. TypeOK /\ RefInv /\ WantInv /\ OneHolder /\ ActiveRequest /\ FlagInv
  BY Zenon DEF BcacheInv
<1>1. ASSUME idequeue' = idequeue, device' = device,
             \A q \in Procs : /\ pc'[q] = "wait" <=> pc[q] = "wait"
                              /\ pc[q] = "wait" => buf'[q] = buf[q],
             idequeue # <<>> => /\ blockno'[Head(idequeue)] = blockno[Head(idequeue)]
                                /\ Head(idequeue) \in dirty' <=> Head(idequeue) \in dirty
      PROVE  ActiveRequest'
  <2>1. {buf'[p] : p \in {q \in Procs : pc'[q] = "wait"}}
          = {buf[p] : p \in {q \in Procs : pc[q] = "wait"}}
    BY <1>1, Zenon
  <2> QED
    BY <1>0, <1>1, <2>1, Zenon DEF ActiveRequest
<1>2. ASSUME NEW p \in Procs, NEW k \in Blocks, bget(p, k) PROVE ActiveRequest'
  <2>1. PICK b \in Bufs :
           /\ buf' = [buf EXCEPT ![p] = b]
           /\ \/ blockno' = blockno
              \/ refcnt[b] = 0 /\ blockno' = [blockno EXCEPT ![b] = k]
    BY <1>0, <1>2, BgetEffect
  <2>2. /\ UNCHANGED <<dirty, idequeue, device>> /\ pc[p] = "idle"
        /\ pc' = [pc EXCEPT ![p] = "acquire"]
    BY <1>2, Zenon DEF bget, Goto, ideVars
  <2>3. idequeue # <<>> => blockno'[Head(idequeue)] = blockno[Head(idequeue)]
    BY <1>0, <2>1, QueueHead, QueuedUsed, Zenon DEF TypeOK
  <2>4. \A q \in Procs : /\ pc'[q] = "wait" <=> pc[q] = "wait"
                         /\ pc[q] = "wait" => buf'[q] = buf[q]
    BY <1>0, <2>1, <2>2, Zenon DEF TypeOK
  <2> QED
    BY <1>1, <2>2, <2>3, <2>4, Zenon
<1>3. ASSUME NEW p \in Procs, NEW k \in Blocks, bget_panic(p, k) PROVE ActiveRequest'
  BY <1>0, <1>1, <1>3, Zenon DEF bget_panic, Goto, bufVars, ideVars, TypeOK
<1>4. ASSUME NEW p \in Procs, acquiresleep(p) PROVE ActiveRequest'
  BY <1>0, <1>1, <1>4 DEF acquiresleep, Goto, ideVars, TypeOK
<1>5. ASSUME NEW p \in Procs, bread(p) PROVE ActiveRequest'
  BY <1>0, <1>1, <1>5, Zenon DEF bread, Goto, bufVars, ideVars, TypeOK
<1>6. ASSUME NEW p \in Procs, NEW v \in Values, modify(p, v) PROVE ActiveRequest'
  BY <1>0, <1>1, <1>6, Zenon DEF modify, Goto, ideVars, TypeOK
<1>7. ASSUME NEW p \in Procs, log_write(p) \/ bwrite(p) PROVE ActiveRequest'
  <2>1. /\ pc[p] \in {"hold", "modified"} /\ UNCHANGED <<buf, blockno, idequeue, device>>
        /\ dirty' = dirty \cup {buf[p]}
        /\ pc' = [pc EXCEPT ![p] = "hold"] \/ pc' = [pc EXCEPT ![p] = "iderw"]
    BY <1>7, Zenon DEF log_write, bwrite, Goto, ideVars
  <2>2. idequeue # <<>> => Head(idequeue) # buf[p]
    BY <1>0, <2>1, QueueHead, NotQueued, Zenon DEF Owning
  <2>3. \A q \in Procs : pc'[q] = "wait" <=> pc[q] = "wait"
    BY <1>0, <2>1, Zenon DEF TypeOK
  <2> QED
    BY <1>1, <2>1, <2>2, <2>3, Zenon
<1>8. ASSUME NEW p \in Procs, releasesleep(p) PROVE ActiveRequest'
  BY <1>0, <1>1, <1>8, Zenon DEF releasesleep, ideVars, TypeOK
<1>9. ASSUME NEW p \in Procs, brelse(p) PROVE ActiveRequest'
  BY <1>0, <1>1, <1>9, Zenon DEF brelse, Goto, ideVars, TypeOK
<1>10. ASSUME NEW p \in Procs, iderw_return(p) PROVE ActiveRequest'
  <2>1. pc' = [pc EXCEPT ![p] = "hold"] /\ pc[p] = "woken"
    BY <1>0, <1>10, Zenon DEF iderw_return, Goto, FlagInv
  <2>2. UNCHANGED <<bufVars, ideVars, buf>>
    BY <1>10, Zenon DEF iderw_return
  <2> QED
    BY <1>0, <1>1, <2>1, <2>2, Zenon DEF bufVars, ideVars, TypeOK
<1>11. ASSUME disk_done PROVE ActiveRequest'
  <2>1. /\ device'.block = device.block /\ device'.write = device.write
        /\ device # Idle /\ device' # Idle
    <3>1. device \in [status : {"busy", "done", "error"}, block : Blocks,
                      write : BOOLEAN, data : Values] /\ device # Idle
      BY <1>0, <1>11 DEF TypeOK, disk_done, Idle
    <3> QED
      BY <1>11, <3>1, Zenon DEF disk_done, Idle
  <2>2. UNCHANGED <<blockno, dirty, idequeue, pc, buf>>
    BY <1>11, Zenon DEF disk_done, bufVars, procVars
  <2> QED
    BY <1>0, <2>1, <2>2, Zenon DEF ActiveRequest
<1>12. ASSUME NEW p \in Procs, iderw(p) PROVE ActiveRequest'
  <2>1. buf[p] \in Bufs /\ pc[p] = "iderw"
    BY <1>0, <1>12, Using, Zenon DEF iderw
  <2>2. /\ idequeue' = Append(idequeue, buf[p])
        /\ device' = IF idequeue = <<>> THEN idestart(buf[p]) ELSE device
        /\ UNCHANGED <<buf, blockno, dirty>>
    BY <1>12, Zenon DEF iderw, bufVars
  <2>3. \A i \in 1..Len(idequeue) : idequeue[i] # buf[p]
    BY <1>0, <2>1, NotQueued, Zenon DEF Owning
  <2>4. /\ idequeue \in Seq(Bufs) /\ DOMAIN idequeue = 1..Len(idequeue)
        /\ DOMAIN idequeue' = 1..(Len(idequeue) + 1)
        /\ idequeue' # <<>>
        /\ \A i \in 1..Len(idequeue) : idequeue'[i] = idequeue[i]
        /\ idequeue'[Len(idequeue) + 1] = buf[p]
    BY <1>0, <2>1, <2>2 DEF TypeOK
  <2>5. IsInjective(idequeue')
    <3>1. \A i, j \in 1..Len(idequeue) : idequeue[i] = idequeue[j] => i = j
      BY <1>0, <2>4, Zenon DEF ActiveRequest, IsInjective
    <3> QED
      BY <2>3, <2>4, <3>1 DEF IsInjective
  <2>6. Range(idequeue') = {buf'[r] : r \in {q \in Procs : pc'[q] = "wait"}}
    <3>1. Range(idequeue') = Range(idequeue) \cup {buf[p]}
      BY <2>4 DEF Range
    <3>2. \A q \in Procs : pc'[q] = "wait" <=> q = p \/ pc[q] = "wait"
      BY <1>0, <1>12, Zenon DEF iderw, Goto, TypeOK
    <3>3. Range(idequeue) = {buf[r] : r \in {q \in Procs : pc[q] = "wait"}}
      BY <1>0, Zenon DEF ActiveRequest
    <3> QED
      BY <2>2, <3>1, <3>2, <3>3, Zenon
  <2>7. /\ device' # Idle
        /\ device'.block = blockno'[Head(idequeue')]
        /\ device'.write <=> Head(idequeue') \in dirty'
    <3>1. CASE idequeue = <<>>
      <4>1. Head(idequeue') = buf[p] /\ device' = idestart(buf[p])
        BY <2>1, <2>2, <3>1
      <4>2. device' # Idle
        BY <4>1, Zenon DEF idestart, Idle
      <4>3. device'.block = blockno[buf[p]]
        BY <4>1, Zenon DEF idestart
      <4>4. device'.write = (buf[p] \in dirty)
        BY <4>1, Zenon DEF idestart
      <4>5. dirty' = dirty /\ blockno' = blockno
        BY <2>2, Zenon
      <4>6. device'.write <=> Head(idequeue') \in dirty'
        BY <4>1, <4>4, <4>5, Zenon
      <4> QED
        BY <4>1, <4>2, <4>3, <4>5, <4>6, Zenon
    <3>2. CASE idequeue # <<>>
      <4>1. Head(idequeue') = Head(idequeue) /\ device' = device
        BY <2>1, <2>2, <2>4, <3>2
      <4> QED
        BY <1>0, <2>2, <3>2, <4>1, Zenon DEF ActiveRequest
    <3> QED
      BY <3>1, <3>2, Zenon
  <2> QED
    BY <2>4, <2>5, <2>6, <2>7, Zenon DEF ActiveRequest
<1>13. ASSUME ideintr PROVE ActiveRequest'
  <2> DEFINE b == Head(idequeue)
             t == Tail(idequeue)
  <2>1. idequeue # <<>>
    BY <1>0, <1>13 DEF ActiveRequest, ideintr, Idle
  <2>2. /\ dirty' = dirty \ {b} /\ buf' = buf /\ blockno' = blockno
        /\ idequeue' = t /\ device' = NextCommand(t)
        /\ \A q \in Procs : pc'[q] = IF pc[q] = "wait" /\ buf[q] = b THEN "woken" ELSE pc[q]
    BY <1>13, Zenon DEF ideintr
  <2>3. /\ idequeue \in Seq(Bufs) /\ DOMAIN idequeue = 1..Len(idequeue)
        /\ Len(idequeue) \in Nat \ {0} /\ b = idequeue[1]
        /\ t \in Seq(Bufs) /\ DOMAIN t = 1..(Len(idequeue) - 1)
        /\ \A i \in 1..(Len(idequeue) - 1) : t[i] = idequeue[i + 1]
    BY <1>0, <2>1 DEF TypeOK
  <2>4. \A i, j \in 1..Len(idequeue) : idequeue[i] = idequeue[j] => i = j
    BY <1>0, <2>3, Zenon DEF ActiveRequest, IsInjective
  <2> HIDE DEF b, t
  <2>5. IsInjective(t)
    BY <2>3, <2>4 DEF IsInjective
  <2>6. Range(t) = Range(idequeue) \ {b}
    <3>1. ASSUME NEW c \in Range(t) PROVE c \in Range(idequeue) \ {b}
      <4>1. PICK i \in 1..(Len(idequeue) - 1) : c = idequeue[i + 1]
        BY <2>3, <3>1, Zenon DEF Range
      <4>2. i + 1 \in 1..Len(idequeue) /\ i + 1 # 1 /\ 1 \in 1..Len(idequeue)
        BY <2>3, <4>1
      <4> QED
        BY <2>3, <2>4, <4>1, <4>2, Zenon DEF Range
    <3>2. ASSUME NEW c \in Range(idequeue), c # b PROVE c \in Range(t)
      <4>1. PICK i \in 1..Len(idequeue) : c = idequeue[i]
        BY <2>3, <3>2, Zenon DEF Range
      <4>2. i # 1 /\ i - 1 \in 1..(Len(idequeue) - 1) /\ (i - 1) + 1 = i
        BY <2>3, <3>2, <4>1
      <4>3. t[i - 1] = c
        BY <2>3, <4>1, <4>2, Zenon
      <4> QED
        BY <2>3, <4>2, <4>3, Zenon DEF Range
    <3> QED
      BY <3>1, <3>2, Zenon
  <2>7. Range(t) = {buf'[r] : r \in {q \in Procs : pc'[q] = "wait"}}
    <3>1. Range(idequeue) = {buf[r] : r \in {q \in Procs : pc[q] = "wait"}}
      BY <1>0, Zenon DEF ActiveRequest
    <3>2. \A q \in Procs : pc'[q] = "wait" <=> pc[q] = "wait" /\ buf[q] # b
      BY <2>2, Zenon
    <3> QED
      BY <2>2, <2>6, <3>1, <3>2, Zenon
  <2>8. CASE t = <<>>
    <3>1. device' = Idle
      BY <2>2, <2>8, Zenon DEF NextCommand
    <3> QED
      BY <2>2, <2>5, <2>7, <2>8, <3>1, Zenon DEF ActiveRequest
  <2>9. CASE t # <<>>
    <3>1. device' = idestart(Head(t))
      BY <2>2, <2>9, Zenon DEF NextCommand
    <3>2. Head(t) = t[1] /\ 1 \in 1..(Len(idequeue) - 1)
      BY <2>3, <2>9
    <3>3. Head(t) # b
      BY <2>3, <2>4, <3>2
    <3>4. device' # Idle
      BY <3>1, Zenon DEF idestart, Idle
    <3>5. device'.block = blockno[Head(t)]
      BY <3>1, Zenon DEF idestart
    <3>6. device'.write = (Head(t) \in dirty)
      BY <3>1, Zenon DEF idestart
    <3>7. Head(t) \in dirty' <=> Head(t) \in dirty
      BY <2>2, <3>3, Zenon
    <3>8. device'.write <=> Head(t) \in dirty'
      BY <3>6, <3>7, Zenon
    <3> QED
      BY <2>2, <2>5, <2>7, <2>9, <3>4, <3>5, <3>8, Zenon DEF ActiveRequest
  <2> QED
    BY <2>8, <2>9, Zenon
<1> QED
  BY <1>2, <1>3, <1>4, <1>5, <1>6, <1>7, <1>8, <1>9, <1>10, <1>11, <1>12, <1>13, Zenon DEF Next, process

(* Valid buffers have the last contents of their blocks, and the disk lacks *)
(* only what a valid buffer still has to write.                             *)
LEMMA DataStep ==
  ASSUME BcacheInv, Referenced, Next
  PROVE  DataInv'
<1> USE BcacheAssumption
<1>0. TypeOK /\ RefInv /\ WantInv /\ OneHolder /\ ActiveRequest /\ FlagInv /\ DataInv
  BY Zenon DEF BcacheInv
<1>1. ASSUME blockno' = blockno, valid' = valid, data' = data, disk' = disk,
             mem' = mem, bad' = bad, idequeue' = idequeue, device' = device,
             \A b \in Bufs : Pending(b) => Pending(b)'
      PROVE  DataInv'
  <2>1. valid \subseteq Bufs
    BY <1>0, Zenon DEF TypeOK
  <2> QED
    BY <1>0, <1>1, <2>1, Zenon DEF DataInv
<1>2. ASSUME dirty' = dirty,
             \A q \in Procs : pc[q] = "modified" => pc'[q] = "modified" /\ buf'[q] = buf[q]
      PROVE  \A b \in Bufs : Pending(b) => Pending(b)'
  BY <1>2, Zenon DEF Pending
<1>3. ASSUME NEW p \in Procs, NEW k \in Blocks, bget(p, k) PROVE DataInv'
  <2>1. PICK b \in Bufs :
           /\ buf' = [buf EXCEPT ![p] = b]
           /\ \/ blockno' = blockno /\ valid' = valid
              \/ /\ refcnt[b] = 0 /\ b \notin dirty
                 /\ blockno' = [blockno EXCEPT ![b] = k] /\ valid' = valid \ {b}
    BY <1>0, <1>3, BgetEffect
  <2>2. /\ UNCHANGED <<dirty, data, idequeue, device, disk, mem, bad>>
        /\ pc[p] = "idle" /\ pc' = [pc EXCEPT ![p] = "acquire"]
    BY <1>3, Zenon DEF bget, Goto, ideVars, history
  <2>3. \A c \in Bufs : Pending(c) => Pending(c)'
    BY <1>0, <1>2, <2>1, <2>2, Zenon DEF TypeOK
  <2>4. CASE blockno' = blockno /\ valid' = valid
    BY <1>1, <2>2, <2>3, <2>4, Zenon
  <2>5. CASE /\ refcnt[b] = 0 /\ b \notin dirty
             /\ blockno' = [blockno EXCEPT ![b] = k] /\ valid' = valid \ {b}
    <3>1. ~Pending(b)
      BY <1>0, <2>5, Zenon DEF Pending, Referenced
    <3>2. \A c \in valid' : c \in valid /\ c \in Bufs /\ c # b /\ blockno'[c] = blockno[c]
      BY <1>0, <2>5, Zenon DEF TypeOK
    <3>3. \A c \in valid : c # b => c \in valid'
      BY <2>5, Zenon
    <3> QED
      BY <1>0, <2>2, <2>3, <3>1, <3>2, <3>3 DEF DataInv
  <2> QED
    BY <2>1, <2>4, <2>5, Zenon
<1>4. ASSUME NEW p \in Procs, NEW k \in Blocks, bget_panic(p, k) PROVE DataInv'
  BY <1>0, <1>1, <1>2, <1>4, Zenon DEF bget_panic, Goto, bufVars, ideVars, history, TypeOK
<1>5. ASSUME NEW p \in Procs, acquiresleep(p) PROVE DataInv'
  BY <1>0, <1>1, <1>2, <1>5, Zenon DEF acquiresleep, Goto, ideVars, history, TypeOK
<1>6. ASSUME NEW p \in Procs, bread(p) PROVE DataInv'
  BY <1>0, <1>1, <1>2, <1>6, Zenon DEF bread, Goto, bufVars, ideVars, history, TypeOK
<1>7. ASSUME NEW p \in Procs, releasesleep(p) PROVE DataInv'
  BY <1>0, <1>1, <1>2, <1>7, Zenon DEF releasesleep, ideVars, history, TypeOK
<1>8. ASSUME NEW p \in Procs, brelse(p) PROVE DataInv'
  BY <1>0, <1>1, <1>2, <1>8, Zenon DEF brelse, Goto, ideVars, history, TypeOK
<1>9. ASSUME NEW p \in Procs, iderw_return(p) PROVE DataInv'
  BY <1>0, <1>1, <1>2, <1>9, Zenon DEF iderw_return, Goto, bufVars, ideVars, history, TypeOK
<1>10. ASSUME NEW p \in Procs, log_write(p) \/ bwrite(p) PROVE DataInv'
  <2>1. /\ pc[p] \in {"hold", "modified"} /\ dirty' = dirty \cup {buf[p]}
        /\ pc' = [pc EXCEPT ![p] = "hold"] \/ pc' = [pc EXCEPT ![p] = "iderw"]
        /\ UNCHANGED <<buf, blockno, valid, data, disk, mem, bad, idequeue, device>>
    BY <1>10, Zenon DEF log_write, bwrite, Goto, ideVars, history
  <2>2. \A q \in Procs : q # p => pc'[q] = pc[q]
    BY <1>0, <2>1, Zenon DEF TypeOK
  <2>3. \A b \in Bufs : Pending(b) => Pending(b)'
    BY <2>1, <2>2, Zenon DEF Pending
  <2> QED
    BY <1>1, <2>1, <2>3, Zenon
<1>11. ASSUME NEW p \in Procs, NEW v \in Values, modify(p, v) PROVE DataInv'
  <2> DEFINE b == buf[p]
  <2>1. /\ pc[p] = "hold" /\ b \in Bufs /\ want[p] \in Blocks /\ blockno[b] = want[p]
    BY <1>0, <1>11, Using, Zenon DEF modify
  <2>2. /\ data' = [data EXCEPT ![b] = v] /\ mem' = [mem EXCEPT ![want[p]] = v]
        /\ pc' = [pc EXCEPT ![p] = "modified"]
        /\ UNCHANGED <<buf, blockno, valid, dirty, disk, bad, idequeue, device>>
    BY <1>11, Zenon DEF modify, Goto, ideVars
  <2>3. b \in valid
    BY <1>0, <2>1, Zenon DEF FlagInv
  <2>4. \A c \in Bufs : c # b => blockno[c] # want[p]
    BY <1>0, <2>1, Zenon DEF OneHolder
  <2>5. idequeue # <<>> => Head(idequeue) # b /\ Head(idequeue) \in Bufs
    BY <1>0, <2>1, QueueHead, NotQueued, Zenon DEF Owning
  <2>6. \A c \in Bufs : Pending(c) => Pending(c)'
    BY <1>0, <1>2, <2>1, <2>2, Zenon DEF TypeOK
  <2>7. \A c \in Bufs : c = b => Pending(c)'
    BY <1>0, <2>1, <2>2, Zenon DEF Pending, TypeOK
  <2>8. data'[b] = v /\ \A c \in Bufs : c # b => data'[c] = data[c]
    BY <1>0, <2>1, <2>2, Zenon DEF TypeOK
  <2>9. mem'[want[p]] = v /\ \A k \in Blocks : k # want[p] => mem'[k] = mem[k]
    BY <1>0, <2>1, <2>2, Zenon DEF TypeOK
  <2>10. valid \subseteq Bufs
    BY <1>0, Zenon DEF TypeOK
  <2> HIDE DEF b
  <2>11. \A c \in valid' : /\ blockno'[c] \in Blocks
                           /\ blockno'[c] \notin bad' => data'[c] = mem'[blockno'[c]]
    BY <1>0, <2>1, <2>2, <2>4, <2>8, <2>9, <2>10 DEF DataInv
  <2>12. \A k \in Blocks \ bad' :
           disk'[k] # mem'[k] => \E c \in valid' : blockno'[c] = k /\ Pending(c)'
    <3> SUFFICES ASSUME NEW k \in Blocks \ bad', disk'[k] # mem'[k]
                 PROVE  \E c \in valid' : blockno'[c] = k /\ Pending(c)'
      BY Zenon
    <3>1. CASE k # want[p]
      <4>1. k \in Blocks \ bad /\ disk[k] # mem[k]
        BY <2>2, <2>9, <3>1, Zenon
      <4>2. PICK c \in valid : blockno[c] = k /\ Pending(c)
        BY <1>0, <4>1, Zenon DEF DataInv
      <4> QED
        BY <2>2, <2>6, <2>10, <4>2, Zenon
    <3>2. CASE k = want[p]
      BY <2>1, <2>2, <2>3, <2>7, <3>2, Zenon
    <3> QED
      BY <3>1, <3>2, Zenon
  <2> QED
    BY <1>0, <2>2, <2>5, <2>8, <2>11, <2>12, Zenon DEF DataInv
<1>12. ASSUME NEW p \in Procs, iderw(p) PROVE DataInv'
  <2>1. buf[p] \in Bufs /\ pc[p] = "iderw" /\ idequeue \in Seq(Bufs)
    BY <1>0, <1>12, Using, Zenon DEF iderw, TypeOK
  <2>2. /\ idequeue' = Append(idequeue, buf[p])
        /\ device' = IF idequeue = <<>> THEN idestart(buf[p]) ELSE device
        /\ pc' = [pc EXCEPT ![p] = "wait"]
        /\ UNCHANGED <<buf, blockno, valid, dirty, data, disk, mem, bad>>
    BY <1>12, Zenon DEF iderw, Goto, bufVars, history
  <2>3. \A c \in Bufs : Pending(c) => Pending(c)'
    BY <1>0, <1>2, <2>1, <2>2, Zenon DEF TypeOK
  <2>4. /\ device'.data = data'[Head(idequeue')]
        /\ device'.status = "done" /\ device'.write => disk'[device'.block] = device'.data
        /\ device'.status = "error" => device'.block \in bad'
    <3>1. CASE idequeue = <<>>
      <4>1. Head(idequeue') = buf[p] /\ device' = idestart(buf[p])
        BY <2>1, <2>2, <3>1
      <4>2. device'.data = data[buf[p]] /\ device'.status = "busy"
        BY <4>1, Zenon DEF idestart
      <4> QED
        BY <2>2, <4>1, <4>2, Zenon
    <3>2. CASE idequeue # <<>>
      <4>1. Head(idequeue') = Head(idequeue) /\ device' = device
        BY <2>1, <2>2, <3>2
      <4> QED
        BY <1>0, <2>2, <3>2, <4>1, Zenon DEF DataInv
    <3> QED
      BY <3>1, <3>2, Zenon
  <2>5. valid \subseteq Bufs
    BY <1>0, Zenon DEF TypeOK
  <2> QED
    BY <1>0, <2>2, <2>3, <2>4, <2>5, Zenon DEF DataInv
<1>13. ASSUME idequeue # <<>>
       PROVE  LET h == Head(idequeue) IN
              /\ h \in Bufs
              /\ device.block \in Blocks /\ device.block = blockno[h]
              /\ device.write \in BOOLEAN
              /\ device.write <=> h \in dirty
              /\ device.data = data[h] /\ device.data \in Values
              /\ device.status \in {"busy", "done", "error"}
  <2>1. device # Idle /\ device.block = blockno[Head(idequeue)]
    BY <1>0, <1>13, Zenon DEF ActiveRequest
  <2>2. device.write <=> Head(idequeue) \in dirty
    BY <1>0, <1>13, Zenon DEF ActiveRequest
  <2>3. device \in [status : {"busy", "done", "error"}, block : Blocks,
                    write : BOOLEAN, data : Values]
    BY <1>0, <2>1, Zenon DEF TypeOK
  <2>4. device.data = data[Head(idequeue)]
    BY <1>0, <1>13, Zenon DEF DataInv
  <2> QED
    BY <1>0, <1>13, <2>1, <2>2, <2>3, <2>4, QueueHead, Zenon
<1>14. ASSUME disk_done PROVE DataInv'
  <2> DEFINE h == Head(idequeue)
             k == device.block
  <2>1. idequeue # <<>>
    BY <1>0, <1>14 DEF ActiveRequest, disk_done, Idle
  <2>2. /\ h \in Bufs /\ k \in Blocks /\ k = blockno[h] /\ device.data = data[h]
        /\ device.write <=> h \in dirty
        /\ device.write \in BOOLEAN /\ device.data \in Values
    BY <1>13, <2>1, Zenon
  <2>3. UNCHANGED <<blockno, valid, dirty, data, idequeue, pc, buf, mem>>
    BY <1>14, Zenon DEF disk_done, bufVars, procVars
  <2>4. \A c \in Bufs : Pending(c) => Pending(c)'
    BY <1>2, <2>3, Zenon
  <2>5. valid \subseteq Bufs /\ device # Idle /\
        device \in [status : {"busy", "done", "error"}, block : Blocks,
                    write : BOOLEAN, data : Values]
    BY <1>0, <2>1, Zenon DEF TypeOK, ActiveRequest
  <2>6. CASE /\ device' = [device EXCEPT !.status = "done"]
             /\ disk' = IF device.write THEN [disk EXCEPT ![k] = device.data] ELSE disk
             /\ bad' = bad
    <3>1. /\ device'.block = k /\ device'.write = device.write
          /\ device'.data = device.data /\ device'.status = "done"
      BY <2>5, <2>6, Zenon
    <3>2. device.write => disk'[k] = device.data
      BY <1>0, <2>2, <2>6, Zenon DEF TypeOK
    <3>3. \A j \in Blocks : j # k \/ ~device.write => disk'[j] = disk[j]
      BY <1>0, <2>6, Zenon DEF TypeOK
    <3>4. device.write /\ k \notin bad => device.data = mem[k]
      BY <1>0, <2>2, Zenon DEF DataInv, FlagInv
    <3> HIDE DEF h, k
    <3>5. ASSUME NEW j \in Blocks \ bad, disk'[j] # mem[j] PROVE disk[j] # mem[j]
      BY <3>2, <3>3, <3>4, <3>5, Zenon
    <3>6. \A j \in Blocks \ bad' :
            disk'[j] # mem'[j] => \E c \in valid' : blockno'[c] = j /\ Pending(c)'
      BY <1>0, <2>3, <2>4, <2>5, <2>6, <3>5 DEF DataInv
    <3>7. \A c \in valid' : /\ blockno'[c] \in Blocks
                            /\ blockno'[c] \notin bad' => data'[c] = mem'[blockno'[c]]
      BY <1>0, <2>3, <2>6, Zenon DEF DataInv
    <3>8. /\ device'.data = data'[Head(idequeue')]
          /\ device'.status = "done" /\ device'.write => disk'[device'.block] = device'.data
          /\ device'.status = "error" => device'.block \in bad'
      BY <2>2, <2>3, <3>1, <3>2, Zenon DEF h
    <3> QED
      BY <3>6, <3>7, <3>8, Zenon DEF DataInv
  <2>7. CASE /\ device' = [device EXCEPT !.status = "error"]
             /\ bad' = bad \cup {k} /\ disk' = disk
    <3>1. /\ device'.block = k /\ device'.data = device.data /\ device'.status = "error"
      BY <2>5, <2>7, Zenon
    <3> HIDE DEF h, k
    <3>2. \A j \in Blocks \ bad' :
            disk'[j] # mem'[j] => \E c \in valid' : blockno'[c] = j /\ Pending(c)'
      BY <1>0, <2>3, <2>4, <2>5, <2>7, Zenon DEF DataInv
    <3>3. \A c \in valid' : /\ blockno'[c] \in Blocks
                            /\ blockno'[c] \notin bad' => data'[c] = mem'[blockno'[c]]
      BY <1>0, <2>3, <2>7, Zenon DEF DataInv
    <3>4. /\ device'.data = data'[Head(idequeue')]
          /\ device'.status = "done" /\ device'.write => disk'[device'.block] = device'.data
          /\ device'.status = "error" => device'.block \in bad'
      BY <2>2, <2>3, <2>7, <3>1 DEF h
    <3> QED
      BY <3>2, <3>3, <3>4, Zenon DEF DataInv
  <2> QED
    BY <1>14, <2>6, <2>7, Zenon DEF disk_done
<1>15. ASSUME ideintr PROVE DataInv'
  <2> DEFINE h == Head(idequeue)
             k == device.block
             t == Tail(idequeue)
  <2>1. idequeue # <<>>
    BY <1>0, <1>15 DEF ActiveRequest, ideintr, Idle
  <2>2. /\ h \in Bufs /\ k \in Blocks /\ k = blockno[h] /\ device.data = data[h]
        /\ device.write <=> h \in dirty
    BY <1>13, <2>1, Zenon
  <2>3. /\ data' = IF h \notin dirty /\ device.status = "done"
                   THEN [data EXCEPT ![h] = disk[k]] ELSE data
        /\ valid' = valid \cup {h} /\ dirty' = dirty \ {h}
        /\ idequeue' = t /\ device' = NextCommand(t)
        /\ \A q \in Procs : pc'[q] = IF pc[q] = "wait" /\ buf[q] = h THEN "woken" ELSE pc[q]
        /\ UNCHANGED <<blockno, disk, buf, mem, bad>>
        /\ device.status \in {"done", "error"}
    BY <1>15, Zenon DEF ideintr, history
  <2>4. \A q \in Procs : pc[q] = "modified" => buf[q] # h
    BY <1>0, <2>1, QueueHead, NotQueued, Zenon DEF Owning
  <2>5. h \in valid => h \in dirty
    <3>1. PICK w \in Procs : pc[w] = "wait" /\ buf[w] = h
      BY <1>0, <2>1, QueueHead, Queued, Zenon
    <3> QED
      BY <1>0, <3>1, Zenon DEF FlagInv
  <2>6. k \notin bad => device.status = "done"
    BY <1>0, <2>1, <2>3, Zenon DEF DataInv
  <2>7. h \in dirty /\ k \notin bad => data[h] = mem[k] /\ disk[k] = mem[k]
    BY <1>0, <2>1, <2>2, <2>6, Zenon DEF DataInv, FlagInv
  <2>8. h \notin dirty /\ k \notin bad => disk[k] = mem[k]
    <3>1. ASSUME h \notin dirty, k \notin bad, disk[k] # mem[k] PROVE FALSE
      <4>1. PICK c \in valid : blockno[c] = k /\ Pending(c)
        BY <1>0, <2>2, <3>1, Zenon DEF DataInv
      <4>2. c = h
        BY <1>0, <2>2, <4>1 DEF OneHolder, TypeOK
      <4> QED
        BY <2>5, <3>1, <4>1, <4>2, Zenon
    <3> QED
      BY <3>1, Zenon
  <2>9. k \notin bad => data'[h] = mem[k]
    BY <1>0, <2>2, <2>3, <2>6, <2>7, <2>8, Zenon DEF TypeOK
  <2>10. \A c \in Bufs : c # h => data'[c] = data[c]
    BY <1>0, <2>3, Zenon DEF TypeOK
  <2>11. valid \subseteq Bufs
    BY <1>0, Zenon DEF TypeOK
  <2>12. \A c \in Bufs : c # h /\ Pending(c) => Pending(c)'
    BY <2>3, Zenon DEF Pending
  <2>13. idequeue' # <<>> => /\ device'.data = data'[Head(idequeue')]
                            /\ device'.status = "busy"
    <3>1. SUFFICES ASSUME t # <<>> PROVE device'.data = data'[Head(t)] /\ device'.status = "busy"
      BY <2>3, Zenon
    <3>2. device' = idestart(Head(t))
      BY <2>3, <3>1, Zenon DEF NextCommand
    <3>3. device'.data = data[Head(t)] /\ device'.status = "busy"
      BY <3>2, Zenon DEF idestart
    <3>4. /\ Head(t) = idequeue[2] /\ h = idequeue[1] /\ Head(t) \in Bufs
          /\ 1 \in DOMAIN idequeue /\ 2 \in DOMAIN idequeue
      BY <1>0, <2>1, <3>1 DEF TypeOK
    <3>5. Head(t) # h
      BY <1>0, <3>4 DEF ActiveRequest, IsInjective
    <3> QED
      BY <2>10, <3>3, <3>4, <3>5, Zenon
  <2> HIDE DEF h, k, t
  <2>14. \A c \in valid' : /\ blockno'[c] \in Blocks
                           /\ blockno'[c] \notin bad' => data'[c] = mem'[blockno'[c]]
    BY <1>0, <2>2, <2>3, <2>9, <2>10, <2>11 DEF DataInv
  <2>15. \A j \in Blocks \ bad' :
           disk'[j] # mem'[j] => \E c \in valid' : blockno'[c] = j /\ Pending(c)'
    <3>1. ASSUME NEW j \in Blocks \ bad, disk[j] # mem[j]
          PROVE  \E c \in valid' : blockno'[c] = j /\ Pending(c)'
      <4>1. PICK c \in valid : blockno[c] = j /\ Pending(c)
        BY <1>0, <3>1, Zenon DEF DataInv
      <4>2. c # h
        BY <2>2, <2>4, <2>7, <3>1, <4>1, Zenon DEF Pending
      <4> QED
        BY <2>3, <2>11, <2>12, <4>1, <4>2, Zenon
    <3> QED
      BY <2>3, <3>1, Zenon
  <2> QED
    BY <2>13, <2>14, <2>15, Zenon DEF DataInv
<1> QED
  BY <1>3, <1>4, <1>5, <1>6, <1>7, <1>8, <1>9, <1>10, <1>11, <1>12, <1>14, <1>15, Zenon DEF Next, process

(* The types, given the bound on the reference counts.                      *)
LEMMA TypeStep ==
  ASSUME BcacheInv, Next, Cardinality(Procs) \in Nat, CountsBounded
  PROVE  TypeOK'
<1> USE BcacheAssumption
<1>0. TypeOK /\ RefInv /\ WantInv /\ ActiveRequest /\ DataInv /\ FlagInv
  BY Zenon DEF BcacheInv
<1>1. /\ buf \in [Procs -> Bufs \cup {None}] /\ locked \in [Bufs -> Procs \cup {None}]
      /\ blockno \in [Bufs -> Blocks \cup {None}] /\ valid \subseteq Bufs
  BY <1>0, Zenon DEF TypeOK
<1>3. ASSUME NEW p \in Procs, NEW k \in Blocks, bget(p, k) PROVE TypeOK'
  <2>1. PICK b \in Bufs :
           /\ buf' = [buf EXCEPT ![p] = b]
           /\ refcnt' = [refcnt EXCEPT ![b] = refcnt[b] + 1]
           /\ \/ blockno' = blockno /\ valid' = valid
              \/ blockno' = [blockno EXCEPT ![b] = k] /\ valid' = valid \ {b}
    BY <1>0, <1>3, BgetEffect
  <2>2. refcnt' \in [Bufs -> 0..Cardinality(Procs)]
    BY <1>0, <2>1 DEF TypeOK, CountsBounded
  <2>3. UNCHANGED <<lru, dirty, data, locked, idequeue, device, disk, mem, bad>>
    BY <1>3, Zenon DEF bget, ideVars, history
  <2>4. /\ buf' \in [Procs -> Bufs \cup {None}] /\ valid' \subseteq Bufs
        /\ blockno' \in [Bufs -> Blocks \cup {None}]
    BY <1>1, <2>1
  <2>5. pc' \in [Procs -> Labels] /\ want' \in [Procs -> Blocks \cup {None}]
    BY <1>0, <1>3, Zenon DEF TypeOK, bget, Goto, Labels
  <2> QED
    BY <1>0, <2>2, <2>3, <2>4, <2>5, Zenon DEF TypeOK
<1>4. ASSUME NEW p \in Procs, NEW k \in Blocks, bget_panic(p, k) PROVE TypeOK'
  BY <1>0, <1>4, Zenon DEF TypeOK, bget_panic, Goto, Labels, bufVars, ideVars, history
<1>5. ASSUME NEW p \in Procs, acquiresleep(p) PROVE TypeOK'
  <2>1. locked' = locked \/ locked' = [locked EXCEPT ![buf[p]] = p]
    BY <1>5, Zenon DEF acquiresleep
  <2>2. locked' \in [Bufs -> Procs \cup {None}]
    BY <1>1, <2>1, Zenon
  <2>3. pc' = [pc EXCEPT ![p] = "locked"] \/ pc' = [pc EXCEPT ![p] = "asleep"]
    BY <1>5, Zenon DEF acquiresleep, Goto
  <2>4. pc' \in [Procs -> Labels]
    BY <1>0, <2>3, Zenon DEF TypeOK, Labels
  <2>5. UNCHANGED <<lru, blockno, valid, dirty, refcnt, data, buf, want, ideVars, history>>
    BY <1>5, Zenon DEF acquiresleep
  <2> QED
    BY <1>0, <2>2, <2>4, <2>5, Zenon DEF TypeOK, ideVars, history
<1>6. ASSUME NEW p \in Procs, bread(p) PROVE TypeOK'
  BY <1>0, <1>6, Zenon DEF TypeOK, bread, Goto, Labels, bufVars, ideVars, history
<1>7. ASSUME NEW p \in Procs, NEW v \in Values, modify(p, v) PROVE TypeOK'
  BY <1>0, <1>7, Zenon DEF TypeOK, modify, Goto, Labels, ideVars
<1>8. ASSUME NEW p \in Procs, log_write(p) \/ bwrite(p) PROVE TypeOK'
  <2>1. buf[p] \in Bufs
    BY <1>0, <1>8, Using, Zenon DEF log_write, bwrite
  <2> QED
    BY <1>0, <1>8, <2>1, Zenon DEF TypeOK, log_write, bwrite, Goto, Labels, ideVars, history
<1>9. ASSUME NEW p \in Procs, releasesleep(p) PROVE TypeOK'
  BY <1>0, <1>9, Zenon DEF TypeOK, releasesleep, Labels, ideVars, history
<1>10. ASSUME NEW p \in Procs, brelse(p) PROVE TypeOK'
  <2>1. buf[p] \in Bufs
    BY <1>0, <1>10, Using, Zenon DEF brelse
  <2>2. refcnt' \in [Bufs -> 0..Cardinality(Procs)]
    BY <1>0, <1>10, <2>1 DEF TypeOK, brelse, CountsBounded
  <2>3. lru' \in Seq(Bufs) /\ Len(lru') = Cardinality(Bufs) /\ Range(lru') = Bufs
    BY <1>0, <1>10, <2>1, FrontList, Zenon DEF TypeOK, brelse
  <2>4. UNCHANGED <<blockno, valid, dirty, data, locked, idequeue, device, disk, mem, bad>>
    BY <1>10, Zenon DEF brelse, ideVars, history
  <2>5. /\ pc' \in [Procs -> Labels] /\ want' \in [Procs -> Blocks \cup {None}]
        /\ buf' \in [Procs -> Bufs \cup {None}]
    BY <1>0, <1>10, Zenon DEF TypeOK, brelse, Goto, Labels
  <2> QED
    BY <1>0, <2>2, <2>3, <2>4, <2>5, Zenon DEF TypeOK
<1>11. ASSUME NEW b \in Bufs, blockno[b] \in Blocks
       PROVE  idestart(b) \in [status : {"busy", "done", "error"}, block : Blocks,
                                write : BOOLEAN, data : Values]
  <2>1. (b \in dirty) \in BOOLEAN /\ data[b] \in Values
    BY <1>0 DEF TypeOK
  <2> QED
    BY <1>11, <2>1, Zenon DEF idestart
<1>12. ASSUME NEW p \in Procs, iderw(p) PROVE TypeOK'
  <2>1. buf[p] \in Bufs /\ blockno[buf[p]] \in Blocks
    BY <1>0, <1>12, Using, Zenon DEF iderw
  <2>2. device' = device \/ device' = idestart(buf[p])
    BY <1>12, Zenon DEF iderw
  <2>3. idequeue' \in Seq(Bufs) /\ pc' \in [Procs -> Labels]
    BY <1>0, <1>12, <2>1 DEF TypeOK, iderw, Goto, Labels
  <2>4. UNCHANGED <<bufVars, disk, buf, want, history>>
    BY <1>12, Zenon DEF iderw
  <2> QED
    BY <1>0, <1>11, <2>1, <2>2, <2>3, <2>4 DEF TypeOK, bufVars, history
<1>13. ASSUME NEW p \in Procs, iderw_return(p) PROVE TypeOK'
  BY <1>0, <1>13, Zenon DEF TypeOK, iderw_return, Goto, Labels, bufVars, ideVars, history
<1>14. ASSUME disk_done PROVE TypeOK'
  <2>1. device \in [status : {"busy", "done", "error"}, block : Blocks,
                    write : BOOLEAN, data : Values]
    BY <1>0, <1>14 DEF TypeOK, disk_done, Idle
  <2>2. device' \in [status : {"busy", "done", "error"}, block : Blocks,
                     write : BOOLEAN, data : Values]
    BY <1>14, <2>1, Zenon DEF disk_done
  <2>3. disk' \in [Blocks -> Values] /\ bad' \subseteq Blocks
    BY <1>0, <1>14, <2>1, Zenon DEF TypeOK, disk_done
  <2>4. UNCHANGED <<bufVars, idequeue, procVars, mem>>
    BY <1>14, Zenon DEF disk_done
  <2> QED
    BY <1>0, <2>2, <2>3, <2>4, Zenon DEF TypeOK, bufVars, procVars
<1>15. ASSUME ideintr PROVE TypeOK'
  <2>1. idequeue # <<>> /\ device \in [status : {"busy", "done", "error"}, block : Blocks,
                    write : BOOLEAN, data : Values]
    BY <1>0, <1>15 DEF TypeOK, ideintr, Idle, ActiveRequest
  <2>2. Head(idequeue) \in Bufs /\ Tail(idequeue) \in Seq(Bufs)
    BY <1>0, <2>1 DEF TypeOK
  <2>3. \A i \in 1..Len(idequeue) : blockno[idequeue[i]] \in Blocks
    BY <1>0, Queued, Using
  <2>4. Tail(idequeue) # <<>> => Head(Tail(idequeue)) = idequeue[2] /\ 2 \in 1..Len(idequeue)
    BY <1>0, <2>1 DEF TypeOK
  <2>5. device' = Idle \/ device' \in [status : {"busy", "done", "error"}, block : Blocks,
                     write : BOOLEAN, data : Values]
    BY <1>0, <1>11, <1>15, <2>3, <2>4, Queued, Zenon DEF ideintr, NextCommand
  <2>6. data' \in [Bufs -> Values]
    BY <1>0, <1>15, <2>1, <2>2, Zenon DEF TypeOK, ideintr
  <2>7. valid' \subseteq Bufs /\ dirty' \subseteq Bufs /\ pc' \in [Procs -> Labels]
    BY <1>0, <1>15, <2>2, Zenon DEF TypeOK, ideintr, Labels
  <2>8. idequeue' = Tail(idequeue) /\ UNCHANGED <<lru, blockno, refcnt, locked, disk, buf, want, history>>
    BY <1>15, Zenon DEF ideintr
  <2> QED
    BY <1>0, <2>2, <2>5, <2>6, <2>7, <2>8, Zenon DEF TypeOK, history
<1> QED
  BY <1>3, <1>4, <1>5, <1>6, <1>7, <1>8, <1>9, <1>10, <1>12, <1>13, <1>14, <1>15, Zenon DEF Next, process

-----------------------------------------------------------------------------
(* The reference counts. *)
INSTANCE FiniteSetTheorems

(* The counts are what the rest of the invariant takes them for.            *)
LEMMA References ==
  ASSUME TypeOK, RefInv
  PROVE  Referenced
<1> SUFFICES ASSUME NEW b \in Bufs
             PROVE  /\ refcnt[b] = 0 => \A p \in Procs : buf[p] # b
                    /\ \A p \in Procs : buf[p] = b => refcnt[b] >= 1
  BY Zenon DEF Referenced
<1> DEFINE U == {p \in Procs : buf[p] = b}
<1>1. IsFiniteSet(U) /\ Cardinality(U) \in Nat
  BY BcacheAssumption, FS_Subset, FS_CardinalityType, Zenon
<1>2. Cardinality(U) = 0 <=> U = {}
  BY <1>1, FS_EmptySet, Zenon
<1>3. refcnt[b] = Cardinality(U)
  BY Zenon DEF RefInv
<1>4. ASSUME NEW p \in Procs, buf[p] = b PROVE U # {}
  BY <1>4, Zenon
<1> QED
  BY <1>1, <1>2, <1>3, <1>4

(* A reference count is the number of processes that use the buffer.        *)
LEMMA RefStep ==
  ASSUME BcacheInv, Next
  PROVE  RefInv'
<1> USE BcacheAssumption
<1>0. TypeOK /\ RefInv /\ WantInv
  BY Zenon DEF BcacheInv
<1>1. ASSUME NEW p \in Procs, NEW k \in Blocks, bget(p, k) PROVE RefInv'
  <2>1. pc[p] = "idle" /\ buf[p] = None
    BY <1>0, <1>1, Zenon DEF bget, RefInv
  <2>2. PICK b \in Bufs : /\ buf' = [buf EXCEPT ![p] = b]
                          /\ refcnt' = [refcnt EXCEPT ![b] = refcnt[b] + 1]
    BY <1>0, <1>1, BgetEffect, Zenon
  <2>3. ASSUME NEW c \in Bufs
        PROVE  refcnt'[c] = Cardinality({q \in Procs : buf'[q] = c})
    <3> DEFINE U == {q \in Procs : buf[q] = c}
    <3>1. IsFiniteSet(U) /\ refcnt[c] = Cardinality(U)
      BY <1>0, FS_Subset, Zenon DEF RefInv
    <3>2. CASE c = b
      <4>1. {q \in Procs : buf'[q] = c} = U \cup {p} /\ p \notin U
        BY <1>0, <2>1, <2>2, <3>2 DEF TypeOK
      <4>2. Cardinality(U \cup {p}) = Cardinality(U) + 1
        BY <3>1, <4>1, FS_AddElement, Zenon
      <4>3. refcnt'[c] = refcnt[c] + 1
        BY <1>0, <2>2, <3>2, Zenon DEF TypeOK
      <4> QED
        BY <3>1, <4>1, <4>2, <4>3, Zenon
    <3>3. CASE c # b
      <4>1. {q \in Procs : buf'[q] = c} = U
        BY <1>0, <2>1, <2>2, <3>3, Zenon DEF TypeOK
      <4>2. refcnt'[c] = refcnt[c]
        BY <1>0, <2>2, <3>3, Zenon DEF TypeOK
      <4> QED
        BY <3>1, <4>1, <4>2, Zenon
    <3> QED
      BY <3>2, <3>3, Zenon
  <2>4. \A q \in Procs : buf'[q] = None <=> pc'[q] \in {"idle", "panicked"}
    BY <1>0, <1>1, <2>2, Zenon DEF bget, Goto, RefInv, TypeOK
  <2> QED
    BY <2>3, <2>4, Zenon DEF RefInv
<1>2. ASSUME NEW p \in Procs, brelse(p) PROVE RefInv'
  <2>1. buf[p] \in Bufs /\ buf[p] # None
    BY <1>0, <1>2, Using, Zenon DEF brelse
  <2>2. /\ buf' = [buf EXCEPT ![p] = None]
        /\ refcnt' = [refcnt EXCEPT ![buf[p]] = refcnt[buf[p]] - 1]
    BY <1>2, Zenon DEF brelse
  <2>3. ASSUME NEW c \in Bufs
        PROVE  refcnt'[c] = Cardinality({q \in Procs : buf'[q] = c})
    <3> DEFINE U == {q \in Procs : buf[q] = c}
    <3>1. IsFiniteSet(U) /\ refcnt[c] = Cardinality(U)
      BY <1>0, FS_Subset, Zenon DEF RefInv
    <3>2. CASE c = buf[p]
      <4>1. {q \in Procs : buf'[q] = c} = U \ {p} /\ p \in U
        BY <1>0, <2>1, <2>2, <3>2, Zenon DEF TypeOK
      <4>2. Cardinality(U \ {p}) = Cardinality(U) - 1
        BY <3>1, <4>1, FS_RemoveElement, Zenon
      <4>3. refcnt'[c] = refcnt[c] - 1
        BY <1>0, <2>1, <2>2, <3>2, Zenon DEF TypeOK
      <4> QED
        BY <3>1, <4>1, <4>2, <4>3, Zenon
    <3>3. CASE c # buf[p]
      <4>1. {q \in Procs : buf'[q] = c} = U
        BY <1>0, <2>1, <2>2, <3>3, Zenon DEF TypeOK
      <4>2. refcnt'[c] = refcnt[c]
        BY <1>0, <2>1, <2>2, <3>3, Zenon DEF TypeOK
      <4> QED
        BY <3>1, <4>1, <4>2, Zenon
    <3> QED
      BY <3>2, <3>3, Zenon
  <2>4. \A q \in Procs : buf'[q] = None <=> pc'[q] \in {"idle", "panicked"}
    BY <1>0, <1>2, Zenon DEF brelse, Goto, RefInv, TypeOK
  <2> QED
    BY <2>3, <2>4, Zenon DEF RefInv
<1>3. ASSUME UNCHANGED <<buf, refcnt>>,
             \A q \in Procs : pc'[q] \in {"idle", "panicked"} <=> pc[q] \in {"idle", "panicked"}
      PROVE  RefInv'
  BY <1>0, <1>3, Zenon DEF RefInv
<1>4. ASSUME NEW p \in Procs, NEW k \in Blocks, bget_panic(p, k) PROVE RefInv'
  BY <1>0, <1>3, <1>4, Zenon DEF bget_panic, Goto, TypeOK, bufVars
<1>5. ASSUME NEW p \in Procs,
             acquiresleep(p) \/ bread(p) \/ log_write(p) \/ bwrite(p)
      PROVE  RefInv'
  BY <1>0, <1>3, <1>5 DEF acquiresleep, bread, log_write, bwrite, Goto, TypeOK, bufVars
<1>6. ASSUME NEW p \in Procs, releasesleep(p) PROVE RefInv'
  BY <1>0, <1>3, <1>6, Zenon DEF releasesleep, TypeOK
<1>7. ASSUME NEW p \in Procs, NEW v \in Values, modify(p, v) PROVE RefInv'
  BY <1>0, <1>3, <1>7, Zenon DEF modify, Goto, TypeOK
<1>8. ASSUME NEW p \in Procs, iderw(p) \/ iderw_return(p) PROVE RefInv'
  BY <1>0, <1>3, <1>8, Zenon DEF iderw, iderw_return, Goto, TypeOK, bufVars
<1>9. ASSUME disk_done PROVE RefInv'
  BY <1>0, <1>3, <1>9, Zenon DEF disk_done, bufVars, procVars
<1>10. ASSUME ideintr PROVE RefInv'
  BY <1>0, <1>3, <1>10, Zenon DEF ideintr, TypeOK
<1> QED
  BY <1>1, <1>2, <1>4, <1>5, <1>6, <1>7, <1>8, <1>9, <1>10, Zenon DEF Next, process

(* No count exceeds the number of processes.                                *)
LEMMA CountsInRange ==
  ASSUME BcacheInv, Next, refcnt' \in [Bufs -> Int]
  PROVE  refcnt' \in [Bufs -> 0..Cardinality(Procs)]
<1> USE BcacheAssumption
<1>1. RefInv'
  BY RefStep, Zenon
<1>2. ASSUME NEW b \in Bufs PROVE refcnt'[b] \in 0..Cardinality(Procs)
  <2> DEFINE U == {p \in Procs : buf'[p] = b}
  <2>1. refcnt'[b] = Cardinality(U)
    BY <1>1, Zenon DEF RefInv
  <2>2. Cardinality(U) \in Nat /\ Cardinality(Procs) \in Nat /\ Cardinality(U) <= Cardinality(Procs)
    BY FS_Subset, FS_CardinalityType, Zenon
  <2> QED
    BY <2>1, <2>2
<1> QED
  BY <1>2, Zenon

(* binit establishes BcacheInv.                                             *)
LEMMA BcacheInit ==
  ASSUME Init
  PROVE  BcacheInv
<1> USE BcacheAssumption
<1>1. lru \in Seq(Bufs) /\ Len(lru) = Cardinality(Bufs) /\ Range(lru) = Bufs
  <2> DEFINE n == Cardinality(Bufs)
  <2>1. n \in Nat /\ ExistsBijection(1..n, Bufs)
    BY FS_CardinalityType, Zenon
  <2>2. lru \in Bijection(1..n, Bufs)
    BY <2>1, Zenon DEF Init, ExistsBijection
  <2> HIDE DEF n
  <2>3. lru \in [1..n -> Bufs] /\ \A b \in Bufs : \E i \in 1..n : lru[i] = b
    BY <2>2, Zenon DEF Bijection, Surjection
  <2>4. Range(lru) = Bufs
    BY <2>3, Zenon DEF Range
  <2>5. lru \in Seq(Bufs) /\ Len(lru) = n
    BY <2>1, <2>3
  <2> QED
    BY <2>4, <2>5, Zenon DEF n
<1>2. Cardinality(Procs) \in Nat
  BY FS_CardinalityType, Zenon
<1>3. TypeOK
  BY <1>1, <1>2 DEF Init, TypeOK, Labels
<1>4. OneHolder /\ NoLostWakeup /\ WantInv /\ FlagInv /\ DataInv
  BY Zenon DEF Init, OneHolder, NoLostWakeup, WantInv, FlagInv, DataInv, Owning
<1>5. ActiveRequest
  <2>1. idequeue = <<>> /\ device = Idle
    BY Zenon DEF Init
  <2>2. IsInjective(idequeue) /\ Range(idequeue) = {}
    BY <2>1 DEF Range, IsInjective
  <2>3. {buf[p] : p \in {q \in Procs : pc[q] = "wait"}} = {}
    BY Zenon DEF Init
  <2> QED
    BY <2>1, <2>2, <2>3, Zenon DEF ActiveRequest
<1>6. RefInv
  <2>1. \A b \in Bufs : {p \in Procs : buf[p] = b} = {}
    BY Zenon DEF Init
  <2> QED
    BY <2>1, FS_EmptySet, Zenon DEF Init, RefInv
<1> QED
  BY <1>3, <1>4, <1>5, <1>6, Zenon DEF BcacheInv

-----------------------------------------------------------------------------
(* BcacheInv is an invariant of bio.c, sleeplock.c and ide.c together, for  *)
(* any number of processes, buffers, blocks and disk errors.                *)
THEOREM BcacheInvariant == Spec => []BcacheInv
<1>1. BcacheInv /\ [Next]_vars => BcacheInv'
  <2>1. ASSUME BcacheInv, Next PROVE BcacheInv'
    <3>1. Referenced
      BY <2>1, References, Zenon DEF BcacheInv
    <3>2. TypeOK'
      BY <2>1, TypeStep, CountsInRange, BcacheAssumption, FS_CardinalityType, Zenon DEF CountsBounded
    <3> QED
      BY <2>1, <3>1, <3>2, HolderStep, RefStep, FlagStep, RequestStep, DataStep, Zenon DEF BcacheInv
  <2>2. ASSUME BcacheInv, UNCHANGED vars PROVE BcacheInv'
    <3>1. UNCHANGED <<lru, blockno, valid, dirty, refcnt, data, locked, idequeue, device,
                      disk, pc, buf, want, mem, bad>>
      BY <2>2, Zenon DEF vars, bufVars, ideVars, procVars, history
    <3>2. OneHolder' /\ ActiveRequest'
      BY <2>2, <3>1, Zenon DEF BcacheInv, OneHolder, ActiveRequest
    <3>5. TypeOK'
      BY <2>2, <3>1, Zenon DEF BcacheInv, TypeOK
    <3>3. NoLostWakeup' /\ RefInv' /\ WantInv' /\ FlagInv'
      BY <2>2, <3>1 DEF BcacheInv, NoLostWakeup, RefInv, WantInv, FlagInv
    <3>4. DataInv'
      BY <2>2, <3>1 DEF BcacheInv, DataInv, Pending
    <3> QED
      BY <3>2, <3>3, <3>4, <3>5, Zenon DEF BcacheInv
  <2> QED
    BY <2>1, <2>2, Zenon
<1> QED
  BY <1>1, BcacheInit, PTL DEF Spec

(* bread returns a buffer with the block that was asked for, and with its   *)
(* last contents unless the disk failed on that block.                      *)
THEOREM BreadLast == Spec => []ReadsLast
<1>1. BcacheInv => ReadsLast
  <2> SUFFICES ASSUME BcacheInv, NEW p \in Procs
               PROVE  /\ buf[p] # None => blockno[buf[p]] = want[p]
                      /\ pc[p] = "hold" /\ want[p] \notin bad => data[buf[p]] = mem[want[p]]
    BY Zenon DEF ReadsLast
  <2>1. buf[p] # None => blockno[buf[p]] = want[p]
    BY Zenon DEF BcacheInv, WantInv
  <2>2. pc[p] = "hold" => buf[p] \in valid /\ blockno[buf[p]] = want[p]
    BY Using, Zenon DEF BcacheInv, FlagInv
  <2> QED
    BY <2>1, <2>2, Zenon DEF BcacheInv, DataInv
<1> QED
  BY <1>1, BcacheInvariant, PTL

(* A buffer that is neither pinned nor being changed agrees with the disk:  *)
(* bget may recycle it.                                                     *)
THEOREM EvictionSafe == Spec => []CleanIsOnDisk
<1>1. BcacheInv => CleanIsOnDisk
  <2> SUFFICES ASSUME BcacheInv, NEW b \in valid \ dirty, blockno[b] \notin bad,
                      ~\E p \in Procs : pc[p] = "modified" /\ buf[p] = b
               PROVE  data[b] = disk[blockno[b]]
    BY Zenon DEF CleanIsOnDisk
  <2>1. blockno[b] \in Blocks /\ data[b] = mem[blockno[b]] /\ ~Pending(b)
    BY Zenon DEF BcacheInv, DataInv, Pending
  <2>2. \A c \in valid : blockno[c] = blockno[b] => c = b
    BY <2>1, BcacheAssumption DEF BcacheInv, OneHolder, TypeOK
  <2> QED
    BY <2>1, <2>2, Zenon DEF BcacheInv, DataInv
<1> QED
  BY <1>1, BcacheInvariant, PTL

(* bget finds a buffer whenever the processes that use one and the buffers  *)
(* that are pinned are together fewer than the buffers.                     *)
THEOREM BgetFinds == Spec => []BufferAvailable
<1>1. BcacheInv => BufferAvailable
  <2> DEFINE users == {p \in Procs : buf[p] # None}
             f == [p \in users |-> buf[p]]
             B == {f[p] : p \in users}
  <2> SUFFICES ASSUME BcacheInv, \A b \in Bufs : ~Unused(b)
               PROVE  ~(Cardinality(users) + Cardinality(dirty) < Cardinality(Bufs))
    BY Zenon DEF BufferAvailable
  <2>1. TypeOK /\ RefInv
    BY Zenon DEF BcacheInv
  <2>2. /\ IsFiniteSet(users) /\ IsFiniteSet(dirty)
        /\ Cardinality(users) \in Nat /\ Cardinality(dirty) \in Nat
        /\ Cardinality(Bufs) \in Nat
    BY <2>1, BcacheAssumption, FS_Subset, FS_CardinalityType, Zenon DEF TypeOK
  <2>3. f \in Surjection(users, B)
    BY Zenon DEF Surjection
  <2>4. IsFiniteSet(B) /\ Cardinality(B) <= Cardinality(users)
    <3> HIDE DEF users, f, B
    <3> QED
      BY <2>2, <2>3, FS_Surjection, Zenon
  <2>5. Bufs \subseteq B \cup dirty
    <3>1. ASSUME NEW b \in Bufs, b \notin dirty PROVE b \in B
      <4> DEFINE U == {p \in Procs : buf[p] = b}
      <4>1. refcnt[b] # 0
        BY <3>1, Zenon DEF Unused
      <4>2. refcnt[b] = Cardinality(U)
        BY <2>1, Zenon DEF RefInv
      <4>3. U # {}
        BY <4>1, <4>2, FS_EmptySet, Zenon
      <4>4. PICK p \in Procs : buf[p] = b
        BY <4>3, Zenon
      <4>5. p \in users /\ f[p] = b
        BY <4>4, BcacheAssumption, Zenon
      <4> QED
        BY <4>5, Zenon
    <3> QED
      BY <3>1, Zenon
  <2> HIDE DEF users, f, B
  <2>6. /\ IsFiniteSet(B \cup dirty)
        /\ Cardinality(B \cup dirty) = Cardinality(B) + Cardinality(dirty) - Cardinality(B \cap dirty)
    BY <2>2, <2>4, FS_Union, Zenon
  <2>7. IsFiniteSet(B \cap dirty) /\ Cardinality(B \cap dirty) \in Nat /\ Cardinality(B) \in Nat
    <3>1. B \cap dirty \in SUBSET B
      BY Zenon
    <3> QED
      BY <2>4, <3>1, FS_Subset, FS_CardinalityType, Zenon
  <2>8. Cardinality(Bufs) <= Cardinality(B \cup dirty)
    BY <2>5, <2>6, FS_Subset, Zenon
  <2> QED
    BY <2>2, <2>4, <2>6, <2>7, <2>8
<1> QED
  BY <1>1, BcacheInvariant, PTL
=============================================================================

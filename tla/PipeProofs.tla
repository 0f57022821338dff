----------------------------- MODULE PipeProofs -----------------------------
(***************************************************************************)
(* Proofs about Pipe for any number of readers and writers and any sizes   *)
(* of the ring and of the counters: the protocol of p->lock, ptable.lock   *)
(* and the two channels, and the bytes in the ring.                         *)
(***************************************************************************)
EXTENDS Pipe, Modular, TLAPS

(* The locks are held at these program points. *)
Holding == {"write", "empty", "copy", "sleep", "release", "closing"}

LockInv ==
  \A p \in Procs : /\ lock = p <=> pc[p] \in Holding
                   /\ plock = p <=> pc[p] \in {"release", "sched"}

(* Readers read, writers write, and a sleeper sleeps in its own call. *)
RoleInv ==
  \A p \in Procs :
    /\ pc[p] = "write" => p \in Writers
    /\ pc[p] \in {"empty", "copy"} => p \in Readers
    /\ asleep[p] # None => pc[p] = "slept" /\ asleep[p] = Chan(p)

Peers(p) == IF p \in Readers THEN Readers ELSE Writers

(* A call has its file open; an end is closed by the last process to have    *)
(* it open, once.                                                            *)
OpenInv ==
  /\ \A p \in Procs :
       /\ pc[p] \notin {"user", "close", "closing"} => fd[p]
       /\ pc[p] \in {"close", "closing"} =>
            \A q \in Peers(p) : ~fd[q] /\ (q # p => pc[q] = "user")
  /\ ~readopen => \A p \in Readers : ~fd[p] /\ pc[p] # "close"
  /\ ~writeopen => \A p \in Writers : ~fd[p] /\ pc[p] # "close"
  /\ \A p \in Readers : pc[p] = "closing" => ~readopen
  /\ \A p \in Writers : pc[p] = "closing" => ~writeopen

FreeInv == freed => ~readopen /\ ~writeopen /\ \A p \in Procs : pc[p] = "user"

(* A process that sleeps or is about to has a reason to, or somebody inside  *)
(* the pipe is about to wake it.                                             *)
Sleepy(p) == pc[p] \in {"sleep", "release", "sched"} \/ asleep[p] # None

WakeInv ==
  \A p \in Procs : Sleepy(p) =>
    IF p \in Readers
    THEN /\ writeopen \/ \E w \in Writers : pc[w] = "closing"
         /\ Empty \/ \E w \in Writers : killed[w] \/ pc[w] = "write"
    ELSE /\ readopen \/ \E r \in Readers : pc[r] = "closing"
         /\ Full \/ \E r \in Readers : pc[r] = "copy"

PipeInv == TypeOK /\ LockInv /\ RoleInv /\ OpenInv /\ FreeInv /\ WakeInv

-----------------------------------------------------------------------------
(* Every step keeps each part of PipeInv.                                    *)

(* Types: the counters stay in their width. *)
LEMMA TypeStep ==
  ASSUME PipeInv, Next
  PROVE  TypeOK'
<1> USE PipeAssumption DEF Procs
<1>0. TypeOK /\ LockInv /\ RoleInv
  BY Zenon DEF PipeInv
<1>1. ASSUME NEW p \in Procs, acquire(p) PROVE TypeOK'
  BY <1>0, <1>1, Zenon DEF acquire, Goto, TypeOK, PCs, Chans, pipeVars, procVars
<1>2. ASSUME NEW p \in Procs, write_byte(p) PROVE TypeOK'
  <2>1. nwrite' \in 0..(UINT - 1)
    BY <1>0, <1>2 DEF write_byte, After, TypeOK
  <2>2. data' \in [0..(PIPESIZE - 1) -> Values]
    BY <1>0, <1>2, Zenon DEF write_byte, TypeOK
  <2>3. left[p] \in 0..MaxCount /\ left[p] > 0
    BY <1>0, <1>2, Zenon DEF write_byte, TypeOK
  <2>4. left' \in [Procs -> 0..MaxCount]
    BY <1>0, <1>2, <2>3 DEF write_byte, TypeOK
  <2>5. UNCHANGED <<nread, readopen, writeopen, freed, out, lock, plock, procVars, pc, some>>
    BY <1>2, Zenon DEF write_byte
  <2> QED
    BY <1>0, <2>1, <2>2, <2>4, <2>5, Zenon DEF TypeOK, procVars
<1>3. ASSUME NEW p \in Procs, write_full(p) PROVE TypeOK'
  <2>1. UNCHANGED <<data, nread, nwrite, readopen, writeopen, freed, out, plock, killed, fd>>
    BY <1>3, Zenon DEF write_full, pipeVars
  <2>2. pc' \in [Procs -> PCs]
    BY <1>0, <1>3, Zenon DEF write_full, Return, Goto, TypeOK, PCs
  <2>3. lock' \in Procs \cup {None} /\ asleep' \in [Procs -> Chans \cup {None}]
    BY <1>0, <1>3, Zenon DEF write_full, Woken, TypeOK, Chans
  <2>4. left' \in [Procs -> 0..MaxCount]
    <3>1. left' = left \/ left' = [left EXCEPT ![p] = 0]
      BY <1>3, Zenon DEF write_full, Return
    <3>2. left \in [Procs -> 0..MaxCount] /\ 0 \in 0..MaxCount
      BY <1>0 DEF TypeOK
    <3> QED
      BY <3>1, <3>2, Zenon
  <2>5. some' \in [Readers -> BOOLEAN]
    BY <1>0, <1>3, Zenon DEF write_full, Return, TypeOK
  <2> QED
    BY <1>0, <2>1, <2>2, <2>3, <2>4, <2>5, Zenon DEF TypeOK
<1>4. ASSUME NEW p \in Procs, write_end(p) PROVE TypeOK'
  BY <1>0, <1>4, Zenon DEF write_end, Return, Goto, Woken, TypeOK, PCs, Chans, pipeVars, procVars
<1>5. ASSUME NEW p \in Procs, read_empty(p) PROVE TypeOK'
  <2>1. UNCHANGED <<data, nread, nwrite, readopen, writeopen, freed, out, plock, asleep, killed, fd>>
    BY <1>5, Zenon DEF read_empty, pipeVars, procVars
  <2>2. pc' \in [Procs -> PCs]
    BY <1>0, <1>5, Zenon DEF read_empty, Return, Goto, TypeOK, PCs
  <2>3. lock' \in Procs \cup {None}
    BY <1>0, <1>5, Zenon DEF read_empty, TypeOK
  <2>4. left' \in [Procs -> 0..MaxCount]
    BY <1>0, <1>5 DEF read_empty, Return, TypeOK
  <2>5. some' \in [Readers -> BOOLEAN]
    BY <1>0, <1>5, Zenon DEF read_empty, Return, TypeOK
  <2> QED
    BY <1>0, <2>1, <2>2, <2>3, <2>4, <2>5, Zenon DEF TypeOK
<1>6. ASSUME NEW p \in Procs, read_byte(p) PROVE TypeOK'
  <2>1. nread' \in 0..(UINT - 1)
    BY <1>0, <1>6 DEF read_byte, After, TypeOK
  <2>2. nread % PIPESIZE \in 0..(PIPESIZE - 1)
    BY <1>0 DEF TypeOK
  <2>3. out' \in Values
    BY <1>0, <1>6, <2>2, Zenon DEF read_byte, TypeOK
  <2>4. left[p] \in 0..MaxCount /\ left[p] > 0 /\ p \in Readers
    BY <1>0, <1>6, Zenon DEF read_byte, TypeOK, RoleInv
  <2>5. left' \in [Procs -> 0..MaxCount]
    BY <1>0, <1>6, <2>4 DEF read_byte, TypeOK
  <2>6. some' \in [Readers -> BOOLEAN]
    BY <1>0, <1>6, Zenon DEF read_byte, TypeOK
  <2>7. UNCHANGED <<data, nwrite, readopen, writeopen, freed, lock, plock, procVars, pc>>
    BY <1>6, Zenon DEF read_byte
  <2> QED
    BY <1>0, <2>1, <2>3, <2>5, <2>6, <2>7, Zenon DEF TypeOK, procVars
<1>7. ASSUME NEW p \in Procs, read_end(p) PROVE TypeOK'
  BY <1>0, <1>7 DEF read_end, Return, Goto, Woken, TypeOK, PCs, Chans, pipeVars, procVars
<1>8. ASSUME NEW p \in Procs, sleep_acquire(p) PROVE TypeOK'
  BY <1>0, <1>8, Zenon DEF sleep_acquire, Goto, TypeOK, PCs, Chans, pipeVars, procVars
<1>9. ASSUME NEW p \in Procs, sleep_release(p) PROVE TypeOK'
  BY <1>0, <1>9, Zenon DEF sleep_release, Goto, TypeOK, PCs, Chans, pipeVars, procVars
<1>10. ASSUME NEW p \in Procs, sleep_sched(p) PROVE TypeOK'
  BY <1>0, <1>10, Zenon DEF sleep_sched, Goto, Chan, TypeOK, PCs, Chans, pipeVars, procVars
<1>11. ASSUME NEW p \in Procs, sleep_return(p) PROVE TypeOK'
  BY <1>0, <1>11, Zenon DEF sleep_return, Goto, TypeOK, PCs, Chans, pipeVars, procVars
<1>12. ASSUME NEW p \in Procs, close_flag(p) PROVE TypeOK'
  BY <1>0, <1>12, Zenon DEF close_flag, Goto, TypeOK, PCs, Chans, pipeVars, procVars
<1>13. ASSUME NEW p \in Procs, close_wake(p) PROVE TypeOK'
  BY <1>0, <1>13, Zenon DEF close_wake, Goto, Woken, TypeOK, PCs, Chans, pipeVars, procVars
<1>14. ASSUME NEW p \in Procs, fileclose(p) PROVE TypeOK'
  BY <1>0, <1>14, Zenon DEF fileclose, Goto, Last, TypeOK, PCs, Chans, pipeVars, procVars
<1>15. ASSUME NEW p \in Procs, kill(p) PROVE TypeOK'
  BY <1>0, <1>15, Zenon DEF kill, TypeOK, PCs, Chans, pipeVars, procVars
<1>16. ASSUME NEW p \in Procs, NEW n \in 0..MaxCount, call(p, n) PROVE TypeOK'
  BY <1>0, <1>16, Zenon DEF call, Goto, TypeOK, PCs, Chans, pipeVars, procVars
<1> QED
  BY <1>1, <1>2, <1>3, <1>4, <1>5, <1>6, <1>7, <1>8, <1>9, <1>10, <1>11, <1>12, <1>13, <1>14, <1>15, <1>16, Zenon
     DEF Next, kernel, pipewrite, piperead, sleep, pipeclose

(* sleep() hands p->lock over to ptable.lock and takes it back. *)
LEMMA LockStep ==
  ASSUME PipeInv, Next
  PROVE  LockInv'
<1> USE PipeAssumption DEF Procs
<1>0. TypeOK /\ LockInv /\ RoleInv
  BY Zenon DEF PipeInv
<1>1. ASSUME NEW p \in Procs, acquire(p) PROVE LockInv'
  BY <1>0, <1>1, Zenon DEF acquire, Goto, TypeOK, LockInv, Holding, procVars
<1>2. ASSUME NEW p \in Procs, write_byte(p) PROVE LockInv'
  BY <1>0, <1>2, Zenon DEF write_byte, TypeOK, LockInv, Holding, procVars
<1>3. ASSUME NEW p \in Procs, write_full(p) PROVE LockInv'
  BY <1>0, <1>3 DEF write_full, Return, Goto, Woken, TypeOK, LockInv, Holding, procVars
<1>4. ASSUME NEW p \in Procs, write_end(p) PROVE LockInv'
  BY <1>0, <1>4, Zenon DEF write_end, Return, Goto, Woken, TypeOK, LockInv, Holding, procVars
<1>5. ASSUME NEW p \in Procs, read_empty(p) PROVE LockInv'
  BY <1>0, <1>5 DEF read_empty, Return, Goto, TypeOK, LockInv, Holding, procVars
<1>6. ASSUME NEW p \in Procs, read_byte(p) PROVE LockInv'
  BY <1>0, <1>6, Zenon DEF read_byte, TypeOK, LockInv, Holding, procVars
<1>7. ASSUME NEW p \in Procs, read_end(p) PROVE LockInv'
  BY <1>0, <1>7, Zenon DEF read_end, Return, Goto, Woken, TypeOK, LockInv, Holding, procVars
<1>8. ASSUME NEW p \in Procs, sleep_acquire(p) PROVE LockInv'
  BY <1>0, <1>8, Zenon DEF sleep_acquire, Goto, TypeOK, LockInv, Holding, procVars
<1>9. ASSUME NEW p \in Procs, sleep_release(p) PROVE LockInv'
  BY <1>0, <1>9, Zenon DEF sleep_release, Goto, TypeOK, LockInv, Holding, procVars
<1>10. ASSUME NEW p \in Procs, sleep_sched(p) PROVE LockInv'
  BY <1>0, <1>10, Zenon DEF sleep_sched, Goto, Chan, TypeOK, LockInv, Holding, procVars
<1>11. ASSUME NEW p \in Procs, sleep_return(p) PROVE LockInv'
  BY <1>0, <1>11, Zenon DEF sleep_return, Goto, TypeOK, LockInv, Holding, procVars
<1>12. ASSUME NEW p \in Procs, close_flag(p) PROVE LockInv'
  BY <1>0, <1>12, Zenon DEF close_flag, Goto, TypeOK, LockInv, Holding, procVars
<1>13. ASSUME NEW p \in Procs, close_wake(p) PROVE LockInv'
  BY <1>0, <1>13, Zenon DEF close_wake, Goto, Woken, TypeOK, LockInv, Holding, procVars
<1>14. ASSUME NEW p \in Procs, fileclose(p) PROVE LockInv'
  BY <1>0, <1>14, Zenon DEF fileclose, Goto, Last, TypeOK, LockInv, Holding, procVars
<1>15. ASSUME NEW p \in Procs, kill(p) PROVE LockInv'
  BY <1>0, <1>15, Zenon DEF kill, TypeOK, LockInv, Holding, procVars
<1>16. ASSUME NEW p \in Procs, NEW n \in 0..MaxCount, call(p, n) PROVE LockInv'
  BY <1>0, <1>16, Zenon DEF call, Goto, TypeOK, LockInv, Holding, procVars
<1> QED
  BY <1>1, <1>2, <1>3, <1>4, <1>5, <1>6, <1>7, <1>8, <1>9, <1>10, <1>11, <1>12, <1>13, <1>14, <1>15, <1>16, Zenon
     DEF Next, kernel, pipewrite, piperead, sleep, pipeclose

(* Readers sleep on nread, writers on nwrite. *)
LEMMA RoleStep ==
  ASSUME PipeInv, Next
  PROVE  RoleInv'
<1> USE PipeAssumption DEF Procs
<1>0. TypeOK /\ LockInv /\ RoleInv
  BY Zenon DEF PipeInv
<1>1. ASSUME NEW p \in Procs, acquire(p) PROVE RoleInv'
  BY <1>0, <1>1, Zenon DEF acquire, Goto, TypeOK, RoleInv, Chan, procVars
<1>2. ASSUME NEW p \in Procs, write_byte(p) PROVE RoleInv'
  BY <1>0, <1>2, Zenon DEF write_byte, TypeOK, RoleInv, Chan, procVars
<1>3. ASSUME NEW p \in Procs, write_full(p) PROVE RoleInv'
  BY <1>0, <1>3 DEF write_full, Return, Goto, Woken, TypeOK, RoleInv, Chan, procVars
<1>4. ASSUME NEW p \in Procs, write_end(p) PROVE RoleInv'
  BY <1>0, <1>4, Zenon DEF write_end, Return, Goto, Woken, TypeOK, RoleInv, Chan, procVars
<1>5. ASSUME NEW p \in Procs, read_empty(p) PROVE RoleInv'
  BY <1>0, <1>5 DEF read_empty, Return, Goto, TypeOK, RoleInv, Chan, procVars
<1>6. ASSUME NEW p \in Procs, read_byte(p) PROVE RoleInv'
  BY <1>0, <1>6, Zenon DEF read_byte, TypeOK, RoleInv, Chan, procVars
<1>7. ASSUME NEW p \in Procs, read_end(p) PROVE RoleInv'
  BY <1>0, <1>7, Zenon DEF read_end, Return, Goto, Woken, TypeOK, RoleInv, Chan, procVars
<1>8. ASSUME NEW p \in Procs, sleep_acquire(p) PROVE RoleInv'
  BY <1>0, <1>8, Zenon DEF sleep_acquire, Goto, TypeOK, RoleInv, Chan, procVars
<1>9. ASSUME NEW p \in Procs, sleep_release(p) PROVE RoleInv'
  BY <1>0, <1>9, Zenon DEF sleep_release, Goto, TypeOK, RoleInv, Chan, procVars
<1>10. ASSUME NEW p \in Procs, sleep_sched(p) PROVE RoleInv'
  BY <1>0, <1>10, Zenon DEF sleep_sched, Goto, Chan, TypeOK, RoleInv, Chan, procVars
<1>11. ASSUME NEW p \in Procs, sleep_return(p) PROVE RoleInv'
  BY <1>0, <1>11, Zenon DEF sleep_return, Goto, TypeOK, RoleInv, Chan, procVars
<1>12. ASSUME NEW p \in Procs, close_flag(p) PROVE RoleInv'
  BY <1>0, <1>12, Zenon DEF close_flag, Goto, TypeOK, RoleInv, Chan, procVars
<1>13. ASSUME NEW p \in Procs, close_wake(p) PROVE RoleInv'
  BY <1>0, <1>13, Zenon DEF close_wake, Goto, Woken, TypeOK, RoleInv, Chan, procVars
<1>14. ASSUME NEW p \in Procs, fileclose(p) PROVE RoleInv'
  BY <1>0, <1>14, Zenon DEF fileclose, Goto, Last, TypeOK, RoleInv, Chan, procVars
<1>15. ASSUME NEW p \in Procs, kill(p) PROVE RoleInv'
  BY <1>0, <1>15, Zenon DEF kill, TypeOK, RoleInv, Chan, procVars
<1>16. ASSUME NEW p \in Procs, NEW n \in 0..MaxCount, call(p, n) PROVE RoleInv'
  BY <1>0, <1>16, Zenon DEF call, Goto, TypeOK, RoleInv, Chan, procVars
<1> QED
  BY <1>1, <1>2, <1>3, <1>4, <1>5, <1>6, <1>7, <1>8, <1>9, <1>10, <1>11, <1>12, <1>13, <1>14, <1>15, <1>16, Zenon
     DEF Next, kernel, pipewrite, piperead, sleep, pipeclose

(* pipeclose is called once per end, when no call on that end is under way. *)
LEMMA OpenStep ==
  ASSUME PipeInv, Next
  PROVE  OpenInv'
<1> USE PipeAssumption DEF Procs
<1>0. TypeOK /\ LockInv /\ RoleInv /\ OpenInv
  BY Zenon DEF PipeInv
<1>1. ASSUME NEW p \in Procs, acquire(p) PROVE OpenInv'
  BY <1>0, <1>1 DEF acquire, Goto, TypeOK, OpenInv, LockInv, Holding, Peers, pipeVars, procVars
<1>2. ASSUME NEW p \in Procs, write_byte(p) PROVE OpenInv'
  BY <1>0, <1>2, Zenon DEF write_byte, TypeOK, OpenInv, LockInv, Holding, Peers, pipeVars, procVars
<1>3. ASSUME NEW p \in Procs, write_full(p) PROVE OpenInv'
  BY <1>0, <1>3 DEF write_full, Return, Goto, Woken, TypeOK, OpenInv, LockInv, Holding, Peers, pipeVars, procVars
<1>4. ASSUME NEW p \in Procs, write_end(p) PROVE OpenInv'
  BY <1>0, <1>4 DEF write_end, Return, Goto, Woken, TypeOK, OpenInv, LockInv, Holding, Peers, pipeVars, procVars
<1>5. ASSUME NEW p \in Procs, read_empty(p) PROVE OpenInv'
  <2>1. UNCHANGED <<readopen, writeopen, fd>> /\ pc[p] = "empty"
    BY <1>5, Zenon DEF read_empty, pipeVars, procVars
  <2>2. pc'[p] \in {"user", "sleep", "copy"} /\ \A q \in Procs : q # p => pc'[q] = pc[q]
    BY <1>0, <1>5, Zenon DEF read_empty, Return, Goto, TypeOK
  <2>3. fd[p]
    BY <1>0, <2>1, Zenon DEF OpenInv
  <2> QED
    BY <1>0, <2>1, <2>2, <2>3 DEF OpenInv, Peers
<1>6. ASSUME NEW p \in Procs, read_byte(p) PROVE OpenInv'
  BY <1>0, <1>6, Zenon DEF read_byte, TypeOK, OpenInv, LockInv, Holding, Peers, pipeVars, procVars
<1>7. ASSUME NEW p \in Procs, read_end(p) PROVE OpenInv'
  BY <1>0, <1>7 DEF read_end, Return, Goto, Woken, TypeOK, OpenInv, LockInv, Holding, Peers, pipeVars, procVars
<1>8. ASSUME NEW p \in Procs, sleep_acquire(p) PROVE OpenInv'
  BY <1>0, <1>8 DEF sleep_acquire, Goto, TypeOK, OpenInv, LockInv, Holding, Peers, pipeVars, procVars
<1>9. ASSUME NEW p \in Procs, sleep_release(p) PROVE OpenInv'
  BY <1>0, <1>9 DEF sleep_release, Goto, TypeOK, OpenInv, LockInv, Holding, Peers, pipeVars, procVars
<1>10. ASSUME NEW p \in Procs, sleep_sched(p) PROVE OpenInv'
  BY <1>0, <1>10 DEF sleep_sched, Goto, Chan, TypeOK, OpenInv, LockInv, Holding, Peers, pipeVars, procVars
<1>11. ASSUME NEW p \in Procs, sleep_return(p) PROVE OpenInv'
  BY <1>0, <1>11 DEF sleep_return, Goto, TypeOK, OpenInv, LockInv, Holding, Peers, pipeVars, procVars
<1>12. ASSUME NEW p \in Procs, close_flag(p) PROVE OpenInv'
  BY <1>0, <1>12 DEF close_flag, Goto, TypeOK, OpenInv, LockInv, Holding, Peers, pipeVars, procVars
<1>13. ASSUME NEW p \in Procs, close_wake(p) PROVE OpenInv'
  BY <1>0, <1>13, Zenon DEF close_wake, Goto, Woken, TypeOK, OpenInv, LockInv, Holding, Peers, pipeVars, procVars
<1>14. ASSUME NEW p \in Procs, fileclose(p) PROVE OpenInv'
  BY <1>0, <1>14 DEF fileclose, Goto, Last, TypeOK, OpenInv, LockInv, Holding, Peers, pipeVars, procVars
<1>15. ASSUME NEW p \in Procs, kill(p) PROVE OpenInv'
  BY <1>0, <1>15, Zenon DEF kill, TypeOK, OpenInv, LockInv, Holding, Peers, pipeVars, procVars
<1>16. ASSUME NEW p \in Procs, NEW n \in 0..MaxCount, call(p, n) PROVE OpenInv'
  BY <1>0, <1>16 DEF call, Goto, TypeOK, OpenInv, LockInv, Holding, Peers, pipeVars, procVars
<1> QED
  BY <1>1, <1>2, <1>3, <1>4, <1>5, <1>6, <1>7, <1>8, <1>9, <1>10, <1>11, <1>12, <1>13, <1>14, <1>15, <1>16, Zenon
     DEF Next, kernel, pipewrite, piperead, sleep, pipeclose

(* The pipe is freed when both ends are closed and nobody is inside. *)
LEMMA FreeStep ==
  ASSUME PipeInv, Next
  PROVE  FreeInv'
<1> USE PipeAssumption DEF Procs
<1>0. TypeOK /\ LockInv /\ RoleInv /\ OpenInv /\ FreeInv
  BY Zenon DEF PipeInv
<1>1. ASSUME NEW p \in Procs, acquire(p) PROVE FreeInv'
  BY <1>0, <1>1, Zenon DEF acquire, Goto, TypeOK, FreeInv, OpenInv, LockInv, Holding, BothEndsClosed, pipeVars, procVars
<1>2. ASSUME NEW p \in Procs, write_byte(p) PROVE FreeInv'
  BY <1>0, <1>2, Zenon DEF write_byte, TypeOK, FreeInv, OpenInv, LockInv, Holding, BothEndsClosed, pipeVars, procVars
<1>3. ASSUME NEW p \in Procs, write_full(p) PROVE FreeInv'
  BY <1>0, <1>3, Zenon DEF write_full, Return, Goto, Woken, TypeOK, FreeInv, OpenInv, LockInv, Holding, BothEndsClosed, pipeVars, procVars
<1>4. ASSUME NEW p \in Procs, write_end(p) PROVE FreeInv'
  BY <1>0, <1>4, Zenon DEF write_end, Return, Goto, Woken, TypeOK, FreeInv, OpenInv, LockInv, Holding, BothEndsClosed, pipeVars, procVars
<1>5. ASSUME NEW p \in Procs, read_empty(p) PROVE FreeInv'
  BY <1>0, <1>5, Zenon DEF read_empty, Return, Goto, TypeOK, FreeInv, OpenInv, LockInv, Holding, BothEndsClosed, pipeVars, procVars
<1>6. ASSUME NEW p \in Procs, read_byte(p) PROVE FreeInv'
  BY <1>0, <1>6, Zenon DEF read_byte, TypeOK, FreeInv, OpenInv, LockInv, Holding, BothEndsClosed, pipeVars, procVars
<1>7. ASSUME NEW p \in Procs, read_end(p) PROVE FreeInv'
  BY <1>0, <1>7, Zenon DEF read_end, Return, Goto, Woken, TypeOK, FreeInv, OpenInv, LockInv, Holding, BothEndsClosed, pipeVars, procVars
<1>8. ASSUME NEW p \in Procs, sleep_acquire(p) PROVE FreeInv'
  BY <1>0, <1>8, Zenon DEF sleep_acquire, Goto, TypeOK, FreeInv, OpenInv, LockInv, Holding, BothEndsClosed, pipeVars, procVars
<1>9. ASSUME NEW p \in Procs, sleep_release(p) PROVE FreeInv'
  BY <1>0, <1>9, Zenon DEF sleep_release, Goto, TypeOK, FreeInv, OpenInv, LockInv, Holding, BothEndsClosed, pipeVars, procVars
<1>10. ASSUME NEW p \in Procs, sleep_sched(p) PROVE FreeInv'
  BY <1>0, <1>10, Zenon DEF sleep_sched, Goto, Chan, TypeOK, FreeInv, OpenInv, LockInv, Holding, BothEndsClosed, pipeVars, procVars
<1>11. ASSUME NEW p \in Procs, sleep_return(p) PROVE FreeInv'
  BY <1>0, <1>11, Zenon DEF sleep_return, Goto, TypeOK, FreeInv, OpenInv, LockInv, Holding, BothEndsClosed, pipeVars, procVars
<1>12. ASSUME NEW p \in Procs, close_flag(p) PROVE FreeInv'
  BY <1>0, <1>12, Zenon DEF close_flag, Goto, TypeOK, FreeInv, OpenInv, LockInv, Holding, BothEndsClosed, pipeVars, procVars
<1>13. ASSUME NEW p \in Procs, close_wake(p) PROVE FreeInv'
  BY <1>0, <1>13 DEF close_wake, Goto, Woken, TypeOK, FreeInv, OpenInv, LockInv, Holding, BothEndsClosed, pipeVars, procVars
<1>14. ASSUME NEW p \in Procs, fileclose(p) PROVE FreeInv'
  BY <1>0, <1>14, Zenon DEF fileclose, Goto, Last, TypeOK, FreeInv, OpenInv, LockInv, Holding, BothEndsClosed, pipeVars, procVars
<1>15. ASSUME NEW p \in Procs, kill(p) PROVE FreeInv'
  BY <1>0, <1>15, Zenon DEF kill, TypeOK, FreeInv, OpenInv, LockInv, Holding, BothEndsClosed, pipeVars, procVars
<1>16. ASSUME NEW p \in Procs, NEW n \in 0..MaxCount, call(p, n) PROVE FreeInv'
  BY <1>0, <1>16, Zenon DEF call, Goto, TypeOK, FreeInv, OpenInv, LockInv, Holding, BothEndsClosed, pipeVars, procVars
<1> QED
  BY <1>1, <1>2, <1>3, <1>4, <1>5, <1>6, <1>7, <1>8, <1>9, <1>10, <1>11, <1>12, <1>13, <1>14, <1>15, <1>16, Zenon
     DEF Next, kernel, pipewrite, piperead, sleep, pipeclose

(* Whoever changes what a sleeper waits for wakes it before it leaves. *)
LEMMA WakeStep ==
  ASSUME PipeInv, Next
  PROVE  WakeInv'
<1> USE PipeAssumption DEF Procs
<1>0. TypeOK /\ LockInv /\ RoleInv /\ OpenInv /\ WakeInv
  BY Zenon DEF PipeInv
<1>1. ASSUME NEW p \in Procs, acquire(p) PROVE WakeInv'
  BY <1>0, <1>1, Zenon DEF acquire, Goto, TypeOK, WakeInv, Sleepy, RoleInv, LockInv, Holding, Empty, Full, pipeVars, procVars
<1>2. ASSUME NEW p \in Procs, write_byte(p) PROVE WakeInv'
  BY <1>0, <1>2, Zenon DEF write_byte, TypeOK, WakeInv, Sleepy, RoleInv, LockInv, Holding, Empty, Full, pipeVars, procVars
<1>3. ASSUME NEW p \in Procs, write_full(p) PROVE WakeInv'
  <2>1. pc[p] = "write" /\ lock = p /\ p \in Writers /\ asleep[p] = None /\ Full
    BY <1>0, <1>3, Zenon DEF write_full, LockInv, RoleInv, Holding
  <2>2. UNCHANGED <<nread, nwrite, readopen, writeopen, killed>>
    BY <1>3, Zenon DEF write_full, pipeVars
  <2>3. CASE readopen /\ ~killed[p] /\ plock = None /\ asleep' = Woken("nread") /\ Goto(p, "sleep")
    <3>1. ASSUME NEW q \in Readers PROVE ~Sleepy(q)'
      <4>1. asleep'[q] = None
        BY <1>0, <2>3, Zenon DEF Woken, RoleInv, Chan
      <4>2. pc'[q] = pc[q] /\ pc[q] \notin {"sleep", "release", "sched"}
        BY <1>0, <2>1, <2>3 DEF Goto, LockInv, Holding, TypeOK
      <4> QED
        BY <4>1, <4>2, Zenon DEF Sleepy
    <3> QED
      BY <2>1, <2>2, <2>3, <3>1, Zenon DEF WakeInv, Full
  <2>4. CASE (~readopen \/ killed[p]) /\ Return(p) /\ asleep' = asleep
    <3>1. \A q \in Procs : pc'[q] = IF q = p THEN "user" ELSE pc[q]
      BY <1>0, <2>4, Zenon DEF Return, Goto, TypeOK
    <3>2. \A q \in Procs : Sleepy(q)' => Sleepy(q) /\ q # p
      BY <2>1, <2>4, <3>1, Zenon DEF Sleepy
    <3>3. \A q \in Readers : Sleepy(q) => readopen
      BY <1>0, Zenon DEF OpenInv, RoleInv, Sleepy
    <3> QED
      BY <1>0, <2>1, <2>2, <2>4, <3>1, <3>2, <3>3, Zenon DEF WakeInv, Empty, Full
  <2> QED
    BY <1>3, <2>3, <2>4, Zenon DEF write_full
<1>4. ASSUME NEW p \in Procs, write_end(p) PROVE WakeInv'
  <2>1. pc[p] = "write" /\ lock = p /\ p \in Writers /\ asleep[p] = None
    BY <1>0, <1>4, Zenon DEF write_end, LockInv, RoleInv, Holding
  <2>2. UNCHANGED <<nread, nwrite, readopen, writeopen, killed>>
    BY <1>4, Zenon DEF write_end, pipeVars
  <2>3. \A q \in Procs : pc'[q] = IF q = p THEN "user" ELSE pc[q]
    BY <1>0, <1>4, Zenon DEF write_end, Return, Goto, TypeOK
  <2>4. plock = None /\ asleep' = Woken("nread")
    BY <1>4, Zenon DEF write_end
  <2>5. ASSUME NEW q \in Readers PROVE ~Sleepy(q)'
    BY <1>0, <2>1, <2>3, <2>4, Zenon DEF Sleepy, Woken, RoleInv, Chan, LockInv, Holding
  <2>6. ASSUME NEW q \in Writers PROVE Sleepy(q)' => Sleepy(q) /\ q # p
    BY <2>1, <2>3, <2>4, Zenon DEF Sleepy, Woken
  <2> QED
    BY <1>0, <2>1, <2>2, <2>3, <2>5, <2>6, Zenon DEF WakeInv, Empty, Full
<1>5. ASSUME NEW p \in Procs, read_empty(p) PROVE WakeInv'
  BY <1>0, <1>5 DEF read_empty, Return, Goto, TypeOK, WakeInv, Sleepy, RoleInv, LockInv, Holding, Empty, Full, pipeVars, procVars
<1>6. ASSUME NEW p \in Procs, read_byte(p) PROVE WakeInv'
  BY <1>0, <1>6, Zenon DEF read_byte, TypeOK, WakeInv, Sleepy, RoleInv, LockInv, Holding, Empty, Full, pipeVars, procVars
<1>7. ASSUME NEW p \in Procs, read_end(p) PROVE WakeInv'
  <2>1. pc[p] = "copy" /\ lock = p /\ p \in Readers /\ asleep[p] = None
    BY <1>0, <1>7, Zenon DEF read_end, LockInv, RoleInv, Holding
  <2>2. UNCHANGED <<nread, nwrite, readopen, writeopen, killed>>
    BY <1>7, Zenon DEF read_end, pipeVars
  <2>3. \A q \in Procs : pc'[q] = IF q = p THEN "user" ELSE pc[q]
    BY <1>0, <1>7, Zenon DEF read_end, Return, Goto, TypeOK
  <2>4. plock = None /\ asleep' = Woken("nwrite")
    BY <1>7, Zenon DEF read_end
  <2>5. ASSUME NEW q \in Writers PROVE ~Sleepy(q)'
    BY <1>0, <2>1, <2>3, <2>4, Zenon DEF Sleepy, Woken, RoleInv, Chan, LockInv, Holding
  <2>6. ASSUME NEW q \in Readers PROVE Sleepy(q)' => Sleepy(q) /\ q # p
    BY <2>1, <2>3, <2>4, Zenon DEF Sleepy, Woken
  <2> QED
    BY <1>0, <2>1, <2>2, <2>3, <2>5, <2>6, Zenon DEF WakeInv, Empty, Full
<1>8. ASSUME NEW p \in Procs, sleep_acquire(p) PROVE WakeInv'
  BY <1>0, <1>8, Zenon DEF sleep_acquire, Goto, TypeOK, WakeInv, Sleepy, RoleInv, LockInv, Holding, Empty, Full, pipeVars, procVars
<1>9. ASSUME NEW p \in Procs, sleep_release(p) PROVE WakeInv'
  BY <1>0, <1>9, Zenon DEF sleep_release, Goto, TypeOK, WakeInv, Sleepy, RoleInv, LockInv, Holding, Empty, Full, pipeVars, procVars
<1>10. ASSUME NEW p \in Procs, sleep_sched(p) PROVE WakeInv'
  BY <1>0, <1>10, Zenon DEF sleep_sched, Goto, Chan, TypeOK, WakeInv, Sleepy, RoleInv, LockInv, Holding, Empty, Full, pipeVars, procVars
<1>11. ASSUME NEW p \in Procs, sleep_return(p) PROVE WakeInv'
  BY <1>0, <1>11, Zenon DEF sleep_return, Goto, TypeOK, WakeInv, Sleepy, RoleInv, LockInv, Holding, Empty, Full, pipeVars, procVars
<1>12. ASSUME NEW p \in Procs, close_flag(p) PROVE WakeInv'
  BY <1>0, <1>12, Zenon DEF close_flag, Goto, TypeOK, WakeInv, Sleepy, RoleInv, LockInv, Holding, Empty, Full, pipeVars, procVars
<1>13. ASSUME NEW p \in Procs, close_wake(p) PROVE WakeInv'
  <2>1. pc[p] = "closing" /\ lock = p /\ asleep[p] = None /\ plock = None
    BY <1>0, <1>13, Zenon DEF close_wake, LockInv, RoleInv, Holding
  <2>2. UNCHANGED <<nread, nwrite, readopen, writeopen, killed>> /\ asleep' = Woken(OtherSide(p))
    BY <1>13, Zenon DEF close_wake
  <2>3. \A q \in Procs : pc'[q] = IF q = p THEN "user" ELSE pc[q]
    BY <1>0, <1>13, Zenon DEF close_wake, Goto, TypeOK
  <2>4. ASSUME NEW q \in Procs, Sleepy(q)' PROVE Sleepy(q) /\ q # p
    BY <2>1, <2>2, <2>3, <2>4, Zenon DEF Sleepy, Woken
  <2>5. ASSUME NEW q \in Procs, Sleepy(q)' PROVE q \in Readers <=> p \in Readers
    <3>1. asleep'[q] # None \/ pc[q] \in {"sleep", "release", "sched"}
      BY <2>3, <2>4, <2>5, Zenon DEF Sleepy
    <3>2. pc[q] \notin {"sleep", "release", "sched"}
      BY <1>0, <2>1, Zenon DEF LockInv, Holding
    <3>3. asleep[q] = Chan(q) /\ asleep[q] # OtherSide(p)
      BY <1>0, <2>2, <3>1, <3>2, Zenon DEF Woken, RoleInv
    <3> QED
      BY <3>3, Zenon DEF Chan, OtherSide
  <2>6. ASSUME NEW q \in Procs, Sleepy(q)' PROVE FALSE
    <3>1. q \in Peers(p)
      BY <2>5, <2>6, Zenon DEF Peers
    <3>2. pc[q] = "user"
      BY <1>0, <2>1, <2>4, <2>6, <3>1, Zenon DEF OpenInv
    <3> QED
      BY <1>0, <2>4, <2>6, <3>2, Zenon DEF Sleepy, RoleInv
  <2> QED
    BY <2>6, Zenon DEF WakeInv
<1>14. ASSUME NEW p \in Procs, fileclose(p) PROVE WakeInv'
  BY <1>0, <1>14, Zenon DEF fileclose, Goto, Last, TypeOK, WakeInv, Sleepy, RoleInv, LockInv, Holding, Empty, Full, pipeVars, procVars
<1>15. ASSUME NEW p \in Procs, kill(p) PROVE WakeInv'
  BY <1>0, <1>15, Zenon DEF kill, TypeOK, WakeInv, Sleepy, RoleInv, LockInv, Holding, Empty, Full, pipeVars, procVars
<1>16. ASSUME NEW p \in Procs, NEW n \in 0..MaxCount, call(p, n) PROVE WakeInv'
  BY <1>0, <1>16, Zenon DEF call, Goto, TypeOK, WakeInv, Sleepy, RoleInv, LockInv, Holding, Empty, Full, pipeVars, procVars
<1> QED
  BY <1>1, <1>2, <1>3, <1>4, <1>5, <1>6, <1>7, <1>8, <1>9, <1>10, <1>11, <1>12, <1>13, <1>14, <1>15, <1>16, Zenon
     DEF Next, kernel, pipewrite, piperead, sleep, pipeclose

(* pipealloc makes an empty pipe, open at both ends.                         *)
LEMMA InvInit ==
  ASSUME Init
  PROVE  PipeInv
<1> USE PipeAssumption
<1>1. TypeOK
  <2>1. 0 \in 0..(UINT - 1) /\ 0 \in 0..MaxCount
    OBVIOUS
  <2> QED
    BY <2>1, Zenon DEF Init, TypeOK, PCs, Chans
<1>2. LockInv /\ RoleInv /\ OpenInv /\ FreeInv
  BY Zenon DEF Init, LockInv, Holding, RoleInv, OpenInv, FreeInv, Procs
<1>3. WakeInv
  BY Zenon DEF Init, WakeInv, Sleepy
<1> QED
  BY <1>1, <1>2, <1>3, Zenon DEF PipeInv

(* The locks, the ends and the sleepers of a pipe, for any number of         *)
(* readers and writers.                                                      *)
THEOREM PipeInvariant == Spec => []PipeInv
<1>1. PipeInv /\ [Next]_vars => PipeInv'
  <2>1. ASSUME PipeInv, Next PROVE PipeInv'
    BY <2>1, TypeStep, LockStep, RoleStep, OpenStep, FreeStep, WakeStep, Zenon DEF PipeInv
  <2>2. ASSUME PipeInv, UNCHANGED vars PROVE PipeInv'
    <3>1. TypeOK' /\ LockInv' /\ RoleInv'
      BY <2>2, Zenon DEF vars, PipeInv, TypeOK, LockInv, RoleInv
    <3>2. OpenInv' /\ FreeInv'
      BY <2>2, Zenon DEF vars, PipeInv, OpenInv, FreeInv
    <3>3. WakeInv'
      BY <2>2, Zenon DEF vars, PipeInv, WakeInv, Sleepy, Empty, Full
    <3> QED
      BY <3>1, <3>2, <3>3, Zenon DEF PipeInv
  <2> QED
    BY <2>1, <2>2, Zenon
<1> QED
  BY <1>1, InvInit, PTL DEF Spec

(* pipeclose frees the page only when both ends are closed and no process    *)
(* is inside a call, waits for the lock, or has the pipe open.               *)
THEOREM FreedUnused == Spec => []NoUseAfterFree
<1>1. PipeInv => NoUseAfterFree
  <2> SUFFICES ASSUME PipeInv, freed
               PROVE  lock = None /\ \A p \in Procs : ~fd[p] /\ pc[p] = "user"
    BY Zenon DEF NoUseAfterFree
  <2>1. ~readopen /\ ~writeopen /\ \A p \in Procs : pc[p] = "user"
    BY Zenon DEF PipeInv, FreeInv
  <2>2. \A p \in Procs : ~fd[p]
    BY <2>1, Zenon DEF PipeInv, OpenInv, Procs
  <2>3. lock = None
    BY <2>1, Zenon DEF PipeInv, LockInv, Holding, TypeOK
  <2> QED
    BY <2>1, <2>2, <2>3, Zenon
<1> QED
  BY <1>1, PipeInvariant, PTL

(* sleep() with p->lock misses no wakeup of pipewrite, piperead, pipeclose   *)
(* or kill(): the only reader that may sleep on a pipe with bytes in it is   *)
(* one whose writer was killed.                                              *)
THEOREM SleepersKnown == Spec => []NoLostWakeupUnlessKilled
<1>1. PipeInv => NoLostWakeupUnlessKilled
  <2> SUFFICES ASSUME PipeInv, Settled, NEW p \in Procs
               PROVE  /\ asleep[p] = "nread" =>
                           writeopen /\ (Empty \/ \E w \in Writers : killed[w])
                      /\ asleep[p] = "nwrite" => Full /\ readopen
    BY Zenon DEF NoLostWakeupUnlessKilled
  <2>1. \A q \in Procs : pc[q] \notin Holding
    BY PipeAssumption, Zenon DEF PipeInv, LockInv, Settled, Procs
  <2>2. asleep[p] = "nread" => Sleepy(p) /\ p \in Readers
    BY PipeAssumption, Zenon DEF PipeInv, RoleInv, Sleepy, Chan
  <2>3. asleep[p] = "nwrite" => Sleepy(p) /\ p \notin Readers
    BY PipeAssumption, Zenon DEF PipeInv, RoleInv, Sleepy, Chan
  <2> QED
    BY <2>1, <2>2, <2>3, Zenon DEF PipeInv, WakeInv, Holding, Procs
<1> QED
  BY <1>1, PipeInvariant, PTL

-----------------------------------------------------------------------------
(* An index into the ring is the same whether a counter has wrapped or not.  *)
LEMMA Index ==
  ASSUME NEW x \in Nat, x < 2 * UINT
  PROVE  (x % UINT) % PIPESIZE = x % PIPESIZE
<1>1. UINT \in Nat \ {0} /\ PIPESIZE \in Nat \ {0} /\ UINT % PIPESIZE = 0
  BY PipeAssumption
<1> QED
  BY <1>1, Place, Zenon

(* The distance of two counters. *)
LEMMA Distance ==
  ASSUME NEW r \in 0..(UINT - 1), NEW w \in 0..(UINT - 1)
  PROVE  (w + UINT - r) % UINT = IF w >= r THEN w - r ELSE w + UINT - r
<1> USE PipeAssumption
<1> DEFINE x == w + UINT - r
<1>1. x \in Nat /\ x < 2 * UINT /\ UINT \in Nat \ {0}
  OBVIOUS
<1>2. /\ x < UINT => x % UINT = x
      /\ UINT <= x => x % UINT = x - UINT
  <2> HIDE DEF x
  <2> QED
    BY <1>1, Modulo, Zenon
<1> QED
  BY <1>1, <1>2

(* The bytes in the pipe: a number below UINT, zero when empty.              *)
LEMMA Counted ==
  ASSUME TypeOK
  PROVE  /\ Count = IF nwrite >= nread THEN nwrite - nread ELSE nwrite + UINT - nread
         /\ Count \in Nat /\ Count < UINT
         /\ Empty <=> Count = 0
         /\ Full <=> Count = PIPESIZE
<1> USE PipeAssumption
<1>1. nread \in 0..(UINT - 1) /\ nwrite \in 0..(UINT - 1)
  BY Zenon DEF TypeOK
<1>2. Count = IF nwrite >= nread THEN nwrite - nread ELSE nwrite + UINT - nread
  BY <1>1, Distance, Zenon DEF Count
<1>3. (nread + PIPESIZE) % UINT
        = IF nread + PIPESIZE < UINT THEN nread + PIPESIZE ELSE nread + PIPESIZE - UINT
  <2>1. UINT \in Nat \ {0} /\ PIPESIZE \in 0..UINT
    OBVIOUS
  <2> QED
    BY <1>1, <2>1, Advance, Zenon
<1> QED
  BY <1>1, <1>2, <1>3 DEF Empty, Full

(* The bytes of the ring are a sequence.                                     *)
LEMMA Ring ==
  ASSUME TypeOK
  PROVE  /\ queue \in Seq(Values) /\ Len(queue) = Count
         /\ \A i \in 1..Count : queue[i] = data[(nread + i - 1) % PIPESIZE]
<1> USE PipeAssumption
<1>1. nread \in Nat /\ PIPESIZE \in Nat \ {0} /\ Count \in Nat
  BY Counted DEF TypeOK
<1>2. ASSUME NEW i \in 1..Count PROVE data[(nread + i - 1) % PIPESIZE] \in Values
  <2> DEFINE x == nread + i - 1
  <2>1. x \in Nat
    BY <1>1, <1>2
  <2> HIDE DEF x
  <2>2. x % PIPESIZE \in 0..(PIPESIZE - 1)
    BY <1>1, <2>1, Division, Zenon
  <2> QED
    BY <2>2, Zenon DEF x, TypeOK
<1> QED
  BY <1>1, <1>2 DEF queue

(* What a step does to the ring: write_byte appends to the queue, read_byte  *)
(* takes its first byte.                                                     *)
LEMMA Appended ==
  ASSUME TypeOK, TypeOK', Count <= PIPESIZE, ~Full, NEW v \in Values,
         data' = [data EXCEPT ![nwrite % PIPESIZE] = v],
         nwrite' = After(nwrite), nread' = nread
  PROVE  Count' = Count + 1 /\ queue' = Append(queue, v)
<1> USE PipeAssumption
<1>1. /\ nread \in Nat /\ nwrite \in Nat /\ nread < UINT /\ nwrite < UINT
      /\ UINT \in Nat \ {0} /\ PIPESIZE \in Nat \ {0}
  BY DEF TypeOK
<1>2. nwrite' = IF nwrite + 1 < UINT THEN nwrite + 1 ELSE 0
  <2> DEFINE x == nwrite + 1
  <2>1. x \in Nat /\ x < 2 * UINT
    BY <1>1
  <2> HIDE DEF x
  <2>2. /\ x < UINT => x % UINT = x
        /\ UINT <= x => x % UINT = x - UINT
    BY <1>1, <2>1, Modulo, Zenon
  <2> QED
    BY <1>1, <2>1, <2>2 DEF x, After
<1>3. /\ Count = IF nwrite >= nread THEN nwrite - nread ELSE nwrite + UINT - nread
      /\ Count' = IF nwrite' >= nread THEN nwrite' - nread ELSE nwrite' + UINT - nread
      /\ Count \in Nat /\ Count < PIPESIZE
  <2>1. nwrite' \in 0..(UINT - 1) /\ nread \in 0..(UINT - 1)
    BY Zenon DEF TypeOK
  <2>2. Count' = (nwrite' + UINT - nread) % UINT
    BY Zenon DEF Count
  <2>3. (nwrite' + UINT - nread) % UINT
          = IF nwrite' >= nread THEN nwrite' - nread ELSE nwrite' + UINT - nread
    BY <2>1, Distance, Zenon
  <2>4. Count \in Nat /\ Count # PIPESIZE
    BY Counted, Zenon
  <2>5. Count < PIPESIZE
    BY <2>4, <1>1
  <2> QED
    BY <2>2, <2>3, <2>4, <2>5, Counted, Zenon
<1>4. Count' = Count + 1
  BY <1>1, <1>2, <1>3
<1>5. nwrite % PIPESIZE = (nread + Count) % PIPESIZE
  <2> DEFINE x == nread + Count
  <2>1. x \in Nat /\ x < 2 * UINT
    BY <1>1, <1>3
  <2>2. nwrite = IF x < UINT THEN x ELSE x - UINT
    BY <1>1, <1>3
  <2> HIDE DEF x
  <2>3. nwrite = x % UINT
    <3>1. /\ x < UINT => x % UINT = x
          /\ UINT <= x => x % UINT = x - UINT
      BY <1>1, <2>1, Modulo, Zenon
    <3> QED
      BY <1>1, <2>1, <2>2, <3>1
  <2> QED
    BY <2>1, <2>3, Index, Zenon DEF x
<1>6. queue' = [i \in 1..(Count + 1) |-> data'[(nread + i - 1) % PIPESIZE]]
  BY <1>4 DEF queue
<1>7. ASSUME NEW i \in 1..Count
      PROVE  data'[(nread + i - 1) % PIPESIZE] = data[(nread + i - 1) % PIPESIZE]
  <2> DEFINE x == nread + i - 1
             y == nread + Count
  <2>1. x \in Nat /\ y \in Nat /\ x < y /\ y < x + PIPESIZE
    BY <1>1, <1>3, <1>7
  <2> HIDE DEF x, y
  <2>2. x % PIPESIZE # y % PIPESIZE /\ x % PIPESIZE \in 0..(PIPESIZE - 1)
    BY <1>1, <2>1, Apart, Division, Zenon
  <2>3. nwrite % PIPESIZE = y % PIPESIZE
    BY <1>5, Zenon DEF y
  <2>4. data'[x % PIPESIZE] = data[x % PIPESIZE]
    BY <2>2, <2>3, Zenon DEF TypeOK
  <2> QED
    BY <2>4, Zenon DEF x
<1>8. data'[(nread + (Count + 1) - 1) % PIPESIZE] = v
  <2>1. nread + (Count + 1) - 1 = nread + Count
    BY <1>1, <1>3
  <2>2. nwrite % PIPESIZE \in 0..(PIPESIZE - 1)
    BY <1>1, Division, Zenon
  <2> QED
    BY <1>5, <2>1, <2>2, Zenon DEF TypeOK
<1>9. queue \in Seq(Values) /\ Len(queue) = Count
      /\ \A i \in 1..Count : queue[i] = data[(nread + i - 1) % PIPESIZE]
  BY Ring, Zenon
<1>10. queue' = Append(queue, v)
  <2> DEFINE f == queue'
             s == queue
  <2>1. f = [i \in 1..(Len(s) + 1) |-> f[i]]
    BY <1>3, <1>6, <1>9
  <2>2. f[Len(s) + 1] = v
    BY <1>3, <1>6, <1>8, <1>9
  <2>3. \A i \in 1..Len(s) : f[i] = s[i]
    BY <1>3, <1>6, <1>7, <1>9
  <2>4. s \in Seq(Values)
    BY <1>9, Zenon
  <2> HIDE DEF f, s
  <2> DEFINE t == Append(s, v)
             n == Len(s) + 1
  <2>5. t \in Seq(Values) /\ Len(t) = n /\ n \in Nat /\ \A i \in 1..n : f[i] = t[i]
    BY <2>2, <2>3, <2>4
  <2>6. f = [i \in 1..n |-> f[i]]
    BY <2>1, Zenon
  <2> HIDE DEF t, n
  <2>7. f = t
    BY <2>5, <2>6, Extensional
  <2> QED
    BY <2>7, Zenon DEF f, s, t
<1> QED
  BY <1>4, <1>10, Zenon

(* piperead takes the oldest byte and leaves the rest in order.              *)
LEMMA Removed ==
  ASSUME TypeOK, TypeOK', Count <= PIPESIZE, ~Empty,
         nread' = After(nread), data' = data, nwrite' = nwrite
  PROVE  /\ Count' = Count - 1 /\ queue' = Tail(queue)
         /\ queue # <<>> /\ Head(queue) = data[nread % PIPESIZE]
<1> USE PipeAssumption
<1>1. /\ nread \in Nat /\ nwrite \in Nat /\ nread < UINT /\ nwrite < UINT
      /\ UINT \in Nat \ {0} /\ PIPESIZE \in Nat \ {0} /\ PIPESIZE < UINT
  BY DEF TypeOK
<1>2. nread' = IF nread + 1 < UINT THEN nread + 1 ELSE 0
  <2>1. nread \in 0..(UINT - 1) /\ 1 \in 0..UINT /\ UINT \in Nat \ {0}
    BY <1>1
  <2>2. (nread + 1) % UINT = IF nread + 1 < UINT THEN nread + 1 ELSE nread + 1 - UINT
    BY <2>1, Advance, Zenon
  <2> QED
    BY <1>1, <2>2 DEF After
<1>3. /\ Count = IF nwrite >= nread THEN nwrite - nread ELSE nwrite + UINT - nread
      /\ Count' = IF nwrite >= nread' THEN nwrite - nread' ELSE nwrite + UINT - nread'
      /\ Count \in Nat /\ Count # 0
  <2>1. nwrite \in 0..(UINT - 1) /\ nread' \in 0..(UINT - 1)
    BY Zenon DEF TypeOK
  <2>2. Count' = (nwrite + UINT - nread') % UINT
    BY Zenon DEF Count
  <2>3. (nwrite + UINT - nread') % UINT
          = IF nwrite >= nread' THEN nwrite - nread' ELSE nwrite + UINT - nread'
    BY <2>1, Distance, Zenon
  <2> QED
    BY <2>2, <2>3, Counted, Zenon
<1>4. Count' = Count - 1
  BY <1>1, <1>2, <1>3
<1>5. queue' = [i \in 1..(Count - 1) |-> data[(nread' + i - 1) % PIPESIZE]]
  BY <1>4, Zenon DEF queue
<1>6. ASSUME NEW i \in 1..(Count - 1)
      PROVE  (nread' + i - 1) % PIPESIZE = (nread + (i + 1) - 1) % PIPESIZE
  <2> DEFINE x == nread + i
             y == nread' + i - 1
  <2>1. x \in Nat /\ x < 2 * UINT /\ y = IF nread + 1 < UINT THEN x ELSE x - UINT
    BY <1>1, <1>2, <1>3, <1>6
  <2>2. nread + 1 < UINT \/ x >= UINT
    BY <1>1, <1>6
  <2>3. nread + (i + 1) - 1 = x
    BY <1>1, <1>6
  <2> HIDE DEF x, y
  <2>4. UINT <= x => x % UINT = x - UINT
    BY <1>1, <2>1, Modulo, Zenon
  <2>5. (x % UINT) % PIPESIZE = x % PIPESIZE
    BY <2>1, Index, Zenon
  <2>6. y % PIPESIZE = x % PIPESIZE
    BY <1>1, <2>1, <2>2, <2>4, <2>5, Zenon
  <2> QED
    BY <2>3, <2>6, Zenon DEF y
<1>7. queue \in Seq(Values) /\ Len(queue) = Count
      /\ \A i \in 1..Count : queue[i] = data[(nread + i - 1) % PIPESIZE]
  BY Ring, Zenon
<1>8. queue # <<>> /\ Head(queue) = data[nread % PIPESIZE]
  <2>1. 1 \in 1..Count /\ nread + 1 - 1 = nread
    BY <1>1, <1>3
  <2>2. queue[1] = data[nread % PIPESIZE]
    BY <1>7, <2>1, Zenon
  <2> QED
    BY <1>3, <1>7, <2>2
<1>9. queue' = Tail(queue)
  <2> DEFINE f == queue'
             s == queue
  <2>1. f = [i \in 1..(Len(s) - 1) |-> f[i]]
    BY <1>3, <1>5, <1>7, Zenon
  <2>2. \A i \in 1..(Len(s) - 1) : f[i] = s[i + 1]
    <3>1. ASSUME NEW i \in 1..(Count - 1)
          PROVE  queue'[i] = data[(nread + (i + 1) - 1) % PIPESIZE] /\ i + 1 \in 1..Count
      BY <1>3, <1>5, <1>6
    <3> QED
      BY <1>7, <3>1
  <2>3. s \in Seq(Values) /\ s # <<>>
    BY <1>7, <1>8, Zenon
  <2> HIDE DEF f, s
  <2> DEFINE t == Tail(s)
             n == Len(s) - 1
  <2>4. t \in Seq(Values) /\ Len(t) = n /\ n \in Nat /\ \A i \in 1..n : f[i] = t[i]
    BY <2>2, <2>3
  <2>5. f = [i \in 1..n |-> f[i]]
    BY <2>1, Zenon
  <2> HIDE DEF t, n
  <2>6. f = t
    BY <2>4, <2>5, Extensional
  <2> QED
    BY <2>6, Zenon DEF f, s, t
<1> QED
  BY <1>4, <1>8, <1>9, Zenon

-----------------------------------------------------------------------------
(* Every step of the ring is a step of the queue, or none.                   *)
StreamVars == <<queue, readopen, writeopen, out>>

(* The steps: write_byte is Put, read_byte is Get, pipeclose is a Close.     *)
LEMMA StreamStep ==
  ASSUME PipeInv, PipeInv', Count <= PIPESIZE, [Next]_vars
  PROVE  (Count <= PIPESIZE)' /\ [Stream!Next]_StreamVars
<1> USE PipeAssumption DEF Procs
<1>0. TypeOK /\ TypeOK' /\ RoleInv /\ OpenInv
  BY Zenon DEF PipeInv
<1> DEFINE Goal == (Count <= PIPESIZE)' /\ [Stream!Next]_StreamVars
<1>1. ASSUME UNCHANGED <<data, nread, nwrite, readopen, writeopen, out>> PROVE Goal
  BY <1>1, Zenon DEF StreamVars, queue, Count
<1>2. ASSUME NEW p \in Procs, write_byte(p) PROVE Goal
  <2>1. PICK v \in Values : data' = [data EXCEPT ![nwrite % PIPESIZE] = v]
    BY <1>2, Zenon DEF write_byte
  <2>2. ~Full /\ nwrite' = After(nwrite) /\ UNCHANGED <<nread, readopen, writeopen, out>>
    BY <1>2, Zenon DEF write_byte
  <2>3. Count' = Count + 1 /\ queue' = Append(queue, v)
    BY <1>0, <2>1, <2>2, Appended, Zenon
  <2>4. writeopen
    BY <1>0, <1>2, Zenon DEF write_byte, RoleInv, OpenInv
  <2>5. Count \in Nat /\ Count # PIPESIZE
    BY <1>0, <2>2, Counted, Zenon
  <2>6. Len(queue) = Count
    BY <1>0, Ring, Zenon
  <2>7. Len(queue) < PIPESIZE /\ Count' <= PIPESIZE
    BY <2>3, <2>5, <2>6
  <2>8. Stream!Put(v)
    BY <2>2, <2>3, <2>4, <2>7, Zenon DEF Stream!Put
  <2> QED
    BY <2>7, <2>8, Zenon DEF Stream!Next
<1>3. ASSUME NEW p \in Procs, read_byte(p) PROVE Goal
  <2>1. /\ ~Empty /\ nread' = After(nread) /\ out' = data[nread % PIPESIZE]
        /\ UNCHANGED <<data, nwrite, readopen, writeopen>>
    BY <1>3, Zenon DEF read_byte
  <2>2. /\ Count' = Count - 1 /\ queue' = Tail(queue)
        /\ queue # <<>> /\ Head(queue) = data[nread % PIPESIZE]
    BY <1>0, <2>1, Removed, Zenon
  <2>3. readopen
    BY <1>0, <1>3, Zenon DEF read_byte, RoleInv, OpenInv
  <2>4. Count \in Nat
    BY <1>0, Counted, Zenon
  <2>5. Stream!Get
    BY <2>1, <2>2, <2>3, Zenon DEF Stream!Get
  <2> QED
    BY <2>2, <2>4, <2>5 DEF Stream!Next
<1>4. ASSUME NEW p \in Procs, close_flag(p) PROVE Goal
  <2>1. /\ UNCHANGED <<data, nread, nwrite, out>> /\ pc[p] = "close"
        /\ readopen' = (readopen /\ p \notin Readers)
        /\ writeopen' = (writeopen /\ p \notin Writers)
    BY <1>4, Zenon DEF close_flag
  <2>2. queue' = queue /\ Count' = Count
    BY <2>1, Zenon DEF queue, Count
  <2>3. readopen \in BOOLEAN /\ writeopen \in BOOLEAN
    BY <1>0, Zenon DEF TypeOK
  <2>4. CASE p \in Readers
    <3>1. readopen
      BY <1>0, <2>1, <2>4, Zenon DEF OpenInv
    <3>2. readopen' = FALSE /\ writeopen' = writeopen
      BY <2>1, <2>3, <2>4, Zenon
    <3> QED
      BY <2>1, <2>2, <3>1, <3>2, Zenon DEF Stream!Next, Stream!CloseRead
  <2>5. CASE p \in Writers
    <3>1. writeopen
      BY <1>0, <2>1, <2>5, Zenon DEF OpenInv
    <3>2. writeopen' = FALSE /\ readopen' = readopen
      BY <2>1, <2>3, <2>5, Zenon
    <3> QED
      BY <2>1, <2>2, <3>1, <3>2, Zenon DEF Stream!Next, Stream!CloseWrite
  <2> QED
    BY <2>4, <2>5, Zenon
<1>5. ASSUME NEW p \in Procs, acquire(p) \/ write_full(p) \/ write_end(p) \/ read_empty(p) \/ read_end(p)
      PROVE  Goal
  BY <1>1, <1>5, Zenon DEF acquire, write_full, write_end, read_empty, read_end, pipeVars
<1>6. ASSUME NEW p \in Procs, sleep(p) \/ close_wake(p) \/ fileclose(p) \/ kill(p) PROVE Goal
  BY <1>1, <1>6, Zenon DEF sleep, sleep_acquire, sleep_release, sleep_sched, sleep_return,
                    close_wake, fileclose, kill, pipeVars
<1>7. ASSUME NEW p \in Procs, NEW n \in 0..MaxCount, call(p, n) PROVE Goal
  BY <1>1, <1>7, Zenon DEF call, pipeVars
<1>8. ASSUME UNCHANGED vars PROVE Goal
  BY <1>1, <1>8, Zenon DEF vars
<1> QED
  BY <1>2, <1>3, <1>4, <1>5, <1>6, <1>7, <1>8, Zenon
     DEF Next, kernel, pipewrite, piperead, pipeclose

(* A pipe implements a bounded queue of bytes, whatever its size, the width  *)
(* of its counters and the number of processes at its ends.                  *)
THEOREM Fifo == Spec => FirstInFirstOut
<1>1. Init => Count <= PIPESIZE /\ Stream!Init
  <2> SUFFICES ASSUME Init PROVE Count <= PIPESIZE /\ Stream!Init
    BY Zenon
  <2>1. TypeOK
    BY InvInit, Zenon DEF PipeInv
  <2>2. Count = 0
    BY <2>1, Counted, Zenon DEF Init, Empty
  <2>3. queue = <<>>
    BY <2>1, <2>2, Ring
  <2> QED
    BY <2>2, <2>3, PipeAssumption DEF Init, Stream!Init
<1>2. PipeInv /\ PipeInv' /\ Count <= PIPESIZE /\ [Next]_vars
        => (Count <= PIPESIZE)' /\ [Stream!Next]_StreamVars
  BY StreamStep, Zenon
<1> QED
  BY <1>1, <1>2, PipeInvariant, PTL DEF Spec, FirstInFirstOut, Stream!Spec, StreamVars

-----------------------------------------------------------------------------
(* A reader that copies has copied a byte already, or piperead's first loop  *)
(* ended for a reason that still holds: nobody else has p->lock.             *)
CopyInv == \A p \in Readers : pc[p] = "copy" => some[p] \/ ~Empty \/ ~writeopen

(* No step takes that reason away.                                           *)
LEMMA CopyStep ==
  ASSUME PipeInv, CopyInv, [Next]_vars
  PROVE  CopyInv'
<1> USE PipeAssumption DEF Procs
<1>0. TypeOK /\ LockInv /\ RoleInv
  BY Zenon DEF PipeInv
<1>9. ASSUME NEW p \in Procs, Return(p), UNCHANGED <<nread, nwrite, writeopen>> PROVE CopyInv'
  <2>1. \A q \in Readers : pc'[q] = "copy" => pc[q] = "copy" /\ q # p
    BY <1>0, <1>9, Zenon DEF Return, Goto, TypeOK
  <2>2. \A q \in Readers : q # p => some'[q] = (q # p /\ some[q])
    BY <1>9, Zenon DEF Return
  <2>3. ASSUME NEW q \in Readers, pc'[q] = "copy" PROVE some'[q] \/ ~Empty' \/ ~writeopen'
    <3>1. some[q] \/ ~Empty \/ ~writeopen
      BY <2>1, <2>3, Zenon DEF CopyInv
    <3>2. Empty' = Empty /\ writeopen' = writeopen
      BY <1>9, Zenon DEF Empty
    <3>3. some[q] => some'[q]
      BY <2>1, <2>2, <2>3, Zenon
    <3> QED
      BY <3>1, <3>2, <3>3, Zenon
  <2> QED
    BY <2>3, Zenon DEF CopyInv
<1>1. ASSUME NEW p \in Procs, write_byte(p) PROVE CopyInv'
  <2>1. \A q \in Procs : pc[q] # "copy"
    BY <1>0, <1>1, Zenon DEF write_byte, LockInv, Holding
  <2> QED
    BY <1>1, <2>1, Zenon DEF write_byte, CopyInv
<1>2. ASSUME NEW p \in Procs, read_byte(p) PROVE CopyInv'
  <2>1. \A q \in Procs : pc[q] = "copy" => q = p
    BY <1>0, <1>2, Zenon DEF read_byte, LockInv, Holding
  <2>2. some'[p] = TRUE /\ pc' = pc
    BY <1>0, <1>2, Zenon DEF read_byte, RoleInv, TypeOK
  <2>3. ASSUME NEW q \in Readers, pc'[q] = "copy" PROVE some'[q]
    <3>1. q = p
      BY <2>1, <2>2, <2>3, Zenon
    <3> QED
      BY <2>2, <3>1, Zenon
  <2> QED
    BY <2>3, Zenon DEF CopyInv
<1>3. ASSUME NEW p \in Procs, close_flag(p) PROVE CopyInv'
  <2>1. \A q \in Procs : pc[q] # "copy"
    BY <1>0, <1>3, Zenon DEF close_flag, LockInv, Holding, TypeOK
  <2>2. \A q \in Procs : pc'[q] # "copy"
    BY <1>0, <1>3, <2>1, Zenon DEF close_flag, Goto, TypeOK
  <2> QED
    BY <2>2, Zenon DEF CopyInv
<1>4. ASSUME NEW p \in Procs, read_empty(p) PROVE CopyInv'
  <2>1. UNCHANGED <<nread, nwrite, writeopen>> /\ pc \in [Procs -> PCs]
    BY <1>0, <1>4, Zenon DEF read_empty, pipeVars, TypeOK
  <2>2. CASE Return(p)
    BY <1>9, <2>1, <2>2, Zenon
  <2>3. CASE Goto(p, "sleep") /\ UNCHANGED some
    BY <2>1, <2>3, Zenon DEF Goto, CopyInv, Empty
  <2>4. CASE ~(Empty /\ writeopen) /\ Goto(p, "copy") /\ UNCHANGED some
    BY <2>1, <2>4, Zenon DEF Goto, CopyInv, Empty
  <2> QED
    BY <1>4, <2>2, <2>3, <2>4, Zenon DEF read_empty
<1>5. ASSUME NEW p \in Procs, acquire(p) \/ write_full(p) \/ write_end(p) \/ read_end(p)
      PROVE  CopyInv'
  <2>1. UNCHANGED <<nread, nwrite, writeopen>> /\ pc \in [Procs -> PCs]
    BY <1>0, <1>5, Zenon DEF acquire, write_full, write_end, read_end, pipeVars, TypeOK
  <2>2. CASE Return(p)
    BY <1>9, <2>1, <2>2, Zenon
  <2>3. CASE UNCHANGED some /\ \E l \in {"empty", "write", "sleep"} : Goto(p, l)
    BY <2>1, <2>3, Zenon DEF Goto, CopyInv, Empty
  <2> QED
    BY <1>5, <2>2, <2>3, Zenon DEF acquire, write_full, write_end, read_end
<1>6. ASSUME NEW p \in Procs, sleep(p) \/ close_wake(p) \/ fileclose(p) \/ kill(p) PROVE CopyInv'
  BY <1>0, <1>6 DEF sleep, sleep_acquire, sleep_release, sleep_sched, sleep_return,
                    close_wake, fileclose, kill, Goto, pipeVars, CopyInv, Empty, TypeOK
<1>7. ASSUME NEW p \in Procs, NEW n \in 0..MaxCount, call(p, n) PROVE CopyInv'
  BY <1>0, <1>7, Zenon DEF call, Goto, pipeVars, CopyInv, Empty, TypeOK
<1>8. ASSUME UNCHANGED vars PROVE CopyInv'
  BY <1>8, Zenon DEF vars, pipeVars, CopyInv, Empty
<1> QED
  BY <1>1, <1>2, <1>3, <1>4, <1>5, <1>6, <1>7, <1>8, Zenon
     DEF Next, kernel, pipewrite, piperead, pipeclose

(* What ShortCount says of one process and one step.                         *)
CountedStep(p) ==
  pc[p] \in {"write", "empty", "copy"} /\ pc'[p] = "user" /\ ~killed[p] =>
    /\ p \in Readers /\ left[p] > 0 => some[p] \/ (Empty /\ ~writeopen)
    /\ p \in Writers /\ left[p] > 0 => ~readopen

(* A return with bytes left to move has one of the allowed reasons.          *)
LEMMA CountStep ==
  ASSUME PipeInv, CopyInv, [Next]_vars, NEW p \in Procs
  PROVE  CountedStep(p)
<1> USE PipeAssumption DEF Procs
<1> SUFFICES ASSUME pc[p] \in {"write", "empty", "copy"}, pc'[p] = "user", ~killed[p], left[p] > 0
             PROVE  /\ p \in Readers => some[p] \/ (Empty /\ ~writeopen)
                    /\ p \in Writers => ~readopen
  BY Zenon DEF CountedStep
<1>0. TypeOK /\ RoleInv
  BY Zenon DEF PipeInv
<1> DEFINE G == (pc[p] = "write" /\ ~readopen) \/ (pc[p] = "copy" /\ Empty)
<1>1. ~UNCHANGED pc /\ pc \in [Procs -> PCs]
  BY <1>0, Zenon DEF TypeOK
<1>2. ASSUME NEW q \in Procs, Goto(q, "user") PROVE q = p
  BY <1>1, <1>2, Zenon DEF Goto
<1>3. ASSUME NEW q \in Procs, NEW l, Goto(q, l), l # "user" PROVE FALSE
  BY <1>1, <1>3, Zenon DEF Goto
<1>4. G
  <2>1. ASSUME NEW q \in Procs, write_full(q) PROVE G
    BY <1>2, <1>3, <2>1, Zenon DEF write_full, Return
  <2>2. ASSUME NEW q \in Procs, write_end(q) PROVE G
    BY <1>0, <1>2, <2>2 DEF write_end, Return, TypeOK
  <2>3. ASSUME NEW q \in Procs, read_empty(q) PROVE G
    BY <1>2, <1>3, <2>3, Zenon DEF read_empty, Return
  <2>4. ASSUME NEW q \in Procs, read_end(q) PROVE G
    BY <1>0, <1>2, <2>4 DEF read_end, Return, TypeOK
  <2>5. ASSUME NEW q \in Procs, acquire(q) \/ sleep_return(q) PROVE G
    BY <1>3, <2>5, Zenon DEF acquire, sleep_return
  <2>6. ASSUME NEW q \in Procs, sleep_acquire(q) \/ sleep_release(q) \/ sleep_sched(q) \/ close_flag(q)
        PROVE  G
    BY <1>3, <2>6, Zenon DEF sleep_acquire, sleep_release, sleep_sched, close_flag
  <2>7. ASSUME NEW q \in Procs, close_wake(q) PROVE G
    BY <1>2, <2>7, Zenon DEF close_wake
  <2>8. ASSUME NEW q \in Procs, fileclose(q) PROVE G
    BY <1>2, <1>3, <2>8, Zenon DEF fileclose
  <2>9. ASSUME NEW q \in Procs, NEW n \in 0..MaxCount, call(q, n) PROVE G
    BY <1>3, <2>9, Zenon DEF call
  <2>10. ASSUME NEW q \in Procs, write_byte(q) \/ read_byte(q) \/ kill(q) PROVE G
    BY <1>1, <2>10, Zenon DEF write_byte, read_byte, kill
  <2> QED
    BY <1>1, <2>1, <2>2, <2>3, <2>4, <2>5, <2>6, <2>7, <2>8, <2>9, <2>10, Zenon
       DEF Next, vars, kernel, pipewrite, piperead, sleep, pipeclose
<1>5. CASE pc[p] = "write" /\ ~readopen
  BY <1>0, <1>5, Zenon DEF RoleInv
<1>6. CASE pc[p] = "copy" /\ Empty
  <2>1. p \in Readers /\ p \notin Writers
    BY <1>0, <1>6, Zenon DEF RoleInv
  <2>2. some[p] \/ ~Empty \/ ~writeopen
    BY <1>6, <2>1, Zenon DEF CopyInv
  <2> QED
    BY <1>6, <2>1, <2>2, Zenon
<1> QED
  BY <1>4, <1>5, <1>6, Zenon

(* A call returns fewer bytes than asked for only at the end of the stream,  *)
(* after some bytes were read, with no reader left, or when killed.          *)
THEOREM ReturnsCount == Spec => ShortCount
<1>1. Init => CopyInv
  BY PipeAssumption, Zenon DEF Init, CopyInv, Procs
<1>2. PipeInv /\ CopyInv /\ [Next]_vars => CopyInv'
  BY CopyStep, Zenon
<1>3. PipeInv /\ CopyInv /\ [Next]_vars =>
        [\A p \in Procs :
           pc[p] \in {"write", "empty", "copy"} /\ pc'[p] = "user" /\ ~killed[p] =>
             /\ p \in Readers /\ left[p] > 0 => some[p] \/ (Empty /\ ~writeopen)
             /\ p \in Writers /\ left[p] > 0 => ~readopen]_vars
  BY CountStep, Zenon DEF CountedStep
<1> QED
  BY <1>1, <1>2, <1>3, PipeInvariant, PTL DEF Spec, ShortCount
=============================================================================

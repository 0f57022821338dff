----------------------------- MODULE ByteStream -----------------------------
(***************************************************************************)
(* What a pipe promises: a bounded first-in first-out queue of bytes whose *)
(* ends close once and for all.                                            *)
(***************************************************************************)
EXTENDS Naturals, Sequences

CONSTANTS Values, None, PIPESIZE

VARIABLES
  queue,      \* bytes written and not yet read, oldest first
  readers,    \* the read end is open
  writers,    \* the write end is open
  out         \* the byte last read

Init == queue = <<>> /\ readers = TRUE /\ writers = TRUE /\ out = None

Put(v) ==
  /\ writers /\ Len(queue) < PIPESIZE
  /\ queue' = Append(queue, v)
  /\ UNCHANGED <<readers, writers, out>>

Get ==
  /\ readers /\ queue # <<>>
  /\ queue' = Tail(queue)
  /\ out' = Head(queue)
  /\ UNCHANGED <<readers, writers>>

CloseRead ==
  readers /\ readers' = FALSE /\ UNCHANGED <<queue, writers, out>>

CloseWrite ==
  writers /\ writers' = FALSE /\ UNCHANGED <<queue, readers, out>>

Next == (\E v \in Values : Put(v)) \/ Get \/ CloseRead \/ CloseWrite

Spec == Init /\ [][Next]_<<queue, readers, writers, out>>
=============================================================================

----------------------------- MODULE ByteQueue -----------------------------
(***************************************************************************)
(* What the UART receive path promises: bytes wait on a line, move in      *)
(* order and without loss into a bounded queue, as many as fit, and leave  *)
(* it from the front.                                                      *)
(***************************************************************************)
EXTENDS Naturals, Sequences

CONSTANTS Bytes, Capacity

VARIABLES line, queue

Fit == IF Len(line) <= Capacity - Len(queue) THEN Len(line)
                                             ELSE Capacity - Len(queue)

QueueInit == line = <<>> /\ queue = <<>>

Send(b) == line' = Append(line, b) /\ queue' = queue

Receive ==
  /\ queue' = queue \o SubSeq(line, 1, Fit)
  /\ line' = SubSeq(line, Fit + 1, Len(line))

Loop(b) ==
  /\ Len(queue) < Capacity
  /\ queue' = Append(queue, b)
  /\ line' = line

Take == queue # <<>> /\ queue' = Tail(queue) /\ line' = line

Flush == queue' = <<>> /\ line' = line

QueueNext == (\E b \in Bytes : Send(b) \/ Loop(b)) \/ Receive \/ Take \/ Flush

QueueSpec == QueueInit /\ [][QueueNext]_<<line, queue>>
=============================================================================

-------------------------------- MODULE Queue --------------------------------
(***************************************************************************)
(* The ring buffer of drivers/queue.c: enqueue overwrites without looking  *)
(* whether there is room, and count is a variable of its own next to the   *)
(* two indices.                                                            *)
(***************************************************************************)
EXTENDS Integers

CONSTANTS
  Size,    \* QUEUE_SIZE
  Nothing  \* contents of a slot that was never written

ASSUME SizeAssumption == Size \in Nat \ {0}

EmptyQueue ==
  [Data |-> [i \in 0..Size - 1 |-> Nothing],
   first |-> 0, last |-> Size - 1, count |-> 0]

\* Mutant: the byte is stored before last moves on.
EnqueueStoresFirst(q, x) ==
  [q EXCEPT !.Data[q.last] = x, !.last = (@ + 1) % Size, !.count = @ + 1]

Enqueue(q, x) ==
  LET last == (q.last + 1) % Size
  IN [q EXCEPT !.last = last, !.Data[last] = x, !.count = @ + 1]

Front(q) == q.Data[q.first]

Advance(q) == [q EXCEPT !.first = (@ + 1) % Size]

\* dequeue when nothing can interrupt it.
Dequeued(q) == [Advance(q) EXCEPT !.count = @ - 1]
=============================================================================

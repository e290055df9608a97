-------------------------------- MODULE Uart --------------------------------
(***************************************************************************)
(* The serial driver (drivers/uart.c) between the main loop and the wire.  *)
(*                                                                         *)
(* The main thread and UART0_IRQHandler share both queues.  uart_put masks *)
(* the interrupt, so it is one step here; dequeue(&rx_queue) in the main   *)
(* loop does not, so it is three: take the byte and advance first, load    *)
(* count, store count - 1.  The interrupt falls anywhere between.          *)
(*                                                                         *)
(* Bytes are the positions 1, 2, 3... in which they arrive or are put, so  *)
(* that order, loss and duplication show in what is read and sent.         *)
(***************************************************************************)
EXTENDS Queue, Sequences

CONSTANTS
  MaxReceived,  \* bound on the bytes that arrive
  MaxPut,       \* bound on the bytes handed to uart_put
  Idle          \* the transmitter holds no byte

ASSUME UartAssumption ==
  /\ MaxReceived \in Nat /\ MaxPut \in Nat
  /\ Idle # Nothing /\ Idle \notin Nat

VARIABLES
  rx_queue, tx_queue,
  txd_available,
  txd,        \* the byte the transmitter is shifting out, or Idle
  stage,      \* of the main thread's dequeue: "idle", "fetched", "loaded"
  loaded,     \* the value of count it has loaded
  received,   \* number of bytes that arrived
  taken,      \* bytes dequeue has returned
  put,        \* number of bytes handed to uart_put
  wire,       \* bytes that left the transmitter
  rx_overrun, tx_overrun  \* did a byte ever arrive at a full queue

rxVars == <<rx_queue, stage, loaded, received, taken, rx_overrun>>
txVars == <<tx_queue, txd_available, txd, put, wire, tx_overrun>>
vars == <<rxVars, txVars>>

\* Bytes in a queue, counted by what went in and out of it.
RxPending == received - Len(taken)
TxPending == put - Len(wire) - (IF txd = Idle THEN 0 ELSE 1)

Init ==
  /\ rx_queue = EmptyQueue /\ tx_queue = EmptyQueue
  /\ txd_available = TRUE /\ txd = Idle
  /\ stage = "idle" /\ loaded = 0
  /\ received = 0 /\ taken = <<>>
  /\ put = 0 /\ wire = <<>>
  /\ rx_overrun = FALSE /\ tx_overrun = FALSE

-----------------------------------------------------------------------------
(* UART0_IRQHandler.                                                       *)

RxReady ==
  /\ received < MaxReceived
  /\ received' = received + 1
  /\ rx_queue' = Enqueue(rx_queue, received')
  /\ rx_overrun' = (rx_overrun \/ RxPending >= Size)
  /\ UNCHANGED <<stage, loaded, taken, txVars>>

\* Mutant: the last queued byte is forgotten.
TxReadyLeavesOne ==
  /\ txd # Idle
  /\ wire' = Append(wire, txd)
  /\ IF tx_queue.count > 1
     THEN /\ txd' = Front(tx_queue)
          /\ tx_queue' = Dequeued(tx_queue)
          /\ UNCHANGED txd_available
     ELSE /\ txd' = Idle
          /\ txd_available' = TRUE
          /\ UNCHANGED tx_queue
  /\ UNCHANGED <<rxVars, put, tx_overrun>>

\* Mutant: nobody learns that the transmitter went idle.
TxReadyStaysBusy ==
  /\ txd # Idle
  /\ wire' = Append(wire, txd)
  /\ IF tx_queue.count > 0
     THEN /\ txd' = Front(tx_queue)
          /\ tx_queue' = Dequeued(tx_queue)
     ELSE /\ txd' = Idle
          /\ UNCHANGED tx_queue
  /\ UNCHANGED <<rxVars, put, txd_available, tx_overrun>>

TxReady ==
  /\ txd # Idle
  /\ wire' = Append(wire, txd)
  /\ IF tx_queue.count > 0
     THEN /\ txd' = Front(tx_queue)
          /\ tx_queue' = Dequeued(tx_queue)
          /\ UNCHANGED txd_available
     ELSE /\ txd' = Idle
          /\ txd_available' = TRUE
          /\ UNCHANGED tx_queue
  /\ UNCHANGED <<rxVars, put, tx_overrun>>

-----------------------------------------------------------------------------
(* The main thread; a line error makes the interrupt handler print, which  *)
(* also comes down to uart_put.                                            *)

\* Mutant: an empty queue is taken for an idle transmitter.
UartPutTrustsQueue ==
  /\ put < MaxPut
  /\ put' = put + 1
  /\ IF txd_available \/ tx_queue.count = 0
     THEN /\ txd' = put'
          /\ txd_available' = FALSE
          /\ UNCHANGED <<tx_queue, tx_overrun>>
     ELSE /\ tx_queue' = Enqueue(tx_queue, put')
          /\ tx_overrun' = (tx_overrun \/ TxPending >= Size)
          /\ UNCHANGED <<txd, txd_available>>
  /\ UNCHANGED <<rxVars, wire>>

UartPut ==
  /\ put < MaxPut
  /\ put' = put + 1
  /\ IF txd_available
     THEN /\ txd' = put'
          /\ txd_available' = FALSE
          /\ UNCHANGED <<tx_queue, tx_overrun>>
     ELSE /\ tx_queue' = Enqueue(tx_queue, put')
          /\ tx_overrun' = (tx_overrun \/ TxPending >= Size)
          /\ UNCHANGED <<txd, txd_available>>
  /\ UNCHANGED <<rxVars, wire>>

MainPut == stage = "idle" /\ UartPut
ErrorPut == UartPut

\* Mutant: the queue is read without looking at count.
DequeueFetchUnguarded ==
  /\ stage = "idle"
  /\ stage' = "fetched"
  /\ taken' = Append(taken, Front(rx_queue))
  /\ rx_queue' = Advance(rx_queue)
  /\ UNCHANGED <<loaded, received, rx_overrun, txVars>>

DequeueFetch ==
  /\ stage = "idle"
  /\ rx_queue.count > 0
  /\ stage' = "fetched"
  /\ taken' = Append(taken, Front(rx_queue))
  /\ rx_queue' = Advance(rx_queue)
  /\ UNCHANGED <<loaded, received, rx_overrun, txVars>>

DequeueLoad ==
  /\ stage = "fetched"
  /\ stage' = "loaded"
  /\ loaded' = rx_queue.count
  /\ UNCHANGED <<rx_queue, received, taken, rx_overrun, txVars>>

\* Mutant: count is not lowered.
DequeueStoreKeepsCount ==
  /\ stage = "loaded"
  /\ stage' = "idle"
  /\ loaded' = 0
  /\ rx_queue' = [rx_queue EXCEPT !.count = loaded]
  /\ UNCHANGED <<received, taken, rx_overrun, txVars>>

DequeueStore ==
  /\ stage = "loaded"
  /\ stage' = "idle"
  /\ loaded' = 0
  /\ rx_queue' = [rx_queue EXCEPT !.count = loaded - 1]
  /\ UNCHANGED <<received, taken, rx_overrun, txVars>>

Dequeue == DequeueFetch \/ DequeueLoad \/ DequeueStore

Next == RxReady \/ TxReady \/ MainPut \/ ErrorPut \/ Dequeue

\* The main loop keeps polling, the transmitter keeps shifting.
Spec == Init /\ [][Next]_vars /\ WF_vars(Dequeue) /\ WF_vars(TxReady)

-----------------------------------------------------------------------------
(* Properties.                                                             *)

\* A slot holds a byte that came through the queue, or was never written.
Ring == [Data : [0..Size - 1 -> Nat \cup {Nothing}],
         first : 0..Size - 1, last : 0..Size - 1, count : Nat]

\* Every variable keeps its type; in particular count, which main thread and
\* interrupt both update, never goes below zero (it would wrap to 65535).
TypeOK ==
  /\ rx_queue \in Ring /\ tx_queue \in Ring
  /\ txd_available \in BOOLEAN
  /\ txd \in Nat \cup {Nothing, Idle}
  /\ stage \in {"idle", "fetched", "loaded"}
  /\ loaded \in Nat
  /\ received \in Nat /\ put \in Nat
  /\ taken \in Seq(Nat \cup {Nothing}) /\ wire \in Seq(Nat \cup {Nothing})
  /\ rx_overrun \in BOOLEAN /\ tx_overrun \in BOOLEAN

\* As long as no byte arrived at a full queue the main loop gets the bytes in
\* the order they arrived, none twice and none skipped, although its dequeue
\* races with the interrupt.
ReadInOrder == ~rx_overrun => \A i \in 1..Len(taken) : taken[i] = i

\* count never promises a byte that is not there: losing an update makes it
\* too small, never too large, so dequeue returns no byte that never arrived,
\* overrun or not.
NoPhantomBytes ==
  /\ rx_queue.count <= RxPending + (IF stage = "idle" THEN 0 ELSE 1)
  /\ \A i \in 1..Len(taken) : taken[i] \in 1..received

\* As long as tx_queue never overflowed, bytes leave in the order they were
\* put, whether they passed through the queue or straight into TXD.
SentInOrder == ~tx_overrun => \A i \in 1..Len(wire) : wire[i] = i

\* txd_available is true exactly when the transmitter is idle, and then
\* nothing is left behind in the queue: no TXDRDY would ever come for it.
TransmitterNotStranded ==
  /\ txd_available <=> txd = Idle
  /\ txd_available => tx_queue.count = 0 /\ TxPending = 0

\* Every byte handed to uart_put leaves the transmitter, unless a byte meets a
\* full tx_queue: then bytes are overwritten, and others leave twice.
AllSent ==
  \A n \in 1..MaxPut :
    put >= n ~> tx_overrun \/ \E i \in 1..Len(wire) : wire[i] = n

\* "read chars from PC" (in4073.c:126): every byte that arrives is read.
AllRead == \A n \in 1..MaxReceived : received >= n ~> Len(taken) >= n
=============================================================================

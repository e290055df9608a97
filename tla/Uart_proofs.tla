----------------------------- MODULE Uart_proofs -----------------------------
(***************************************************************************)
(* Proofs about Uart, for every queue size and every number of bytes.      *)
(***************************************************************************)
EXTENDS Uart, Modular

LEMMA EmptyQueueIsRing == EmptyQueue \in Ring /\ EmptyQueue.count = 0
<1>1. 0 \in 0..Size - 1 /\ Size - 1 \in 0..Size - 1
  BY SizeAssumption
<1>2. EmptyQueue.Data = [i \in 0..Size - 1 |-> Nothing]
  BY DEF EmptyQueue
<1>3. EmptyQueue.Data \in [0..Size - 1 -> Nat \cup {Nothing}]
  BY <1>2
<1>4. /\ EmptyQueue.first = 0 /\ EmptyQueue.last = Size - 1
      /\ EmptyQueue.count = 0
  BY DEF EmptyQueue
<1>5. EmptyQueue = [Data |-> EmptyQueue.Data, first |-> EmptyQueue.first,
                    last |-> EmptyQueue.last, count |-> EmptyQueue.count]
  BY DEF EmptyQueue
<1>6. ASSUME NEW d \in [0..Size - 1 -> Nat \cup {Nothing}],
             NEW f \in 0..Size - 1, NEW l \in 0..Size - 1, NEW c \in Nat
      PROVE  [Data |-> d, first |-> f, last |-> l, count |-> c] \in Ring
  BY DEF Ring
<1>7. EmptyQueue \in Ring
  BY <1>1, <1>3, <1>4, <1>5, <1>6
<1> QED
  BY <1>4, <1>7

LEMMA EnqueueType ==
  ASSUME NEW q \in Ring, NEW x \in Nat
  PROVE  /\ Enqueue(q, x) \in Ring
         /\ Enqueue(q, x).count = q.count + 1
<1> DEFINE last == (q.last + 1) % Size
<1>1. last \in 0..Size - 1
  BY SizeAssumption DEF Ring
<1>2. Enqueue(q, x) = [q EXCEPT !.last = last, !.Data[last] = x, !.count = @ + 1]
  BY DEF Enqueue
<1> HIDE DEF last
<1>3. [q.Data EXCEPT ![last] = x] \in [0..Size - 1 -> Nat \cup {Nothing}]
  BY <1>1 DEF Ring
<1>4. \A d, f, l, c : /\ d \in [0..Size - 1 -> Nat \cup {Nothing}]
                      /\ f \in 0..Size - 1 /\ l \in 0..Size - 1 /\ c \in Nat
        => [Data |-> d, first |-> f, last |-> l, count |-> c] \in Ring
  BY DEF Ring
<1>5. q = [Data |-> q.Data, first |-> q.first, last |-> q.last,
           count |-> q.count]
  BY DEF Ring
<1>6. Enqueue(q, x) = [Data |-> [q.Data EXCEPT ![last] = x],
                       first |-> q.first, last |-> last,
                       count |-> q.count + 1]
  BY <1>2, <1>5
<1> QED
  BY <1>1, <1>3, <1>4, <1>6 DEF Ring

LEMMA AdvanceType ==
  ASSUME NEW q \in Ring
  PROVE  /\ Advance(q) \in Ring
         /\ Advance(q).count = q.count
         /\ Front(q) \in Nat \cup {Nothing}
BY SizeAssumption DEF Advance, Front, Ring

LEMMA DequeuedType ==
  ASSUME NEW q \in Ring, q.count > 0
  PROVE  /\ Dequeued(q) \in Ring
         /\ Dequeued(q).count = q.count - 1
<1>1. Advance(q) \in Ring /\ Advance(q).count = q.count
  BY AdvanceType
<1> QED
  BY <1>1 DEF Dequeued, Ring

-----------------------------------------------------------------------------
(* The two threads and count: a lost update makes it too small.  While the *)
(* main thread is inside dequeue it still accounts for the byte just taken,*)
(* and it is at least one, so storing count - 1 does not wrap.             *)

RxCount ==
  /\ rx_queue.count <= RxPending + (IF stage = "idle" THEN 0 ELSE 1)
  /\ stage = "fetched" => rx_queue.count > 0
  /\ stage = "loaded" => loaded > 0 /\ loaded <= RxPending + 1

\* The transmit queue is only touched with the interrupt masked or from the
\* interrupt itself, so its count is exact.
TxCount ==
  /\ tx_queue.count = TxPending
  /\ txd_available <=> txd = Idle
  /\ txd_available => tx_queue.count = 0

UartInv == TypeOK /\ RxCount /\ TxCount

LEMMA UartInvariant == Spec => []UartInv
<1>1. Init => UartInv
  <2> SUFFICES ASSUME Init PROVE UartInv
    OBVIOUS
  <2>1. /\ rx_queue \in Ring /\ rx_queue.count = 0
        /\ tx_queue \in Ring /\ tx_queue.count = 0
    BY EmptyQueueIsRing DEF Init
  <2>2. Len(taken) = 0 /\ Len(wire) = 0 /\ received = 0 /\ put = 0
        /\ taken \in Seq(Nat \cup {Nothing}) /\ wire \in Seq(Nat \cup {Nothing})
    BY DEF Init
  <2>3. RxPending = 0 /\ TxPending = 0
    <3>1. txd = Idle
      BY DEF Init
    <3> QED
      BY <2>2, <3>1 DEF RxPending, TxPending
  <2>4. /\ txd_available \in BOOLEAN /\ rx_overrun \in BOOLEAN
        /\ tx_overrun \in BOOLEAN
        /\ txd \in Nat \cup {Nothing, Idle} /\ loaded \in Nat
        /\ stage \in {"idle", "fetched", "loaded"}
        /\ received \in Nat /\ put \in Nat
    BY DEF Init
  <2>5. TypeOK
    BY <2>1, <2>2, <2>4 DEF TypeOK
  <2> QED
    <3>1. stage = "idle" /\ txd_available = TRUE /\ txd = Idle
      BY DEF Init
    <3>2. RxCount
      BY <2>1, <2>3, <3>1 DEF RxCount
    <3>3. TxCount
      BY <2>1, <2>3, <3>1 DEF TxCount
    <3> QED
      BY <2>5, <3>2, <3>3 DEF UartInv
<1>2. UartInv /\ [Next]_vars => UartInv'
  <2> SUFFICES ASSUME UartInv, [Next]_vars PROVE UartInv'
    OBVIOUS
  <2> USE UartAssumption DEF UartInv, TypeOK, RxCount, TxCount, rxVars, txVars
  <2>1. CASE RxReady
    <3>1. /\ rx_queue' \in Ring /\ rx_queue'.count = rx_queue.count + 1
          /\ received' = received + 1 /\ received' \in Nat
      <4>1. received' = received + 1 /\ received' \in Nat
        BY <2>1 DEF RxReady
      <4> QED
        BY <2>1, <4>1, EnqueueType DEF RxReady
    <3>2. RxPending' = RxPending + 1 /\ RxPending \in Int
      BY <2>1, <3>1 DEF RxReady, RxPending
    <3>3. UNCHANGED TxPending
      BY <2>1 DEF RxReady, TxPending
    <3>4. rx_queue.count \in Nat
      BY DEF Ring
    <3> QED
      BY <2>1, <3>1, <3>2, <3>3, <3>4 DEF RxReady
  <2>2. CASE TxReady
    <3>1. UNCHANGED RxPending
      BY <2>2 DEF TxReady, RxPending
    <3>2. /\ txd \in Nat \cup {Nothing}
          /\ wire' \in Seq(Nat \cup {Nothing})
          /\ Len(wire') = Len(wire) + 1
      BY <2>2 DEF TxReady
    <3>3. tx_queue.count \in Nat
      BY DEF Ring
    <3>4. CASE tx_queue.count > 0
      <4>1. /\ tx_queue' \in Ring /\ tx_queue'.count = tx_queue.count - 1
            /\ txd' \in Nat \cup {Nothing}
            /\ UNCHANGED txd_available
        BY <2>2, <3>4, DequeuedType, AdvanceType DEF TxReady
      <4>2. TxPending' = TxPending - 1
        BY <2>2, <3>2, <4>1 DEF TxReady, TxPending
      <4> QED
        BY <2>2, <3>1, <3>2, <3>3, <4>1, <4>2 DEF TxReady
    <3>5. CASE ~(tx_queue.count > 0)
      <4>1. UNCHANGED tx_queue /\ txd' = Idle /\ txd_available' = TRUE
        BY <2>2, <3>5 DEF TxReady
      <4>2. TxPending' = TxPending
        BY <2>2, <3>2, <4>1 DEF TxReady, TxPending
      <4> QED
        BY <2>2, <3>1, <3>2, <3>3, <3>5, <4>1, <4>2 DEF TxReady
    <3> QED
      BY <3>4, <3>5
  <2>3. CASE UartPut
    <3>1. UNCHANGED RxPending
      BY <2>3 DEF UartPut, RxPending
    <3>2. put' = put + 1 /\ put' \in Nat
      BY <2>3 DEF UartPut
    <3>3. tx_queue.count \in Nat
      BY DEF Ring
    <3>4. CASE txd_available
      <4>1. txd' = put' /\ txd_available' = FALSE /\ UNCHANGED tx_queue
        BY <2>3, <3>4 DEF UartPut
      <4>2. TxPending' = TxPending
        BY <2>3, <3>2, <3>4, <4>1 DEF UartPut, TxPending
      <4> QED
        BY <2>3, <3>1, <3>2, <3>4, <4>1, <4>2 DEF UartPut
    <3>5. CASE ~txd_available
      <4>1. /\ tx_queue' \in Ring /\ tx_queue'.count = tx_queue.count + 1
            /\ UNCHANGED <<txd, txd_available>>
        BY <2>3, <3>2, <3>5, EnqueueType DEF UartPut
      <4>2. TxPending' = TxPending + 1
        BY <2>3, <3>2, <4>1 DEF UartPut, TxPending
      <4> QED
        BY <2>3, <3>1, <3>2, <3>3, <3>5, <4>1, <4>2 DEF UartPut
    <3> QED
      BY <3>4, <3>5
  <2>4. CASE DequeueFetch
    <3>1. /\ rx_queue' \in Ring /\ rx_queue'.count = rx_queue.count
          /\ taken' \in Seq(Nat \cup {Nothing})
          /\ Len(taken') = Len(taken) + 1
      BY <2>4, AdvanceType DEF DequeueFetch
    <3>2. RxPending' = RxPending - 1 /\ RxPending \in Int
      BY <2>4, <3>1 DEF DequeueFetch, RxPending
    <3>3. UNCHANGED TxPending
      BY <2>4 DEF DequeueFetch, TxPending
    <3>4. rx_queue.count \in Nat
      BY DEF Ring
    <3> QED
      BY <2>4, <3>1, <3>2, <3>3, <3>4 DEF DequeueFetch
  <2>5. CASE DequeueLoad
    <3>1. UNCHANGED <<RxPending, TxPending>> /\ rx_queue.count \in Nat
      BY <2>5 DEF DequeueLoad, RxPending, TxPending, Ring
    <3> QED
      BY <2>5, <3>1 DEF DequeueLoad
  <2>6. CASE DequeueStore
    <3>1. rx_queue' \in Ring /\ rx_queue'.count = loaded - 1
      <4>1. loaded - 1 \in Nat
        BY <2>6 DEF DequeueStore
      <4> QED
        BY <2>6, <4>1 DEF DequeueStore, Ring
    <3>2. UNCHANGED <<RxPending, TxPending>> /\ RxPending \in Int
      BY <2>6 DEF DequeueStore, RxPending, TxPending
    <3> QED
      BY <2>6, <3>1, <3>2 DEF DequeueStore
  <2>7. CASE UNCHANGED vars
    <3>1. UNCHANGED <<RxPending, TxPending>>
      BY <2>7 DEF vars, RxPending, TxPending
    <3> QED
      BY <2>7, <3>1 DEF vars
  <2> QED
    BY <2>1, <2>2, <2>3, <2>4, <2>5, <2>6, <2>7
    DEF Next, MainPut, ErrorPut, Dequeue
<1> QED
  BY <1>1, <1>2, PTL DEF Spec

\* Every variable keeps its type: in particular the racing count of rx_queue
\* never goes below zero.
THEOREM TypeCorrect == Spec => []TypeOK
<1>1. UartInv => TypeOK
  BY DEF UartInv
<1> QED
  BY <1>1, UartInvariant, PTL

\* The transmitter is never left idle with bytes queued behind it.
THEOREM TransmitterKeepsGoing == Spec => []TransmitterNotStranded
<1>1. UartInv => TransmitterNotStranded
  BY DEF UartInv, TxCount, TransmitterNotStranded
<1> QED
  BY <1>1, UartInvariant, PTL

-----------------------------------------------------------------------------
(* What the ring buffers hold.  The indices say it for the receive queue,   *)
(* whose count may be too small.                                            *)

\* There are n bytes from first to last.
Place(q, n) == q.last = (q.first + n + (Size - 1)) % Size

\* They are numbered from a certain byte on.
Holds(q, n, from) == \A k \in 0..n - 1 : q.Data[(q.first + k) % Size] = from + k

\* They came through the queue, the newest of them as number top.
Filled(q, n, top) == \A k \in 0..n - 1 : q.Data[(q.first + k) % Size] \in 1..top

LEMMA EnqueueContents ==
  ASSUME NEW q \in Ring, NEW x \in Nat, NEW n \in Nat, Place(q, n)
  PROVE  /\ Enqueue(q, x).Data = [q.Data EXCEPT ![(q.first + n) % Size] = x]
         /\ Enqueue(q, x).first = q.first
         /\ Place(Enqueue(q, x), n + 1)
         /\ (q.first + n) % Size \in 0..Size - 1
<1> DEFINE last == (q.last + 1) % Size
<1>1. Size \in Nat \ {0} /\ q.first \in Nat /\ q.first + n \in Nat
      /\ q.first + n + (Size - 1) \in Nat /\ 1 \in Nat
  BY SizeAssumption DEF Ring
<1>2. last = (q.first + n) % Size
  <2>1. last = ((q.first + n + (Size - 1)) + 1) % Size
    BY <1>1, StepFromPlace DEF Place
  <2>2. (q.first + n + (Size - 1)) + 1 = (q.first + n) + Size
    BY <1>1
  <2> QED
    BY <1>1, <2>1, <2>2, OnceAround
<1>3. (q.first + n) % Size \in 0..Size - 1
  BY <1>1, Division
<1>4. Enqueue(q, x) = [q EXCEPT !.last = last, !.Data[last] = x, !.count = @ + 1]
  BY DEF Enqueue
<1> HIDE DEF last
<1>5. /\ Enqueue(q, x).Data = [q.Data EXCEPT ![last] = x]
      /\ Enqueue(q, x).first = q.first /\ Enqueue(q, x).last = last
  <2>1. q = [Data |-> q.Data, first |-> q.first, last |-> q.last,
             count |-> q.count]
    BY DEF Ring
  <2> QED
    BY <1>4, <2>1
<1>6. Place(Enqueue(q, x), n + 1)
  <2>1. q.first + (n + 1) + (Size - 1) = (q.first + n) + Size
    BY <1>1
  <2>2. ((q.first + n) + Size) % Size = (q.first + n) % Size
    BY <1>1, OnceAround
  <2> QED
    BY <1>2, <1>5, <2>1, <2>2 DEF Place
<1> QED
  BY <1>2, <1>3, <1>5, <1>6

LEMMA EnqueueHolds ==
  ASSUME NEW q \in Ring, NEW n \in Nat, n < Size, NEW from \in Nat,
         Place(q, n), Holds(q, n, from)
  PROVE  Holds(Enqueue(q, from + n), n + 1, from)
<1>1. /\ from + n \in Nat /\ Size \in Nat \ {0} /\ q.first \in 0..Size - 1
      /\ q.Data \in [0..Size - 1 -> Nat \cup {Nothing}]
  BY SizeAssumption DEF Ring
<1> DEFINE r == Enqueue(q, from + n)
           slot == (q.first + n) % Size
<1>2. /\ r.Data = [q.Data EXCEPT ![slot] = from + n] /\ r.first = q.first
      /\ slot \in 0..Size - 1
  BY <1>1, EnqueueContents
<1> HIDE DEF r
<1>3. ASSUME NEW k \in 0..n
      PROVE  r.Data[(r.first + k) % Size] = from + k
  <2>1. CASE k = n
    BY <1>1, <1>2, <2>1
  <2>2. CASE k < n
    <3>1. q.first + k \in Nat /\ q.first + n \in Nat /\ k \in 0..n - 1
          /\ q.first + k < q.first + n /\ q.first + n < (q.first + k) + Size
      BY <1>1, <2>2
    <3>2. (q.first + k) % Size # slot
      BY <1>1, <3>1, DifferentPlaces
    <3>3. q.Data[(q.first + k) % Size] = from + k
      BY <3>1 DEF Holds
    <3>4. (q.first + k) % Size \in 0..Size - 1
      BY <1>1, <3>1, Division
    <3> HIDE DEF slot
    <3> QED
      BY <1>1, <1>2, <3>2, <3>3, <3>4
  <2> QED
    BY <2>1, <2>2
<1>4. (n + 1) - 1 = n
  OBVIOUS
<1> QED
  BY <1>3, <1>4 DEF Holds, r

LEMMA EnqueueFilled ==
  ASSUME NEW q \in Ring, NEW n \in Nat, NEW top \in Nat,
         Place(q, n), Filled(q, n, top)
  PROVE  Filled(Enqueue(q, top + 1), n + 1, top + 1)
<1>1. /\ top + 1 \in Nat /\ Size \in Nat \ {0} /\ q.first \in 0..Size - 1
      /\ q.Data \in [0..Size - 1 -> Nat \cup {Nothing}]
  BY SizeAssumption DEF Ring
<1> DEFINE r == Enqueue(q, top + 1)
           slot == (q.first + n) % Size
<1>2. /\ r.Data = [q.Data EXCEPT ![slot] = top + 1] /\ r.first = q.first
      /\ slot \in 0..Size - 1
  BY <1>1, EnqueueContents
<1> HIDE DEF r
<1>3. ASSUME NEW k \in 0..n
      PROVE  r.Data[(r.first + k) % Size] \in 1..top + 1
  <2>1. CASE (q.first + k) % Size = slot
    BY <1>1, <1>2, <2>1
  <2>2. CASE (q.first + k) % Size # slot
    <3>0. k # n
      BY <2>2
    <3>1. k \in 0..n - 1 /\ q.first + k \in Nat
      BY <1>1, <3>0
    <3>2. q.Data[(q.first + k) % Size] \in 1..top
      BY <3>1 DEF Filled
    <3>3. (q.first + k) % Size \in 0..Size - 1
      BY <1>1, <3>1, Division
    <3> HIDE DEF slot
    <3> QED
      BY <1>1, <1>2, <2>2, <3>2, <3>3
  <2> QED
    BY <2>1, <2>2
<1>4. (n + 1) - 1 = n
  OBVIOUS
<1> QED
  BY <1>3, <1>4 DEF Filled, r

\* What dequeue does to first.
Taken(q, r) ==
  r.Data = q.Data /\ r.last = q.last /\ r.first = (q.first + 1) % Size

LEMMA DequeueTakes ==
  ASSUME NEW q \in Ring
  PROVE  Taken(q, Advance(q)) /\ Taken(q, Dequeued(q))
<1>1. q = [Data |-> q.Data, first |-> q.first, last |-> q.last,
           count |-> q.count]
  BY DEF Ring
<1>2. Advance(q) = [Data |-> q.Data, first |-> (q.first + 1) % Size,
                    last |-> q.last, count |-> q.count]
  BY <1>1 DEF Advance
<1>3. Dequeued(q) = [Data |-> q.Data, first |-> (q.first + 1) % Size,
                     last |-> q.last, count |-> q.count - 1]
  BY <1>2 DEF Dequeued
<1> QED
  BY <1>2, <1>3 DEF Taken

LEMMA TakenContents ==
  ASSUME NEW q \in Ring, NEW r \in Ring, Taken(q, r),
         NEW n \in Nat \ {0}, Place(q, n)
  PROVE  /\ Place(r, n - 1)
         /\ Front(q) = q.Data[(q.first + 0) % Size]
         /\ \A k \in 0..n - 2 : (r.first + k) % Size = (q.first + (k + 1)) % Size
<1>1. Size \in Nat \ {0} /\ q.first \in 0..Size - 1 /\ 1 \in Nat
      /\ q.first + 1 \in Nat
  BY SizeAssumption DEF Ring
<1>2. r.first = (q.first + 1) % Size /\ r.last = q.last
  BY DEF Taken
<1>3. ASSUME NEW j \in Nat
      PROVE  (r.first + j) % Size = ((q.first + 1) + j) % Size
  BY <1>1, <1>2, StepFromPlace
<1>4. Place(r, n - 1)
  <2>1. (n - 1) + (Size - 1) \in Nat
    BY <1>1
  <2>2. (r.first + ((n - 1) + (Size - 1))) % Size
          = ((q.first + 1) + ((n - 1) + (Size - 1))) % Size
    BY <1>3, <2>1
  <2>3. /\ r.first + ((n - 1) + (Size - 1)) = r.first + (n - 1) + (Size - 1)
        /\ (q.first + 1) + ((n - 1) + (Size - 1)) = q.first + n + (Size - 1)
    <3>1. r.first \in Nat
      BY DEF Ring
    <3> QED
      BY <1>1, <3>1
  <2> QED
    BY <1>2, <2>2, <2>3 DEF Place
<1>5. Front(q) = q.Data[(q.first + 0) % Size]
  <2>1. q.first % Size = q.first /\ q.first + 0 = q.first
    BY <1>1, SmallRemainder
  <2> QED
    BY <2>1 DEF Front
<1>6. ASSUME NEW k \in 0..n - 2
      PROVE  (r.first + k) % Size = (q.first + (k + 1)) % Size
  <2>1. k \in Nat /\ (q.first + 1) + k = q.first + (k + 1)
    BY <1>1
  <2> QED
    BY <1>3, <2>1
<1> QED
  BY <1>4, <1>5, <1>6

LEMMA TakenHolds ==
  ASSUME NEW q \in Ring, NEW r \in Ring, Taken(q, r),
         NEW n \in Nat \ {0}, NEW from \in Nat, Place(q, n), Holds(q, n, from)
  PROVE  Front(q) = from /\ Holds(r, n - 1, from + 1)
<1>1. 0 \in 0..n - 1 /\ from + 0 = from
  OBVIOUS
<1>2. Front(q) = from
  BY <1>1, TakenContents DEF Holds
<1>3. ASSUME NEW k \in 0..(n - 1) - 1
      PROVE  r.Data[(r.first + k) % Size] = (from + 1) + k
  <2>1. k \in 0..n - 2 /\ k + 1 \in 0..n - 1 /\ from + (k + 1) = (from + 1) + k
    OBVIOUS
  <2>2. (r.first + k) % Size = (q.first + (k + 1)) % Size
    BY <2>1, TakenContents
  <2>3. q.Data[(q.first + (k + 1)) % Size] = from + (k + 1)
    BY <2>1 DEF Holds
  <2> QED
    BY <2>1, <2>2, <2>3 DEF Taken
<1> QED
  BY <1>2, <1>3 DEF Holds

LEMMA TakenFilled ==
  ASSUME NEW q \in Ring, NEW r \in Ring, Taken(q, r),
         NEW n \in Nat \ {0}, NEW top \in Nat, Place(q, n), Filled(q, n, top)
  PROVE  Front(q) \in 1..top /\ Filled(r, n - 1, top)
<1>1. 0 \in 0..n - 1
  OBVIOUS
<1>2. Front(q) \in 1..top
  BY <1>1, TakenContents DEF Filled
<1>3. ASSUME NEW k \in 0..(n - 1) - 1
      PROVE  r.Data[(r.first + k) % Size] \in 1..top
  <2>1. k \in 0..n - 2 /\ k + 1 \in 0..n - 1
    OBVIOUS
  <2>2. (r.first + k) % Size = (q.first + (k + 1)) % Size
    BY <2>1, TakenContents
  <2>3. q.Data[(q.first + (k + 1)) % Size] \in 1..top
    BY <2>1 DEF Filled
  <2> QED
    BY <2>2, <2>3 DEF Taken
<1> QED
  BY <1>2, <1>3 DEF Filled
-----------------------------------------------------------------------------
(* Order.  The bytes in a queue continue what was taken or sent; after an   *)
(* overrun all that is left is that they once came in.                      *)

RxOrder ==
  /\ RxPending \in Nat
  /\ Place(rx_queue, RxPending)
  /\ Filled(rx_queue, RxPending, received)
  /\ \A i \in 1..Len(taken) : taken[i] \in 1..received
  /\ ~rx_overrun => /\ RxPending <= Size
                    /\ Holds(rx_queue, RxPending, Len(taken) + 1)
                    /\ \A i \in 1..Len(taken) : taken[i] = i

TxOrder ==
  /\ Place(tx_queue, tx_queue.count)
  /\ ~tx_overrun => /\ tx_queue.count <= Size
                    /\ Holds(tx_queue, tx_queue.count, Len(wire) + 2)
                    /\ txd # Idle => txd = Len(wire) + 1
                    /\ \A i \in 1..Len(wire) : wire[i] = i

OrderInv == UartInv /\ RxOrder /\ TxOrder

LEMMA SameRx ==
  ASSUME RxOrder, UNCHANGED <<received, taken, rx_overrun>>,
         rx_queue'.Data = rx_queue.Data, rx_queue'.first = rx_queue.first,
         rx_queue'.last = rx_queue.last
  PROVE  RxOrder'
BY DEF RxOrder, RxPending, Place, Filled, Holds

LEMMA SameTx == ASSUME TxOrder, UNCHANGED txVars PROVE TxOrder'
BY DEF TxOrder, txVars, Place, Holds

LEMMA ReceiveOrder ==
  ASSUME OrderInv, RxReady
  PROVE  RxOrder'
<1>1. /\ rx_queue \in Ring /\ received \in Nat /\ RxPending \in Nat
      /\ Len(taken) \in Nat /\ RxPending = received - Len(taken)
      /\ rx_overrun \in BOOLEAN
  BY DEF OrderInv, UartInv, TypeOK, RxOrder, RxPending
<1>2. /\ received' = received + 1 /\ UNCHANGED taken
      /\ rx_queue' = Enqueue(rx_queue, received + 1)
      /\ rx_overrun' = (rx_overrun \/ RxPending >= Size)
  BY DEF RxReady
<1>3. RxPending' = RxPending + 1
  BY <1>1, <1>2 DEF RxPending
<1>4. Place(rx_queue', RxPending + 1)
  <2>1. received + 1 \in Nat
    BY <1>1
  <2>2. Place(Enqueue(rx_queue, received + 1), RxPending + 1)
    BY <1>1, <2>1, EnqueueContents DEF OrderInv, RxOrder
  <2> QED
    BY <1>2, <2>2
<1>5. Filled(rx_queue', RxPending + 1, received + 1)
  BY <1>1, <1>2, EnqueueFilled DEF OrderInv, RxOrder
<1>6. \A i \in 1..Len(taken) : taken[i] \in 1..received + 1
  BY <1>1 DEF OrderInv, RxOrder
<1>7. ASSUME ~rx_overrun'
      PROVE  /\ RxPending + 1 <= Size
             /\ Holds(rx_queue', RxPending + 1, Len(taken) + 1)
             /\ \A i \in 1..Len(taken) : taken[i] = i
  <2>1. ~rx_overrun /\ RxPending < Size
    <3>1. ~rx_overrun /\ ~(RxPending >= Size)
      BY <1>2, <1>7
    <3> QED
      BY <1>1, <3>1, SizeAssumption
  <2>2. received + 1 = (Len(taken) + 1) + RxPending /\ Len(taken) + 1 \in Nat
    BY <1>1
  <2>3. Holds(rx_queue', RxPending + 1, Len(taken) + 1)
    BY <1>1, <1>2, <2>1, <2>2, EnqueueHolds DEF OrderInv, RxOrder
  <2> QED
    BY <1>1, <2>1, <2>3, SizeAssumption DEF OrderInv, RxOrder
<1>8. RxPending + 1 \in Nat
  BY <1>1
<1> QED
  BY <1>2, <1>3, <1>4, <1>5, <1>6, <1>7, <1>8
     DEF RxOrder, Place, Filled, Holds

LEMMA FetchOrder ==
  ASSUME OrderInv, DequeueFetch
  PROVE  RxOrder'
<1>1. /\ rx_queue \in Ring /\ received \in Nat /\ RxPending \in Nat
      /\ taken \in Seq(Nat \cup {Nothing}) /\ Len(taken) \in Nat
      /\ RxPending = received - Len(taken)
      /\ stage = "idle" /\ rx_queue.count > 0 /\ rx_queue.count \in Nat
  BY DEF OrderInv, UartInv, TypeOK, RxOrder, RxPending, DequeueFetch, Ring
<1>2. RxPending \in Nat \ {0}
  BY <1>1 DEF OrderInv, UartInv, RxCount
<1>3. /\ rx_queue' = Advance(rx_queue) /\ UNCHANGED <<received, rx_overrun>>
      /\ taken' = Append(taken, Front(rx_queue))
  BY DEF DequeueFetch
<1>4. rx_queue' \in Ring /\ Taken(rx_queue, rx_queue')
      /\ Front(rx_queue) \in Nat \cup {Nothing}
  BY <1>1, <1>3, AdvanceType, DequeueTakes
<1>5. /\ Len(taken') = Len(taken) + 1
      /\ \A i \in 1..Len(taken) : taken'[i] = taken[i]
      /\ taken'[Len(taken) + 1] = Front(rx_queue)
  BY <1>1, <1>3, <1>4
<1>6. RxPending' = RxPending - 1
  BY <1>1, <1>3, <1>5 DEF RxPending
<1>7. Place(rx_queue', RxPending - 1)
  BY <1>1, <1>2, <1>4, TakenContents DEF OrderInv, RxOrder
<1>8. Front(rx_queue) \in 1..received
      /\ Filled(rx_queue', RxPending - 1, received)
  BY <1>1, <1>2, <1>4, TakenFilled DEF OrderInv, RxOrder
<1>9. \A i \in 1..Len(taken') : taken'[i] \in 1..received
  BY <1>1, <1>5, <1>8 DEF OrderInv, RxOrder
<1>10. ASSUME ~rx_overrun
       PROVE  /\ RxPending - 1 <= Size
              /\ Holds(rx_queue', RxPending - 1, Len(taken') + 1)
              /\ \A i \in 1..Len(taken') : taken'[i] = i
  <2>1. RxPending <= Size /\ Holds(rx_queue, RxPending, Len(taken) + 1)
        /\ \A i \in 1..Len(taken) : taken[i] = i
    BY <1>10 DEF OrderInv, RxOrder
  <2>2. Len(taken) + 1 \in Nat
    BY <1>1
  <2>3. /\ Front(rx_queue) = Len(taken) + 1
        /\ Holds(rx_queue', RxPending - 1, (Len(taken) + 1) + 1)
    BY <1>1, <1>2, <1>4, <2>1, <2>2, TakenHolds DEF OrderInv, RxOrder
  <2>4. \A i \in 1..Len(taken') : taken'[i] = i
    BY <1>1, <1>5, <2>1, <2>3
  <2> QED
    BY <1>1, <1>5, <2>1, <2>3, <2>4, SizeAssumption
<1>11. RxPending - 1 \in Nat
  BY <1>2
<1> QED
  BY <1>3, <1>6, <1>7, <1>8, <1>9, <1>10, <1>11
     DEF RxOrder, Place, Filled, Holds

LEMMA PutOrder ==
  ASSUME OrderInv, UartPut
  PROVE  TxOrder'
<1>1. /\ tx_queue \in Ring /\ tx_queue.count \in Nat /\ put \in Nat
      /\ Len(wire) \in Nat /\ tx_queue.count = TxPending
      /\ txd_available <=> txd = Idle
      /\ txd_available => tx_queue.count = 0
      /\ tx_overrun \in BOOLEAN /\ txd_available \in BOOLEAN
  BY DEF OrderInv, UartInv, TypeOK, TxCount, Ring
<1>2. put' = put + 1 /\ UNCHANGED wire
  BY DEF UartPut
<1>3. CASE txd_available
  <2>1. /\ txd' = put + 1 /\ UNCHANGED <<tx_queue, tx_overrun>>
    BY <1>2, <1>3 DEF UartPut
  <2>2. put + 1 = Len(wire) + 1
    BY <1>1, <1>3 DEF TxPending
  <2> QED
    BY <1>2, <2>1, <2>2 DEF OrderInv, TxOrder, Place, Holds
<1>4. CASE ~txd_available
  <2>1. /\ tx_queue' = Enqueue(tx_queue, put + 1) /\ UNCHANGED txd
        /\ tx_overrun' = (tx_overrun \/ TxPending >= Size)
    BY <1>2, <1>4 DEF UartPut
  <2>2. put + 1 = (Len(wire) + 2) + tx_queue.count /\ Len(wire) + 2 \in Nat
    BY <1>1, <1>4 DEF TxPending
  <2>3. put + 1 \in Nat
    BY <1>1
  <2>4. tx_queue'.count = tx_queue.count + 1
    BY <1>1, <2>1, <2>3, EnqueueType
  <2>5. Place(tx_queue', tx_queue.count + 1)
    BY <1>1, <2>1, <2>3, EnqueueContents DEF OrderInv, TxOrder
  <2>6. ASSUME ~tx_overrun'
        PROVE  /\ tx_queue.count + 1 <= Size
               /\ Holds(tx_queue', tx_queue.count + 1, Len(wire) + 2)
               /\ ~tx_overrun
    <3>1. ~tx_overrun /\ tx_queue.count < Size
      <4>1. ~tx_overrun /\ ~(TxPending >= Size)
        BY <2>1, <2>6
      <4> QED
        BY <1>1, <4>1, SizeAssumption
    <3>2. Holds(tx_queue', tx_queue.count + 1, Len(wire) + 2)
      BY <1>1, <2>1, <2>2, <3>1, EnqueueHolds DEF OrderInv, TxOrder
    <3> QED
      BY <1>1, <3>1, <3>2, SizeAssumption
  <2> QED
    BY <1>2, <2>1, <2>4, <2>5, <2>6 DEF OrderInv, TxOrder, Place, Holds
<1> QED
  BY <1>3, <1>4

LEMMA SendOrder ==
  ASSUME OrderInv, TxReady
  PROVE  TxOrder'
<1>1. /\ tx_queue \in Ring /\ tx_queue.count \in Nat
      /\ wire \in Seq(Nat \cup {Nothing}) /\ Len(wire) \in Nat
      /\ txd \in Nat \cup {Nothing} /\ txd # Idle
  BY DEF OrderInv, UartInv, TypeOK, TxReady, Ring
<1>2. /\ wire' = Append(wire, txd) /\ UNCHANGED tx_overrun
  BY DEF TxReady
<1>3. /\ Len(wire') = Len(wire) + 1
      /\ \A i \in 1..Len(wire) : wire'[i] = wire[i]
      /\ wire'[Len(wire) + 1] = txd
  BY <1>1, <1>2
<1>4. ~tx_overrun => \A i \in 1..Len(wire') : wire'[i] = i
  BY <1>1, <1>3 DEF OrderInv, TxOrder
<1>5. CASE tx_queue.count > 0
  <2>1. txd' = Front(tx_queue) /\ tx_queue' = Dequeued(tx_queue)
    BY <1>5 DEF TxReady
  <2>2. /\ tx_queue' \in Ring /\ tx_queue'.count = tx_queue.count - 1
        /\ Taken(tx_queue, tx_queue') /\ tx_queue.count \in Nat \ {0}
    BY <1>1, <1>5, <2>1, DequeuedType, DequeueTakes
  <2>3. Place(tx_queue', tx_queue'.count)
    BY <1>1, <2>2, TakenContents DEF OrderInv, TxOrder
  <2>4. ASSUME ~tx_overrun
        PROVE  /\ tx_queue'.count <= Size /\ txd' = Len(wire') + 1
               /\ Holds(tx_queue', tx_queue'.count, Len(wire') + 2)
    <3>1. tx_queue.count <= Size
          /\ Holds(tx_queue, tx_queue.count, Len(wire) + 2)
      BY <2>4 DEF OrderInv, TxOrder
    <3>2. Len(wire) + 2 \in Nat
      BY <1>1
    <3>3. /\ Front(tx_queue) = Len(wire) + 2
          /\ Holds(tx_queue', tx_queue.count - 1, (Len(wire) + 2) + 1)
      BY <1>1, <2>2, <3>1, <3>2, TakenHolds DEF OrderInv, TxOrder
    <3>4. (Len(wire) + 2) + 1 = Len(wire') + 2 /\ Len(wire) + 2 = Len(wire') + 1
      BY <1>1, <1>3
    <3> QED
      BY <1>1, <2>1, <2>2, <3>1, <3>3, <3>4, SizeAssumption
  <2> QED
    BY <1>2, <1>4, <2>3, <2>4 DEF TxOrder, Place, Holds
<1>6. CASE tx_queue.count = 0
  <2>1. txd' = Idle /\ UNCHANGED tx_queue
    BY <1>1, <1>6 DEF TxReady
  <2>2. tx_queue'.count = 0 /\ 0 <= Size
    BY <1>6, <2>1, SizeAssumption
  <2>3. \A from : Holds(tx_queue', 0, from)
    <3>1. 0..0 - 1 = {}
      OBVIOUS
    <3> QED
      BY <3>1 DEF Holds
  <2>4. Place(tx_queue', tx_queue'.count)
    BY <2>1 DEF OrderInv, TxOrder, Place
  <2>5. Holds(tx_queue', tx_queue'.count, Len(wire') + 2)
    BY <2>2, <2>3
  <2> QED
    BY <1>4, <2>1, <2>2, <2>4, <2>5, <1>2 DEF TxOrder, Place, Holds
<1> QED
  BY <1>1, <1>5, <1>6

LEMMA InitOrder == Init => RxOrder /\ TxOrder
<1> SUFFICES ASSUME Init PROVE RxOrder /\ TxOrder
  OBVIOUS
<1>1. /\ Size \in Nat \ {0} /\ received = 0 /\ taken = <<>> /\ wire = <<>>
      /\ txd = Idle
      /\ rx_queue = EmptyQueue /\ tx_queue = EmptyQueue
  BY SizeAssumption DEF Init
<1>2. EmptyQueue.first = 0 /\ EmptyQueue.last = Size - 1 /\ EmptyQueue.count = 0
  BY DEF EmptyQueue
<1>3. RxPending = 0 /\ Len(taken) = 0 /\ Len(wire) = 0 /\ 0 <= Size
  <2>1. Len(<<>>) = 0
    OBVIOUS
  <2>2. Len(taken) = 0 /\ Len(wire) = 0
    BY <1>1, <2>1
  <2>3. RxPending = 0 - 0
    BY <1>1, <2>2 DEF RxPending
  <2>4. 0 <= Size
    BY SizeAssumption
  <2> QED
    BY <2>2, <2>3, <2>4
<1>4. Place(EmptyQueue, 0)
  <2>1. Size - 1 \in 0..Size - 1 /\ 0 + 0 + (Size - 1) = Size - 1
    BY <1>1
  <2> QED
    BY <1>1, <1>2, <2>1, SmallRemainder DEF Place
<1>5. \A q, b : Holds(q, 0, b) /\ Filled(q, 0, b)
  <2>1. 0..0 - 1 = {}
    OBVIOUS
  <2> QED
    BY <2>1 DEF Holds, Filled
<1>6. 1..Len(taken) = {} /\ 1..Len(wire) = {}
  BY <1>3
<1>7. RxOrder
  BY <1>1, <1>3, <1>4, <1>5, <1>6 DEF RxOrder
<1>8. TxOrder
  BY <1>1, <1>2, <1>3, <1>4, <1>5, <1>6 DEF TxOrder
<1> QED
  BY <1>7, <1>8

LEMMA StepOrder == OrderInv /\ UartInv' /\ [Next]_vars => OrderInv'
<1> SUFFICES ASSUME OrderInv, [Next]_vars PROVE RxOrder' /\ TxOrder'
  BY DEF OrderInv
<1>1. CASE RxReady
  BY <1>1, ReceiveOrder, SameTx DEF OrderInv, RxReady
<1>2. CASE TxReady
  BY <1>2, SendOrder, SameRx DEF OrderInv, TxReady, rxVars
<1>3. CASE UartPut
  BY <1>3, PutOrder, SameRx DEF OrderInv, UartPut, rxVars
<1>4. CASE DequeueFetch
  BY <1>4, FetchOrder, SameTx DEF OrderInv, DequeueFetch
<1>5. CASE DequeueLoad
  BY <1>5, SameRx, SameTx DEF OrderInv, DequeueLoad
<1>6. CASE DequeueStore
  <2>1. rx_queue \in Ring /\ rx_queue' = [rx_queue EXCEPT !.count = loaded - 1]
    BY <1>6 DEF OrderInv, UartInv, TypeOK, DequeueStore
  <2>2. /\ rx_queue'.Data = rx_queue.Data /\ rx_queue'.first = rx_queue.first
        /\ rx_queue'.last = rx_queue.last
    BY <2>1 DEF Ring
  <2> QED
    BY <1>6, <2>2, SameRx, SameTx DEF OrderInv, DequeueStore
<1>7. CASE UNCHANGED vars
  BY <1>7, SameRx, SameTx DEF OrderInv, vars, rxVars
<1> QED
  BY <1>1, <1>2, <1>3, <1>4, <1>5, <1>6, <1>7
     DEF Next, MainPut, ErrorPut, Dequeue

LEMMA UartOrder == Spec => []OrderInv
<1>1. Init /\ UartInv => OrderInv
  BY InitOrder DEF OrderInv
<1> QED
  BY <1>1, StepOrder, UartInvariant, PTL DEF Spec

-----------------------------------------------------------------------------
\* Until a byte arrives at a full queue the main loop reads every byte in the
\* order they arrived, whatever the interrupt does to its dequeue.
THEOREM ReadsInOrder == Spec => []ReadInOrder
<1>1. OrderInv => ReadInOrder
  BY DEF OrderInv, RxOrder, ReadInOrder
<1> QED
  BY <1>1, UartOrder, PTL

\* The racing count never promises a byte that did not arrive, overrun or not.
THEOREM NoByteFromNowhere == Spec => []NoPhantomBytes
<1>1. OrderInv => NoPhantomBytes
  BY DEF OrderInv, UartInv, RxCount, RxOrder, NoPhantomBytes
<1> QED
  BY <1>1, UartOrder, PTL

\* Until the transmit queue is overrun bytes leave in the order they were put,
\* through the queue or straight into TXD.
THEOREM SendsInOrder == Spec => []SentInOrder
<1>1. OrderInv => SentInOrder
  BY DEF OrderInv, TxOrder, SentInOrder
<1> QED
  BY <1>1, UartOrder, PTL
=============================================================================

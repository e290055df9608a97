---------------------------- MODULE Board_proofs -----------------------------
(***************************************************************************)
(* Proofs about the board, in three parts: the two-wire bus driver on its  *)
(* own, for transfers of any length and a slave that answers anything or   *)
(* nothing; the same driver, and the logger, on the board as a whole,      *)
(* through resets and power failures; and the sensor's FIFO, for packets   *)
(* and FIFOs of any size.                                                  *)
(***************************************************************************)
EXTENDS Board, FlashLog_proofs

-----------------------------------------------------------------------------
(* The bus driver.                                                         *)

(* A flag is raised when it is set or its interrupt is pending.            *)
SentRaised == sent \/ "TXDSENT" \in events
ReadRaised == read \/ "RXDREADY" \in events

Quiescent == ~SentRaised /\ ~ReadRaised

TwiTypeOK ==
  /\ bus \in {"stopped", "sending", "sent", "receiving", "suspended", "failed"}
  /\ shorts \in {"none", "suspend", "stop"}
  /\ events \subseteq {"TXDSENT", "RXDREADY", "ERROR"}
  /\ sent \in BOOLEAN /\ read \in BOOLEAN
  /\ txd \in Bytes /\ rxd \in Bytes
  /\ twiPc \in {"idle", "address", "receive", "resume", "transmit"}
  /\ left \in Nat /\ data \in Seq(Bytes) /\ onBus \in Seq(Bytes)
  /\ errors \in 0..MaxErrors
  /\ "ERROR" \in events => bus = "failed"

IsRead ==
  /\ request.op = "read" /\ request.len \in Nat \ {0}
  /\ Len(data) + left = request.len

IsWrite ==
  /\ request.op = "write" /\ request.reg \in Bytes
  /\ request.bytes \in Seq(Bytes) /\ left <= Len(request.bytes)

(* The bytes a write sends, its register address first.                    *)
Wanted == <<request.reg>> \o request.bytes

SentSoFar(n) == Len(onBus) = n /\ \A i \in 1..n : onBus[i] = Wanted[i]

(* The shortcut that makes the bus wait for RESUME unless the byte under   *)
(* way is the last.                                                        *)
RightShortcut == shorts = IF left = 1 THEN "stop" ELSE "suspend"

Idle == twiPc = "idle" => bus = "stopped" /\ events = {} /\ Quiescent

Address ==
  twiPc = "address" =>
    /\ IsRead /\ left # 0 /\ data = <<>> /\ onBus = <<>> /\ ~ReadRaised
    /\ bus \in {"sending", "sent", "failed"}
    /\ SentRaised = (bus = "sent")

Receive ==
  twiPc = "receive" =>
    /\ IsRead /\ left # 0 /\ RightShortcut /\ ~SentRaised
    /\ bus \in {"receiving", "failed"} => ~ReadRaised /\ onBus = data
    /\ bus \notin {"receiving", "failed"} =>
         /\ bus = IF left = 1 THEN "stopped" ELSE "suspended"
         /\ ReadRaised /\ onBus = Append(data, rxd)

Resume ==
  twiPc = "resume" =>
    /\ IsRead /\ Quiescent /\ events = {} /\ onBus = data
    /\ left = 0 => bus = "stopped"
    /\ left # 0 => RightShortcut /\ bus = "suspended"

Transmit ==
  twiPc = "transmit" =>
    /\ IsWrite /\ ~ReadRaised
    /\ bus \in {"sending", "sent", "failed"}
    /\ SentRaised = (bus = "sent")
    /\ bus = "sending" =>
         /\ SentSoFar(Len(request.bytes) - left)
         /\ txd = Wanted[Len(request.bytes) - left + 1]
    /\ bus = "sent" => SentSoFar(Len(request.bytes) - left + 1)

TwiInv == TwiTypeOK /\ Idle /\ Address /\ Receive /\ Resume /\ Transmit

-----------------------------------------------------------------------------
LEMMA InitTwiInv == TwiInit => TwiInv
<1> SUFFICES ASSUME TwiInit PROVE TwiInv
  OBVIOUS
<1>1. (CHOOSE b \in Bytes : TRUE) \in Bytes
  BY TwiAssumption
<1>2. TwiTypeOK
  <2>1. txd \in Bytes /\ rxd \in Bytes
    BY <1>1 DEF TwiInit
  <2>2. data = <<>> /\ onBus = <<>> /\ left \in Nat /\ errors \in 0..MaxErrors
    BY TwiAssumption DEF TwiInit
  <2>3. <<>> \in Seq(Bytes)
    OBVIOUS
  <2> QED
    BY <2>1, <2>2, <2>3 DEF TwiInit, TwiTypeOK
<1>3. Idle /\ Address /\ Receive /\ Resume /\ Transmit
  BY DEF TwiInit, Idle, Address, Receive, Resume, Transmit, Quiescent,
     SentRaised, ReadRaised
<1> QED
  BY <1>2, <1>3 DEF TwiInv

LEMMA StartReadInv ==
  ASSUME TwiInv, NEW reg \in Registers, NEW len \in 1..MaxLen,
         StartRead(reg, len)
  PROVE  TwiInv'
<1> USE TwiAssumption
<1>1. TwiTypeOK'
  <2>1. reg \in Bytes /\ len \in Nat
    OBVIOUS
  <2>2. <<>> \in Seq(Bytes)
    OBVIOUS
  <2>3. data' = <<>> /\ onBus' = <<>> /\ left' = len /\ txd' = reg
    BY DEF StartRead
  <2> QED
    BY <2>1, <2>2, <2>3 DEF StartRead, Waiting, TwiInv, TwiTypeOK
<1>2. Idle' /\ Address' /\ Receive' /\ Resume' /\ Transmit'
  BY DEF StartRead, Waiting, TwiInv, TwiTypeOK, Idle, Address, Receive,
     Resume, Transmit, IsRead, IsWrite, RightShortcut, Quiescent, SentRaised,
     ReadRaised
<1> QED
  BY <1>1, <1>2 DEF TwiInv

LEMMA StartReceivingInv ==
  ASSUME TwiInv, StartReceiving
  PROVE  TwiInv'
<1> USE TwiAssumption
<1>1. TwiTypeOK'
  BY DEF StartReceiving, Waiting, TwiInv, TwiTypeOK
<1>2. Idle' /\ Address' /\ Receive' /\ Resume' /\ Transmit'
  BY DEF StartReceiving, Waiting, TwiInv, TwiTypeOK, Idle, Address, Receive,
     Resume, Transmit, IsRead, IsWrite, RightShortcut, Quiescent, SentRaised,
     ReadRaised
<1> QED
  BY <1>1, <1>2 DEF TwiInv

LEMMA TakeByteInv ==
  ASSUME TwiInv, TakeByte
  PROVE  TwiInv'
<1> USE TwiAssumption
<1>1. TwiTypeOK'
  <2>1. left' \in Nat
    BY DEF TakeByte, Waiting, TwiInv, TwiTypeOK, Receive
  <2>2. data' \in Seq(Bytes)
    BY DEF TakeByte, TwiInv, TwiTypeOK
  <2> QED
    BY <2>1, <2>2 DEF TakeByte, Waiting, TwiInv, TwiTypeOK
<1>2. Idle' /\ Address' /\ Receive' /\ Transmit'
  BY DEF TakeByte, Idle, Address, Receive, Transmit
<1>3. Resume'
  <2>1. /\ twiPc = "receive" /\ events = {} /\ read
        /\ read' = FALSE /\ data' = Append(data, rxd) /\ left' = left - 1
        /\ shorts' = IF left' = 1 THEN "stop" ELSE shorts
        /\ UNCHANGED <<bus, events, sent, request, onBus>>
    BY DEF TakeByte, Waiting
  <2>2. /\ IsRead /\ left # 0 /\ RightShortcut /\ ~SentRaised
        /\ bus = IF left = 1 THEN "stopped" ELSE "suspended"
        /\ onBus = Append(data, rxd)
    BY <2>1 DEF TwiInv, Receive, ReadRaised
  <2>3. left \in Nat /\ data \in Seq(Bytes) /\ rxd \in Bytes
    BY DEF TwiInv, TwiTypeOK
  <2>4. IsRead'
    BY <2>1, <2>2, <2>3 DEF IsRead
  <2>5. Quiescent'
    BY <2>1, <2>2 DEF Quiescent, SentRaised, ReadRaised
  <2> QED
    BY <2>1, <2>2, <2>3, <2>4, <2>5 DEF Resume, RightShortcut
<1> QED
  BY <1>1, <1>2, <1>3 DEF TwiInv

LEMMA ResumeBusInv ==
  ASSUME TwiInv, ResumeBus
  PROVE  TwiInv'
<1> USE TwiAssumption
<1>1. TwiTypeOK'
  BY DEF ResumeBus, Waiting, TwiInv, TwiTypeOK
<1>2. Idle' /\ Address' /\ Receive' /\ Resume' /\ Transmit'
  BY DEF ResumeBus, Waiting, TwiInv, TwiTypeOK, Idle, Address, Receive,
     Resume, Transmit, IsRead, IsWrite, RightShortcut, Quiescent, SentRaised,
     ReadRaised
<1> QED
  BY <1>1, <1>2 DEF TwiInv

LEMMA HandlerInv ==
  ASSUME TwiInv, SPI0_TWI0_IRQHandler
  PROVE  TwiInv'
<1> USE TwiAssumption
<1>1. TwiTypeOK'
  BY DEF SPI0_TWI0_IRQHandler, driver, TwiInv, TwiTypeOK
<1>2. UNCHANGED <<bus, shorts, txd, rxd, twiPc, request, left, data, onBus>>
  BY DEF SPI0_TWI0_IRQHandler, driver
<1>3. events # {} /\ events' = {}
  BY DEF SPI0_TWI0_IRQHandler
<1>4. sent' <=> SentRaised
  BY <1>1 DEF SPI0_TWI0_IRQHandler, SentRaised, TwiTypeOK, TwiInv
<1>5. read' <=> ReadRaised
  BY <1>1 DEF SPI0_TWI0_IRQHandler, ReadRaised, TwiTypeOK, TwiInv
<1>6. (SentRaised' <=> SentRaised) /\ (ReadRaised' <=> ReadRaised)
  BY <1>3, <1>4, <1>5 DEF SentRaised, ReadRaised
<1>7. twiPc \notin {"idle", "resume"}
  BY <1>3 DEF TwiInv, Idle, Resume
<1>8. SentRaised \in BOOLEAN /\ SentRaised' \in BOOLEAN
  BY <1>1 DEF TwiInv, TwiTypeOK, SentRaised
<1>9. Idle' /\ Address' /\ Receive' /\ Resume' /\ Transmit'
  <2>1. Idle' /\ Resume'
    BY <1>2, <1>7 DEF Idle, Resume
  <2>2. Address'
    BY <1>2, <1>6, <1>8 DEF TwiInv, Address, IsRead
  <2>3. Receive'
    BY <1>2, <1>6 DEF TwiInv, Receive, IsRead, RightShortcut
  <2>4. Transmit'
    BY <1>2, <1>6, <1>8 DEF TwiInv, Transmit, IsWrite, SentSoFar, Wanted
  <2> QED
    BY <2>1, <2>2, <2>3, <2>4
<1> QED
  BY <1>1, <1>9 DEF TwiInv

LEMMA ByteReceivedInv ==
  ASSUME TwiInv, NEW b \in Bytes, ByteReceived(b)
  PROVE  TwiInv'
<1> USE TwiAssumption
<1>1. TwiTypeOK'
  BY DEF ByteReceived, driver, TwiInv, TwiTypeOK
<1>2. Idle' /\ Address' /\ Receive' /\ Resume' /\ Transmit'
  BY DEF ByteReceived, driver, TwiInv, TwiTypeOK, Idle, Address, Receive,
     Resume, Transmit, IsRead, IsWrite, RightShortcut, Quiescent, SentRaised,
     ReadRaised
<1> QED
  BY <1>1, <1>2 DEF TwiInv

LEMMA RefusedInv ==
  ASSUME TwiInv, Refused
  PROVE  TwiInv'
<1> USE TwiAssumption
<1>1. TwiTypeOK'
  BY DEF Refused, driver, TwiInv, TwiTypeOK
<1>2. Idle' /\ Address' /\ Receive' /\ Resume' /\ Transmit'
  BY DEF Refused, driver, TwiInv, TwiTypeOK, Idle, Address, Receive,
     Resume, Transmit, IsRead, IsWrite, RightShortcut, Quiescent, SentRaised,
     ReadRaised
<1> QED
  BY <1>1, <1>2 DEF TwiInv

\* The bytes a write sends, place by place.
LEMMA WantedBytes ==
  ASSUME request.reg \in Bytes, request.bytes \in Seq(Bytes)
  PROVE  /\ Wanted \in Seq(Bytes)
         /\ Len(Wanted) = Len(request.bytes) + 1
         /\ Wanted[1] = request.reg
         /\ \A i \in 1..Len(request.bytes) : Wanted[i + 1] = request.bytes[i]
BY DEF Wanted

LEMMA StartWriteInv ==
  ASSUME TwiInv, NEW reg \in Registers, NEW len \in 1..MaxLen,
         NEW bytes \in [1..len -> Bytes], StartWrite(reg, bytes)
  PROVE  TwiInv'
<1> USE TwiAssumption
<1>1. bytes \in Seq(Bytes) /\ Len(bytes) = len /\ len \in Nat /\ reg \in Bytes
  OBVIOUS
<1>2. /\ request' = [op |-> "write", reg |-> reg, bytes |-> bytes]
      /\ left' = Len(bytes) /\ data' = <<>> /\ onBus' = <<>> /\ txd' = reg
      /\ bus' = "sending" /\ twiPc' = "transmit"
  BY DEF StartWrite
<1>3. TwiTypeOK'
  <2>1. <<>> \in Seq(Bytes)
    OBVIOUS
  <2> QED
    BY <1>1, <1>2, <2>1 DEF StartWrite, Waiting, TwiInv, TwiTypeOK
<1>4. Idle' /\ Address' /\ Receive' /\ Resume'
  BY <1>2 DEF Idle, Address, Receive, Resume
<1>5. Transmit'
  <2>1. IsWrite'
    BY <1>1, <1>2 DEF IsWrite
  <2>2. ~ReadRaised' /\ ~SentRaised'
    BY DEF StartWrite, Waiting, TwiInv, Idle, Quiescent, ReadRaised, SentRaised
  <2>3. Len(request'.bytes) - left' = 0
    BY <1>1, <1>2
  <2>4. Len(onBus') = 0 /\ txd' = Wanted'[1]
    <3>1. Wanted' = <<reg>> \o bytes
      BY <1>2 DEF Wanted
    <3> QED
      BY <1>1, <1>2, <3>1
  <2>5. SentRaised' = (bus' = "sent")
    BY <1>2, <2>2 DEF SentRaised
  <2>6. /\ Len(onBus') = Len(request'.bytes) - left'
        /\ \A i \in 1..Len(request'.bytes) - left' : onBus'[i] = Wanted'[i]
        /\ txd' = Wanted'[Len(request'.bytes) - left' + 1]
    BY <2>3, <2>4
  <2> QED
    BY <1>2, <2>1, <2>2, <2>5, <2>6 DEF Transmit, SentSoFar
<1> QED
  BY <1>3, <1>4, <1>5 DEF TwiInv

\* A sequence that agrees with p on its length still does when it is extended
\* by the next value of p.
LEMMA OneMore ==
  ASSUME NEW n \in Nat, NEW S, NEW s \in Seq(S), Len(s) = n, NEW x \in S,
         NEW p, \A i \in 1..n : s[i] = p[i], x = p[n + 1]
  PROVE  /\ Len(Append(s, x)) = n + 1
         /\ \A i \in 1..n + 1 : Append(s, x)[i] = p[i]
<1>1. Len(Append(s, x)) = n + 1 /\ Append(s, x)[n + 1] = x
      /\ \A i \in 1..n : Append(s, x)[i] = s[i]
  OBVIOUS
<1>2. ASSUME NEW i \in 1..n + 1 PROVE Append(s, x)[i] = p[i]
  <2>1. CASE i = n + 1
    <3>1. Append(s, x)[n + 1] = p[n + 1]
      BY <1>1
    <3> QED
      BY <2>1, <3>1
  <2>2. CASE i # n + 1
    <3>1. i \in 1..n
      BY <2>2
    <3> QED
      BY <1>1, <3>1
  <2> QED
    BY <2>1, <2>2
<1> QED
  BY <1>1, <1>2

LEMMA ByteSentInv ==
  ASSUME TwiInv, ByteSent
  PROVE  TwiInv'
<1>1. UNCHANGED <<shorts, txd, rxd, sent, read, driver, errors>>
  BY DEF ByteSent
<1>2. bus = "sending" /\ bus' = "sent" /\ events' = events \cup {"TXDSENT"}
  BY DEF ByteSent
<1>3. onBus' = IF twiPc = "transmit" THEN Append(onBus, txd) ELSE onBus
  BY DEF ByteSent
<1>4. TwiTypeOK'
  BY <1>1, <1>2, <1>3 DEF TwiInv, TwiTypeOK, driver
<1>5. SentRaised' /\ (ReadRaised' <=> ReadRaised)
  BY <1>1, <1>2 DEF SentRaised, ReadRaised
<1>6. twiPc \in {"address", "transmit"}
  BY <1>2 DEF TwiInv, TwiTypeOK, Idle, Receive, Resume
<1>7. Idle' /\ Receive' /\ Resume'
  BY <1>1, <1>6 DEF Idle, Receive, Resume, driver
<1>8. SentRaised' \in BOOLEAN
  BY <1>4 DEF TwiTypeOK, SentRaised
<1>9. Address'
  BY <1>1, <1>2, <1>3, <1>5, <1>8 DEF TwiInv, Address, IsRead, driver
<1>10. Transmit'
  <2> SUFFICES ASSUME twiPc = "transmit" PROVE Transmit'
    BY <1>1 DEF Transmit, driver
  <2> DEFINE n == Len(request.bytes) - left
  <2>1. IsWrite /\ SentSoFar(n) /\ txd = Wanted[n + 1] /\ ~ReadRaised
    BY <1>2 DEF TwiInv, Transmit
  <2>2. n \in Nat
    BY <2>1 DEF IsWrite, TwiInv, TwiTypeOK
  <2> HIDE DEF n
  <2>3. onBus' = Append(onBus, txd) /\ Wanted' = Wanted
    BY <1>1, <1>3 DEF Wanted, driver
  <2>4. Len(onBus') = n + 1 /\ \A i \in 1..n + 1 : onBus'[i] = Wanted'[i]
    <3>1. onBus \in Seq(Bytes) /\ Len(onBus) = n
          /\ \A i \in 1..n : onBus[i] = Wanted[i]
      BY <2>1 DEF SentSoFar, TwiInv, TwiTypeOK
    <3>2. txd \in Bytes
      BY DEF TwiInv, TwiTypeOK
    <3> QED
      BY <2>1, <2>2, <2>3, <3>1, <3>2, OneMore
  <2>5. Len(request'.bytes) - left' + 1 = n + 1
    BY <1>1 DEF driver, n
  <2>6. IsWrite' /\ ~ReadRaised'
    BY <1>1, <1>5, <2>1 DEF IsWrite, driver
  <2>7. SentRaised' = (bus' = "sent")
    BY <1>2, <1>5, <1>8
  <2> QED
    BY <1>2, <2>4, <2>5, <2>6, <2>7 DEF Transmit, SentSoFar
<1> QED
  BY <1>4, <1>7, <1>9, <1>10 DEF TwiInv

LEMMA SendNextInv ==
  ASSUME TwiInv, SendNext
  PROVE  TwiInv'
<1>1. UNCHANGED <<shorts, rxd, events, read, request, data, onBus, errors>>
  BY DEF SendNext
<1>2. twiPc = "transmit" /\ events = {} /\ sent /\ sent' = FALSE
  BY DEF SendNext, Waiting
<1>3. IsWrite /\ ~ReadRaised /\ bus = "sent"
      /\ SentSoFar(Len(request.bytes) - left + 1)
  BY <1>2 DEF TwiInv, Transmit, SentRaised
<1>4. ~SentRaised' /\ ~ReadRaised'
  BY <1>1, <1>2, <1>3 DEF SentRaised, ReadRaised
<1>5. CASE left = 0
  <2>1. bus' = "stopped" /\ twiPc' = "idle" /\ UNCHANGED <<txd, left>>
    BY <1>5 DEF SendNext
  <2>2. TwiTypeOK'
    BY <1>1, <1>2, <2>1 DEF TwiInv, TwiTypeOK
  <2>3. Idle'
    BY <1>1, <1>2, <1>4, <2>1 DEF Idle, Quiescent
  <2> QED
    BY <2>1, <2>2, <2>3 DEF TwiInv, Address, Receive, Resume, Transmit
<1>6. CASE left # 0
  <2>1. /\ txd' = request.bytes[Len(request.bytes) - left + 1]
        /\ left' = left - 1 /\ bus' = "sending" /\ twiPc' = "transmit"
    BY <1>2, <1>6 DEF SendNext
  <2>2. left \in 1..Len(request.bytes) /\ Len(request.bytes) \in Nat
    BY <1>3, <1>6 DEF IsWrite, TwiInv, TwiTypeOK
  <2>3. Wanted' = Wanted
    BY <1>1 DEF Wanted
  <2>4. txd' = Wanted[Len(request.bytes) - left' + 1] /\ txd' \in Bytes
    BY <1>3, <2>1, <2>2, WantedBytes DEF IsWrite
  <2>5. /\ Len(onBus') = Len(request'.bytes) - left'
        /\ \A i \in 1..Len(request'.bytes) - left' : onBus'[i] = Wanted'[i]
    <3>1. Len(request'.bytes) - left' = Len(request.bytes) - left + 1
      BY <1>1, <2>1, <2>2
    <3> QED
      BY <1>1, <1>3, <2>3, <3>1 DEF SentSoFar
  <2>6. TwiTypeOK'
    <3>1. left' \in Nat
      BY <2>1, <2>2
    <3> QED
      BY <1>1, <1>2, <1>3, <2>1, <2>4, <3>1 DEF TwiInv, TwiTypeOK
  <2>7. Transmit'
    <3>1. IsWrite'
      BY <1>1, <1>3, <2>1, <2>2 DEF IsWrite
    <3>2. txd' = Wanted'[Len(request'.bytes) - left' + 1]
      BY <1>1, <2>3, <2>4
    <3>3. SentRaised' = (bus' = "sent")
      BY <1>4, <2>1 DEF SentRaised
    <3> QED
      BY <1>4, <2>1, <2>5, <3>1, <3>2, <3>3 DEF Transmit, SentSoFar
  <2> QED
    BY <2>1, <2>6, <2>7 DEF TwiInv, Idle, Address, Receive, Resume
<1> QED
  BY <1>5, <1>6

\* Sequences of the same length with the same members are the same.
LEMMA SeqEquality ==
  ASSUME NEW S, NEW s \in Seq(S), NEW t \in Seq(S), Len(s) = Len(t),
         \A i \in 1..Len(t) : s[i] = t[i]
  PROVE  s = t
OBVIOUS

LEMMA StutterInv == TwiInv /\ UNCHANGED twiVars => TwiInv'
BY DEF TwiInv, TwiTypeOK, Idle, Address, Receive, Resume, Transmit, IsRead,
   IsWrite, RightShortcut, Quiescent, SentRaised, ReadRaised, SentSoFar,
   Wanted, twiVars

-----------------------------------------------------------------------------
LEMMA StepTwiInv == TwiInv /\ [TwiNext]_twiVars => TwiInv'
BY StartReadInv, StartWriteInv, StartReceivingInv, TakeByteInv, ResumeBusInv,
   SendNextInv, HandlerInv, ByteSentInv, ByteReceivedInv, RefusedInv,
   StutterInv DEF TwiNext, Call, TwiMain

\* The inductive invariant holds of every behaviour.
THEOREM DriverInStep == TwiSpec => []TwiInv
<1> QED
  BY InitTwiInv, StepTwiInv, PTL DEF TwiSpec

\* A call of i2c_read or i2c_write returns with the bus released and with
\* neither flag raised, whatever the slave does.
THEOREM ReleasesBus == TwiSpec => []BusReleased
<1>1. TwiInv => BusReleased
  BY DEF TwiInv, TwiTypeOK, Idle, Quiescent, SentRaised, ReadRaised, BusReleased
<1> QED
  BY <1>1, DriverInStep, PTL

(* What a call leaves behind when it returns.                              *)
Returned == IF request.op = "read"
            THEN data = onBus /\ Len(data) = request.len
            ELSE onBus = Wanted

LEMMA CallReturns ==
  ASSUME TwiInv, TwiNext, twiPc # "idle", twiPc' = "idle"
  PROVE  Returned /\ UNCHANGED <<data, onBus, request>>
<1>1. CASE ResumeBus
  <2>1. left = 0 /\ twiPc = "resume"
    BY <1>1 DEF ResumeBus, Waiting
  <2>2. IsRead /\ onBus = data
    BY <2>1 DEF TwiInv, Resume
  <2> QED
    BY <1>1, <2>1, <2>2 DEF IsRead, TwiInv, TwiTypeOK, Returned, ResumeBus
<1>2. CASE SendNext
  <2>1. left = 0 /\ twiPc = "transmit" /\ sent
    BY <1>2 DEF SendNext, Waiting
  <2>2. IsWrite /\ SentSoFar(Len(request.bytes) + 1)
    BY <2>1 DEF TwiInv, TwiTypeOK, Transmit, SentRaised, IsWrite
  <2>3. onBus = Wanted
    <3>1. onBus \in Seq(Bytes) /\ Wanted \in Seq(Bytes)
          /\ Len(Wanted) = Len(request.bytes) + 1
      BY <2>2, WantedBytes DEF IsWrite, TwiInv, TwiTypeOK
    <3>2. /\ Len(onBus) = Len(Wanted)
          /\ \A i \in 1..Len(Wanted) : onBus[i] = Wanted[i]
      BY <2>2, <3>1 DEF SentSoFar
    <3> QED
      BY <3>1, <3>2, SeqEquality
  <2> QED
    BY <1>2, <2>2, <2>3 DEF IsWrite, Returned, SendNext
<1>3. ResumeBus \/ SendNext
  BY DEF TwiNext, TwiMain, Call, StartReceiving, TakeByte,
     SPI0_TWI0_IRQHandler, ByteSent, ByteReceived, Refused, driver
<1> QED
  BY <1>1, <1>2, <1>3

\* A call that returns has moved exactly the bytes it was asked to, in order,
\* for any length and any slave.
THEOREM MovesExactly == TwiSpec => TransferExact
<1>1. TwiInv /\ [TwiNext]_twiVars =>
        [twiPc # "idle" /\ twiPc' = "idle" /\ request' = request
           => Returned]_twiVars
  BY CallReturns
<1> QED
  BY <1>1, DriverInStep, PTL DEF TwiSpec, TransferExact, Wanted, Returned

-----------------------------------------------------------------------------
(* The sensor's driver and the logger on the board.                        *)

(* The transfer each step of the sensor's driver waits for.                 *)
Reading(reg, len) == request = [op |-> "read", reg |-> reg, len |-> len]

Asked ==
  /\ imuPc \in {"idle", "count", "status", "data", "reset", "done"}
  /\ imuPc \in {"idle", "done"} => twiPc = "idle"
  /\ imuPc = "count" => Reading(FIFO_COUNT, 2)
  /\ imuPc = "status" => Reading(INT_STATUS, 1)
  /\ imuPc = "data" => Reading(FIFO_R_W, PacketSize)
  /\ imuPc = "reset" =>
       request = [op |-> "write", reg |-> USER_CTRL, bytes |-> <<RESET>>]

(* What it finds when the transfer is over, and what goes out first.       *)
Answered ==
  /\ twiPc = "address" => txd = request.reg
  /\ imuPc \in {"count", "status", "data"} /\ twiPc = "idle" =>
       data = onBus /\ Len(data) = request.len
  /\ imuPc = "reset" /\ twiPc = "idle" => Len(onBus) = 2

SensorTypeOK ==
  /\ fifo \in Seq(Bytes) /\ Len(fifo) <= FifoSize
  /\ label \in 0..Labels - 1
  /\ overflow \in BOOLEAN /\ int_pin \in BOOLEAN

BoardInv == TwiInv /\ Asked /\ Answered /\ SensorTypeOK

-----------------------------------------------------------------------------
LEMMA PacketBytes ==
  ASSUME NEW k \in 0..Labels - 1
  PROVE  Packet(k) \in Seq(Bytes) /\ Len(Packet(k)) = PacketSize
<1>1. ASSUME NEW i \in 1..PacketSize PROVE <<k, i>> \in Bytes
  BY ImuAssumption, TwiAssumption
<1>2. PacketSize \in Nat
  BY ImuAssumption, TwiAssumption
<1> QED
  BY <1>1, <1>2 DEF Packet

\* A value the sensor gives in a register is a byte.
LEMMA ValueByte ==
  ASSUME NEW v \in 0..FifoSize
  PROVE  <<0, v>> \in Bytes
BY ImuAssumption

LEMMA AnswerByte ==
  ASSUME BoardInv, bus = "receiving"
  PROVE  Answer \in Bytes
<1>1. twiPc = "receive"
  BY DEF BoardInv, TwiInv, TwiTypeOK, Idle, Address, Resume, Transmit
<1>2. request.op = "read" /\ onBus \in Seq(Bytes)
  BY <1>1 DEF BoardInv, TwiInv, TwiTypeOK, Receive, IsRead
<1>3. request.reg \in {FIFO_COUNT, INT_STATUS, FIFO_R_W}
  BY <1>1, <1>2 DEF BoardInv, Asked, Reading
<1>4. FifoSize \in Nat /\ 1 \in 0..FifoSize /\ 0 \in 0..FifoSize
  BY ImuAssumption, TwiAssumption
<1>5. <<0, 0>> \in Bytes /\ <<0, 1>> \in Bytes
  BY <1>4, ValueByte
<1>6. <<0, Len(fifo)>> \in Bytes
  <2>1. Len(fifo) \in 0..FifoSize
    BY <1>4 DEF BoardInv, SensorTypeOK
  <2> QED
    BY <2>1, ValueByte
<1>7. fifo # <<>> => Head(fifo) \in Bytes
  BY DEF BoardInv, SensorTypeOK
<1>8. onBus # <<>> => onBus[1] \in Bytes
  BY <1>2
<1>9. FIFO_COUNT # INT_STATUS /\ FIFO_COUNT # FIFO_R_W /\ INT_STATUS # FIFO_R_W
  BY DEF FIFO_COUNT, INT_STATUS, FIFO_R_W
<1> QED
  BY <1>3, <1>5, <1>6, <1>7, <1>8, <1>9 DEF Answer

\* The calls the sensor's driver makes are calls the bus driver allows.
LEMMA ReadCalls ==
  ASSUME NEW reg \in ImuRegisters, NEW len \in {1, 2, PacketSize},
         StartRead(reg, len)
  PROVE  TwiNext
<1>1. reg \in Registers /\ len \in 1..MaxLen
  BY ImuAssumption, TwiAssumption
<1> QED
  BY <1>1 DEF TwiNext, Call, StartRead, Waiting

LEMMA WriteCalls ==
  ASSUME StartWrite(USER_CTRL, <<RESET>>)
  PROVE  TwiNext
<1>1. USER_CTRL \in Registers /\ 1 \in 1..MaxLen
  BY ImuAssumption, TwiAssumption DEF ImuRegisters
<1>2. <<RESET>> \in [1..1 -> Bytes]
  <2>1. RESET \in Bytes
    BY ImuAssumption
  <2> QED
    BY <2>1
<1> QED
  BY <1>1, <1>2 DEF TwiNext, Call, StartWrite, Waiting

LEMMA DriverCalls ==
  ASSUME ImuDriver
  PROVE  TwiNext \/ UNCHANGED twiVars
<1>1. /\ FIFO_COUNT \in ImuRegisters /\ INT_STATUS \in ImuRegisters
      /\ FIFO_R_W \in ImuRegisters
  BY DEF ImuRegisters
<1>2. \/ UNCHANGED twiVars
      \/ StartRead(INT_STATUS, 1)
      \/ StartRead(FIFO_R_W, PacketSize)
      \/ StartWrite(USER_CTRL, <<RESET>>)
  BY DEF ImuDriver, GotCount, GotStatus, GotPacket, ResetDone, ReadPacket,
     ResetFifo
<1> QED
  BY <1>1, <1>2, ReadCalls, WriteCalls

\* Every step but a restart is a step of the bus driver or leaves it alone.
LEMMA StepUsesBus ==
  ASSUME BoardInv, Next, restarts' = restarts
  PROVE  [TwiNext]_twiVars
<1>1. CASE Sense
  <2>1. StartRead(FIFO_COUNT, 2) /\ FIFO_COUNT \in ImuRegisters
    BY <1>1 DEF Sense, ReadSample, ImuRegisters
  <2> QED
    BY <2>1, ReadCalls
<1>2. CASE Control \/ Log
  BY <1>2 DEF Control, Log
<1>3. CASE Device
  <2>1. CASE Arrive
    BY <2>1 DEF Arrive
  <2>2. CASE SensorAnswers
    <3>1. ByteReceived(Answer) /\ bus = "receiving"
      BY <2>2 DEF SensorAnswers, ByteReceived
    <3>2. Answer \in Bytes
      BY <3>1, AnswerByte
    <3> QED
      BY <3>1, <3>2 DEF TwiNext
  <2>3. CASE SensorTakes
    BY <2>3 DEF SensorTakes, TwiNext
  <2> QED
    BY <1>3, <2>1, <2>2, <2>3 DEF Device
<1>4. CASE Driver
  BY <1>4, DriverCalls DEF Driver, BusStep, TwiNext
<1>5. CASE SystemReset \/ PowerFails
  <2>1. /\ restarts' = restarts + 1 /\ restarts' = restarts
        /\ restarts < MaxRestarts
    BY <1>5 DEF SystemReset, PowerFails, Rebooted
  <2> QED
    BY <1>5, <2>1 DEF SystemReset, PowerFails, Rebooted
<1> QED
  BY <1>1, <1>2, <1>3, <1>4, <1>5 DEF Next

-----------------------------------------------------------------------------
\* Steps of the bus driver that are no call leave the request alone.
LEMMA BusKeepsRequest ==
  ASSUME TwiMain \/ SPI0_TWI0_IRQHandler \/ Refused \/ ByteSent
           \/ (\E b \in Bytes : ByteReceived(b))
  PROVE  request' = request /\ (twiPc = "idle" => twiPc' = "idle")
BY DEF TwiMain, StartReceiving, TakeByte, ResumeBus, SendNext, Waiting,
   SPI0_TWI0_IRQHandler, Refused, ByteSent, ByteReceived, driver

LEMMA AskedStep ==
  ASSUME BoardInv, Next, restarts' = restarts
  PROVE  Asked'
<1> USE DEF Asked, Reading
<1>1. Asked
  BY DEF BoardInv
<1>2. CASE Sense
  <2>1. StartRead(FIFO_COUNT, 2) /\ imuPc' = "count"
    BY <1>2 DEF Sense, ReadSample
  <2> QED
    BY <2>1 DEF StartRead
<1>3. CASE Control
  BY <1>1, <1>3 DEF Control, twiVars
<1>4. CASE Log
  BY <1>1, <1>4 DEF Log, twiVars, imuVars
<1>5. CASE Device
  <2>1. UNCHANGED imuPc
    BY <1>5 DEF Device, Arrive, SensorAnswers, SensorTakes
  <2>2. request' = request /\ (twiPc = "idle" => twiPc' = "idle")
    <3>1. CASE Arrive
      BY <3>1 DEF Arrive, twiVars
    <3>2. CASE SensorAnswers
      <4>1. ByteReceived(Answer) /\ bus = "receiving"
        BY <3>2 DEF SensorAnswers, ByteReceived
      <4> QED
        BY <4>1, AnswerByte, BusKeepsRequest
    <3>3. CASE SensorTakes
      BY <3>3, BusKeepsRequest DEF SensorTakes
    <3> QED
      BY <1>5, <3>1, <3>2, <3>3 DEF Device
  <2> QED
    BY <1>1, <2>1, <2>2
<1>6. CASE Driver
  <2>1. CASE ImuDriver
    <3>1. CASE UNCHANGED twiVars /\ imuPc' = "done" /\ twiPc = "idle"
      BY <1>1, <3>1 DEF twiVars
    <3>2. CASE StartRead(INT_STATUS, 1) /\ imuPc' = "status"
      BY <3>2 DEF StartRead
    <3>3. CASE StartRead(FIFO_R_W, PacketSize) /\ imuPc' = "data"
      BY <3>3 DEF StartRead
    <3>4. CASE StartWrite(USER_CTRL, <<RESET>>) /\ imuPc' = "reset"
      BY <3>4 DEF StartWrite
    <3> QED
      BY <2>1, <3>1, <3>2, <3>3, <3>4 DEF ImuDriver, GotCount, GotStatus,
         GotPacket, ResetDone, ReadPacket, ResetFifo, NoNewSample, Transferred
  <2>2. CASE BusStep
    <3>1. request' = request /\ (twiPc = "idle" => twiPc' = "idle")
      BY <2>2, BusKeepsRequest DEF BusStep
    <3> QED
      BY <1>1, <2>2, <3>1 DEF BusStep, imuVars
  <2> QED
    BY <1>6, <2>1, <2>2 DEF Driver
<1>7. CASE SystemReset \/ PowerFails
  BY <1>7 DEF SystemReset, PowerFails, Rebooted
<1> QED
  BY <1>2, <1>3, <1>4, <1>5, <1>6, <1>7 DEF Next

\* A bus at rest moves only when it is called.
LEMMA BusRests ==
  ASSUME TwiInv, twiPc = "idle",
         TwiMain \/ SPI0_TWI0_IRQHandler \/ Refused \/ ByteSent
           \/ (\E b \in Bytes : ByteReceived(b))
  PROVE  FALSE
<1>1. bus = "stopped" /\ events = {}
  BY DEF TwiInv, TwiTypeOK, Idle
<1> QED
  BY <1>1 DEF TwiMain, StartReceiving, TakeByte, ResumeBus, SendNext, Waiting,
     SPI0_TWI0_IRQHandler, Refused, ByteSent, ByteReceived

LEMMA BusAnswers ==
  ASSUME BoardInv, UNCHANGED imuPc,
         TwiMain \/ SPI0_TWI0_IRQHandler \/ Refused \/ ByteSent
           \/ (\E b \in Bytes : ByteReceived(b))
  PROVE  Answered'
<1>1. TwiInv /\ Asked /\ Answered
  BY DEF BoardInv
<1>2. TwiNext /\ twiPc # "idle" /\ request' = request
  BY <1>1, BusRests, BusKeepsRequest DEF TwiNext
<1>3. twiPc' = "address" => txd' = request'.reg
  <2>1. twiPc' = "address" => twiPc = "address" /\ txd' = txd
    BY DEF TwiMain, StartReceiving, TakeByte, ResumeBus, SendNext, Waiting,
       SPI0_TWI0_IRQHandler, Refused, ByteSent, ByteReceived, driver
  <2> QED
    BY <1>1, <1>2, <2>1 DEF Answered
<1>4. ASSUME twiPc' = "idle" PROVE Answered'
  <2>1. Returned /\ UNCHANGED <<data, onBus, request>>
    BY <1>1, <1>2, <1>4, CallReturns
  <2>2. imuPc \in {"count", "status", "data"} => request.op = "read"
    BY <1>1 DEF Asked, Reading
  <2>3. ASSUME imuPc = "reset" PROVE onBus = <<USER_CTRL>> \o <<RESET>>
    <3>1. /\ request.op = "write" /\ request.reg = USER_CTRL
          /\ request.bytes = <<RESET>>
      BY <1>1, <2>3 DEF Asked
    <3> QED
      BY <2>1, <3>1 DEF Returned, Wanted
  <2>4. imuPc = "reset" => Len(onBus) = 2
    BY <2>3
  <2> QED
    BY <1>4, <2>1, <2>2, <2>4 DEF Answered, Returned
<1> QED
  BY <1>3, <1>4 DEF Answered

LEMMA AnsweredStep ==
  ASSUME BoardInv, Next, restarts' = restarts
  PROVE  Answered'
<1>1. Answered
  BY DEF BoardInv
<1>2. ASSUME twiPc' \in {"address", "transmit"},
             twiPc' = "address" => txd' = request'.reg
      PROVE  Answered'
  BY <1>2 DEF Answered
<1>3. ASSUME NEW reg, NEW len, StartRead(reg, len) PROVE Answered'
  BY <1>2, <1>3 DEF StartRead
<1>4. ASSUME NEW reg, NEW bytes, StartWrite(reg, bytes) PROVE Answered'
  BY <1>2, <1>4 DEF StartWrite
<1>5. ASSUME UNCHANGED twiVars, imuPc' \in {imuPc, "idle", "done"}
      PROVE  Answered'
  BY <1>1, <1>5 DEF Answered, twiVars
<1>6. CASE Sense
  BY <1>3, <1>6 DEF Sense, ReadSample
<1>7. CASE Control \/ Log
  BY <1>5, <1>7 DEF Control, Log, imuVars
<1>8. CASE Device
  <2>1. CASE Arrive
    BY <1>5, <2>1 DEF Arrive
  <2>2. CASE SensorAnswers
    <3>1. ByteReceived(Answer) /\ bus = "receiving" /\ UNCHANGED imuPc
      BY <2>2 DEF SensorAnswers, ByteReceived
    <3> QED
      BY <3>1, AnswerByte, BusAnswers
  <2>3. CASE SensorTakes
    BY <2>3, BusAnswers DEF SensorTakes
  <2> QED
    BY <1>8, <2>1, <2>2, <2>3 DEF Device
<1>9. CASE Driver
  <2>1. CASE ImuDriver
    <3>1. \/ UNCHANGED twiVars /\ imuPc' = "done"
          \/ StartRead(INT_STATUS, 1)
          \/ StartRead(FIFO_R_W, PacketSize)
          \/ StartWrite(USER_CTRL, <<RESET>>)
      BY <2>1 DEF ImuDriver, GotCount, GotStatus, GotPacket, ResetDone,
         ReadPacket, ResetFifo, NoNewSample
    <3> QED
      BY <1>3, <1>4, <1>5, <3>1
  <2>2. CASE BusStep
    BY <2>2, BusAnswers DEF BusStep, imuVars
  <2> QED
    BY <1>9, <2>1, <2>2 DEF Driver
<1>10. CASE SystemReset \/ PowerFails
  BY <1>10 DEF SystemReset, PowerFails, Rebooted, Answered
<1> QED
  BY <1>6, <1>7, <1>8, <1>9, <1>10 DEF Next

LEMMA SensorStep ==
  ASSUME BoardInv, Next
  PROVE  SensorTypeOK'
<1> USE DEF SensorTypeOK
<1>1. SensorTypeOK
  BY DEF BoardInv
<1>2. FifoSize \in Nat /\ Labels \in Nat \ {0}
  BY ImuAssumption
<1>3. <<>> \in Seq(Bytes) /\ Len(<<>>) <= FifoSize
  BY <1>2
<1>4. CASE UNCHANGED sensor
  BY <1>1, <1>4 DEF sensor
<1>5. CASE Arrive
  <2> DEFINE all == fifo \o Packet(label)
  <2>1. all \in Seq(Bytes)
    BY <1>1, PacketBytes
  <2>2. /\ fifo' = IF Len(all) <= FifoSize THEN all
                   ELSE SubSeq(all, Len(all) - FifoSize + 1, Len(all))
        /\ overflow' \in BOOLEAN /\ int_pin' \in BOOLEAN
    BY <1>1, <1>5 DEF Arrive
  <2>3. label' \in 0..Labels - 1
    BY <1>1, <1>2, <1>5 DEF Arrive
  <2>4. fifo' \in Seq(Bytes) /\ Len(fifo') <= FifoSize
    <3> HIDE DEF all
    <3>1. CASE Len(all) <= FifoSize
      BY <2>1, <2>2, <3>1
    <3>2. CASE ~(Len(all) <= FifoSize)
      BY <1>2, <2>1, <2>2, <3>2
    <3> QED
      BY <3>1, <3>2
  <2> QED
    BY <2>2, <2>3, <2>4
<1>6. CASE SensorAnswers
  <2>1. fifo # <<>> => Tail(fifo) \in Seq(Bytes) /\ Len(Tail(fifo)) <= FifoSize
    BY <1>1, <1>2
  <2> QED
    BY <1>1, <1>6, <2>1 DEF SensorAnswers
<1>7. CASE SensorTakes
  BY <1>1, <1>3, <1>7 DEF SensorTakes
<1>8. CASE Sense
  BY <1>1, <1>3, <1>8 DEF Sense, ReadSample
<1>9. CASE SystemReset \/ PowerFails
  BY <1>1, <1>3, <1>9 DEF SystemReset, PowerFails, Rebooted
<1>10. CASE Control \/ Log \/ Driver
  <2>1. UNCHANGED sensor
    BY <1>10 DEF Control, Log, Driver, ImuDriver, BusStep, imuVars, GotCount,
       GotStatus, GotPacket, ResetDone, Transferred
  <2> QED
    BY <1>4, <2>1
<1> QED
  BY <1>5, <1>6, <1>7, <1>8, <1>9, <1>10 DEF Next, Device

LEMMA RestartInv ==
  ASSUME BoardInv, SystemReset \/ PowerFails
  PROVE  BoardInv'
<1>1. Rebooted
  BY DEF SystemReset, PowerFails
<1>2. TwiTypeOK'
  <2>1. <<>> \in Seq(Bytes)
    OBVIOUS
  <2> QED
    BY <1>1, <2>1 DEF Rebooted, BoardInv, TwiInv, TwiTypeOK
<1>3. Idle' /\ Address' /\ Receive' /\ Resume' /\ Transmit'
  BY <1>1 DEF Rebooted, Idle, Address, Receive, Resume, Transmit, Quiescent,
     SentRaised, ReadRaised
<1>4. Asked'
  BY <1>1 DEF Rebooted, Asked
<1>5. Answered'
  BY <1>1 DEF Rebooted, Answered
<1>6. SensorTypeOK'
  BY SensorStep DEF Next
<1> QED
  BY <1>2, <1>3, <1>4, <1>5, <1>6 DEF BoardInv, TwiInv

LEMMA InitBoardInv == Init => BoardInv
<1> SUFFICES ASSUME Init PROVE BoardInv
  OBVIOUS
<1>1. TwiInv
  BY InitTwiInv DEF Init
<1>2. Asked /\ Answered
  BY DEF Init, TwiInit, ImuInit, Asked, Answered
<1>3. SensorTypeOK
  <2>1. fifo = <<>> /\ overflow = FALSE /\ label = 0
    BY DEF Init, ImuInit
  <2>2. fifo \in Seq(Bytes) /\ Len(fifo) = 0
    BY <2>1
  <2>3. Len(fifo) <= FifoSize
    BY <2>2, ImuAssumption
  <2>4. label \in 0..Labels - 1
    BY <2>1, ImuAssumption
  <2>5. overflow \in BOOLEAN /\ int_pin \in BOOLEAN
    BY DEF Init, ImuInit
  <2> QED
    BY <2>2, <2>3, <2>4, <2>5 DEF SensorTypeOK
<1> QED
  BY <1>1, <1>2, <1>3 DEF BoardInv

LEMMA StepBoardInv == BoardInv /\ [Next]_vars => BoardInv'
<1>1. ASSUME BoardInv, Next, restarts' = restarts PROVE BoardInv'
  BY <1>1, StepUsesBus, StepTwiInv, AskedStep, AnsweredStep, SensorStep
     DEF BoardInv
<1>2. ASSUME BoardInv, Next, restarts' # restarts PROVE BoardInv'
  <2>1. SystemReset \/ PowerFails
    BY <1>2 DEF Next, Sense, Control, Log, Device, Driver
  <2> QED
    BY <1>2, <2>1, RestartInv
<1>3. ASSUME BoardInv, UNCHANGED vars PROVE BoardInv'
  <2>1. TwiInv'
    BY <1>3, StutterInv DEF BoardInv, vars
  <2> QED
    BY <1>3, <2>1 DEF BoardInv, Asked, Answered, Reading, SensorTypeOK, vars,
       twiVars, imuVars, sensor
<1> QED
  BY <1>1, <1>2, <1>3

-----------------------------------------------------------------------------
\* The inductive invariant holds of every behaviour of the board.
THEOREM BoardInStep == Spec => []BoardInv
<1> QED
  BY InitBoardInv, StepBoardInv, PTL DEF Spec

\* The sensor's driver calls i2c_read and i2c_write only as they allow it.
THEOREM CallsAsAllowed == Spec => UsesBus
<1>1. BoardInv /\ [Next]_vars =>
        [restarts' = restarts => [TwiNext]_twiVars]_vars
  BY StepUsesBus
<1> QED
  BY <1>1, BoardInStep, PTL DEF Spec, UsesBus

\* On the whole board a transfer that returns has released the bus.
THEOREM BoardReleasesBus == Spec => []BusReleased
<1>1. BoardInv => BusReleased
  BY DEF BoardInv, TwiInv, TwiTypeOK, Idle, Quiescent, SentRaised, ReadRaised,
     BusReleased
<1> QED
  BY <1>1, BoardInStep, PTL

\* On the board, too, a call that returns has moved exactly what it was asked
\* to; a restart breaks a call off, and its request is gone.
THEOREM BoardMovesExactly == Spec => TransferExact
<1>1. BoardInv /\ [Next]_vars =>
        [twiPc # "idle" /\ twiPc' = "idle" /\ request' = request
           => Returned]_twiVars
  <2> SUFFICES ASSUME BoardInv, [Next]_vars, twiPc # "idle", twiPc' = "idle",
                      request' = request
               PROVE  Returned
    OBVIOUS
  <2>1. CASE UNCHANGED vars
    BY <2>1 DEF vars, twiVars
  <2>2. CASE Next /\ restarts' = restarts
    <3>1. TwiNext
      BY <2>2, StepUsesBus DEF twiVars
    <3> QED
      BY <3>1, CallReturns DEF BoardInv
  <2>3. CASE Next /\ restarts' # restarts
    <3>1. Rebooted
      BY <2>3 DEF Next, Sense, Control, Log, Device, Driver, SystemReset,
         PowerFails
    <3>2. request = NoRequest
      BY <3>1 DEF Rebooted
    <3>3. IsRead \/ IsWrite
      BY DEF BoardInv, TwiInv, TwiTypeOK, Address, Receive, Resume, Transmit
    <3> QED
      BY <3>2, <3>3 DEF IsRead, IsWrite, NoRequest
  <2> QED
    BY <2>1, <2>2, <2>3
<1> QED
  BY <1>1, BoardInStep, PTL DEF Spec, TransferExact, Wanted, Returned

-----------------------------------------------------------------------------
\* Whatever interrupts it, the board does with the log what the logger does.
LEMMA StepLogs == [Next]_vars => [FlashNext]_flashVars
<1>1. Sense \/ Device \/ Driver => UNCHANGED flashVars
  BY DEF Sense, Device, Driver
<1>2. Control \/ Log \/ SystemReset \/ PowerFails => FlashNext
  BY DEF Control, Log, SystemReset, PowerFails, FlashNext
<1>3. UNCHANGED vars => UNCHANGED flashVars
  BY DEF vars
<1> QED
  BY <1>1, <1>2, <1>3 DEF Next

\* Between two records the flash chip of the board holds exactly the records
\* logged since the last boot, through resets and power failures.
THEOREM BoardLogReadable == Spec => []LogReadable
<1>1. Spec => FlashSpec
  <2>1. Init => FlashInit
    BY DEF Init
  <2> QED
    BY <2>1, StepLogs, PTL DEF Spec, FlashSpec
<1> QED
  BY <1>1, LogIsReadable, PTL

-----------------------------------------------------------------------------
(* The sensor's FIFO: places in it, and what is put in and taken out.      *)

LEMMA Sizes ==
  /\ PacketSize \in Nat \ {0} /\ FifoSize \in Nat /\ Half \in Nat
  /\ PacketSize <= Half /\ Half + PacketSize < FifoSize
  /\ Labels \in Nat \ {0}
<1>1. PacketSize \in Nat \ {0} /\ FifoSize \in Nat /\ FifoSize > 2 * PacketSize
      /\ Labels \in Nat \ {0}
  BY ImuAssumption, TwiAssumption
<1>2. Half \in Nat /\ 2 * Half <= FifoSize /\ FifoSize <= 2 * Half + 1
  BY <1>1 DEF Half
<1> QED
  BY <1>1, <1>2

(* Counted from the end of the FIFO, a byte's place in its packet does not *)
(* depend on how many bytes before it were read or lost.                   *)
FromEnd(q, e) == q[Len(q) - e]

InPackets(q) ==
  \A c \in Nat, j \in 0..PacketSize - 1 :
    c % PacketSize = 0 /\ c + j < Len(q) =>
      /\ FromEnd(q, c)[1] \in 0..Labels - 1
      /\ FromEnd(q, c + j) = <<FromEnd(q, c)[1], PacketSize - j>>

LEMMA EmptyInPackets == InPackets(<<>>)
<1>1. Len(<<>>) = 0
  OBVIOUS
<1>2. ASSUME NEW c \in Nat, NEW j \in 0..PacketSize - 1, c + j < 0 PROVE FALSE
  BY <1>2, Sizes
<1> QED
  BY <1>1, <1>2 DEF InPackets

LEMMA TailInPackets ==
  ASSUME NEW q \in Seq(Bytes), q # <<>>, InPackets(q)
  PROVE  InPackets(Tail(q))
<1>1. Len(q) \in Nat /\ Len(Tail(q)) = Len(q) - 1 /\ Len(q) > 0
  OBVIOUS
<1>2. ASSUME NEW e \in Nat, e < Len(Tail(q))
      PROVE  FromEnd(Tail(q), e) = FromEnd(q, e)
  <2>1. Len(q) - 1 - e \in 1..Len(q) - 1
    BY <1>1, <1>2
  <2>2. Tail(q)[Len(q) - 1 - e] = q[Len(q) - 1 - e + 1]
    BY <1>1, <2>1
  <2>3. Len(Tail(q)) - e = Len(q) - 1 - e /\ Len(q) - 1 - e + 1 = Len(q) - e
    BY <1>1
  <2> QED
    BY <2>2, <2>3 DEF FromEnd
<1>3. ASSUME NEW c \in Nat, NEW j \in 0..PacketSize - 1,
             c % PacketSize = 0, c + j < Len(Tail(q))
      PROVE  /\ FromEnd(Tail(q), c)[1] \in 0..Labels - 1
             /\ FromEnd(Tail(q), c + j)
                  = <<FromEnd(Tail(q), c)[1], PacketSize - j>>
  <2>1. c < Len(Tail(q)) /\ c + j \in Nat /\ c + j < Len(q)
    BY <1>1, <1>3, Sizes
  <2>2. /\ FromEnd(Tail(q), c) = FromEnd(q, c)
        /\ FromEnd(Tail(q), c + j) = FromEnd(q, c + j)
    BY <1>2, <1>3, <2>1
  <2> QED
    BY <1>3, <2>1, <2>2 DEF InPackets
<1> QED
  BY <1>3 DEF InPackets

LEMMA Concatenated ==
  ASSUME NEW S, NEW s \in Seq(S), NEW t \in Seq(S)
  PROVE  /\ s \o t \in Seq(S) /\ Len(s \o t) = Len(s) + Len(t)
         /\ \A i \in 1..Len(s) : (s \o t)[i] = s[i]
         /\ \A i \in 1..Len(t) : (s \o t)[Len(s) + i] = t[i]
OBVIOUS

LEMMA LastOnes ==
  ASSUME NEW S, NEW s \in Seq(S), NEW n \in 1..Len(s)
  PROVE  /\ Len(SubSeq(s, Len(s) - n + 1, Len(s))) = n
         /\ \A i \in 1..n :
              SubSeq(s, Len(s) - n + 1, Len(s))[i] = s[Len(s) - n + i]
OBVIOUS

\* What a packet does to the FIFO, whether there is room for it or not.
LEMMA ArrivalInFifo ==
  ASSUME BoardInv, Arrive
  PROVE  LET room == Len(fifo) + PacketSize <= FifoSize IN
         /\ Len(fifo') = IF room THEN Len(fifo) + PacketSize ELSE FifoSize
         /\ overflow' = (overflow \/ ~room)
         /\ spare' = IF room THEN spare ELSE 4
         /\ room => \A i \in 1..Len(fifo) : fifo'[i] = fifo[i]
         /\ \A e \in 0..Len(fifo') - 1 :
              FromEnd(fifo', e) = IF e < PacketSize
                                  THEN <<label, PacketSize - e>>
                                  ELSE FromEnd(fifo, e - PacketSize)
<1> DEFINE all == fifo \o Packet(label)
           room == Len(fifo) + PacketSize <= FifoSize
<1>1. /\ fifo \in Seq(Bytes) /\ label \in 0..Labels - 1 /\ Len(fifo) <= FifoSize
      /\ Packet(label) \in Seq(Bytes) /\ Len(Packet(label)) = PacketSize
      /\ \A i \in 1..PacketSize : Packet(label)[i] = <<label, i>>
  BY PacketBytes DEF BoardInv, SensorTypeOK, Packet
<1>2. /\ all \in Seq(Bytes) /\ Len(all) = Len(fifo) + PacketSize
      /\ \A i \in 1..Len(fifo) : all[i] = fifo[i]
      /\ \A i \in 1..PacketSize : all[Len(fifo) + i] = <<label, i>>
  <2> DEFINE p == Packet(label)
  <2> HIDE DEF p
  <2>1. p \in Seq(Bytes) /\ Len(p) = PacketSize
        /\ \A i \in 1..PacketSize : p[i] = <<label, i>>
    BY <1>1 DEF p
  <2>2. fifo \in Seq(Bytes)
    BY <1>1
  <2> QED
    BY <2>1, <2>2, Concatenated DEF p
<1>3. /\ fifo' = IF Len(all) <= FifoSize THEN all
                 ELSE SubSeq(all, Len(all) - FifoSize + 1, Len(all))
      /\ overflow' = (overflow \/ Len(all) > FifoSize)
      /\ spare' = IF Len(all) > FifoSize THEN 4 ELSE spare
  BY DEF Arrive
<1> HIDE DEF all
<1>4. ASSUME NEW e \in 0..Len(all) - 1
      PROVE  FromEnd(all, e) = IF e < PacketSize
                               THEN <<label, PacketSize - e>>
                               ELSE FromEnd(fifo, e - PacketSize)
  <2>1. CASE e < PacketSize
    <3>1. PacketSize - e \in 1..PacketSize
          /\ Len(all) - e = Len(fifo) + (PacketSize - e)
      BY <1>1, <1>2, <2>1, Sizes
    <3> QED
      BY <1>2, <2>1, <3>1 DEF FromEnd
  <2>2. CASE ~(e < PacketSize)
    <3>1. Len(all) - e \in 1..Len(fifo)
          /\ Len(all) - e = Len(fifo) - (e - PacketSize)
      BY <1>1, <1>2, <2>2, Sizes
    <3> QED
      BY <1>2, <2>2, <3>1 DEF FromEnd
  <2> QED
    BY <2>1, <2>2
<1>5. CASE room
  <2>1. Len(all) <= FifoSize /\ overflow \in BOOLEAN
    BY <1>2, <1>5 DEF BoardInv, SensorTypeOK
  <2>2. fifo' = all /\ overflow' = overflow /\ spare' = spare
    <3>1. ~(Len(all) > FifoSize)
      BY <1>1, <1>2, <2>1, Sizes
    <3> QED
      BY <1>3, <2>1, <3>1
  <2>3. overflow' = (overflow \/ ~room)
    BY <1>5, <2>1, <2>2
  <2>4. \A e \in 0..Len(fifo') - 1 :
          FromEnd(fifo', e) = IF e < PacketSize
                              THEN <<label, PacketSize - e>>
                              ELSE FromEnd(fifo, e - PacketSize)
    BY <1>4, <2>2
  <2> QED
    BY <1>2, <1>5, <2>2, <2>3, <2>4
<1>6. CASE ~room
  <2>1. /\ fifo' = SubSeq(all, Len(all) - FifoSize + 1, Len(all))
        /\ overflow' = TRUE /\ spare' = 4
    <3>1. Len(all) > FifoSize
      BY <1>1, <1>2, <1>6, Sizes
    <3>2. ~(Len(all) <= FifoSize)
      BY <1>1, <1>2, <3>1, Sizes
    <3> QED
      BY <1>3, <3>1, <3>2
  <2>0. FifoSize \in 1..Len(all)
    BY <1>1, <1>2, <1>6, Sizes
  <2>2. Len(fifo') = FifoSize
    BY <1>2, <2>0, <2>1, LastOnes
  <2>3. ASSUME NEW e \in 0..Len(fifo') - 1
        PROVE  e \in 0..Len(all) - 1 /\ FromEnd(fifo', e) = FromEnd(all, e)
    <3>1. FifoSize - e \in 1..FifoSize /\ e \in 0..Len(all) - 1
      BY <1>1, <1>2, <1>6, <2>2, Sizes
    <3>2. fifo'[FifoSize - e] = all[Len(all) - e]
      <4>1. fifo'[FifoSize - e] = all[Len(all) - FifoSize + (FifoSize - e)]
        BY <1>2, <2>0, <2>1, <3>1, LastOnes
      <4>2. Len(all) - FifoSize + (FifoSize - e) = Len(all) - e
        BY <1>1, <1>2, <3>1, Sizes
      <4> QED
        BY <4>1, <4>2
    <3> QED
      BY <2>2, <3>1, <3>2 DEF FromEnd
  <2>4. overflow' = (overflow \/ ~room)
    BY <1>6, <2>1
  <2>5. \A e \in 0..Len(fifo') - 1 :
          FromEnd(fifo', e) = IF e < PacketSize
                              THEN <<label, PacketSize - e>>
                              ELSE FromEnd(fifo, e - PacketSize)
    BY <1>4, <2>3
  <2> QED
    BY <1>6, <2>1, <2>2, <2>4, <2>5
<1> QED
  BY <1>5, <1>6

LEMMA ArrivalInPackets ==
  ASSUME BoardInv, InPackets(fifo), Arrive
  PROVE  InPackets(fifo')
<1>1. /\ Len(fifo) \in Nat /\ Len(fifo') \in Nat
      /\ Len(fifo') <= Len(fifo) + PacketSize
      /\ label \in 0..Labels - 1
  <2>1. Len(fifo) \in Nat /\ Len(fifo) <= FifoSize /\ label \in 0..Labels - 1
    BY DEF BoardInv, SensorTypeOK
  <2>2. Len(fifo') = IF Len(fifo) + PacketSize <= FifoSize
                     THEN Len(fifo) + PacketSize ELSE FifoSize
    BY ArrivalInFifo
  <2> QED
    BY <2>1, <2>2, Sizes
<1>2. \A e \in 0..Len(fifo') - 1 :
        FromEnd(fifo', e) = IF e < PacketSize
                            THEN <<label, PacketSize - e>>
                            ELSE FromEnd(fifo, e - PacketSize)
  BY ArrivalInFifo
<1>3. ASSUME NEW c \in Nat, NEW j \in 0..PacketSize - 1,
             c % PacketSize = 0, c + j < Len(fifo')
      PROVE  /\ FromEnd(fifo', c)[1] \in 0..Labels - 1
             /\ FromEnd(fifo', c + j) = <<FromEnd(fifo', c)[1], PacketSize - j>>
  <2>1. c \in 0..Len(fifo') - 1 /\ c + j \in 0..Len(fifo') - 1
    BY <1>1, <1>3, Sizes
  <2>2. CASE c = 0
    <3>1. FromEnd(fifo', c) = <<label, PacketSize - c>>
      BY <1>2, <2>1, <2>2, Sizes
    <3>2. FromEnd(fifo', c + j) = <<label, PacketSize - j>>
      BY <1>2, <2>1, <2>2, Sizes
    <3> QED
      BY <1>1, <3>1, <3>2
  <2>3. CASE c # 0
    <3>1. c >= PacketSize
      <4>1. 0 % PacketSize = 0
        BY SmallRemainder, Sizes
      <4> QED
        BY <1>3, <2>3, <4>1, MultiplesApart, Sizes
    <3> DEFINE b == c - PacketSize
    <3>2. b \in Nat /\ b + PacketSize = c
      BY <3>1, Sizes
    <3>3. b % PacketSize = 0
      <4> HIDE DEF b
      <4> QED
        BY <1>3, <3>2, OnceAround, Sizes
    <3>4. FromEnd(fifo', c) = FromEnd(fifo, b)
      BY <1>2, <2>1, <3>1, Sizes
    <3>5. FromEnd(fifo', c + j) = FromEnd(fifo, b + j)
      <4>1. ~(c + j < PacketSize) /\ c + j - PacketSize = b + j
        BY <3>1, Sizes
      <4> DEFINE e == c + j
      <4> HIDE DEF b
      <4>2. /\ e \in 0..Len(fifo') - 1 /\ ~(e < PacketSize)
            /\ e - PacketSize = b + j
        BY <2>1, <4>1, Sizes
      <4> HIDE DEF e
      <4>3. FromEnd(fifo', e) = FromEnd(fifo, e - PacketSize)
        BY <1>2, <4>2
      <4> QED
        BY <4>2, <4>3 DEF e
    <3>6. b + j < Len(fifo)
      BY <1>1, <1>3, Sizes
    <3> HIDE DEF b
    <3> QED
      BY <3>2, <3>3, <3>4, <3>5, <3>6 DEF InPackets
  <2> QED
    BY <2>2, <2>3
<1> QED
  BY <1>3 DEF InPackets

\* A FIFO that holds whole packets begins with one.
LEMMA WholeBegins ==
  ASSUME NEW q \in Seq(Bytes), InPackets(q),
         Len(q) % PacketSize = 0, PacketSize <= Len(q)
  PROVE  \E k \in 0..Labels - 1 : \A i \in 1..PacketSize : q[i] = <<k, i>>
<1> DEFINE c == Len(q) - PacketSize
           k == FromEnd(q, c)[1]
<1>1. Len(q) \in Nat
  OBVIOUS
<1>2. c \in Nat /\ c + PacketSize = Len(q)
  BY <1>1, Sizes
<1>3. c % PacketSize = 0
  <2> HIDE DEF c
  <2> QED
    BY <1>2, OnceAround, Sizes
<1> HIDE DEF c
<1>4. k \in 0..Labels - 1
  <2>1. 0 \in 0..PacketSize - 1 /\ c + 0 < Len(q)
    BY <1>1, <1>2, Sizes
  <2> QED
    BY <1>2, <1>3, <2>1 DEF InPackets
<1>5. ASSUME NEW i \in 1..PacketSize
      PROVE  q[i] = <<k, i>>
  <2>1. /\ PacketSize - i \in 0..PacketSize - 1 /\ c + (PacketSize - i) < Len(q)
        /\ Len(q) - (c + (PacketSize - i)) = i
        /\ PacketSize - (PacketSize - i) = i
    BY <1>1, <1>2, Sizes
  <2>2. FromEnd(q, c + (PacketSize - i)) = <<k, PacketSize - (PacketSize - i)>>
    BY <1>2, <1>3, <2>1 DEF InPackets
  <2>3. FromEnd(q, c + (PacketSize - i)) = q[i]
    BY <2>1 DEF FromEnd
  <2> QED
    BY <2>1, <2>2, <2>3
<1> QED
  BY <1>4, <1>5

-----------------------------------------------------------------------------
(* The FIFO and the driver's account of it, one conjunct for each stage of *)
(* reading a sample.                                                       *)

(* The bytes that came after the count was latched, at most.               *)
Late == IF arrived THEN PacketSize ELSE 0

(* The FIFO begins with a packet, or has lost the beginning of one and is  *)
(* so full that the driver will ask for the overflow bit, which is set.    *)
Whole == Len(fifo) % PacketSize = 0
Excused(n) == overflow /\ Len(fifo) > Half + n

(* The old samples that are still to be expected: two for an overflow bit  *)
(* that is set (a torn packet before the reset, and the reset), two for a  *)
(* packet that has lost its beginning, one for too few bytes.              *)
Bit == IF overflow THEN 2 ELSE 0
Mis == IF Whole THEN 0 ELSE 2
Short(n) == IF n < PacketSize THEN 1 ELSE 0
Expected(n) == dmp_on => n <= spare

AtRest ==
  imuPc \in {"idle", "done"} =>
    /\ check_sensor_int_flag \/ Len(fifo) < 2 * PacketSize
    /\ Whole \/ Excused(0)
    /\ Expected(Bit + Mis
                + IF check_sensor_int_flag THEN Short(Len(fifo)) ELSE 0)

(* The count c the sensor answered, with its first byte.                   *)
Latched(c) ==
  /\ \A i \in 1..Len(onBus) : onBus[i] = <<0, c>>
  /\ c <= Len(fifo) /\ Len(fifo) <= c + Late
  /\ int_pin => Len(fifo) >= PacketSize
  /\ Whole \/ (Excused(0) /\ c > Half)
  /\ Expected(Bit + Mis + Short(c))

Counting ==
  imuPc = "count" =>
    IF onBus = <<>>
    THEN (Whole \/ Excused(0)) /\ Expected(Bit + Mis + Short(Len(fifo)))
    ELSE \E c \in 0..FifoSize : Latched(c)

Checking ==
  imuPc = "status" =>
    /\ fifo_count > Half
    /\ fifo_count <= Len(fifo) /\ Len(fifo) <= fifo_count + Late
    /\ onBus = <<>> => (Whole \/ Excused(0)) /\ Expected(Bit + Mis)
    /\ onBus # <<>> =>
         \/ onBus[1] = <<0, 1>> /\ Expected(2 + Bit)
         \/ /\ onBus[1] = <<0, 0>>
            /\ Whole \/ Excused(PacketSize)
            /\ Expected(Bit + Mis)

(* What was read of a packet, and what is still to be read of it, is one.  *)
Clean ==
  \E k \in 0..Labels - 1 :
    /\ \A i \in 1..Len(onBus) : onBus[i] = <<k, i>>
    /\ \A i \in Len(onBus) + 1..PacketSize : fifo[i - Len(onBus)] = <<k, i>>

(* What follows that packet begins with one too.                           *)
Aligned == (Len(fifo) + Len(onBus)) % PacketSize = 0
Spoilt == IF Clean /\ Aligned THEN 0 ELSE 2

Fetching ==
  imuPc = "data" =>
    /\ fifo_count >= PacketSize
    /\ fifo_count <= Len(fifo) + Len(onBus)
    /\ Len(fifo) + Len(onBus) <= fifo_count + Late
    /\ int_pin => Len(fifo) >= PacketSize
    /\ Aligned \/ Excused(PacketSize - Len(onBus))
    /\ Expected(Bit + Spoilt)

Resetting ==
  imuPc = "reset" =>
    /\ Len(onBus) = 2 => Len(fifo) \in {0, Late}
    /\ Expected(2 + Bit)

FifoTypeOK ==
  /\ sensor_fifo_count \in Nat /\ fifo_count \in Nat /\ spare \in Int
  /\ arrived \in BOOLEAN /\ dmp_on \in BOOLEAN

FifoInv ==
  /\ FifoTypeOK /\ InPackets(fifo)
  /\ AtRest /\ Counting /\ Checking /\ Fetching /\ Resetting

-----------------------------------------------------------------------------
LEMMA FifoNumbers ==
  ASSUME BoardInv, FifoInv
  PROVE  /\ fifo \in Seq(Bytes) /\ Len(fifo) \in 0..FifoSize
         /\ onBus \in Seq(Bytes) /\ Len(onBus) \in Nat
         /\ overflow \in BOOLEAN /\ int_pin \in BOOLEAN
         /\ Late \in {0, PacketSize} /\ Bit \in {0, 2} /\ Mis \in {0, 2}
         /\ spare \in Int /\ fifo_count \in Nat /\ sensor_fifo_count \in Nat
BY Sizes DEF BoardInv, TwiInv, TwiTypeOK, SensorTypeOK, FifoInv, FifoTypeOK,
   Late, Bit, Mis

\* Where the driver is when it waits for something, only that stage counts.
LEMMA FifoSense ==
  ASSUME BoardInv, FifoInv, Sense
  PROVE  FifoInv'
<1>1. /\ imuPc = "idle" /\ check_sensor_int_flag
      /\ imuPc' = "count" /\ onBus' = <<>> /\ dmp_on' \in BOOLEAN
      /\ arrived' = FALSE /\ UNCHANGED <<sensor_fifo_count, fifo_count>>
  BY DEF Sense, ReadSample, StartRead
<1>2. CASE UNCHANGED <<fifo, overflow, int_pin, spare, dmp_on>>
  <2>1. (Whole \/ Excused(0)) /\ Expected(Bit + Mis + Short(Len(fifo)))
    BY <1>1 DEF FifoInv, AtRest
  <2>2. Counting'
    BY <1>1, <1>2, <2>1
       DEF Counting, Whole, Excused, Expected, Bit, Mis, Short
  <2> QED
    BY <1>1, <1>2, <2>2
       DEF FifoInv, FifoTypeOK, InPackets, FromEnd, AtRest, Checking,
           Fetching, Resetting
<1>3. CASE fifo' = <<>> /\ overflow' = FALSE /\ spare' = 1
  <2>1. Len(fifo') = 0 /\ 0 % PacketSize = 0
    BY <1>3, SmallRemainder, Sizes
  <2>2. Counting'
    BY <1>1, <1>3, <2>1
       DEF Counting, Whole, Excused, Expected, Bit, Mis, Short
  <2>3. InPackets(fifo')
    BY <1>3, EmptyInPackets
  <2>4. FifoTypeOK'
    <3>1. spare' \in Int
      BY <1>3
    <3> QED
      BY <1>1, <3>1 DEF FifoInv, FifoTypeOK
  <2> QED
    BY <1>1, <2>2, <2>3, <2>4
       DEF FifoInv, AtRest, Checking, Fetching, Resetting
<1>4. \/ UNCHANGED <<fifo, overflow, int_pin, spare, dmp_on>>
      \/ fifo' = <<>> /\ overflow' = FALSE /\ spare' = 1
  BY DEF Sense, ReadSample, FifoInv, FifoTypeOK
<1> QED
  BY <1>2, <1>3, <1>4

LEMMA FifoKept ==
  ASSUME FifoInv,
         UNCHANGED <<fifo, overflow, int_pin, arrived, dmp_on, spare, onBus,
                     imuPc, sensor_fifo_count, fifo_count>>
  PROVE  FifoInv'
<1>1. /\ UNCHANGED <<fifo, overflow, int_pin, arrived, dmp_on, spare, onBus>>
      /\ UNCHANGED <<imuPc, sensor_fifo_count, fifo_count>>
  OBVIOUS
<1>2. /\ Whole' = Whole /\ Late' = Late /\ Bit' = Bit /\ Mis' = Mis
      /\ \A n : /\ Excused(n)' = Excused(n) /\ Expected(n)' = Expected(n)
                /\ Short(n)' = Short(n)
  BY <1>1 DEF Whole, Excused, Expected, Late, Bit, Mis, Short
<1>3. FifoTypeOK' /\ InPackets(fifo')
  BY <1>1 DEF FifoInv, FifoTypeOK
<1>4. AtRest'
  BY <1>1, <1>2 DEF FifoInv, AtRest, check_sensor_int_flag
<1>5. Counting'
  BY <1>1, <1>2 DEF FifoInv, Counting, Latched
<1>6. Checking'
  BY <1>1, <1>2 DEF FifoInv, Checking
<1>7. Fetching'
  BY <1>1, <1>2 DEF FifoInv, Fetching, Clean, Aligned, Spoilt
<1>8. Resetting'
  BY <1>1, <1>2 DEF FifoInv, Resetting
<1> QED
  BY <1>3, <1>4, <1>5, <1>6, <1>7, <1>8 DEF FifoInv

LEMMA FifoControl ==
  ASSUME FifoInv, Control
  PROVE  FifoInv'
<1>1. /\ imuPc = "done" /\ imuPc' = "idle" /\ arrived' = FALSE
      /\ UNCHANGED <<sensor, dmp_on, sensor_fifo_count, fifo_count, spare>>
  BY DEF Control
<1>2. AtRest'
  BY <1>1 DEF FifoInv, AtRest, Whole, Excused, Expected, Bit, Mis, Short,
     check_sensor_int_flag, sensor
<1> QED
  BY <1>1, <1>2 DEF FifoInv, FifoTypeOK, InPackets, FromEnd, Counting, Checking,
     Fetching, Resetting, sensor

\* The state after initialization.
LEMMA FifoStarts ==
  ASSUME fifo = <<>>, overflow = FALSE, int_pin = FALSE, arrived = FALSE,
         dmp_on = TRUE, sensor_fifo_count = 0, fifo_count = 0,
         imuPc = "idle", spare = 0
  PROVE  FifoInv
<1>1. Len(fifo) = 0 /\ 0 % PacketSize = 0 /\ InPackets(fifo)
  BY SmallRemainder, EmptyInPackets, Sizes
<1>2. AtRest
  BY <1>1, Sizes DEF AtRest, Whole, Excused, Expected, Bit, Mis, Short,
     check_sensor_int_flag
<1>3. spare \in Int /\ sensor_fifo_count \in Nat /\ fifo_count \in Nat
  OBVIOUS
<1> QED
  BY <1>1, <1>2, <1>3
     DEF FifoInv, FifoTypeOK, Counting, Checking, Fetching, Resetting

LEMMA FifoRestarts ==
  ASSUME Rebooted
  PROVE  FifoInv'
<1>1. /\ fifo' = <<>> /\ overflow' = FALSE /\ int_pin' = FALSE
      /\ arrived' = FALSE /\ dmp_on' = TRUE /\ sensor_fifo_count' = 0
      /\ fifo_count' = 0 /\ imuPc' = "idle" /\ spare' = 0
  BY DEF Rebooted
<1>2. Len(fifo') = 0 /\ 0 % PacketSize = 0 /\ InPackets(fifo')
  BY <1>1, SmallRemainder, EmptyInPackets, Sizes
<1>3. AtRest'
  BY <1>1, <1>2, Sizes DEF AtRest, Whole, Excused, Expected, Bit, Mis, Short,
     check_sensor_int_flag
<1>4. FifoTypeOK'
  <2>1. spare' \in Int /\ sensor_fifo_count' \in Nat /\ fifo_count' \in Nat
    BY <1>1
  <2> QED
    BY <1>1, <2>1 DEF FifoTypeOK
<1> QED
  BY <1>1, <1>2, <1>3, <1>4
     DEF FifoInv, Counting, Checking, Fetching, Resetting

\* A packet arrives.  There is room for it, and nothing changes but that the
\* FIFO grows by it; or there is not, and the FIFO is full, the overflow bit
\* set and spare full again.
LEMMA FifoArrive ==
  ASSUME BoardInv, FifoInv, Arrive
  PROVE  FifoInv'
<1> DEFINE room == Len(fifo) + PacketSize <= FifoSize
<1>1. /\ imuPc \in {"idle", "done"} \/ arrived = FALSE
      /\ arrived' = (imuPc \notin {"idle", "done"}) /\ int_pin' = TRUE
      /\ UNCHANGED <<onBus, dmp_on, sensor_fifo_count, fifo_count, imuPc>>
  BY DEF Arrive, twiVars, FifoInv, FifoTypeOK
<1>2. /\ fifo \in Seq(Bytes) /\ Len(fifo) \in 0..FifoSize
      /\ onBus \in Seq(Bytes) /\ Len(onBus) \in Nat
      /\ overflow \in BOOLEAN /\ spare \in Int /\ Mis \in {0, 2}
  BY FifoNumbers
<1>3. /\ Len(fifo') = IF room THEN Len(fifo) + PacketSize ELSE FifoSize
      /\ overflow' = (overflow \/ ~room)
      /\ spare' = IF room THEN spare ELSE 4
      /\ room => \A i \in 1..Len(fifo) : fifo'[i] = fifo[i]
  BY ArrivalInFifo
<1>4. InPackets(fifo')
  BY ArrivalInPackets DEF FifoInv
<1>5. FifoTypeOK'
  BY <1>1, <1>2, <1>3 DEF FifoInv, FifoTypeOK
<1>6. Mis' \in {0, 2}
  BY DEF Mis
<1> HIDE DEF room
<1>7. CASE room
  <2>1. Len(fifo') = Len(fifo) + PacketSize /\ overflow' = overflow
        /\ spare' = spare /\ Bit' = Bit
    BY <1>2, <1>3, <1>7 DEF Bit
  <2>2. Whole' = Whole /\ Mis' = Mis
    <3>1. (Len(fifo) + PacketSize) % PacketSize = Len(fifo) % PacketSize
      <4>1. Len(fifo) \in Nat
        BY <1>2
      <4> QED
        BY <4>1, OnceAround, Sizes
    <3> QED
      BY <2>1, <3>1 DEF Whole, Mis
  <2>3. \A n \in Int : Excused(n) => Excused(n)'
    BY <1>2, <2>1, Sizes DEF Excused
  <2>4. \A n : Expected(n)' = Expected(n)
    BY <1>1, <2>1 DEF Expected
  <2>5. AtRest'
    BY <1>1, <1>2, <2>1, <2>2, <2>3, <2>4, Sizes
       DEF FifoInv, AtRest, check_sensor_int_flag, Short, Bit, Expected
  <2>6. Counting'
    <3> SUFFICES ASSUME imuPc = "count" PROVE Counting'
      BY <1>1 DEF Counting
    <3>1. Counting /\ Late = 0 /\ Late' = PacketSize
      BY <1>1 DEF FifoInv, Late
    <3>2. CASE onBus = <<>>
      <4>1. (Whole \/ Excused(0)) /\ Expected(Bit + Mis + Short(Len(fifo)))
        BY <3>1, <3>2 DEF Counting
      <4>2. dmp_on' => Bit' + Mis' + Short(Len(fifo')) <= spare'
        <5>1. Short(Len(fifo')) = 0 /\ Short(Len(fifo)) \in {0, 1}
          BY <1>2, <2>1, Sizes DEF Short
        <5> QED
          BY <1>1, <1>2, <2>1, <2>2, <4>1, <5>1, FifoNumbers DEF Expected
      <4>3. Whole' \/ Excused(0)'
        BY <2>2, <2>3, <4>1
      <4> QED
        BY <1>1, <3>2, <4>2, <4>3 DEF Counting, Expected
    <3>3. CASE onBus # <<>>
      <4>1. PICK c \in 0..FifoSize : Latched(c)
        BY <3>1, <3>3 DEF Counting
      <4>2. c <= Len(fifo') /\ Len(fifo') <= c + Late'
            /\ Len(fifo') >= PacketSize
        BY <1>2, <2>1, <3>1, <4>1, Sizes DEF Latched
      <4>3. Latched(c)'
        BY <1>1, <2>1, <2>2, <2>3, <2>4, <4>1, <4>2 DEF Latched
      <4> QED
        BY <1>1, <3>3, <4>3 DEF Counting
    <3> QED
      BY <3>2, <3>3
  <2>7. Checking'
    <3> SUFFICES ASSUME imuPc = "status" PROVE Checking'
      BY <1>1 DEF Checking
    <3>1. Checking /\ Late = 0 /\ Late' = PacketSize
      BY <1>1 DEF FifoInv, Late
    <3>2. fifo_count <= Len(fifo') /\ Len(fifo') <= fifo_count + Late'
      BY <1>2, <2>1, <3>1, FifoNumbers, Sizes DEF Checking
    <3>3. PacketSize \in Int /\ 0 \in Int
      BY Sizes
    <3> QED
      BY <1>1, <2>1, <2>2, <2>3, <2>4, <3>1, <3>2, <3>3 DEF Checking
  <2>8. Fetching'
    <3> SUFFICES ASSUME imuPc = "data" PROVE Fetching'
      BY <1>1 DEF Fetching
    <3>1. Fetching /\ Late = 0 /\ Late' = PacketSize
      BY <1>1 DEF FifoInv, Late
    <3> DEFINE n == Len(fifo) + Len(onBus)
    <3>2. /\ Len(fifo') + Len(onBus') = n + PacketSize
          /\ n \in Nat /\ fifo_count \in Nat
      BY <1>1, <1>2, <2>1, FifoNumbers, Sizes
    <3>3. (n + PacketSize) % PacketSize = n % PacketSize
      BY <3>2, OnceAround, Sizes
    <3>4. fifo_count >= PacketSize /\ fifo_count = n
      BY <3>1, <3>2 DEF Fetching
    <3>5. Clean => Clean'
      <4> SUFFICES ASSUME NEW k \in 0..Labels - 1,
                          \A i \in 1..Len(onBus) : onBus[i] = <<k, i>>,
                          \A i \in Len(onBus) + 1..PacketSize :
                            fifo[i - Len(onBus)] = <<k, i>>
                   PROVE  Clean'
        BY DEF Clean
      <4>1. ASSUME NEW i \in Len(onBus) + 1..PacketSize
            PROVE  fifo'[i - Len(onBus)] = <<k, i>>
        <5>1. i - Len(onBus) \in 1..Len(fifo)
          BY <1>2, <3>2, <3>4, Sizes
        <5> QED
          BY <1>3, <1>7, <5>1
      <4> QED
        BY <1>1, <4>1 DEF Clean
    <3>7. n % PacketSize = 0 \/ Excused(PacketSize - Len(onBus))
      BY <3>1 DEF Fetching, Aligned
    <3>11. Aligned' = Aligned
      <4> HIDE DEF n
      <4>1. Aligned = (n % PacketSize = 0)
        BY DEF Aligned, n
      <4> QED
        BY <3>2, <3>3, <4>1 DEF Aligned
    <3>6. dmp_on' => Bit' + Spoilt' <= spare'
      BY <1>1, <1>2, <2>1, <3>1, <3>5, <3>11, FifoNumbers
         DEF Fetching, Expected, Spoilt
    <3>8. Excused(PacketSize - Len(onBus)) =>
            overflow' /\ Len(fifo') > Half + (PacketSize - Len(onBus'))
      BY <1>1, <1>2, <2>1, Sizes DEF Excused
    <3>9. Len(fifo') + Len(onBus') <= fifo_count' + Late'
          /\ fifo_count' <= Len(fifo') + Len(onBus')
          /\ fifo_count' >= PacketSize /\ Len(fifo') >= PacketSize
      <4> HIDE DEF n
      <4> QED
        BY <1>1, <1>2, <2>1, <3>1, <3>2, <3>4, Sizes
    <3>10. \/ (Len(fifo') + Len(onBus')) % PacketSize = 0
           \/ overflow' /\ Len(fifo') > Half + (PacketSize - Len(onBus'))
      <4> HIDE DEF n
      <4> QED
        BY <3>2, <3>3, <3>7, <3>8
    <3> QED
      BY <3>6, <3>9, <3>10 DEF Fetching, Aligned, Excused, Expected
  <2>9. Resetting'
    <3> SUFFICES ASSUME imuPc = "reset" PROVE Resetting'
      BY <1>1 DEF Resetting
    <3>1. Resetting /\ Late = 0 /\ Late' = PacketSize
      BY <1>1 DEF FifoInv, Late
    <3>2. Len(onBus') = 2 => Len(fifo') = Late'
      BY <1>1, <1>2, <2>1, <3>1, Sizes DEF Resetting
    <3> QED
      BY <2>1, <2>4, <3>1, <3>2 DEF Resetting
  <2> QED
    BY <1>4, <1>5, <2>5, <2>6, <2>7, <2>8, <2>9 DEF FifoInv
<1>8. CASE ~room
  <2>1. /\ Len(fifo') = FifoSize /\ overflow' = TRUE /\ spare' = 4
        /\ Len(fifo) > FifoSize - PacketSize
    <3>1. ~(Len(fifo) + PacketSize <= FifoSize)
      BY <1>8 DEF room
    <3>2. Len(fifo') = FifoSize /\ overflow' = TRUE /\ spare' = 4
      BY <1>3, <1>8 DEF room
    <3> QED
      BY <1>2, <3>1, <3>2, Sizes
  <2>2. Len(fifo') > Half + PacketSize /\ Len(fifo') > Half + 0
    BY <2>1, Sizes
  <2>3. Excused(0)' /\ Excused(PacketSize)'
    BY <2>1, <2>2 DEF Excused
  <2>4. Bit' = 2 /\ Short(Len(fifo')) = 0
    BY <2>1, Sizes DEF Bit, Short
  <2>10. \A n \in 0..2 : dmp_on' => Bit' + n + 0 <= spare'
    BY <2>1, <2>4
  <2>5. AtRest'
    <3>1. Excused(0)' /\ int_pin'
      BY <1>1, <2>3
    <3>2. dmp_on' => Bit' + Mis' + Short(Len(fifo')) <= spare'
      BY <1>6, <2>4, <2>10
    <3> QED
      BY <3>1, <3>2 DEF AtRest, check_sensor_int_flag, Expected
  <2>6. Counting'
    <3> SUFFICES ASSUME imuPc = "count" PROVE Counting'
      BY <1>1 DEF Counting
    <3>1. Counting /\ Late = 0 /\ Late' = PacketSize
      BY <1>1 DEF FifoInv, Late
    <3>2. CASE onBus = <<>>
      <4>1. Excused(0)'
        BY <2>3
      <4>2. dmp_on' => Bit' + Mis' + Short(Len(fifo')) <= spare'
        BY <1>6, <2>4, <2>10
      <4> QED
        BY <1>1, <3>2, <4>1, <4>2 DEF Counting, Expected
    <3>3. CASE onBus # <<>>
      <4>1. PICK c \in 0..FifoSize : Latched(c)
        BY <3>1, <3>3 DEF Counting
      <4>2. /\ c <= Len(fifo') /\ Len(fifo') <= c + Late'
            /\ Len(fifo') >= PacketSize /\ c > Half /\ Short(c) = 0
        BY <1>2, <2>1, <3>1, <4>1, Sizes DEF Latched, Short
      <4>3. dmp_on' => Bit' + Mis' + Short(c) <= spare'
        BY <1>6, <2>4, <2>10, <4>2
      <4>4. Latched(c)'
        BY <1>1, <2>3, <4>1, <4>2, <4>3 DEF Latched, Expected
      <4> QED
        BY <1>1, <3>3, <4>4 DEF Counting
    <3> QED
      BY <3>2, <3>3
  <2>7. Checking'
    <3> SUFFICES ASSUME imuPc = "status" PROVE Checking'
      BY <1>1 DEF Checking
    <3>1. Checking /\ Late = 0 /\ Late' = PacketSize
      BY <1>1 DEF FifoInv, Late
    <3>2. fifo_count <= Len(fifo') /\ Len(fifo') <= fifo_count + Late'
      BY <1>2, <2>1, <3>1, FifoNumbers, Sizes DEF Checking
    <3>4. /\ dmp_on' => Bit' + Mis' <= spare'
          /\ dmp_on' => 2 + Bit' <= spare'
      BY <1>6, <2>4, <2>10
    <3> QED
      BY <1>1, <2>3, <3>1, <3>2, <3>4 DEF Checking, Expected
  <2>8. Fetching'
    <3> SUFFICES ASSUME imuPc = "data" PROVE Fetching'
      BY <1>1 DEF Fetching
    <3>1. Fetching /\ Late = 0 /\ Late' = PacketSize
      BY <1>1 DEF FifoInv, Late
    <3>2. /\ fifo_count <= Len(fifo') + Len(onBus')
          /\ Len(fifo') + Len(onBus') <= fifo_count + Late'
      <4>1. fifo_count = Len(fifo) + Len(onBus)
        BY <1>2, <3>1, FifoNumbers DEF Fetching
      <4> QED
        BY <1>1, <1>2, <2>1, <3>1, <4>1, Sizes
    <3>3. Len(fifo') > Half + (PacketSize - Len(onBus'))
      BY <1>1, <1>2, <2>1, <2>2, Sizes
    <3>4. dmp_on' => Bit' + Spoilt' <= spare'
      BY <2>1, <2>4 DEF Spoilt
    <3>5. Len(fifo') >= PacketSize
      BY <2>1, Sizes
    <3> QED
      BY <1>1, <2>1, <3>1, <3>2, <3>3, <3>4, <3>5
         DEF Fetching, Excused, Expected
  <2>9. Resetting'
    <3> SUFFICES ASSUME imuPc = "reset" PROVE Resetting'
      BY <1>1 DEF Resetting
    <3>1. Resetting /\ Late = 0 /\ Late' = PacketSize
      BY <1>1 DEF FifoInv, Late
    <3>2. Len(onBus') = 2 => Len(fifo') = Late'
      BY <1>1, <1>2, <2>1, <3>1, Sizes DEF Resetting
    <3>3. dmp_on' => 2 + Bit' <= spare'
      BY <2>1, <2>4
    <3> QED
      BY <3>2, <3>3 DEF Resetting, Expected
  <2> QED
    BY <1>4, <1>5, <2>5, <2>6, <2>7, <2>8, <2>9 DEF FifoInv
<1> QED
  BY <1>7, <1>8

\* What a byte from the sensor is, and what it does to the FIFO.
LEMMA SensorGives ==
  ASSUME BoardInv, FifoInv, SensorAnswers
  PROVE  /\ imuPc \in {"count", "status", "data"}
         /\ Len(onBus) < request.len
         /\ onBus' = Append(onBus, Answer) /\ onBus # onBus'
         /\ int_pin' = FALSE
         /\ UNCHANGED <<arrived, dmp_on, sensor_fifo_count, fifo_count, imuPc,
                        spare>>
         /\ Len(onBus') = Len(onBus) + 1 /\ onBus'[Len(onBus) + 1] = Answer
         /\ \A i \in 1..Len(onBus) : onBus'[i] = onBus[i]
<1>1. bus = "receiving" /\ onBus' = Append(onBus, Answer) /\ int_pin' = FALSE
      /\ UNCHANGED <<arrived, dmp_on, sensor_fifo_count, fifo_count, imuPc,
                     spare>>
  BY DEF SensorAnswers, ByteReceived
<1>2. twiPc = "receive"
  BY <1>1 DEF BoardInv, TwiInv, TwiTypeOK, Idle, Address, Resume, Transmit
<1>3. IsRead /\ left # 0 /\ left \in Nat /\ onBus = data /\ onBus \in Seq(Bytes)
  BY <1>1, <1>2 DEF BoardInv, TwiInv, TwiTypeOK, Receive
<1>4. imuPc \in {"count", "status", "data"}
  BY <1>2, <1>3 DEF BoardInv, Asked, IsRead
<1>5. Len(onBus) < request.len
  <2>1. Len(onBus) \in Nat
    BY <1>3
  <2> QED
    BY <1>3, <2>1 DEF IsRead
<1>6. /\ Len(Append(onBus, Answer)) = Len(onBus) + 1
      /\ Append(onBus, Answer)[Len(onBus) + 1] = Answer
      /\ \A i \in 1..Len(onBus) : Append(onBus, Answer)[i] = onBus[i]
  <2>1. Answer \in Bytes
    BY <1>1, AnswerByte
  <2> HIDE DEF Answer
  <2> QED
    BY <1>3, <2>1
<1>7. Len(onBus) \in Nat
  BY <1>3
<1> QED
  BY <1>1, <1>4, <1>5, <1>6, <1>7

LEMMA FifoAnswers ==
  ASSUME BoardInv, FifoInv, SensorAnswers
  PROVE  FifoInv'
<1>1. /\ imuPc \in {"count", "status", "data"}
      /\ Len(onBus) < request.len
      /\ onBus' = Append(onBus, Answer)
      /\ int_pin' = FALSE
      /\ UNCHANGED <<arrived, dmp_on, sensor_fifo_count, fifo_count, imuPc,
                     spare>>
      /\ Len(onBus') = Len(onBus) + 1 /\ onBus'[Len(onBus) + 1] = Answer
      /\ \A i \in 1..Len(onBus) : onBus'[i] = onBus[i]
  BY SensorGives
<1>2. /\ fifo \in Seq(Bytes) /\ Len(fifo) \in 0..FifoSize
      /\ onBus \in Seq(Bytes) /\ Len(onBus) \in Nat
      /\ overflow \in BOOLEAN /\ spare \in Int /\ fifo_count \in Nat
  BY FifoNumbers
<1>3. /\ overflow' = (overflow /\ request.reg # INT_STATUS)
      /\ fifo' = IF request.reg = FIFO_R_W /\ fifo # <<>> THEN Tail(fifo)
                 ELSE fifo
  BY DEF SensorAnswers
<1>4. FIFO_COUNT # INT_STATUS /\ FIFO_COUNT # FIFO_R_W /\ INT_STATUS # FIFO_R_W
  BY DEF FIFO_COUNT, INT_STATUS, FIFO_R_W
<1>5. FifoTypeOK' /\ Late' = Late /\ AtRest' /\ Resetting'
  BY <1>1 DEF FifoInv, FifoTypeOK, Late, AtRest, Resetting
<1>6. onBus' # <<>>
  BY <1>1, <1>2
<1> HIDE DEF Answer
<1>7. CASE imuPc = "count"
  <2>1. request.reg = FIFO_COUNT
    BY <1>7 DEF BoardInv, Asked, Reading
  <2>2. UNCHANGED <<fifo, overflow>>
    BY <1>2, <1>3, <1>4, <2>1
  <2>3. Checking' /\ Fetching' /\ InPackets(fifo')
    BY <1>1, <1>7, <2>2 DEF Checking, Fetching, FifoInv
  <2>4. Answer = IF onBus = <<>> THEN <<0, Len(fifo)>> ELSE onBus[1]
    BY <1>4, <2>1 DEF Answer
  <2>5. Counting
    BY DEF FifoInv
  <2>6. \E c \in 0..FifoSize : Latched(c)'
    <3>1. CASE onBus = <<>>
      <4>1. (Whole \/ Excused(0)) /\ Expected(Bit + Mis + Short(Len(fifo)))
        BY <1>7, <2>5, <3>1 DEF Counting
      <4>2. Len(onBus') = 1 /\ onBus'[1] = <<0, Len(fifo)>>
        BY <1>1, <2>4, <3>1
      <4>3. Len(fifo) \in 0..FifoSize /\ Late \in {0, PacketSize}
        BY <1>2, FifoNumbers
      <4>4. PICK n \in 0..FifoSize : n = Len(fifo)
        BY <4>3
      <4>5. n <= Len(fifo') /\ Len(fifo') <= n + Late'
        BY <1>5, <2>2, <4>3, <4>4, Sizes
      <4>6. \A i \in 1..Len(onBus') : onBus'[i] = <<0, n>>
        BY <4>2, <4>4
      <4>7. Whole' \/ (Excused(0)' /\ n > Half)
        <5>1. Excused(0) => n > Half
          BY <4>4, Sizes DEF Excused
        <5> QED
          BY <2>2, <4>1, <5>1 DEF Whole, Excused
      <4>8. Latched(n)'
        BY <1>1, <2>2, <4>1, <4>4, <4>5, <4>6, <4>7
           DEF Latched, Whole, Expected, Bit, Mis
      <4> QED
        BY <4>8
    <3>2. CASE onBus # <<>>
      <4>1. PICK c \in 0..FifoSize : Latched(c)
        BY <1>7, <2>5, <3>2 DEF Counting
      <4>2. Answer = <<0, c>>
        BY <1>2, <2>4, <3>2, <4>1 DEF Latched
      <4>3. \A i \in 1..Len(onBus') : onBus'[i] = <<0, c>>
        BY <1>1, <1>2, <4>1, <4>2 DEF Latched
      <4>4. Latched(c)'
        BY <1>1, <1>5, <2>2, <4>1, <4>3
           DEF Latched, Whole, Excused, Expected, Bit, Mis
      <4> QED
        BY <4>4
    <3> QED
      BY <3>1, <3>2
  <2> QED
    BY <1>5, <1>6, <2>3, <2>6 DEF FifoInv, Counting
<1>8. CASE imuPc = "status"
  <2>1. request.reg = INT_STATUS /\ request.len = 1
    BY <1>8 DEF BoardInv, Asked, Reading
  <2>2. fifo' = fifo /\ overflow' = FALSE /\ onBus = <<>>
    <3>1. Len(onBus) = 0
      BY <1>1, <1>2, <2>1
    <3>2. onBus = <<>>
      BY <1>2, <3>1
    <3> QED
      BY <1>3, <1>4, <2>1, <3>2
  <2>3. Counting' /\ Fetching' /\ InPackets(fifo')
    BY <1>1, <1>8, <2>2 DEF Counting, Fetching, FifoInv
  <2>4. onBus'[1] = <<0, IF overflow THEN 1 ELSE 0>>
    BY <1>1, <1>4, <2>1, <2>2 DEF Answer
  <2>5. /\ fifo_count > Half
        /\ fifo_count <= Len(fifo) /\ Len(fifo) <= fifo_count + Late
        /\ Whole \/ Excused(0)
        /\ Expected(Bit + Mis)
    BY <1>8, <2>2 DEF FifoInv, Checking
  <2>6. CASE overflow
    <3>1. dmp_on' => 2 + Bit' <= spare'
      BY <1>1, <1>2, <2>2, <2>5, <2>6, FifoNumbers DEF Expected, Bit
    <3> QED
      BY <1>1, <1>5, <1>6, <2>2, <2>3, <2>4, <2>5, <2>6, <3>1
         DEF FifoInv, Checking, Expected
  <2>7. CASE ~overflow
    <3>1. dmp_on' => Bit' + Mis' <= spare'
      BY <1>1, <1>2, <2>2, <2>5, <2>7 DEF Expected, Bit, Mis, Whole
    <3>2. Whole'
      BY <2>2, <2>5, <2>7 DEF Whole, Excused
    <3> QED
      BY <1>1, <1>5, <1>6, <2>2, <2>3, <2>4, <2>5, <2>7, <3>1, <3>2
         DEF FifoInv, Checking, Expected
  <2> QED
    BY <2>6, <2>7
<1>9. CASE imuPc = "data"
  <2>1. request.reg = FIFO_R_W /\ request.len = PacketSize
    BY <1>9 DEF BoardInv, Asked, Reading
  <2>2. Fetching
    BY DEF FifoInv
  <2>3. Len(fifo) > 0 /\ Len(onBus) + 1 <= PacketSize
    BY <1>1, <1>2, <1>9, <2>1, <2>2, Sizes DEF Fetching
  <2>4. fifo # <<>>
    BY <2>3
  <2>5. fifo' = Tail(fifo) /\ overflow' = overflow /\ Answer = Head(fifo)
    BY <1>2, <1>3, <1>4, <2>1, <2>4 DEF Answer
  <2>6. /\ Len(fifo') = Len(fifo) - 1 /\ Answer = fifo[1]
        /\ \A i \in 1..Len(fifo) - 1 : fifo'[i] = fifo[i + 1]
    BY <1>2, <2>4, <2>5
  <2>7. InPackets(fifo')
    BY <1>2, <2>4, <2>5, TailInPackets DEF FifoInv
  <2>8. Counting' /\ Checking'
    BY <1>1, <1>9 DEF Counting, Checking
  <2>9. Clean => Clean'
    <3> SUFFICES ASSUME NEW k \in 0..Labels - 1,
                        \A i \in 1..Len(onBus) : onBus[i] = <<k, i>>,
                        \A i \in Len(onBus) + 1..PacketSize :
                          fifo[i - Len(onBus)] = <<k, i>>
                 PROVE  Clean'
      BY DEF Clean
    <3>1. Answer = <<k, Len(onBus) + 1>>
      <4> DEFINE i == Len(onBus) + 1
      <4>1. i \in Len(onBus) + 1..PacketSize /\ i - Len(onBus) = 1
        BY <1>2, <2>3, Sizes
      <4> QED
        BY <2>6, <4>1
    <3>2. ASSUME NEW i \in 1..Len(onBus')
          PROVE  onBus'[i] = <<k, i>>
      BY <1>1, <1>2, <3>1
    <3>3. ASSUME NEW i \in Len(onBus') + 1..PacketSize
          PROVE  fifo'[i - Len(onBus')] = <<k, i>>
      <4>1. /\ i - Len(onBus') \in 1..Len(fifo) - 1
            /\ i - Len(onBus') + 1 = i - Len(onBus)
            /\ i \in Len(onBus) + 1..PacketSize
        BY <1>1, <1>2, <1>9, <2>2, <2>3, Sizes DEF Fetching
      <4> QED
        BY <2>6, <4>1
    <3> QED
      BY <3>2, <3>3 DEF Clean
  <2>11. Len(fifo') + Len(onBus') = Len(fifo) + Len(onBus)
    BY <1>1, <1>2, <2>6
  <2>10. dmp_on' => Bit' + Spoilt' <= spare'
    <3>1. Aligned' = Aligned
      BY <2>11 DEF Aligned
    <3>2. Bit' = Bit
      BY <2>5 DEF Bit
    <3> QED
      BY <1>1, <1>2, <1>9, <2>2, <2>9, <3>1, <3>2, FifoNumbers
         DEF Fetching, Expected, Spoilt
  <2>12. \/ (Len(fifo') + Len(onBus')) % PacketSize = 0
         \/ overflow' /\ Len(fifo') > Half + (PacketSize - Len(onBus'))
    <3>1. \/ (Len(fifo) + Len(onBus)) % PacketSize = 0
          \/ overflow /\ Len(fifo) > Half + (PacketSize - Len(onBus))
      BY <1>9, <2>2 DEF Fetching, Aligned, Excused
    <3>2. Len(fifo) > Half + (PacketSize - Len(onBus)) =>
            Len(fifo') > Half + (PacketSize - Len(onBus'))
      BY <1>1, <1>2, <2>6, Sizes
    <3> QED
      BY <2>5, <2>11, <3>1, <3>2
  <2>13. Fetching'
    BY <1>1, <1>5, <1>9, <2>2, <2>10, <2>11, <2>12
       DEF Fetching, Aligned, Expected, Excused
  <2> QED
    BY <1>5, <2>7, <2>8, <2>13 DEF FifoInv
<1> QED
  BY <1>1, <1>7, <1>8, <1>9

\* Only the byte RESET, which only ResetFifo sends, empties the FIFO.
LEMMA FifoTakes ==
  ASSUME BoardInv, FifoInv, SensorTakes
  PROVE  FifoInv'
<1>1. /\ bus = "sending"
      /\ onBus' = IF twiPc = "transmit" THEN Append(onBus, txd) ELSE onBus
      /\ fifo' = IF txd = RESET THEN <<>> ELSE fifo
      /\ UNCHANGED <<overflow, int_pin, arrived, dmp_on, sensor_fifo_count,
                     fifo_count, imuPc, spare>>
  BY DEF SensorTakes, ByteSent
<1>2. twiPc \in {"address", "transmit"}
  BY <1>1 DEF BoardInv, TwiInv, TwiTypeOK, Idle, Receive, Resume
<1>3. RESET # FIFO_COUNT /\ RESET # INT_STATUS /\ RESET # FIFO_R_W
      /\ RESET # USER_CTRL
  BY DEF RESET, FIFO_COUNT, INT_STATUS, FIFO_R_W, USER_CTRL
<1>4. CASE twiPc = "address"
  <2>1. IsRead
    BY <1>4 DEF BoardInv, TwiInv, Address
  <2>2. imuPc \in {"count", "status", "data"}
    BY <1>4, <2>1 DEF BoardInv, Asked, IsRead
  <2>3. txd \in {FIFO_COUNT, INT_STATUS, FIFO_R_W}
    BY <1>4, <2>2 DEF BoardInv, Answered, Asked, Reading
  <2>4. fifo' = fifo /\ onBus' = onBus
    BY <1>1, <1>3, <1>4, <2>3
  <2> QED
    BY <1>1, <2>4, FifoKept
<1>5. CASE twiPc = "transmit"
  <2>1. IsWrite /\ SentSoFar(Len(request.bytes) - left)
        /\ txd = Wanted[Len(request.bytes) - left + 1] /\ left \in Nat
    BY <1>1, <1>5 DEF BoardInv, TwiInv, TwiTypeOK, Transmit
  <2>2. imuPc = "reset"
    BY <1>5, <2>1 DEF BoardInv, Asked, Reading, IsWrite
  <2>3. request.reg = USER_CTRL /\ request.bytes = <<RESET>>
    BY <2>2 DEF BoardInv, Asked
  <2>4. Wanted[1] = USER_CTRL /\ Wanted[2] = RESET
    BY <2>3 DEF Wanted
  <2>5. Len(onBus) \in {0, 1} /\ txd = Wanted[Len(onBus) + 1]
    <3>1. Len(request.bytes) = 1
      BY <2>3
    <3> QED
      BY <2>1, <3>1 DEF IsWrite, SentSoFar
  <2>6. Len(onBus') = Len(onBus) + 1
    <3>1. onBus \in Seq(Bytes) /\ txd \in Bytes
      BY DEF BoardInv, TwiInv, TwiTypeOK
    <3> QED
      BY <1>1, <1>5, <3>1
  <2>7. Resetting' /\ InPackets(fifo')
    <3>1. CASE Len(onBus) = 0
      <4>1. fifo' = fifo /\ Len(onBus') = 1
        BY <1>1, <1>3, <2>4, <2>5, <2>6, <3>1
      <4> QED
        <5>1. Resetting /\ InPackets(fifo)
          BY DEF FifoInv
        <5>2. Len(onBus') # 2 /\ InPackets(fifo')
          BY <4>1, <5>1
        <5> QED
          BY <1>1, <2>2, <5>1, <5>2 DEF Resetting, Expected, Bit
    <3>2. CASE Len(onBus) = 1
      <4>1. fifo' = <<>> /\ Len(fifo') = 0
        BY <1>1, <2>4, <2>5, <3>2
      <4> QED
        BY <1>1, <2>2, <4>1, EmptyInPackets
           DEF FifoInv, Resetting, Expected, Bit
    <3> QED
      BY <2>5, <3>1, <3>2
  <2> QED
    BY <1>1, <2>2, <2>7 DEF FifoInv, FifoTypeOK, AtRest, Counting, Checking,
       Fetching
<1> QED
  BY <1>2, <1>4, <1>5

\* The steps of the bus in which the sensor takes no part.
LEMMA FifoBus ==
  ASSUME FifoInv, BusStep
  PROVE  FifoInv'
<1>1. UNCHANGED onBus
  BY DEF BusStep, TwiMain, StartReceiving, TakeByte, ResumeBus, SendNext,
     SPI0_TWI0_IRQHandler, Refused
<1> QED
  BY <1>1, FifoKept DEF BusStep, imuVars, sensor

-----------------------------------------------------------------------------
LEMMA NoNewSampleSpares ==
  ASSUME NoNewSample, spare \in Int
  PROVE  spare' \in Int /\ spare - 1 <= spare'
BY DEF NoNewSample

\* An answer to a read is what was on the bus.
LEMMA FifoAnswer ==
  ASSUME BoardInv, twiPc = "idle", imuPc \in {"count", "status", "data"}
  PROVE  data = onBus /\ onBus # <<>>
         /\ Len(onBus) = CASE imuPc = "count" -> 2
                           [] imuPc = "status" -> 1
                           [] imuPc = "data" -> PacketSize
<1>1. data = onBus /\ Len(onBus) = request.len
  BY DEF BoardInv, Answered
<1>2. request.len = CASE imuPc = "count" -> 2
                      [] imuPc = "status" -> 1
                      [] imuPc = "data" -> PacketSize
  BY DEF BoardInv, Asked, Reading
<1>3. Len(<<>>) = 0
  OBVIOUS
<1>4. request.len # 0
  BY <1>2, Sizes
<1> QED
  BY <1>1, <1>2, <1>3, <1>4

\* A packet is read whole if the FIFO begins with one.
LEMMA CleanStart ==
  ASSUME fifo' \in Seq(Bytes), InPackets(fifo'), Whole',
         Len(fifo') >= PacketSize, onBus' = <<>>
  PROVE  Clean'
<1>1. PICK k \in 0..Labels - 1 : \A i \in 1..PacketSize : fifo'[i] = <<k, i>>
  BY WholeBegins, Sizes DEF Whole
<1>2. Len(onBus') = 0
  OBVIOUS
<1>3. ASSUME NEW i \in Len(onBus') + 1..PacketSize
      PROVE  fifo'[i - Len(onBus')] = <<k, i>>
  <2>1. i \in 1..PacketSize /\ i - Len(onBus') = i
    BY <1>2, Sizes
  <2> QED
    BY <1>1, <2>1
<1> QED
  BY <1>2, <1>3 DEF Clean

LEMMA FifoGotCount ==
  ASSUME BoardInv, FifoInv, GotCount
  PROVE  FifoInv'
<1>1. /\ imuPc = "count" /\ twiPc = "idle" /\ fifo_count' = data[2][2]
      /\ UNCHANGED <<fifo, overflow, int_pin, arrived, dmp_on>>
  BY DEF GotCount, Transferred, sensor
<1>2. data = onBus /\ onBus # <<>> /\ Len(onBus) = 2
  BY <1>1, FifoAnswer
<1>3. PICK c \in 0..FifoSize : Latched(c)
  BY <1>1, <1>2 DEF FifoInv, Counting
<1>4. fifo_count' = c /\ c \in Nat
  <2>1. onBus[2] = <<0, c>>
    BY <1>2, <1>3 DEF Latched
  <2> QED
    BY <1>1, <1>2, <2>1
<1>5. /\ fifo \in Seq(Bytes) /\ Len(fifo) \in Nat /\ spare \in Int
      /\ Late \in {0, PacketSize} /\ Bit \in {0, 2} /\ Mis \in {0, 2}
      /\ sensor_fifo_count \in Nat
  BY FifoNumbers
<1>6. Late' = Late /\ Bit' = Bit /\ Mis' = Mis /\ Whole' = Whole
      /\ InPackets(fifo')
  BY <1>1 DEF FifoInv, Late, Bit, Mis, Whole
<1>7. CASE c < PacketSize
  <2>1. /\ sensor_fifo_count' = IF dmp_on THEN 0 ELSE sensor_fifo_count
        /\ NoNewSample /\ imuPc' = "done"
    BY <1>4, <1>7, Sizes DEF GotCount, NoNewSample
  <2>2. spare' \in Int /\ spare - 1 <= spare'
    BY <1>5, <2>1, NoNewSampleSpares
  <2>3. Len(fifo) < 2 * PacketSize /\ Whole
    BY <1>3, <1>4, <1>5, <1>7, Sizes DEF Latched
  <2>4. Short(c) = 1 /\ Mis = 0
    BY <1>7, <2>3 DEF Short, Mis
  <2>5. dmp_on' => ~check_sensor_int_flag' \/ Short(Len(fifo')) = 0
    BY <1>1, <1>3, <1>5, <2>1, Sizes DEF Latched, Short, check_sensor_int_flag
  <2>6. dmp_on => Bit + Mis + 1 <= spare
    BY <1>3, <2>4 DEF Latched, Expected
  <2>7. dmp_on' => (Bit' + Mis' + IF check_sensor_int_flag'
                                 THEN Short(Len(fifo')) ELSE 0) <= spare'
    BY <1>1, <1>5, <1>6, <2>2, <2>4, <2>5, <2>6
  <2>8. AtRest'
    BY <1>1, <1>6, <2>3, <2>7 DEF AtRest, Expected
  <2>9. FifoTypeOK'
    BY <1>1, <1>4, <1>5, <2>1, <2>2 DEF FifoInv, FifoTypeOK
  <2> QED
    BY <1>6, <2>1, <2>8, <2>9
       DEF FifoInv, Counting, Checking, Fetching, Resetting
<1>8. CASE c > Half
  <2>1. imuPc' = "status" /\ onBus' = <<>>
        /\ UNCHANGED <<spare, sensor_fifo_count>>
    BY <1>4, <1>8, Sizes DEF GotCount, StartRead
  <2>2. Short(c) = 0
    BY <1>4, <1>8, Sizes DEF Short
  <2>3. dmp_on => Bit + Mis <= spare
    BY <1>3, <1>5, <2>2 DEF Latched, Expected
  <2>4. Checking'
    BY <1>1, <1>3, <1>4, <1>5, <1>6, <1>8, <2>1, <2>3
       DEF Checking, Latched, Excused, Expected
  <2>5. FifoTypeOK'
    BY <1>1, <1>4, <2>1 DEF FifoInv, FifoTypeOK
  <2> QED
    BY <1>6, <2>1, <2>4, <2>5 DEF FifoInv, AtRest, Counting, Fetching, Resetting
<1>9. CASE c \in PacketSize..Half
  <2>1. imuPc' = "data" /\ onBus' = <<>> /\ Len(onBus') = 0
        /\ UNCHANGED <<spare, sensor_fifo_count>>
    BY <1>4, <1>9, Sizes DEF GotCount, ReadPacket, StartRead
  <2>2. Whole
    BY <1>3, <1>9, Sizes DEF Latched
  <2>3. /\ c <= Len(fifo) /\ Len(fifo) <= c + Late /\ c >= PacketSize
        /\ dmp_on => Bit + Mis + Short(c) <= spare
    BY <1>3, <1>9 DEF Latched, Expected
  <2>4. Clean'
    BY <1>1, <1>4, <1>5, <1>6, <2>1, <2>2, <2>3, CleanStart
  <2>6. Aligned'
    BY <1>1, <1>5, <2>1, <2>2 DEF Whole, Aligned
  <2>5. dmp_on' => Bit' + Spoilt' <= spare'
    <3>1. Short(c) = 0 /\ Spoilt' = 0
      BY <1>4, <1>9, <2>4, <2>6, Sizes DEF Short, Spoilt
    <3> QED
      BY <1>1, <1>5, <1>6, <2>1, <2>3, <3>1
  <2>7. Fetching'
    BY <1>1, <1>4, <1>5, <1>6, <2>1, <2>3, <2>5, <2>6 DEF Fetching, Expected
  <2>8. FifoTypeOK'
    BY <1>1, <1>4, <2>1 DEF FifoInv, FifoTypeOK
  <2> QED
    BY <1>6, <2>1, <2>7, <2>8 DEF FifoInv, AtRest, Counting, Checking, Resetting
<1> QED
  BY <1>4, <1>7, <1>8, <1>9, Sizes

LEMMA FifoGotStatus ==
  ASSUME BoardInv, FifoInv, GotStatus
  PROVE  FifoInv'
<1>1. /\ imuPc = "status" /\ twiPc = "idle"
      /\ UNCHANGED <<fifo, overflow, int_pin, arrived, dmp_on>>
      /\ UNCHANGED <<sensor_fifo_count, fifo_count, spare>>
  BY DEF GotStatus, Transferred, sensor, ReadPacket
<1>2. data = onBus /\ onBus # <<>>
  BY <1>1, FifoAnswer
<1>3. /\ fifo_count > Half
      /\ fifo_count <= Len(fifo) /\ Len(fifo) <= fifo_count + Late
      /\ \/ onBus[1] = <<0, 1>> /\ Expected(2 + Bit)
         \/ /\ onBus[1] = <<0, 0>>
            /\ Whole \/ Excused(PacketSize)
            /\ Expected(Bit + Mis)
  BY <1>1, <1>2 DEF FifoInv, Checking
<1>4. /\ fifo \in Seq(Bytes) /\ Len(fifo) \in Nat /\ spare \in Int
      /\ Late \in {0, PacketSize} /\ Bit \in {0, 2} /\ Mis \in {0, 2}
      /\ fifo_count \in Nat
  BY FifoNumbers
<1>5. Late' = Late /\ Bit' = Bit /\ Mis' = Mis /\ Whole' = Whole
      /\ InPackets(fifo') /\ FifoTypeOK'
  BY <1>1 DEF FifoInv, FifoTypeOK, Late, Bit, Mis, Whole
<1>6. CASE onBus[1] = <<0, 1>>
  <2>1. data[1][2] = 1
    BY <1>2, <1>6
  <2>2. onBus' = <<>> /\ imuPc' = "reset"
    BY <2>1 DEF GotStatus, ResetFifo, StartWrite
  <2>3. Len(onBus') # 2
    BY <2>2
  <2>4. Expected(2 + Bit)
    BY <1>3, <1>6
  <2>5. Resetting'
    BY <1>1, <1>5, <2>3, <2>4 DEF Resetting, Expected
  <2> QED
    BY <1>5, <2>2, <2>5 DEF FifoInv, AtRest, Counting, Checking, Fetching
<1>7. CASE onBus[1] = <<0, 0>>
  <2>1. data[1][2] = 0
    BY <1>2, <1>7
  <2>2. onBus' = <<>> /\ imuPc' = "data" /\ Len(onBus') = 0
    BY <2>1 DEF GotStatus, ReadPacket, StartRead
  <2>3. (Whole \/ Excused(PacketSize)) /\ Expected(Bit + Mis)
    BY <1>3, <1>7
  <2>4. fifo_count >= PacketSize /\ Len(fifo) >= PacketSize
    BY <1>3, <1>4, Sizes
  <2>5. Whole => Clean'
    BY <1>1, <1>4, <1>5, <2>2, <2>4, CleanStart
  <2>6. dmp_on' => Bit' + Spoilt' <= spare'
    <3>1. Whole => Aligned'
      BY <1>1, <1>4, <2>2 DEF Whole, Aligned
    <3>2. Spoilt' = 0 \/ (Spoilt' = 2 /\ Mis = 2)
      BY <2>5, <3>1 DEF Spoilt, Mis
    <3>3. dmp_on => Bit + Mis <= spare /\ Bit <= spare
      BY <1>4, <2>3 DEF Expected
    <3>4. CASE Spoilt' = 0
      BY <1>1, <1>4, <1>5, <3>3, <3>4
    <3>5. CASE Spoilt' = 2 /\ Mis = 2
      BY <1>1, <1>4, <1>5, <3>3, <3>5
    <3> QED
      BY <3>2, <3>4, <3>5
  <2>7. \/ Aligned'
        \/ overflow' /\ Len(fifo') > Half + (PacketSize - Len(onBus'))
    BY <1>1, <1>4, <2>2, <2>3, Sizes DEF Whole, Excused, Aligned
  <2>8. Fetching'
    BY <1>1, <1>3, <1>4, <1>5, <2>2, <2>4, <2>6, <2>7
       DEF Fetching, Expected, Excused
  <2> QED
    BY <1>5, <2>2, <2>8 DEF FifoInv, AtRest, Counting, Checking, Resetting
<1> QED
  BY <1>3, <1>6, <1>7

LEMMA FifoGotPacket ==
  ASSUME BoardInv, FifoInv, GotPacket
  PROVE  FifoInv'
<1>1. /\ imuPc = "data" /\ twiPc = "idle"
      /\ UNCHANGED <<fifo, overflow, int_pin, arrived, dmp_on, fifo_count>>
      /\ sensor_fifo_count' = (fifo_count \div PacketSize) - 1
  BY DEF GotPacket, Transferred, sensor
<1>2. data = onBus /\ Len(onBus) = PacketSize
  BY <1>1, FifoAnswer
<1>3. Fetching
  BY DEF FifoInv
<1>4. /\ fifo \in Seq(Bytes) /\ Len(fifo) \in Nat /\ spare \in Int
      /\ Late \in {0, PacketSize} /\ Bit \in {0, 2} /\ Mis \in {0, 2}
      /\ fifo_count \in Nat /\ onBus \in Seq(Bytes)
  BY FifoNumbers
<1>5. Late' = Late /\ Bit' = Bit /\ Mis' = Mis /\ Whole' = Whole
      /\ InPackets(fifo')
  BY <1>1 DEF FifoInv, Late, Bit, Mis, Whole
<1>6. /\ fifo_count >= PacketSize
      /\ Len(fifo) + PacketSize <= fifo_count + Late
  BY <1>1, <1>2, <1>3 DEF Fetching
<1>7. /\ sensor_fifo_count' \in Nat
      /\ sensor_fifo_count' = 0 => fifo_count < 2 * PacketSize
      /\ sensor_fifo_count' > 0 => fifo_count >= 2 * PacketSize
  <2> DEFINE x == fifo_count \div PacketSize
  <2>1. x \in Nat /\ fifo_count = PacketSize * x + (fifo_count % PacketSize)
        /\ fifo_count % PacketSize \in 0..PacketSize - 1
    BY <1>4, Division, Sizes
  <2> HIDE DEF x
  <2>2. x # 0
    BY <1>4, <1>6, <2>1, Sizes
  <2>3. x = 1 => PacketSize * x = PacketSize
    BY Sizes
  <2>4. x = 1 => fifo_count < 2 * PacketSize
    BY <1>4, <2>1, <2>3, Sizes
  <2>5. sensor_fifo_count' = x - 1
    BY <1>1 DEF x
  <2>6. x > 1 => fifo_count >= 2 * PacketSize
    <3>1. SUFFICES ASSUME x > 1 PROVE PacketSize * x >= 2 * PacketSize
      BY <1>4, <2>1, Sizes
    <3>2. PICK y \in Nat : x = y + 2
      BY <2>1, <3>1
    <3>3. PacketSize * x = PacketSize * y + 2 * PacketSize
      BY <3>2, Sizes
    <3>4. PacketSize * y \in Nat
      BY <3>2, Sizes
    <3> QED
      BY <3>3, <3>4, Sizes
  <2> QED
    BY <2>1, <2>2, <2>4, <2>5, <2>6
<1>8. CASE dmp_on /\ Torn(data)
  <2>1. onBus' = <<>> /\ imuPc' = "reset" /\ spare' = spare
    BY <1>8 DEF GotPacket, ResetFifo, StartWrite
  <2>2. ~Clean
    <3> SUFFICES ASSUME NEW k \in 0..Labels - 1,
                        \A i \in 1..Len(onBus) : onBus[i] = <<k, i>>
                 PROVE  FALSE
      BY DEF Clean
    <3>1. /\ Packet(k) \in Seq(Bytes) /\ Len(Packet(k)) = PacketSize
          /\ \A i \in 1..PacketSize : Packet(k)[i] = <<k, i>>
      BY PacketBytes DEF Packet
    <3>2. onBus = Packet(k)
      <4> DEFINE p == Packet(k)
      <4>1. /\ p \in Seq(Bytes) /\ Len(onBus) = Len(p)
            /\ \A i \in 1..Len(p) : onBus[i] = p[i]
        BY <1>2, <3>1
      <4> HIDE DEF p
      <4>2. onBus = p
        BY <1>4, <4>1, SeqEquality
      <4> QED
        BY <4>2 DEF p
    <3> QED
      BY <1>2, <1>8, <3>2 DEF Torn
  <2>3. dmp_on => Bit + 2 <= spare
    BY <1>1, <1>3, <2>2 DEF Fetching, Expected, Spoilt
  <2>4. Len(onBus') # 2
    BY <2>1
  <2>5. Resetting'
    BY <1>1, <1>4, <1>5, <2>1, <2>3, <2>4 DEF Resetting, Expected
  <2>6. FifoTypeOK'
    BY <1>1, <1>7, <2>1 DEF FifoInv, FifoTypeOK
  <2> QED
    BY <1>5, <2>1, <2>5, <2>6 DEF FifoInv, AtRest, Counting, Checking, Fetching
<1>9. CASE ~(dmp_on /\ Torn(data))
  <2>1. imuPc' = "done" /\ spare' = spare
    BY <1>9 DEF GotPacket
  <2>2. Whole \/ Excused(0)
    <3>1. \/ (Len(fifo) + PacketSize) % PacketSize = 0
          \/ overflow /\ Len(fifo) > Half + (PacketSize - PacketSize)
      BY <1>1, <1>2, <1>3 DEF Fetching, Aligned, Excused
    <3>2. (Len(fifo) + PacketSize) % PacketSize = Len(fifo) % PacketSize
      BY <1>4, OnceAround, Sizes
    <3>3. PacketSize - PacketSize = 0
      BY Sizes
    <3> QED
      BY <3>1, <3>2, <3>3 DEF Whole, Excused
  <2>3. check_sensor_int_flag' \/ Len(fifo') < 2 * PacketSize
    BY <1>1, <1>4, <1>6, <1>7, Sizes DEF check_sensor_int_flag
  <2>4. check_sensor_int_flag' /\ Whole => Short(Len(fifo)) = 0
    <3> SUFFICES ASSUME check_sensor_int_flag' PROVE Len(fifo) >= PacketSize
      BY <1>4, Sizes DEF Short
    <3>1. int_pin => Len(fifo) >= PacketSize
      BY <1>1, <1>3 DEF Fetching
    <3>2. fifo_count <= Len(fifo) + PacketSize
      BY <1>1, <1>2, <1>3 DEF Fetching
    <3>3. sensor_fifo_count' > 0 => fifo_count >= 2 * PacketSize
      BY <1>7
    <3> QED
      BY <1>1, <1>4, <1>7, <3>1, <3>2, <3>3, Sizes DEF check_sensor_int_flag
  <2>5. ASSUME dmp_on
        PROVE  Bit + Mis + (IF check_sensor_int_flag' THEN Short(Len(fifo))
                            ELSE 0) <= spare
    <3>1. Clean
      <4>1. PICK k \in 0..Labels - 1 : data = Packet(k)
        BY <1>9, <2>5 DEF Torn
      <4>2. \A i \in 1..PacketSize : onBus[i] = <<k, i>>
        BY <1>2, <4>1, PacketBytes DEF Packet
      <4>3. Len(onBus) + 1..PacketSize = {}
        BY <1>2, Sizes
      <4> QED
        BY <1>2, <4>2, <4>3 DEF Clean
    <3>2. Bit + Spoilt <= spare
      BY <1>1, <1>3, <2>5 DEF Fetching, Expected
    <3>3. Aligned = Whole
      <4>1. (Len(fifo) + PacketSize) % PacketSize = Len(fifo) % PacketSize
        BY <1>4, OnceAround, Sizes
      <4> QED
        BY <1>2, <4>1 DEF Aligned, Whole
    <3>4. Spoilt = Mis
      BY <3>1, <3>3 DEF Spoilt, Mis
    <3>5. check_sensor_int_flag' => Short(Len(fifo)) = 0
      <4>1. Excused(0) => Short(Len(fifo)) = 0
        BY <1>4, Sizes DEF Excused, Short
      <4> QED
        BY <2>2, <2>4, <4>1
    <3> QED
      BY <1>4, <3>2, <3>4, <3>5
  <2>6. Expected(Bit + Mis + IF check_sensor_int_flag
                             THEN Short(Len(fifo)) ELSE 0)'
    BY <1>1, <1>5, <2>1, <2>5 DEF Expected, Short
  <2>7. AtRest'
    BY <1>1, <1>5, <2>2, <2>3, <2>6 DEF AtRest, Excused
  <2>8. FifoTypeOK'
    BY <1>1, <1>7, <2>1 DEF FifoInv, FifoTypeOK
  <2> QED
    BY <1>5, <2>1, <2>7, <2>8
       DEF FifoInv, Counting, Checking, Fetching, Resetting
<1> QED
  BY <1>8, <1>9

LEMMA FifoResetDone ==
  ASSUME BoardInv, FifoInv, ResetDone
  PROVE  FifoInv'
<1>1. /\ imuPc = "reset" /\ twiPc = "idle" /\ imuPc' = "done" /\ NoNewSample
      /\ UNCHANGED <<fifo, overflow, int_pin, arrived, dmp_on, fifo_count>>
      /\ UNCHANGED sensor_fifo_count
  BY DEF ResetDone, Transferred, sensor, NoNewSample
<1>2. Len(onBus) = 2
  BY <1>1 DEF BoardInv, Answered
<1>3. Len(fifo) \in {0, Late} /\ Expected(2 + Bit)
  BY <1>1, <1>2 DEF FifoInv, Resetting
<1>4. /\ spare \in Int /\ Late \in {0, PacketSize} /\ Bit \in {0, 2}
      /\ Bit' = Bit
  BY <1>1, FifoNumbers DEF Bit
<1>5. spare' \in Int /\ spare - 1 <= spare'
  BY <1>1, <1>4, NoNewSampleSpares
<1>6. Len(fifo) \in {0, PacketSize}
  BY <1>3, <1>4
<1>7. Whole' /\ Mis' = 0
  <2>1. 0 % PacketSize = 0
    BY SmallRemainder, Sizes
  <2>2. PacketSize % PacketSize = 0
    <3>1. 0 + PacketSize = PacketSize
      BY Sizes
    <3>2. (0 + PacketSize) % PacketSize = 0
      BY <2>1, OnceAround, Sizes
    <3> QED
      BY <3>1, <3>2
  <2> QED
    BY <1>1, <1>6, <2>1, <2>2 DEF Whole, Mis
<1>8. Len(fifo') < 2 * PacketSize /\ Short(Len(fifo')) \in {0, 1}
  BY <1>1, <1>6, Sizes DEF Short
<1>9. dmp_on' => (Bit' + Mis' + IF check_sensor_int_flag'
                               THEN Short(Len(fifo')) ELSE 0) <= spare'
  <2>1. dmp_on => 2 + Bit <= spare
    BY <1>3 DEF Expected
  <2> QED
    <3>1. PICK t \in Int : t = spare'
      BY <1>5
    <3>2. ASSUME dmp_on' PROVE \A n \in {0, 1} : Bit + 0 + n <= t
      <4>1. 2 + Bit <= spare /\ spare - 1 <= t
        BY <1>1, <1>5, <2>1, <3>1, <3>2
      <4> QED
        BY <1>4, <4>1
    <3>3. \A n \in {0, 1} : dmp_on' => Bit' + 0 + n <= spare'
      BY <1>4, <3>1, <3>2
    <3> QED
      BY <1>7, <1>8, <3>3
<1>10. AtRest'
  BY <1>7, <1>8, <1>9 DEF AtRest, Expected
<1>11. FifoTypeOK' /\ InPackets(fifo')
  BY <1>1, <1>5 DEF FifoInv, FifoTypeOK
<1> QED
  BY <1>1, <1>10, <1>11 DEF FifoInv, Counting, Checking, Fetching, Resetting

-----------------------------------------------------------------------------
LEMMA InitFifoInv == Init => FifoInv
BY FifoStarts DEF Init, ImuInit

LEMMA StepFifoInv == BoardInv /\ FifoInv /\ [Next]_vars => FifoInv'
<1> SUFFICES ASSUME BoardInv, FifoInv, [Next]_vars PROVE FifoInv'
  OBVIOUS
<1>1. CASE Device
  BY <1>1, FifoArrive, FifoAnswers, FifoTakes DEF Device
<1>2. CASE Driver
  BY <1>2, FifoGotCount, FifoGotStatus, FifoGotPacket, FifoResetDone, FifoBus
     DEF Driver, ImuDriver
<1>3. CASE SystemReset \/ PowerFails
  BY <1>3, FifoRestarts DEF SystemReset, PowerFails
<1>4. CASE Log \/ UNCHANGED vars
  BY <1>4, FifoKept DEF Log, vars, twiVars, imuVars, sensor
<1> QED
  BY <1>1, <1>2, <1>3, <1>4, FifoSense, FifoControl DEF Next

\* The sensor and its driver keep the FIFO in step on every behaviour.
THEOREM FifoInStep == Spec => []FifoInv
<1> QED
  BY BoardInStep, InitFifoInv, StepFifoInv, PTL DEF Spec

\* No backlog is left that neither the pin nor the count of remaining packets
\* tells of.
THEOREM NoBacklogIsSilent == Spec => []NoSilentBacklog
<1>1. FifoInv => NoSilentBacklog
  BY DEF FifoInv, AtRest, NoSilentBacklog
<1> QED
  BY <1>1, FifoInStep, PTL

\* Whatever raw mode is about to read begins with a packet, or the next reading
\* resets the FIFO.
THEOREM TornNeverUnnoticed == Spec => []TornIsNoticed
<1>1. BoardInv /\ FifoInv => TornIsNoticed
  <2> SUFFICES ASSUME BoardInv, FifoInv, imuPc = "idle", fifo # <<>>,
                      Head(fifo)[2] # 1
               PROVE  overflow /\ Len(fifo) > Half
    BY DEF TornIsNoticed
  <2>1. fifo \in Seq(Bytes) /\ Len(fifo) \in Nat
    BY FifoNumbers
  <2>2. ~Whole
    <3> SUFFICES ASSUME Whole PROVE FALSE
      OBVIOUS
    <3>1. Len(fifo) > 0 /\ 0 % PacketSize = 0
      BY <2>1, SmallRemainder, Sizes
    <3>2. PacketSize <= Len(fifo)
      <4>1. 0 + PacketSize <= Len(fifo)
        BY <2>1, <3>1, MultiplesApart, Sizes DEF Whole
      <4> QED
        BY <4>1, Sizes
    <3>3. PICK k \in 0..Labels - 1 :
            \A i \in 1..PacketSize : fifo[i] = <<k, i>>
      BY <2>1, <3>2, WholeBegins DEF FifoInv, Whole
    <3>4. Head(fifo) = <<k, 1>>
      BY <2>1, <3>3, Sizes
    <3> QED
      BY <3>4
  <2>3. Excused(0)
    BY <2>2 DEF FifoInv, AtRest
  <2> QED
    BY <2>1, <2>3, Sizes DEF Excused
<1> QED
  BY <1>1, BoardInStep, FifoInStep, PTL

\* In DMP mode at most four control steps see an old sample after an overflow,
\* one after the return from raw mode, and no other does.
THEOREM RecoversInFour == Spec => []RecoversFromOverflow
<1>1. BoardInv /\ FifoInv => RecoversFromOverflow
  <2> SUFFICES ASSUME BoardInv, FifoInv, dmp_on PROVE spare >= 0
    BY DEF RecoversFromOverflow
  <2>1. spare \in Int /\ Bit \in {0, 2} /\ Mis \in {0, 2}
        /\ \A n : Short(n) \in {0, 1}
    BY FifoNumbers DEF Short
  <2>2. imuPc \in {"idle", "count", "status", "data", "reset", "done"}
    BY DEF BoardInv, Asked
  <2>3. CASE imuPc \in {"idle", "done"}
    BY <2>1, <2>3 DEF FifoInv, AtRest, Expected
  <2>4. CASE imuPc = "count"
    <3>1. \E n : Bit + Mis + Short(n) <= spare
      BY <2>4 DEF FifoInv, Counting, Latched, Expected
    <3> QED
      BY <2>1, <3>1
  <2>5. CASE imuPc = "status"
    <3>1. 2 + Bit <= spare \/ Bit + Mis <= spare
      BY <2>5 DEF FifoInv, Checking, Expected
    <3> QED
      BY <2>1, <3>1
  <2>6. CASE imuPc = "data"
    BY <2>1, <2>6 DEF FifoInv, Fetching, Expected, Spoilt
  <2>7. CASE imuPc = "reset"
    BY <2>1, <2>7 DEF FifoInv, Resetting, Expected
  <2> QED
    BY <2>2, <2>3, <2>4, <2>5, <2>6, <2>7
<1> QED
  BY <1>1, BoardInStep, FifoInStep, PTL
=============================================================================

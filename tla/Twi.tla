-------------------------------- MODULE Twi ---------------------------------
(***************************************************************************)
(* The two-wire bus (drivers/twi.c).  i2c_read and i2c_write run in the    *)
(* main thread and wait for two flags that the interrupt handler sets.     *)
(* What the bus does at the end of a byte depends on the shortcut that is  *)
(* set at that moment: it goes on, is suspended until RESUME, or stops.    *)
(* A slave that does not acknowledge raises an error event, for which the  *)
(* handler only prints: neither flag is set, and the waiting loop has no   *)
(* other way out.                                                          *)
(***************************************************************************)
EXTENDS Integers, Sequences

CONSTANTS
  Bytes,       \* what travels on the bus after the slave's address
  Registers,   \* register addresses of the slaves
  MaxLen,      \* longest transfer, 255
  MaxErrors    \* bound on the transfers the slave refuses

ASSUME TwiAssumption ==
  /\ Registers \subseteq Bytes /\ Registers # {}
  /\ MaxLen \in Nat \ {0} /\ MaxErrors \in Nat

VARIABLES
  bus,      \* "stopped", "sending", "sent", "receiving", "suspended", "failed"
  shorts,   \* what a byte boundary triggers: "none", "suspend" or "stop"
  txd, rxd, \* data registers
  events,   \* events whose interrupt is pending
  sent, read,
  twiPc,    \* "idle", "address", "receive", "resume" or "transmit"
  request,  \* arguments of the call: reg, and len or the bytes to write
  left,     \* data_length
  data,     \* the caller's buffer, as far as it is filled
  onBus,    \* history: the bytes that crossed the bus in this transfer
  errors

twiVars == <<bus, shorts, txd, rxd, events, sent, read, twiPc, request, left,
             data, onBus, errors>>
driver == <<twiPc, request, left, data>>

NoRequest == [op |-> "none"]

\* static variables of twi.c, and the registers twi_init sets.
TwiInit ==
  /\ bus = "stopped" /\ shorts = "none"
  /\ txd = (CHOOSE b \in Bytes : TRUE) /\ rxd = txd
  /\ events = {} /\ sent = FALSE /\ read = FALSE
  /\ twiPc = "idle" /\ request = NoRequest
  /\ left = 0 /\ data = <<>> /\ onBus = <<>>
  /\ errors = 0

-----------------------------------------------------------------------------
(* The main thread.  It runs only when no interrupt is pending.            *)

Waiting(pc) == twiPc = pc /\ events = {}

\* i2c_read up to "while (!sent)".
StartRead(reg, len) ==
  /\ Waiting("idle")
  /\ sent' = FALSE /\ read' = FALSE
  /\ txd' = reg /\ shorts' = "none" /\ bus' = "sending"
  /\ twiPc' = "address"
  /\ request' = [op |-> "read", reg |-> reg, len |-> len]
  /\ left' = len /\ data' = <<>> /\ onBus' = <<>>
  /\ UNCHANGED <<rxd, events, errors>>

\* i2c_write up to the first "while (!sent)".
StartWrite(reg, bytes) ==
  /\ Waiting("idle")
  /\ sent' = FALSE
  /\ txd' = reg /\ shorts' = "none" /\ bus' = "sending"
  /\ twiPc' = "transmit"
  /\ request' = [op |-> "write", reg |-> reg, bytes |-> bytes]
  /\ left' = Len(bytes) /\ data' = <<>> /\ onBus' = <<>>
  /\ UNCHANGED <<rxd, events, read, errors>>

\* Mutant: the bus is not suspended, whatever the length.
ReceiveUnsuspended ==
  /\ Waiting("address") /\ sent
  /\ sent' = FALSE
  /\ shorts' = IF left = 1 THEN "stop" ELSE "none"
  /\ bus' = "receiving"
  /\ twiPc' = "receive"
  /\ UNCHANGED <<txd, rxd, events, read, request, left, data, onBus, errors>>

\* The register address is out: choose the shortcut and start receiving.
StartReceiving ==
  /\ Waiting("address") /\ sent
  /\ sent' = FALSE
  /\ shorts' = IF left = 1 THEN "stop" ELSE "suspend"
  /\ bus' = "receiving"
  /\ twiPc' = "receive"
  /\ UNCHANGED <<txd, rxd, events, read, request, left, data, onBus, errors>>

\* Mutant: the bus is told to stop when no byte is left instead of one.
TakeByteStopLate ==
  /\ Waiting("receive") /\ read
  /\ read' = FALSE
  /\ data' = Append(data, rxd)
  /\ left' = left - 1
  /\ shorts' = IF left' = 0 THEN "stop" ELSE shorts
  /\ twiPc' = "resume"
  /\ UNCHANGED <<bus, txd, rxd, events, sent, request, onBus, errors>>

\* Take a byte; the bus is to stop after the last one.
TakeByte ==
  /\ Waiting("receive") /\ read
  /\ read' = FALSE
  /\ data' = Append(data, rxd)
  /\ left' = left - 1
  /\ shorts' = IF left' = 1 THEN "stop" ELSE shorts
  /\ twiPc' = "resume"
  /\ UNCHANGED <<bus, txd, rxd, events, sent, request, onBus, errors>>

\* Mutant: RESUME is triggered only while more than one byte is left.
ResumeUnlessLast ==
  /\ Waiting("resume")
  /\ bus' = IF bus = "suspended" /\ left > 1 THEN "receiving" ELSE bus
  /\ twiPc' = IF left = 0 THEN "idle" ELSE "receive"
  /\ UNCHANGED <<shorts, txd, rxd, events, sent, read, request, left, data,
                 onBus, errors>>

\* TASKS_RESUME, which a bus that has stopped ignores; leave the loop at 0.
ResumeBus ==
  /\ Waiting("resume")
  /\ bus' = IF bus = "suspended" THEN "receiving" ELSE bus
  /\ twiPc' = IF left = 0 THEN "idle" ELSE "receive"
  /\ UNCHANGED <<shorts, txd, rxd, events, sent, read, request, left, data,
                 onBus, errors>>

\* i2c_write: a byte is out; send the next one, or stop.
SendNext ==
  /\ Waiting("transmit") /\ sent
  /\ sent' = FALSE
  /\ IF left = 0
     THEN /\ bus' = "stopped" /\ twiPc' = "idle"
          /\ UNCHANGED <<txd, left>>
     ELSE /\ txd' = request.bytes[Len(request.bytes) - left + 1]
          /\ left' = left - 1
          /\ bus' = "sending"
          /\ UNCHANGED twiPc
  /\ UNCHANGED <<shorts, rxd, events, read, request, data, onBus, errors>>

TwiMain == StartReceiving \/ TakeByte \/ ResumeBus \/ SendNext

-----------------------------------------------------------------------------
(* The interrupt handler and the hardware.                                 *)

SPI0_TWI0_IRQHandler ==
  /\ events # {} /\ events' = {}
  /\ read' = (read \/ "RXDREADY" \in events)
  /\ sent' = (sent \/ "TXDSENT" \in events)
  /\ UNCHANGED <<bus, shorts, txd, rxd, driver, onBus, errors>>

\* The slave takes a byte.
ByteSent ==
  /\ bus = "sending" /\ bus' = "sent"
  /\ events' = events \cup {"TXDSENT"}
  /\ onBus' = IF twiPc = "transmit" THEN Append(onBus, txd) ELSE onBus
  /\ UNCHANGED <<shorts, txd, rxd, sent, read, driver, errors>>

\* The slave gives byte b.
ByteReceived(b) ==
  /\ bus = "receiving"
  /\ bus' = CASE shorts = "none" -> "receiving"
              [] shorts = "suspend" -> "suspended"
              [] shorts = "stop" -> "stopped"
  /\ rxd' = b
  /\ events' = events \cup {"RXDREADY"}
  /\ onBus' = Append(onBus, b)
  /\ UNCHANGED <<shorts, txd, sent, read, driver, errors>>

\* The slave does not acknowledge its address or a byte.
Refused ==
  /\ bus \in {"sending", "receiving"} /\ errors < MaxErrors
  /\ bus' = "failed"
  /\ events' = events \cup {"ERROR"}
  /\ errors' = errors + 1
  /\ UNCHANGED <<shorts, txd, rxd, sent, read, driver, onBus>>

-----------------------------------------------------------------------------
\* Calls of any length from any caller, to a slave that answers anything.
Call ==
  \E reg \in Registers, len \in 1..MaxLen :
    \/ StartRead(reg, len)
    \/ \E bytes \in [1..len -> Bytes] : StartWrite(reg, bytes)

TwiNext ==
  \/ twiPc = "idle" /\ Call
  \/ TwiMain
  \/ SPI0_TWI0_IRQHandler
  \/ ByteSent
  \/ \E b \in Bytes : ByteReceived(b)
  \/ Refused

TwiSpec == TwiInit /\ [][TwiNext]_twiVars

-----------------------------------------------------------------------------
(* Properties.                                                             *)

\* A call returns with the bus released and nothing left over that the next
\* call could take for its own.
BusReleased ==
  twiPc = "idle" => bus = "stopped" /\ events = {} /\ ~sent /\ ~read

\* What i2c_read returns is what the slave sent, byte for byte, and as many as
\* were asked for; what i2c_write was given is what the slave received.
TransferExact ==
  [][twiPc # "idle" /\ twiPc' = "idle" /\ request' = request =>
       IF request.op = "read"
       THEN data = onBus /\ Len(data) = request.len
       ELSE onBus = <<request.reg>> \o request.bytes]_twiVars
=============================================================================

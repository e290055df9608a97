-------------------------------- MODULE Imu ---------------------------------
(***************************************************************************)
(* Reading a sample from the motion sensor: check_sensor_int_flag,         *)
(* get_dmp_data and get_raw_sensor_data (invensense/mpu_wrapper.c), the    *)
(* FIFO functions of inv_mpu.c below them, and the choice between the two  *)
(* modes in main (in4073.c).  The sensor puts packets into a FIFO of       *)
(* bytes, raises its interrupt pin for each, and drops the oldest bytes    *)
(* when the FIFO is full.  The driver asks for the number of bytes, then   *)
(* perhaps for the overflow bit, then for a packet: each is a transfer of  *)
(* its own, and the sensor goes on in between and in the middle of it.     *)
(***************************************************************************)
EXTENDS Twi

CONSTANTS
  PacketSize,   \* 32 bytes in DMP mode, 12 in raw mode
  FifoSize,     \* 1024
  Labels        \* packets are numbered modulo Labels

VARIABLES
  fifo, overflow, int_pin,   \* the sensor
  label,         \* number of its next packet
  arrived,       \* whether a packet came while this sample is read
  dmp_on,
  sensor_fifo_count,
  fifo_count,
  imuPc,         \* "idle", "count", "status", "data", "reset" or "done"
  sample,        \* the bytes the sensor variables were last taken from
  spare          \* history: how many more control steps are excused for
                 \* seeing an old sample

sensor == <<fifo, overflow, int_pin, label>>
imuVars == <<sensor, arrived, dmp_on, sensor_fifo_count, fifo_count, imuPc,
             sample, spare>>

\* Bytes are pairs: <<packet, place in the packet>> or <<0, value>>.
FIFO_COUNT == <<0, 114>>
INT_STATUS == <<0, 58>>
FIFO_R_W == <<0, 116>>
USER_CTRL == <<0, 106>>
RESET == <<0, 4>>
ImuRegisters == {FIFO_COUNT, INT_STATUS, FIFO_R_W, USER_CTRL}

ASSUME ImuAssumption ==
  /\ PacketSize \in 2..MaxLen /\ FifoSize \in Nat /\ FifoSize > 2 * PacketSize
  /\ Labels \in Nat \ {0, 1}
  /\ ImuRegisters \subseteq Registers
  /\ {RESET} \cup ((0..Labels - 1) \X (0..FifoSize)) \subseteq Bytes

Packet(k) == [i \in 1..PacketSize |-> <<k, i>>]
Torn(bytes) == \A k \in 0..Labels - 1 : bytes # Packet(k)
Half == FifoSize \div 2

ImuInit ==
  /\ fifo = <<>> /\ overflow = FALSE /\ int_pin = FALSE /\ label = 0
  /\ arrived = FALSE
  /\ dmp_on = TRUE /\ sensor_fifo_count = 0 /\ fifo_count = 0
  /\ imuPc = "idle" /\ sample = <<>> /\ spare = 0

-----------------------------------------------------------------------------
(* The sensor.                                                             *)

\* A packet every 10 ms: at most one while a sample is read (3.2 ms), any
\* number while the main loop does something else.
Arrive ==
  /\ imuPc \in {"idle", "done"} \/ ~arrived
  /\ LET all == fifo \o Packet(label) IN
       /\ fifo' = IF Len(all) <= FifoSize THEN all
                  ELSE SubSeq(all, Len(all) - FifoSize + 1, Len(all))
       /\ overflow' = (overflow \/ Len(all) > FifoSize)
       /\ spare' = IF Len(all) > FifoSize THEN 4 ELSE spare
  /\ int_pin' = TRUE
  /\ label' = (label + 1) % Labels
  /\ arrived' = (imuPc \notin {"idle", "done"})
  /\ UNCHANGED <<twiVars, dmp_on, sensor_fifo_count, fifo_count, imuPc, sample>>

\* The answer to a read; the count is latched with its first byte.
Answer ==
  CASE request.reg = FIFO_COUNT ->
         IF onBus = <<>> THEN <<0, Len(fifo)>> ELSE onBus[1]
    [] request.reg = INT_STATUS -> <<0, IF overflow THEN 1 ELSE 0>>
    [] request.reg = FIFO_R_W -> IF fifo = <<>> THEN <<0, 0>> ELSE Head(fifo)

\* "Any MPU register will clear the interrupt."
SensorAnswers ==
  /\ ByteReceived(Answer)
  /\ int_pin' = FALSE
  /\ overflow' = (overflow /\ request.reg # INT_STATUS)
  /\ fifo' = IF request.reg = FIFO_R_W /\ fifo # <<>> THEN Tail(fifo) ELSE fifo
  /\ UNCHANGED <<label, arrived, dmp_on, sensor_fifo_count, fifo_count, imuPc,
                 sample, spare>>

\* A byte written to USER_CTRL resets the FIFO.
SensorTakes ==
  /\ ByteSent
  /\ fifo' = IF txd = RESET THEN <<>> ELSE fifo
  /\ UNCHANGED <<overflow, int_pin, label, arrived, dmp_on, sensor_fifo_count,
                 fifo_count, imuPc, sample, spare>>

-----------------------------------------------------------------------------
(* The driver.                                                             *)

check_sensor_int_flag == int_pin \/ sensor_fifo_count > 0

\* main: after a change of mode imu_init resets the sensor first.
ReadSample(raw) ==
  /\ imuPc = "idle" /\ check_sensor_int_flag
  /\ dmp_on' = ~raw
  /\ IF raw = dmp_on
     THEN fifo' = <<>> /\ overflow' = FALSE /\ int_pin' = FALSE /\ spare' = 1
     ELSE UNCHANGED <<fifo, overflow, int_pin, spare>>
  /\ StartRead(FIFO_COUNT, 2)
  /\ imuPc' = "count" /\ arrived' = FALSE
  /\ UNCHANGED <<label, sensor_fifo_count, fifo_count, sample>>

\* A transfer the driver waited for is over.
Transferred(pc) ==
  /\ imuPc = pc /\ twiPc = "idle"
  /\ UNCHANGED <<sensor, arrived, dmp_on>>

\* The control step that follows will see the old sample again.
NoNewSample ==
  /\ imuPc' = "done"
  /\ spare' = IF spare < 0 THEN spare ELSE spare - 1

\* Mutant: all that is in the FIFO is read in one go.
ReadWholeFifo ==
  /\ StartRead(FIFO_R_W, Len(fifo))
  /\ imuPc' = "data"
  /\ UNCHANGED spare

ReadPacket ==
  /\ StartRead(FIFO_R_W, PacketSize)
  /\ imuPc' = "data"
  /\ UNCHANGED spare

\* mpu_reset_fifo; between its first and its last write the FIFO is disabled.
ResetFifo ==
  /\ StartWrite(USER_CTRL, <<RESET>>)
  /\ imuPc' = "reset"

\* Mutant: an empty FIFO leaves the number of remaining packets alone.
GotCountKeepsMore ==
  /\ Transferred("count")
  /\ fifo_count' = data[2][2]
  /\ \/ fifo_count' < PacketSize /\ NoNewSample /\ UNCHANGED twiVars
     \/ fifo_count' > Half /\ StartRead(INT_STATUS, 1)
        /\ imuPc' = "status" /\ UNCHANGED spare
     \/ fifo_count' \in PacketSize..Half /\ ReadPacket
  /\ UNCHANGED <<sensor_fifo_count, sample>>

\* Mutant: the overflow bit is never asked for.
GotCountNoCheck ==
  /\ Transferred("count")
  /\ fifo_count' = data[2][2]
  /\ IF fifo_count' < PacketSize
     THEN /\ NoNewSample /\ UNCHANGED twiVars
          /\ sensor_fifo_count' = IF dmp_on THEN 0 ELSE sensor_fifo_count
     ELSE ReadPacket /\ UNCHANGED sensor_fifo_count
  /\ UNCHANGED sample

\* Too few bytes: only mpu_read_fifo_stream says that no packet remains.
GotCount ==
  /\ Transferred("count")
  /\ fifo_count' = data[2][2]
  /\ \/ /\ fifo_count' < PacketSize
        /\ sensor_fifo_count' = IF dmp_on THEN 0 ELSE sensor_fifo_count
        /\ NoNewSample /\ UNCHANGED twiVars
     \/ /\ fifo_count' > Half
        /\ StartRead(INT_STATUS, 1)
        /\ imuPc' = "status" /\ UNCHANGED <<spare, sensor_fifo_count>>
     \/ /\ fifo_count' \in PacketSize..Half
        /\ ReadPacket /\ UNCHANGED sensor_fifo_count
  /\ UNCHANGED sample

GotStatus ==
  /\ Transferred("status")
  /\ IF data[1][2] = 1 THEN ResetFifo /\ UNCHANGED spare ELSE ReadPacket
  /\ UNCHANGED <<sensor_fifo_count, fifo_count, sample>>

\* Mutant: the packets that remain are not counted.
GotPacketForgetsRest ==
  /\ Transferred("data")
  /\ sensor_fifo_count' = 0
  /\ IF dmp_on /\ Torn(data)
     THEN ResetFifo /\ UNCHANGED sample
     ELSE imuPc' = "done" /\ sample' = data /\ UNCHANGED twiVars
  /\ UNCHANGED <<fifo_count, spare>>

\* A packet was read.  In DMP mode its quaternion tells whether it is whole.
GotPacket ==
  /\ Transferred("data")
  /\ sensor_fifo_count' = (fifo_count \div PacketSize) - 1
  /\ IF dmp_on /\ Torn(data)
     THEN ResetFifo /\ UNCHANGED sample
     ELSE imuPc' = "done" /\ sample' = data /\ UNCHANGED twiVars
  /\ UNCHANGED <<fifo_count, spare>>

ResetDone ==
  /\ Transferred("reset")
  /\ NoNewSample
  /\ UNCHANGED <<twiVars, sensor_fifo_count, fifo_count, sample>>

ImuDriver == GotCount \/ GotStatus \/ GotPacket \/ ResetDone

\* Steps of the bus that the sensor does not take part in.
BusStep == (TwiMain \/ SPI0_TWI0_IRQHandler \/ Refused) /\ UNCHANGED imuVars
=============================================================================

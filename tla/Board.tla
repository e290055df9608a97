------------------------------- MODULE Board ---------------------------------
(***************************************************************************)
(* The drone's main thread between the sensor, the control law and the     *)
(* log: one pass of the loop in main (in4073.c) waits for the bus until a  *)
(* sample is read, runs the control law and writes a log record.  While it *)
(* does one of these the others wait, and the sensor goes on.              *)
(***************************************************************************)
EXTENDS Imu, FlashLog

CONSTANT MaxRestarts   \* bound on resets and power failures

ASSUME BoardAssumption == MaxRestarts \in Nat

VARIABLE restarts

vars == <<twiVars, imuVars, flashVars, restarts>>

\* main up to its loop: imu_init is over, the flash commands are to be sent.
Init == TwiInit /\ ImuInit /\ FlashInit /\ restarts = 0

-----------------------------------------------------------------------------
\* The loop finds the interrupt pin or a remaining packet.
Sense ==
  /\ commands = <<>>
  /\ \E raw \in BOOLEAN : ReadSample(raw)
  /\ UNCHANGED <<flashVars, restarts>>

\* run_filters_and_control: the control law, then log_data.
Control ==
  /\ imuPc = "done" /\ imuPc' = "idle"
  /\ LogData
  /\ arrived' = FALSE
  /\ UNCHANGED <<twiVars, sensor, dmp_on, sensor_fifo_count, fifo_count,
                 sample, spare, restarts>>

Log == SendCommand /\ UNCHANGED <<twiVars, imuVars, restarts>>

Device == (Arrive \/ SensorAnswers \/ SensorTakes)
            /\ UNCHANGED <<flashVars, restarts>>

Driver == (ImuDriver \/ BusStep) /\ UNCHANGED <<flashVars, restarts>>

\* Static variables and the sensor are initialized again.
Rebooted ==
  /\ restarts < MaxRestarts /\ restarts' = restarts + 1
  /\ bus' = "stopped" /\ shorts' = "none" /\ events' = {}
  /\ sent' = FALSE /\ read' = FALSE /\ twiPc' = "idle"
  /\ request' = NoRequest /\ left' = 0 /\ data' = <<>> /\ onBus' = <<>>
  /\ fifo' = <<>> /\ overflow' = FALSE /\ int_pin' = FALSE
  /\ arrived' = FALSE /\ dmp_on' = TRUE /\ sensor_fifo_count' = 0
  /\ fifo_count' = 0 /\ imuPc' = "idle" /\ sample' = <<>> /\ spare' = 0
  /\ UNCHANGED <<txd, rxd, errors, label>>

\* NVIC_SystemReset, between two passes of the loop.
SystemReset ==
  /\ commands = <<>> /\ imuPc = "idle"
  /\ Rebooted /\ FlashReset

PowerFails == Rebooted /\ PowerLoss

Next == Sense \/ Control \/ Log \/ Device \/ Driver \/ SystemReset
          \/ PowerFails

Fairness ==
  /\ WF_vars(Sense) /\ WF_vars(Control) /\ WF_vars(Log) /\ WF_vars(Driver)
  /\ WF_vars(Arrive /\ UNCHANGED <<flashVars, restarts>>)
  /\ WF_vars((SensorAnswers \/ SensorTakes)
               /\ UNCHANGED <<flashVars, restarts>>)

Spec == Init /\ [][Next]_vars /\ Fairness

-----------------------------------------------------------------------------
(* Properties.                                                             *)

\* The sensor is never left with two packets that neither its pin nor
\* sensor_fifo_count tells of, though every read clears the pin.
NoSilentBacklog ==
  imuPc = "idle" /\ ~check_sensor_int_flag => Len(fifo) < 2 * PacketSize

\* Raw mode cannot tell a torn packet from a whole one, so a FIFO that lost the
\* beginning of a packet must be one that the next reading will reset.
TornIsNoticed ==
  imuPc = "idle" /\ fifo # <<>> /\ Head(fifo)[2] # 1
    => overflow /\ Len(fifo) > Half

\* In DMP mode the control law sees an old sample at most four times after the
\* FIFO has overflowed, once after the return from raw mode, and not otherwise.
RecoversFromOverflow == dmp_on => spare >= 0

\* The driver uses the bus as twi.c allows: lengths within its range, one
\* transfer at a time, the answer taken as it comes.
UsesBus == [][restarts' = restarts => [TwiNext]_twiVars]_vars

\* Unless the bus fails, control steps never stop.
LoopKeepsGoing == [](errors = 0) => []<>(imuPc = "done")
=============================================================================

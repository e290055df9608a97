-------------------------------- MODULE Drone --------------------------------
(***************************************************************************)
(* The firmware's main loop (in4073.c) with the mode automaton it drives   *)
(* (control.c), the message handler (in4073_message_helper.c) and the two  *)
(* guards that take the aircraft away from the pilot: low battery and a    *)
(* silent link.                                                            *)
(*                                                                         *)
(* One iteration of the loop has three stages, each run to completion by   *)
(* the only thread: "sensor" (control tick), "rx" (at most one received    *)
(* byte) and "timer" (20 Hz housekeeping), which clears its flag in a step  *)
(* of its own ("clear").  Interrupts that matter here only set a flag or a *)
(* sample, and fall between these steps; so does time.                     *)
(*                                                                         *)
(* Abstractions: a control law is any of the motor vectors it can produce; *)
(* bytes that do not complete a valid message do nothing; the lift stick   *)
(* is "min" (-127, engines off) or "up".                                   *)
(***************************************************************************)
EXTENDS Protocol

CONSTANTS
  MinRpm, MaxRpm,  \* MIN_RPM, MAX_RPM: the clip of the flight control laws
  Step,            \* PANIC_MODE_STEP_SIZE
  MotorLimit,      \* 1000, the full scale of a motor command
  Thrusts,         \* motor vectors the clipped laws can produce
  RawThrusts,      \* motor vectors of RAW_MODE, which is not clipped
  PcModes,         \* modes the PC may request
  Gains, GainMax,  \* the P values and the bound of an increment (126)
  Timeout,         \* 1 s of silence, in periods of the 50 ms timer
  BatteryPeriod,   \* timer ticks between two battery checks (160)
  LogRecords       \* 16-byte records the flash holds before it is erased

Motors == 0..3

ASSUME MotorAssumption ==
  /\ MinRpm \in Nat /\ MaxRpm \in Nat /\ 0 < MinRpm /\ MinRpm <= MaxRpm
  /\ Step \in Nat \ {0}
  /\ MotorLimit \in Nat \ {0}
  /\ Thrusts \subseteq [Motors -> MinRpm..MaxRpm]
  /\ RawThrusts \subseteq [Motors -> Int]

ASSUME BoundAssumption ==
  /\ PcModes \subseteq Modes
  /\ GainMax \in Nat
  /\ Timeout \in Nat
  /\ BatteryPeriod \in Nat \ {0}
  /\ LogRecords \in Nat \ {0}

VARIABLES
  pc,                   \* stage of the main loop, or "goodbye" after it
  current_mode,
  ae,                   \* motor values computed by the control laws
  setpoint,             \* common target of the panic descent
  in_panic_mode,
  in_calibration_mode,
  exit_in_safe_mode,
  demo_done,
  in_raw_mode,          \* is the IMU set up for raw samples
  calibrated,           \* have the cal_ offsets been captured since boot
  liftdata,             \* last lift received
  p,                    \* the P values
  elapsed,              \* timer periods since time_last_msg, up to Timeout+1
  overdue,              \* history: ends of a period that found the link silent
                        \* for longer than that and timer_flag clear, up to 2
  timer_flag,           \* set by the 20 Hz timer, cleared by the main loop
  counter,              \* timer ticks modulo BatteryPeriod
  bat_volt,             \* last sample: "low" also before the first one (0)
  adc_busy,             \* a conversion is under way
  free_pointer,         \* next flash record
  sent                  \* what the last step put on the wire

vars == <<pc, current_mode, ae, setpoint, in_panic_mode, in_calibration_mode,
          exit_in_safe_mode, demo_done, in_raw_mode, calibrated, liftdata, p,
          elapsed, overdue, timer_flag, counter, bat_volt, adc_busy,
          free_pointer, sent>>

controlVars == <<ae, setpoint, in_panic_mode, in_calibration_mode,
                 exit_in_safe_mode, demo_done, in_raw_mode, calibrated,
                 free_pointer>>
inputVars == <<liftdata, p>>
batteryVars == <<counter, bat_volt, adc_busy>>
clockVars == <<elapsed, overdue, timer_flag>>

-----------------------------------------------------------------------------
Least(a, b) == IF a < b THEN a ELSE b
Greatest(a, b) == IF a > b THEN a ELSE b

NoThrust == [i \in Motors |-> 0]
ZeroGains == [g \in Gains |-> 0]

\* The arithmetic shift by two rounds down, also below zero.
Average(f) == (f[0] + f[1] + f[2] + f[3]) \div 4

\* One step of a motor value towards the panic setpoint.
Approach(x, target) ==
  IF x < target THEN x + Least(target - x, Step)
  ELSE x - Least(x - target, Step)

\* Pulse width a motor gets: capped by update_motors, and from below by the
\* motor timer interrupts.
Pulse(f) == [i \in Motors |-> Greatest(0, Least(f[i], MotorLimit))]

Spinning == \E i \in Motors : Pulse(ae)[i] > 0

\* A flight law at the current stick position.
Commanded(thrusts) == IF liftdata = "min" THEN {NoThrust} ELSE thrusts

-----------------------------------------------------------------------------
\* State of a firmware that has just booted: .bss is zero, the first battery
\* sample has been requested.  The lift stick reads 0, not -127.
Init ==
  /\ pc = "sensor"
  /\ current_mode = SAFE_MODE
  /\ ae = NoThrust /\ setpoint = 0
  /\ in_panic_mode = FALSE /\ in_calibration_mode = FALSE
  /\ exit_in_safe_mode = FALSE /\ demo_done = FALSE
  /\ in_raw_mode = FALSE /\ calibrated = FALSE
  /\ liftdata = "up" /\ p = ZeroGains
  /\ elapsed = 0 /\ overdue = 0 /\ timer_flag = FALSE /\ counter = 0
  /\ bat_volt = "low" /\ adc_busy = TRUE
  /\ free_pointer = 0
  /\ sent = Silence

-----------------------------------------------------------------------------
(* The control laws: what run_filters_and_control does in each mode.       *)

\* Mutant: nobody stops the motors.
SafeLawForgetsMotors ==
  /\ current_mode = SAFE_MODE
  /\ demo_done' = (demo_done \/ exit_in_safe_mode)
  /\ sent' = Silence
  /\ UNCHANGED <<current_mode, ae, setpoint, exit_in_safe_mode, calibrated>>

SafeLaw ==
  /\ current_mode = SAFE_MODE
  /\ ae' = NoThrust
  /\ demo_done' = (demo_done \/ exit_in_safe_mode)
  /\ sent' = Silence
  /\ UNCHANGED <<current_mode, setpoint, exit_in_safe_mode, calibrated>>

\* Mutant: the setpoint is lowered inside the loop over the motors.
PanicLawStepsInLoop ==
  /\ current_mode = PANIC_MODE
  /\ LET target == IF in_panic_mode THEN setpoint ELSE Average(ae)
     IN /\ ae' = [i \in Motors |-> Approach(ae[i], target - i * Step)]
        /\ setpoint' = Greatest(0, target - 4 * Step)
  /\ current_mode' = IF ae' = NoThrust THEN SAFE_MODE ELSE PANIC_MODE
  /\ sent' = Silence
  /\ UNCHANGED <<exit_in_safe_mode, demo_done, calibrated>>

\* Mutant: the descent counts as finished when its setpoint has reached zero.
PanicLawTrustsSetpoint ==
  /\ current_mode = PANIC_MODE
  /\ LET target == IF in_panic_mode THEN setpoint ELSE Average(ae)
     IN /\ ae' = [i \in Motors |-> Approach(ae[i], target)]
        /\ setpoint' = Greatest(0, target - Step)
  /\ current_mode' = IF setpoint' = 0 THEN SAFE_MODE ELSE PANIC_MODE
  /\ sent' = Silence
  /\ UNCHANGED <<exit_in_safe_mode, demo_done, calibrated>>

\* Mutant: the setpoint is taken from the motors again on every tick.
PanicLawAveragesAgain ==
  /\ current_mode = PANIC_MODE
  /\ ae' = [i \in Motors |-> Approach(ae[i], Average(ae))]
  /\ setpoint' = Greatest(0, Average(ae) - Step)
  /\ current_mode' = IF ae' = NoThrust THEN SAFE_MODE ELSE PANIC_MODE
  /\ sent' = Silence
  /\ UNCHANGED <<exit_in_safe_mode, demo_done, calibrated>>

\* Level the motors while lowering their common setpoint to zero.
PanicLaw ==
  /\ current_mode = PANIC_MODE
  /\ LET target == IF in_panic_mode THEN setpoint ELSE Average(ae)
     IN /\ ae' = [i \in Motors |-> Approach(ae[i], target)]
        /\ setpoint' = Greatest(0, target - Step)
  /\ current_mode' = IF ae' = NoThrust THEN SAFE_MODE ELSE PANIC_MODE
  /\ sent' = Silence
  /\ UNCHANGED <<exit_in_safe_mode, demo_done, calibrated>>

FlightLaw ==
  /\ \/ /\ current_mode \in FlightModes \ {RAW_MODE}
        /\ ae' \in Commanded(Thrusts)
     \/ /\ current_mode = RAW_MODE
        /\ ae' \in Commanded(RawThrusts)
  /\ sent' = Silence
  /\ UNCHANGED <<current_mode, setpoint, exit_in_safe_mode, demo_done,
                 calibrated>>

\* The offsets are captured, and reported, on the first tick in the mode.
HoldLaw ==
  /\ current_mode \in HoldModes
  /\ LET capture == current_mode = CALIBRATION_MODE /\ ~in_calibration_mode
     IN /\ calibrated' = (calibrated \/ capture)
        /\ sent' = IF capture THEN CalibrationData ELSE Silence
  /\ UNCHANGED <<current_mode, ae, setpoint, exit_in_safe_mode, demo_done>>

TerminateLaw ==
  /\ current_mode = TERMINATE_MODE
  /\ current_mode' = PANIC_MODE
  /\ exit_in_safe_mode' = TRUE
  /\ sent' = Silence
  /\ UNCHANGED <<ae, setpoint, demo_done, calibrated>>

\* Mutant: in_panic_mode is never cleared.
UpdateFlagsKeepsPanic ==
  /\ in_panic_mode' = (in_panic_mode \/ current_mode = PANIC_MODE)
  /\ in_calibration_mode' = (current_mode' = CALIBRATION_MODE)

\* in_panic_mode survives a control tick that starts in TERMINATE_MODE: the
\* mode is PANIC_MODE again by the time the flags are updated.
UpdateFlags ==
  /\ in_panic_mode' = /\ current_mode' = PANIC_MODE
                      /\ current_mode = PANIC_MODE \/ in_panic_mode
  /\ in_calibration_mode' = (current_mode' = CALIBRATION_MODE)

\* Mutant: the end of the flash is not overdue.
LogDataRunsOn == free_pointer' = free_pointer + 1

LogData == free_pointer' = (free_pointer + 1) % LogRecords

-----------------------------------------------------------------------------
(* Stages of the main loop.                                                *)

\* The IMU has data: re-initialise it if raw and DMP operation swap, read it,
\* run the control law of the mode, write one log record.
ControlTick ==
  /\ pc = "sensor"
  /\ ~demo_done
  /\ pc' = "rx"
  /\ in_raw_mode' = (current_mode = RAW_MODE)
  /\ SafeLaw \/ PanicLaw \/ FlightLaw \/ HoldLaw \/ TerminateLaw
  /\ UpdateFlags
  /\ LogData
  /\ UNCHANGED <<inputVars, clockVars, batteryVars>>

NoSensorData ==
  /\ pc = "sensor"
  /\ ~demo_done
  /\ pc' = "rx"
  /\ sent' = Silence
  /\ UNCHANGED <<current_mode, controlVars, inputVars, clockVars, batteryVars>>

\* No byte, or one that does not complete a valid message.
NoMessage ==
  /\ pc = "rx"
  /\ pc' = "timer"
  /\ sent' = Silence
  /\ UNCHANGED <<current_mode, controlVars, inputVars, clockVars, batteryVars>>

\* Every valid message restarts the silence timeout.
Receive ==
  /\ pc = "rx"
  /\ pc' = "timer"
  /\ elapsed' = 0 /\ overdue' = 0
  /\ UNCHANGED <<controlVars, timer_flag, batteryVars>>

ReceiveSetMode(m) ==
  /\ Receive
  /\ current_mode' = m
  /\ sent' = ModeUpdate(m)
  /\ UNCHANGED inputVars

ReceiveInputData(lift) ==
  /\ Receive
  /\ liftdata' = lift
  /\ sent' = Silence
  /\ UNCHANGED <<current_mode, p>>

\* An increment (the PC's are by one) stops at GainMax, a decrement at zero.
ChangedGain(v, op) ==
  IF op = "DECREMENT" THEN Greatest(0, v - 1)
  ELSE IF v < GainMax THEN v + 1 ELSE v

ReceiveSetPValues(g, op) ==
  /\ Receive
  /\ p' = [p EXCEPT ![g] = ChangedGain(p[g], op)]
  /\ sent' = PValuesUpdate(g, p'[g])
  /\ UNCHANGED <<current_mode, liftdata>>

\* Mutant: the flag is cleared in every iteration.
NoTimerFlagClears ==
  /\ pc = "timer"
  /\ ~timer_flag
  /\ pc' = "clear"
  /\ sent' = Silence
  /\ UNCHANGED <<current_mode, controlVars, inputVars, clockVars, batteryVars>>

NoTimerFlag ==
  /\ pc = "timer"
  /\ ~timer_flag
  /\ pc' = "sensor"
  /\ sent' = Silence
  /\ UNCHANGED <<current_mode, controlVars, inputVars, clockVars, batteryVars>>

\* Mutant: the battery check judges a sample nobody asked for again.
TimerTickNeverSamples ==
  /\ pc = "timer"
  /\ timer_flag
  /\ pc' = "clear"
  /\ counter' = (counter + 1) % BatteryPeriod
  /\ \E silent \in {elapsed > Timeout, elapsed >= Timeout} :
        current_mode' = IF (counter = 0 /\ bat_volt = "low") \/ silent
                        THEN PANIC_MODE ELSE current_mode
  /\ sent' = Silence
  /\ UNCHANGED <<controlVars, inputVars, clockVars, bat_volt, adc_busy>>

\* The battery check requests a sample and then judges the previous one.  The
\* silence is measured in microseconds: Timeout periods since the message may
\* be more than the second or less, depending on where in a period it came.
TimerTick ==
  /\ pc = "timer"
  /\ timer_flag
  /\ pc' = "clear"
  /\ counter' = (counter + 1) % BatteryPeriod
  /\ adc_busy' = (adc_busy \/ counter = 0)
  /\ \E silent \in {elapsed > Timeout, elapsed >= Timeout} :
        current_mode' = IF (counter = 0 /\ bat_volt = "low") \/ silent
                        THEN PANIC_MODE ELSE current_mode
  /\ sent' = Silence
  /\ UNCHANGED <<controlVars, inputVars, clockVars, bat_volt>>

\* Clears a flag set again since it was tested, too: such a period is lost.
ClearTimerFlag ==
  /\ pc = "clear"
  /\ pc' = "sensor"
  /\ timer_flag' = FALSE
  /\ sent' = Silence
  /\ UNCHANGED <<current_mode, controlVars, inputVars, elapsed, overdue,
                 batteryVars>>

\* The loop condition is only tested before a sensor stage.
LeaveLoop ==
  /\ pc = "sensor"
  /\ demo_done
  /\ pc' = "goodbye"
  /\ sent' = Terminate
  /\ UNCHANGED <<current_mode, controlVars, inputVars, clockVars, batteryVars>>

\* NVIC_SystemReset: the firmware boots again.
SystemReset ==
  /\ pc = "goodbye"
  /\ pc' = "sensor"
  /\ current_mode' = SAFE_MODE
  /\ ae' = NoThrust /\ setpoint' = 0
  /\ in_panic_mode' = FALSE /\ in_calibration_mode' = FALSE
  /\ exit_in_safe_mode' = FALSE /\ demo_done' = FALSE
  /\ in_raw_mode' = FALSE /\ calibrated' = FALSE
  /\ liftdata' = "up" /\ p' = ZeroGains
  /\ elapsed' = 0 /\ overdue' = 0 /\ timer_flag' = FALSE /\ counter' = 0
  /\ bat_volt' = "low" /\ adc_busy' = TRUE
  /\ free_pointer' = 0
  /\ sent' = Silence

-----------------------------------------------------------------------------
(* Interrupts and messages.                                                *)

\* quadrupel_timer_handler, every 50 ms.  Time does not wait for the loop: a
\* period that ends while the flag is still set leaves no trace in it.
TimePasses ==
  /\ elapsed' = Least(elapsed + 1, Timeout + 1)
  /\ overdue' = IF timer_flag \/ elapsed < Timeout THEN overdue
                ELSE Least(overdue + 1, 2)
  /\ timer_flag' = TRUE
  /\ sent' = Silence
  /\ UNCHANGED <<pc, current_mode, controlVars, inputVars, batteryVars>>

AdcInterrupt ==
  /\ adc_busy
  /\ adc_busy' = FALSE
  /\ bat_volt' \in {"ok", "low"}
  /\ sent' = Silence
  /\ UNCHANGED <<pc, current_mode, controlVars, inputVars, clockVars, counter>>

ReceiveMessage ==
  \/ \E m \in PcModes : ReceiveSetMode(m)
  \/ \E lift \in {"min", "up"} : ReceiveInputData(lift)
  \/ \E g \in Gains, op \in {"INCREMENT", "DECREMENT"} :
        ReceiveSetPValues(g, op)

SensorStage == ControlTick \/ NoSensorData \/ LeaveLoop
RxStage == NoMessage \/ ReceiveMessage
TimerStage == NoTimerFlag \/ TimerTick \/ ClearTimerFlag

Next ==
  \/ SensorStage \/ RxStage \/ TimerStage \/ SystemReset
  \/ TimePasses \/ AdcInterrupt

\* The loop never blocks for good; the IMU keeps signalling, so a loop that
\* polls it for ever sees it for ever; time passes and a started conversion
\* completes.  Nothing is assumed of the pilot, the link or the battery.
Fairness ==
  /\ WF_vars(SensorStage \/ RxStage \/ TimerStage \/ SystemReset)
  /\ SF_vars(ControlTick)
  /\ WF_vars(TimePasses)
  /\ WF_vars(AdcInterrupt)

Spec == Init /\ [][Next]_vars
FairSpec == Spec /\ Fairness

-----------------------------------------------------------------------------
(* Properties.                                                             *)

\* Every variable keeps its type, and the flash pointer stays within the chip.
TypeOK ==
  /\ pc \in {"sensor", "rx", "timer", "clear", "goodbye"}
  /\ current_mode \in Modes
  /\ ae \in [Motors -> Int]
  /\ setpoint \in Int
  /\ in_panic_mode \in BOOLEAN
  /\ in_calibration_mode \in BOOLEAN
  /\ exit_in_safe_mode \in BOOLEAN
  /\ demo_done \in BOOLEAN
  /\ in_raw_mode \in BOOLEAN
  /\ calibrated \in BOOLEAN
  /\ liftdata \in {"min", "up"}
  /\ p \in [Gains -> 0..GainMax]
  /\ elapsed \in 0..Timeout + 1
  /\ overdue \in 0..2
  /\ timer_flag \in BOOLEAN
  /\ counter \in 0..BatteryPeriod - 1
  /\ bat_volt \in {"ok", "low"}
  /\ adc_busy \in BOOLEAN
  /\ free_pointer \in 0..LogRecords - 1

\* The main loop ends, and the processor resets, only with every motor
\* stopped and only after a terminate request was obeyed - although messages
\* and both guards are still processed after demo_done is set.
ShutdownLanded ==
  demo_done \/ pc = "goodbye" => ~Spinning /\ exit_in_safe_mode

\* A flight law may run on a silent link only until the loop looks at the
\* clock again: once the silence has lasted one timer period longer than the
\* timeout, the drone descends or is down.  Periods that met a flag still set,
\* while the loop was held up, do not count.  A message, however late, gives
\* control back to the mode that is in force.
NoFlightOnSilentLink ==
  overdue = 2 => current_mode \in {PANIC_MODE, SAFE_MODE}

\* Largest motor value, never below a stopped motor.
Peak(f) == Greatest(0, Greatest(Greatest(f[0], f[1]), Greatest(f[2], f[3])))

Spread(f) == Greatest(Greatest(f[0], f[1]), Greatest(f[2], f[3]))
             - Least(Least(f[0], f[1]), Least(f[2], f[3]))

\* A panic tick may speed up a slow motor to level the aircraft, but never
\* beyond the fastest one, however panic was entered, left and re-entered.
PanicNeverSpeedsUp ==
  [][PanicLaw /\ ControlTick => Peak(ae') <= Peak(ae)]_vars

\* A panic tick never widens the gap between two motors: levelling does not
\* make the aircraft tilt more.
PanicLevels ==
  [][PanicLaw /\ ControlTick => Spread(ae') <= Spread(ae)]_vars

\* If no more message gets through, the motors stop for good.
LinkLossLands == <>[][~Receive]_vars => <>[]~Spinning

\* If every sample of the battery is low from some time on, the drone keeps
\* being sent into panic, whatever the pilot commands in between.
LowBatteryPanics ==
  <>[][AdcInterrupt => bat_volt' = "low"]_vars
    => []<>(current_mode = PANIC_MODE)

\* "Termination sequence: terminate->panic->safe->exit" (control.c:397): when
\* a terminate turns into a panic, the exit at the end of it is armed.
TerminateArmsExit ==
  [][current_mode = TERMINATE_MODE /\ current_mode' = PANIC_MODE
       => exit_in_safe_mode']_vars

Contract == INSTANCE FlightContract WITH
  mode <- current_mode,
  spinning <- Spinning,
  phase <- IF demo_done THEN "done"
           ELSE IF exit_in_safe_mode THEN "leaving" ELSE "running",
  obeyed <- sent.type = "MODE_UPDATE"

\* The firmware implements the pilot's contract.  In particular the mode only
\* changes without an answered request when a guard fires, when a terminate
\* turns into a panic, and when a descent ends with every motor stopped.
ImplementsContract == Contract!ContractSpec
=============================================================================

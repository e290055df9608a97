---------------------------- MODULE Drone_proofs ----------------------------
(***************************************************************************)
(* Proofs about Drone, for every clip, step, motor scale, set of thrust    *)
(* vectors and timing bound that satisfies the assumptions of Drone.       *)
(***************************************************************************)
EXTENDS Drone, TLAPS

USE DEF SAFE_MODE, PANIC_MODE, MANUAL_MODE, CALIBRATION_MODE,
        YAW_CONTROL_MODE, FULL_CONTROL_MODE, RAW_MODE, HEIGHT_CONTROL_MODE,
        WIRELESS_MODE, TERMINATE_MODE

-----------------------------------------------------------------------------
(* The arithmetic of the panic descent.                                    *)

\* A step towards the target is an integer, does not pass the target, and
\* moves no further than Step.
LEMMA ApproachBounds ==
  ASSUME NEW x \in Int, NEW target \in Int
  PROVE  /\ Approach(x, target) \in Int
         /\ x <= target => x <= Approach(x, target)
                           /\ Approach(x, target) <= target
         /\ target <= x => target <= Approach(x, target)
                           /\ Approach(x, target) <= x
         /\ x - Step <= Approach(x, target)
         /\ Approach(x, target) <= x + Step
BY MotorAssumption DEF Approach, Least

\* Stepping two values towards one target keeps their order and does not
\* widen the distance between them.
LEMMA ApproachContracts ==
  ASSUME NEW x \in Int, NEW y \in Int, NEW target \in Int, x <= y
  PROVE  /\ Approach(x, target) <= Approach(y, target)
         /\ Approach(y, target) - Approach(x, target) <= y - x
BY MotorAssumption DEF Approach, Least

\* The average of four motor values is an integer no larger than the largest.
LEMMA AverageBounds ==
  ASSUME NEW f \in [Motors -> Int]
  PROVE  /\ Average(f) \in Int
         /\ Average(f) <= Peak(f)
<1>1. f[0] \in Int /\ f[1] \in Int /\ f[2] \in Int /\ f[3] \in Int
  BY DEF Motors
<1>2. \A s \in Int : s \div 4 \in Int /\ 4 * (s \div 4) <= s
  BY SMT
<1>3. /\ Peak(f) \in Int
      /\ f[0] + f[1] + f[2] + f[3] <= 4 * Peak(f)
  BY <1>1 DEF Peak, Greatest
<1> QED
  BY <1>1, <1>2, <1>3 DEF Average

LEMMA ThrustsAreIntegers ==
  /\ NoThrust \in [Motors -> Int]
  /\ \A f \in Thrusts \cup RawThrusts : f \in [Motors -> Int]
BY MotorAssumption DEF NoThrust

-----------------------------------------------------------------------------
\* What a control tick leaves in the variables it assigns.
LEMMA ControlTickType ==
  ASSUME TypeOK, ControlTick
  PROVE  TypeOK'
<1> USE DEF TypeOK, ControlTick, inputVars, clockVars, batteryVars
<1>1. free_pointer' \in 0..LogRecords - 1
  BY BoundAssumption DEF LogData
<1>2. in_panic_mode' \in BOOLEAN /\ in_calibration_mode' \in BOOLEAN
  BY DEF UpdateFlags
<1>3. /\ pc' = "rx" /\ in_raw_mode' \in BOOLEAN
      /\ UNCHANGED <<liftdata, p, elapsed, overdue, timer_flag, counter,
                     bat_volt, adc_busy>>
  OBVIOUS
<1>4. /\ current_mode' \in Modes /\ ae' \in [Motors -> Int]
      /\ setpoint' \in Int /\ exit_in_safe_mode' \in BOOLEAN
      /\ demo_done' \in BOOLEAN /\ calibrated' \in BOOLEAN
  <2>1. CASE SafeLaw
    BY <2>1, ThrustsAreIntegers DEF SafeLaw
  <2>2. CASE PanicLaw
    <3> DEFINE target == IF in_panic_mode THEN setpoint ELSE Average(ae)
    <3>1. target \in Int
      BY AverageBounds
    <3>2. ae' = [i \in Motors |-> Approach(ae[i], target)]
          /\ setpoint' = Greatest(0, target - Step)
      BY <2>2 DEF PanicLaw
    <3>3. ae' \in [Motors -> Int]
      BY <3>1, <3>2, ApproachBounds
    <3>4. setpoint' \in Int
      BY <3>1, <3>2, MotorAssumption DEF Greatest
    <3> QED
      BY <2>2, <3>3, <3>4 DEF PanicLaw, Modes
  <2>3. CASE FlightLaw
    BY <2>3, ThrustsAreIntegers DEF FlightLaw, Commanded
  <2>4. CASE HoldLaw
    BY <2>4 DEF HoldLaw
  <2>5. CASE TerminateLaw
    BY <2>5 DEF TerminateLaw, Modes
  <2> QED
    BY <2>1, <2>2, <2>3, <2>4, <2>5
<1> QED
  BY <1>1, <1>2, <1>3, <1>4

LEMMA ChangedGainType ==
  ASSUME NEW v \in 0..GainMax, NEW op \in {"INCREMENT", "DECREMENT"}
  PROVE  ChangedGain(v, op) \in 0..GainMax
BY BoundAssumption DEF ChangedGain, Greatest

\* The values the firmware boots with.
LEMMA BootValues ==
  /\ NoThrust \in [Motors -> Int]
  /\ ZeroGains \in [Gains -> 0..GainMax]
  /\ 0 \in 0..Timeout + 1
  /\ 0 \in 0..BatteryPeriod - 1
  /\ 0 \in 0..LogRecords - 1
  /\ SAFE_MODE \in Modes
BY BoundAssumption DEF NoThrust, ZeroGains, Modes

\* The firmware boots into a well-typed state.
LEMMA InitType ==
  ASSUME Init
  PROVE  TypeOK
<1>1. /\ pc \in {"sensor", "rx", "timer", "clear", "goodbye"}
      /\ current_mode \in Modes /\ ae \in [Motors -> Int]
      /\ setpoint \in Int /\ p \in [Gains -> 0..GainMax]
      /\ elapsed \in 0..Timeout + 1 /\ overdue \in 0..2
      /\ counter \in 0..BatteryPeriod - 1
      /\ free_pointer \in 0..LogRecords - 1
  BY BootValues DEF Init
<1>2. /\ in_panic_mode \in BOOLEAN /\ in_calibration_mode \in BOOLEAN
      /\ exit_in_safe_mode \in BOOLEAN /\ demo_done \in BOOLEAN
      /\ in_raw_mode \in BOOLEAN /\ calibrated \in BOOLEAN
      /\ adc_busy \in BOOLEAN /\ timer_flag \in BOOLEAN
      /\ liftdata \in {"min", "up"} /\ bat_volt \in {"ok", "low"}
  BY DEF Init
<1> QED
  BY <1>1, <1>2 DEF TypeOK

\* Every variable keeps its type.
THEOREM TypeCorrect == Spec => []TypeOK
<1>1. Init => TypeOK
  BY InitType
<1>2. TypeOK /\ [Next]_vars => TypeOK'
  <2> SUFFICES ASSUME TypeOK, [Next]_vars PROVE TypeOK'
    OBVIOUS
  <2> USE DEF TypeOK, controlVars, inputVars, clockVars, batteryVars
  <2>1. CASE ControlTick
    BY <2>1, ControlTickType
  <2>2. CASE NoSensorData
    BY <2>2 DEF NoSensorData
  <2>3. CASE LeaveLoop
    BY <2>3 DEF LeaveLoop
  <2>4. CASE NoMessage
    BY <2>4 DEF NoMessage
  <2>5. ASSUME NEW m \in PcModes, ReceiveSetMode(m) PROVE TypeOK'
    BY <2>5, BoundAssumption DEF ReceiveSetMode, Receive
  <2>6. ASSUME NEW lift \in {"min", "up"}, ReceiveInputData(lift)
        PROVE  TypeOK'
    BY <2>6, BoundAssumption DEF ReceiveInputData, Receive
  <2>7. ASSUME NEW g \in Gains, NEW op \in {"INCREMENT", "DECREMENT"},
               ReceiveSetPValues(g, op)
        PROVE  TypeOK'
    <3>1. p' \in [Gains -> 0..GainMax]
      BY <2>7, ChangedGainType DEF ReceiveSetPValues
    <3> QED
      BY <2>7, <3>1, BoundAssumption DEF ReceiveSetPValues, Receive
  <2>8. CASE NoTimerFlag
    BY <2>8 DEF NoTimerFlag
  <2>9. CASE TimerTick
    BY <2>9, BoundAssumption DEF TimerTick, Modes
  <2>10. CASE SystemReset
    <3>1. /\ pc' \in {"sensor", "rx", "timer", "clear", "goodbye"}
          /\ current_mode' \in Modes /\ ae' \in [Motors -> Int]
          /\ setpoint' \in Int /\ p' \in [Gains -> 0..GainMax]
          /\ elapsed' \in 0..Timeout + 1 /\ overdue' \in 0..2
          /\ counter' \in 0..BatteryPeriod - 1
          /\ free_pointer' \in 0..LogRecords - 1
      BY <2>10, BootValues DEF SystemReset
    <3>2. /\ in_panic_mode' \in BOOLEAN /\ in_calibration_mode' \in BOOLEAN
          /\ exit_in_safe_mode' \in BOOLEAN /\ demo_done' \in BOOLEAN
          /\ in_raw_mode' \in BOOLEAN /\ calibrated' \in BOOLEAN
          /\ adc_busy' \in BOOLEAN /\ timer_flag' \in BOOLEAN
          /\ liftdata' \in {"min", "up"} /\ bat_volt' \in {"ok", "low"}
      BY <2>10 DEF SystemReset
    <3> QED
      BY <3>1, <3>2
  <2>11. CASE AdcInterrupt
    BY <2>11 DEF AdcInterrupt
  <2>12. CASE ClearTimerFlag
    BY <2>12 DEF ClearTimerFlag
  <2>13. CASE TimePasses
    BY <2>13, BoundAssumption DEF TimePasses, Least
  <2>14. CASE UNCHANGED vars
    BY <2>14 DEF vars
  <2> QED
    BY <2>1, <2>2, <2>3, <2>4, <2>5, <2>6, <2>7, <2>8, <2>9, <2>10, <2>11,
       <2>12, <2>13, <2>14
    DEF Next, SensorStage, RxStage, ReceiveMessage, TimerStage
<1> QED
  BY <1>1, <1>2, PTL DEF Spec

-----------------------------------------------------------------------------
(* Safety: the inductive invariant.                                        *)

\* The loop ends only after a tick in safe mode that obeyed a terminate; from
\* then on no control tick can start the motors again.
Landed ==
  /\ demo_done => ae = NoThrust /\ exit_in_safe_mode
  /\ pc = "goodbye" => demo_done

\* A descent in progress aims no higher than the fastest motor: this is what
\* keeps a setpoint from an earlier panic from speeding motors up.
TargetBelowPeak == in_panic_mode => setpoint <= Peak(ae)

\* A silence longer than the timeout that the loop has not acted upon yet is
\* one it is about to see: its flag is set, and not about to be cleared.
SilenceSeen ==
  /\ overdue > 0 => elapsed > Timeout
  /\ pc = "clear" => timer_flag
  /\ overdue > 0 => \/ current_mode \in {PANIC_MODE, SAFE_MODE}
                    \/ overdue = 1 /\ timer_flag /\ pc # "clear"

SafetyInv ==
  TypeOK /\ Landed /\ SilenceSeen /\ TargetBelowPeak

LEMMA PeakBounds ==
  ASSUME NEW f \in [Motors -> Int]
  PROVE  /\ Peak(f) \in Int /\ Peak(f) >= 0
         /\ \A i \in Motors : f[i] <= Peak(f)
         /\ Peak(f) = 0 \/ \E i \in Motors : f[i] = Peak(f)
BY DEF Peak, Greatest, Motors

\* The common target of the panic descent.
Target == IF in_panic_mode THEN setpoint ELSE Average(ae)

\* A panic tick does not raise the peak, and leaves its setpoint below it.
LEMMA PanicPeak ==
  ASSUME TypeOK, TargetBelowPeak, PanicLaw
  PROVE  /\ ae' \in [Motors -> Int]
         /\ Peak(ae') <= Peak(ae)
         /\ setpoint' <= Peak(ae')
<1>1. Target \in Int /\ Target <= Peak(ae)
  BY AverageBounds DEF TypeOK, TargetBelowPeak, Target
<1>2. /\ ae' = [i \in Motors |-> Approach(ae[i], Target)]
      /\ setpoint' = Greatest(0, Target - Step)
  BY DEF PanicLaw, Target
<1>3. ae' \in [Motors -> Int]
  BY <1>1, <1>2, ApproachBounds DEF TypeOK
<1>4. /\ Peak(ae) \in Int /\ Peak(ae) >= 0
      /\ \A i \in Motors : ae[i] <= Peak(ae)
      /\ Peak(ae) = 0 \/ \E i \in Motors : ae[i] = Peak(ae)
  BY PeakBounds DEF TypeOK
<1>5. /\ Peak(ae') \in Int /\ Peak(ae') >= 0
      /\ \A i \in Motors : ae'[i] <= Peak(ae')
      /\ Peak(ae') = 0 \/ \E i \in Motors : ae'[i] = Peak(ae')
  BY <1>3, PeakBounds
<1>6. \A i \in Motors : /\ ae[i] \in Int /\ ae'[i] = Approach(ae[i], Target)
                        /\ ae'[i] <= ae[i] \/ ae'[i] <= Target
                        /\ Target <= ae[i] => Target <= ae'[i]
  <2> TAKE i \in Motors
  <2>1. ae[i] \in Int /\ ae'[i] = Approach(ae[i], Target)
    BY <1>2 DEF TypeOK
  <2>2. /\ ae[i] <= Target => Approach(ae[i], Target) <= Target
        /\ Target <= ae[i] => /\ Target <= Approach(ae[i], Target)
                              /\ Approach(ae[i], Target) <= ae[i]
    BY <1>1, <2>1, ApproachBounds
  <2> QED
    BY <1>1, <2>1, <2>2
<1>7. Peak(ae') <= Peak(ae)
  <2>1. CASE Peak(ae') = 0
    BY <2>1, <1>4
  <2>2. CASE \E i \in Motors : ae'[i] = Peak(ae')
    <3>1. PICK i \in Motors : ae'[i] = Peak(ae')
      BY <2>2
    <3>2. ae[i] \in Int /\ ae[i] <= Peak(ae)
          /\ (ae'[i] <= ae[i] \/ ae'[i] <= Target)
      BY <1>4, <1>6
    <3> QED
      BY <3>1, <3>2, <1>1, <1>4, <1>5
  <2> QED
    BY <2>1, <2>2, <1>5
<1>8. setpoint' <= Peak(ae')
  <2>1. CASE Target <= 0
    BY <2>1, <1>1, <1>2, <1>5, MotorAssumption DEF Greatest
  <2>2. CASE Target > 0
    <3>1. PICK i \in Motors : ae[i] = Peak(ae)
      BY <2>2, <1>1, <1>4
    <3>2. Target <= ae'[i] /\ ae'[i] <= Peak(ae') /\ ae'[i] \in Int
      BY <3>1, <1>1, <1>3, <1>5, <1>6
    <3> QED
      BY <2>2, <3>2, <1>1, <1>2, <1>5, MotorAssumption DEF Greatest
  <2> QED
    BY <2>1, <2>2, <1>1
<1> QED
  BY <1>3, <1>7, <1>8

LEMMA ControlTickSafe ==
  ASSUME SafetyInv, ControlTick
  PROVE  Landed' /\ SilenceSeen' /\ TargetBelowPeak'
<1> USE DEF SafetyInv, ControlTick, TypeOK, clockVars
<1>1. UNCHANGED <<elapsed, overdue, timer_flag>> /\ pc' = "rx" /\ ~demo_done
  OBVIOUS
<1>2. CASE SafeLaw
  BY <1>1, <1>2 DEF SafeLaw, Landed, SilenceSeen, TargetBelowPeak,
                    UpdateFlags
<1>3. CASE PanicLaw
  <2>1. setpoint' <= Peak(ae')
    BY <1>3, PanicPeak
  <2> QED
    BY <1>1, <1>3, <2>1 DEF PanicLaw, Landed, SilenceSeen,
                            TargetBelowPeak
<1>4. CASE FlightLaw
  BY <1>1, <1>4 DEF FlightLaw, FlightModes, Landed, SilenceSeen,
                    TargetBelowPeak, UpdateFlags
<1>5. CASE HoldLaw
  BY <1>1, <1>5 DEF HoldLaw, HoldModes, Landed, SilenceSeen,
                    TargetBelowPeak, UpdateFlags
<1>6. CASE TerminateLaw
  BY <1>1, <1>6 DEF TerminateLaw, Landed, SilenceSeen,
                    TargetBelowPeak, UpdateFlags
<1> QED
  BY <1>2, <1>3, <1>4, <1>5, <1>6

LEMMA SafetyInvariant == Spec => []SafetyInv
<1>1. Init => SafetyInv
  <2>1. Init => TypeOK
    BY InitType
  <2> QED
    BY <2>1, BoundAssumption DEF Init, SafetyInv, Landed, SilenceSeen,
                TargetBelowPeak
<1>2. SafetyInv /\ TypeOK' /\ [Next]_vars => SafetyInv'
  <2> SUFFICES ASSUME SafetyInv, TypeOK', [Next]_vars
               PROVE  Landed' /\ SilenceSeen' /\ TargetBelowPeak'
    BY DEF SafetyInv
  <2> USE DEF SafetyInv, Landed, SilenceSeen, TargetBelowPeak,
              controlVars, inputVars, clockVars, batteryVars
  <2>1. CASE ControlTick
    BY <2>1, ControlTickSafe
  <2>2. CASE NoSensorData
    BY <2>2 DEF NoSensorData
  <2>3. CASE LeaveLoop
    BY <2>3 DEF LeaveLoop
  <2>4. CASE NoMessage
    BY <2>4 DEF NoMessage
  <2>5. CASE ReceiveMessage
    <3>1. Receive
      BY <2>5 DEF ReceiveMessage, ReceiveSetMode, ReceiveInputData,
                  ReceiveSetPValues
    <3> QED
      BY <3>1, BoundAssumption DEF Receive
  <2>6. CASE NoTimerFlag
    BY <2>6 DEF NoTimerFlag
  <2>7. CASE TimerTick
    <3>1. PICK silent \in {elapsed > Timeout, elapsed >= Timeout} :
            current_mode' = IF (counter = 0 /\ bat_volt = "low") \/ silent
                            THEN PANIC_MODE ELSE current_mode
      BY <2>7 DEF TimerTick
    <3>2. elapsed > Timeout => silent
      <4>1. elapsed > Timeout => elapsed >= Timeout
        BY BoundAssumption DEF TypeOK
      <4> QED
        BY <4>1, Zenon
    <3>3. overdue > 0 => current_mode' = PANIC_MODE
      BY <3>1, <3>2
    <3>4. /\ UNCHANGED <<elapsed, overdue, timer_flag, ae, setpoint, demo_done,
                        exit_in_safe_mode, in_panic_mode>>
          /\ timer_flag /\ pc' = "clear"
      BY <2>7 DEF TimerTick
    <3>5. Landed' /\ TargetBelowPeak'
      BY <3>4
    <3> QED
      BY <3>3, <3>4, <3>5
  <2>8. CASE SystemReset
    BY <2>8, BoundAssumption DEF SystemReset
  <2>9. CASE AdcInterrupt
    BY <2>9 DEF AdcInterrupt
  <2>10. CASE ClearTimerFlag
    BY <2>10 DEF ClearTimerFlag
  <2>11. CASE TimePasses
    BY <2>11, BoundAssumption DEF TimePasses, TypeOK, Least
  <2>12. CASE UNCHANGED vars
    BY <2>12 DEF vars
  <2> QED
    BY <2>1, <2>2, <2>3, <2>4, <2>5, <2>6, <2>7, <2>8, <2>9, <2>10, <2>11,
       <2>12
    DEF Next, SensorStage, RxStage, TimerStage
<1> QED
  BY <1>1, <1>2, TypeCorrect, PTL DEF Spec

\* The processor resets only with every motor stopped, after a terminate.
THEOREM ShutdownIsLanded == Spec => []ShutdownLanded
<1>1. SafetyInv => ShutdownLanded
  BY MotorAssumption DEF SafetyInv, Landed, ShutdownLanded, Spinning, Pulse,
       NoThrust, Greatest, Least
<1> QED
  BY <1>1, SafetyInvariant, PTL

\* No control law but panic and safe runs once the link has been silent for
\* one timer period longer than the timeout, whenever the flag is set, seen and
\* cleared, for any timeout.
THEOREM SilentLinkNeverFlies == Spec => []NoFlightOnSilentLink
<1>1. SafetyInv => NoFlightOnSilentLink
  BY DEF SafetyInv, SilenceSeen, NoFlightOnSilentLink
<1> QED
  BY <1>1, SafetyInvariant, PTL

\* A panic tick never takes any motor above the fastest one.
THEOREM PanicSpeedsNothingUp == Spec => PanicNeverSpeedsUp
<1>1. SafetyInv /\ [Next]_vars
        => [PanicLaw /\ ControlTick => Peak(ae') <= Peak(ae)]_vars
  BY PanicPeak DEF SafetyInv
<1> QED
  BY <1>1, SafetyInvariant, PTL DEF Spec, PanicNeverSpeedsUp

LEMMA SpreadBounds ==
  ASSUME NEW f \in [Motors -> Int]
  PROVE  /\ Spread(f) \in Int
         /\ \A i, j \in Motors : f[i] - f[j] <= Spread(f)
         /\ \E i, j \in Motors : f[i] - f[j] = Spread(f)
<1>1. f[0] \in Int /\ f[1] \in Int /\ f[2] \in Int /\ f[3] \in Int
  BY DEF Motors
<1>2. PICK i \in Motors : /\ f[i] \in Int
                          /\ \A k \in Motors : f[k] <= f[i]
                          /\ f[i] = Greatest(Greatest(f[0], f[1]),
                                             Greatest(f[2], f[3]))
  BY <1>1 DEF Motors, Greatest
<1>3. PICK j \in Motors : /\ f[j] \in Int
                          /\ \A k \in Motors : f[j] <= f[k]
                          /\ f[j] = Least(Least(f[0], f[1]),
                                          Least(f[2], f[3]))
  BY <1>1 DEF Motors, Least
<1>4. Spread(f) = f[i] - f[j]
  BY <1>2, <1>3 DEF Spread
<1> QED
  BY <1>2, <1>3, <1>4

\* A panic tick never widens the gap between any two motors.
THEOREM PanicLevelsMotors == Spec => PanicLevels
<1>1. ASSUME SafetyInv, PanicLaw PROVE Spread(ae') <= Spread(ae)
  <2>1. Target \in Int /\ ae \in [Motors -> Int]
    BY <1>1, AverageBounds DEF SafetyInv, TypeOK, Target
  <2>2. ae' = [i \in Motors |-> Approach(ae[i], Target)]
    BY <1>1 DEF PanicLaw, Target
  <2>3. ae' \in [Motors -> Int]
    BY <2>1, <2>2, ApproachBounds
  <2>4. PICK i, j \in Motors : ae'[i] - ae'[j] = Spread(ae')
    BY <2>3, SpreadBounds
  <2>5. /\ Spread(ae) \in Int
        /\ ae[i] - ae[j] <= Spread(ae)
        /\ ae[i] - ae[i] <= Spread(ae)
    BY <2>1, SpreadBounds
  <2>6. /\ ae[i] \in Int /\ ae[j] \in Int
        /\ ae'[i] \in Int /\ ae'[j] \in Int
        /\ ae'[i] = Approach(ae[i], Target)
        /\ ae'[j] = Approach(ae[j], Target)
    BY <2>1, <2>2, <2>3
  <2>7. CASE ae[j] <= ae[i]
    BY <2>1, <2>4, <2>5, <2>6, <2>7, ApproachContracts
  <2>8. CASE ae[i] <= ae[j]
    <3>1. ae'[i] <= ae'[j]
      BY <2>1, <2>6, <2>8, ApproachContracts
    <3> QED
      BY <3>1, <2>4, <2>5, <2>6
  <2> QED
    BY <2>6, <2>7, <2>8
<1>2. SafetyInv /\ [Next]_vars
        => [PanicLaw /\ ControlTick => Spread(ae') <= Spread(ae)]_vars
  BY <1>1
<1> QED
  BY <1>2, SafetyInvariant, PTL DEF Spec, PanicLevels

-----------------------------------------------------------------------------
(* Refinement: the firmware implements FlightContract.                     *)

\* A propeller turns exactly when some motor value is positive: update_motors
\* and the motor interrupts clip, but never to or from a standstill.
LEMMA SpinningIsPositive ==
  ASSUME NEW f \in [Motors -> Int]
  PROVE  (\E i \in Motors : Pulse(f)[i] > 0) <=> (\E i \in Motors : f[i] > 0)
<1>1. \A i \in Motors : f[i] \in Int
                        /\ Pulse(f)[i] = Greatest(0, Least(f[i], MotorLimit))
  BY DEF Pulse
<1>2. \A x \in Int : Greatest(0, Least(x, MotorLimit)) > 0 <=> x > 0
  BY MotorAssumption DEF Greatest, Least
<1> QED
  BY <1>1, <1>2

\* A step that leaves the motor values alone does not change Spinning.
LEMMA SpinningUnchanged ==
  ASSUME UNCHANGED ae
  PROVE  UNCHANGED Spinning
BY DEF Spinning, Pulse

\* A panic tick never sets a propeller in motion.
LEMMA PanicStopsOnly ==
  ASSUME SafetyInv, TypeOK', PanicLaw
  PROVE  Spinning' => Spinning
<1>1. Peak(ae') <= Peak(ae)
  BY PanicPeak DEF SafetyInv
<1>2. ae \in [Motors -> Int] /\ ae' \in [Motors -> Int]
  BY DEF SafetyInv, TypeOK
<1>3. Spinning <=> \E i \in Motors : ae[i] > 0
  BY <1>2, SpinningIsPositive DEF Spinning
<1>4. Spinning' <=> \E i \in Motors : ae'[i] > 0
  BY <1>2, SpinningIsPositive DEF Spinning
<1>5. SUFFICES ASSUME NEW i \in Motors, ae'[i] > 0
               PROVE  \E j \in Motors : ae[j] > 0
  BY <1>3, <1>4
<1>6. Peak(ae') > 0 /\ Peak(ae) \in Int /\ Peak(ae') \in Int
  BY <1>2, <1>5, PeakBounds
<1>7. Peak(ae) > 0
  BY <1>1, <1>6
<1> QED
  BY <1>2, <1>7, PeakBounds

\* Motors at rest.
LEMMA RestDoesNotSpin ==
  /\ ae = NoThrust => ~Spinning
  /\ ae' = NoThrust => ~Spinning'
BY MotorAssumption DEF Spinning, Pulse, NoThrust, Greatest, Least

USE DEF Contract!SAFE_MODE, Contract!PANIC_MODE, Contract!MANUAL_MODE,
        Contract!CALIBRATION_MODE, Contract!YAW_CONTROL_MODE,
        Contract!FULL_CONTROL_MODE, Contract!RAW_MODE,
        Contract!HEIGHT_CONTROL_MODE, Contract!WIRELESS_MODE,
        Contract!TERMINATE_MODE, Contract!Modes, Contract!FlightModes

\* Every control law is a step of the contract.
LEMMA ControlTickContract ==
  ASSUME SafetyInv, TypeOK', Landed', ControlTick
  PROVE  [Contract!ContractNext]_(Contract!contractVars)
<1> USE DEF ControlTick, Contract!ContractNext, Contract!contractVars,
            SafetyInv, TypeOK, Silence, CalibrationData
<1>1. CASE SafeLaw
  <2>1. ~Spinning'
    BY <1>1, RestDoesNotSpin DEF SafeLaw
  <2>2. Contract!Rest
    BY <1>1, <2>1 DEF SafeLaw, Contract!Rest
  <2> QED
    BY <2>2
<1>2. CASE PanicLaw
  <2>1. Spinning' => Spinning
    BY <1>2, PanicStopsOnly
  <2>2. current_mode' = SAFE_MODE => ~Spinning'
    BY <1>2, RestDoesNotSpin DEF PanicLaw
  <2>3. Spinning \in BOOLEAN /\ Spinning' \in BOOLEAN
    BY DEF Spinning
  <2>4. Contract!Descend
    BY <1>2, <2>1, <2>2, <2>3 DEF PanicLaw, Contract!Descend
  <2> QED
    BY <2>4
<1>3. CASE FlightLaw
  <2>1. Spinning' \in BOOLEAN
    BY DEF Spinning
  <2>2. Contract!Fly
    BY <1>3, <2>1 DEF FlightLaw, FlightModes, Contract!Fly
  <2> QED
    BY <2>2
<1>4. CASE HoldLaw
  <2>1. UNCHANGED Spinning
    BY <1>4, SpinningUnchanged DEF HoldLaw
  <2>2. Contract!Quiet
    BY <1>4, <2>1 DEF HoldLaw, Contract!Quiet
  <2> QED
    BY <2>2
<1>5. CASE TerminateLaw
  <2>1. UNCHANGED Spinning
    BY <1>5, SpinningUnchanged DEF TerminateLaw
  <2>2. Contract!Leave
    BY <1>5, <2>1 DEF TerminateLaw, Contract!Leave
  <2> QED
    BY <2>2
<1> QED
  BY <1>1, <1>2, <1>3, <1>4, <1>5

\* The firmware implements the pilot's contract.
THEOREM DroneImplementsContract == Spec => ImplementsContract
<1>1. Init => Contract!ContractInit
  BY RestDoesNotSpin DEF Init, Contract!ContractInit, Silence
<1>2. SafetyInv /\ SafetyInv' /\ [Next]_vars
        => [Contract!ContractNext]_(Contract!contractVars)
  <2> SUFFICES ASSUME SafetyInv, SafetyInv', [Next]_vars
               PROVE  [Contract!ContractNext]_(Contract!contractVars)
    OBVIOUS
  <2> USE DEF Contract!ContractNext, Contract!contractVars, controlVars,
              Silence, ModeUpdate, PValuesUpdate, Terminate
  <2>1. CASE ControlTick
    BY <2>1, ControlTickContract DEF SafetyInv
  <2>2. ASSUME UNCHANGED <<current_mode, controlVars>>
        PROVE  /\ sent'.type # "MODE_UPDATE" => Contract!Quiet
               /\ UNCHANGED sent => UNCHANGED Contract!contractVars
    BY <2>2, SpinningUnchanged DEF Contract!Quiet
  <2>3. CASE NoSensorData \/ LeaveLoop \/ NoMessage \/ NoTimerFlag
             \/ ClearTimerFlag \/ TimePasses \/ AdcInterrupt
             \/ UNCHANGED vars
    <3>1. /\ UNCHANGED <<current_mode, controlVars>>
          /\ sent'.type # "MODE_UPDATE" \/ UNCHANGED sent
      BY <2>3 DEF NoSensorData, LeaveLoop, NoMessage, NoTimerFlag,
                  ClearTimerFlag, TimePasses, AdcInterrupt, vars
    <3> QED
      BY <2>2, <3>1
  <2>4. CASE ReceiveMessage
    <3>1. UNCHANGED controlVars /\ current_mode' \in Modes
      BY <2>4 DEF ReceiveMessage, ReceiveSetMode, ReceiveInputData,
                  ReceiveSetPValues, Receive, SafetyInv, TypeOK
    <3>2. UNCHANGED Spinning
      BY <3>1, SpinningUnchanged
    <3>3. CASE sent'.type = "MODE_UPDATE"
      <4>1. Contract!Command
        BY <3>1, <3>2, <3>3 DEF Contract!Command, Modes
      <4> QED
        BY <4>1
    <3>4. CASE sent'.type # "MODE_UPDATE"
      <4>1. UNCHANGED current_mode
        BY <2>4, <3>4 DEF ReceiveMessage, ReceiveSetMode, ReceiveInputData,
                          ReceiveSetPValues
      <4> QED
        BY <2>2, <3>1, <3>4, <4>1
    <3> QED
      BY <3>3, <3>4
  <2>5. CASE TimerTick
    <3>1. UNCHANGED Spinning
      BY <2>5, SpinningUnchanged DEF TimerTick
    <3>2. Contract!Guard \/ Contract!Quiet
      BY <2>5, <3>1 DEF TimerTick, Contract!Guard, Contract!Quiet
    <3> QED
      BY <3>2
  <2>6. CASE SystemReset
    <3>1. demo_done /\ ~Spinning /\ ~Spinning'
      BY <2>6, RestDoesNotSpin DEF SystemReset, SafetyInv, Landed
    <3>2. Contract!Restart
      BY <2>6, <3>1 DEF SystemReset, Contract!Restart
    <3> QED
      BY <3>2
  <2> QED
    BY <2>1, <2>3, <2>4, <2>5, <2>6
    DEF Next, SensorStage, RxStage, TimerStage
<1> QED
  BY <1>1, <1>2, SafetyInvariant, PTL
  DEF Spec, ImplementsContract, Contract!ContractSpec
=============================================================================

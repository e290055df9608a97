------------------------------- MODULE Timers --------------------------------
(***************************************************************************)
(* Motor outputs and time base (drivers/timers.c), with the two places     *)
(* that share state with its interrupts: update_motors (control.c) and the *)
(* radio notification (ble.c).                                             *)
(*                                                                         *)
(* TIMER1 and TIMER2 count together from 0 to Top.  A motor's output is    *)
(* toggled by hardware when the counter starts over and when it reaches    *)
(* the motor's compare register, so a register that is written at the      *)
(* wrong moment inverts the output for good.  The handler of each timer    *)
(* writes the registers of its motors; the one of TIMER2 also keeps the    *)
(* time.  Both have the same priority, so neither interrupts the other,    *)
(* and other handlers may delay them: the counter runs on meanwhile.  A    *)
(* handler captures the counter, then reads radio_active and the capture,  *)
(* and then writes; it may be interrupted at each step.                    *)
(*                                                                         *)
(* The radio of the SoftDevice stops everything else while it is on.  It   *)
(* announces itself Notice counts before it is switched on, and again when *)
(* it is off.  The main thread runs only when no interrupt waits.          *)
(***************************************************************************)
EXTENDS Integers

CONSTANTS
  Motors,    \* 0..3
  TimerOf,   \* the timer that makes a motor's pulse
  Top,       \* CC[3], 2500 counts of 0.125 us
  Base,      \* 1000, the pulse of a motor at rest
  Full,      \* 1000, full scale of a motor value
  Window,    \* 500, the counts within which registers may be written
  Slack,     \* counts a handler takes from its capture to its last write
  Notice,    \* 1740 us, the radio's notification distance
  Quiet,     \* least counts between two uses of the radio
  Scale,     \* 8 counts make a microsecond
  Wrap,      \* 2^32, the range of global_time
  Targets,   \* motor vectors the control laws produce
  MaxLaps    \* bound on the periods a call of get_time_us may take

Handlers == {"TIMER1", "TIMER2"}

\* global_time advances by the last value the counter shows, 312.
Increment == (Top - 1) \div Scale

ASSUME TimersAssumption ==
  /\ TimerOf \in [Motors -> Handlers]
  /\ Top \in Nat /\ Base \in Nat \ {0} /\ Full \in Nat /\ Base + Full < Top
  /\ Window \in Nat /\ Slack \in Nat /\ Window + Slack <= Base
  /\ Notice \in Nat /\ Slack < Notice
  /\ Quiet \in Nat
  /\ Scale \in Nat \ {0} /\ Wrap \in Nat \ {0} /\ MaxLaps \in Nat
  /\ Targets \subseteq [Motors -> Int]

\* The clock advances, and not once around while get_time_us runs.
ASSUME ClockAssumption ==
  /\ Scale < Top
  /\ (MaxLaps + 1) * Increment < Wrap

VARIABLES
  count,         \* the counter of both timers
  level,         \* output pin of each motor
  cc,            \* compare register of each motor
  pending,       \* timers whose COMPARE[3] event waits for its handler
  handler,       \* handler between its capture and its end, or "none"
  stage,         \* what it does next: "check" or "write"
  taken,         \* what it captured, in CC[2] of its timer
  todo,          \* motors whose register it has yet to write
  age,           \* counts since its capture, without those the radio took
  stale,         \* history: whether a handler passed its check with a capture
                 \* from before the radio was on: "no", "possible" or "yes"
  global_time,
  captured,      \* CC[2] of TIMER2, which get_time_us uses as well
  radio,         \* the SoftDevice: "off", "announced" or "on"
  since,         \* counts since it last changed, up to Notice or Quiet
  radio_active,
  pc,            \* main thread: "idle", "store" or a step of get_time_us
  ae, motor,
  unstored,      \* motors update_motors has not come to yet
  high, low,     \* locals of get_time_us
  begun,         \* history: the time when get_time_us was called
  laps           \* periods since then

pins == <<count, level>>
writing == <<handler, stage, taken, todo, age>>
interrupts == <<pending, writing, stale>>
radioVars == <<radio, since, radio_active>>
call == <<high, low, begun, laps>>
mainVars == <<pc, ae, unstored, call>>
vars == <<pins, cc, interrupts, global_time, captured, radioVars, motor,
          mainVars>>

-----------------------------------------------------------------------------
\* timers_init, with the outputs set high by gpio_init.
Init ==
  /\ count = 0 /\ level = [i \in Motors |-> TRUE]
  /\ cc = [i \in Motors |-> Base]
  /\ pending = {} /\ handler = "none" /\ stage = "none" /\ taken = 0
  /\ todo = {} /\ age = 0 /\ stale = "no"
  /\ global_time = 0 /\ captured = 0
  /\ radio = "off" /\ since = 0 /\ radio_active = FALSE
  /\ pc = "idle"
  /\ ae = [i \in Motors |-> 0] /\ motor = [i \in Motors |-> 0]
  /\ unstored = {}
  /\ high = 0 /\ low = 0 /\ begun = 0 /\ laps = 0

Least(a, b) == IF a < b THEN a ELSE b
Clamp(x) == IF x < Full THEN (IF x < 0 THEN 0 ELSE x) ELSE Full

\* The time a reader that is not interrupted would get.
Now == (global_time + count \div Scale) % Wrap

Reading == pc \in {"test", "load", "capture", "read"}

\* How long the radio stays as it is at least.
Dwell == CASE radio = "off" -> Quiet [] radio = "announced" -> Notice
           [] radio = "on" -> 0

-----------------------------------------------------------------------------
(* The counter.                                                            *)

\* An output toggles when the counter starts over and at its register.
Toggles(i, c) == c = 0 \/ c = cc[i]

\* A handler that has made its capture ends within Slack counts of CPU time.
Timed == handler # "none" /\ radio # "on"

Tick ==
  /\ Timed => age < Slack
  /\ Reading /\ count = Top - 1 => laps < MaxLaps
  /\ count' = (count + 1) % Top
  /\ level' = [i \in Motors |-> IF Toggles(i, count') THEN ~level[i]
                                                       ELSE level[i]]
  /\ pending' = IF count' = 0 THEN Handlers ELSE pending
  /\ age' = IF Timed THEN age + 1 ELSE age
  /\ since' = IF since < Dwell THEN since + 1 ELSE since
  /\ laps' = IF Reading /\ count' = 0 THEN laps + 1 ELSE laps
  /\ UNCHANGED <<cc, handler, stage, taken, todo, stale, global_time,
                 captured, radio, radio_active, motor, pc, ae, unstored, high,
                 low, begun>>

-----------------------------------------------------------------------------
(* The interrupt handlers.                                                 *)

MotorsOf(t) == {i \in Motors : TimerOf[i] = t}

\* The event is cleared, TIMER2's handler advances the time, and the counter
\* is captured.
Enter(t) ==
  /\ t \in pending
  /\ handler = "none" /\ radio # "on"
  /\ pending' = pending \ {t}
  /\ global_time' = IF t = "TIMER2" THEN (global_time + Increment) % Wrap
                                    ELSE global_time
  /\ captured' = IF t = "TIMER2" THEN count ELSE captured
  /\ handler' = t /\ stage' = "check" /\ taken' = count /\ age' = 0
  /\ UNCHANGED <<pins, cc, todo, stale, radioVars, motor, mainVars>>

\* Mutant: the registers are written whatever the counter showed.
MayWriteAnyTime == ~radio_active

\* Mutant: the radio is not looked at.
MayWriteUnderRadio == taken < Window

\* "we are not near a flip in the pulse"
MayWrite == ~radio_active /\ taken < Window

End == handler' = "none" /\ stage' = "none" /\ age' = 0

Check ==
  /\ stage = "check" /\ radio # "on"
  /\ LET passes == MayWrite /\ MotorsOf(handler) # {}
     IN  /\ IF passes
            THEN /\ stage' = "write" /\ todo' = MotorsOf(handler)
                 /\ UNCHANGED <<handler, age>>
            ELSE End /\ UNCHANGED todo
         /\ stale' = IF stale # "possible" THEN stale
                     ELSE IF passes THEN "yes" ELSE "no"
  /\ taken' = 0
  /\ UNCHANGED <<pins, cc, pending, global_time, captured, radioVars, motor,
                 mainVars>>

\* Mutant: the value goes into the register as it is.
WriteUnclamped(i) ==
  /\ stage = "write" /\ radio # "on"
  /\ i \in todo
  /\ cc' = [cc EXCEPT ![i] = Base + motor[i]]
  /\ todo' = todo \ {i}
  /\ IF todo' = {} THEN End ELSE UNCHANGED <<handler, stage, age>>
  /\ UNCHANGED <<pins, pending, taken, stale, motor, global_time, captured,
                 radioVars, mainVars>>

\* Mutant: the register of a motor at rest is left alone.
WriteUnlessZero(i) ==
  /\ stage = "write" /\ radio # "on"
  /\ i \in todo
  /\ motor' = [motor EXCEPT ![i] = Clamp(motor[i])]
  /\ cc' = IF motor'[i] = 0 THEN cc ELSE [cc EXCEPT ![i] = Base + motor'[i]]
  /\ todo' = todo \ {i}
  /\ IF todo' = {} THEN End ELSE UNCHANGED <<handler, stage, age>>
  /\ UNCHANGED <<pins, pending, taken, stale, global_time, captured,
                 radioVars, mainVars>>

\* Clamp a motor value in place and write the register.
WriteRegister(i) ==
  /\ stage = "write" /\ radio # "on"
  /\ i \in todo
  /\ motor' = [motor EXCEPT ![i] = Clamp(motor[i])]
  /\ cc' = [cc EXCEPT ![i] = Base + motor'[i]]
  /\ todo' = todo \ {i}
  /\ IF todo' = {} THEN End ELSE UNCHANGED <<handler, stage, age>>
  /\ UNCHANGED <<pins, pending, taken, stale, global_time, captured,
                 radioVars, mainVars>>

-----------------------------------------------------------------------------
(* The radio and SWI1_IRQHandler, which interrupts the timers' handlers.   *)

Announce ==
  /\ radio = "off" /\ since = Quiet
  /\ radio' = "announced" /\ since' = 0
  /\ radio_active' = ~radio_active
  /\ UNCHANGED <<pins, cc, interrupts, global_time, captured, motor, mainVars>>

SwitchOn ==
  /\ radio = "announced" /\ since = Notice
  /\ radio' = "on" /\ since' = 0
  /\ stale' = IF stage = "check" /\ stale = "no" THEN "possible" ELSE stale
  /\ UNCHANGED <<pins, cc, pending, writing, global_time, captured,
                 radio_active, motor, mainVars>>

SwitchOff ==
  /\ radio = "on"
  /\ radio' = "off" /\ since' = 0
  /\ radio_active' = ~radio_active
  /\ UNCHANGED <<pins, cc, interrupts, global_time, captured, motor, mainVars>>

-----------------------------------------------------------------------------
(* The main thread.                                                        *)

MainRuns == pending = {} /\ handler = "none" /\ radio # "on"

MainStep(from, to) ==
  /\ MainRuns
  /\ pc = from /\ pc' = to
  /\ UNCHANGED <<pins, cc, interrupts, global_time, radioVars>>

\* A control law, then update_motors.
RunControl ==
  /\ MainStep("idle", "store")
  /\ ae' \in Targets
  /\ unstored' = Motors
  /\ UNCHANGED <<captured, motor, call>>

StoreMotor(i) ==
  /\ MainStep("store", IF unstored = {i} THEN "idle" ELSE "store")
  /\ i \in unstored /\ \A j \in unstored : i <= j
  /\ motor' = [motor EXCEPT ![i] = Least(ae[i], Full)]
  /\ unstored' = unstored \ {i}
  /\ UNCHANGED <<captured, ae, call>>

CallGetTime ==
  /\ MainStep("idle", "test")
  /\ high' = 0 /\ low' = 0 /\ begun' = Now /\ laps' = 0
  /\ UNCHANGED <<captured, motor, ae, unstored>>

\* Mutant: one reading is enough.
TestOnce ==
  /\ MainStep("test", IF high = 0 THEN "load" ELSE "idle")
  /\ IF pc' = "idle" THEN high' = 0 /\ low' = 0 /\ begun' = 0 /\ laps' = 0
                     ELSE UNCHANGED call
  /\ UNCHANGED <<captured, motor, ae, unstored>>

\* The loop condition, and the return of high + low.
TestHigh ==
  /\ MainStep("test", IF high # global_time THEN "load" ELSE "idle")
  /\ IF pc' = "idle" THEN high' = 0 /\ low' = 0 /\ begun' = 0 /\ laps' = 0
                     ELSE UNCHANGED call
  /\ UNCHANGED <<captured, motor, ae, unstored>>

LoadHigh ==
  /\ MainStep("load", "capture")
  /\ high' = global_time
  /\ UNCHANGED <<captured, motor, ae, unstored, low, begun, laps>>

Capture ==
  /\ MainStep("capture", "read")
  /\ captured' = count
  /\ UNCHANGED <<motor, ae, unstored, call>>

ReadCapture ==
  /\ MainStep("read", "test")
  /\ low' = captured \div Scale
  /\ UNCHANGED <<captured, motor, ae, unstored, high, begun, laps>>

GetTime == CallGetTime \/ TestHigh \/ LoadHigh \/ Capture \/ ReadCapture
Main == RunControl \/ (\E i \in Motors : StoreMotor(i)) \/ GetTime

-----------------------------------------------------------------------------
Next ==
  \/ Tick
  \/ \E t \in Handlers : Enter(t)
  \/ Check
  \/ \E i \in Motors : WriteRegister(i)
  \/ Announce \/ SwitchOn \/ SwitchOff
  \/ Main

InWindow == ~radio_active /\ count < Window

\* Time passes, a radio that was announced is used, get_time_us goes on, and
\* update_motors does where the main thread gets to run again and again.  A
\* handler whose event waits within the window again and again passes its
\* check again and again: it is not always late, nor the radio always announced
\* just before.
Fairness ==
  /\ WF_vars(Tick)
  /\ WF_vars(SwitchOn)
  /\ \A t \in Handlers :
       []<>(t \in pending /\ InWindow)
         => []<><<Check /\ handler = t /\ MayWrite>>_vars
  /\ SF_vars(\E i \in Motors : StoreMotor(i))
  /\ WF_vars(TestHigh \/ LoadHigh \/ Capture \/ ReadCapture)

Spec == Init /\ [][Next]_vars
FairSpec == Spec /\ Fairness

-----------------------------------------------------------------------------
(* Properties.                                                             *)

\* The registers hold legal pulses, and global_time and the locals of
\* get_time_us stay in their ranges.
TypeOK ==
  /\ count \in 0..Top - 1 /\ level \in [Motors -> BOOLEAN]
  /\ cc \in [Motors -> Base..Base + Full]
  /\ pending \subseteq Handlers /\ handler \in Handlers \cup {"none"}
  /\ stage \in {"none", "check", "write"} /\ taken \in 0..Top - 1
  /\ (stage = "none") = (handler = "none")
  /\ todo \subseteq Motors /\ age \in 0..Slack
  /\ stale \in {"no", "possible", "yes"}
  /\ global_time \in 0..Wrap - 1 /\ captured \in 0..Top - 1
  /\ radio \in {"off", "announced", "on"} /\ since \in 0..Dwell
  /\ radio_active \in BOOLEAN
  /\ pc \in {"idle", "store", "test", "load", "capture", "read"}
  /\ ae \in [Motors -> Int] /\ motor \in [Motors -> Int]
  /\ unstored \subseteq Motors
  /\ high \in 0..Wrap - 1 /\ low \in 0..Increment
  /\ begun \in 0..Wrap - 1 /\ laps \in 0..MaxLaps

\* No output is ever inverted: each is high exactly until the counter reaches
\* the motor's register.  This is what the comment at the check in timers.c is
\* after; a stale capture breaks it.
NeverFlipped == \A i \in Motors : level[i] = (count < cc[i])

\* The one thing that inverts an output is a handler that the radio stopped
\* between its capture and its check: it takes the capture for the present,
\* and the radio for not in use, as radio_active is clear again by then.
\* However late a handler is entered, and whatever the radio does otherwise,
\* the check and the window keep the outputs upright.
UprightUnlessStale == stale # "yes" => NeverFlipped

\* The radio never stops a handler between its check and its writes.
RadioSparesHandlers == radio = "on" => stage # "write"

\* What get_time_us returns is a time between its call and its return, however
\* the handler that advances global_time cuts in.  (While global_time is 0 the
\* loop is not entered and the function returns 0.)
TimeIsCurrent ==
  [][pc = "test" /\ pc' = "idle" /\ global_time # 0
       => (high + low - begun) % Wrap <= (Now - begun) % Wrap]_vars

\* Motors that are told to stop, stop.
MotorsStop ==
  []<>MainRuns /\ <>[](\A i \in Motors : ae[i] = 0)
    => <>[](\A i \in Motors : cc[i] = Base)
=============================================================================

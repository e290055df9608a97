--------------------------- MODULE Timers_proofs ----------------------------
(* Proofs about the motor outputs and the time base, for any number of     *)
(* motors, any width of the counter and any place of the write window in   *)
(* the period.                                                             *)
EXTENDS Timers, Modular, TLAPS

(* What keeps the outputs upright: as long as the radio has not been on    *)
(* since its capture, a handler knows where the counter is; behind its     *)
(* check it is still before the first place where an output may fall, and  *)
(* the radio was announced, if at all, after that check.                   *)
HandlerInTime ==
  /\ stage = "check" /\ stale = "no" =>
       radio # "on" /\ (taken < Window => count <= taken + age)
  /\ stage = "write" =>
       /\ radio # "on"
       /\ radio = "announced" => since <= age
       /\ stale # "yes" => count < Window + age
  /\ stale = "possible" => stage = "check"

RadioFlag == radio_active = (radio # "off")

TInv == TypeOK /\ RadioFlag /\ HandlerInTime /\ UprightUnlessStale

-----------------------------------------------------------------------------
(* What keeps the time current.  Seen from a call of get_time_us, time is  *)
(* global_time when it began, g, and what was added to it since, d, and at *)
(* the last load of high, e; the call began b microseconds into a period.  *)

Late == IF "TIMER2" \in pending THEN Increment ELSE 0
Micros == count \div Scale

\* global_time advances by whole increments, for no more laps than there were;
\* until it has advanced the counter is where it was at the call, or further.
Elapsed(g, b, d) ==
  /\ begun = (g + b) % Wrap
  /\ global_time = (g + d) % Wrap
  /\ d + Late <= laps * Increment
  /\ d = 0 \/ Increment <= d
  /\ d = 0 /\ "TIMER2" \notin pending => b <= Micros

HasHigh == pc \in {"capture", "read"} \/ (pc = "test" /\ high # 0)

Loaded(g, d, e) ==
  HasHigh => /\ high = (g + e) % Wrap
             /\ e = d \/ e + Increment <= d

\* As long as high is good, so is what the counter was captured at.
Between(b, d, m) == m <= Micros /\ (d = 0 => b <= m)

Good(b, d, e) ==
  e = d /\ "TIMER2" \notin pending =>
    /\ pc = "read" => Between(b, d, captured \div Scale)
    /\ pc = "test" /\ high # 0 => Between(b, d, low)

CallInv ==
  Reading =>
    \E g \in 0..Wrap - 1, b \in 0..Increment, d, e \in 0..MaxLaps * Increment :
      Elapsed(g, b, d) /\ Loaded(g, d, e) /\ Good(b, d, e)

-----------------------------------------------------------------------------
(* Arithmetic of the counter and of the time.                              *)

LEMMA ModInRange ==
  ASSUME NEW a \in Int, NEW n \in Nat \ {0}
  PROVE  a % n \in 0..n - 1
OBVIOUS

LEMMA DivMonotone ==
  ASSUME NEW a \in Nat, NEW b \in Nat, NEW n \in Nat \ {0}, a <= b
  PROVE  a \div n \in 0..(b \div n)
OBVIOUS

\* The counter starts over after Top - 1 and only then.
LEMMA CounterStep ==
  ASSUME NEW c \in 0..Top - 1, Top \in Nat
  PROVE  (c + 1) % Top = IF c = Top - 1 THEN 0 ELSE c + 1
OBVIOUS

-----------------------------------------------------------------------------
(* Preservation, one lemma for each part of the system.                    *)

LEMMA InitTInv == Init => TInv
<1> SUFFICES ASSUME Init PROVE TInv
  OBVIOUS
<1>1. TypeOK
  <2>1. captured \in 0..Top - 1 /\ low \in 0..Increment
    BY DivMonotone, TimersAssumption DEF Init, Increment
  <2>2. /\ count \in 0..Top - 1 /\ global_time \in 0..Wrap - 1
        /\ high \in 0..Wrap - 1 /\ begun \in 0..Wrap - 1
        /\ laps \in 0..MaxLaps /\ age \in 0..Slack /\ since \in 0..Dwell
    BY TimersAssumption DEF Init, Dwell
  <2>3. /\ cc \in [Motors -> Base..Base + Full] /\ level \in [Motors -> BOOLEAN]
        /\ ae \in [Motors -> Int] /\ motor \in [Motors -> Int]
    BY TimersAssumption DEF Init
  <2> QED
    BY <2>1, <2>2, <2>3 DEF Init, TypeOK, Handlers
<1>2. RadioFlag /\ HandlerInTime
  BY DEF Init, RadioFlag, HandlerInTime
<1>3. UprightUnlessStale
  <2> SUFFICES ASSUME NEW i \in Motors PROVE level[i] = (count < cc[i])
    BY DEF UprightUnlessStale, NeverFlipped
  <2>1. level[i] = TRUE /\ count = 0 /\ cc[i] = Base
    BY DEF Init
  <2>2. count < cc[i]
    BY <2>1, TimersAssumption
  <2> QED
    BY <2>1, <2>2
<1> QED
  BY <1>1, <1>2, <1>3 DEF TInv

LEMMA TickTInv == TInv /\ Tick => TInv'
<1> SUFFICES ASSUME TInv, Tick PROVE TInv'
  OBVIOUS
<1> USE TimersAssumption
<1>1. TypeOK /\ RadioFlag /\ HandlerInTime /\ UprightUnlessStale
  BY DEF TInv
<1>2. count' = IF count = Top - 1 THEN 0 ELSE count + 1
  BY <1>1, CounterStep DEF Tick, TypeOK
<1>3. count' \in 0..Top - 1
  BY <1>1, <1>2 DEF TypeOK
<1>4. age' \in 0..Slack
  BY <1>1 DEF Tick, TypeOK
<1>5. since' \in 0..Dwell'
  BY <1>1 DEF Tick, TypeOK, Dwell
<1>6. laps' \in 0..MaxLaps
  BY <1>1, <1>2 DEF Tick, TypeOK
<1>7. TypeOK'
  <2>1. level' \in [Motors -> BOOLEAN]
    BY <1>1 DEF Tick, TypeOK
  <2>2. pending' \subseteq Handlers
    BY <1>1 DEF Tick, TypeOK
  <2> QED
    BY <1>1, <1>3, <1>4, <1>5, <1>6, <2>1, <2>2 DEF Tick, TypeOK
<1>8. RadioFlag'
  BY <1>1 DEF Tick, RadioFlag
<1>9. HandlerInTime'
  <2>1. UNCHANGED <<stage, taken, stale, radio>>
    BY DEF Tick
  <2>2. /\ stage = "write" => Timed
        /\ stage = "check" /\ stale = "no" => Timed
    BY <1>1 DEF HandlerInTime, Timed, TypeOK
  <2>3. Timed => age' = age + 1 /\ age < Slack
    BY DEF Tick
  <2>4. count' <= count + 1 /\ count \in Nat /\ age \in Nat /\ taken \in Nat
    BY <1>1, <1>2 DEF TypeOK
  <2>5. ASSUME stage = "write"
        PROVE  /\ radio' # "on"
               /\ radio' = "announced" => since' <= age'
               /\ stale' # "yes" => count' < Window + age'
    BY <1>1, <2>1, <2>2, <2>3, <2>4, <2>5
       DEF Tick, TypeOK, HandlerInTime, Dwell
  <2>6. ASSUME stage = "check", stale = "no"
        PROVE  radio' # "on" /\ (taken' < Window => count' <= taken' + age')
    <3>1. radio # "on" /\ (taken < Window => count <= taken + age)
      BY <1>1, <2>6 DEF HandlerInTime
    <3>2. /\ radio' = radio /\ taken' = taken /\ age' = age + 1
          /\ count' \in Nat
      BY <1>3, <2>1, <2>2, <2>3, <2>6
    <3> QED
      BY <2>4, <3>1, <3>2
  <2> QED
    BY <1>1, <2>1, <2>5, <2>6 DEF HandlerInTime
<1>10. UprightUnlessStale'
  <2> SUFFICES ASSUME stale # "yes", NEW i \in Motors
               PROVE  level'[i] = (count' < cc'[i])
    BY DEF UprightUnlessStale, NeverFlipped, Tick
  <2>1. /\ cc'[i] = cc[i] /\ cc[i] \in Base..Base + Full
        /\ level[i] = (count < cc[i]) /\ level[i] \in BOOLEAN
    BY <1>1 DEF Tick, TypeOK, UprightUnlessStale, NeverFlipped
  <2>2. level'[i] = IF count' = 0 \/ count' = cc[i] THEN ~level[i]
                                                   ELSE level[i]
    BY DEF Tick, Toggles
  <2>3. CASE count = Top - 1
    <3>1. count' = 0 /\ ~(count < cc[i]) /\ count' < cc[i]
      BY <1>2, <2>1, <2>3
    <3> QED
      BY <3>1, <2>1, <2>2
  <2>4. CASE count # Top - 1
    <3>1. count' # 0 /\ count' = count + 1 /\ count \in Nat
      BY <1>1, <1>2, <2>4 DEF TypeOK
    <3>2. CASE count' = cc[i]
      <4>1. level'[i] = ~level[i]
        BY <2>2, <3>2
      <4>2. count < cc[i] /\ ~(count' < cc'[i])
        BY <2>1, <3>1, <3>2
      <4>3. level[i] = TRUE
        BY <2>1, <4>2
      <4>4. level'[i] = FALSE
        BY <4>1, <4>3
      <4>5. (count' < cc'[i]) = FALSE
        BY <2>1, <3>1, <4>2
      <4> QED
        BY <4>4, <4>5, Zenon
    <3>3. CASE count' # cc[i]
      <4>1. level'[i] = level[i]
        BY <2>2, <3>1, <3>3
      <4>2. (count' < cc'[i]) = (count < cc[i])
        BY <2>1, <3>1, <3>3
      <4>3. CASE count < cc[i]
        <5>1. level[i] = TRUE
          BY <2>1, <4>3
        <5> QED
          BY <4>1, <4>2, <4>3, <5>1
      <4>4. CASE ~(count < cc[i])
        <5>1. level[i] = FALSE
          BY <2>1, <4>4
        <5>2. (count' < cc'[i]) = FALSE
          BY <2>1, <3>1, <4>2, <4>4
        <5> QED
          BY <4>1, <5>1, <5>2, Zenon
      <4> QED
        BY <4>3, <4>4
    <3> QED
      BY <3>2, <3>3
  <2> QED
    BY <2>3, <2>4
<1> QED
  BY <1>7, <1>8, <1>9, <1>10 DEF TInv

LEMMA EnterTInv ==
  ASSUME TInv, NEW t \in Handlers, Enter(t)
  PROVE  TInv'
<1> USE TimersAssumption
<1>1. TypeOK /\ RadioFlag /\ HandlerInTime /\ UprightUnlessStale
  BY DEF TInv
<1>2. global_time' \in 0..Wrap - 1
  <2>1. Increment \in Int
    BY DEF Increment
  <2> QED
    BY <1>1, <2>1, ModInRange DEF Enter, TypeOK
<1>3. TypeOK'
  BY <1>1, <1>2 DEF Enter, TypeOK, Handlers, Dwell, pins, radioVars, mainVars,
     call
<1>4. RadioFlag'
  BY <1>1 DEF Enter, RadioFlag, radioVars
<1>5. HandlerInTime'
  <2>1. /\ radio # "on" /\ stage' = "check" /\ taken' = count /\ age' = 0
        /\ count' = count /\ radio' = radio
    BY DEF Enter, pins, radioVars
  <2>2. count \in Nat
    BY <1>1 DEF TypeOK
  <2> QED
    BY <2>1, <2>2 DEF HandlerInTime
<1>6. UprightUnlessStale'
  BY <1>1 DEF Enter, UprightUnlessStale, NeverFlipped, pins
<1> QED
  BY <1>3, <1>4, <1>5, <1>6 DEF TInv

\* A check that passes on what the handler captured, and the radio not on
\* since, passes before the outputs may fall.
LEMMA CheckTInv ==
  ASSUME TInv, Check
  PROVE  TInv'
<1> USE TimersAssumption
<1>1. TypeOK /\ RadioFlag /\ HandlerInTime /\ UprightUnlessStale
  BY DEF TInv
<1>2. /\ UNCHANGED <<pins, cc, pending, global_time, captured, radioVars,
                     motor, mainVars>>
      /\ taken' = 0 /\ stage = "check" /\ radio # "on"
  BY DEF Check
<1> DEFINE passes == MayWrite /\ MotorsOf(handler) # {}
<1>3. /\ passes => /\ stage' = "write" /\ todo' = MotorsOf(handler)
                   /\ handler' = handler /\ age' = age
      /\ ~passes => /\ handler' = "none" /\ stage' = "none" /\ age' = 0
                    /\ todo' = todo
      /\ stale' = IF stale # "possible" THEN stale
                  ELSE IF passes THEN "yes" ELSE "no"
  BY DEF Check, End
<1>4. passes => radio = "off" /\ taken < Window
  BY <1>1 DEF MayWrite, RadioFlag, TypeOK
<1> HIDE DEF passes
<1>5. TypeOK'
  <2>1. /\ todo' \subseteq Motors /\ age' \in 0..Slack
        /\ stage' \in {"none", "check", "write"}
        /\ handler' \in Handlers \cup {"none"}
        /\ (stage' = "none") = (handler' = "none")
        /\ stale' \in {"no", "possible", "yes"}
    <3>1. CASE passes
      BY <1>1, <1>2, <1>3, <3>1 DEF TypeOK, MotorsOf
    <3>2. CASE ~passes
      BY <1>1, <1>2, <1>3, <3>2 DEF TypeOK
    <3> QED
      BY <3>1, <3>2
  <2>2. taken' \in 0..Top - 1
    BY <1>2
  <2> QED
    BY <1>1, <1>2, <2>1, <2>2
    DEF TypeOK, Dwell, pins, radioVars, mainVars, call
<1>6. RadioFlag'
  BY <1>1, <1>2 DEF RadioFlag, radioVars
<1>7. HandlerInTime'
  <2>1. CASE passes
    <3>1. stale' # "yes" => count' < Window + age'
      <4>1. taken \in Nat /\ age \in Nat /\ count \in Nat
        BY <1>1 DEF TypeOK
      <4>2. stale' # "yes" => stale = "no"
        BY <1>1, <1>3, <2>1 DEF TypeOK
      <4> QED
        BY <1>1, <1>2, <1>3, <1>4, <2>1, <4>1, <4>2 DEF HandlerInTime, pins
    <3>2. stale' # "possible"
      BY <1>3, <2>1
    <3> QED
      BY <1>2, <1>3, <1>4, <2>1, <3>1, <3>2 DEF HandlerInTime, radioVars
  <2>2. CASE ~passes
    BY <1>3, <2>2 DEF HandlerInTime
  <2> QED
    BY <2>1, <2>2
<1>8. UprightUnlessStale'
  BY <1>1, <1>2, <1>3 DEF UprightUnlessStale, NeverFlipped, pins
<1> QED
  BY <1>5, <1>6, <1>7, <1>8 DEF TInv

LEMMA WriteTInv ==
  ASSUME TInv, NEW i \in Motors, WriteRegister(i)
  PROVE  TInv'
<1> USE TimersAssumption
<1>1. TypeOK /\ RadioFlag /\ HandlerInTime /\ UprightUnlessStale
  BY DEF TInv
<1>2. Clamp(motor[i]) \in 0..Full
  BY <1>1 DEF TypeOK, Clamp
<1>3. cc' = [cc EXCEPT ![i] = Base + Clamp(motor[i])]
  BY <1>1 DEF WriteRegister, TypeOK
<1>4. TypeOK'
  <2>1. cc' \in [Motors -> Base..Base + Full]
    BY <1>1, <1>2, <1>3 DEF TypeOK
  <2>2. motor' \in [Motors -> Int]
    BY <1>1, <1>2 DEF WriteRegister, TypeOK
  <2> QED
    BY <1>1, <2>1, <2>2 DEF WriteRegister, End, TypeOK, Dwell, pins,
       radioVars, mainVars, call
<1>5. RadioFlag'
  BY <1>1 DEF WriteRegister, RadioFlag, radioVars
<1>6. HandlerInTime'
  BY <1>1 DEF WriteRegister, End, HandlerInTime, pins, radioVars
<1>7. UprightUnlessStale'
  <2> SUFFICES ASSUME stale # "yes", NEW j \in Motors
               PROVE  level'[j] = (count' < cc'[j])
    BY DEF UprightUnlessStale, NeverFlipped, WriteRegister
  <2>1. level' = level /\ count' = count /\ level[j] = (count < cc[j])
    BY <1>1 DEF WriteRegister, UprightUnlessStale, NeverFlipped, pins
  <2>2. CASE j = i
    <3>1. count < Base
      BY <1>1 DEF WriteRegister, TypeOK, HandlerInTime
    <3>2. count < cc[j] /\ count < cc'[j]
      BY <1>1, <1>2, <1>3, <2>2, <3>1 DEF TypeOK
    <3> QED
      BY <2>1, <3>2
  <2>3. CASE j # i
    BY <1>1, <1>3, <2>1, <2>3 DEF TypeOK
  <2> QED
    BY <2>2, <2>3
<1> QED
  BY <1>4, <1>5, <1>6, <1>7 DEF TInv

\* The radio cannot be switched on under a handler that writes: Slack < Notice.
LEMMA RadioTInv == TInv /\ (Announce \/ SwitchOn \/ SwitchOff) => TInv'
<1> SUFFICES ASSUME TInv, Announce \/ SwitchOn \/ SwitchOff PROVE TInv'
  OBVIOUS
<1> USE TimersAssumption
<1>1. TypeOK /\ RadioFlag /\ HandlerInTime /\ UprightUnlessStale
  BY DEF TInv
<1>2. radio' \in {"off", "announced", "on"} /\ since' = 0
  BY DEF Announce, SwitchOn, SwitchOff
<1>3. /\ UNCHANGED <<pins, cc, pending, writing, global_time, captured, motor,
                     mainVars>>
      /\ radio_active' \in BOOLEAN /\ stale' \in {"no", "possible", "yes"}
      /\ stale' # "yes" => stale # "yes"
  BY <1>1 DEF Announce, SwitchOn, SwitchOff, TypeOK, interrupts
<1>4. TypeOK'
  BY <1>1, <1>2, <1>3 DEF TypeOK, Dwell, pins, writing, mainVars, call
<1>5. RadioFlag'
  BY <1>1 DEF Announce, SwitchOn, SwitchOff, TypeOK, RadioFlag
<1>6. HandlerInTime'
  BY <1>1 DEF Announce, SwitchOn, SwitchOff, TypeOK, HandlerInTime, pins,
     interrupts, writing
<1>7. UprightUnlessStale'
  BY <1>1, <1>3 DEF UprightUnlessStale, NeverFlipped, pins
<1> QED
  BY <1>4, <1>5, <1>6, <1>7 DEF TInv

LEMMA MainTInv == TInv /\ Main => TInv'
<1> SUFFICES ASSUME TInv, Main PROVE TInv'
  OBVIOUS
<1> USE TimersAssumption
<1>1. TypeOK /\ RadioFlag /\ HandlerInTime /\ UprightUnlessStale
  BY DEF TInv
<1> DEFINE Kept == UNCHANGED <<pins, cc, interrupts, global_time, radioVars>>
           Sound == /\ pc' \in {"idle", "store", "test", "load", "capture",
                                "read"}
                    /\ captured' \in 0..Top - 1
                    /\ ae' \in [Motors -> Int] /\ motor' \in [Motors -> Int]
                    /\ unstored' \subseteq Motors
                    /\ high' \in 0..Wrap - 1 /\ low' \in 0..Increment
                    /\ begun' \in 0..Wrap - 1 /\ laps' \in 0..MaxLaps
<1>2. Kept
  BY DEF Main, GetTime, RunControl, StoreMotor, CallGetTime, TestHigh,
     LoadHigh, Capture, ReadCapture, MainStep
<1>3. Sound
  <2>1. 0 \in 0..Increment
    BY DivMonotone DEF Increment
  <2>2. CASE RunControl
    BY <1>1, <2>2 DEF RunControl, MainStep, TypeOK, call
  <2>3. CASE \E i \in Motors : StoreMotor(i)
    BY <1>1, <2>3 DEF StoreMotor, MainStep, TypeOK, call, Least
  <2>4. CASE CallGetTime
    <3>1. Now \in 0..Wrap - 1
      <4>1. count \div Scale \in Int
        BY <1>1 DEF TypeOK
      <4> QED
        BY <1>1, <4>1, ModInRange DEF TypeOK, Now
    <3> QED
      BY <1>1, <2>1, <2>4, <3>1 DEF CallGetTime, MainStep, TypeOK
  <2>5. CASE TestHigh
    BY <1>1, <2>1, <2>5 DEF TestHigh, MainStep, TypeOK, call
  <2>6. CASE LoadHigh
    BY <1>1, <2>6 DEF LoadHigh, MainStep, TypeOK
  <2>7. CASE Capture
    BY <1>1, <2>7 DEF Capture, MainStep, TypeOK, call
  <2>8. CASE ReadCapture
    <3>1. captured \in Nat /\ Top - 1 \in Nat /\ captured <= Top - 1
      BY <1>1 DEF TypeOK
    <3>2. captured \div Scale \in 0..Increment
      BY <3>1, DivMonotone DEF Increment
    <3> QED
      BY <1>1, <2>8, <3>2 DEF ReadCapture, MainStep, TypeOK
  <2> QED
    BY <2>2, <2>3, <2>4, <2>5, <2>6, <2>7, <2>8 DEF Main, GetTime
<1>4. TypeOK'
  BY <1>1, <1>2, <1>3 DEF TypeOK, Dwell, pins, interrupts, writing, radioVars
<1>5. RadioFlag' /\ HandlerInTime' /\ UprightUnlessStale'
  BY <1>1, <1>2 DEF RadioFlag, HandlerInTime, UprightUnlessStale,
     NeverFlipped, pins, interrupts, writing, radioVars
<1> QED
  BY <1>4, <1>5 DEF TInv

LEMMA StutterTInv == TInv /\ UNCHANGED vars => TInv'
BY DEF TInv, TypeOK, RadioFlag, HandlerInTime, UprightUnlessStale,
   NeverFlipped, Dwell, vars, pins, interrupts, writing, radioVars, mainVars,
   call

-----------------------------------------------------------------------------
\* The inductive invariant holds of every behaviour.
THEOREM Upright == Spec => []TInv
<1>1. Init => TInv
  BY InitTInv
<1>2. TInv /\ [Next]_vars => TInv'
  BY TickTInv, EnterTInv, CheckTInv, WriteTInv, RadioTInv, MainTInv,
     StutterTInv DEF Next
<1> QED
  BY <1>1, <1>2, PTL DEF Spec

\* The compare registers hold legal pulses and the time stays in its range.
THEOREM TypeCorrect == Spec => []TypeOK
<1>1. TInv => TypeOK
  BY DEF TInv
<1> QED
  BY <1>1, Upright, PTL

\* No motor output is inverted unless the radio stopped a handler between its
\* capture and its check: otherwise timers.c writes a register only where the
\* counter cannot meet the old or the new value on the way.
THEOREM OutputsUpright == Spec => []UprightUnlessStale
<1>1. TInv => UprightUnlessStale
  BY DEF TInv
<1> QED
  BY <1>1, Upright, PTL

\* The notification distance is long enough for any handler under way.
THEOREM RadioWaits == Spec => []RadioSparesHandlers
<1>1. TInv => RadioSparesHandlers
  BY DEF TInv, HandlerInTime, RadioSparesHandlers
<1> QED
  BY <1>1, Upright, PTL

-----------------------------------------------------------------------------
(* Time, as a call of get_time_us sees it.                                 *)

\* What lies less than one round apart is as far apart as its places.
LEMMA PlacesApart ==
  ASSUME NEW n \in Nat \ {0}, NEW a \in Nat, NEW b \in Nat, NEW c \in Int,
         0 <= a + c - b, a + c - b < n
  PROVE  ((a % n) + c - (b % n)) % n = a + c - b
<1> DEFINE x == a \div n
           y == b \div n
           r == a % n
           s == b % n
           m == r + c - s
           z == m \div n
           t == m % n
<1>1. /\ x \in Nat /\ r \in 0..n - 1 /\ a = n * x + r
      /\ y \in Nat /\ s \in 0..n - 1 /\ b = n * y + s
  BY Division
<1> HIDE DEF x, y, r, s
<1>2. m \in Int
  BY <1>1
<1> HIDE DEF m
<1>3. z \in Int /\ t \in 0..n - 1 /\ m = n * z + t
  BY <1>2
<1> HIDE DEF z, t
<1>4. n * (z + x - y) = n * z + n * x - n * y
  BY <1>1, <1>3
<1> DEFINE w == z + x - y
<1>5. w \in Int /\ a + c - b = n * w + t
  BY <1>1, <1>3, <1>4 DEF m
<1> HIDE DEF w
<1>6. w = 0
  <2>1. CASE w >= 1
    <3>1. n * w >= n
      BY <1>5, <2>1
    <3> QED
      BY <1>3, <1>5, <3>1
  <2>2. CASE w <= -1
    <3>1. n * w <= -n
      BY <1>5, <2>2
    <3> QED
      BY <1>3, <1>5, <3>1
  <2> QED
    BY <1>5, <2>1, <2>2
<1>7. t = a + c - b
  BY <1>3, <1>5, <1>6
<1> QED
  BY <1>7 DEF t, m, r, s

LEMMA Products ==
  ASSUME NEW n \in Nat, NEW m \in Nat, n <= m, NEW i \in Nat
  PROVE  n * i \in Nat /\ n * i <= m * i /\ (n + 1) * i = n * i + i
OBVIOUS

LEMMA ClockAdvances == Increment \in Nat \ {0}
<1>1. Scale \in Nat \ {0} /\ Top - 1 \in Nat /\ Scale <= Top - 1
  BY TimersAssumption, ClockAssumption
<1> DEFINE x == (Top - 1) \div Scale
<1>2. x \in Nat /\ (Top - 1) % Scale \in 0..Scale - 1
      /\ Top - 1 = Scale * x + ((Top - 1) % Scale)
  BY <1>1, Division
<1>3. x # 0
  BY <1>1, <1>2
<1> QED
  BY <1>2, <1>3 DEF Increment

LEMMA MicrosBounded ==
  ASSUME TypeOK
  PROVE  Micros \in 0..Increment /\ captured \div Scale \in 0..Increment
<1>1. /\ count \in Nat /\ captured \in Nat /\ Top - 1 \in Nat
      /\ count <= Top - 1 /\ captured <= Top - 1 /\ Scale \in Nat \ {0}
  BY TimersAssumption DEF TypeOK
<1>2. count \div Scale \in 0..((Top - 1) \div Scale)
  BY <1>1, DivMonotone
<1>3. captured \div Scale \in 0..((Top - 1) \div Scale)
  BY <1>1, DivMonotone
<1> QED
  BY <1>2, <1>3 DEF Micros, Increment

LEMMA LapsBounded ==
  ASSUME TypeOK
  PROVE  /\ laps * Increment \in Nat /\ MaxLaps * Increment \in Nat
         /\ laps * Increment <= MaxLaps * Increment
         /\ MaxLaps * Increment + Increment < Wrap
<1>1. /\ laps \in Nat /\ MaxLaps \in Nat /\ laps <= MaxLaps
      /\ Increment \in Nat /\ Wrap \in Nat
  BY TimersAssumption, ClockAdvances DEF TypeOK
<1>2. laps * Increment \in Nat /\ laps * Increment <= MaxLaps * Increment
  BY <1>1, Products
<1>3. MaxLaps * Increment \in Nat
      /\ (MaxLaps + 1) * Increment = MaxLaps * Increment + Increment
  BY <1>1, Products
<1> QED
  BY <1>2, <1>3, ClockAssumption

-----------------------------------------------------------------------------
(* One lemma for each part of the system, again.                           *)

\* The handler of TIMER2 moves the time on and puts high out of date.
LEMMA EnterCall ==
  ASSUME TInv, CallInv, NEW t \in Handlers, Enter(t)
  PROVE  CallInv'
<1>1. TypeOK
  BY DEF TInv
<1>2. /\ Increment \in Nat \ {0} /\ Micros \in 0..Increment
      /\ laps * Increment \in Nat /\ MaxLaps * Increment \in Nat
      /\ laps * Increment <= MaxLaps * Increment
  BY <1>1, ClockAdvances, MicrosBounded, LapsBounded
<1>3. Micros' = Micros /\ UNCHANGED <<pc, high, low, begun, laps>>
  BY DEF Enter, Micros, pins, mainVars, call
<1> SUFFICES ASSUME Reading' PROVE CallInv'
  BY DEF CallInv
<1>4. Reading
  BY <1>3 DEF Reading
<1>5. PICK g \in 0..Wrap - 1, b \in 0..Increment,
           d \in 0..MaxLaps * Increment, e \in 0..MaxLaps * Increment :
        Elapsed(g, b, d) /\ Loaded(g, d, e) /\ Good(b, d, e)
  BY <1>4 DEF CallInv
<1>6. CASE t = "TIMER2"
  <2>1. /\ Late = Increment /\ Late' = 0
        /\ global_time' = (global_time + Increment) % Wrap
    BY <1>6 DEF Enter, Late
  <2>2. global_time' = (g + (d + Increment)) % Wrap
    <3>1. g + d \in Nat /\ Wrap \in Nat \ {0}
      BY <1>2, TimersAssumption
    <3>2. (((g + d) % Wrap) + Increment) % Wrap = ((g + d) + Increment) % Wrap
      BY <1>2, <3>1, StepFromPlace
    <3>3. (g + d) + Increment = g + (d + Increment)
      BY <1>2, <3>1
    <3> QED
      BY <1>5, <2>1, <3>2, <3>3 DEF Elapsed
  <2>3. d + Increment <= laps * Increment
    BY <1>5, <2>1 DEF Elapsed
  <2>4. d + Increment \in 0..MaxLaps * Increment
    BY <1>2, <2>3
  <2>5. Elapsed(g, b, d + Increment)'
    BY <1>2, <1>3, <1>5, <2>1, <2>2, <2>3 DEF Elapsed
  <2>6. Loaded(g, d + Increment, e)'
    BY <1>2, <1>3, <1>5 DEF Loaded, HasHigh
  <2>7. Good(b, d + Increment, e)'
    <3>1. HasHigh => e # d + Increment
      BY <1>2, <1>5 DEF Loaded
    <3> QED
      BY <1>3, <3>1 DEF Good, HasHigh
  <2> QED
    BY <1>2, <1>3, <2>4, <2>5, <2>6, <2>7 DEF CallInv
<1>7. CASE t # "TIMER2"
  <2>1. /\ global_time' = global_time /\ captured' = captured
        /\ ("TIMER2" \in pending') = ("TIMER2" \in pending)
    BY <1>7 DEF Enter
  <2>2. Late' = Late
    BY <2>1 DEF Late
  <2> QED
    BY <1>3, <1>5, <2>1, <2>2 DEF CallInv, Elapsed, Loaded, HasHigh, Good,
       Between
<1> QED
  BY <1>6, <1>7

LEMMA TickCall == TInv /\ CallInv /\ Tick => CallInv'
<1> SUFFICES ASSUME TInv, CallInv, Tick, Reading' PROVE CallInv'
  BY DEF CallInv
<1>1. TypeOK
  BY DEF TInv
<1>2. /\ Increment \in Nat \ {0} /\ Micros \in 0..Increment
      /\ captured \div Scale \in 0..Increment
      /\ laps * Increment \in Nat /\ MaxLaps * Increment \in Nat
      /\ laps * Increment <= MaxLaps * Increment
  BY <1>1, ClockAdvances, MicrosBounded, LapsBounded
<1>3. UNCHANGED <<pc, high, low, begun, global_time, captured>>
  BY DEF Tick
<1>4. Reading
  BY <1>3 DEF Reading
<1>5. PICK g \in 0..Wrap - 1, b \in 0..Increment,
           d \in 0..MaxLaps * Increment, e \in 0..MaxLaps * Increment :
        Elapsed(g, b, d) /\ Loaded(g, d, e) /\ Good(b, d, e)
  BY <1>4 DEF CallInv
<1>6. count' = IF count = Top - 1 THEN 0 ELSE count + 1
  BY <1>1, CounterStep, TimersAssumption DEF Tick, TypeOK
<1>7. Loaded(g, d, e)'
  BY <1>3, <1>5 DEF Loaded, HasHigh
<1>8. Elapsed(g, b, d)' /\ Good(b, d, e)'
  <2>1. CASE count' = 0
    <3>1. pending' = Handlers /\ laps' = laps + 1 /\ Late' = Increment
      BY <1>4, <2>1 DEF Tick, Late, Handlers
    <3>2. "TIMER2" \in pending'
      BY <3>1 DEF Handlers
    <3>3. laps' * Increment = laps * Increment + Increment
      BY <1>1, <1>2, <3>1, Products DEF TypeOK
    <3>4. d <= laps * Increment
      <4>1. Late \in Nat
        BY <1>2 DEF Late
      <4> QED
        BY <1>2, <1>5, <4>1 DEF Elapsed
    <3>5. Elapsed(g, b, d)'
      <4>1. d + Late' <= laps' * Increment
        BY <1>2, <3>1, <3>3, <3>4
      <4> QED
        BY <1>3, <1>5, <3>2, <4>1 DEF Elapsed
    <3> QED
      BY <3>2, <3>5 DEF Good
  <2>2. CASE count' # 0
    <3>1. pending' = pending /\ laps' = laps /\ Late' = Late
      BY <1>4, <2>2 DEF Tick, Late
    <3>2. Micros' \in Nat /\ Micros <= Micros'
      <4>1. count \in Nat /\ count' \in Nat /\ count <= count'
        BY <1>1, <1>6, <2>2 DEF TypeOK
      <4>2. count \div Scale \in 0..(count' \div Scale)
        BY <4>1, DivMonotone, TimersAssumption
      <4>3. Micros \in 0..Micros'
        BY <4>2 DEF Micros
      <4>4. Micros' \in Int
        BY <4>1, TimersAssumption DEF Micros
      <4> QED
        BY <4>3, <4>4
    <3>3. Elapsed(g, b, d)'
      BY <1>2, <1>3, <1>5, <3>1, <3>2 DEF Elapsed
    <3>4. low \in Nat
      BY <1>1, <1>2 DEF TypeOK
    <3>5. Good(b, d, e)'
      BY <1>2, <1>3, <1>5, <3>1, <3>2, <3>4 DEF Good, Between
    <3> QED
      BY <3>3, <3>5
  <2> QED
    BY <2>1, <2>2
<1> QED
  BY <1>5, <1>7, <1>8 DEF CallInv

\* The main thread runs with no interrupt waiting: global_time is not behind.
LEMMA MainCall == TInv /\ CallInv /\ Main => CallInv'
<1> SUFFICES ASSUME TInv, CallInv, Main, Reading' PROVE CallInv'
  BY DEF CallInv
<1>1. TypeOK
  BY DEF TInv
<1>2. /\ Increment \in Nat \ {0} /\ Micros \in 0..Increment
      /\ captured \div Scale \in 0..Increment
      /\ laps * Increment \in Nat /\ MaxLaps * Increment \in Nat
      /\ laps * Increment <= MaxLaps * Increment
  BY <1>1, ClockAdvances, MicrosBounded, LapsBounded
<1>3. /\ "TIMER2" \notin pending
      /\ UNCHANGED <<count, pending, global_time>>
  BY DEF Main, GetTime, RunControl, StoreMotor, CallGetTime, TestHigh,
     LoadHigh, Capture, ReadCapture, MainStep, MainRuns, pins, interrupts
<1>4. Micros' = Micros /\ Late = 0 /\ Late' = 0
  BY <1>3 DEF Micros, Late
<1>5. CASE CallGetTime
  <2>1. /\ pc' = "test" /\ high' = 0 /\ laps' = 0
        /\ begun' = (global_time + Micros) % Wrap
    BY <1>5 DEF CallGetTime, MainStep, Now, Micros
  <2>2. global_time \in 0..Wrap - 1 /\ Wrap \in Nat \ {0}
    BY <1>1, TimersAssumption DEF TypeOK
  <2>3. global_time = (global_time + 0) % Wrap
    BY <2>2, SmallRemainder
  <2>4. 0 * Increment = 0
    BY <1>2
  <2>5. Elapsed(global_time, Micros, 0)'
    BY <1>2, <1>3, <1>4, <2>1, <2>3, <2>4 DEF Elapsed
  <2>6. Loaded(global_time, 0, 0)' /\ Good(Micros, 0, 0)'
    BY <2>1 DEF Loaded, HasHigh, Good
  <2>7. 0 \in 0..MaxLaps * Increment
    BY <1>2
  <2>8. \E g \in 0..Wrap - 1, b \in 0..Increment,
           d, e \in 0..MaxLaps * Increment :
          Elapsed(g, b, d)' /\ Loaded(g, d, e)' /\ Good(b, d, e)'
    BY <1>2, <1>3, <1>4, <2>2, <2>5, <2>6, <2>7
  <2> QED
    BY <2>8 DEF CallInv
<1>6. CASE TestHigh \/ LoadHigh \/ Capture \/ ReadCapture
  <2>1. Reading /\ begun' = begun /\ laps' = laps
    BY <1>6 DEF TestHigh, LoadHigh, Capture, ReadCapture, MainStep, Reading,
       call
  <2>2. PICK g \in 0..Wrap - 1, b \in 0..Increment,
             d \in 0..MaxLaps * Increment, e \in 0..MaxLaps * Increment :
          Elapsed(g, b, d) /\ Loaded(g, d, e) /\ Good(b, d, e)
    BY <2>1 DEF CallInv
  <2>3. Elapsed(g, b, d)'
    BY <1>3, <1>4, <2>1, <2>2 DEF Elapsed
  <2>4. d = 0 => b <= Micros
    BY <1>3, <2>2 DEF Elapsed
  <2>5. CASE TestHigh
    <3>1. pc' = "load"
      BY <2>5 DEF TestHigh, MainStep, Reading
    <3>2. Loaded(g, d, e)' /\ Good(b, d, e)'
      BY <3>1 DEF Loaded, HasHigh, Good
    <3> QED
      BY <2>3, <3>2 DEF CallInv
  <2>6. CASE LoadHigh
    <3>1. pc' = "capture" /\ high' = global_time
      BY <2>6 DEF LoadHigh, MainStep
    <3>2. Loaded(g, d, d)' /\ Good(b, d, d)'
      BY <2>2, <3>1 DEF Loaded, HasHigh, Good, Elapsed
    <3> QED
      BY <2>3, <3>2 DEF CallInv
  <2>7. CASE Capture
    <3>1. /\ pc = "capture" /\ pc' = "read" /\ high' = high
          /\ captured' = count
      BY <2>7 DEF Capture, MainStep, call
    <3>2. Loaded(g, d, e)'
      BY <2>2, <3>1 DEF Loaded, HasHigh
    <3>3. Between(b, d, Micros)'
      BY <1>2, <1>4, <2>4 DEF Between
    <3>4. Good(b, d, e)'
      BY <1>4, <3>1, <3>3 DEF Good, Between, Micros
    <3> QED
      BY <2>3, <3>2, <3>4 DEF CallInv
  <2>8. CASE ReadCapture
    <3>1. /\ pc = "read" /\ pc' = "test" /\ high' = high
          /\ low' = captured \div Scale
      BY <2>8 DEF ReadCapture, MainStep
    <3>2. Loaded(g, d, e)'
      BY <2>2, <3>1 DEF Loaded, HasHigh
    <3>3. Good(b, d, e)'
      BY <1>3, <1>4, <2>2, <3>1 DEF Good, Between
    <3> QED
      BY <2>3, <3>2, <3>3 DEF CallInv
  <2> QED
    BY <1>6, <2>5, <2>6, <2>7, <2>8
<1>7. CASE RunControl \/ \E i \in Motors : StoreMotor(i)
  BY <1>7 DEF RunControl, StoreMotor, MainStep, Reading
<1> QED
  BY <1>5, <1>6, <1>7 DEF Main, GetTime

LEMMA OtherCall ==
  ASSUME CallInv,
         UNCHANGED <<count, pending, global_time, captured, pc, call>>
  PROVE  CallInv'
BY DEF CallInv, Reading, Elapsed, Late, Micros, Loaded, HasHigh, Good, Between,
   call

LEMMA StepCall == TInv /\ CallInv /\ [Next]_vars => CallInv'
<1> SUFFICES ASSUME TInv, CallInv, [Next]_vars PROVE CallInv'
  OBVIOUS
<1>1. CASE \/ Check \/ \E i \in Motors : WriteRegister(i)
           \/ Announce \/ SwitchOn \/ SwitchOff \/ UNCHANGED vars
  <2>1. UNCHANGED <<count, pending, global_time, captured, pc, call>>
    BY <1>1 DEF Check, WriteRegister, Announce, SwitchOn, SwitchOff, vars,
       pins, interrupts, mainVars
  <2> QED
    BY <2>1, OtherCall
<1> QED
  BY <1>1, TickCall, EnterCall, MainCall DEF Next

\* What a call returns is the time when it captured the counter.
LEMMA ReturnsCurrent ==
  ASSUME TInv, CallInv, [Next]_vars,
         pc = "test", pc' = "idle", global_time # 0
  PROVE  (high + low - begun) % Wrap <= (Now - begun) % Wrap
<1>1. TypeOK
  BY DEF TInv
<1>2. /\ Increment \in Nat \ {0} /\ Micros \in 0..Increment
      /\ laps * Increment \in Nat /\ MaxLaps * Increment \in Nat
      /\ laps * Increment <= MaxLaps * Increment
      /\ MaxLaps * Increment + Increment < Wrap
      /\ low \in 0..Increment /\ Wrap \in Nat \ {0}
  BY <1>1, ClockAdvances, MicrosBounded, LapsBounded, TimersAssumption
     DEF TypeOK
<1>3. TestHigh
  BY DEF Next, Main, GetTime, Tick, Enter, Check, WriteRegister, Announce,
     SwitchOn, SwitchOff, RunControl, StoreMotor, CallGetTime, LoadHigh, Capture,
     ReadCapture, MainStep, vars, mainVars
<1>4. high = global_time /\ "TIMER2" \notin pending
  BY <1>3 DEF TestHigh, MainStep, MainRuns
<1>5. PICK g \in 0..Wrap - 1, b \in 0..Increment,
           d \in 0..MaxLaps * Increment, e \in 0..MaxLaps * Increment :
        Elapsed(g, b, d) /\ Loaded(g, d, e) /\ Good(b, d, e)
  BY DEF CallInv, Reading
<1>6. /\ begun = (g + b) % Wrap /\ global_time = (g + d) % Wrap
      /\ d = 0 \/ Increment <= d
      /\ high = (g + e) % Wrap
      /\ e = d \/ e + Increment <= d
  BY <1>4, <1>5 DEF Elapsed, Loaded, HasHigh
<1>7. e = d
  <2> SUFFICES ASSUME e < d PROVE FALSE
    BY <1>2, <1>6
  <2>1. /\ g + e \in Nat /\ g + d \in Nat
        /\ g + e < g + d /\ g + d < (g + e) + Wrap
    BY <1>2
  <2>2. (g + e) % Wrap # (g + d) % Wrap
    BY <1>2, <2>1, DifferentPlaces
  <2> QED
    BY <1>4, <1>6, <2>2
<1>8. low <= Micros /\ (d = 0 => b <= low)
  BY <1>4, <1>5, <1>7 DEF Good, Between
<1>9. /\ g + d \in Nat /\ g + b \in Nat
      /\ 0 <= (g + d) + low - (g + b) /\ (g + d) + low - (g + b) < Wrap
      /\ 0 <= (g + d) + Micros - (g + b) /\ (g + d) + Micros - (g + b) < Wrap
  BY <1>2, <1>6, <1>8
<1>10. (high + low - begun) % Wrap = (g + d) + low - (g + b)
  <2>1. (((g + d) % Wrap) + low - ((g + b) % Wrap)) % Wrap
          = (g + d) + low - (g + b)
    BY <1>2, <1>9, PlacesApart
  <2> QED
    BY <1>4, <1>6, <2>1
<1>11. (Now - begun) % Wrap = (g + d) + Micros - (g + b)
  <2> DEFINE u == global_time + Micros
  <2>1. u \in Nat /\ begun \in 0..Wrap - 1
    BY <1>1, <1>2 DEF TypeOK
  <2>2. Now = u % Wrap /\ g + d + Micros \in Nat
    BY <1>2 DEF Now, Micros
  <2>3. u % Wrap = ((g + d) + Micros) % Wrap
    <3>1. (((g + d) % Wrap) + Micros) % Wrap = ((g + d) + Micros) % Wrap
      <4>1. g + d \in Nat /\ Micros \in Nat /\ Wrap \in Nat \ {0}
        BY <1>2, <1>9
      <4> QED
        BY <4>1, StepFromPlace
    <3>2. u = ((g + d) % Wrap) + Micros
      BY <1>6
    <3> QED
      BY <3>1, <3>2, Zenon
  <2>4. ((((g + d) + Micros) % Wrap) + 0 - ((g + b) % Wrap)) % Wrap
          = ((g + d) + Micros) + 0 - (g + b)
    BY <1>2, <1>9, PlacesApart
  <2>5. Now \in Int /\ Now = ((g + d) + Micros) % Wrap
    BY <1>2, <2>2, <2>3
  <2>6. (Now + 0 - begun) % Wrap = ((g + d) + Micros) + 0 - (g + b)
    BY <1>6, <2>4, <2>5
  <2>7. Now + 0 - begun = Now - begun
    BY <2>1, <2>5
  <2> QED
    BY <1>2, <1>9, <2>6, <2>7
<1> QED
  BY <1>2, <1>8, <1>10, <1>11

\* The loop of get_time_us returns a time between its call and its return,
\* whatever interrupts it, for a call that takes less than the range of time.
THEOREM TimeStaysCurrent == Spec => TimeIsCurrent
<1>1. Init => CallInv
  BY DEF Init, CallInv, Reading
<1>2. TInv /\ CallInv /\ [Next]_vars => CallInv'
  BY StepCall
<1>3. TInv /\ CallInv /\ [Next]_vars
        => [pc = "test" /\ pc' = "idle" /\ global_time # 0
             => (high + low - begun) % Wrap <= (Now - begun) % Wrap]_vars
  BY ReturnsCurrent
<1> QED
  BY <1>1, <1>2, <1>3, Upright, PTL DEF Spec, TimeIsCurrent
=============================================================================

---------------------------- MODULE Flight_proofs ----------------------------
(***************************************************************************)
(* What the terminal believes of the drone (Flight), for any keys, any     *)
(* number of messages under way and any number of losses.                  *)
(***************************************************************************)
EXTENDS Flight, TLAPS

Requests == {SetMode(m) : m \in Modes}
              \cup {SetPValues("yaw", op) : op \in {"INCREMENT", "DECREMENT"}}
Answers == {ModeUpdate(m) : m \in Modes}
             \cup {PValuesUpdate("yaw", 0), CalibrationData, Terminate}

LinkTypeOK == uplink \in Seq(Requests) /\ downlink \in Seq(Answers)

FlightInv == FlightTypeOK /\ LinkTypeOK /\ BeliefIsLatest

-----------------------------------------------------------------------------
(* Messages.                                                               *)

LEMMA RequestFields ==
  ASSUME NEW r \in Requests
  PROVE  /\ r.type = "SET_MODE" => r.mode \in Modes
         /\ r.type = "SET_P_VALUES" => r.select = "yaw"
BY DEF Requests, SetMode, SetPValues

LEMMA AnswerFields ==
  ASSUME NEW a \in Answers
  PROVE  a.type = "MODE_UPDATE" => a.mode \in Modes
BY DEF Answers, ModeUpdate, PValuesUpdate, CalibrationData, Terminate

LEMMA KeyRequests ==
  ASSUME NEW k \in Int
  PROVE  /\ RequestedMode(k) \in Modes \cup {NO_MODE}
         /\ MessagesOf(k) \in Seq(Requests)
<1>1. RequestedMode(k) \in Modes \cup {NO_MODE}
  BY DEF RequestedMode, Modes, SAFE_MODE, PANIC_MODE, CALIBRATION_MODE,
         TERMINATE_MODE, FlightModes, MANUAL_MODE, YAW_CONTROL_MODE,
         FULL_CONTROL_MODE, RAW_MODE
<1>2. NO_MODE \notin Modes
  BY DEF NO_MODE, Modes
<1>3. ASSUME NEW r \in Requests PROVE <<r>> \in Seq(Requests)
  OBVIOUS
<1>4. /\ SetPValues("yaw", "INCREMENT") \in Requests
      /\ SetPValues("yaw", "DECREMENT") \in Requests
      /\ RequestedMode(k) \in Modes => SetMode(RequestedMode(k)) \in Requests
  BY DEF Requests
<1>5. <<>> \in Seq(Requests)
  OBVIOUS
<1> QED
  BY <1>1, <1>2, <1>3, <1>4, <1>5 DEF MessagesOf

\* Appended behind what is under way.
LEMMA Joined ==
  ASSUME NEW S, NEW s \in Seq(S), NEW t \in Seq(S)
  PROVE  s \o t \in Seq(S)
OBVIOUS

LEMMA Appended ==
  ASSUME NEW S, NEW s \in Seq(S), NEW e \in S
  PROVE  /\ Append(s, e) \in Seq(S) /\ Len(Append(s, e)) = Len(s) + 1
         /\ \A i \in 1..Len(s) : Append(s, e)[i] = s[i]
         /\ Append(s, e)[Len(s) + 1] = e
OBVIOUS

LEMMA Popped ==
  ASSUME NEW S, NEW s \in Seq(S), s # <<>>
  PROVE  /\ Head(s) \in S /\ Tail(s) \in Seq(S)
         /\ Head(s) = s[1] /\ Len(s) \in Nat /\ Len(s) >= 1
         /\ Len(Tail(s)) = Len(s) - 1
         /\ \A i \in 1..Len(s) - 1 : Tail(s)[i] = s[i + 1]
OBVIOUS

-----------------------------------------------------------------------------
(* What is announced when a message is sent, read or left alone.           *)

\* A new mode is announced last.
LEMMA AnnounceNew ==
  ASSUME LinkTypeOK, NEW m \in Modes, downlink' = Append(downlink, ModeUpdate(m))
  PROVE  \E i \in 1..Len(downlink') :
           /\ IsUpdate(downlink'[i]) /\ m = downlink'[i].mode
           /\ \A j \in i + 1..Len(downlink') : ~IsUpdate(downlink'[j])
<1>1. ModeUpdate(m) \in Answers /\ downlink \in Seq(Answers)
  BY DEF Answers, LinkTypeOK
<1>2. /\ Len(downlink') = Len(downlink) + 1
      /\ downlink'[Len(downlink) + 1] = ModeUpdate(m)
  BY <1>1, Appended
<1>3. Len(downlink) \in Nat
  BY <1>1
<1>4. (Len(downlink) + 1) + 1..Len(downlink') = {}
  BY <1>2, <1>3
<1>5. Len(downlink) + 1 \in 1..Len(downlink')
  BY <1>2, <1>3
<1>6. IsUpdate(ModeUpdate(m)) /\ ModeUpdate(m).mode = m
  BY DEF IsUpdate, ModeUpdate
<1> QED
  BY <1>2, <1>4, <1>5, <1>6

\* Another answer changes nothing.
LEMMA AnnounceOther ==
  ASSUME LinkTypeOK, NEW a \in Answers, ~IsUpdate(a), NEW m, Announced(m),
         downlink' = Append(downlink, a), UNCHANGED mode_received
  PROVE  \/ /\ \A i \in 1..Len(downlink') : ~IsUpdate(downlink'[i])
            /\ m = mode_received'
         \/ \E i \in 1..Len(downlink') :
              /\ IsUpdate(downlink'[i]) /\ m = downlink'[i].mode
              /\ \A j \in i + 1..Len(downlink') : ~IsUpdate(downlink'[j])
<1>1. downlink \in Seq(Answers) /\ Len(downlink) \in Nat
  BY DEF LinkTypeOK
<1>2. /\ Len(downlink') = Len(downlink) + 1
      /\ \A i \in 1..Len(downlink) : downlink'[i] = downlink[i]
      /\ downlink'[Len(downlink) + 1] = a
  BY <1>1, Appended
<1>3. CASE (\A i \in 1..Len(downlink) : ~IsUpdate(downlink[i]))
             /\ m = mode_received
  <2>1. ASSUME NEW i \in 1..Len(downlink') PROVE ~IsUpdate(downlink'[i])
    <3>1. i \in 1..Len(downlink) \/ i = Len(downlink) + 1
      BY <1>1, <1>2
    <3> QED
      BY <1>2, <1>3, <3>1
  <2> QED
    BY <1>3, <2>1
<1>4. ASSUME NEW i \in 1..Len(downlink),
             IsUpdate(downlink[i]), m = downlink[i].mode,
             \A j \in i + 1..Len(downlink) : ~IsUpdate(downlink[j])
      PROVE  \E n \in 1..Len(downlink') :
               /\ IsUpdate(downlink'[n]) /\ m = downlink'[n].mode
               /\ \A j \in n + 1..Len(downlink') : ~IsUpdate(downlink'[j])
  <2>1. i \in 1..Len(downlink') /\ downlink'[i] = downlink[i]
    BY <1>1, <1>2
  <2>2. ASSUME NEW j \in i + 1..Len(downlink') PROVE ~IsUpdate(downlink'[j])
    <3>1. \/ j \in i + 1..Len(downlink) /\ j \in 1..Len(downlink)
          \/ j = Len(downlink) + 1
      BY <1>1, <1>2
    <3> QED
      BY <1>2, <1>4, <3>1
  <2> QED
    BY <1>4, <2>1, <2>2
<1> QED
  BY <1>3, <1>4 DEF Announced

\* Reading the oldest answer moves it into mode_received.
LEMMA AnnounceRead ==
  ASSUME LinkTypeOK, downlink # <<>>, downlink' = Tail(downlink),
         NEW m, Announced(m),
         mode_received' = IF IsUpdate(Head(downlink)) THEN Head(downlink).mode
                                                      ELSE mode_received
  PROVE  \/ /\ \A i \in 1..Len(downlink') : ~IsUpdate(downlink'[i])
            /\ m = mode_received'
         \/ \E i \in 1..Len(downlink') :
              /\ IsUpdate(downlink'[i]) /\ m = downlink'[i].mode
              /\ \A j \in i + 1..Len(downlink') : ~IsUpdate(downlink'[j])
<1>1. downlink \in Seq(Answers)
  BY DEF LinkTypeOK
<1>2. /\ Len(downlink) \in Nat /\ Len(downlink) >= 1
      /\ Head(downlink) = downlink[1] /\ Len(downlink') = Len(downlink) - 1
      /\ \A i \in 1..Len(downlink) - 1 : downlink'[i] = downlink[i + 1]
  BY <1>1, Popped
<1>3. \A i \in 1..Len(downlink') :
        i + 1 \in 1..Len(downlink) /\ downlink'[i] = downlink[i + 1]
  BY <1>2
<1>4. CASE (\A i \in 1..Len(downlink) : ~IsUpdate(downlink[i]))
             /\ m = mode_received
  <2>1. ~IsUpdate(Head(downlink))
    BY <1>2, <1>4
  <2> QED
    BY <1>3, <1>4, <2>1
<1>5. ASSUME NEW i \in 1..Len(downlink),
             IsUpdate(downlink[i]), m = downlink[i].mode,
             \A j \in i + 1..Len(downlink) : ~IsUpdate(downlink[j])
      PROVE  \/ /\ \A n \in 1..Len(downlink') : ~IsUpdate(downlink'[n])
                /\ m = mode_received'
             \/ \E n \in 1..Len(downlink') :
                  /\ IsUpdate(downlink'[n]) /\ m = downlink'[n].mode
                  /\ \A j \in n + 1..Len(downlink') : ~IsUpdate(downlink'[j])
  <2>1. CASE i = 1
    <3>1. m = mode_received'
      BY <1>2, <1>5, <2>1
    <3>2. ASSUME NEW n \in 1..Len(downlink') PROVE ~IsUpdate(downlink'[n])
      <4>1. n + 1 \in i + 1..Len(downlink) /\ downlink'[n] = downlink[n + 1]
        BY <1>2, <1>3, <2>1
      <4> QED
        BY <1>5, <4>1
    <3> QED
      BY <3>1, <3>2
  <2>2. CASE i # 1
    <3>1. i - 1 \in 1..Len(downlink') /\ (i - 1) + 1 = i
      BY <1>2, <2>2
    <3>2. downlink'[i - 1] = downlink[i]
      BY <1>3, <3>1
    <3>3. ASSUME NEW j \in (i - 1) + 1..Len(downlink')
          PROVE  ~IsUpdate(downlink'[j])
      <4>1. j + 1 \in i + 1..Len(downlink) /\ j \in 1..Len(downlink')
        BY <1>2, <2>2, <3>1
      <4>2. downlink'[j] = downlink[j + 1]
        BY <1>3, <4>1
      <4> QED
        BY <1>5, <4>1, <4>2
    <3> QED
      BY <1>5, <3>1, <3>2, <3>3
  <2> QED
    BY <2>1, <2>2
<1> QED
  BY <1>4, <1>5 DEF Announced
-----------------------------------------------------------------------------
(* The steps.                                                              *)

LEMMA KeysAreNumbers == Keys \subseteq Int
BY TerminalAssumption DEF ESC, PUp, PDown, Trim

\* What a stage of the terminal's loop notes as requested is a mode.
LEMMA NotedRequest ==
  ASSUME TypeOK, NoteRequest, retval' \in Modes \cup {ESC, NO_MODE}
  PROVE  mode_requested' \in Modes /\ expired' \in BOOLEAN
<1>1. CASE retval' < 15
  <2>1. retval' \in Modes
    BY <1>1 DEF Modes, ESC, NO_MODE
  <2> QED
    BY <1>1, <2>1 DEF NoteRequest
<1>2. CASE ~(retval' < 15)
  BY <1>2 DEF NoteRequest, TypeOK
<1> QED
  BY <1>1, <1>2

LEMMA BeliefStays ==
  ASSUME BeliefIsLatest, UNCHANGED <<downlink, mode_received, commanded, lost>>
  PROVE  BeliefIsLatest'
BY DEF BeliefIsLatest, Announced

LEMMA GuardStep == FlightInv /\ DroneGuard => FlightInv'
<1> SUFFICES ASSUME FlightInv, DroneGuard PROVE FlightInv'
  OBVIOUS
<1>1. UNCHANGED <<control, joystick, uplink, downlink, in_calibration_mode,
                  bounds, commanded>>
  BY DEF DroneGuard
<1>2. BeliefIsLatest'
  BY <1>1, BeliefStays DEF FlightInv, control, bounds
<1>3. /\ mode' = D!PANIC_MODE /\ obeyed' = FALSE
      /\ UNCHANGED <<spinning, phase>> /\ D!PANIC_MODE \in Modes
  BY DEF DroneGuard, D!Guard, Modes, D!PANIC_MODE
<1>4. TypeOK'
  BY <1>1 DEF FlightInv, FlightTypeOK, TypeOK, control, joystick
<1> QED
  BY <1>1, <1>2, <1>3, <1>4
     DEF FlightInv, FlightTypeOK, LinkTypeOK, bounds

LEMMA TickStep == FlightInv /\ DroneTick => FlightInv'
<1> SUFFICES ASSUME FlightInv, DroneTick PROVE FlightInv'
  OBVIOUS
<1>1. /\ UNCHANGED <<control, joystick, uplink, downlink, bounds, commanded>>
      /\ in_calibration_mode' = FALSE
  BY DEF DroneTick
<1>2. BeliefIsLatest'
  BY <1>1, BeliefStays DEF FlightInv, control, bounds
<1>3. mode' \in Modes /\ spinning' \in BOOLEAN /\ obeyed' \in BOOLEAN
      /\ phase' \in {"running", "leaving", "done"}
  <2>1. /\ mode \in Modes /\ spinning \in BOOLEAN
        /\ phase \in {"running", "leaving", "done"}
    BY DEF FlightInv, FlightTypeOK
  <2>2. D!SAFE_MODE \in Modes /\ D!PANIC_MODE \in Modes
    BY DEF Modes, D!SAFE_MODE, D!PANIC_MODE
  <2>3. CASE D!Fly
    BY <2>1, <2>3 DEF D!Fly
  <2>4. CASE D!Descend
    BY <2>1, <2>2, <2>4 DEF D!Descend
  <2>5. CASE D!Rest
    BY <2>1, <2>5 DEF D!Rest
  <2>6. CASE D!Leave
    BY <2>1, <2>2, <2>6 DEF D!Leave
  <2> QED
    BY <2>3, <2>4, <2>5, <2>6 DEF DroneTick
<1>4. TypeOK'
  BY <1>1 DEF FlightInv, FlightTypeOK, TypeOK, control, joystick
<1> QED
  BY <1>1, <1>2, <1>3, <1>4
     DEF FlightInv, FlightTypeOK, LinkTypeOK, bounds

LEMMA CalibrationStep == FlightInv /\ ReportCalibration => FlightInv'
<1> SUFFICES ASSUME FlightInv, ReportCalibration PROVE FlightInv'
  OBVIOUS
<1>1. /\ UNCHANGED <<control, joystick, uplink, bounds, commanded>>
      /\ in_calibration_mode' = TRUE
      /\ downlink' = Append(downlink, CalibrationData)
  BY DEF ReportCalibration
<1>2. CalibrationData \in Answers /\ ~IsUpdate(CalibrationData)
  BY DEF Answers, IsUpdate, CalibrationData
<1>3. LinkTypeOK'
  BY <1>1, <1>2, Appended DEF FlightInv, LinkTypeOK
<1>4. BeliefIsLatest'
  <2>1. CASE lost = 0
    <3>1. Announced(commanded) /\ LinkTypeOK /\ UNCHANGED mode_received
      BY <1>1, <2>1 DEF FlightInv, BeliefIsLatest, control
    <3> QED
      BY <1>1, <1>2, <3>1, AnnounceOther DEF BeliefIsLatest, Announced
  <2>2. CASE lost # 0
    BY <1>1, <2>2 DEF BeliefIsLatest, bounds
  <2> QED
    BY <2>1, <2>2
<1>5. UNCHANGED <<mode, spinning, phase>> /\ obeyed' = FALSE
  BY DEF ReportCalibration, D!Quiet
<1>6. TypeOK'
  BY <1>1 DEF FlightInv, FlightTypeOK, TypeOK, control, joystick
<1> QED
  BY <1>1, <1>3, <1>4, <1>5, <1>6 DEF FlightInv, FlightTypeOK, bounds

LEMMA RestartStep == FlightInv /\ DroneRestarts => FlightInv'
<1> SUFFICES ASSUME FlightInv, DroneRestarts PROVE FlightInv'
  OBVIOUS
<1>1. /\ UNCHANGED <<control, joystick, bounds, commanded>>
      /\ in_calibration_mode' = FALSE /\ uplink' \in {uplink, <<>>}
      /\ downlink' = Append(downlink, Terminate)
  BY DEF DroneRestarts
<1>2. Terminate \in Answers /\ ~IsUpdate(Terminate)
  BY DEF Answers, IsUpdate, Terminate
<1>3. LinkTypeOK'
  <2>1. <<>> \in Seq(Requests)
    OBVIOUS
  <2> QED
    BY <1>1, <1>2, <2>1, Appended DEF FlightInv, LinkTypeOK
<1>4. BeliefIsLatest'
  <2>1. CASE lost = 0
    <3>1. Announced(commanded) /\ LinkTypeOK /\ UNCHANGED mode_received
      BY <1>1, <2>1 DEF FlightInv, BeliefIsLatest, control
    <3> QED
      BY <1>1, <1>2, <3>1, AnnounceOther DEF BeliefIsLatest, Announced
  <2>2. CASE lost # 0
    BY <1>1, <2>2 DEF BeliefIsLatest, bounds
  <2> QED
    BY <2>1, <2>2
<1>5. /\ mode' = D!SAFE_MODE /\ spinning' = FALSE /\ obeyed' = FALSE
      /\ phase' = "running" /\ D!SAFE_MODE \in Modes
  BY DEF DroneRestarts, D!Restart, Modes, D!SAFE_MODE
<1>6. TypeOK'
  BY <1>1 DEF FlightInv, FlightTypeOK, TypeOK, control, joystick
<1> QED
  BY <1>1, <1>3, <1>4, <1>5, <1>6 DEF FlightInv, FlightTypeOK, bounds

LEMMA ObeyStep == FlightInv /\ ObeyRequest => FlightInv'
<1> SUFFICES ASSUME FlightInv, ObeyRequest PROVE FlightInv'
  OBVIOUS
<1> DEFINE m == Head(uplink).mode
<1>1. /\ UNCHANGED <<control, joystick, in_calibration_mode, bounds>>
      /\ uplink # <<>> /\ Head(uplink).type = "SET_MODE"
      /\ mode' = m /\ commanded' = m /\ uplink' = Tail(uplink)
      /\ downlink' = Append(downlink, ModeUpdate(m))
      /\ obeyed' = TRUE /\ UNCHANGED <<spinning, phase>>
  BY DEF ObeyRequest, D!Command
<1>2. Head(uplink) \in Requests /\ Tail(uplink) \in Seq(Requests)
  BY <1>1, Popped DEF FlightInv, LinkTypeOK
<1>3. m \in Modes
  BY <1>1, <1>2, RequestFields
<1> HIDE DEF m
<1>4. ModeUpdate(m) \in Answers
  BY <1>3 DEF Answers
<1>5. LinkTypeOK'
  BY <1>1, <1>2, <1>4, Appended DEF FlightInv, LinkTypeOK
<1>6. BeliefIsLatest'
  BY <1>1, <1>3, AnnounceNew DEF FlightInv, BeliefIsLatest, Announced
<1>7. TypeOK'
  BY <1>1 DEF FlightInv, FlightTypeOK, TypeOK, control, joystick
<1> QED
  BY <1>1, <1>3, <1>5, <1>6, <1>7 DEF FlightInv, FlightTypeOK, bounds

LEMMA ValuesStep == FlightInv /\ ChangePValues => FlightInv'
<1> SUFFICES ASSUME FlightInv, ChangePValues PROVE FlightInv'
  OBVIOUS
<1> DEFINE a == PValuesUpdate(Head(uplink).select, 0)
<1>1. /\ UNCHANGED <<control, joystick, in_calibration_mode, bounds, commanded>>
      /\ uplink # <<>> /\ Head(uplink).type = "SET_P_VALUES"
      /\ uplink' = Tail(uplink) /\ downlink' = Append(downlink, a)
      /\ UNCHANGED <<mode, spinning, phase>> /\ obeyed' = FALSE
  BY DEF ChangePValues, D!Quiet
<1>2. Head(uplink) \in Requests /\ Tail(uplink) \in Seq(Requests)
  BY <1>1, Popped DEF FlightInv, LinkTypeOK
<1>3. a \in Answers /\ ~IsUpdate(a)
  <2>1. Head(uplink).select = "yaw"
    BY <1>1, <1>2, RequestFields
  <2> QED
    BY <2>1 DEF Answers, IsUpdate, PValuesUpdate
<1> HIDE DEF a
<1>4. LinkTypeOK'
  BY <1>1, <1>2, <1>3, Appended DEF FlightInv, LinkTypeOK
<1>5. BeliefIsLatest'
  <2>1. CASE lost = 0
    <3>1. Announced(commanded) /\ LinkTypeOK /\ UNCHANGED mode_received
      BY <1>1, <2>1 DEF FlightInv, BeliefIsLatest, control
    <3> QED
      BY <1>1, <1>3, <3>1, AnnounceOther DEF BeliefIsLatest, Announced
  <2>2. CASE lost # 0
    BY <1>1, <2>2 DEF BeliefIsLatest, bounds
  <2> QED
    BY <2>1, <2>2
<1>6. TypeOK'
  BY <1>1 DEF FlightInv, FlightTypeOK, TypeOK, control, joystick
<1> QED
  BY <1>1, <1>4, <1>5, <1>6 DEF FlightInv, FlightTypeOK, bounds

LEMMA KeyStep == FlightInv /\ Key => FlightInv'
<1> SUFFICES ASSUME FlightInv, Key PROVE FlightInv'
  OBVIOUS
<1>1. PICK k \in Keys : PressKey(k)
  BY DEF Key
<1>2. /\ UNCHANGED <<drone, lost, commanded>> /\ keys < MaxKeys
      /\ keys' = keys + 1
  BY DEF Key
<1>3. /\ RequestedMode(k) \in Modes \cup {NO_MODE}
      /\ MessagesOf(k) \in Seq(Requests)
  BY KeysAreNumbers, KeyRequests
<1>4. /\ UNCHANGED <<mode_received, demo_done, joystick, downlink>>
      /\ NoteRequest
      /\ calibration_has_been_done' = (calibration_has_been_done \/ k = 3)
      /\ \/ UNCHANGED <<retval, uplink>>
         \/ retval' = RequestedMode(k) /\ uplink' = uplink \o MessagesOf(k)
  BY <1>1 DEF PressKey
<1>5. retval' \in Modes \cup {ESC, NO_MODE}
  BY <1>3, <1>4 DEF FlightInv, FlightTypeOK, TypeOK
<1>6. mode_requested' \in Modes /\ expired' \in BOOLEAN
  BY <1>4, <1>5, NotedRequest DEF FlightInv, FlightTypeOK
<1>7. LinkTypeOK'
  BY <1>3, <1>4, Joined DEF FlightInv, LinkTypeOK
<1>8. TypeOK'
  BY <1>4, <1>5, <1>6 DEF FlightInv, FlightTypeOK, TypeOK, joystick
<1>9. BeliefIsLatest'
  BY <1>2, <1>4, BeliefStays DEF FlightInv
<1>10. keys' \in 0..MaxKeys
  BY <1>2, FlightAssumption DEF FlightInv, FlightTypeOK
<1> QED
  BY <1>2, <1>7, <1>8, <1>9, <1>10 DEF FlightInv, FlightTypeOK, drone

LEMMA HandsStep == FlightInv /\ (Hands \/ TimeoutPasses) => FlightInv'
<1> SUFFICES ASSUME FlightInv, Hands \/ TimeoutPasses PROVE FlightInv'
  OBVIOUS
<1>1. /\ UNCHANGED <<drone, bounds, commanded, uplink, downlink, mode_received>>
      /\ TypeOK'
  BY DEF Hands, MoveStick, MoveFire, TimeoutPasses, Expire, FlightInv,
     FlightTypeOK, TypeOK, control, joystick
<1>2. BeliefIsLatest'
  BY <1>1, BeliefStays DEF FlightInv, bounds
<1> QED
  BY <1>1, <1>2 DEF FlightInv, FlightTypeOK, LinkTypeOK, drone, bounds

LEMMA FireStep == FlightInv /\ TerminalFires => FlightInv'
<1> SUFFICES ASSUME FlightInv, TerminalFires PROVE FlightInv'
  OBVIOUS
<1>1. /\ UNCHANGED <<drone, bounds, commanded, mode_received, demo_done,
                     calibration_has_been_done, joystick, downlink>>
      /\ retval' = PANIC_MODE /\ NoteRequest
      /\ uplink' = Append(uplink, SetMode(PANIC_MODE))
  BY DEF TerminalFires, FireButton
<1>2. retval' \in Modes \cup {ESC, NO_MODE}
  BY <1>1 DEF Modes, PANIC_MODE
<1>3. mode_requested' \in Modes /\ expired' \in BOOLEAN
  BY <1>1, <1>2, NotedRequest DEF FlightInv, FlightTypeOK
<1>4. SetMode(PANIC_MODE) \in Requests
  BY DEF Requests, Modes, PANIC_MODE
<1>5. LinkTypeOK'
  BY <1>1, <1>4, Appended DEF FlightInv, LinkTypeOK
<1>6. TypeOK'
  BY <1>1, <1>2, <1>3 DEF FlightInv, FlightTypeOK, TypeOK, joystick
<1>7. BeliefIsLatest'
  BY <1>1, BeliefStays DEF FlightInv, bounds
<1> QED
  BY <1>1, <1>5, <1>6, <1>7 DEF FlightInv, FlightTypeOK, drone, bounds

LEMMA ResendStep == FlightInv /\ TerminalResends => FlightInv'
<1> SUFFICES ASSUME FlightInv, TerminalResends PROVE FlightInv'
  OBVIOUS
<1>1. /\ UNCHANGED <<drone, bounds, commanded, mode_requested, mode_received,
                     retval, demo_done, calibration_has_been_done, joystick,
                     downlink>>
      /\ expired' = FALSE /\ uplink' = uplink \o MessagesOf(mode_requested)
  BY DEF TerminalResends, Resend
<1>2. MessagesOf(mode_requested) \in Seq(Requests)
  BY KeyRequests DEF FlightInv, FlightTypeOK, TypeOK, Modes
<1>3. LinkTypeOK'
  BY <1>1, <1>2, Joined DEF FlightInv, LinkTypeOK
<1>4. TypeOK'
  BY <1>1 DEF FlightInv, FlightTypeOK, TypeOK, joystick
<1>5. BeliefIsLatest'
  BY <1>1, BeliefStays DEF FlightInv, bounds
<1> QED
  BY <1>1, <1>3, <1>4, <1>5 DEF FlightInv, FlightTypeOK, drone, bounds

LEMMA ReadStep == FlightInv /\ TerminalReceives => FlightInv'
<1> SUFFICES ASSUME FlightInv, TerminalReceives PROVE FlightInv'
  OBVIOUS
<1>1. /\ UNCHANGED <<drone, bounds, commanded, mode_requested,
                     calibration_has_been_done, joystick>>
      /\ downlink # <<>> /\ downlink' = Tail(downlink)
  BY DEF TerminalReceives, ReceiveFromDrone, ReceiveModeUpdate, ReceiveReport,
     ReceiveTerminate, Receive
<1>2. Head(downlink) \in Answers /\ downlink' \in Seq(Answers)
  BY <1>1, Popped DEF FlightInv, LinkTypeOK
<1>3. mode_received' = IF IsUpdate(Head(downlink)) THEN Head(downlink).mode
                                                   ELSE mode_received
  BY DEF TerminalReceives, ReceiveFromDrone, ReceiveModeUpdate, ReceiveReport,
     ReceiveTerminate, Receive, IsUpdate
<1>4. mode_received' \in Modes
  BY <1>2, <1>3, AnswerFields DEF IsUpdate, FlightInv, FlightTypeOK, TypeOK
<1>5. /\ retval' \in Modes \cup {ESC, NO_MODE}
      /\ expired' \in BOOLEAN /\ demo_done' \in BOOLEAN
  <2>1. CASE ReceiveModeUpdate
    BY <1>2, <2>1, AnswerFields
       DEF ReceiveModeUpdate, Receive, FlightInv, FlightTypeOK, TypeOK
  <2>2. CASE ReceiveReport
    BY <2>2 DEF ReceiveReport, FlightInv, FlightTypeOK, TypeOK
  <2>3. CASE ReceiveTerminate
    BY <2>3 DEF ReceiveTerminate, FlightInv, FlightTypeOK, TypeOK
  <2> QED
    BY <2>1, <2>2, <2>3 DEF TerminalReceives, ReceiveFromDrone
<1>6. uplink' \in Seq(Requests)
  <2>1. uplink \in Seq(Requests) /\ mode_requested \in Int
    BY DEF FlightInv, FlightTypeOK, TypeOK, LinkTypeOK, Modes
  <2>2. uplink \o MessagesOf(mode_requested) \in Seq(Requests)
    BY <2>1, KeyRequests, Joined
  <2>3. uplink' = uplink \/ uplink' = uplink \o MessagesOf(mode_requested)
    BY DEF TerminalReceives, ReceiveFromDrone, ReceiveModeUpdate,
       ReceiveReport, ReceiveTerminate
  <2> QED
    BY <2>1, <2>2, <2>3
<1>7. TypeOK'
  BY <1>1, <1>4, <1>5 DEF FlightInv, FlightTypeOK, TypeOK, joystick
<1>8. BeliefIsLatest'
  <2>1. CASE lost = 0
    <3>1. Announced(commanded) /\ LinkTypeOK
      BY <2>1 DEF FlightInv, BeliefIsLatest
    <3> QED
      BY <1>1, <1>3, <3>1, AnnounceRead DEF BeliefIsLatest, Announced
  <2>2. CASE lost # 0
    BY <1>1, <2>2 DEF BeliefIsLatest, bounds
  <2> QED
    BY <2>1, <2>2
<1> QED
  BY <1>1, <1>2, <1>6, <1>7, <1>8
     DEF FlightInv, FlightTypeOK, LinkTypeOK, drone, bounds

LEMMA LossStep == FlightInv /\ LoseMessage => FlightInv'
<1> SUFFICES ASSUME FlightInv, LoseMessage PROVE FlightInv'
  OBVIOUS
<1>1. /\ UNCHANGED <<control, joystick, drone, keys, commanded>>
      /\ lost < MaxLost /\ lost' = lost + 1
      /\ \/ uplink # <<>> /\ uplink' = Tail(uplink) /\ UNCHANGED downlink
         \/ downlink # <<>> /\ downlink' = Tail(downlink) /\ UNCHANGED uplink
  BY DEF LoseMessage
<1>2. lost' \in 0..MaxLost /\ lost' # 0
  BY <1>1, FlightAssumption DEF FlightInv, FlightTypeOK
<1>3. LinkTypeOK'
  BY <1>1, Popped DEF FlightInv, LinkTypeOK
<1>4. TypeOK'
  BY <1>1 DEF FlightInv, FlightTypeOK, TypeOK, control, joystick
<1> QED
  BY <1>1, <1>2, <1>3, <1>4 DEF FlightInv, FlightTypeOK, BeliefIsLatest, drone

LEMMA InitFlightInv == FlightInit => FlightInv
<1> SUFFICES ASSUME FlightInit PROVE FlightInv
  OBVIOUS
<1>1. Init /\ D!ContractInit
  BY DEF FlightInit
<1>2. /\ uplink = <<>> /\ downlink = <<>> /\ mode_received = SAFE_MODE
      /\ commanded = SAFE_MODE /\ lost = 0 /\ keys = 0
  BY <1>1 DEF FlightInit, Init
<1>3. <<>> \in Seq(Requests) /\ <<>> \in Seq(Answers) /\ Len(<<>>) = 0
  OBVIOUS
<1>4. LinkTypeOK
  BY <1>2, <1>3 DEF LinkTypeOK
<1>5. BeliefIsLatest
  <2>1. 1..Len(downlink) = {}
    BY <1>2, <1>3
  <2> QED
    BY <1>2, <2>1 DEF BeliefIsLatest, Announced
<1>6. TypeOK
  <2>1. SAFE_MODE \in Modes /\ 0 \in Modes
    BY DEF Modes, SAFE_MODE
  <2> QED
    BY <1>1, <2>1 DEF Init, TypeOK
<1>7. FlightTypeOK
  <2>1. D!SAFE_MODE \in Modes /\ SAFE_MODE \in Modes
    BY DEF Modes, SAFE_MODE, D!SAFE_MODE
  <2>2. 0 \in 0..MaxKeys /\ 0 \in 0..MaxLost
    BY FlightAssumption
  <2>3. in_calibration_mode = FALSE
    BY DEF FlightInit
  <2> QED
    BY <1>1, <1>2, <1>6, <2>1, <2>2, <2>3 DEF D!ContractInit, FlightTypeOK
<1> QED
  BY <1>4, <1>5, <1>7 DEF FlightInv

LEMMA StepFlightInv == FlightInv /\ [FlightNext]_flightVars => FlightInv'
<1>1. FlightInv /\ UNCHANGED flightVars => FlightInv'
  BY DEF FlightInv, FlightTypeOK, TypeOK, LinkTypeOK, BeliefIsLatest, Announced,
     flightVars, control, joystick, drone, bounds
<1> QED
  BY <1>1, GuardStep, TickStep, CalibrationStep, RestartStep, ObeyStep,
     ValuesStep, KeyStep, HandsStep, FireStep, ResendStep, ReadStep, LossStep
     DEF FlightNext, DroneReceives

LEMMA FlightInvariant == FlightSpec => []FlightInv
BY InitFlightInv, StepFlightInv, PTL DEF FlightSpec

-----------------------------------------------------------------------------
\* Every variable of the terminal and of the link keeps its type: nothing but
\* modes ends up in mode_requested, although retval also holds other results.
THEOREM FlightTypeCorrect == FlightSpec => []FlightTypeOK
<1>1. FlightInv => FlightTypeOK
  BY DEF FlightInv
<1> QED
  BY <1>1, FlightInvariant, PTL

\* As long as nothing was lost, the last mode the drone was told is the one the
\* terminal shows or is about to show.
THEOREM TerminalFollowsDrone == FlightSpec => []BeliefIsLatest
<1>1. FlightInv => BeliefIsLatest
  BY DEF FlightInv
<1> QED
  BY <1>1, FlightInvariant, PTL
=============================================================================

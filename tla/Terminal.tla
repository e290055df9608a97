------------------------------ MODULE Terminal -------------------------------
(***************************************************************************)
(* The PC program (pc_terminal.c, pc_message_helper.c): it turns the       *)
(* pilot's keys and fire button into requests, remembers which mode it     *)
(* asked for and which one the drone last reported, and repeats a request  *)
(* whose answer is overdue.                                                *)
(*                                                                         *)
(* Each stage of its loop is optional in each iteration, so the stages are *)
(* actions in any order.  A key is its digit or its ASCII code.            *)
(* INPUT_DATA, sent every 10 ms whatever happens, is left to Flight.       *)
(***************************************************************************)
EXTENDS Protocol, Sequences

CONSTANTS
  Keys,       \* keys the pilot uses
  LinkLimit   \* bound on the messages under way when another one is sent

ESC == 27        \* escape key, and what handle_message returns for TERMINATE
NO_MODE == 255   \* 0xFF: no mode was requested or reported
PUp == 117       \* 'u', 'j': the yaw P value; the other P keys act alike
PDown == 106
Trim == 97       \* 'a'; the other trim keys act alike

ASSUME TerminalAssumption ==
  /\ Keys \subseteq 0..9 \cup {ESC, PUp, PDown, Trim}
  /\ LinkLimit \in Nat \ {0}

VARIABLES
  mode_requested,
  mode_received,
  retval,                     \* shared by keyboard, fire button and receiver
  calibration_has_been_done,
  expired,                    \* has t_message_expect passed
  demo_done,
  axis_zero, fire,            \* joystick: all axes at rest; fire button
  uplink, downlink            \* messages to and from the drone

control == <<mode_requested, mode_received, retval, calibration_has_been_done,
             expired, demo_done>>
joystick == <<axis_zero, fire>>

\* t_message_expect is not initialised.
Init ==
  /\ mode_requested = SAFE_MODE /\ mode_received = SAFE_MODE
  /\ retval = 0
  /\ calibration_has_been_done = FALSE
  /\ expired \in BOOLEAN
  /\ demo_done = FALSE
  /\ axis_zero \in BOOLEAN /\ fire = FALSE
  /\ uplink = <<>> /\ downlink = <<>>

-----------------------------------------------------------------------------
(* select_message: the mode a key stands for, and what it sends.           *)

RequestedMode(k) ==
  IF k \in {SAFE_MODE, PANIC_MODE, CALIBRATION_MODE} THEN k
  ELSE IF k \in FlightModes /\ axis_zero THEN k
  ELSE IF k \in {TERMINATE_MODE, ESC} THEN TERMINATE_MODE
  ELSE NO_MODE

MessagesOf(k) ==
  IF RequestedMode(k) # NO_MODE THEN <<SetMode(RequestedMode(k))>>
  ELSE IF k = PUp THEN <<SetPValues("yaw", "INCREMENT")>>
  ELSE IF k = PDown THEN <<SetPValues("yaw", "DECREMENT")>>
  ELSE <<>>

-----------------------------------------------------------------------------
(* Stages of the loop.                                                     *)

\* Mutant: whatever is in retval becomes the requested mode.
NoteAnyRequest == mode_requested' = retval' /\ expired' = FALSE

\* A value below 0x0F in retval, even one left there by an earlier stage,
\* becomes the requested mode and restarts the timeout.
NoteRequest ==
  IF retval' < 15
  THEN mode_requested' = retval' /\ expired' = FALSE
  ELSE UNCHANGED <<mode_requested, expired>>

NeedsCalibration(k) ==
  k \in {MANUAL_MODE, FULL_CONTROL_MODE, RAW_MODE} /\ ~calibration_has_been_done

\* Keys other than '0' are ignored unless retval is 0.
PressKey(k) ==
  /\ ~demo_done
  /\ k = 0 \/ retval = 0
  /\ calibration_has_been_done' = (calibration_has_been_done \/ k = 3)
  /\ IF NeedsCalibration(k)
     THEN UNCHANGED <<retval, uplink>>
     ELSE retval' = RequestedMode(k) /\ uplink' = uplink \o MessagesOf(k)
  /\ NoteRequest
  /\ UNCHANGED <<mode_received, demo_done, joystick, downlink>>

FireButton ==
  /\ ~demo_done
  /\ fire
  /\ mode_received # PANIC_MODE
  /\ Len(uplink) < LinkLimit
  /\ retval' = PANIC_MODE
  /\ uplink' = Append(uplink, SetMode(PANIC_MODE))
  /\ NoteRequest
  /\ UNCHANGED <<mode_received, calibration_has_been_done, demo_done, joystick,
                 downlink>>

Overdue == mode_requested # mode_received /\ expired

Receive(type) ==
  /\ ~demo_done
  /\ downlink # <<>>
  /\ Head(downlink).type = type
  /\ downlink' = Tail(downlink)
  /\ UNCHANGED <<mode_requested, calibration_has_been_done, joystick>>

\* Mutant: an answer is taken for the answer to the last request.
ReceiveModeUpdateUnread ==
  /\ Receive("MODE_UPDATE")
  /\ retval' = Head(downlink).mode
  /\ mode_received' = mode_requested
  /\ UNCHANGED <<expired, demo_done, uplink>>

ReceiveModeUpdate ==
  /\ Receive("MODE_UPDATE")
  /\ retval' = Head(downlink).mode
  /\ mode_received' = Head(downlink).mode
  /\ UNCHANGED <<expired, demo_done, uplink>>

\* A P value, calibration data: shown, but they overwrite retval too.
ReceiveReport ==
  /\ Receive("P_VALUES_UPDATE") \/ Receive("CALIBRATION_DATA")
  /\ retval' = NO_MODE
  /\ UNCHANGED <<mode_received, expired, demo_done, uplink>>

\* The last iteration of the loop still gets to its resend stage.
ReceiveTerminate ==
  /\ Receive("TERMINATE")
  /\ retval' = ESC
  /\ demo_done' = TRUE
  /\ uplink' = IF Overdue THEN uplink \o MessagesOf(mode_requested) ELSE uplink
  /\ expired' = (expired /\ ~Overdue)
  /\ UNCHANGED mode_received

\* Mutant: the mode is passed where select_message expects its digit.
ResendWithoutDigit ==
  /\ ~demo_done
  /\ Overdue
  /\ Len(uplink) < LinkLimit
  /\ expired' = FALSE
  /\ UNCHANGED <<mode_requested, mode_received, retval,
                 calibration_has_been_done, demo_done, joystick, uplink,
                 downlink>>

\* The result of select_message is dropped here: retval keeps its value, and
\* a flight mode is not repeated while the joystick is away from zero.
Resend ==
  /\ ~demo_done
  /\ Overdue
  /\ Len(uplink) < LinkLimit
  /\ uplink' = uplink \o MessagesOf(mode_requested)
  /\ expired' = FALSE
  /\ UNCHANGED <<mode_requested, mode_received, retval,
                 calibration_has_been_done, demo_done, joystick, downlink>>

\* 200 ms have passed since the request.
Expire ==
  /\ ~expired
  /\ expired' = TRUE
  /\ UNCHANGED <<mode_requested, mode_received, retval,
                 calibration_has_been_done, demo_done, joystick, uplink,
                 downlink>>

-----------------------------------------------------------------------------
(* The pilot's hands on the joystick.                                      *)

MoveStick ==
  /\ axis_zero' = ~axis_zero
  /\ UNCHANGED <<control, fire, uplink, downlink>>

MoveFire ==
  /\ fire' = ~fire
  /\ UNCHANGED <<control, axis_zero, uplink, downlink>>

ReceiveFromDrone == ReceiveModeUpdate \/ ReceiveReport \/ ReceiveTerminate

-----------------------------------------------------------------------------

\* Every variable keeps its type.
TypeOK ==
  /\ mode_requested \in Modes /\ mode_received \in Modes
  /\ retval \in Modes \cup {ESC, NO_MODE}
  /\ calibration_has_been_done \in BOOLEAN
  /\ expired \in BOOLEAN /\ demo_done \in BOOLEAN
  /\ axis_zero \in BOOLEAN /\ fire \in BOOLEAN
=============================================================================

------------------------------ MODULE Protocol ------------------------------
(***************************************************************************)
(* The vocabulary drone and PC share (message/message.h): the flight modes *)
(* with the numbers they have on the wire, and the messages each side      *)
(* sends.  A message is a record of its type and of the payload fields     *)
(* that some property tells apart; framing and CRC are in Framing.         *)
(***************************************************************************)
EXTENDS Integers

SAFE_MODE == 0
PANIC_MODE == 1
MANUAL_MODE == 2
CALIBRATION_MODE == 3
YAW_CONTROL_MODE == 4
FULL_CONTROL_MODE == 5
RAW_MODE == 6
HEIGHT_CONTROL_MODE == 7
WIRELESS_MODE == 8
TERMINATE_MODE == 9

Modes == 0..9

\* Modes whose control law computes motor values from the sticks.
FlightModes == {MANUAL_MODE, YAW_CONTROL_MODE, FULL_CONTROL_MODE, RAW_MODE}

\* Modes in which run_filters_and_control leaves the motor values alone.
HoldModes == {CALIBRATION_MODE, HEIGHT_CONTROL_MODE, WIRELESS_MODE}

\* PC to drone.
SetMode(m) == [type |-> "SET_MODE", mode |-> m]
InputData(l) == [type |-> "INPUT_DATA", lift |-> l]
SetPValues(g, op) == [type |-> "SET_P_VALUES", select |-> g, op |-> op]

\* Drone to PC.
ModeUpdate(m) == [type |-> "MODE_UPDATE", mode |-> m]
PValuesUpdate(g, v) == [type |-> "P_VALUES_UPDATE", select |-> g, value |-> v]
CalibrationData == [type |-> "CALIBRATION_DATA"]
Terminate == [type |-> "TERMINATE"]

\* "Nothing was put on the wire in this step."
Silence == [type |-> "NONE"]
=============================================================================

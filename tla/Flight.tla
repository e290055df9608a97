------------------------------- MODULE Flight --------------------------------
(***************************************************************************)
(* The whole system: the PC program (Terminal) and the drone over a serial *)
(* link that keeps the order of messages but may lose some.                *)
(*                                                                         *)
(* The drone is represented by its contract, which Drone implements        *)
(* (Drone_proofs!DroneImplementsContract), and by the answers its message  *)
(* handler and its main loop put on the wire.  INPUT_DATA is not modelled: *)
(* nothing here depends on it, and the contract lets a flight law start or *)
(* stop the motors at any time.  LinkLimit also bounds the answers under   *)
(* way: the drone reads on when the terminal has caught up.                *)
(***************************************************************************)
EXTENDS Terminal

CONSTANTS
  MaxKeys,   \* bound on the keys the pilot presses
  MaxLost    \* bound on the messages the link loses

ASSUME FlightAssumption == MaxKeys \in Nat /\ MaxLost \in Nat

VARIABLES
  mode, spinning, phase, obeyed,  \* the drone, as its contract shows it
  in_calibration_mode,    \* has this stay in CALIBRATION_MODE been reported
  keys,       \* number of keys pressed
  lost,       \* number of messages lost
  commanded   \* history: the last mode the drone was told

D == INSTANCE FlightContract

drone == <<mode, spinning, phase, obeyed, in_calibration_mode>>
bounds == <<keys, lost>>
flightVars == <<control, joystick, uplink, downlink, drone, bounds, commanded>>

FlightInit ==
  /\ Init
  /\ D!ContractInit
  /\ in_calibration_mode = FALSE
  /\ keys = 0 /\ lost = 0
  /\ commanded = SAFE_MODE

-----------------------------------------------------------------------------
(* Steps of the drone.                                                     *)

DroneGuard ==
  /\ D!Guard
  /\ UNCHANGED <<control, joystick, uplink, downlink, in_calibration_mode,
                 bounds, commanded>>

DroneTick ==
  /\ D!Fly \/ D!Descend \/ D!Rest \/ D!Leave
  /\ in_calibration_mode' = FALSE
  /\ UNCHANGED <<control, joystick, uplink, downlink, bounds, commanded>>

\* The first tick in CALIBRATION_MODE reports the offsets, others are silent.
ReportCalibration ==
  /\ mode = CALIBRATION_MODE
  /\ ~in_calibration_mode
  /\ in_calibration_mode' = TRUE
  /\ downlink' = Append(downlink, CalibrationData)
  /\ D!Quiet
  /\ UNCHANGED <<control, joystick, uplink, bounds, commanded>>

\* The TERMINATE message and the reset; what waits in the drone's receive
\* queue does not survive it.
DroneRestarts ==
  /\ D!Restart
  /\ Len(downlink) < LinkLimit
  /\ downlink' = Append(downlink, Terminate)
  /\ uplink' \in {uplink, <<>>}
  /\ in_calibration_mode' = FALSE
  /\ UNCHANGED <<control, joystick, bounds, commanded>>

\* handle_message: a mode request is obeyed and answered, whatever the mode.
ObeyRequest ==
  /\ uplink # <<>> /\ Len(downlink) < LinkLimit
  /\ Head(uplink).type = "SET_MODE"
  /\ D!Command
  /\ mode' = Head(uplink).mode
  /\ commanded' = mode'
  /\ uplink' = Tail(uplink)
  /\ downlink' = Append(downlink, ModeUpdate(mode'))
  /\ UNCHANGED <<control, joystick, in_calibration_mode, bounds>>

\* The values themselves are in Drone; here only their answer matters.
ChangePValues ==
  /\ uplink # <<>> /\ Len(downlink) < LinkLimit
  /\ Head(uplink).type = "SET_P_VALUES"
  /\ D!Quiet
  /\ uplink' = Tail(uplink)
  /\ downlink' = Append(downlink, PValuesUpdate(Head(uplink).select, 0))
  /\ UNCHANGED <<control, joystick, in_calibration_mode, bounds, commanded>>

DroneReceives == ObeyRequest \/ ChangePValues

-----------------------------------------------------------------------------
(* Steps of the terminal, of its pilot and of the link.                    *)

Key ==
  /\ keys < MaxKeys
  /\ keys' = keys + 1
  /\ \E k \in Keys : PressKey(k)
  /\ UNCHANGED <<drone, lost, commanded>>

Hands == (MoveStick \/ MoveFire) /\ UNCHANGED <<drone, bounds, commanded>>

TerminalReceives == ReceiveFromDrone /\ UNCHANGED <<drone, bounds, commanded>>
TerminalFires == FireButton /\ UNCHANGED <<drone, bounds, commanded>>
TerminalResends == Resend /\ UNCHANGED <<drone, bounds, commanded>>
TimeoutPasses == Expire /\ UNCHANGED <<drone, bounds, commanded>>

LoseMessage ==
  /\ lost < MaxLost
  /\ lost' = lost + 1
  /\ \/ uplink # <<>> /\ uplink' = Tail(uplink) /\ UNCHANGED downlink
     \/ downlink # <<>> /\ downlink' = Tail(downlink) /\ UNCHANGED uplink
  /\ UNCHANGED <<control, joystick, drone, keys, commanded>>

FlightNext ==
  \/ DroneGuard \/ DroneTick \/ ReportCalibration \/ DroneRestarts
  \/ DroneReceives
  \/ Key \/ Hands \/ TerminalReceives \/ TerminalFires \/ TerminalResends
  \/ TimeoutPasses \/ LoseMessage

\* Both programs poll for ever: a message that waits is read, an overdue
\* request is repeated, a held button is seen, and time passes.  Messages get
\* through once the bound of the losses is reached.  The pilot owes nothing.
FlightFairness ==
  /\ WF_flightVars(DroneReceives)
  /\ WF_flightVars(TerminalReceives)
  /\ SF_flightVars(TerminalFires)
  /\ SF_flightVars(TerminalResends)
  /\ WF_flightVars(TimeoutPasses)

FlightSpec == FlightInit /\ [][FlightNext]_flightVars
FairFlightSpec == FlightSpec /\ FlightFairness

-----------------------------------------------------------------------------
(* Properties.                                                             *)

\* Every variable keeps its type.
FlightTypeOK ==
  /\ TypeOK
  /\ mode \in Modes /\ spinning \in BOOLEAN /\ obeyed \in BOOLEAN
  /\ phase \in {"running", "leaving", "done"}
  /\ in_calibration_mode \in BOOLEAN
  /\ keys \in 0..MaxKeys /\ lost \in 0..MaxLost
  /\ commanded \in Modes

IsUpdate(answer) == answer.type = "MODE_UPDATE"

\* The mode the terminal will show once it has read what is under way.
Announced(m) ==
  \/ /\ \A i \in 1..Len(downlink) : ~IsUpdate(downlink[i])
     /\ m = mode_received
  \/ \E i \in 1..Len(downlink) :
       /\ IsUpdate(downlink[i]) /\ m = downlink[i].mode
       /\ \A j \in i + 1..Len(downlink) : ~IsUpdate(downlink[j])

\* As long as the link lost nothing, the last mode the drone was told is the
\* one the terminal shows, or will show by the answers under way.
BeliefIsLatest == lost = 0 => Announced(commanded)

\* The retries settle: once the stick stays at rest, the terminal and the
\* answers it gets agree for good on the last request, however many answers
\* were lost or came late, unless the terminal has left.
RequestsSettle ==
  <>[]axis_zero => <>[](demo_done \/ mode_requested = mode_received)

\* "Please firstly return to safe mode (mode 0)" (pc_terminal.c:180): a drone
\* in a flight mode is told safe or panic mode before any other.
SafeModeFirst ==
  [][ObeyRequest /\ mode \in FlightModes
       => mode' \in {SAFE_MODE, PANIC_MODE, mode}]_flightVars

\* "now the expected response is expired, resend request" (pc_terminal.c:254):
\* with the stick at rest, the last mode requested reaches the drone.
LastRequestArrives ==
  <>[]axis_zero => <>[](demo_done \/ commanded = mode_requested)

\* "fire button is pressed, go to panic mode" (pc_terminal.c:160): a button
\* that is held does not leave the drone under a flight mode.
FireStopsFlight ==
  <>[](fire /\ ~demo_done) => []<>(commanded \notin FlightModes)
=============================================================================

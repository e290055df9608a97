--------------------------- MODULE FlightContract ---------------------------
(***************************************************************************)
(* What the drone promises to the person who flies it, without motors,     *)
(* sensors, timers or a main loop: when the propellers may start turning,  *)
(* how they come to a stop, which mode changes happen without a request,   *)
(* and what has to happen before it resets.                                *)
(* Drone implements this specification (Drone!Contract).                   *)
(***************************************************************************)
EXTENDS Protocol

VARIABLES
  mode,      \* the flight mode in force
  spinning,  \* is any propeller turning
  phase,     \* "running", "leaving" (terminate was obeyed) or "done"
  obeyed     \* did this step obey, and answer, a mode request

contractVars == <<mode, spinning, phase, obeyed>>

ContractInit ==
  /\ mode = SAFE_MODE
  /\ spinning = FALSE
  /\ phase = "running"
  /\ obeyed = FALSE

\* The pilot's mode request is obeyed, whatever the drone is doing, and never
\* without an answer.  All other steps are the drone's own.
Command ==
  /\ mode' \in Modes
  /\ obeyed' = TRUE
  /\ UNCHANGED <<spinning, phase>>

\* Other requests, and time that passes.
Quiet ==
  /\ obeyed' = FALSE
  /\ UNCHANGED <<mode, spinning, phase>>

\* A guard (battery, lost link) takes over.
Guard ==
  /\ mode' = PANIC_MODE
  /\ obeyed' = FALSE
  /\ UNCHANGED <<spinning, phase>>

\* Only here may propellers start.
Fly ==
  /\ mode \in FlightModes
  /\ spinning' \in BOOLEAN
  /\ obeyed' = FALSE
  /\ UNCHANGED <<mode, phase>>

\* Panic only ever stops propellers, and hands over to safe mode once they
\* have all stopped.
Descend ==
  /\ mode = PANIC_MODE
  /\ spinning' \in {FALSE, spinning}
  /\ mode' \in {PANIC_MODE, SAFE_MODE}
  /\ mode' = SAFE_MODE => ~spinning'
  /\ obeyed' = FALSE
  /\ UNCHANGED phase

Rest ==
  /\ mode = SAFE_MODE
  /\ spinning' = FALSE
  /\ phase' = IF phase = "running" THEN "running" ELSE "done"
  /\ obeyed' = FALSE
  /\ UNCHANGED mode

\* Terminate is a landing that ends in a reset.
Leave ==
  /\ mode = TERMINATE_MODE
  /\ mode' = PANIC_MODE
  /\ phase' = "leaving"
  /\ obeyed' = FALSE
  /\ UNCHANGED spinning

Restart ==
  /\ phase = "done"
  /\ ~spinning
  /\ mode' = SAFE_MODE
  /\ spinning' = FALSE
  /\ phase' = "running"
  /\ obeyed' = FALSE

ContractNext ==
  \/ Command \/ Quiet \/ Guard \/ Fly \/ Descend \/ Rest \/ Leave \/ Restart

ContractSpec == ContractInit /\ [][ContractNext]_contractVars
=============================================================================

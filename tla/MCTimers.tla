------------------------------ MODULE MCTimers ------------------------------
(* One motor on each timer, and a control law that stops them or asks for   *)
(* more than full scale and for less than nothing.                         *)
EXTENDS Timers, TLC

MCTimerOf == (0 :> "TIMER1") @@ (1 :> "TIMER2")
MCTargets == {(0 :> 0) @@ (1 :> 0), (0 :> 2) @@ (1 :> -1)}
=============================================================================

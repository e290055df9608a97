------------------------------- MODULE MCDrone -------------------------------
(***************************************************************************)
(* Small instances of Drone.  The motor scale is shrunk (clip 3..7, step   *)
(* 2, full scale 8) so that a descent takes a few ticks; the odd distances *)
(* exercise the last, shorter step towards the setpoint.                   *)
(***************************************************************************)
EXTENDS Drone

Vector(a, b, c, d) ==
  [i \in Motors |-> CASE i = 0 -> a [] i = 1 -> b [] i = 2 -> c [] i = 3 -> d]

MCOneThrust == {Vector(7, 3, 3, 4)}
\* RAW_MODE can go below zero and beyond full scale.
MCRawThrusts == {Vector(-3, 9, 0, 1)}
=============================================================================

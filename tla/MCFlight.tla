------------------------------ MODULE MCFlight -------------------------------
(***************************************************************************)
(* Small instances of Flight: a pilot with a few keys, and a link on which *)
(* a few messages are under way at a time.                                 *)
(***************************************************************************)
EXTENDS Flight
=============================================================================

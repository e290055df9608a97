------------------------------- MODULE MCUart -------------------------------
(***************************************************************************)
(* Small instances of Uart: queues of two slots, so that a few bytes       *)
(* fill them, wrap around and overrun them.                                *)
(***************************************************************************)
EXTENDS Uart
=============================================================================

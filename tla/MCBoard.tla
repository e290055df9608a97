------------------------------ MODULE MCBoard --------------------------------
(* Packets of two bytes in a FIFO of five; three log records of two bytes.  *)
EXTENDS Board

MCBytes == ImuRegisters \cup {RESET}
  \cup ((0..Labels - 1) \X (0..FifoSize))
MCRegisters == ImuRegisters
=============================================================================

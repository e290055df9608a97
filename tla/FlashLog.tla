------------------------------ MODULE FlashLog -------------------------------
(***************************************************************************)
(* The data logger (data_logger.c) on the serial flash chip                *)
(* (drivers/spi_flash.c).  The driver is a sequence of commands that the   *)
(* chip obeys or ignores depending on what came before; none is read back. *)
(* The chip keeps its cells when the power fails, and also its latches     *)
(* when only the processor is reset.                                       *)
(***************************************************************************)
EXTENDS Integers, Sequences

CONSTANTS
  LastAddress,         \* highest address, 0x1FFFF
  RecordSize,   \* 15 bytes
  Stride        \* 16

ASSUME FlashAssumption ==
  /\ RecordSize \in Nat \ {0} /\ Stride = RecordSize + 1
  /\ LastAddress \in Nat /\ (LastAddress + 1) % Stride = 0 /\ LastAddress >= Stride

VARIABLES
  cells,        \* "erased", "data", or "mixed" when programmed over data
  wel,          \* write enable latch
  wsr,          \* the status register may be written
  protected,    \* block protection, set at power-up
  aai,          \* address of auto-increment programming, or -1
  commands,     \* what the processor has yet to send
  free_pointer

chip == <<cells, wel, wsr, protected, aai>>
flashVars == <<chip, commands, free_pointer>>

Addresses == 0..LastAddress
Erased == [a \in Addresses |-> "erased"]
chip_erase == <<"WREN", "ERASE">>

\* Mutant: the status register is not written.
BootUnlocked == <<"WREN", "ERASE", "WREN", "WREN", "ERASE">>

\* spi_flash_init: unlock, erase, enable writing; then flash_chip_erase in main.
Boot == <<"EWSR", "WRSR", "WREN", "ERASE", "WREN", "WREN", "ERASE">>

\* A chip fresh from power-up, whatever it holds.
FlashInit ==
  /\ cells \in {Erased, [a \in Addresses |-> "data"]}
  /\ wel = FALSE /\ wsr = FALSE /\ protected = TRUE /\ aai = -1
  /\ commands = Boot /\ free_pointer = 0

-----------------------------------------------------------------------------
(* log_data.                                                               *)

\* flash_write_bytes: it gives up, without WRDI, at the end of the memory.
Record ==
  LET beyond == {k \in 1..RecordSize - 1 : free_pointer + k >= LastAddress}
      Program(n) == [k \in 1..n |-> "AAI"]
  IN IF beyond = {}
     THEN <<"WREN">> \o Program(RecordSize) \o <<"WRDI">>
     ELSE <<"WREN">> \o Program(1 + (CHOOSE k \in beyond :
                                       \A j \in beyond : k <= j))

LogData ==
  /\ commands = <<>>
  /\ commands' = Record \o <<"ADVANCE">>
  /\ UNCHANGED <<chip, free_pointer>>

\* free_pointer past the record; a full chip is erased.
Advance ==
  LET next == free_pointer + Stride IN
    /\ free_pointer' = IF LastAddress <= next THEN 0 ELSE next
    /\ commands' = IF LastAddress <= next THEN chip_erase ELSE <<>>

-----------------------------------------------------------------------------
(* What the chip makes of a command.                                       *)

Accepts(c) ==
  CASE c \in {"WREN", "EWSR"} -> aai = -1
    [] c = "WRSR" -> aai = -1 /\ wsr
    [] c = "ERASE" -> aai = -1 /\ wel /\ ~protected
    [] c = "AAI" -> wel /\ ~protected
    [] c = "WRDI" -> TRUE

\* The address a programming command means: its own, or the next.
Programmed == IF aai = -1 THEN free_pointer ELSE aai

Obey(c) ==
  \/ /\ c = "WREN" /\ wel' = TRUE
     /\ UNCHANGED <<cells, wsr, protected, aai>>
  \/ /\ c = "WRDI" /\ wel' = FALSE /\ aai' = -1
     /\ UNCHANGED <<cells, wsr, protected>>
  \/ /\ c = "EWSR" /\ wsr' = TRUE
     /\ UNCHANGED <<cells, wel, protected, aai>>
  \/ /\ c = "WRSR" /\ protected' = FALSE /\ wsr' = FALSE
     /\ UNCHANGED <<cells, wel, aai>>
  \/ /\ c = "ERASE" /\ cells' = Erased /\ wel' = FALSE
     /\ UNCHANGED <<wsr, protected, aai>>
  \/ /\ c = "AAI"
     /\ cells' = [cells EXCEPT ![Programmed] =
                     IF @ = "erased" THEN "data" ELSE "mixed"]
     /\ aai' = IF Programmed = LastAddress THEN -1 ELSE Programmed + 1
     /\ wel' = (Programmed # LastAddress)
     /\ UNCHANGED <<wsr, protected>>

SendCommand ==
  /\ commands # <<>>
  /\ IF Head(commands) = "ADVANCE"
     THEN Advance /\ UNCHANGED chip
     ELSE /\ IF Accepts(Head(commands)) THEN Obey(Head(commands))
                                       ELSE UNCHANGED chip
          /\ commands' = Tail(commands)
          /\ UNCHANGED free_pointer

\* The power fails; an erase under way may leave anything.
PowerLoss ==
  /\ \/ cells' = cells
     \/ /\ commands # <<>> /\ Head(commands) = "ERASE" /\ wel
        /\ cells' = [a \in Addresses |-> "mixed"]
  /\ wel' = FALSE /\ wsr' = FALSE /\ protected' = TRUE /\ aai' = -1
  /\ commands' = Boot /\ free_pointer' = 0

\* The processor resets itself, never in the middle of a record, and the chip
\* is not reset.
FlashReset ==
  /\ commands = <<>>
  /\ commands' = Boot /\ free_pointer' = 0 /\ UNCHANGED chip

-----------------------------------------------------------------------------
FlashNext == LogData \/ SendCommand \/ PowerLoss \/ FlashReset

FlashSpec == FlashInit /\ [][FlashNext]_flashVars

-----------------------------------------------------------------------------
(* Properties.                                                             *)

Recorded == {a \in Addresses : a < free_pointer /\ a % Stride < RecordSize}

\* Whenever the logger has nothing to send, the chip holds exactly the records
\* below free_pointer, none of them written over another, and it is closed for
\* writing.
LogReadable ==
  commands = <<>> =>
    /\ cells = [a \in Addresses |-> IF a \in Recorded THEN "data" ELSE "erased"]
    /\ ~wel /\ aai = -1
=============================================================================

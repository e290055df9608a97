# Verification of the ESL quadcopter software

TLA+ models of the program in `src/in4073`: the firmware of a quadcopter, the
PC program its pilot uses, and the serial protocol between them. TLC checks
small instances; TLAPS proves the properties marked as theorems for every value
of the constants.

## The system

A single-threaded main loop on the drone (`in4073.c`) polls three things in
turn: the IMU (control tick), one received byte, and a 20 Hz flag (battery and
link guards). Interrupts only set flags, samples and ring buffer entries. The
PC runs a polling loop of its own (`pc_terminal.c`): joystick every 10 ms, one
key, one received byte, and the repetition of an overdue request. Between them
is a UART line with START/END/ESCAPE framing and a CRC.

| Component | State it keeps | Operations | What makes it correct |
|---|---|---|---|
| Main loop, mode automaton (`in4073.c`, `control.c`) | mode, motor values, panic setpoint, exit and panic flags, silence and battery counters | control tick per mode, message, timer tick, exit, reset | motors start only in flight modes; silence and low battery end in a monotone descent; reset only when landed |
| Message handler (`in4073_message_helper.c`) | P values, stick data | set mode, input data, P values, and their answers | each request obeyed and answered once |
| Data logger and flash (`data_logger.c`, `drivers/spi_flash.c`) | record pointer; the chip's cells, latches and protection | boot sequence, append a record, erase when full | no record over another, the pointer says what is in the chip |
| ADC (`drivers/adc.c`) | last battery sample | request, interrupt | the low voltage is noticed in the end |
| Serial driver (`drivers/uart.c`, `queue.c`) | two ring buffers, transmitter flag | enqueue, dequeue, put, interrupt | order, no loss short of an overrun, transmitter never stranded |
| Framing (`message/message.c`) | parser index, escape flag, buffer | send, parse a byte, validate | in order, at most once, back in step after damage |
| Terminal (`pc_terminal.c`, `pc_message_helper.c`) | mode requested and received, key gate, calibration flag, timeout | key, fire button, receive, resend | its picture of the drone is right and requests arrive |
| Timers, motor PWM (`drivers/timers.c`), radio notification (`drivers/ble.c`) | counter, compare registers, time base, `radio_active` | two PWM interrupts, `update_motors`, `get_time_us` | no inverted output, time is current, a stop arrives |
| TWI (`drivers/twi.c`) | two flags, the bus and its shortcut | blocking read and write, interrupt | transfers are exact and release the bus |
| IMU (`invensense/mpu_wrapper.c`, FIFO functions of `inv_mpu.c`) | sensor FIFO, overflow bit, interrupt pin, `sensor_fifo_count` | read a sample in DMP or raw mode, reset the FIFO | samples are whole and recover from an overflow |
| Barometer, GPIO, BLE's serial service | chip state | setup | not used in flight |
| Joystick and GUI of the PC | axes, buttons, trims | read, saturate | no wrap-around |
| `dfu_serial` | packet number | upload a firmware | packets are acknowledged |

Components meet through `current_mode` (main loop, handler, control law and
guards all write it), the motor array (control law and PWM interrupts), the
ring buffers (main thread and UART interrupt), the bus flags (main thread and
TWI interrupt), the main thread itself, which blocks while it waits for the bus
or the flash chip, and messages.

What is hard: the unmasked `dequeue` against the receive interrupt; guards and
pilot requests that overwrite each other between two control ticks; static
flags in the panic descent that survive leaving the mode; bytes lost in the
middle of an escape; late, lost and repeated answers at a terminal whose
keyboard, fire button and receiver share one variable; compare registers that
must not be written near a flip, by handlers the radio may stop; a sensor that
fills its FIFO while the driver is half way through reading it; a flash chip
that ignores what it is told at the wrong moment, and keeps its latches when
only the processor is reset. `PROJECT.json` lists every hazard at its line.

## Modules

| Module | Models | Notes |
|---|---|---|
| `Protocol` | modes and messages | vocabulary of all others |
| `FlightContract` | nothing in the code: an abstract specification | what the drone promises, with mode, "is any propeller turning", a phase and "was a request obeyed" only |
| `Drone` | `in4073.c`, `control.c`, the handler, logger pointer, ADC | one action per loop stage and outcome |
| `Queue`, `Uart` | `queue.c`, `uart.c` | the main thread's dequeue is three steps, everything masked is one |
| `Framing` | `message.c`, both `send_message` | sender and parser byte by byte, real byte values, ideal CRC; either direction |
| `Terminal` | `pc_terminal.c`, `pc_message_helper.c` | one action per stage of the loop |
| `Flight` | Terminal composed with the drone's contract | lossy link that keeps order |
| `Timers` | `timers.c`, `update_motors`, `SWI1_IRQHandler` | count by count, register by register |
| `Twi` | `twi.c` | calls of any length; also the contract for its callers |
| `Imu` | `mpu_wrapper.c`, the FIFO functions of `inv_mpu.c` | extends `Twi`, whose calls it makes |
| `FlashLog` | `data_logger.c`, `spi_flash.c` | one command of the chip per step |
| `Board` | the main thread between `Imu` and `FlashLog` | what blocks what; reset and power failure |
| `MC*` | | instances for TLC |
| `Modular` | | lemmas on quotients and remainders |
| `Drone_proofs`, `Uart_proofs`, `Flight_proofs`, `Timers_proofs`, `FlashLog_proofs`, `Board_proofs`, `Framing_proofs` | | theorems |

Definitions named in a comment as *Mutant* are not part of any specification:
each is a changed form of the definition after it, with a mistake one could
make in that code, and shows that the property it belongs to would notice.

### Drone

A loop iteration is three steps, `pc` = "sensor", "rx", "timer", and a fourth,
"clear", when the timer stage had something to do: `clear_timer_flag` comes at
its end, after two `printf`s. Interrupts, messages and time fall between them.
`ControlTick` is the whole of the sensor stage: `run_filters_and_control` with
the law of the mode, the update of its static flags, and `log_data`.
Abstractions:

- The flight laws are nondeterministic over a set of motor vectors, `Thrusts`
  within the clip of the code, and `RawThrusts` for RAW_MODE, which does not
  clip and may go negative. With the lift stick at its end they stop the motors.
- Received bytes are reduced to "a valid message" and "anything else".
- `TimePasses` is the end of a 50 ms period, at any moment: it sets the flag,
  and `elapsed` counts the periods since the last message. So silence grows
  while control ticks run. The flag coalesces: a period that ends while it is
  set, or before it is cleared, is lost. A tick that comes exactly `Timeout`
  periods after the message may find the second over or not, depending on where
  in a period the message came; it decides either way.
- `overdue` is a history variable: how many periods have ended, with the flag
  clear, on a link silent for the timeout or longer.
- A battery sample is "ok" or "low", whatever the battery did; it reads "low"
  before the first conversion because `bat_volt` is zero then.
- `sent` records what a step puts on the wire.
- In the panic law the motor values are compared and stepped as in the code;
  arithmetic shift rounds down, as `\div` does.

`control.c` has one opening brace more than closing ones, in the MANUAL_MODE
case (the `else` at line 119). It is read with the `else` block closed after
the bounds loop (line 130), as in the other flight modes, so that MANUAL_MODE
ends in its `break`.

The contract has eight actions. `Contract` in `Drone` maps `mode` to
`current_mode`, `spinning` to "some motor gets a pulse after clamping", `phase`
to the two flags of the exit and `obeyed` to "this step sent a MODE_UPDATE".
`ImplementsContract` says every behaviour of the firmware is one of the
contract: motors start only in a flight mode; the mode changes without an
answered request only when a guard fires, a terminate turns into a panic or a
descent ends; panic only stops motors and hands over to safe mode by itself only
when all are stopped (a pilot who asks for safe mode gets it at once, as in the
code); and a reset follows only on terminate and landing. `obeyed` is what
tells a hand-over from a request: without it a descent that ends too early
would look like one.

### Uart and Queue

Bytes are numbered as they arrive or are put, so that loss, duplication and
order are visible. `uart_put` masks the interrupt and is one step. The main
loop's `dequeue` is fetch (byte and `first`), load of `count`, store of
`count - 1`. `ErrorPut` is the `printf` of the interrupt's error branch, which
may interrupt the dequeue. `rx_overrun` and `tx_overrun` are history variables:
properties about order hold until a byte met a full queue, which `enqueue` does
not refuse.

### Framing

`send_message` puts one byte per action (`BeginFrame`, `SendEscape`,
`SendByte`, `SendEnd`, `SendTrailer`), the line may drop any byte under way,
the receiver takes them one at a time. `place` and `escaped` are where the loop
of `send_message` is. `trailer` is the newline the drone adds and the PC does
not, so it also tells the direction: with it the receiver is the PC, whose loop
keeps the result of `rs232_getchar_nb` in a `char` before it compares it with
-1 and so takes the byte 0xFF for "nothing received" (`SkipByte`). The drone's
receiver parses every byte (`Parsing`). The drone's `printf` writes on the same
line, also out of the error branch of the UART interrupt, so `PutText` puts a
character wherever `send_message` is: between two frames, where it harms
nothing, or inside one (`split`). That text holds no START, END or ESCAPE is an
assumption (`FramingAssumption`): no format string of `in4073` has one.

A message stands for type, CRC and payload, the CRC being its second byte; the
two bytes of the code's CRC are one here. The messages of a behaviour are
distinct, so that a delivery can be traced to its frame. The CRC is ideal: a
buffer validates when it is a message that was sent, and no other byte that may
get into the buffer, flipped or not, passes for the CRC of a message
(`CRCAssumption`). For the other bytes nothing of this kind is assumed.
Messages of one type share the first byte, often more; when all between them is
lost, the first byte of one frame and the rest of the next do make up a message.
Such a splice is what `validate_message` accepts too; that it does no harm is
`DeliveredInOrder`.

`validate_message` clears the CRC in the buffer, as in the code, which is what
a frame without one would be compared with; that such a short frame matches
stale bytes is left out. `origin` is a history variable, the bytes of the line
that filled the buffer. `lost`, `damaged`, `printed` and `split` record what
went wrong; a lost character of text damages no frame. `LoseByte` is the line
itself. A receive queue that is overrun does worse: it hands out old bytes
again (see `Uart`), which is left out here.

Two kinds of messages never arrive (`Receivable`): those that contain START or
END, because `parse_message` undoes the escape first and then takes the byte
for the delimiter, and to the PC those that contain 0xFF. The first contradicts
the sender's comment (`in4073_message_helper.c:17`, "add escaping where
necessary"); no run is spent on it, since a single such message on a line
without loss shows it. What is checked is that these frames harm no other.

### Terminal and Flight

Stages of the terminal's loop are actions in any order, since every stage may
find nothing to do. `retval` is one variable as in the code: gate of the
keyboard, result of keys, fire button and received messages. The uninitialised
`t_message_expect` may or may not have passed at the start. `Flight` puts two
sequences of messages between `Terminal` and the drone. The drone there is
`FlightContract` plus the answers of the message handler; since `Drone`
implements the contract, nothing of the drone's internals is needed. INPUT_DATA
does not appear: the contract already lets the motors of a flight mode start
and stop at any time.

### Timers

`Tick` is one count of the two timers, which run together. The hardware toggles
each output when the counter starts over and when it reaches the motor's
compare register. A handler has three kinds of steps: `Enter` clears its event,
advances the time and captures the counter; `Check` reads `radio_active` and
tests what was captured; `WriteRegister` is the clamping of one motor and its
register. Any number of counts may pass before `Enter`, and after it as many as
the handler takes, at most `Slack` counts of processor time from its capture to
its last write; the radio and its notification may cut in at each step. What
`Enter` puts together touches nothing that the radio or a higher priority reads
or writes, and being stopped before the capture is entering later. The radio stops
everything but the counter; it announces itself `Notice` counts ahead and
`radio_active` is toggled by both notifications, which are assumed to come in
pairs. `update_motors` stores one motor at a time, and the main thread advances
only while no handler runs or waits. `get_time_us` is taken apart at its loop
test, its load of `global_time`, its capture and its read, because the handler
that advances `global_time` and captures into the same register may cut in
anywhere. `stale` is a history variable: the radio was switched on while a
handler was between capture and check ("possible"), and that check passed
("yes"). `TimersAssumption` holds of the real numbers (window and slack within
the shortest pulse, longest pulse within the period). `ClockAssumption` says
that a call of `get_time_us` returns before the 32-bit time has gone once
around, 71 minutes; the main thread would have to be kept from running for as
long.

`get_time_us` returns 0 while `global_time` is 0, and from inside the TWI error
handler, which delays the overflow handler, its result may be one period old
(it is only printed there).

### Twi

One action per stretch of `i2c_read` and `i2c_write` between two waits, one for
the interrupt handler, three for the hardware. What a byte boundary does
depends on the shortcut set at that moment. An error event sets neither flag:
the call never returns. `TwiNext` lets any caller make calls of any length, so
it says what the driver allows; `UsesBus` in `Board` shows that the sensor's
code stays within it. Idealised: STOP and STARTTX take effect at once, RXD has
one byte, a slave does not get stuck in the middle of a byte. For `i2c_write`
that matters: it triggers STOP and returns without waiting for STOPPED
(`twi.c:71`), so that it leaves the bus released is what STOP is taken to do,
not what the driver waits for.

### Imu

`ReadSample` starts what main does when `check_sensor_int_flag` says so; the
other driver actions follow one finished transfer each (`imuPc`): byte count,
overflow bit when the FIFO is more than half full, packet, FIFO reset. Bytes
are pairs of packet number and place, so that a torn packet is visible.

- Both modes use one packet size. A change of mode runs `imu_init`, whose bus
  traffic is abstracted to a sensor that starts over.
- A packet comes every 10 ms and a reading takes 3.2 ms: at most one arrives
  meanwhile (`arrived`), any number while the loop does something else.
- Only a read of INT_STATUS clears the overflow bit, a FIFO reset does not; any
  read clears the pin. So a stale bit costs one reset too many.
- In DMP mode a torn packet is recognised by its quaternion. In raw mode
  nothing tells. `TornIsNoticed` is about the FIFO between two readings: a torn
  one is reset by the next. When the sensor overflows after the status was read
  and before the packet, or in the middle of it, one torn packet is still taken
  for a sample.
- A change of mode empties the FIFO after main has found the interrupt pin set:
  the reading that follows finds too few bytes, and the control law runs on the
  old sample.
- `spare` is a history variable, a budget of control steps that may see an old
  sample: full (four) at an overflow, one at a change of mode, and never
  refilled by a fresh sample.
- `mpu_reset_fifo` is its write of USER_CTRL; the FIFO is off between its first
  and last write.

### FlashLog

The driver reads nothing back while it logs, so it is a list of commands and
the chip obeys each or ignores it: a write needs the latch, the status register
its own unlocking, an erase the end of auto-increment programming. `Boot` is
`spi_flash_init` with the erase main does after it, `Record` what
`flash_write_bytes` sends, `Advance` the new pointer and the erase of a full
chip. A power failure resets the latches, sets the protection and may leave an
erase half done; a reset of the processor touches nothing in the chip, which
is left unprotected. As main resets between two records, the write latch and
auto-increment mode are clear then; a kept auto-increment mode is not met. The
logged variables are never assigned in the code, so a record has no contents.
The delays after commands are taken to be long enough. The code erases the chip
at every boot and nothing reads it back; what is shown is that whoever does
before the next boot finds exactly the records below the pointer.

The early return of `flash_write_bytes`, which would leave the chip in
auto-increment mode, is in `Record`. With strides that divide the chip it is
never taken, which the proof of `LogReadable` shows. A pin reset in the middle
of a record is not modelled (`FlashReset` is `NVIC_SystemReset`, which main
calls between two passes).

### Board

One main thread: `Sense` may only start with the log at rest, `Control` takes
the sample (or the old one) and begins a log record, and until its commands are
out nothing else runs in that thread while the sensor goes on. A chip erase
takes a tenth of a second in which any number of packets arrive. A refused
transfer stops the loop for ever, as in the code; `SystemReset` and
`PowerFails` start it over.

## Runs

| Run | Question | Bounds | Result |
|---|---|---|---|
| `drone_modes` | safety properties of the mode automaton, refinement of the contract, and do the guards succeed in the end | clip 3..7, step 2, scale 8, one uneven thrust vector, one raw vector with values below zero and beyond scale; modes 0, 1, 2, 3, 6, 9; timeout 1 period of the timer; battery check every second tick; one P value, one log record; fairness | passes |
| `drone_terminate` | does every terminate arm the exit (`control.c:397`) | timeout 20, battery period 160 | violated |
| `uart` | order, loss and stranding under all interleavings | queue of 2, five bytes each way: the queues wrap twice and overrun | passes |
| `uart_lag` | is every byte read (`in4073.c:126`) | queue of 2, two bytes | violated |
| `framing` | order, duplication, splicing, resynchronisation, both directions | buffer of 3, four messages (one with an escaped delimiter, one with 0xFF), four losses, one printed character out of two, two bytes under way | passes |
| `flight` | does the terminal's picture follow the drone, do retries settle | keys 0, 2, 3, 4, 9, u; three presses, two losses, one message under way in each direction | passes |
| `timers` | outputs, time base, radio and `update_motors` count by count | period 4, rest pulse 2, full scale 1, window 1, slack 1, notice 2, radio off for 4; one motor per timer; time modulo 9, one period per call of `get_time_us` | passes |
| `timers_radio` | is the check what its comment says (`timers.c:26`) | as `timers` | violated |
| `board` | bus, samples and log under one blocking thread | packets of 2 bytes in a FIFO of 5; three records of 2 bytes; one bus error, one reset or power failure | passes |
| `flight_gate` | safe mode between flight and another mode (`pc_terminal.c:180`) | no loss | violated |
| `flight_retry` | is a lost request repeated (`pc_terminal.c:249-254`) | two losses | violated |
| `flight_fire` | does the fire button stop flight (`pc_terminal.c:160`) | two losses | violated |

Why the bounds are enough: the modes left out of `drone_modes` share a law with
one that is in (yaw and full control with manual, the empty modes with
calibration). The motor scale is small but has every relation to the step that
the code can meet: an odd distance, a distance below the step, values on both
sides of the setpoint, below zero and above full scale. Timeout and battery
period only have to be reachable at every stage of the loop. The theorems make
the same statements for all values. A ring buffer of two slots filled by five
bytes wraps and overruns; `Uart_proofs` covers any size for what it proves. In
`framing` the buffer is as long as the longest message, as in the code, and
four losses are enough to cut an escape and two delimiters, and to splice the
first byte of a message with the rest of the next. Two bytes under way
are enough because any byte that reaches the front of the line may be lost
there and the parser takes them in order: a longer line changes how far the
sender is ahead, on which nothing the parser does depends; `Framing_proofs` has
a line without bound. `LinkLimit` bounds
how many messages wait on a link of `Flight`; `MaxKeys` and `MaxLost` bound the
pilot and the losses, after which the link is reliable: that is the usual
reading of "messages get through in the end".

In `timers` the numbers are the smallest with every relation of the real ones:
two pulse lengths, a window that ends before the shorter one, a slack that just
fits, a notice longer than the slack, a time that wraps at no multiple of the
period. In `board` the FIFO holds two packets and a half, so that an overflow
tears one, as 1024 bytes do with packets of 12; two labels tell a packet from
its neighbours; the log of three records wraps and erases.
In this FIFO an overflow costs at most three old samples; the fourth needs room
for one more packet above the half (a FIFO of 6). `Board_proofs` has any size.

`uart`, `framing` and `flight` do not check deadlock: their behaviours end when
the bounded bytes, messages and keys are used up. `board` does not either: with
the bus failed and the restarts used up the loop waits for ever, which is what
the code does. `Drone` and `Timers` never stop and are checked for deadlock.

### Properties

- `ShutdownLanded`: the loop ends only with motors stopped and after a
  terminate request was obeyed, although messages and guards are still
  processed between `demo_done = true` and the test of the loop condition.
- `NoFlightOnSilentLink`, `LinkLossLands`: flight laws do run on a link that is
  silent for too long, until the loop looks at the clock. The property bounds
  how long: when a second period of the timer ends after the timeout, the drone
  is in panic or safe mode, unless the loop was held up so that the flag was
  still set. A link that stays silent ends with motors stopped for good.
- `PanicNeverSpeedsUp`, `PanicLevels`: the descent is monotone in the largest
  motor value and in the spread, also when panic is left and entered again
  between two ticks with a static setpoint behind it.
- `LowBatteryPanics`: a battery whose samples stay low keeps forcing panic.
  Panic is not latched: the pilot can leave it until the next check, and the
  property says no more than the code does.
- `ReadInOrder`, `NoPhantomBytes`: the lost update of `count` makes it too
  small, never too large. So the race costs a lag (`uart_lag`), but the main
  loop reads no byte twice, skips none and invents none.
- `SentInOrder`, `TransmitterNotStranded`, `AllSent`: the same for the way out;
  every single byte put leaves in the end, unless the queue is overrun.
- `DeliveredInOrder`: no message is delivered twice and none overtakes another,
  so that no mode request is ever obeyed again, although a delivered message
  stays in the buffer and lost delimiters let frames run into each other.
- `LossIsLocal`: damage to a frame, by a lost byte or a printed one, costs it
  and at most the next one, whatever the parser's state, in both directions. The
  messages the receiver cannot get are excepted; they cost no other.
- `BeliefIsLatest`, `RequestsSettle`: the terminal follows the drone's answers,
  and its retries stop with mode requested and received equal.
- `UprightUnlessStale`: each motor output is high exactly until the counter
  reaches its register, however late a handler is entered. The one exception is
  a check passed with a capture from before the radio was on; `NeverFlipped`,
  which has no exception, is what `timers_radio` refutes.
- `RadioSparesHandlers`: a handler between its check and its last write is not
  caught by the radio, which rests on `radio_active` being set all the time
  from announcement to end.
- `TimeIsCurrent`: `get_time_us` returns a time between its call and its
  return, across overflows and the wrap of the time base.
- `MotorsStop`: when the control law asks for zero for good, the registers end
  at the rest pulse, although handlers write `motor[]` back and skip windows.
- `TransferExact`, `BusReleased`: a transfer moves exactly the bytes asked for
  and leaves bus and flags as the next call needs them.
- `UsesBus`: every step of the board is one the bus driver allows or none of it.
- `LogReadable`: at rest the chip holds the records below the pointer, none
  programmed over another, and is closed for writing, through power failures
  and resets.
- `NoSilentBacklog`: the sensor never holds two packets that neither pin nor
  `sensor_fifo_count` tells of.
- `TornIsNoticed`: a FIFO that is left with the beginning of a packet missing is
  one the next reading resets.
- `RecoversFromOverflow`: in DMP mode the control law sees an old sample at most
  four times after an overflow, fresh ones in between or not, at most once after
  the return from raw mode (the FIFO was emptied after the pin was found set),
  and not otherwise. In raw mode `sensor_fifo_count` may keep announcing a packet
  that is gone; the code lets the control law run on the old sample then.
- `LoopKeepsGoing`: without a bus error, control steps never stop.

### Fairness

`Drone`: the loop never blocks (weak fairness of its stages), the IMU delivers
samples (strong fairness of `ControlTick`, which competes with "nothing there"
in its stage), time passes and a started conversion completes (weak fairness).
Nothing is assumed of pilot, link and battery. `Uart`:
the main loop polls and the transmitter shifts bytes. `Flight`: waiting
messages are read, an overdue request is repeated and a held button seen by a
loop that tests them in every iteration, and time passes. The pilot owes
nothing; properties that need the stick at rest say so. `Timers`: the counter
runs, an announced radio is used, and `get_time_us` goes on where nothing stops
it (weak fairness); `update_motors`, which interrupts disable again and again,
goes on too (strong fairness). A handler whose event waits again and again
within the window, away from the radio, passes its check again and again: it is
not late every time, nor the radio announced just before its check every time.
That is a condition on latency, which nothing in the code but the priorities
and the length of the other handlers justifies; without it registers need never
be written. `MotorsStop` assumes besides that the main
thread gets to run. `Board`: the processor, the bus and the sensor go on (weak
fairness), and packets keep coming.

## Findings

Six runs show a comment, a message or a to-do entry that the code does not keep
up with: a terminate overtaken by a guard, the lost update of
`rx_queue.count`, the stale capture of a motor interrupt, the keyboard gate, the
lost request that is not repeated, and the dead fire button. `PROJECT.json`
quotes the lines and describes each counterexample.

## Proofs

`Drone_proofs` proves all six safety properties of `drone_modes`, refinement
included, from the assumptions on the constants alone (`MotorAssumption`,
`BoundAssumption`: the clip is above zero and the sets are within it, steps and
periods are positive). The inductive invariant is `SafetyInv`:

- `TypeOK`;
- `Landed`: with `demo_done` set the motors are at rest and the exit was armed;
- `SilenceSeen`, which carries `NoFlightOnSilentLink`: once a period has ended
  after the timeout, `elapsed` is beyond what a tick lets pass, and either the
  guard has fired and no message came since, or it is the first such period and
  the tick that will see it is still to come (the flag is set, and not about to
  be cleared);
- `TargetBelowPeak`: while `in_panic_mode` is set, the stored setpoint is not
  above the largest motor value. Nothing else relates the static `setpoint` to
  motor values that other modes have changed since, and without it a panic tick
  could speed motors up.

Each action has its own step. The panic law rests on lemmas about `Approach`,
`Peak`, `Spread` and `Average`. The refinement maps initial states to
initial states and each action to one contract action or a stutter; that
`Descend` allows what the panic law does needs `TargetBelowPeak` again.

`Uart_proofs` proves all safety properties of `uart` for queues of any size and
any number of bytes. `UartInv` adds `RxCount` and `TxCount`, which relate
`count` to the bytes put in and taken out: the transmit count is exact because
everything that touches it is masked or in the interrupt, the receive count is
a lower bound because its decrement is not masked. `RxCount` is what keeps
`count` from going below zero. Order needs to know what the slots hold:
`RxOrder` and `TxOrder` say that the bytes waiting in a queue continue what was
taken out or sent, and where `first` and `last` point, modulo the size
(`Place`, `Holds`). After an overrun all that is left is that whatever is read
once came in (`Filled`).

`Timers_proofs` proves `TypeOK`, `UprightUnlessStale`, `RadioSparesHandlers`
and the action property `TimeIsCurrent` for any period, window, slack, notice
and set of motors that satisfy `TimersAssumption`. The invariant adds that
`radio_active` is exactly "the radio is not off" (`RadioFlag`) and, in
`HandlerInTime`, two facts about a handler. Between capture and check the radio
is not on and the counter is at most `age` beyond what was captured, unless
`stale` says that the radio was on meanwhile. Past the check it has used up no
more than its slack of window and notice; so a register is always written
before the shortest pulse ends, but for the stale capture.

`TimeIsCurrent` compares times modulo the range of `global_time`, which is no
order. Its invariant `CallInv` therefore counts from the call: `global_time`
when it began, what was added since (`Elapsed`), and what had been added when
`high` was loaded (`Loaded`). The additions are whole increments, no more of
them than periods, and with `ClockAssumption` together less than the range. So
when `high` equals `global_time` again nothing was added in between, the
counter has not started over, and what was captured lies between the call and
now (`Good`). This covers the overflow at any point of the loop, a handler
that overwrites the capture, periods lost under the radio, and the wrap.

`FlashLog_proofs` proves `LogReadable` for a chip of any size and records of
any length. `FlashInv` says what the cells hold after each command: at rest,
after the latch is opened, after n bytes, after the record, during the boot
sequence.

`Board_proofs` proves all six safety properties of `board`, in three parts.

- The bus driver's own specification, for transfers of any length to a slave
  that answers anything: a call releases the bus (`ReleasesBus`) and moves
  exactly what was asked (`MovesExactly`). `TwiInv` has one conjunct for each
  place the main thread can be at, with the shortcut that belongs to the number
  of bytes left.
- The board: every step is a step of `Twi` or leaves it alone
  (`CallsAsAllowed`), and a step of `FlashLog` or leaves that alone, so
  `TransferExact`, `BusReleased` and `LogReadable` hold on the whole board,
  across resets and power failures, and with a bus that failed.
- The sensor's FIFO, for packets and FIFOs of any size that satisfy
  `ImuAssumption`. `FifoInv` has one conjunct for each stage of a reading. Three
  ideas carry it. `InPackets`: counted from the end of the FIFO the bytes are
  whole packets, however many were dropped at the front, so that a count taken
  modulo the packet size tells whether the front is torn. `Whole \/ Excused`: a
  torn FIFO is so full that the driver will ask for the overflow bit, also
  with the packet taken out that is under way, and the bit is set. And
  `Expected`, an account of the old samples still to come: two for a
  set overflow bit, two for a packet that has lost its beginning or is followed
  by such a one (`Spoilt`), one for too few bytes. It is covered by `spare` at
  every stage of a reading, and a fresh sample adds nothing to it. So an old
  sample is always paid for by an overflow or a change of mode before it, which
  is what `RecoversFromOverflow` says of the budget; `spare >= 0` alone is not
  inductive.

`Flight_proofs` proves `FlightTypeOK` and `BeliefIsLatest` for any keys, any
number of messages under way and any number of losses. `FlightInv` adds the
types of the two links.

`Framing_proofs` proves all properties of `framing` for
messages of any length and number, any losses and printed characters, and a
line of any length, from the assumptions on the constants alone
(`FramingAssumption`, `CRCAssumption`).

- *Types* are inductive; that `msg_index` stays below the size of the buffer
  follows from the one test in the parser, whatever arrives.
- *Back in step.* `LossIsLocal` speaks of frames that are through, an invariant
  has to speak of the byte the parser sees next (`Front`), and when the line is
  empty that is the one `send_message` puts next (`Upcoming`). `Lined` says
  that the bytes under way with that one behind them are a stretch of what
  `send_message` makes, each `Linked` to the next but for frames printed into.
  For the byte in front, `InStep` says that behind an intact frame parser and
  sender agree on whether it is escaped, `Reading` that an intact frame behind
  an intact frame is in the buffer as far as it was read, and `Read` that such
  a frame is delivered once it is through. A loss moves the front and damages
  its frame, which takes `InStep` and `Reading` out of force for it and for the
  first byte of the next.
- *Contents.* `Filled` says what each byte of the buffer is: a byte of a
  message as it was sent, or flipped by an ESCAPE too many or too few, or a
  stray one, a delimiter flipped or a printed character. By `CRCAssumption` the
  CRC of a buffer that validates is then that of its own frame
  (`AcceptsWithOwnCRC`).
- *Order.* The bytes in the buffer and those under way, one list (`Trail`),
  rise strictly by frame and place (`Rising`). Of a frame up to the last one
  delivered nothing is left in it up to the CRC, and the sender is past it
  (`Used`); what follows the CRC may still arrive, when the message was
  completed with the bytes of another frame. When the buffer validates, it
  holds the CRC of the frame it delivers, so this frame is later than all that
  were delivered. `Filled` needs `Rising` (a byte in the buffer belongs to a
  message that was sent) and the order needs `Filled`; together they are
  inductive (`TraceInv`).

`Modular` has the facts about quotient and remainder that the queue's indices
and the log's addresses need.

Model-checked only: the liveness properties (`LinkLossLands`,
`LowBatteryPanics`, `AllSent`, `RequestsSettle`, `MotorsStop`,
`LoopKeepsGoing`), which are out of the prover's reach. Every invariant and
action property the passing runs check, `ImplementsContract` and `UsesBus` are
theorems.

What the proofs about `Framing` take for granted is the ideal CRC. The real one
has sixteen bits: that it takes a damaged buffer for a message, or a stray byte
pair for the CRC of another message, is unlikely, not impossible.

## Hazards without a property

`PROJECT.json` lists seven with the reason: a frame shorter than its CRC
(`message.c:45`, needs the polynomial), the calibration flag set by the key
(`pc_terminal.c:186`, promises nothing of the drone), the terminate answer sent
once and requests that survive the reset (`in4073.c:199`, `in4073.c:204`,
nothing repeats or rejects them), the stick at half lift after boot
(`control.c:113`, forbidden nowhere), and the arithmetic of RAW mode and of the
trims (`control.c:365`, `pc_terminal.c:129`). The radio's notifications
(`ble.c:320`) are covered only as far as they come in pairs: a lost or spurious
one would leave `radio_active` wrong for good, and nothing in the code would
set it right.

## Not modelled

- The arithmetic of the control laws and its overflows: 32-bit products are
  outside what TLC enumerates, and no properties of `Drone` rest on them.
- The joystick's saturation and the GUI of the PC; the PC's serial and terminal
  input and output.
- The barometer, which main sets up and never reads; pin configuration; the BLE
  serial service, over which main neither sends nor receives.
- `imu_init` and the rest of the InvenSense set-up, and the functions of the
  flash driver that nothing calls.
- The firmware upload (`dfu_serial`).
- Vendored code: `src/components`, `src/gcc-arm-none-eabi`, the rest of
  InvenSense's driver. This is by far the largest part of the repository's
  lines. Superseded: `src/PC Node`, `src/data_logger.c`, `in4073/window1.c`,
  `pc_terminal/gui_old.c`.

## Plan

Done: `Drone` with `FlightContract`, `Uart`, `Framing`, `Terminal`, `Flight`,
`Timers`, `Twi`, `Imu`, `FlashLog`, `Board`, and the proofs above. What would
come next, most important first:

1. `Joystick` and the integer arithmetic of the flight laws, over all inputs of
   their width, against reference definitions.
2. `Framing` with the real CRC over short frames.
3. `Flight` with the calibration flag against the drone's captured offsets, and
   `Terminal` with INPUT_DATA.
4. The upload's packets and acknowledgements.

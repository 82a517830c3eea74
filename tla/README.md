# TLA+ models of `autonomous`

`autonomous` is the on-board software of a drone on a Raspberry Pi: a sensor
unit (the ADIRU) that samples the sensors 60 times a second and broadcasts one
frame of 32 doubles over a Unix socket, terminal monitors that display the
frames, a motor controller and a guidance program that talk over MQTT, and
drivers for five devices.  This directory holds TLA+ models of it, TLC
configurations that check them on small instances, and TLAPS proofs of the
properties that matter most for every size.

Line numbers below are those of the commit the models were written from;
`PROJECT.json` maps every definition to its lines.

## 1. The system

### Components

| Component (source) | State it keeps | Operations | Talks to |
|---|---|---|---|
| Broadcast server (`src/util/server.cpp`) | listening socket, epoll set, `listeners`, path of the socket | `init`, `handle_events`, `broadcast`, `tick`, `clean_up` | kernel, clients |
| ADIRU main loop (`src/main/adiru-nosocket.cpp`, `src/util/timer.cpp`) | `data[32]`, filters, orientation | `tick` every 16 ms: read sensors, filter, take over the GPS position, `server.tick()` | drivers, GPS unit, server |
| GPS unit (`src/backend/gps.cpp`) | `nmea_result`, `lat`, `lng`, `fix`, `new_data` | a thread that reads sentences and stores positions | main loop, through plain shared fields |
| Monitor link (`src/main/monitor.cpp` 349-488) | socket, `adiru_connected`, `data[32]` | connect and retry, receive, detect the loss, reconnect | server |
| Monitor display (`src/main/monitor.cpp` 41-321) | tables, log ring, status | redraw every 100 ms, keyboard thread, raw mode | terminal; shares everything with the link's thread |
| Motor controller (`src/main/motor_controller.cpp`) | `throttles[4]` | arm, consume MQTT messages, set pulse widths and LEDs | MQTT, PCA9685 |
| PCA9685 driver (`src/backend/pca9685.cpp`) | `freq`, `per`, the chip's registers | `set_frequency`, `set_pwm_*`, `wake_up`, `sleep` | I2C |
| Guidance (`src/guidance/auto_com.cpp`) | bracket and factor of a bisection, thrust | search for the centre of mass, ramp thrust, stop on SIGINT | MQTT both ways |
| MQTT ADIRU (`src/main/adiru.cpp`) | as the ADIRU | publishes the frame as text; no build target compiles it | MQTT |
| Tokenizer (`src/util/str_utils.cpp`) | position in a string | `next_token` | GPS, motor controller, guidance |
| BMP390, MPU6050, QMC5883 drivers | scale, offsets, calibration | register read-modify-writes, burst reads, FIFO parser, calibration | I2C |
| I2C access (`src/backend/i2c.cpp`) | a file descriptor | one ioctl per transfer, errors printed only | bus |
| Filters, quaternions (`src/math`) | filter memory | arithmetic | main loop |
| MQTT log, socket wrapper, test programs, vendored `fmt`, `mqtt`, `cxxopts` | - | - | - |

### Where the hard behaviour is

* **Server and kernel.**  One thread, but between any two of its system calls
  clients connect, read, stall and hang up.  The loop acts on an array of
  events that was true when epoll_wait returned.  Descriptors are closed and
  given out again within one batch.  `send` and `accept` block; a failed
  `send` or `accept` ends the process.  A process that ends may or may not
  unlink its socket.
* **Monitor and ADIRU.**  Each can die and come back at any point of the other.
  The monitor must take what is still buffered, notice the end, drop the old
  socket and retry until somebody listens; its print thread reads the status
  flag without synchronisation.
* **GPS thread and main loop.**  Two threads share four plain fields: no lock,
  no order, and a flag that one sets and the other clears.
* **Parsing.**  `process_nmea_line` throws out of the middle and leaves its
  result half written; the tokenizer starts over at the end of a string.
* **Guidance and motors.**  Readings queue up while guidance sleeps, commands
  while the controller is busy; a command nobody has subscribed to is gone;
  SIGINT comes on top of whatever guidance is doing; four transfers, each of
  which may fail unnoticed, make one pulse, and the controller may die between
  any two of them while the chip goes on; thrust is computed by a division that
  grows without a limit, and nothing limits a throttle.

### What makes each component correct

* Server: the descriptor table, `listeners` and the epoll set agree; an event
  is still true when it is handled; every client gets one run of consecutive
  frames, in lock step with the others; a hang-up that was seen is never sent
  to; ticks end; dead clients are released and queued ones accepted; it can
  always be started again.
* Monitor: it has one connection of its own; it does not close a live one; it
  shows a lost link as lost and a found one as found; it keeps receiving.
* GPS unit: what is broadcast comes from sentences that were accepted, mixes
  only neighbouring reports, and lags by a bounded number of reports.
* Motor controller and PCA9685: between messages every motor makes the pulse
  that the last message about it asked for; half a pulse is near the one before; a failed transfer
  harms no other motor; a channel's setting leaves the others alone.
* Guidance: each verdict halves the bracket; true verdicts keep the balance
  inside it; no motor is asked for more than `--maxthrust` (it is, section 6); the
  search ends.
* Both together: what the motors do is the last command that reached the
  controller; SIGINT ends with the motors at rest.
* Tokenizer and parser: a whole sentence is parsed into its fields; of one that
  is cut only what is there is believed; a receiver without a position is never
  taken to have one.
* Sensor drivers: a setter changes its own bits only; the range a reading is
  computed with is the one the chip is set to; what a failed transfer leaves is
  bounded, and a restart makes it good where it can.

`PROJECT.json` lists the hazards one by one, each at its line, with the
properties that cover it or the reason why none does.

## 2. Modules

```
TelemetryStream            what the broadcast promises (abstract)
      ^ refinement (checked and proved)
BroadcastServer            server + kernel + clients
      ^ EXTENDS                         ^ EXTENDS
BroadcastServerProofs      AdiruMonitor        ADIRU + monitors
      ^ EXTENDS                 ^ EXTENDS
      +------ AdiruMonitorProofs
GpsUnit                    GPS thread + tick
      ^ EXTENDS, and refinement (checked and proved): the thread
GpsReader                  the thread's loop with the sentences it reads
      | EXTENDS       ^ EXTENDS
Nmea                  |    tokenizer + parser (operators, no state)
      ^ EXTENDS       |
NmeaProofs <--- GpsProofs  proofs about the parser; about GpsUnit and GpsReader

SensorSetup                setters of the sensor drivers + I2C + chips
      ^ EXTENDS                  ^ EXTENDS
SensorSetupProofs          SensorPrograms   the registers and the programs

AutoCom                    guidance, with motors that follow its commands
      ^ EXTENDS     ^ INSTANCE: the queue is the controller's
AutoComProofs       |
              ThrustPath   guidance + motor controller + chip
                    | EXTENDS
              MotorController      motor controller + PCA9685
                    ^ EXTENDS
              MotorControllerProofs
ThrustPathProofs           each part of ThrustPath is its module's, and they agree
MCBroadcastServer, MCAutoCom, MCMotorController, MCThrustPath, MCGpsReader
                           a symmetry set and small values for TLC
```

### BroadcastServer

A tick is `sleep -> (Sample) poll -> (Poll) events -> send -> sleep`, one action
per system call that another process can observe.

| Definition | Code |
|---|---|
| `listeners`, `events`, `unsent`, `frame` | `broadcast_server::listeners`, the unhandled part of `events[10]`, the rest of `broadcast()`'s loop, what is in `data[]` |
| `init` | `init()`: unlink, bind, listen, register |
| `Sample` | `tick()` of the ADIRU up to `server.tick()` |
| `Poll` | `epoll_wait(epoll_fd, events, 10, 0)`: any selection of at most `MaxEvents` ready descriptors |
| `HandleAccept`, `HandleAcceptFail`, `HandleHangup` | one turn of the loop over the events |
| `StartBroadcast`, `Send`, `SendBroken`, `BroadcastDone` | `broadcast()` and the timer's sleep; `Send` has no step while a connected client's buffer is full, which is what a blocking send does |
| `AfterExit`, `Down`, `Kill` | `exit()`, with or without `clean_up()`; the kernel's closing of everything; signals |
| `Connect`, `Recv`, `Close` | any client program |

Points the model fixes about the outside, all of them marked external in the
map: on a `SOCK_SEQPACKET` Unix socket a `send` to a closed peer fails with
EPIPE or ECONNRESET and raises no SIGPIPE, so `broadcast()` gets to its
`exit(-1)`; `accept` returns the lowest free descriptor; a connection whose
client has closed stays in the accept queue and is accepted like any other;
epoll is level-triggered; a closed server end lets the client read what is
buffered before end of stream.  `exit()` runs static destructors in reverse
order, so the joinable GPS thread of `gps_unit` terminates the process before
`~broadcast_server`; without a GPS device `clean_up()` does run.  Hence
`AfterExit` allows both.

Failures of `socket`, `listen`, `epoll_create`, `epoll_ctl` and of `unlink`
are left out: they need a broken system and end the process at once.
`epoll_ctl` in particular can only fail for a descriptor that
`DescriptorsAgree` excludes.

### TelemetryStream

One stream of frames: `Publish`, `Send`, `Receive`, `Join`, `Leave`, `Stop`.
`BroadcastServer` implements it under `served <- {sockOf[fd] : fd \in Served}`,
`now <- frame`, `sent <- last`, where `Served` are the listeners whose client
is still there.  What it promises beyond the invariants: a client joins at the
frame being published, receives every frame from there without a gap or a
repetition, no faster than the buffer allows, and the next frame is published
only when everybody was sent this one.

### AdiruMonitor

The server with monitors as its only clients.  `ConnectAdiru` and
`SetConnected` are the two halves of `connect_adiru` (the flag is set after
connect returned); `RecvFrame`, `RecvLost`, `ClearConnected`, `Reopen` are the
receive loop, split where the print thread (`Draw`) or a SIGINT (`Quit`) can
come between.  A failed `connect` changes nothing and is retried, so it is not
an action.

### GpsUnit

The thread's stores and the tick's loads of `lat`, `lng`, `fix` and `new_data`
are separate actions in any order, because the program has a data race there
and neither compiler nor processor is bound to the order of the text; a single
access is atomic, and the `read()` system call separates one position's stores
from the next.  A sentence is one of three kinds: taken for a position
(`ProcessFix`), given up when nothing, the latitude or all of the result was
written (`ProcessGivenUp`), anything else (`ProcessOther`); that there are no
others is what `GpsReader` shows.  A value is the number of the report it came
from.  `Overlap` bounds how many reports
arrive while one tick runs its five accesses: the receiver reports once a
second and a tick takes a fraction of 16 ms, so 0 is the usual case and 1 the
pre-empted one; nothing in the code enforces it, so every bound is stated in
terms of it.

### Nmea and GpsReader

`Nmea` has the tokenizer and the parser as operators on sequences of symbols.  A
symbol is the smallest part of a field that the parser tells apart: the degrees
of a coordinate, its minutes, its decimals, the first digits of the UTC.
`next_token` keeps the two oddities of the code: `substr` takes the position of
the next comma for a length, so a token may run over its field (`std::stoi` stops
at the comma), and `npos + 1` is 0, so that behind the last token comes the first
again.  `process_nmea_line` says how a sentence ends (`useful`, `threw`,
`ignored`), which fields of `nmea_result` are set by then, and from which tokens.

`GpsReader` is the loop of `gps_thread` with these sentences.  `Hear` reads a
sentence that may have lost its end on the serial line (`Cuts`); the first one is
read before the loop and never parsed, but stays in `buf`; `HearNothing` is
an empty line; `Unplug` takes the device away, after which `read()` fails, its
result ends the string in front of `buf`, and `HearAgain` parses what `buf` still
holds.  The stores are `GpsUnit`'s.  `ReaderIsThread` is the refinement: each turn
is a `ProcessFix`, `ProcessGivenUp` or `ProcessOther` with the sentence's own
outcome.  The tick is left to `GpsUnit`.

### SensorSetup and SensorPrograms

A program is the sequence of the setters it calls; a setter assigns a register
(`Assign`), replaces its own bits in it (`Modify`) or resets the chip (`Reset`).
`SensorPrograms` has the registers, the setters with their bits and arguments,
and the four programs of the repository that set sensors up: the two ADIRUs, the
pressure test and the magnetometer test; `SensorSetup` runs
any set of such programs, one at a time, on chips that outlive them.

| Definition | Code |
|---|---|
| `Start`, `Returned` | `main()` calls one setter after the other |
| `ReadBack`, `WriteBack` | the two transfers of a read-modify-write; with `ok = FALSE` the ioctl fails, is printed and forgotten |
| `ReadByte` | `read_byte()`: one buffer carries the register's number out and its content back, so a failed read returns the number |
| `WriteAll`, `SoftReset` | the setters of one transfer |
| `SetScale`, `scale` | the static scale of the driver, which the setter takes over whatever becomes of its transfers |
| `Kill`, `PowerCycle` | the operator and the board (external): the registers survive the first only |

`read`, `clean`, `sure` and `tainted` are history: whether `buf` is the chip's,
whether a transfer of this start has failed, which settings nothing has undone,
and which registers were given the bits of their own number.

### MotorController

Throttles are in thousandths, pulses in microseconds, counts in 4096ths of the
20 ms period; the chip has the registers of the channels in use, and the two
subaddress registers that the table's row of motor 3 names.

| Definition | Code |
|---|---|
| `StartArmed`, `NextRound`, `StartUnarmed` | `main()` up to the loop: three rounds of arming before it connects, or none |
| `ConsumeSpeed`, `ConsumeLed`, `ConsumeNull` | `try_consume_message_for` returns a message, or the null message of a lost connection, whose payload is asked for: the end of the process |
| `Transfer`, `LastTransfer`, `NextMotor`, `Return` | `set_pwm_ms()`, one action per I2C transfer; with `ok = FALSE` the ioctl fails, is reported on stderr and forgotten |
| `Cycle`, `Bytes`, `pwm_regs`, `Micro` | the count and its bytes, the table, the pulse of a throttle |
| `Pulse`, `FullyOff`, `PowerUp` | the chip (external): a register is taken over when its transfer ends, bit 4 of OFF_H turns the channel off, all channels start so |
| `LoseLink`, `Forward`, `Subscribed` | the broker (external): it forwards to whom has subscribed and nobody else |
| `Kill` | the operator; the chip keeps its registers, and `StartArmed` or `StartUnarmed` may follow |

`whole`, `bad` and `clean` are history: the last complete pulse of each motor
and the motors in doubt, whose registers a failed transfer or an interrupt in
the middle of a pulse has left unknown; `asked` is the pulse that this process was
told last to give a motor, by arming, a speed command or an LED message.  For the
pin of an LED is not looked at: 0 to 3 is a motor.  Pins from 16 on, which read
behind the table, are left out.  The properties say nothing of a motor
in doubt and everything of the others.  The constants' assumption keeps
throttles and LED pulses below 2^31 / 4096 microseconds, where
`4096 * micro_s` is still an int; counts above twelve bits wrap, as in the code.
`Micro` is exact; the code's truncation of `1000 * throttle + 1000` in doubles
may give one microsecond less where a decimal fraction has no double, which no
property can tell apart.

### AutoCom

Factors are counted in units of which the last bracket has two, so that every
midpoint of the bisection is a whole number (`Width` is the bracket's width after
so many verdicts); thrust is in thousandths, time in seconds.  `pc` is the place
in `main()`: `factor` (head of the loop), `ramp` and `settle` (its two inner
loops), `pause` (the two seconds of line 170), and how it ended: `done`,
`stopped` (SIGINT), `hung` (the handler publishes and allocates on top of a call
that does the same), `crashed` (the broker is gone).  Each reading that is
consumed is one action, from the call that returns it to the next one:
`TooBig`, `TooSmall`, `Raise`, `Hold` in the first loop, `Settled` and
`Unsettled` in the second.  A reading is one of four: leaning beyond
`angle_confirm` to either side, within `angle_rest`, in between.  When `thrust`
equals `--maxthrust` after repeated additions of a decimal fraction, `thrust <
max_thrust` may come out either way, so `MayRaise` and `MustRaise` differ there.

External are time (`Second`), the broker (`Deliver`, `Drop`, the second branch of
`SetThrust`) and the craft: `Leans` compares the torques of the front and the rear
motors under the command they follow, where `Target` is the factor of balance; it
may rest or be in between at any time, and lean only while the motors turn.  `Target` is odd, which
makes it no factor that is tried.  `Arm` is a controller that is started again with
`--arm` while the search goes on: the motors follow a round of its sequence
instead of a command.

`Raise` leaves the time alone and may follow itself, so that readings queued
during a silence raise the thrust several times in a row.  `thrust`, `next` and
`elapsed` are 0 outside the ramp, where the program does not read them, and
`samples` is empty once the process has ended.

### ThrustPath

`MotorController` and an instance of `AutoCom` whose `speeds` is the controller's
`inbox`.  `Publish` lets a command through exactly when the controller has
subscribed; `Take` is `ConsumeSpeed` and `Deliver` at once; `StartArming` and
`NextArming` are the controller's `StartArmed` and `NextRound` with guidance's
`Arm`; `last` is the last command forwarded since the controller subscribed.
Nothing keeps the operator from starting the controller with `--arm` while
guidance searches and the motors turn, as nothing does in the code.
`PathAssumption` makes every command that the ramp can ask for (`Thrusts`), with
any factor of the bracket, one of the controller's `Speeds`: within the range where
its pulses are computed without overflow.

`Followed` has two parts.  `LastFollowed`: once the queue is empty the motors make
the pulse of the last command that reached the controller.  `RampAllows` says what
reaches the chip at any time between two messages: the front pair makes the pulse
of one thrust of the ramp and the rear pair that of its share for one factor, so
neither half of a command, nor the full throttle of arming, nor what an earlier
controller did is ever left behind.  It does not say that this is no more than
`--maxthrust`, which it is not (`ThrustAllowed`, section 6).

## 3. Runs

| Run | Bounds | What it shows |
|---|---|---|
| `server_safety` | 4 connections, 3 descriptors, batches of 2 events, queue 2, buffer 2, frames mod 4 | records agree, events stay true, lock step, streams intact, a seen hang-up is never sent to, restart always possible, refinement of `TelemetryStream` |
| `link` | 2 monitors, both may quit, batches of 1, 2 descriptors, queue 2, buffer 1 | every monitor has its own connection; dead connections come from quits only; loss is shown, monitors find a restarted ADIRU, data keeps coming; ticks end, dead clients are released, the queue drains, frames arrive |
| `gps` | 4 reports, one may overlap a tick | torn and stale positions are bounded, given-up sentences are never shown, reports arrive or are overtaken |
| `gps_no_fix` | 3 reports | **violated**: the loss of the fix is not stored (section 6) |
| `motors` | three speed commands, one beyond range, an LED's setting and one for a motor's pin, queue of 1, 2 faults | the last command is in force, a torn pulse is near the last, channels are apart |
| `motor_range` | legal throttles, no fault | **violated**: pulses outside 1..2 ms (section 6) |
| `search` | 3 iterations, 2 readings and 2 commands waiting, commands may be lost, the motors armed, 8 s per iteration | bracket and result; the search ends |
| `search_verdict` | as `search`, no loss, 3 s | **violated**: a verdict on the wrong factor (section 6) |
| `search_thrust` | the default options, 2 iterations, no loss | **violated**: a motor is asked for more than `--maxthrust` (section 6) |
| `path` | 2 iterations, queue of 2, 1 fault, one step of the ramp, the controller restarted with and without arming | the motors follow the last command and make what the ramp asks for; SIGINT stops the motors |
| `nmea` | 6 sentences, whole or cut anywhere, 3 reports | what the tokenizer returns at the end of a string, which cut sentences become positions and with which values, refinement of `GpsUnit`'s thread |
| `sensors` | 4 programs, 10 registers, 2 failed transfers | settings stay in force, the scale agrees, stray bits, what a restart makes good |

Why the bounds are enough.  Four connections against three descriptors lets
`accept` run out of descriptors, and lets one connection wait while others are
served; batches of two (of one in `link`) against up to four ready
descriptors exercise the array limit; a descriptor can be closed and given out
again in one batch.  A buffer of two frames has an inner position, so order
within the buffer counts; frames are named modulo `MaxFrame > SndBuf + 1`, so
that a full, an empty and a gapped buffer have different names; a counter
without a wrap would only add copies of the same states.  Connections are
interchangeable, and `server_safety` uses that symmetry: its properties, the
abstract specification among them, are about states and single steps and do not
tell one connection from another.  The runs with liveness do not use it.  In the GPS runs `Overlap = 1` gives the
thread time for a whole position and parts of two others inside one tick; both
bounds are reached (with `Overlap` in place of `Overlap + 1` the invariants
fail).

Three iterations give every pattern of a verdict followed by the opposite or
the same one, and a factor below one half after which the other side is tried;
the proofs cover seven.  Two readings in the queue are one that ends a loop and
a stale one behind it.  `SpeedCap` and `QueueCap` stop guidance while so many
commands wait; in the program it would go on, and the queue grow, but the
controller needs some milliseconds for a command and guidance sends one in five
seconds.  The three speed commands have high bytes 0, 1 and, after the wrap, 15,
so that both bytes of a count change in either direction; one LED message names a
pin of its own and one a motor's; two faults let a
transfer fail and the process die, or two transfers fail, in one behaviour.
In `path` SIGINT falls on each command of two iterations, behind another one in
the queue, in the middle of each pulse, and on a controller that has just been
restarted; the second iteration has unequal throttles and both verdicts.  `Raise`
is one step of the ramp in each iteration, which is all that tells its commands
apart; with one fault a transfer fails, or the controller is killed once (a lost
link ends it as often as it likes).

In `nmea` the sentences are a position north-east after ten o'clock, one
south-west before ten (its UTC begins with the 0 that `fix` is compared with), an
unsure one, one without coordinates, another command and noise, each with every
cut of it: 3.6 thousand states.  The proofs are for any sentences, and for
positions with each of the two times, hemispheres and indicators.  `MaxFix` is only there to end the count of
reports.  In `sensors` two failures are a read and the write behind it, two reads
of one register, or one in each of two starts; with a third nothing new can meet,
since a failure touches one register and each start begins anew (the proofs do not
need the bound).

Deadlock is checked in the server's, the monitors', the GPS unit's, the motor
controller's and the sensors' runs.  It is not where guidance takes part: with the
search over and the craft unobserved nothing is left to happen, as in the program;
and not in `nmea`, which stops at the bound `MaxFix`.

### Fairness

* `WF(ServerStep)`: the main loop's thread is scheduled, the timer fires and a
  call that does not block returns.  Starting the server, killing it and
  everything clients do are not fair.
* `SysFairness`: each monitor's two threads are scheduled, so it receives what
  is there.  One client that never reads stops the loop, since `send` blocks:
  `TickCompletes` is a claim about clients that read, as the monitors do.
  Nothing is assumed of `connect` but that it is retried.
* `GpsUnit`: both threads run; the receiver may fall silent for ever.

`LossIsShown`, `MonitorsReconnect` and `DataKeepsComing` assume that the ADIRU
eventually stays down, or up; before that it may die as often as it likes.
Weak fairness is enough for them.

* `AutoCom`'s `LiveSpec`: guidance consumes what is there and the controller
  follows.  It also asks the craft to show, again and again, each reading that
  it may show again and again (strong fairness of `Sample`): that a craft with
  the wrong factor leans in the end and comes to rest when thrust is cut is what
  the search is built on, not something its code can bring about.  A command
  that was lost, or motors that were armed in its place (`~Obeyed`), can keep the
  search from ending.
* `PathLive`: the controller takes what waits and completes its transfers.
  Nothing is asked of guidance: `StopReaches` starts when the handler has
  published.

## 4. Proofs

Assumptions: those of the modules (`ServerAssumption`, `MonitorAssumption`,
`GpsAssumption`), that is, finite sets, positive sizes and
`MaxFrame > SndBuf + 1`; for the receiver, that its sentences are fields without
commas, at least one, and shorter than `npos` (`SentAssumption`; the program reads
into 1024 bytes); for the sensors, that the setters of a program have
separate bits and a reset comes before the other setters of its chip
(`SetupAssumption`, which TLC checks for the four programs); for guidance, that the width of the bracket halves from
one iteration to the next down to two (`GuidanceAssumption`); for the motors,
that commands stay where `4096 * micro_s` is an int (`ControllerAssumption`); for
the two together, that guidance's commands are among them (`PathAssumption`, which
TLC checks of what the ramp asks for in `path`).
All results hold for any number of connections, descriptors, events, monitors,
reports, iterations, queued readings and commands, faults, and any overlap.

**BroadcastServerProofs.**  `IInv` is inductive.  Its parts and why they are
needed:

* `TypeOK`; `Phases` (events and unsent are empty outside their phase, unsent is
  a subset of the listeners, a process that is down holds nothing).
* `DescriptorsAgree`, `OneServerEnd`: a connection has at most one end at the
  server.  Without it, closing one descriptor could cut off another listener,
  and a `Send` could disturb another client's buffer.
* `EventsStayTrue`: it is itself inductive given these two: only
  `HandleAccept` takes from the queue and it consumes the one event of the
  listening socket; only `HandleHangup` closes, and only its own event; and
  `accept` gives out descriptors that were free, which no remaining event names.
* `Quiet`: a closed or a queued connection carries nothing, so an accepted one
  starts at a known point.  `LockStep` and `StreamIntact` need it at
  `HandleAccept`.
* `SeenAccounted`: while a batch is handled, each seen hang-up is still in it or
  released; this is what makes `SeenHangupNotServed` follow when the batch is
  empty and `full` is false.
* `PathLeadsToServer` for restarts.

From `IInv` follow `TypeCorrect`, `EventsCorrect`, `LockStepCorrect`,
`StreamCorrect`, `SeenHangupCorrect`, `DescriptorsCorrect`, `RestartCorrect`.
`Refinement` (`Spec => StreamSpec`) needs one more invariant, `Counted`: a
connection holds as many frames as its receiver is behind, and no more than
`SndBuf`, from which the abstract `Send`'s guard follows.  Every step of the
server is then a step of the stream or a stutter.

**AdiruMonitorProofs.**  `UsesServer` (`SysSpec => Spec`): monitors are clients
like any other, so all of the above holds for the deployed system
(`DeployedServerCorrect`).  `DeadConnections`: with `LostAtEof` (once `recv` has
failed, the server holds no end of that connection) each dead connection is
counted against a monitor that quit, by an inductive bound on the number of dead
connections: a step adds at most one of them, and only a quit adds one.

**GpsProofs.**  About `GpsUnit`, `IInv` says that a field of `gps_unit` holds the latest
report, or the one before while its store is pending; that what a tick has
read is at most `during + 1` reports old; and that without news either the
broadcast position is recent or this tick has cleared the flag and is about to
broadcast what it read (`LagInv`).  From it `TornCorrect`, `LagCorrect`,
`PartialCorrect`, and `TypeCorrect`.

**AutoComProofs.**  `IInv` adds to the type that the bracket is as wide as the
number of verdicts says, that the factor is its midpoint while the ramp runs,
and that `honest` keeps the
balance in the bracket.  With these, `BisectionCorrect`, `ResultCorrect`
and `TypeCorrect`, for any number of iterations;
that every factor is strictly between the ends, so that line 34 never divides
by zero, is part of the type.

**MotorControllerProofs.**  `IInv` is about the registers of the motors that are
not in doubt (`RegInv`): the two bytes are those of the last complete pulse,
except between the third and the fourth transfer, where the low byte may be the
next pulse's; the ON registers are 0, for motor 3 because nothing writes them;
and about the place in the vector (`VectorInv`): the motors before the current one
have the pulse in `asked`.  `InForceCorrect` and `TornCorrect` follow by arithmetic on
two bytes; `TypeCorrect` includes that no register gets more than eight bits.
`ChannelsApartCorrect` rests on `WritesApart`: what the table names for one channel is
in no other channel's registers, the two subaddress registers of row 3 included.

About `GpsReader`, `ReaderRefines`: whatever the receiver sends and wherever it
is cut.  The parser has three outcomes, and with each of them one set of fields
that it may have set (`Outcomes`); a turn of the loop is then the action of
`GpsUnit` for that outcome (`TurnStep`).  With the theorems about any behaviour of
`GpsUnit`'s `Spec`, the bounds on torn and stale positions hold for the thread with
its parser as well.  `BufInv` says that `buf` holds a sentence of the receiver
without its last characters, or noise, also when a device that is gone leaves an
old one there; with the lemmas of `NmeaProofs` about such sentences it gives
`TokensCorrect`, `CutCorrect` and `NoPositionCorrect`.

**NmeaProofs.**  What the tokenizer and the parser compute, for sentences of any
number of fields of any length.  `LayoutExists`: the text of a sentence is its
fields with commas between them, and there are positions `start[k]` where they
begin.  From such a position `find` returns the end of the field (`FindField`), and
`next_token` a token that begins with the field and moves to the start of the next
one, or of the first behind the last, since `npos + 1` is 0 (`NextToken`).  So the
m-th token is the field `((m - 1) % N) + 1` (`TokensOfFields`).  What is cut from a
sentence leaves whole fields and the beginning of one, in no longer a text
(`CutLeft`, `CutShorter`).  `PositionCut` goes through the ten fields of a position
in which the cut can be, with what each of the tokens then is.

These are facts about recursive functions (`FlattenSeq`, the parser's calls), which
the library's induction theorems do not reach: they take the predicate as an
operator.  `SetInduction` takes it as a set of numbers, and follows from `<` being
well-founded on the naturals; with it a recursive function on an initial part of
the naturals is shown to exist, and so to be what its definition says (`Flat`,
`Asking`).

**SensorSetupProofs.**  `SettingsHold` and `StrayBits` are invariants that hold
from step to step together with `SetterInv`, which says what `buf` is between the
two transfers: the register's content, or its number.  `HealInv` says it of a start
in progress: without a failure so far, the setters that have returned have their
bits in force, a range that was set is in `scale`, and a chip that was reset is what
the setters up to here make of its defaults (`Wanted`).  At the end of the program
that is `ScaleAgrees` and `RestartHeals`.

**ThrustPathProofs.**  The lemma `GuidanceKept`: next to a controller, guidance is
the guidance of `AutoCom`, so that its invariant may be used; this follows from the
way the two are put together.  `UsesController` (`PathSpec => Spec`) is not built
in: a step in which guidance publishes is one in which the broker forwards a
message to the controller, or nothing.  For this
the command must be one the controller is for, which needs the invariant of
`AutoComProofs`: the factor is inside the bracket and the thrust within the ramp.
`FollowedCorrect` puts the two together.  `LastInv` says where the last forwarded
command is, in the queue or in the vector, and that a controller that is down or
arming has none; with an empty queue it is in the vector, and `InForce` says what
the motors make of that (`AskedInvariant`, `VectorInForce`: without LED messages
what is asked of a motor is its place in the vector).  `RampAllows` needs
`AllowedInv`: every command in the queue is one of the ramp, and so is the vector
once the controller has subscribed, which it does with the vector of the last round
of arming, that for no thrust, wherever in the search it was started.

Only model-checked: everything with `~>`, `<>` or `[]<>` (liveness under fairness
is out of the prover's reach), and the absence of deadlock.  Every invariant and
every action property of a passing run is a theorem, and so are the refinements
`StreamSpec` and `ReaderIsThread`.

## 5. What is not modelled

* Times: ticks are ordered, not timed.  Lost ticks of an overloaded timer and
  the 100 ms retry are not visible.
* The numbers in a frame.  A frame is one indivisible value; a display that
  mixes two frames for one redraw is listed as a hazard.
* The text of the MQTT messages: the programs of the repository publish
  well-formed ones.  What a malformed one does is listed under the hazards.
* `pca9685::init`, `set_frequency` and `wake_up` are taken to have worked; the
  PWM's phase within a period (a register that changes in mid-period) is not
  visible.
* Measurements: burst reads, the BMP390's FIFO parser and calibration data, the
  MPU6050's calibration, whose failures end in numbers no property here tells
  apart or in reads behind an array (`reg_data[20]` in `bmp390.cpp:368`), which have
  no defined result.
* Floating-point code: filters, quaternions, sensor compensation.
* The monitor's log ring, tables and terminal handling.  The ring is written from
  its end and drawn from its start up to the first empty entry, so that nothing is
  drawn before twenty losses of the link were logged.
* Two ADIRUs on one path.
* Of the 32,899 lines counted as implementation about nine tenths are vendored
  headers (`fmt`, `mqtt`, `cxxopts`); no model of this program translates them, which
  bounds the share of lines a map can cover.
* Everything marked `not_modelled` or `partly` in `PROJECT.json`, each with its
  reason.

## 6. Findings

* `gps_no_fix` / `LossOfFixIsStored`.  `gps.cpp:103` documents the quality
  indicator as "0 - no fix, 1 - fix", and line 104 turns 0 into `fix = false`.
  A receiver without a position sends quality 0 *and empty coordinates*;
  `std::stoi` in line 84 throws on the empty latitude, the exception is caught in
  `gps_thread`, and `gps_unit.fix` stays true.  The monitor goes on showing
  FIXED with the last position.
* `motor_range` / `PulseInRange`.  `motor_controller.cpp:23` and `24` give
  throttle its pulses, 1 ms to 2 ms.  `set_pwm_ms()` (`pca9685.cpp:108`) writes
  the low and the high byte of a count in two transfers, and between them the
  chip makes 0x099 counts (0.75 ms) on the way from 1 ms to 2 ms and 0x1CC
  (2.25 ms) on the way back.  Arming alone shows it.  `TornBounded` says how far
  it can go: less than 256 counts.
* `search_thrust` / `ThrustAllowed`.  `auto_com.cpp:74` says of `--maxthrust`:
  "Maximum thrust allowed".  The rear motors' throttle, the front's times
  (1 - f) / f (line 34), is compared with nothing: with the default options (0.3)
  the second factor, 1/4 after one verdict "too big", begins with 0.14 in front and
  0.42 behind; two such verdicts make it 0.98, and at the smallest factor, 1/128,
  it is 127 times the front's.  The front passes the maximum as well: line 139
  tests `thrust < max_thrust` before line 141 adds the step, so with
  `--rampthrust 0.08` and `--maxthrust 0.29` it comes to 0.3 (the run finds this
  with `Iterations = 1`, `Ramp = 80` and `MaxThrust = 290`).
* `search_verdict` / `VerdictTrue`.  Readings that arrive while guidance sleeps
  (`auto_com.cpp:170`) are consumed under the next factor: "factor is too big" is
  logged, and the bracket moved, for a factor that the motors were not yet given.
  A false verdict cannot be made good: the bracket never grows
  (`HonestResult` says what true verdicts give).

What the passing properties say of the code, and a reader may not expect:

* `CutSentences`.  A GGA sentence that is cut in the decimals of its latitude or
  behind it is reported with the UTC as its longitude, south and west, with a fix;
  one that is cut in or behind its longitude is west, its fix taken from the
  first digit of the UTC; one that is cut at the hemisphere has a fix whatever the
  receiver says.  From the number of satellites on a cut does no harm, and
  anywhere else the sentence is given up.
* `ReaderIsThread` holds with a device that is gone because its last sentence is
  parsed again and again: the ADIRU goes on reporting it as a new position.
* `StrayBits` and `RestartHeals`.  A failed read writes the register's number into
  the bits nobody sets.  On the BMP390 the next start resets the chip; on the
  MPU6050 no program does, and they stay until the board is switched off.  For
  `ACCL_CFG` and `GYRO_CFG` the number has no bit in the self-test's place; for
  `PWR_MNG_1` (0x6B) it has the bit that makes the chip cycle between sleep and
  single samples.
* The row of motor 3 in the table of `pca9685.cpp:25` names two subaddress
  registers where `pca9685.h:33` and `34` have the channel's ON registers.  The motor
  works because those are 0 after power-up; `ChannelsApart` shows that no other
  channel suffers.
* `Raise`.  Line 75 calls `--interval` "The interval between ramp ups", but `next`
  counts from the start of the iteration: after a silence of eight seconds with an
  interval of two, three readings that were queued raise the thrust three times
  within a second.  Only the average since the iteration began is bounded by a step
  in an interval; no property states that, and none says that steps are apart.
* `Followed` and `Arm`.  A controller that is restarted with `--arm` in the middle
  of a search opens all throttles for two seconds; guidance notices nothing, its
  commands meanwhile reach nobody, and a craft that leans then gives a verdict on
  its factor.
* The last command of a search that ends, 0.14, stays in force for ever.

## 7. Left open

1. The FIFO parser of the BMP390 within the bounds of its block.
2. Two ADIRUs on one path: who unlinks whose socket.
3. Spacing of ticks when a command overruns the timer.

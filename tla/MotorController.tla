---------------------------- MODULE MotorController ----------------------------
(***************************************************************************)
(* The motor controller (src/main/motor_controller.cpp) and the PCA9685    *)
(* whose registers it writes (src/backend/pca9685.cpp).  A message is a    *)
(* speed command of four throttles or the brightness of one LED; a pulse   *)
(* is set with four transfers on the I2C bus, and the chip follows its     *)
(* registers after each of them.  Nothing keeps the setting of an LED from *)
(* naming a motor's pin; one that names no pin of the table is left out.   *)
(*                                                                         *)
(* Throttles are in thousandths, pulses in microseconds, and what the      *)
(* registers hold in 4096ths of a period.                                  *)
(***************************************************************************)
EXTENDS Integers, Sequences, FiniteSets

CONSTANTS
  Speeds,    \* the throttles <<fl, fr, bl, br>> that are commanded
  Leds,      \* the settings <<pin, microseconds>> of LEDs
  QueueCap,  \* bound: messages waiting
  MaxFaults  \* bound: transfers that fail, and interrupts by the operator

Motors == 0..3

\* Up to here set_pwm_ms() multiplies by 4096 without overflow of an int.
MaxMicro == 524287
MaxThrottle == 523287

ASSUME ControllerAssumption ==
  /\ Speeds \subseteq [1..4 -> 0..MaxThrottle]
  /\ Leds \subseteq (0..15) \X (0..MaxMicro)
  /\ QueueCap \in Nat
  /\ MaxFaults \in Nat

VARIABLES
  cpc,     \* what the controller is doing
  inbox,   \* its queue of messages
  link,    \* its connection to the broker
  arming,  \* rounds of the arming sequence still to be completed
  vector,  \* the throttles it is setting, or has set last; <<>> for none
  asked,   \* history: the pulse it was told last to give a motor
  pin,     \* the arguments of set_pwm_ms()
  micro,
  byte,    \* the next of the four registers it writes
  clean,   \* history: no transfer of this call has failed
  reg,     \* the registers of the chip
  whole,   \* history: the pulse of a motor's last completed set_pwm_ms()
  bad,     \* history: motors whose registers are not known to agree with it
  faults   \* history: how many there were

process == <<cpc, inbox, link, arming, vector, asked>>
call == <<pin, micro, byte, clean>>
chip == <<reg, whole, bad, faults>>
vars == <<process, call, chip>>

-----------------------------------------------------------------------------
(* The PCA9685 *)

THROTTLE_MIN == 1000
THROTTLE_MAX == 2000
per == 20000   \* set_frequency(50)

\* Mutant: the third row repeats the second's low byte.
pwm_regsTypo == [p \in 0..15 |-> <<4 * p + 6, 4 * p + 7, IF p = 2 THEN 12 ELSE 4 * p + 8, 4 * p + 9>>]

pwm_regs == [p \in 0..15 |->
               IF p = 3 THEN <<2, 3, 20, 21>>
                        ELSE <<4 * p + 6, 4 * p + 7, 4 * p + 8, 4 * p + 9>>]

\* The registers that belong to a channel.
Channel(p) == (4 * p + 6)..(4 * p + 9)

Channels == Motors \cup {led[1] : led \in Leds}

Registers == {2, 3} \cup UNION {Channel(p) : p \in Channels}

\* What a register holds, and what a count can be.
RegValues == 0..255
Counts == 0..4095

\* Power-up: every channel is fully off, the subaddresses have their defaults.
PowerUp == [r \in Registers |-> CASE r = 2 -> 226
                                  [] r = 3 -> 228
                                  [] OTHER -> IF r % 4 = 1 THEN 16 ELSE 0]

FullyOff(p) == reg[4 * p + 9] >= 16
OnAt(p) == reg[4 * p + 6] + 256 * reg[4 * p + 7]
OffAt(p) == reg[4 * p + 8] + 256 * reg[4 * p + 9]

\* The pulse the chip makes.
Pulse(p) == IF FullyOff(p) THEN 0 ELSE (OffAt(p) - OnAt(p)) % 4096

\* set_pwm_ms(): the count, of which twelve bits reach the registers.
Cycle(us) == ((4096 * us) \div per) % 4096

\* Mutant: shifted by a nibble only.
BytesShort(us) == <<0, 0, Cycle(us) % 256, (Cycle(us) \div 16) % 16>>

\* set_pwm_ms(): what it writes, register by register.
Bytes(us) == <<0, 0, Cycle(us) % 256, Cycle(us) \div 256>>

\* main(): the pulse of a throttle.
Micro(throttle) == ((THROTTLE_MAX - THROTTLE_MIN) * throttle) \div 1000 + THROTTLE_MIN

-----------------------------------------------------------------------------
(* The process *)

Zero == <<0, 0, 0, 0>>
Full == <<1000, 1000, 1000, 1000>>

\* Mutant: the sequence ends with the throttles open.
RoundOpen(n) == IF n = 1 THEN Full ELSE Zero

\* The round of the arming sequence with n rounds left, itself included.
Round(n) == IF n = 2 THEN Full ELSE Zero

Writing == cpc \in {"motors", "led"}

\* It has subscribed, and the broker has somebody to forward messages to.
Subscribed == /\ cpc # "down"
              /\ arming = 0
              /\ link = "up"

SetPwm(p, us) == /\ pin' = p
                 /\ micro' = us
                 /\ byte' = 1
                 /\ clean' = TRUE

\* A motor that the process has not been told to set.
None == -1

SetMotors(throttles) == /\ cpc' = "motors"
                        /\ vector' = throttles
                        /\ asked' = [m \in Motors |-> Micro(throttles[m + 1])]
                        /\ SetPwm(0, Micro(throttles[1]))

Init == /\ cpc = "down"
        /\ inbox = <<>>
        /\ link = "up"
        /\ arming = 0
        /\ vector = <<>>
        /\ asked = [m \in Motors |-> None]
        /\ pin = 0
        /\ micro = 0
        /\ byte = 1
        /\ clean = TRUE
        /\ reg = PowerUp
        /\ whole = [m \in Motors |-> 0]
        /\ bad = {}
        /\ faults = 0

\* main() with --arm: the first of three rounds, before it connects.
StartArmed == /\ cpc = "down"
              /\ arming' = 3
              /\ SetMotors(Round(3))
              /\ link' = "up"
              /\ UNCHANGED <<inbox, chip>>

\* main() without: it connects, subscribes and consumes.
StartUnarmed == /\ cpc = "down"
                /\ cpc' = "consume"
                /\ link' = "up"
                /\ UNCHANGED <<inbox, arming, vector, asked, call, chip>>

\* main(): a speed command is taken from the queue.
ConsumeSpeed == /\ cpc = "consume"
                /\ inbox # <<>>
                /\ Head(inbox).topic = "motors/speed"
                /\ SetMotors(Head(inbox).throttles)
                /\ inbox' = Tail(inbox)
                /\ UNCHANGED <<link, arming, chip>>

\* What an LED's setting tells the controller of the motors.
AlsoAsked(led) == [m \in Motors |-> IF m = led[1] THEN led[2] ELSE asked[m]]

\* main(): the brightness of an LED, or of whatever is on that pin.
ConsumeLed == /\ cpc = "consume"
              /\ inbox # <<>>
              /\ Head(inbox).topic = "leds/brightness"
              /\ cpc' = "led"
              /\ SetPwm(Head(inbox).led[1], Head(inbox).led[2])
              /\ asked' = AlsoAsked(Head(inbox).led)
              /\ inbox' = Tail(inbox)
              /\ UNCHANGED <<link, arming, vector, chip>>

\* i2c write_byte(): a transfer that fails is reported on stderr only.
Write(ok) == IF ok THEN /\ reg' = [reg EXCEPT ![pwm_regs[pin][byte]] = Bytes(micro)[byte]]
                        /\ UNCHANGED faults
                   ELSE /\ faults < MaxFaults
                        /\ faults' = faults + 1
                        /\ UNCHANGED reg

Doubt(ok) == IF ok THEN bad ELSE bad \cup (Motors \cap {pin})

\* set_pwm_ms(): a transfer that is not the last.
Transfer(ok) == /\ Writing
                /\ byte < 4
                /\ Write(ok)
                /\ byte' = byte + 1
                /\ clean' = (clean /\ ok)
                /\ bad' = Doubt(ok)
                /\ UNCHANGED <<process, pin, micro, whole>>

\* The last transfer, and the return from set_pwm_ms().
LastTransfer(ok) == /\ Writing
                    /\ byte = 4
                    /\ Write(ok)
                    /\ whole' = [m \in Motors |-> IF m = pin THEN Cycle(micro) ELSE whole[m]]
                    /\ bad' = IF clean /\ ok THEN bad \ {pin} ELSE Doubt(FALSE)

\* Mutant: the throttle just written, again.
NextMotorSame(ok) == /\ cpc = "motors"
                     /\ pin < 3
                     /\ LastTransfer(ok)
                     /\ SetPwm(pin + 1, Micro(vector[pin + 1]))
                     /\ UNCHANGED process

\* main(): the next motor of the vector.
NextMotor(ok) == /\ cpc = "motors"
                 /\ pin < 3
                 /\ LastTransfer(ok)
                 /\ SetPwm(pin + 1, Micro(vector[pin + 2]))
                 /\ UNCHANGED process

\* main(): the next round of arming.
NextRound(ok) == /\ cpc = "motors"
                 /\ pin = 3
                 /\ arming > 1
                 /\ LastTransfer(ok)
                 /\ arming' = arming - 1
                 /\ SetMotors(Round(arming - 1))
                 /\ UNCHANGED <<inbox, link>>

\* main(): back to the queue; after arming, connected and subscribed.
Return(ok) == /\ cpc = "led" \/ (pin = 3 /\ arming <= 1)
              /\ LastTransfer(ok)
              /\ cpc' = "consume"
              /\ arming' = 0
              /\ UNCHANGED <<inbox, link, vector, asked, call>>

\* The process ends, with what waits in its queue; the chip goes on.
Exit == /\ cpc' = "down"
        /\ inbox' = <<>>
        /\ arming' = 0
        /\ vector' = <<>>
        /\ asked' = [m \in Motors |-> None]
        /\ UNCHANGED <<link, call>>

\* main(): a lost connection puts a null message behind the others, and
\* its payload is asked for all the same.
ConsumeNull == /\ cpc = "consume"
               /\ inbox = <<>>
               /\ link = "lost"
               /\ Exit
               /\ UNCHANGED chip

\* The operator interrupts it, in the middle of a pulse perhaps.
Kill == /\ cpc # "down"
        /\ faults < MaxFaults
        /\ faults' = faults + 1
        /\ Exit
        /\ bad' = IF Writing /\ byte > 1 THEN Doubt(FALSE) ELSE bad
        /\ UNCHANGED <<reg, whole>>

(* The broker *)

LoseLink == /\ Subscribed
            /\ link' = "lost"
            /\ UNCHANGED <<cpc, inbox, arming, vector, asked, call, chip>>

\* A message is forwarded.
Forward(msg) == /\ Subscribed
                /\ Len(inbox) < QueueCap
                /\ inbox' = Append(inbox, msg)
                /\ UNCHANGED <<cpc, link, arming, vector, asked, call, chip>>

Messages == [topic : {"motors/speed"}, throttles : Speeds]
              \cup [topic : {"leds/brightness"}, led : Leds]

WriteStep == \E ok \in BOOLEAN :
               Transfer(ok) \/ NextMotor(ok) \/ NextRound(ok) \/ Return(ok)

Controller == StartArmed \/ StartUnarmed \/ ConsumeSpeed \/ ConsumeLed \/ WriteStep
                \/ ConsumeNull \/ Kill

Next == Controller \/ LoseLink \/ \E msg \in Messages : Forward(msg)

Spec == Init /\ [][Next]_vars

-----------------------------------------------------------------------------
(* Properties *)

\* The type of the state.
TypeOK == /\ cpc \in {"down", "consume", "motors", "led"}
          /\ inbox \in Seq(Messages)
          /\ link \in {"up", "lost"}
          /\ arming \in 0..3
          /\ vector \in Speeds \cup {<<>>, Zero, Full}
          /\ asked \in [Motors -> Nat \cup {None}]
          /\ pin \in Channels
          /\ micro \in Nat
          /\ byte \in 1..4
          /\ clean \in BOOLEAN
          /\ reg \in [Registers -> RegValues]
          /\ whole \in [Motors -> Counts]
          /\ bad \subseteq Motors
          /\ faults \in 0..MaxFaults

\* Between two messages every motor makes the pulse that the last message about
\* it, or the arming sequence, asked for, but for those that a failed transfer
\* has left in doubt; an LED's setting that names a motor is such a message.
InForce == cpc = "consume" =>
             \A m \in Motors \ bad : asked[m] # None => Pulse(m) = Cycle(asked[m])

\* Whatever the chip is told and whenever the controller dies, a motor that
\* is not in doubt makes the pulse of its last complete command, or, while
\* the next one is being written, differs from it by less than 256 counts
\* until that one is in force.
TornBounded == \A m \in Motors \ bad :
                 \/ Pulse(m) = whole[m]
                 \/ /\ Writing
                    /\ m = pin
                    /\ Pulse(m) \in (whole[m] - 255)..(whole[m] + 255)

\* Setting one channel leaves the pulse of every other one alone.
ChannelsApart == [][\A p \in Channels \ {pin} : Pulse(p)' = Pulse(p)]_vars

\* motor_controller.cpp:23 and 24, "throttle minimum pwm 1 ms" and "throttle
\* maximum pwm 2 ms", of the pulses a motor is given once it has had one.
PulseInRange == \A m \in Motors \ bad :
                  whole[m] # 0 => Pulse(m) \in Cycle(THROTTLE_MIN)..Cycle(THROTTLE_MAX)
=============================================================================

------------------------- MODULE MotorControllerProofs -------------------------
(***************************************************************************)
(* Proofs about MotorController, for every set of commands and LEDs, every *)
(* length of the queue and any number of faults.                           *)
(***************************************************************************)
EXTENDS MotorController, TLAPS

Low(m) == reg[4 * m + 8]
High(m) == reg[4 * m + 9]

\* A motor that has never been set is fully off; the registers of any other
\* hold the pulse it was set to, or at least its high byte.
HighHolds(m) == \/ High(m) = 16 /\ whole[m] = 0
                \/ High(m) \in 0..15 /\ whole[m] \in (256 * High(m))..(256 * High(m) + 255)
Holds(m) == \/ High(m) = 16 /\ whole[m] = 0
            \/ High(m) \in 0..15 /\ whole[m] = Low(m) + 256 * High(m)

\* Only a motor between its last two transfers has another low byte.
HalfWritten(m) == Writing /\ pin = m /\ byte = 4

RegInv == /\ \A m \in Motors : reg[4 * m + 6] = 0 /\ reg[4 * m + 7] = 0
          /\ \A m \in Motors \ bad : HighHolds(m) /\ (~HalfWritten(m) => Holds(m))
          /\ \A m \in Motors : HalfWritten(m) /\ clean => Low(m) = Cycle(micro) % 256

\* Where the controller is in the vector, or in the pulse, that it sets.
Done(m) == asked[m] # None => whole[m] = Cycle(asked[m])
VectorInv == /\ cpc = "motors" => /\ vector # <<>>
                                  /\ pin \in Motors
                                  /\ \A m \in Motors : asked[m] = Micro(vector[m + 1])
                                  /\ micro = asked[pin]
                                  /\ \A m \in Motors : m < pin => Done(m)
             /\ cpc = "consume" => \A m \in Motors : Done(m)
             /\ cpc = "led" => /\ \A m \in Motors \ {pin} : Done(m)
                               /\ pin \in Motors => micro = asked[pin]
             /\ cpc = "down" => \A m \in Motors : asked[m] = None

IInv == TypeOK /\ RegInv /\ VectorInv

-----------------------------------------------------------------------------
\* What is commanded are natural numbers.
LEMMA CommandTypes ==
  /\ Speeds \subseteq [1..4 -> Nat]
  /\ \A led \in Leds : led[1] \in 0..15 /\ led[2] \in Nat
<1>1. MaxThrottle \in Nat /\ MaxMicro \in Nat
  BY DEF MaxThrottle, MaxMicro
<1> QED
  BY <1>1, ControllerAssumption

\* The two bytes of a count.
InBytes(c) == /\ c % 256 \in 0..255
              /\ c \div 256 \in 0..15
              /\ (c % 256) + 256 * (c \div 256) = c

LEMMA TwoBytes == \A c \in Counts : InBytes(c)
BY DEF Counts, InBytes

\* What is left of any number modulo a period.
LEMMA TwelveBits == ASSUME NEW n \in Nat PROVE n % 4096 \in Counts
BY DEF Counts

LEMMA CycleCount == \A us \in Nat : Cycle(us) \in Counts
<1> SUFFICES ASSUME NEW us \in Nat PROVE Cycle(us) \in Counts
  OBVIOUS
<1> DEFINE n == (4096 * us) \div per
<1>1. n \in Nat
  BY DEF per
<1>2. Cycle(us) = n % 4096
  BY DEF Cycle
<1> HIDE DEF n
<1>3. n % 4096 \in Counts
  BY <1>1, TwelveBits
<1> QED
  BY <1>2, <1>3

LEMMA CycleRange == \A us \in Nat : InBytes(Cycle(us))
BY CycleCount, TwoBytes, Zenon

LEMMA MicroType ==
  ASSUME NEW t \in Nat
  PROVE  Micro(t) \in Nat
BY DEF Micro, THROTTLE_MIN, THROTTLE_MAX

\* What a vector is made of.
LEMMA VectorType ==
  ASSUME NEW v \in Speeds \cup {Zero, Full}, NEW m \in Motors
  PROVE  v # <<>> /\ v[m + 1] \in Nat /\ Micro(v[m + 1]) \in Nat
<1>1. v \in [1..4 -> Nat]
  BY CommandTypes DEF Zero, Full
<1>2. v[m + 1] \in Nat
  BY <1>1 DEF Motors
<1>3. v # <<>>
  BY <1>1
<1> QED
  BY <1>2, <1>3, MicroType

\* What SetMotors() asks of every motor.
LEMMA AskedType ==
  ASSUME NEW v \in Speeds \cup {Zero, Full}, SetMotors(v)
  PROVE  /\ asked' \in [Motors -> Nat \cup {None}]
         /\ \A m \in Motors : asked'[m] = Micro(v[m + 1])
         /\ vector' = v /\ v # <<>>
         /\ pin' = 0 /\ 0 \in Motors /\ micro' = asked'[0] /\ micro' \in Nat
         /\ byte' = 1 /\ clean' = TRUE /\ cpc' = "motors"
<1>1. asked' = [m \in Motors |-> Micro(v[m + 1])]
  BY DEF SetMotors
<1>2. \A m \in Motors : Micro(v[m + 1]) \in Nat
  BY VectorType, Zenon
<1>3. 0 \in Motors /\ 0 + 1 = 1
  BY DEF Motors
<1>4. v # <<>>
  BY <1>3, VectorType, Zenon
<1>5. micro' = Micro(v[1])
  BY DEF SetMotors, SetPwm
<1>6. asked'[0] = Micro(v[1])
  BY <1>1, <1>3
<1> QED
  BY <1>1, <1>2, <1>3, <1>4, <1>5, <1>6 DEF SetMotors, SetPwm

\* The registers of the table are registers of the chip.
LEMMA TableType ==
  ASSUME NEW p \in Channels, NEW b \in 1..4
  PROVE  /\ p \in 0..15
         /\ p = 3 => pwm_regs[p] = <<2, 3, 20, 21>>
         /\ p # 3 => pwm_regs[p] = <<4 * p + 6, 4 * p + 7, 4 * p + 8, 4 * p + 9>>
         /\ pwm_regs[p][b] \in Registers
<1>1. p \in 0..15
  BY CommandTypes DEF Channels, Motors
<1>2. /\ p = 3 => pwm_regs[p] = <<2, 3, 20, 21>>
      /\ p # 3 => pwm_regs[p] = <<4 * p + 6, 4 * p + 7, 4 * p + 8, 4 * p + 9>>
  BY <1>1 DEF pwm_regs
<1>3. \A r \in Channel(p) : r \in Registers
  BY DEF Registers
<1>4. {2, 3} \subseteq Registers
  BY DEF Registers
<1>5. pwm_regs[p][b] \in Channel(p) \cup {2, 3}
  BY <1>1, <1>2 DEF Channel
<1> QED
  BY <1>1, <1>2, <1>3, <1>4, <1>5

LEMMA BytesType ==
  ASSUME NEW us \in Nat, NEW b \in 1..4
  PROVE  /\ Bytes(us)[b] \in 0..255
         /\ b \in {1, 2} => Bytes(us)[b] = 0
         /\ b = 3 => Bytes(us)[b] = Cycle(us) % 256
         /\ b = 4 => Bytes(us)[b] = Cycle(us) \div 256
<1> DEFINE low == Cycle(us) % 256
           high == Cycle(us) \div 256
<1>1. low \in 0..255 /\ high \in 0..15
  <2>1. InBytes(Cycle(us))
    BY CycleRange, Zenon
  <2> QED
    BY <2>1 DEF InBytes
<1>2. Bytes(us) = <<0, 0, low, high>>
  BY DEF Bytes
<1> HIDE DEF low, high
<1>3. /\ Bytes(us)[b] \in 0..255
      /\ b \in {1, 2} => Bytes(us)[b] = 0
      /\ b = 3 => Bytes(us)[b] = low
      /\ b = 4 => Bytes(us)[b] = high
  BY <1>1, <1>2
<1> QED
  BY <1>3 DEF low, high

\* The registers of the motors after a transfer.
LEMMA WriteFacts ==
  ASSUME IInv, NEW ok \in BOOLEAN, Write(ok)
  PROVE  /\ reg' \in [Registers -> RegValues]
         /\ faults' \in 0..MaxFaults
         /\ \A m \in Motors :
              /\ reg'[4 * m + 6] = 0 /\ reg'[4 * m + 7] = 0
              /\ reg'[4 * m + 8] = IF ok /\ m = pin /\ byte = 3
                                   THEN Cycle(micro) % 256 ELSE reg[4 * m + 8]
              /\ reg'[4 * m + 9] = IF ok /\ m = pin /\ byte = 4
                                   THEN Cycle(micro) \div 256 ELSE reg[4 * m + 9]
<1>1. /\ pin \in Channels /\ byte \in 1..4 /\ micro \in Nat
      /\ reg \in [Registers -> RegValues] /\ faults \in 0..MaxFaults
      /\ \A m \in Motors : reg[4 * m + 6] = 0 /\ reg[4 * m + 7] = 0
  BY Zenon DEF IInv, TypeOK, RegInv
<1>2. CASE ~ok
  BY <1>1, <1>2, ControllerAssumption DEF Write
<1>3. CASE ok
  <2> DEFINE a == pwm_regs[pin][byte]
             v == Bytes(micro)[byte]
  <2>1. /\ pin \in 0..15 /\ a \in Registers
        /\ pin = 3 => pwm_regs[pin] = <<2, 3, 20, 21>>
        /\ pin # 3 => pwm_regs[pin] = <<4 * pin + 6, 4 * pin + 7, 4 * pin + 8, 4 * pin + 9>>
    <3>1. pin \in Channels /\ byte \in 1..4
      BY <1>1, Zenon
    <3> QED
      BY <3>1, TableType, Zenon
  <2>2. /\ v \in 0..255
        /\ byte \in {1, 2} => v = 0
        /\ byte = 3 => v = Cycle(micro) % 256
        /\ byte = 4 => v = Cycle(micro) \div 256
    <3>1. micro \in Nat /\ byte \in 1..4
      BY <1>1, Zenon
    <3> QED
      BY <3>1, BytesType, SMTT(60)
  <2>3. /\ byte = 1 => a = IF pin = 3 THEN 2 ELSE 4 * pin + 6
        /\ byte = 2 => a = IF pin = 3 THEN 3 ELSE 4 * pin + 7
        /\ byte = 3 => a = 4 * pin + 8
        /\ byte = 4 => a = 4 * pin + 9
    BY <1>1, <2>1
  <2>4. reg' = [reg EXCEPT ![a] = v] /\ faults' = faults
    BY <1>3 DEF Write
  <2> HIDE DEF a, v
  <2>5. reg' \in [Registers -> RegValues]
    BY <1>1, <2>1, <2>2, <2>4 DEF RegValues
  <2>6. \A m \in Motors : {4 * m + 6, 4 * m + 7, 4 * m + 8, 4 * m + 9} \subseteq Registers
    <3> SUFFICES ASSUME NEW m \in Motors
                 PROVE  {4 * m + 6, 4 * m + 7, 4 * m + 8, 4 * m + 9} \subseteq Registers
      OBVIOUS
    <3>1. Channel(m) \subseteq Registers
      BY DEF Registers, Channels
    <3>2. {4 * m + 6, 4 * m + 7, 4 * m + 8, 4 * m + 9} \subseteq Channel(m)
      BY DEF Channel, Motors
    <3> QED
      BY <3>1, <3>2
  <2>7. \A r \in Registers : reg'[r] = IF r = a THEN v ELSE reg[r]
    BY <1>1, <2>1, <2>4
  <2>8. ASSUME NEW m \in Motors
        PROVE  /\ reg'[4 * m + 6] = 0 /\ reg'[4 * m + 7] = 0
               /\ reg'[4 * m + 8] = IF m = pin /\ byte = 3 THEN Cycle(micro) % 256 ELSE reg[4 * m + 8]
               /\ reg'[4 * m + 9] = IF m = pin /\ byte = 4 THEN Cycle(micro) \div 256 ELSE reg[4 * m + 9]
    <3>1. m \in 0..3
      BY DEF Motors
    <3> QED
      BY <1>1, <2>1, <2>2, <2>3, <2>6, <2>7, <3>1
  <2> QED
    BY <1>1, <1>3, <2>4, <2>5, <2>8
<1> QED
  BY <1>2, <1>3
\* The pulse of a motor follows from the two bytes.
LEMMA PulseFacts ==
  ASSUME TypeOK, RegInv, NEW m \in Motors
  PROVE  /\ Low(m) \in 0..255
         /\ High(m) \in 0..255
         /\ High(m) >= 16 => Pulse(m) = 0
         /\ High(m) \in 0..15 => Pulse(m) = Low(m) + 256 * High(m)
<1>1. 4 * m + 8 \in Channel(m) /\ 4 * m + 9 \in Channel(m)
  BY DEF Channel, Motors
<1>2. Channel(m) \subseteq Registers
  BY DEF Registers, Channels
<1>3. Low(m) \in 0..255 /\ High(m) \in 0..255
  BY <1>1, <1>2 DEF TypeOK, Low, High, RegValues
<1>4. OnAt(m) = 0 /\ OffAt(m) = Low(m) + 256 * High(m) /\ (FullyOff(m) <=> High(m) >= 16)
  BY DEF RegInv, OnAt, OffAt, FullyOff, Low, High
<1>5. \A l \in 0..255, h \in 0..15 : ((l + 256 * h) - 0) % 4096 = l + 256 * h
  OBVIOUS
<1> QED
  BY <1>3, <1>4, <1>5 DEF Pulse

-----------------------------------------------------------------------------
LEMMA InitInv == Init => IInv
<1> SUFFICES ASSUME Init PROVE IInv
  OBVIOUS
<1>1. PowerUp \in [Registers -> RegValues]
  BY DEF PowerUp, RegValues
<1>2. TypeOK
  BY <1>1, ControllerAssumption DEF Init, TypeOK, Motors, Channels, Counts
<1>3. ASSUME NEW m \in Motors
      PROVE  reg[4 * m + 6] = 0 /\ reg[4 * m + 7] = 0 /\ reg[4 * m + 9] = 16
  <2>1. {4 * m + 6, 4 * m + 7, 4 * m + 9} \subseteq Channel(m)
    BY DEF Channel, Motors
  <2>2. Channel(m) \subseteq Registers
    BY DEF Registers, Channels
  <2>3. /\ (4 * m + 6) % 4 = 2 /\ (4 * m + 7) % 4 = 3 /\ (4 * m + 9) % 4 = 1
        /\ 4 * m + 6 > 3
    BY DEF Motors
  <2> QED
    BY <2>1, <2>2, <2>3 DEF Init, PowerUp, Motors
<1>4. RegInv
  BY <1>3 DEF Init, RegInv, HighHolds, Holds, HalfWritten, Writing, High
<1>5. VectorInv
  BY DEF Init, VectorInv
<1> QED
  BY <1>2, <1>4, <1>5 DEF IInv

\* Entering set_pwm_ms() touches no register.
LEMMA EnterRegs ==
  ASSUME IInv, UNCHANGED chip, byte' = 1, ~(\E m \in Motors : HalfWritten(m))
  PROVE  RegInv'
BY DEF IInv, RegInv, HighHolds, Holds, HalfWritten, Low, High, chip

\* Nor does anything else that leaves the chip alone.
LEMMA ChipType ==
  ASSUME TypeOK, UNCHANGED chip
  PROVE  /\ reg' \in [Registers -> RegValues] /\ whole' \in [Motors -> Counts]
         /\ bad' \subseteq Motors /\ faults' \in 0..MaxFaults
<1>1. reg' = reg /\ whole' = whole /\ bad' = bad /\ faults' = faults
  BY DEF chip
<1>2. reg \in [Registers -> RegValues]
  BY Zenon DEF TypeOK
<1>3. whole \in [Motors -> Counts]
  BY Zenon DEF TypeOK
<1>4. bad \subseteq Motors /\ faults \in 0..MaxFaults
  BY Zenon DEF TypeOK
<1>5. reg' \in [Registers -> RegValues]
  BY <1>1, <1>2, Zenon
<1>6. whole' \in [Motors -> Counts]
  BY <1>1, <1>3, Zenon
<1>7. bad' \subseteq Motors /\ faults' \in 0..MaxFaults
  BY <1>1, <1>4
<1> QED
  BY <1>5, <1>6, <1>7, Zenon

\* The first pulse of a vector.
LEMMA SetMotorsInv ==
  ASSUME NEW v \in Speeds \cup {Zero, Full}, SetMotors(v)
  PROVE  VectorInv'
<1>1. /\ cpc' = "motors" /\ vector' # <<>> /\ pin' = 0 /\ 0 \in Motors
      /\ \A m \in Motors : asked'[m] = Micro(vector'[m + 1])
      /\ micro' = asked'[pin']
  BY AskedType
<1>2. \A m \in Motors : ~(m < pin')
  BY <1>1 DEF Motors
<1> QED
  BY <1>1, <1>2 DEF VectorInv

LEMMA StartArmedInv == IInv /\ StartArmed => IInv'
<1> SUFFICES ASSUME IInv, StartArmed PROVE IInv'
  OBVIOUS
<1>1. SetMotors(Zero)
  BY DEF StartArmed, Round
<1>2. TypeOK'
  <2>1. pin' \in Channels
    BY <1>1, AskedType DEF Channels
  <2>2. vector' \in Speeds \cup {<<>>, Zero, Full}
    BY <1>1, AskedType
  <2>3. /\ cpc' \in {"down", "consume", "motors", "led"} /\ link' \in {"up", "lost"}
        /\ arming' \in 0..3 /\ byte' \in 1..4 /\ clean' \in BOOLEAN
    BY DEF StartArmed, SetMotors, SetPwm
  <2>4. inbox' \in Seq(Messages)
    BY DEF StartArmed, IInv, TypeOK
  <2>5. asked' \in [Motors -> Nat \cup {None}] /\ micro' \in Nat
    BY <1>1, AskedType
  <2>6. UNCHANGED chip
    BY DEF StartArmed
  <2> QED
    BY <2>1, <2>2, <2>3, <2>4, <2>5, <2>6, ChipType, Zenon DEF IInv, TypeOK
<1>3. RegInv'
  BY EnterRegs DEF HalfWritten, Writing, StartArmed, SetMotors, SetPwm
<1>4. VectorInv'
  BY <1>1, SetMotorsInv
<1> QED
  BY <1>2, <1>3, <1>4 DEF IInv

LEMMA ConsumeSpeedInv == IInv /\ ConsumeSpeed => IInv'
<1> SUFFICES ASSUME IInv, ConsumeSpeed PROVE IInv'
  OBVIOUS
<1>1. Head(inbox) \in Messages /\ Tail(inbox) \in Seq(Messages)
  BY DEF IInv, TypeOK, ConsumeSpeed
<1> DEFINE v == Head(inbox).throttles
<1>2. v \in Speeds /\ SetMotors(v)
  BY <1>1 DEF Messages, ConsumeSpeed
<1> HIDE DEF v
<1>3. TypeOK'
  <2>1. pin' \in Channels
    BY <1>2, AskedType DEF Channels
  <2>2. vector' \in Speeds \cup {<<>>, Zero, Full}
    BY <1>2 DEF SetMotors
  <2>3. /\ cpc' \in {"down", "consume", "motors", "led"} /\ link' \in {"up", "lost"}
        /\ arming' \in 0..3 /\ byte' \in 1..4 /\ clean' \in BOOLEAN
    BY DEF ConsumeSpeed, SetMotors, SetPwm, IInv, TypeOK
  <2>4. inbox' \in Seq(Messages)
    BY <1>1 DEF ConsumeSpeed
  <2>5. asked' \in [Motors -> Nat \cup {None}] /\ micro' \in Nat
    BY <1>2, AskedType
  <2>6. UNCHANGED chip
    BY DEF ConsumeSpeed
  <2> QED
    BY <2>1, <2>2, <2>3, <2>4, <2>5, <2>6, ChipType, Zenon DEF IInv, TypeOK
<1>4. RegInv'
  BY EnterRegs DEF HalfWritten, Writing, ConsumeSpeed, SetMotors, SetPwm
<1>5. VectorInv'
  BY <1>2, SetMotorsInv
<1> QED
  BY <1>3, <1>4, <1>5 DEF IInv

LEMMA ConsumeLedInv == IInv /\ ConsumeLed => IInv'
<1> SUFFICES ASSUME IInv, ConsumeLed PROVE IInv'
  OBVIOUS
<1> USE DEF ConsumeLed, SetPwm, chip
<1>1. Head(inbox) \in Messages /\ Tail(inbox) \in Seq(Messages)
  BY DEF IInv, TypeOK
<1>2. Head(inbox).led \in Leds
  BY <1>1 DEF Messages
<1>3. pin' \in Channels /\ micro' \in Nat /\ asked' \in [Motors -> Nat \cup {None}]
  <2> DEFINE l == Head(inbox).led
  <2>1. l \in Leds /\ pin' = l[1] /\ micro' = l[2] /\ asked' = AlsoAsked(l)
    BY <1>2
  <2> HIDE DEF l
  <2>2. l[2] \in Nat
    BY <2>1, CommandTypes, Zenon
  <2>3. l[1] \in Channels
    BY <2>1 DEF Channels
  <2>4. asked \in [Motors -> Nat \cup {None}]
    BY DEF IInv, TypeOK
  <2>5. asked' \in [Motors -> Nat \cup {None}]
    BY <2>1, <2>2, <2>4 DEF AlsoAsked
  <2> QED
    BY <2>1, <2>2, <2>3, <2>5, Zenon
<1>4. TypeOK'
  <2>1. inbox' \in Seq(Messages) /\ byte' = 1 /\ clean' = TRUE /\ cpc' = "led"
    BY <1>1
  <2> QED
    <3>1. link' \in {"up", "lost"} /\ arming' \in 0..3 /\ byte' \in 1..4 /\ clean' \in BOOLEAN
      BY DEF IInv, TypeOK
    <3>2. vector' \in Speeds \cup {<<>>, Zero, Full}
      BY DEF IInv, TypeOK
    <3> QED
      BY <1>3, <2>1, <3>1, <3>2, ChipType, Zenon DEF IInv, TypeOK
<1>5. RegInv'
  BY EnterRegs DEF HalfWritten, Writing
<1>6. VectorInv'
  <2>1. \A m \in Motors : asked'[m] = IF m = pin' THEN micro' ELSE asked[m]
    BY DEF AlsoAsked
  <2>2. \A m \in Motors : Done(m)
    BY DEF IInv, VectorInv
  <2>3. \A m \in Motors \ {pin'} : Done(m)'
    BY <2>1, <2>2 DEF Done, Cycle, per
  <2>4. pin' \in Motors => micro' = asked'[pin']
    BY <2>1
  <2>5. cpc' = "led"
    OBVIOUS
  <2> QED
    BY <2>3, <2>4, <2>5 DEF VectorInv
<1> QED
  BY <1>4, <1>5, <1>6 DEF IInv

\* A transfer that is not the last: three bytes leave the pulse as it was.
LEMMA TransferInv == ASSUME NEW ok \in BOOLEAN PROVE IInv /\ Transfer(ok) => IInv'
<1> SUFFICES ASSUME IInv, Transfer(ok) PROVE IInv'
  OBVIOUS
<1>1. /\ reg' \in [Registers -> RegValues] /\ faults' \in 0..MaxFaults
      /\ \A m \in Motors :
           /\ reg'[4 * m + 6] = 0 /\ reg'[4 * m + 7] = 0
           /\ Low(m)' = IF ok /\ m = pin /\ byte = 3 THEN Cycle(micro) % 256 ELSE Low(m)
           /\ High(m)' = High(m)
  BY WriteFacts DEF Transfer, Low, High
<1>2. /\ Writing /\ byte \in 1..3 /\ byte' = byte + 1
      /\ clean' = (clean /\ ok) /\ bad' = Doubt(ok)
      /\ UNCHANGED <<cpc, inbox, link, arming, vector, asked, pin, micro, whole>>
  BY DEF Transfer, process, IInv, TypeOK
<1>3. /\ ok => bad' = bad
      /\ ~ok /\ pin \in Motors => bad' = bad \cup {pin}
      /\ bad \subseteq bad'
  BY <1>2 DEF Doubt
<1>4. TypeOK'
  <2>1. bad' \subseteq Motors
    BY <1>2 DEF Doubt, IInv, TypeOK
  <2>2. clean' \in BOOLEAN /\ byte' \in 1..4
    BY <1>2
  <2> QED
    BY <1>1, <1>2, <2>1, <2>2 DEF IInv, TypeOK
<1>5. RegInv'
  <2>1. \A m \in Motors \ bad' : m \in Motors \ bad /\ HighHolds(m)'
    BY <1>1, <1>2, <1>3 DEF IInv, RegInv, HighHolds
  <2>2. ASSUME NEW m \in Motors \ bad', ~HalfWritten(m)' PROVE Holds(m)'
    <3>1. Holds(m)
      BY <1>2, <1>3 DEF IInv, RegInv, HalfWritten
    <3>2. Low(m)' = Low(m)
      <4>1. CASE m = pin
        <5>1. Writing'
          BY <1>2 DEF Writing
        <5>2. byte # 3
          BY <1>2, <2>2, <4>1, <5>1 DEF HalfWritten
        <5> QED
          BY <1>1, <5>2
      <4> QED
        BY <1>1, <4>1
    <3> QED
      BY <1>1, <1>2, <3>1, <3>2 DEF Holds
  <2>3. ASSUME NEW m \in Motors, HalfWritten(m)', clean' PROVE Low(m)' = (Cycle(micro) % 256)'
    <3>1. m = pin /\ byte = 3 /\ ok /\ micro' = micro
      BY <1>2, <2>3 DEF HalfWritten
    <3> QED
      BY <1>1, <3>1 DEF Cycle, per
  <2> QED
    BY <1>1, <2>1, <2>2, <2>3 DEF RegInv
<1>6. VectorInv'
  BY <1>2 DEF IInv, VectorInv, Done
<1> QED
  BY <1>4, <1>5, <1>6 DEF IInv

\* The last transfer: the motor makes the pulse it was set to, or is in doubt.
LEMMA LastTransferFacts ==
  ASSUME IInv, NEW ok \in BOOLEAN, LastTransfer(ok)
  PROVE  /\ reg' \in [Registers -> RegValues] /\ faults' \in 0..MaxFaults
         /\ whole' \in [Motors -> Counts] /\ bad' \subseteq Motors
         /\ \A m \in Motors : reg'[4 * m + 6] = 0 /\ reg'[4 * m + 7] = 0
         /\ \A m \in Motors \ bad' : HighHolds(m)' /\ Holds(m)'
         /\ \A m \in Motors : whole'[m] = IF m = pin THEN Cycle(micro) ELSE whole[m]
<1>1. /\ reg' \in [Registers -> RegValues] /\ faults' \in 0..MaxFaults
      /\ \A m \in Motors :
           /\ reg'[4 * m + 6] = 0 /\ reg'[4 * m + 7] = 0
           /\ Low(m)' = Low(m)
           /\ High(m)' = IF ok /\ m = pin THEN Cycle(micro) \div 256 ELSE High(m)
  BY WriteFacts DEF LastTransfer, Low, High
<1>2. /\ Writing /\ byte = 4
      /\ bad' = IF clean /\ ok THEN bad \ {pin} ELSE bad \cup (Motors \cap {pin})
      /\ bad \subseteq Motors /\ micro \in Nat
  BY DEF LastTransfer, Doubt, IInv, TypeOK
<1>3. \A m \in Motors : whole'[m] = IF m = pin THEN Cycle(micro) ELSE whole[m]
  BY DEF LastTransfer
<1>4. Cycle(micro) \in Counts
  <2>1. micro \in Nat
    BY <1>2
  <2> QED
    BY <2>1, CycleCount, Zenon
<1>5. whole' \in [Motors -> Counts]
  <2>1. whole \in [Motors -> Counts]
    BY Zenon DEF IInv, TypeOK
  <2> QED
    BY <1>4, <2>1 DEF LastTransfer
<1>6. ASSUME NEW m \in Motors \ bad' PROVE HighHolds(m)' /\ Holds(m)'
  <2>1. CASE m = pin
    <3>1. clean /\ ok
      BY <1>2, <2>1
    <3>2. HalfWritten(m)
      BY <1>2, <2>1 DEF HalfWritten, LastTransfer
    <3>3. Low(m)' = Cycle(micro) % 256 /\ High(m)' = Cycle(micro) \div 256
      BY <1>1, <2>1, <3>1, <3>2 DEF IInv, RegInv
    <3> DEFINE c == Cycle(micro)
    <3>4. c \in Counts
      BY <1>4
    <3>5. whole'[m] = c
      BY <1>3, <2>1
    <3> HIDE DEF c
    <3>6. Low(m)' = c % 256 /\ High(m)' = c \div 256
      BY <3>3 DEF c
    <3>7. /\ c % 256 \in 0..255 /\ c \div 256 \in 0..15
          /\ (c % 256) + 256 * (c \div 256) = c
      <4>1. InBytes(c)
        BY <3>4, TwoBytes, Zenon
      <4> QED
        BY <4>1 DEF InBytes
    <3> QED
      BY <3>4, <3>5, <3>6, <3>7 DEF HighHolds, Holds, Counts
  <2>2. CASE m # pin
    <3>1. m \in Motors \ bad /\ ~HalfWritten(m)
      BY <1>2, <2>2 DEF HalfWritten
    <3>2. HighHolds(m) /\ Holds(m)
      BY <3>1 DEF IInv, RegInv
    <3>3. Low(m)' = Low(m) /\ High(m)' = High(m) /\ whole'[m] = whole[m]
      BY <1>1, <1>3, <2>2
    <3> QED
      BY <3>2, <3>3 DEF HighHolds, Holds
  <2> QED
    BY <2>1, <2>2
<1> QED
  BY <1>1, <1>2, <1>3, <1>5, <1>6

LEMMA NextMotorInv == ASSUME NEW ok \in BOOLEAN PROVE IInv /\ NextMotor(ok) => IInv'
<1> SUFFICES ASSUME IInv, NextMotor(ok) PROVE IInv'
  OBVIOUS
<1> USE DEF NextMotor, SetPwm, process
<1>1. /\ reg' \in [Registers -> RegValues] /\ faults' \in 0..MaxFaults
      /\ whole' \in [Motors -> Counts] /\ bad' \subseteq Motors
      /\ \A m \in Motors : reg'[4 * m + 6] = 0 /\ reg'[4 * m + 7] = 0
      /\ \A m \in Motors \ bad' : HighHolds(m)' /\ Holds(m)'
      /\ \A m \in Motors : whole'[m] = IF m = pin THEN Cycle(micro) ELSE whole[m]
  BY LastTransferFacts
<1>2. /\ pin \in Motors /\ pin + 1 \in Motors /\ pin + 1 \in Channels
      /\ vector \in Speeds \cup {Zero, Full}
      /\ micro = asked[pin] /\ \A m \in Motors : asked[m] = Micro(vector[m + 1])
  BY DEF IInv, TypeOK, VectorInv, Motors, Channels
<1>3. micro' \in Nat /\ micro' = asked'[pin']
  <2>1. (pin + 1) + 1 = pin + 2
    BY <1>2 DEF Motors
  <2> QED
    BY <1>2, <2>1, VectorType
<1>4. TypeOK'
  BY <1>1, <1>2, <1>3 DEF IInv, TypeOK
<1>5. RegInv'
  BY <1>1 DEF RegInv, HalfWritten
<1>6. VectorInv'
  <2>1. \A m \in Motors : m < pin' => m = pin \/ m < pin
    BY <1>2 DEF Motors
  <2>2. ASSUME NEW m \in Motors, m < pin' PROVE Done(m)'
    <3>1. CASE m = pin
      BY <1>1, <1>2, <3>1 DEF Done
    <3>2. CASE m # pin
      BY <1>1, <2>1, <2>2, <3>2 DEF Done, IInv, VectorInv
    <3> QED
      BY <3>1, <3>2
  <2> QED
    BY <1>2, <1>3, <2>2 DEF VectorInv, IInv
<1> QED
  BY <1>4, <1>5, <1>6 DEF IInv

LEMMA NextRoundInv == ASSUME NEW ok \in BOOLEAN PROVE IInv /\ NextRound(ok) => IInv'
<1> SUFFICES ASSUME IInv, NextRound(ok) PROVE IInv'
  OBVIOUS
<1>1. /\ reg' \in [Registers -> RegValues] /\ faults' \in 0..MaxFaults
      /\ whole' \in [Motors -> Counts] /\ bad' \subseteq Motors
      /\ \A m \in Motors : reg'[4 * m + 6] = 0 /\ reg'[4 * m + 7] = 0
      /\ \A m \in Motors \ bad' : HighHolds(m)' /\ Holds(m)'
  BY LastTransferFacts DEF NextRound
<1> DEFINE v == Round(arming - 1)
<1>2. v \in Speeds \cup {Zero, Full} /\ SetMotors(v) /\ arming' \in 0..3
  BY DEF Round, NextRound, IInv, TypeOK
<1> HIDE DEF v
<1>3. /\ vector' \in Speeds \cup {<<>>, Zero, Full} /\ pin' \in Channels /\ micro' \in Nat
      /\ asked' \in [Motors -> Nat \cup {None}]
      /\ cpc' = "motors" /\ byte' = 1 /\ clean' = TRUE
  BY <1>2, AskedType DEF Channels
<1>4. TypeOK'
  <2>1. inbox' \in Seq(Messages) /\ link' \in {"up", "lost"}
    BY DEF NextRound, IInv, TypeOK
  <2> QED
    BY <1>1, <1>2, <1>3, <2>1 DEF TypeOK
<1>5. RegInv'
  BY <1>1, <1>3 DEF RegInv, HalfWritten
<1>6. VectorInv'
  BY <1>2, SetMotorsInv
<1> QED
  BY <1>4, <1>5, <1>6 DEF IInv

LEMMA ReturnInv == ASSUME NEW ok \in BOOLEAN PROVE IInv /\ Return(ok) => IInv'
<1> SUFFICES ASSUME IInv, Return(ok) PROVE IInv'
  OBVIOUS
<1> USE DEF Return, call
<1>1. /\ reg' \in [Registers -> RegValues] /\ faults' \in 0..MaxFaults
      /\ whole' \in [Motors -> Counts] /\ bad' \subseteq Motors
      /\ \A m \in Motors : reg'[4 * m + 6] = 0 /\ reg'[4 * m + 7] = 0
      /\ \A m \in Motors \ bad' : HighHolds(m)' /\ Holds(m)'
      /\ \A m \in Motors : whole'[m] = IF m = pin THEN Cycle(micro) ELSE whole[m]
  BY LastTransferFacts
<1>2. TypeOK'
  BY <1>1 DEF IInv, TypeOK
<1>3. RegInv'
  BY <1>1 DEF RegInv, HalfWritten, Writing
<1>4. ASSUME NEW m \in Motors PROVE Done(m)'
  <2>1. CASE cpc = "led"
    <3>1. CASE m = pin
      BY <1>1, <2>1, <3>1 DEF IInv, VectorInv, Done
    <3>2. CASE m # pin
      BY <1>1, <2>1, <3>2 DEF IInv, VectorInv, Done
    <3> QED
      BY <3>1, <3>2
  <2>2. CASE cpc = "motors"
    <3>1. pin = 3
      BY <2>2
    <3>2. CASE m = pin
      BY <1>1, <2>2, <3>2 DEF IInv, VectorInv, Done
    <3>3. CASE m < pin
      BY <1>1, <2>2, <3>1, <3>3 DEF IInv, VectorInv, Done
    <3> QED
      BY <3>1, <3>2, <3>3 DEF Motors
  <2> QED
    BY <2>1, <2>2 DEF LastTransfer, Writing
<1>5. VectorInv'
  BY <1>4 DEF VectorInv
<1> QED
  BY <1>2, <1>3, <1>5 DEF IInv

\* Steps that leave the chip alone and write nothing.
LEMMA IdleRegs ==
  ASSUME IInv, UNCHANGED chip, ~Writing, ~Writing'
  PROVE  RegInv'
BY DEF IInv, RegInv, HighHolds, Holds, HalfWritten, Writing, Low, High, chip

LEMMA StartUnarmedInv == IInv /\ StartUnarmed => IInv'
<1> SUFFICES ASSUME IInv, StartUnarmed PROVE IInv'
  OBVIOUS
<1> USE DEF StartUnarmed
<1>1. TypeOK'
  <2>1. /\ pin' \in Channels /\ micro' \in Nat /\ byte' \in 1..4 /\ clean' \in BOOLEAN
        /\ vector' \in Speeds \cup {<<>>, Zero, Full} /\ arming' \in 0..3
        /\ inbox' \in Seq(Messages) /\ link' \in {"up", "lost"}
        /\ asked' \in [Motors -> Nat \cup {None}]
    BY DEF IInv, TypeOK, call
  <2>2. cpc' \in {"down", "consume", "motors", "led"}
    OBVIOUS
  <2> QED
    BY <2>1, <2>2, ChipType, Zenon DEF IInv, TypeOK
<1>2. RegInv'
  BY IdleRegs DEF Writing
<1>3. VectorInv'
  BY DEF IInv, VectorInv, Done
<1> QED
  BY <1>1, <1>2, <1>3 DEF IInv

LEMMA ExitInv ==
  ASSUME IInv, Exit
  PROVE  /\ cpc' = "down" /\ inbox' \in Seq(Messages) /\ link' \in {"up", "lost"}
         /\ arming' \in 0..3 /\ vector' \in Speeds \cup {<<>>, Zero, Full}
         /\ asked' \in [Motors -> Nat \cup {None}]
         /\ pin' \in Channels /\ micro' \in Nat /\ byte' \in 1..4 /\ clean' \in BOOLEAN
         /\ VectorInv'
BY DEF IInv, TypeOK, Exit, call, VectorInv

LEMMA ConsumeNullInv == IInv /\ ConsumeNull => IInv'
<1> SUFFICES ASSUME IInv, ConsumeNull PROVE IInv'
  OBVIOUS
<1>1. TypeOK'
  BY ExitInv, ChipType, Zenon DEF ConsumeNull, IInv, TypeOK
<1>2. RegInv'
  BY IdleRegs DEF ConsumeNull, Exit, Writing
<1> QED
  BY <1>1, <1>2, ExitInv DEF ConsumeNull, IInv

LEMMA KillInv == IInv /\ Kill => IInv'
<1> SUFFICES ASSUME IInv, Kill PROVE IInv'
  OBVIOUS
<1>1. /\ reg' = reg /\ whole' = whole /\ cpc' = "down"
      /\ bad' = IF Writing /\ byte > 1 THEN bad \cup (Motors \cap {pin}) ELSE bad
      /\ faults < MaxFaults /\ faults' = faults + 1
  BY DEF Kill, Exit, Doubt
<1>2. bad' \subseteq Motors /\ faults' \in 0..MaxFaults
  BY <1>1, ControllerAssumption DEF IInv, TypeOK
<1>3. reg' \in [Registers -> RegValues] /\ whole' \in [Motors -> Counts]
  BY <1>1, Zenon DEF IInv, TypeOK
<1>4. TypeOK'
  <2>1. cpc' \in {"down", "consume", "motors", "led"}
    BY <1>1
  <2> QED
    BY <1>2, <1>3, <2>1, ExitInv, Zenon DEF Kill, TypeOK
<1>5. RegInv'
  <2>1. \A m \in Motors \ bad' : m \in Motors \ bad /\ ~HalfWritten(m)
    BY <1>1 DEF HalfWritten, Writing
  <2> QED
    BY <1>1, <2>1 DEF IInv, RegInv, HighHolds, Holds, HalfWritten, Writing, Low, High
<1> QED
  BY <1>4, <1>5, ExitInv DEF Kill, IInv

\* The broker changes what the controller is given, not where it is.
LEMMA BrokerInv ==
  ASSUME IInv, UNCHANGED <<cpc, arming, vector, asked, call, chip>>,
         inbox' \in Seq(Messages), link' \in {"up", "lost"}
  PROVE  IInv'
<1>1. TypeOK'
  <2>1. /\ pin' \in Channels /\ micro' \in Nat /\ byte' \in 1..4 /\ clean' \in BOOLEAN
        /\ vector' \in Speeds \cup {<<>>, Zero, Full} /\ arming' \in 0..3
        /\ cpc' \in {"down", "consume", "motors", "led"}
        /\ asked' \in [Motors -> Nat \cup {None}]
    BY DEF IInv, TypeOK, call
  <2> QED
    BY <2>1, ChipType, Zenon DEF IInv, TypeOK
<1>2. RegInv'
  BY DEF IInv, RegInv, HighHolds, Holds, HalfWritten, Writing, Low, High, chip, call, Cycle, per
<1>3. VectorInv'
  BY DEF IInv, VectorInv, Done, chip, call
<1> QED
  BY <1>1, <1>2, <1>3 DEF IInv

LEMMA NextInv == IInv /\ [Next]_vars => IInv'
<1> SUFFICES ASSUME IInv, [Next]_vars PROVE IInv'
  OBVIOUS
<1>1. CASE StartArmed
  BY <1>1, StartArmedInv
<1>2. CASE StartUnarmed
  BY <1>2, StartUnarmedInv
<1>3. CASE ConsumeSpeed
  BY <1>3, ConsumeSpeedInv
<1>4. CASE ConsumeLed
  BY <1>4, ConsumeLedInv
<1>5. CASE WriteStep
  BY <1>5, TransferInv, NextMotorInv, NextRoundInv, ReturnInv DEF WriteStep
<1>6. CASE ConsumeNull
  BY <1>6, ConsumeNullInv
<1>7. CASE Kill
  BY <1>7, KillInv
<1>8. CASE LoseLink
  <2>1. inbox' \in Seq(Messages) /\ link' \in {"up", "lost"}
    BY <1>8 DEF LoseLink, IInv, TypeOK
  <2> QED
    BY <1>8, <2>1, BrokerInv DEF LoseLink
<1>9. ASSUME NEW msg \in Messages, Forward(msg) PROVE IInv'
  <2>1. inbox' \in Seq(Messages) /\ link' \in {"up", "lost"}
    BY <1>9 DEF Forward, IInv, TypeOK
  <2> QED
    BY <1>9, <2>1, BrokerInv DEF Forward
<1>10. CASE UNCHANGED vars
  <2>1. inbox' \in Seq(Messages) /\ link' \in {"up", "lost"}
    BY <1>10 DEF vars, process, IInv, TypeOK
  <2> QED
    BY <1>10, <2>1, BrokerInv DEF vars, process
<1> QED
  BY <1>1, <1>2, <1>3, <1>4, <1>5, <1>6, <1>7, <1>8, <1>9, <1>10 DEF Next, Controller

THEOREM Invariant == Spec => []IInv
<1>1. Init => IInv
  BY InitInv
<1>2. IInv /\ [Next]_vars => IInv'
  BY NextInv
<1> QED
  BY <1>1, <1>2, PTL DEF Spec

-----------------------------------------------------------------------------
\* Every variable keeps its type; no count outgrows twelve bits and no
\* register eight, whatever LED settings and throttles are commanded.
THEOREM TypeCorrect == Spec => []TypeOK
<1>1. IInv => TypeOK
  BY DEF IInv
<1> QED
  BY <1>1, Invariant, PTL

\* The pulse of a motor whose registers hold what was written.
LEMMA HoldsPulse ==
  ASSUME IInv, NEW m \in Motors, Holds(m)
  PROVE  Pulse(m) = whole[m]
BY PulseFacts DEF IInv, Holds

\* Between two messages each motor that no failed transfer has left in doubt
\* makes the pulse that was asked for last (motor_controller.cpp:97 and 110 to 113).
THEOREM InForceCorrect == Spec => []InForce
<1>1. IInv => InForce
  <2> SUFFICES ASSUME IInv, cpc = "consume", NEW m \in Motors \ bad, asked[m] # None
               PROVE  Pulse(m) = Cycle(asked[m])
    BY DEF InForce
  <2>1. Holds(m) /\ Done(m)
    BY DEF IInv, RegInv, VectorInv, HalfWritten, Writing
  <2> QED
    BY <2>1, HoldsPulse DEF Done
<1> QED
  BY <1>1, Invariant, PTL

\* A pulse torn between its two bytes is less than 256 counts away from the
\* last complete one (pca9685.cpp:108, four transfers for one pulse).
THEOREM TornCorrect == Spec => []TornBounded
<1>1. IInv => TornBounded
  <2> SUFFICES ASSUME IInv, NEW m \in Motors \ bad
               PROVE  \/ Pulse(m) = whole[m]
                      \/ /\ Writing
                         /\ m = pin
                         /\ Pulse(m) \in (whole[m] - 255)..(whole[m] + 255)
    BY DEF TornBounded
  <2>1. CASE ~HalfWritten(m)
    BY <2>1, HoldsPulse DEF IInv, RegInv
  <2>2. CASE HalfWritten(m)
    <3>1. HighHolds(m)
      BY DEF IInv, RegInv
    <3>2. CASE High(m) = 16 /\ whole[m] = 0
      BY <3>2, PulseFacts DEF IInv
    <3>3. CASE /\ High(m) \in 0..15
               /\ whole[m] \in (256 * High(m))..(256 * High(m) + 255)
      <4> DEFINE p == Pulse(m)
                 w == whole[m]
                 l == Low(m)
                 h == High(m)
      <4>1. p = l + 256 * h /\ l \in 0..255
        BY <3>3, PulseFacts DEF IInv
      <4>2. h \in 0..15 /\ w \in (256 * h)..(256 * h + 255)
        BY <3>3
      <4> HIDE DEF p, w, l, h
      <4>3. p \in (w - 255)..(w + 255)
        BY <4>1, <4>2
      <4> QED
        BY <2>2, <4>3 DEF HalfWritten, p, w
    <3> QED
      BY <3>1, <3>2, <3>3 DEF HighHolds
  <2> QED
    BY <2>1, <2>2
<1> QED
  BY <1>1, Invariant, PTL

\* The registers of two channels are apart, and so are those that channel 3
\* is given in place of its own (pca9685.cpp:7, pwm_regs).
LEMMA WritesApart ==
  ASSUME NEW p \in 0..15, NEW q \in 0..15, p # q, NEW b \in 1..4
  PROVE  pwm_regs[q][b] \notin Channel(p)
<1>1. pwm_regs[q] = IF q = 3 THEN <<2, 3, 20, 21>>
                             ELSE <<4 * q + 6, 4 * q + 7, 4 * q + 8, 4 * q + 9>>
  BY DEF pwm_regs
<1> QED
  BY <1>1 DEF Channel

LEMMA ChannelNumbers == Channels \subseteq 0..15
BY CommandTypes DEF Channels, Motors

\* A pulse is what the registers of its channel hold.
LEMMA PulseOfChannel ==
  ASSUME NEW p \in 0..15, \A r \in Channel(p) : reg'[r] = reg[r]
  PROVE  Pulse(p)' = Pulse(p)
BY DEF Channel, Pulse, FullyOff, OnAt, OffAt

\* Setting a channel leaves the pulse of every other one alone
\* (pca9685.cpp:108, set_pwm_ms()), LEDs among motors included.
THEOREM ChannelsApartCorrect == Spec => ChannelsApart
<1>1. ASSUME TypeOK, [Next]_vars, NEW p \in Channels \ {pin} PROVE Pulse(p)' = Pulse(p)
  <2>1. p \in 0..15 /\ pin \in 0..15 /\ byte \in 1..4
    BY <1>1, ChannelNumbers DEF TypeOK
  <2>2. CASE UNCHANGED reg
    BY <2>2 DEF Pulse, FullyOff, OnAt, OffAt
  <2>3. CASE reg' = [reg EXCEPT ![pwm_regs[pin][byte]] = Bytes(micro)[byte]]
    <3>1. p # pin /\ p \in Channels
      BY <1>1
    <3>2. Channel(p) \subseteq Registers
      BY <3>1 DEF Registers
    <3>3. DOMAIN reg = Registers
      BY <1>1 DEF TypeOK
    <3>4. \A r \in Channel(p) : r # pwm_regs[pin][byte]
      BY <2>1, <3>1, WritesApart
    <3>5. \A r \in Channel(p) : reg'[r] = reg[r]
      BY <2>3, <3>2, <3>3, <3>4
    <3> QED
      BY <2>1, <3>5, PulseOfChannel
  <2>4. UNCHANGED reg \/ reg' = [reg EXCEPT ![pwm_regs[pin][byte]] = Bytes(micro)[byte]]
    BY <1>1 DEF Next, Controller, StartArmed, StartUnarmed, ConsumeSpeed, ConsumeLed, WriteStep,
                Transfer, NextMotor, NextRound, Return, LastTransfer, Write,
                ConsumeNull, Kill, LoseLink, Forward, vars, chip
  <2> QED
    BY <2>2, <2>3, <2>4
<1>2. TypeOK /\ [Next]_vars => [\A p \in Channels \ {pin} : Pulse(p)' = Pulse(p)]_vars
  BY <1>1
<1> QED
  BY <1>2, TypeCorrect, PTL DEF Spec, ChannelsApart
=============================================================================

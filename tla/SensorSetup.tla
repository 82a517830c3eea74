------------------------------ MODULE SensorSetup ------------------------------
(***************************************************************************)
(* The set-up of the sensors over the I2C bus: the setters of the MPU6050, *)
(* BMP390 and QMC5883 drivers (src/backend) and the transfers they are     *)
(* made of (src/backend/i2c.cpp).  A setter assigns a register, or reads   *)
(* it, replaces its own bits and writes it back; a transfer that fails is  *)
(* reported on stderr, and the setter goes on with what it has.            *)
(*                                                                         *)
(* A register is a pair of its chip and its number; its content is the set *)
(* of the bits that are set.  A program is the sequence of its setters.    *)
(***************************************************************************)
EXTENDS Naturals, Sequences, FiniteSets

CONSTANTS
  Registers,  \* the registers that are set
  Default,    \* what they hold after power-up
  Ranged,     \* those whose setter chooses the scale of the readings
  InitScale,  \* the range a program takes them to have before it has set one
  Programs,   \* the programs that are run
  MaxFaults   \* bound: transfers that fail

Bits == 0..7
BitsOf(n) == {b \in Bits : (n \div 2 ^ b) % 2 = 1}

\* The bits of a register's own number.
Number(r) == BitsOf(r[2])

Chip(r) == r[1]

(* The setters *)

\* Read, replace the bits of mask, write.
Modify(r, mask, bits) == [kind |-> "modify", reg |-> r, mask |-> mask, bits |-> bits]
Assign(r, bits) == [kind |-> "assign", reg |-> r, mask |-> Bits, bits |-> bits]

\* A command that gives all registers of the chip of r their defaults.
Reset(r) == [kind |-> "reset", reg |-> r, mask |-> {}, bits |-> {}]

Setters == [kind : {"modify", "assign", "reset"}, reg : Registers,
            mask : SUBSET Bits, bits : SUBSET Bits]

\* The setters of a program have separate bits, of one register with a range
\* there is one, and a reset comes before the other setters of its chip.
WellFormed(p) ==
  /\ p \in Seq(Setters) /\ p # <<>>
  /\ \A j \in DOMAIN p :
       /\ p[j].bits \subseteq p[j].mask
       /\ p[j].kind = "assign" => p[j].mask = Bits
       /\ p[j].kind = "reset" => p[j].mask = {} /\ p[j].reg \notin Ranged
  /\ \A i, j \in DOMAIN p : i < j =>
       /\ p[i].reg = p[j].reg => p[i].mask \cap p[j].mask = {} /\ p[i].reg \notin Ranged
       /\ p[j].kind = "reset" => Chip(p[i].reg) # Chip(p[j].reg)

ASSUME SetupAssumption ==
  /\ Registers \subseteq STRING \X (0..255)
  /\ Default \in [Registers -> SUBSET Bits]
  /\ Ranged \subseteq Registers
  /\ InitScale \in [Ranged -> SUBSET Bits]
  /\ \A p \in Programs : WellFormed(p)
  /\ MaxFaults \in Nat

VARIABLES
  pc,       \* "off", "setter", "write" or "running"
  prog,     \* the program that runs, or ran last
  k,        \* the setter it is in
  buf,      \* what read_byte() has returned to it
  scale,    \* the ranges it computes its readings with
  reg,      \* the registers of the chips
  read,     \* history: buf was read from the chip
  clean,    \* history: no transfer of this start has failed
  sure,     \* history: setters of this start nothing has undone
  tainted,  \* history: registers that were given the bits of their number
  faults    \* history: transfers that failed

vars == <<pc, prog, k, buf, scale, reg, read, clean, sure, tainted, faults>>

Setter == prog[k]
SameRegister(j) == {i \in DOMAIN prog : prog[i].reg = prog[j].reg}
SameChip(r) == {s \in Registers : Chip(s) = Chip(r)}

Init == /\ pc = "off"
        /\ prog \in Programs
        /\ k = 1
        /\ buf = {}
        /\ scale = InitScale
        /\ reg = Default
        /\ read = FALSE /\ clean = FALSE /\ sure = {} /\ tainted = {}
        /\ faults = 0

-----------------------------------------------------------------------------
Transfer(ok) == /\ ok \/ faults < MaxFaults
                /\ faults' = IF ok THEN faults ELSE faults + 1
                /\ clean' = (clean /\ ok)

\* main(): a program is started.
Start(p) == /\ pc = "off"
            /\ pc' = "setter" /\ prog' = p /\ k' = 1
            /\ scale' = InitScale
            /\ clean' = TRUE /\ sure' = {}
            /\ UNCHANGED <<buf, reg, read, tainted, faults>>

\* Mutant: the setter leaves the scale alone.
ScaleForgotten == UNCHANGED scale

\* The range is taken over before the register is touched.
SetScale == scale' = IF Setter.reg \in Ranged
                       THEN [scale EXCEPT ![Setter.reg] = Setter.bits]
                       ELSE scale

\* Mutant: the transfer's failure is an empty register.
ReadByteZero(ok) == IF ok THEN reg[Setter.reg] ELSE {}

\* read_byte(): its one buffer carries the register's number to the chip and
\* the content back; the number is still in it when the transfer fails.
ReadByte(ok) == IF ok THEN reg[Setter.reg] ELSE Number(Setter.reg)

\* The first half of a setter that keeps bits.
ReadBack(ok) == /\ pc = "setter"
                /\ Setter.kind = "modify"
                /\ Transfer(ok)
                /\ SetScale
                /\ buf' = ReadByte(ok)
                /\ read' = ok
                /\ pc' = "write"
                /\ UNCHANGED <<prog, k, reg, sure, tainted>>

\* Mutant: the bits are set over the old ones.
ModifiedOr == buf \cup Setter.bits

Modified == (buf \ Setter.mask) \cup Setter.bits

\* The setter returns, and the program goes on to the next one or has done.
Returned == IF k < Len(prog) THEN k' = k + 1 /\ pc' = "setter"
                             ELSE k' = k /\ pc' = "running"

WriteBack(ok) ==
  /\ pc = "write"
  /\ Transfer(ok)
  /\ Returned
  /\ IF ok
       THEN /\ reg' = [reg EXCEPT ![Setter.reg] = Modified]
            /\ sure' = (IF read THEN sure ELSE sure \ SameRegister(k)) \cup {k}
            /\ tainted' = IF read THEN tainted ELSE tainted \cup {Setter.reg}
       ELSE UNCHANGED <<reg, sure, tainted>>
  /\ UNCHANGED <<prog, buf, scale, read>>

WriteAll(ok) ==
  /\ pc = "setter"
  /\ Setter.kind = "assign"
  /\ Transfer(ok)
  /\ Returned
  /\ SetScale
  /\ IF ok
       THEN /\ reg' = [reg EXCEPT ![Setter.reg] = Setter.bits]
            /\ sure' = sure \cup {k}
            /\ tainted' = tainted \ {Setter.reg}
       ELSE UNCHANGED <<reg, sure, tainted>>
  /\ UNCHANGED <<prog, buf, read>>

\* Mutant: the command is not the chip's.
SoftResetIgnored(ok) ==
  /\ pc = "setter"
  /\ Setter.kind = "reset"
  /\ Transfer(ok)
  /\ Returned
  /\ UNCHANGED <<prog, buf, scale, reg, read, sure, tainted>>

\* soft_reset(); what the chip does not acknowledge while it starts again
\* are transfers that fail.
SoftReset(ok) ==
  /\ pc = "setter"
  /\ Setter.kind = "reset"
  /\ Transfer(ok)
  /\ Returned
  /\ IF ok
       THEN LET cleared == SameChip(Setter.reg)
            IN  /\ reg' = [r \in Registers |-> IF r \in cleared THEN Default[r] ELSE reg[r]]
                /\ tainted' = tainted \ cleared
       ELSE UNCHANGED <<reg, tainted>>
  /\ UNCHANGED <<prog, buf, scale, read, sure>>

\* The program ends, or is killed wherever it is; the chips go on.
Kill == /\ pc # "off"
        /\ pc' = "off" /\ k' = 1
        /\ buf' = {} /\ read' = FALSE /\ clean' = FALSE
        /\ scale' = InitScale
        /\ UNCHANGED <<prog, reg, sure, tainted, faults>>

\* The board is switched off and on.
PowerCycle == /\ pc = "off"
              /\ reg' = Default /\ tainted' = {} /\ sure' = {} /\ clean' = FALSE
              /\ UNCHANGED <<pc, prog, k, buf, scale, read, faults>>

Next == \/ \E p \in Programs : Start(p)
        \/ \E ok \in BOOLEAN : ReadBack(ok) \/ WriteBack(ok) \/ WriteAll(ok) \/ SoftReset(ok)
        \/ Kill
        \/ PowerCycle

Spec == Init /\ [][Next]_vars

-----------------------------------------------------------------------------
(* Properties *)

TypeOK == /\ pc \in {"off", "setter", "write", "running"}
          /\ prog \in Programs /\ k \in DOMAIN prog
          /\ buf \subseteq Bits
          /\ scale \in [Ranged -> SUBSET Bits]
          /\ reg \in [Registers -> SUBSET Bits]
          /\ read \in BOOLEAN /\ clean \in BOOLEAN
          /\ sure \subseteq DOMAIN prog /\ tainted \subseteq Registers
          /\ faults \in 0..MaxFaults
          /\ pc = "write" => Setter.kind = "modify"

Holds(j) == reg[prog[j].reg] \cap prog[j].mask = prog[j].bits

\* A setting whose transfer went through stays in force while the setters
\* behind it change other bits of its register; only one of those whose read
\* failed can undo it, and that one's own bits are then right.
SettingsHold == \A j \in sure : Holds(j)

\* The readings are computed with the range the chip is set to, unless a
\* transfer failed.
ScaleAgrees ==
  pc = "running" /\ clean =>
    \A j \in DOMAIN prog : prog[j].reg \in Ranged =>
      reg[prog[j].reg] \cap prog[j].mask = scale[prog[j].reg]

\* The bits of a register that some program sets.
Owned(r) == {b \in Bits : \E p \in Programs : \E j \in DOMAIN p : p[j].reg = r /\ b \in p[j].mask}

\* Bits no program sets have their defaults, until a read fails: then they
\* are those of the register's number, for as long as the chip is not reset.
StrayBits ==
  \A r \in Registers :
    reg[r] \ Owned(r) = (IF r \in tainted THEN Number(r) ELSE Default[r]) \ Owned(r)

\* What the first n setters of a program make of a register that had its
\* default.
Wanted(p, n, r) ==
  {b \in Bits : \/ \E j \in 1..n : p[j].reg = r /\ b \in p[j].bits
                \/ b \in Default[r] /\ \A j \in 1..n : p[j].reg = r => b \notin p[j].mask}

ResetBy(p, n, r) == \E j \in 1..n : p[j].kind = "reset" /\ Chip(p[j].reg) = Chip(r)

\* A start whose transfers all go through makes up for any failure and any
\* other program before it: a chip it resets is exactly as it wants it.
\* Of the others it has its own bits right.
RestartHeals ==
  pc = "running" /\ clean =>
    /\ \A r \in Registers : ResetBy(prog, Len(prog), r) => reg[r] = Wanted(prog, Len(prog), r)
    /\ \A j \in DOMAIN prog : prog[j].kind # "reset" => Holds(j)
=============================================================================

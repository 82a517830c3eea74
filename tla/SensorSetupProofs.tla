--------------------------- MODULE SensorSetupProofs ---------------------------
(***************************************************************************)
(* Proofs about SensorSetup, for every set of programs whose setters have  *)
(* separate bits, all chips and registers, and any number of faults.       *)
(***************************************************************************)
EXTENDS SensorSetup, TLAPS

\* How many setters of this start have returned.
Returns == IF pc = "running" THEN Len(prog) ELSE k - 1

\* A setter that has read back writes what it read, over its own register,
\* and what nothing has undone are setters that have returned.
SetterInv == /\ pc = "write" => buf = ReadByte(read)
             /\ pc = "write" => (Setter.reg \in Ranged => scale[Setter.reg] = Setter.bits)
             /\ pc \in {"setter", "write"} => sure \subseteq 1..(k - 1)

\* Without a failure each setter that returns leaves its bits, and what a
\* chip was reset to before.
HealInv ==
  pc # "off" /\ clean =>
    /\ pc = "write" => read
    /\ \A j \in 1..Returns : prog[j].kind # "reset" => j \in sure
    /\ \A j \in 1..Returns : prog[j].reg \in Ranged => scale[prog[j].reg] = prog[j].bits
    /\ \A r \in Registers : ResetBy(prog, Returns, r) => reg[r] = Wanted(prog, Returns, r)

IInv == TypeOK /\ SettingsHold /\ StrayBits /\ SetterInv /\ HealInv

-----------------------------------------------------------------------------
LEMMA NumberType == \A r : Number(r) \subseteq Bits
BY DEF Number, BitsOf

LEMMA Assumed ==
  /\ Default \in [Registers -> SUBSET Bits]
  /\ Ranged \subseteq Registers
  /\ InitScale \in [Ranged -> SUBSET Bits]
  /\ MaxFaults \in Nat /\ 0 \in 0..MaxFaults
<1>1. /\ Default \in [Registers -> SUBSET Bits]
      /\ Ranged \subseteq Registers
      /\ InitScale \in [Ranged -> SUBSET Bits]
      /\ MaxFaults \in Nat
  BY SetupAssumption, Zenon
<1> QED
  BY <1>1

\* What is known of the setters of a program.
LEMMA ProgramFacts ==
  ASSUME NEW p \in Programs
  PROVE  /\ Len(p) \in Nat \ {0} /\ DOMAIN p = 1..Len(p)
         /\ \A j \in 1..Len(p) :
              /\ p[j].kind \in {"modify", "assign", "reset"} /\ p[j].reg \in Registers
              /\ p[j].mask \subseteq Bits /\ p[j].bits \subseteq p[j].mask
              /\ p[j].kind = "assign" => p[j].mask = Bits
              /\ p[j].kind = "reset" => p[j].mask = {} /\ p[j].reg \notin Ranged
              /\ p[j].mask \subseteq Owned(p[j].reg)
         /\ \A i, j \in 1..Len(p) : i < j =>
              /\ p[i].reg = p[j].reg => p[i].mask \cap p[j].mask = {} /\ p[i].reg \notin Ranged
              /\ p[j].kind = "reset" => Chip(p[i].reg) # Chip(p[j].reg)
<1>1. WellFormed(p)
  BY SetupAssumption
<1>2. Len(p) \in Nat \ {0} /\ DOMAIN p = 1..Len(p)
  BY <1>1 DEF WellFormed
<1>3. ASSUME NEW j \in 1..Len(p)
      PROVE  /\ p[j].kind \in {"modify", "assign", "reset"} /\ p[j].reg \in Registers
             /\ p[j].mask \subseteq Bits
  <2>1. p \in Seq(Setters)
    BY <1>1, Zenon DEF WellFormed
  <2>2. p[j] \in Setters
    BY <2>1, <1>3
  <2> QED
    BY <2>2 DEF Setters
<1>4. ASSUME NEW j \in 1..Len(p) PROVE p[j].mask \subseteq Owned(p[j].reg)
  BY <1>2, <1>3 DEF Owned
<1> QED
  BY <1>1, <1>2, <1>3, <1>4 DEF WellFormed

LEMMA InitInv == Init => IInv
<1> SUFFICES ASSUME Init PROVE IInv
  OBVIOUS
<1> USE DEF Init
<1>1. 1 \in DOMAIN prog
  BY ProgramFacts
<1>2. TypeOK
  BY <1>1, Assumed DEF TypeOK
<1>3. SettingsHold /\ StrayBits /\ SetterInv /\ HealInv
  BY DEF SettingsHold, StrayBits, SetterInv, HealInv
<1> QED
  BY <1>2, <1>3 DEF IInv

LEMMA StartInv == ASSUME IInv, NEW p \in Programs, Start(p) PROVE IInv'
<1> USE DEF Start
<1>1. 1 \in DOMAIN p /\ Len(p) \in Nat
  BY ProgramFacts
<1>2. TypeOK'
  BY <1>1, Assumed DEF IInv, TypeOK
<1>3. SettingsHold' /\ SetterInv'
  BY DEF SettingsHold, SetterInv
<1>4. StrayBits'
  BY DEF IInv, StrayBits
<1>5. HealInv'
  <2>1. Returns' = 0
    BY DEF Returns
  <2> QED
    BY <2>1 DEF HealInv, ResetBy
<1> QED
  BY <1>2, <1>3, <1>4, <1>5 DEF IInv

LEMMA KillInv == IInv /\ Kill => IInv'
<1> SUFFICES ASSUME IInv, Kill PROVE IInv'
  OBVIOUS
<1> USE DEF Kill, IInv
<1>1. 1 \in DOMAIN prog
  BY ProgramFacts DEF TypeOK
<1>2. TypeOK'
  BY <1>1, Assumed DEF TypeOK
<1>3. SettingsHold' /\ StrayBits'
  BY DEF SettingsHold, StrayBits, Holds
<1>4. SetterInv' /\ HealInv'
  BY DEF SetterInv, HealInv
<1> QED
  BY <1>2, <1>3, <1>4

LEMMA PowerCycleInv == IInv /\ PowerCycle => IInv'
<1> SUFFICES ASSUME IInv, PowerCycle PROVE IInv'
  OBVIOUS
<1> USE DEF PowerCycle, IInv
<1>1. TypeOK'
  BY Assumed DEF TypeOK
<1>2. SettingsHold' /\ StrayBits'
  BY DEF SettingsHold, StrayBits
<1>3. SetterInv' /\ HealInv'
  BY DEF SetterInv, HealInv
<1> QED
  BY <1>1, <1>2, <1>3

-----------------------------------------------------------------------------
\* The setter that is being run.
LEMMA SetterFacts ==
  ASSUME TypeOK
  PROVE  /\ k \in 1..Len(prog) /\ Len(prog) \in Nat \ {0} /\ DOMAIN prog = 1..Len(prog)
         /\ Setter.kind \in {"modify", "assign", "reset"} /\ Setter.reg \in Registers
         /\ Setter.mask \subseteq Bits /\ Setter.bits \subseteq Setter.mask
         /\ Setter.kind = "assign" => Setter.mask = Bits
         /\ Setter.kind = "reset" => Setter.mask = {} /\ Setter.reg \notin Ranged
         /\ Setter.mask \subseteq Owned(Setter.reg)
         /\ \A j \in 1..(k - 1) :
              /\ j \in 1..Len(prog) /\ j # k
              /\ prog[j].reg = Setter.reg => /\ prog[j].mask \cap Setter.mask = {}
                                             /\ prog[j].reg \notin Ranged
              /\ Setter.kind = "reset" => Chip(prog[j].reg) # Chip(Setter.reg)
<1>1. prog \in Programs /\ k \in DOMAIN prog
  BY DEF TypeOK
<1>2. k \in 1..Len(prog) /\ Len(prog) \in Nat \ {0} /\ DOMAIN prog = 1..Len(prog)
  BY <1>1, ProgramFacts
<1>3. \A j \in 1..(k - 1) : j \in 1..Len(prog) /\ j < k /\ j # k
  BY <1>2
<1>4. /\ Setter.kind \in {"modify", "assign", "reset"} /\ Setter.reg \in Registers
      /\ Setter.mask \subseteq Bits /\ Setter.bits \subseteq Setter.mask
      /\ Setter.kind = "assign" => Setter.mask = Bits
      /\ Setter.kind = "reset" => Setter.mask = {} /\ Setter.reg \notin Ranged
      /\ Setter.mask \subseteq Owned(Setter.reg)
  BY <1>1, <1>2, ProgramFacts, Zenon DEF Setter
<1>5. ASSUME NEW j \in 1..(k - 1)
      PROVE  /\ prog[j].reg = Setter.reg => /\ prog[j].mask \cap Setter.mask = {}
                                            /\ prog[j].reg \notin Ranged
             /\ Setter.kind = "reset" => Chip(prog[j].reg) # Chip(Setter.reg)
  <2>1. j \in 1..Len(prog) /\ j < k
    BY <1>3
  <2>2. \A i, n \in 1..Len(prog) : i < n =>
          /\ prog[i].reg = prog[n].reg => /\ prog[i].mask \cap prog[n].mask = {}
                                          /\ prog[i].reg \notin Ranged
          /\ prog[n].kind = "reset" => Chip(prog[i].reg) # Chip(prog[n].reg)
    BY <1>1, ProgramFacts
  <2> QED
    BY <1>2, <2>1, <2>2, Zenon DEF Setter
<1> QED
  BY <1>2, <1>3, <1>4, <1>5, Zenon

LEMMA ScaleFacts ==
  ASSUME TypeOK, SetScale
  PROVE  /\ scale' \in [Ranged -> SUBSET Bits]
         /\ Setter.reg \in Ranged => scale'[Setter.reg] = Setter.bits
         /\ \A j \in 1..(k - 1) :
              prog[j].reg \in Ranged => scale'[prog[j].reg] = scale[prog[j].reg]
<1>1. scale \in [Ranged -> SUBSET Bits] /\ Setter.bits \in SUBSET Bits
  BY SetterFacts DEF TypeOK
<1>2. \A j \in 1..(k - 1) : prog[j].reg \in Ranged => prog[j].reg # Setter.reg
  BY SetterFacts
<1>3. CASE Setter.reg \in Ranged
  BY <1>1, <1>2, <1>3 DEF SetScale
<1>4. CASE Setter.reg \notin Ranged
  BY <1>1, <1>2, <1>4 DEF SetScale
<1> QED
  BY <1>3, <1>4

LEMMA ReturnFacts ==
  ASSUME TypeOK, Returned, prog' = prog, pc # "running"
  PROVE  /\ pc' \in {"setter", "running"} /\ k' \in DOMAIN prog
         /\ Returns = k - 1 /\ Returns' = k
         /\ pc' = "setter" => k' - 1 = k
<1>1. k \in 1..Len(prog) /\ Len(prog) \in Nat \ {0} /\ DOMAIN prog = 1..Len(prog)
  BY SetterFacts
<1>2. CASE k < Len(prog)
  <2>1. k' = k + 1 /\ pc' = "setter"
    BY <1>2 DEF Returned
  <2> QED
    BY <1>1, <1>2, <2>1 DEF Returns
<1>3. CASE ~(k < Len(prog))
  <2>1. k' = k /\ pc' = "running"
    BY <1>3, Zenon DEF Returned
  <2>2. \A n \in Nat : \A m \in 1..n : m < n \/ m = n
    OBVIOUS
  <2>3. k = Len(prog)
    BY <1>1, <1>3, <2>2, Zenon
  <2> QED
    BY <1>1, <2>1, <2>3 DEF Returns
<1> QED
  BY <1>2, <1>3

LEMMA TransferFacts ==
  ASSUME TypeOK, NEW ok \in BOOLEAN, Transfer(ok)
  PROVE  faults' \in 0..MaxFaults /\ clean' \in BOOLEAN /\ (clean' => clean /\ ok)
BY Assumed DEF TypeOK, Transfer

\* One more setter has returned.
LEMMA WantedStep ==
  ASSUME NEW p \in Programs, NEW n \in 1..Len(p), NEW r \in Registers
  PROVE  Wanted(p, n, r) = IF p[n].reg = r THEN (Wanted(p, n - 1, r) \ p[n].mask) \cup p[n].bits
                                           ELSE Wanted(p, n - 1, r)
<1>1. /\ Len(p) \in Nat
      /\ p[n].mask \subseteq Bits /\ p[n].bits \subseteq p[n].mask
      /\ \A j \in 1..(n - 1) : j \in 1..Len(p) /\ j < n
  BY ProgramFacts
<1>2. \A j \in 1..(n - 1) : p[j].reg = p[n].reg => p[j].mask \cap p[n].mask = {} /\ p[j].bits \subseteq p[j].mask
  BY <1>1, ProgramFacts
<1>3. \A j : j \in 1..n <=> j \in 1..(n - 1) \/ j = n
  BY <1>1
<1>4. CASE p[n].reg = r
  <2>1. ASSUME NEW b \in Bits
        PROVE  b \in Wanted(p, n, r) <=> b \in (Wanted(p, n - 1, r) \ p[n].mask) \cup p[n].bits
    BY <1>1, <1>2, <1>3, <1>4, Zenon DEF Wanted
  <2>2. Wanted(p, n, r) \subseteq Bits /\ Wanted(p, n - 1, r) \subseteq Bits
    BY DEF Wanted
  <2> QED
    BY <1>1, <1>4, <2>1, <2>2
<1>5. CASE p[n].reg # r
  BY <1>3, <1>5, Zenon DEF Wanted
<1> QED
  BY <1>4, <1>5

LEMMA ResetStep ==
  ASSUME NEW p \in Programs, NEW n \in 1..Len(p), NEW r \in Registers
  PROVE  ResetBy(p, n, r) <=> \/ ResetBy(p, n - 1, r)
                              \/ p[n].kind = "reset" /\ Chip(p[n].reg) = Chip(r)
<1>1. Len(p) \in Nat
  BY ProgramFacts
<1>2. \A j : j \in 1..n <=> j \in 1..(n - 1) \/ j = n
  BY <1>1
<1> QED
  BY <1>2, Zenon DEF ResetBy

\* A chip is reset before any other of its registers is set.
LEMMA ResetWanted ==
  ASSUME NEW p \in Programs, NEW n \in 1..Len(p), NEW r \in Registers,
         p[n].kind = "reset", Chip(p[n].reg) = Chip(r)
  PROVE  Wanted(p, n, r) = Default[r]
<1>1. /\ Len(p) \in Nat /\ p[n].mask = {} /\ p[n].bits = {}
      /\ \A j \in 1..(n - 1) : j \in 1..Len(p) /\ j < n
  BY ProgramFacts
<1>2. \A j \in 1..(n - 1) : p[j].reg # r
  BY <1>1, ProgramFacts
<1>3. \A j \in 1..n : p[j].reg = r => p[j].mask = {} /\ p[j].bits = {}
  <2>1. \A j \in 1..n : j \in 1..(n - 1) \/ j = n
    BY <1>1
  <2> QED
    BY <1>1, <1>2, <2>1, Zenon
<1>4. Default[r] \subseteq Bits
  BY Assumed
<1>5. \A b \in Bits : b \in Wanted(p, n, r) <=> b \in Default[r]
  BY <1>3, Zenon DEF Wanted
<1>6. Wanted(p, n, r) \subseteq Bits
  BY DEF Wanted
<1> QED
  BY <1>4, <1>5, <1>6

-----------------------------------------------------------------------------
LEMMA ReadBackInv == ASSUME IInv, NEW ok \in BOOLEAN, ReadBack(ok) PROVE IInv'
<1>1. /\ pc = "setter" /\ pc' = "write" /\ Setter.kind = "modify"
      /\ UNCHANGED <<prog, k, reg, sure, tainted>>
      /\ buf' = ReadByte(ok) /\ read' = ok
      /\ Transfer(ok) /\ SetScale
  BY DEF ReadBack
<1>2. TypeOK /\ SettingsHold /\ StrayBits /\ SetterInv /\ HealInv
  BY DEF IInv
<1>3. Setter' = Setter
  BY <1>1 DEF Setter
<1>4. TypeOK'
  <2>1. buf' \subseteq Bits
    BY <1>1, <1>2, SetterFacts, NumberType DEF TypeOK, ReadByte
  <2>2. scale' \in [Ranged -> SUBSET Bits]
    BY <1>1, <1>2, ScaleFacts
  <2>3. faults' \in 0..MaxFaults /\ clean' \in BOOLEAN
    BY <1>1, <1>2, TransferFacts
  <2> QED
    BY <1>1, <1>2, <1>3, <2>1, <2>2, <2>3 DEF TypeOK
<1>5. SettingsHold' /\ StrayBits'
  BY <1>1, <1>2 DEF SettingsHold, StrayBits, Holds
<1>6. SetterInv'
  <2>1. buf' = ReadByte(read)'
    BY <1>1, <1>3 DEF ReadByte
  <2>2. Setter.reg \in Ranged => scale'[Setter.reg] = Setter.bits
    BY <1>1, <1>2, ScaleFacts
  <2>3. sure' \subseteq 1..(k' - 1)
    BY <1>1, <1>2 DEF SetterInv
  <2> QED
    BY <1>1, <1>3, <2>1, <2>2, <2>3 DEF SetterInv
<1>7. HealInv'
  <2> SUFFICES ASSUME clean' PROVE HealInv'
    BY DEF HealInv
  <2>1. clean /\ ok
    BY <1>1, <1>2, TransferFacts
  <2>2. Returns = k - 1 /\ Returns' = k - 1
    BY <1>1 DEF Returns
  <2>3. \A j \in 1..(k - 1) : prog[j].reg \in Ranged => scale'[prog[j].reg] = scale[prog[j].reg]
    BY <1>1, <1>2, ScaleFacts
  <2> QED
    BY <1>1, <1>2, <2>1, <2>2, <2>3 DEF HealInv, ResetBy, Wanted
<1> QED
  BY <1>4, <1>5, <1>6, <1>7 DEF IInv

\* What a setter that returns owes to the next one.
LEMMA HealStep ==
  ASSUME IInv, pc \in {"setter", "write"}, Returned, prog' = prog,
         clean' => /\ clean
                   /\ sure \subseteq sure'
                   /\ Setter.kind # "reset" => k \in sure'
                   /\ Setter.reg \in Ranged => scale'[Setter.reg] = Setter.bits
                   /\ \A j \in 1..(k - 1) :
                        prog[j].reg \in Ranged => scale'[prog[j].reg] = scale[prog[j].reg]
                   /\ \A r \in Registers : ResetBy(prog, k, r) => reg'[r] = Wanted(prog, k, r)
  PROVE  HealInv'
<1> SUFFICES ASSUME clean' PROVE HealInv'
  BY DEF HealInv
<1>1. TypeOK /\ HealInv
  BY DEF IInv
<1>2. /\ pc' \in {"setter", "running"}
      /\ Returns = k - 1 /\ Returns' = k
  BY <1>1, ReturnFacts
<1>3. \A j \in 1..k : j \in 1..(k - 1) \/ j = k
  BY <1>1, SetterFacts
<1>4. \A j \in 1..k : prog[j].kind # "reset" => j \in sure'
  <2>1. \A j \in 1..(k - 1) : prog[j].kind # "reset" => j \in sure
    BY <1>1, <1>2 DEF HealInv
  <2> QED
    BY <1>3, <2>1 DEF Setter
<1>5. \A j \in 1..k : prog[j].reg \in Ranged => scale'[prog[j].reg] = prog[j].bits
  <2>1. \A j \in 1..(k - 1) : prog[j].reg \in Ranged => scale[prog[j].reg] = prog[j].bits
    BY <1>1, <1>2 DEF HealInv
  <2> QED
    BY <1>3, <2>1, Zenon DEF Setter
<1>6. (\A r \in Registers : ResetBy(prog, Returns, r) => reg[r] = Wanted(prog, Returns, r))'
  BY <1>2 DEF ResetBy, Wanted
<1>7. pc' # "write" /\ prog' = prog
  BY <1>2
<1> QED
  BY <1>2, <1>4, <1>5, <1>6, <1>7, Zenon DEF HealInv

\* A setter that keeps the other bits brings a register from what the setters
\* before it want to what they and it want.
LEMMA WantedKept ==
  ASSUME IInv, pc \in {"setter", "write"}, clean, Setter.kind # "reset",
         reg' = [reg EXCEPT ![Setter.reg] = (reg[Setter.reg] \ Setter.mask) \cup Setter.bits]
  PROVE  \A r \in Registers : ResetBy(prog, k, r) => reg'[r] = Wanted(prog, k, r)
<1> SUFFICES ASSUME NEW r \in Registers, ResetBy(prog, k, r) PROVE reg'[r] = Wanted(prog, k, r)
  OBVIOUS
<1>1. TypeOK /\ HealInv
  BY DEF IInv
<1>2. prog \in Programs /\ k \in 1..Len(prog) /\ Setter.reg \in Registers
  BY <1>1, SetterFacts DEF TypeOK
<1>3. ResetBy(prog, k - 1, r)
  BY <1>2, ResetStep DEF Setter
<1>4. Returns = k - 1
  BY DEF Returns
<1>5. reg[r] = Wanted(prog, k - 1, r)
  BY <1>1, <1>3, <1>4 DEF HealInv
<1>6. reg'[r] = IF r = Setter.reg THEN (reg[r] \ Setter.mask) \cup Setter.bits ELSE reg[r]
  BY <1>1 DEF TypeOK
<1>7. Wanted(prog, k, r) = IF Setter.reg = r THEN (Wanted(prog, k - 1, r) \ Setter.mask) \cup Setter.bits
                                             ELSE Wanted(prog, k - 1, r)
  BY <1>2, WantedStep DEF Setter
<1> QED
  BY <1>5, <1>6, <1>7, Zenon

\* A setter that keeps the other bits keeps the settings of the others.
LEMMA OthersKept ==
  ASSUME IInv, pc \in {"setter", "write"},
         reg' = [reg EXCEPT ![Setter.reg] = (reg[Setter.reg] \ Setter.mask) \cup Setter.bits]
  PROVE  /\ \A j \in sure : reg'[prog[j].reg] \cap prog[j].mask = prog[j].bits
         /\ reg'[Setter.reg] \cap Setter.mask = Setter.bits
<1>1. TypeOK /\ SettingsHold /\ sure \subseteq 1..(k - 1)
  BY DEF IInv, SetterInv
<1>2. /\ Setter.reg \in Registers /\ Setter.bits \subseteq Setter.mask
      /\ reg \in [Registers -> SUBSET Bits]
  BY <1>1, SetterFacts DEF TypeOK
<1>3. reg'[Setter.reg] = (reg[Setter.reg] \ Setter.mask) \cup Setter.bits
  BY <1>2
<1>4. ASSUME NEW j \in sure PROVE reg'[prog[j].reg] \cap prog[j].mask = prog[j].bits
  <2>1. reg[prog[j].reg] \cap prog[j].mask = prog[j].bits
    BY <1>1 DEF SettingsHold, Holds
  <2>2. CASE prog[j].reg = Setter.reg
    <3>1. prog[j].mask \cap Setter.mask = {}
      BY <1>1, <2>2, SetterFacts
    <3> QED
      BY <1>2, <1>3, <2>1, <2>2, <3>1
  <2>3. CASE prog[j].reg # Setter.reg
    <3>1. prog[j].reg \in Registers
      BY <1>1, ProgramFacts DEF TypeOK
    <3> QED
      BY <1>2, <2>1, <2>3, <3>1
  <2> QED
    BY <2>2, <2>3
<1> QED
  BY <1>2, <1>3, <1>4

LEMMA WriteBackInv == ASSUME IInv, NEW ok \in BOOLEAN, WriteBack(ok) PROVE IInv'
<1>1. /\ pc = "write" /\ Setter.kind = "modify"
      /\ Transfer(ok) /\ Returned
      /\ UNCHANGED <<prog, buf, scale, read>>
  BY DEF WriteBack, IInv, TypeOK
<1>2. TypeOK /\ SettingsHold /\ StrayBits /\ SetterInv /\ HealInv
  BY DEF IInv
<1>3. /\ k \in 1..Len(prog) /\ DOMAIN prog = 1..Len(prog)
      /\ Setter.reg \in Registers /\ Setter.mask \subseteq Bits
      /\ Setter.bits \subseteq Setter.mask /\ Setter.mask \subseteq Owned(Setter.reg)
      /\ reg \in [Registers -> SUBSET Bits]
  BY <1>2, SetterFacts DEF TypeOK
<1>4. /\ pc' \in {"setter", "running"} /\ k' \in DOMAIN prog
      /\ pc' = "setter" => k' - 1 = k
  BY <1>1, <1>2, ReturnFacts
<1>5. buf = ReadByte(read) /\ sure \subseteq 1..(k - 1)
  BY <1>1, <1>2 DEF SetterInv
<1>6. ok => /\ reg' = [reg EXCEPT ![Setter.reg] = Modified]
            /\ sure' = (IF read THEN sure ELSE sure \ SameRegister(k)) \cup {k}
            /\ tainted' = IF read THEN tainted ELSE tainted \cup {Setter.reg}
  BY DEF WriteBack
<1>7. ~ok => UNCHANGED <<reg, sure, tainted>>
  BY DEF WriteBack
<1>8. Modified \subseteq Bits
  BY <1>2, <1>3 DEF Modified, TypeOK
<1>9. TypeOK'
  <2>1. faults' \in 0..MaxFaults /\ clean' \in BOOLEAN
    BY <1>1, <1>2, TransferFacts
  <2>2. sure \subseteq DOMAIN prog /\ tainted \subseteq Registers
    BY <1>2 DEF TypeOK
  <2>3. /\ reg' \in [Registers -> SUBSET Bits]
        /\ sure' \subseteq DOMAIN prog /\ tainted' \subseteq Registers
    BY <1>3, <1>6, <1>7, <1>8, <2>2
  <2> QED
    BY <1>1, <1>2, <1>4, <2>1, <2>3 DEF TypeOK
<1>10. ok /\ read => reg' = [reg EXCEPT ![Setter.reg] = (reg[Setter.reg] \ Setter.mask) \cup Setter.bits]
  BY <1>5, <1>6 DEF Modified, ReadByte
<1>11. SettingsHold'
  <2> SUFFICES ASSUME NEW j \in sure' PROVE reg'[prog[j].reg] \cap prog[j].mask = prog[j].bits
    BY <1>1 DEF SettingsHold, Holds
  <2>1. CASE ~ok
    BY <1>2, <1>7, <2>1 DEF SettingsHold, Holds
  <2>2. CASE ok /\ read
    <3>1. j \in sure \/ j = k
      BY <1>6, <2>2
    <3> QED
      BY <1>1, <1>10, <2>2, <3>1, OthersKept DEF Setter
  <2>3. CASE ok /\ ~read
    <3>1. CASE j = k
      <4>1. reg'[Setter.reg] = (buf \ Setter.mask) \cup Setter.bits
        BY <1>3, <1>6, <2>3 DEF Modified
      <4> QED
        BY <1>3, <3>1, <4>1 DEF Setter
    <3>2. CASE j # k
      <4>1. j \in sure /\ j \notin SameRegister(k)
        BY <1>6, <2>3, <3>2
      <4>2. prog[j].reg \in Registers /\ j \in DOMAIN prog
        BY <1>2, <4>1, ProgramFacts DEF TypeOK
      <4>3. prog[j].reg # Setter.reg
        BY <4>1, <4>2 DEF SameRegister, Setter
      <4> QED
        BY <1>2, <1>3, <1>6, <2>3, <4>1, <4>2, <4>3 DEF SettingsHold, Holds
    <3> QED
      BY <3>1, <3>2
  <2> QED
    BY <2>1, <2>2, <2>3
<1>12. StrayBits'
  <2> SUFFICES ASSUME NEW r \in Registers
               PROVE  reg'[r] \ Owned(r) = (IF r \in tainted' THEN Number(r) ELSE Default[r]) \ Owned(r)
    BY DEF StrayBits
  <2>1. reg[r] \ Owned(r) = (IF r \in tainted THEN Number(r) ELSE Default[r]) \ Owned(r)
    BY <1>2 DEF StrayBits
  <2>2. CASE ~ok
    BY <1>7, <2>1, <2>2
  <2>3. CASE ok /\ r = Setter.reg
    <3>1. reg'[r] \ Owned(r) = buf \ Owned(r)
      BY <1>3, <1>6, <2>3 DEF Modified
    <3>2. CASE read
      <4>1. buf = reg[r] /\ tainted' = tainted
        BY <1>5, <1>6, <2>3, <3>2 DEF ReadByte
      <4> QED
        BY <2>1, <3>1, <4>1
    <3>3. CASE ~read
      <4>1. buf = Number(r) /\ r \in tainted'
        BY <1>5, <1>6, <2>3, <3>3 DEF ReadByte
      <4> QED
        BY <3>1, <4>1
    <3> QED
      BY <3>2, <3>3
  <2>4. CASE ok /\ r # Setter.reg
    <3>1. reg'[r] = reg[r] /\ (r \in tainted' <=> r \in tainted)
      BY <1>3, <1>6, <2>4
    <3> QED
      BY <2>1, <3>1
  <2> QED
    BY <2>2, <2>3, <2>4
<1>13. SetterInv'
  <2>1. sure' \subseteq sure \cup {k}
    BY <1>6, <1>7
  <2>2. 1..(k - 1) \subseteq 1..k /\ k \in 1..k
    BY <1>3
  <2> QED
    BY <1>4, <1>5, <2>1, <2>2 DEF SetterInv
<1>14. HealInv'
  <2>1. ASSUME clean' PROVE clean /\ ok /\ read
    BY <1>1, <1>2, <2>1, TransferFacts DEF HealInv
  <2>2. Setter.reg \in Ranged => scale[Setter.reg] = Setter.bits
    BY <1>1, <1>2 DEF SetterInv
  <2>3. ASSUME clean' PROVE sure \subseteq sure' /\ k \in sure'
    BY <1>6, <2>1, <2>3
  <2>4. ASSUME clean' PROVE \A r \in Registers : ResetBy(prog, k, r) => reg'[r] = Wanted(prog, k, r)
    <3>1. clean /\ ok /\ read
      BY <2>1, <2>4
    <3> QED
      BY <1>1, <1>10, <3>1, WantedKept
  <2>5. scale' = scale /\ prog' = prog
    BY <1>1
  <2> QED
    BY <1>1, <2>1, <2>2, <2>3, <2>4, <2>5, HealStep
<1> QED
  BY <1>9, <1>11, <1>12, <1>13, <1>14 DEF IInv

LEMMA WriteAllInv == ASSUME IInv, NEW ok \in BOOLEAN, WriteAll(ok) PROVE IInv'
<1>1. /\ pc = "setter" /\ Setter.kind = "assign"
      /\ Transfer(ok) /\ Returned /\ SetScale
      /\ UNCHANGED <<prog, buf, read>>
  BY DEF WriteAll
<1>2. TypeOK /\ SettingsHold /\ StrayBits /\ SetterInv /\ HealInv
  BY DEF IInv
<1>3. /\ k \in 1..Len(prog) /\ DOMAIN prog = 1..Len(prog)
      /\ Setter.reg \in Registers /\ Setter.mask = Bits
      /\ Setter.bits \subseteq Bits /\ Bits \subseteq Owned(Setter.reg)
      /\ reg \in [Registers -> SUBSET Bits] /\ tainted \subseteq Registers
      /\ sure \subseteq DOMAIN prog
  BY <1>1, <1>2, SetterFacts DEF TypeOK
<1>4. /\ pc' \in {"setter", "running"} /\ k' \in DOMAIN prog
      /\ pc' = "setter" => k' - 1 = k
  BY <1>1, <1>2, ReturnFacts
<1>5. sure \subseteq 1..(k - 1)
  BY <1>1, <1>2 DEF SetterInv
<1>6. ok => /\ reg' = [reg EXCEPT ![Setter.reg] = Setter.bits]
            /\ sure' = sure \cup {k}
            /\ tainted' = tainted \ {Setter.reg}
  BY DEF WriteAll
<1>7. ~ok => UNCHANGED <<reg, sure, tainted>>
  BY DEF WriteAll
<1>8. ok => reg' = [reg EXCEPT ![Setter.reg] = (reg[Setter.reg] \ Setter.mask) \cup Setter.bits]
  <2>1. (reg[Setter.reg] \ Setter.mask) \cup Setter.bits = Setter.bits
    BY <1>3
  <2> QED
    BY <1>6, <2>1
<1>9. TypeOK'
  <2>1. faults' \in 0..MaxFaults /\ clean' \in BOOLEAN
    BY <1>1, <1>2, TransferFacts
  <2>2. scale' \in [Ranged -> SUBSET Bits]
    BY <1>1, <1>2, ScaleFacts
  <2>3. /\ reg' \in [Registers -> SUBSET Bits]
        /\ sure' \subseteq DOMAIN prog /\ tainted' \subseteq Registers
    BY <1>3, <1>6, <1>7
  <2> QED
    BY <1>1, <1>2, <1>4, <2>1, <2>2, <2>3 DEF TypeOK
<1>10. SettingsHold'
  <2> SUFFICES ASSUME NEW j \in sure' PROVE reg'[prog[j].reg] \cap prog[j].mask = prog[j].bits
    BY <1>1 DEF SettingsHold, Holds
  <2>1. CASE ~ok
    BY <1>2, <1>7, <2>1 DEF SettingsHold, Holds
  <2>2. CASE ok
    <3>1. j \in sure \/ j = k
      BY <1>6, <2>2
    <3> QED
      BY <1>1, <1>8, <2>2, <3>1, OthersKept DEF Setter
  <2> QED
    BY <2>1, <2>2
<1>11. StrayBits'
  <2> SUFFICES ASSUME NEW r \in Registers
               PROVE  reg'[r] \ Owned(r) = (IF r \in tainted' THEN Number(r) ELSE Default[r]) \ Owned(r)
    BY DEF StrayBits
  <2>1. reg[r] \ Owned(r) = (IF r \in tainted THEN Number(r) ELSE Default[r]) \ Owned(r)
    BY <1>2 DEF StrayBits
  <2>2. CASE ok /\ r = Setter.reg
    <3>1. reg'[r] \subseteq Bits /\ Default[r] \subseteq Bits /\ Bits \subseteq Owned(r)
      BY <1>3, <1>6, <2>2, Assumed
    <3>2. r \notin tainted'
      BY <1>6, <2>2
    <3> QED
      BY <3>1, <3>2
  <2>3. CASE ~(ok /\ r = Setter.reg)
    <3>1. reg'[r] = reg[r] /\ (r \in tainted' <=> r \in tainted)
      BY <1>3, <1>6, <1>7, <2>3
    <3> QED
      BY <2>1, <3>1
  <2> QED
    BY <2>2, <2>3
<1>12. SetterInv'
  <2>1. sure' \subseteq sure \cup {k}
    BY <1>6, <1>7
  <2>2. 1..(k - 1) \subseteq 1..k /\ k \in 1..k
    BY <1>3
  <2> QED
    BY <1>4, <1>5, <2>1, <2>2 DEF SetterInv
<1>13. HealInv'
  <2>1. clean' => clean /\ ok
    BY <1>1, <1>2, TransferFacts
  <2>2. clean' => sure \subseteq sure' /\ k \in sure'
    BY <1>6, <2>1
  <2>3. ASSUME clean' PROVE \A r \in Registers : ResetBy(prog, k, r) => reg'[r] = Wanted(prog, k, r)
    BY <1>1, <1>8, <2>1, <2>3, WantedKept
  <2>4. /\ Setter.reg \in Ranged => scale'[Setter.reg] = Setter.bits
        /\ \A j \in 1..(k - 1) : prog[j].reg \in Ranged => scale'[prog[j].reg] = scale[prog[j].reg]
    BY <1>1, <1>2, ScaleFacts
  <2> QED
    BY <1>1, <2>1, <2>2, <2>3, <2>4, HealStep
<1> QED
  BY <1>9, <1>10, <1>11, <1>12, <1>13 DEF IInv

LEMMA SoftResetInv == ASSUME IInv, NEW ok \in BOOLEAN, SoftReset(ok) PROVE IInv'
<1> DEFINE cleared == SameChip(Setter.reg)
<1>1. /\ pc = "setter" /\ Setter.kind = "reset"
      /\ Transfer(ok) /\ Returned
      /\ UNCHANGED <<prog, buf, scale, read, sure>>
  BY DEF SoftReset
<1>2. TypeOK /\ SettingsHold /\ StrayBits /\ SetterInv /\ HealInv
  BY DEF IInv
<1>3. /\ k \in 1..Len(prog) /\ Setter.reg \notin Ranged
      /\ \A j \in 1..(k - 1) : Chip(prog[j].reg) # Chip(Setter.reg)
      /\ reg \in [Registers -> SUBSET Bits] /\ tainted \subseteq Registers
  BY <1>1, <1>2, SetterFacts DEF TypeOK
<1>4. /\ pc' \in {"setter", "running"} /\ k' \in DOMAIN prog
      /\ pc' = "setter" => k' - 1 = k
      /\ Returns = k - 1
  BY <1>1, <1>2, ReturnFacts
<1>5. sure \subseteq 1..(k - 1)
  BY <1>1, <1>2 DEF SetterInv
<1>6. /\ ok => /\ reg' = [r \in Registers |-> IF r \in cleared THEN Default[r] ELSE reg[r]]
               /\ tainted' = tainted \ cleared
      /\ ~ok => UNCHANGED <<reg, tainted>>
  BY DEF SoftReset
<1>7. \A r \in Registers : r \in cleared <=> Chip(r) = Chip(Setter.reg)
  BY DEF SameChip
<1> HIDE DEF cleared
<1>8. TypeOK'
  <2>1. faults' \in 0..MaxFaults /\ clean' \in BOOLEAN
    BY <1>1, <1>2, TransferFacts
  <2>2. reg' \in [Registers -> SUBSET Bits] /\ tainted' \subseteq Registers
    BY <1>3, <1>6, Assumed
  <2> QED
    BY <1>1, <1>2, <1>4, <2>1, <2>2 DEF TypeOK
<1>9. SettingsHold'
  <2> SUFFICES ASSUME NEW j \in sure PROVE reg'[prog[j].reg] \cap prog[j].mask = prog[j].bits
    BY <1>1 DEF SettingsHold, Holds
  <2>1. reg[prog[j].reg] \cap prog[j].mask = prog[j].bits
    BY <1>2 DEF SettingsHold, Holds
  <2>2. prog[j].reg \in Registers
    BY <1>2, ProgramFacts DEF TypeOK
  <2>3. prog[j].reg \notin cleared
    BY <1>3, <1>5, <1>7, <2>2
  <2> QED
    BY <1>6, <2>1, <2>2, <2>3
<1>10. StrayBits'
  <2> SUFFICES ASSUME NEW r \in Registers
               PROVE  reg'[r] \ Owned(r) = (IF r \in tainted' THEN Number(r) ELSE Default[r]) \ Owned(r)
    BY DEF StrayBits
  <2>1. reg[r] \ Owned(r) = (IF r \in tainted THEN Number(r) ELSE Default[r]) \ Owned(r)
    BY <1>2 DEF StrayBits
  <2>2. CASE ok /\ r \in cleared
    BY <1>6, <2>2
  <2>3. CASE ~(ok /\ r \in cleared)
    <3>1. reg'[r] = reg[r] /\ (r \in tainted' <=> r \in tainted)
      BY <1>6, <2>3
    <3> QED
      BY <2>1, <3>1
  <2> QED
    BY <2>2, <2>3
<1>11. SetterInv'
  <2>1. 1..(k - 1) \subseteq 1..k
    BY <1>3
  <2> QED
    BY <1>1, <1>4, <1>5, <2>1 DEF SetterInv
<1>12. HealInv'
  <2>1. clean' => clean /\ ok
    BY <1>1, <1>2, TransferFacts
  <2>2. prog \in Programs
    BY <1>2 DEF TypeOK
  <2>3. ASSUME clean', NEW r \in Registers, ResetBy(prog, k, r)
        PROVE  reg'[r] = Wanted(prog, k, r)
    <3>1. CASE r \in cleared
      <4>1. Chip(prog[k].reg) = Chip(r) /\ prog[k].kind = "reset"
        BY <1>1, <1>7, <3>1 DEF Setter
      <4>2. Wanted(prog, k, r) = Default[r]
        BY <1>3, <2>2, <4>1, ResetWanted
      <4> QED
        BY <1>6, <2>1, <2>3, <3>1, <4>2
    <3>2. CASE r \notin cleared
      <4>1. ResetBy(prog, k - 1, r)
        BY <1>3, <1>7, <2>2, <2>3, <3>2, ResetStep DEF Setter
      <4>2. reg[r] = Wanted(prog, k - 1, r)
        BY <1>1, <1>2, <1>4, <2>1, <2>3, <4>1 DEF HealInv
      <4>3. prog[k].bits = {} /\ prog[k].mask = {}
        BY <1>1, <1>2, SetterFacts DEF Setter
      <4>4. Wanted(prog, k - 1, r) = Wanted(prog, k, r)
        <5>1. Wanted(prog, k, r) = IF prog[k].reg = r
                                     THEN (Wanted(prog, k - 1, r) \ prog[k].mask) \cup prog[k].bits
                                     ELSE Wanted(prog, k - 1, r)
          BY <1>3, <2>2, WantedStep
        <5>2. (Wanted(prog, k - 1, r) \ prog[k].mask) \cup prog[k].bits = Wanted(prog, k - 1, r)
          BY <4>3
        <5> QED
          BY <5>1, <5>2
      <4> QED
        BY <1>6, <2>1, <2>3, <3>2, <4>2, <4>4
    <3> QED
      BY <3>1, <3>2
  <2> QED
    BY <1>1, <1>3, <2>1, <2>3, HealStep
<1> QED
  BY <1>8, <1>9, <1>10, <1>11, <1>12 DEF IInv

LEMMA NextInv == IInv /\ [Next]_vars => IInv'
<1> SUFFICES ASSUME IInv, [Next]_vars PROVE IInv'
  OBVIOUS
<1>1. ASSUME NEW p \in Programs, Start(p) PROVE IInv'
  BY <1>1, StartInv
<1>2. ASSUME NEW ok \in BOOLEAN, ReadBack(ok) \/ WriteBack(ok) \/ WriteAll(ok) \/ SoftReset(ok)
      PROVE  IInv'
  BY <1>2, ReadBackInv, WriteBackInv, WriteAllInv, SoftResetInv
<1>3. CASE Kill \/ PowerCycle
  BY <1>3, KillInv, PowerCycleInv
<1>4. CASE UNCHANGED vars
  BY <1>4 DEF vars, IInv, TypeOK, SettingsHold, Holds, StrayBits, SetterInv, HealInv,
              Returns, ResetBy, Wanted, ReadByte, Setter
<1> QED
  BY <1>1, <1>2, <1>3, <1>4, Zenon DEF Next

-----------------------------------------------------------------------------
LEMMA Inductive == Spec => []IInv
<1>1. Init => IInv
  BY InitInv
<1>2. IInv /\ [Next]_vars => IInv'
  BY NextInv
<1> QED
  BY <1>1, <1>2, PTL DEF Spec

\* Every variable keeps its type, and only a setter that keeps bits writes back.
THEOREM TypeCorrect == Spec => []TypeOK
<1>1. IInv => TypeOK
  BY DEF IInv
<1> QED
  BY <1>1, Inductive, PTL

\* No setter undoes what another one has set, except one whose read failed.
THEOREM SettingsHoldCorrect == Spec => []SettingsHold
<1>1. IInv => SettingsHold
  BY DEF IInv
<1> QED
  BY <1>1, Inductive, PTL

\* The bits nobody sets are the chip's, or those a failed read has left.
THEOREM StrayBitsCorrect == Spec => []StrayBits
<1>1. IInv => StrayBits
  BY DEF IInv
<1> QED
  BY <1>1, Inductive, PTL

LEMMA StartDone ==
  ASSUME IInv, pc = "running", clean
  PROVE  /\ \A j \in DOMAIN prog : prog[j].kind # "reset" => Holds(j)
         /\ \A j \in DOMAIN prog : prog[j].reg \in Ranged => scale[prog[j].reg] = prog[j].bits
         /\ \A r \in Registers : ResetBy(prog, Len(prog), r) => reg[r] = Wanted(prog, Len(prog), r)
         /\ \A j \in DOMAIN prog : prog[j].reg \in Ranged => prog[j].kind # "reset"
<1>1. TypeOK /\ SettingsHold /\ HealInv
  BY DEF IInv
<1>2. Returns = Len(prog) /\ DOMAIN prog = 1..Len(prog) /\ prog \in Programs
  BY <1>1, SetterFacts DEF Returns, TypeOK
<1>3. \A j \in DOMAIN prog : prog[j].reg \in Ranged => prog[j].kind # "reset"
  BY <1>2, ProgramFacts
<1> QED
  BY <1>1, <1>2, <1>3 DEF HealInv, SettingsHold

\* A start without a failure sets the ranges its readings are scaled with.
THEOREM ScaleAgreesCorrect == Spec => []ScaleAgrees
<1>1. IInv => ScaleAgrees
  BY StartDone DEF ScaleAgrees, Holds
<1> QED
  BY <1>1, Inductive, PTL

\* A start without a failure makes up for the starts before it.
THEOREM RestartHealsCorrect == Spec => []RestartHeals
<1>1. IInv => RestartHeals
  BY StartDone DEF RestartHeals
<1> QED
  BY <1>1, Inductive, PTL
=============================================================================

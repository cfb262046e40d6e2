---------------------------- MODULE PicPortsProofs ----------------------------
(***************************************************************************)
(* Proofs about the driver of the interrupt controllers, byte by byte, for *)
(* every set of devices, every mask the BIOS may leave and every line that *)
(* the operations of the driver may be called with.                        *)
(***************************************************************************)
EXTENDS PicPorts, SequenceTheorems, TLAPS

USE DevicesAssumption

-----------------------------------------------------------------------------
(* Bytes and bits.                                                         *)
LEMMA Weights ==
  /\ Weight(0) = 1 /\ Weight(1) = 2 /\ Weight(2) = 4 /\ Weight(3) = 8
  /\ Weight(4) = 16 /\ Weight(5) = 32 /\ Weight(6) = 64 /\ Weight(7) = 128
BY DEF Weight

LEMMA ByteOfBits ==
  ASSUME NEW b0 \in {0, 1}, NEW b1 \in {0, 2}, NEW b2 \in {0, 4}, NEW b3 \in {0, 8},
         NEW b4 \in {0, 16}, NEW b5 \in {0, 32}, NEW b6 \in {0, 64}, NEW b7 \in {0, 128},
         NEW v, v = b0 + b1 + b2 + b3 + b4 + b5 + b6 + b7
  PROVE  /\ v \in 0..255
         /\ Bit(v, 0) <=> b0 = 1
         /\ Bit(v, 1) <=> b1 = 2
         /\ Bit(v, 2) <=> b2 = 4
         /\ Bit(v, 3) <=> b3 = 8
         /\ Bit(v, 4) <=> b4 = 16
         /\ Bit(v, 5) <=> b5 = 32
         /\ Bit(v, 6) <=> b6 = 64
         /\ Bit(v, 7) <=> b7 = 128
BY Weights DEF Bit

LEMMA SettingABit ==
  ASSUME NEW v \in 0..255, NEW i \in 0..7
  PROVE  With(v, i) \in 0..255 /\ Without(v, i) \in 0..255
BY Weights DEF With, Without, Bit

(* Reading a mask and writing it back leaves the mask.                     *)
LEMMA MaskAsByte ==
  ASSUME NEW chip \in Chips
  PROVE  /\ MaskByte(chip) \in 0..255
         /\ LinesIn(chip, MaskByte(chip)) = imr \cap LinesOf(chip)
<1> DEFINE bit(k) == IF First(chip) + k \in imr THEN Weight(k) ELSE 0
<1> DEFINE v == MaskByte(chip)
<1>1. v = bit(0) + bit(1) + bit(2) + bit(3) + bit(4) + bit(5) + bit(6) + bit(7)
  BY DEF MaskByte
<1>2. /\ bit(0) \in {0, 1} /\ bit(1) \in {0, 2} /\ bit(2) \in {0, 4} /\ bit(3) \in {0, 8}
      /\ bit(4) \in {0, 16} /\ bit(5) \in {0, 32} /\ bit(6) \in {0, 64} /\ bit(7) \in {0, 128}
  BY Weights
<1>3. v \in 0..255 /\ \A k \in 0..7 : Bit(v, k) <=> bit(k) = Weight(k)
  <2> HIDE DEF bit, v
  <2>1. /\ v \in 0..255
        /\ Bit(v, 0) <=> bit(0) = 1
        /\ Bit(v, 1) <=> bit(1) = 2
        /\ Bit(v, 2) <=> bit(2) = 4
        /\ Bit(v, 3) <=> bit(3) = 8
        /\ Bit(v, 4) <=> bit(4) = 16
        /\ Bit(v, 5) <=> bit(5) = 32
        /\ Bit(v, 6) <=> bit(6) = 64
        /\ Bit(v, 7) <=> bit(7) = 128
    BY <1>1, <1>2, ByteOfBits
  <2> QED BY <2>1, Weights
<1>4. \A k \in 0..7 : bit(k) = Weight(k) <=> First(chip) + k \in imr
  BY Weights
<1>5. ASSUME NEW i \in LinesOf(chip)
      PROVE  i - First(chip) \in 0..7 /\ First(chip) + (i - First(chip)) = i
  BY <1>5 DEF LinesOf, First, Master, Slave, Chips
<1>6. LinesIn(chip, v) = imr \cap LinesOf(chip)
  <2> HIDE DEF bit, v
  <2> QED BY <1>3, <1>4, <1>5 DEF LinesIn
<1> QED BY <1>3, <1>6

LEMMA ChipConstants ==
  /\ Chips = {"master", "slave"}
  /\ CommandPort["master"] = 32 /\ CommandPort["slave"] = 160
  /\ DataPort["master"] = 33 /\ DataPort["slave"] = 161
  /\ LinesOf("master") = Master /\ LinesOf("slave") = Slave
BY DEF Chips, CommandPort, DataPort, PIC_MASTER_COMMAND, PIC_MASTER_DATA,
       PIC_SLAVE_COMMAND, PIC_SLAVE_DATA, LinesOf

(* The accesses of the driver, as sequences.                               *)
LEMMA OneAccess ==
  ASSUME NEW a \in Accesses
  PROVE  /\ <<a>> \in Seq(Accesses) /\ Len(<<a>>) = 1 /\ <<a>> # <<>>
         /\ Head(<<a>>) = a /\ Tail(<<a>>) = <<>>
OBVIOUS

LEMMA OutIsAccess ==
  ASSUME NEW port \in 0..255, NEW value \in 0..255
  PROVE  Out(port, value) \in Accesses
BY DEF Out, Accesses

LEMMA OperationAccesses ==
  ASSUME NEW i \in 0..15
  PROVE  /\ Enable_8259_PIC(i) \in Seq(Accesses)
         /\ Disable_8259_PIC(i) \in Seq(Accesses)
         /\ Acknowledge_8259_PIC(i) \in Seq(Accesses)
         /\ Eois(i) \in Seq(Accesses)
<1> DEFINE m == MaskByte("master")
<1> DEFINE s == MaskByte("slave")
<1>1. m \in 0..255 /\ s \in 0..255
  BY MaskAsByte DEF Chips
<1>2. ASSUME NEW a \in 0..255, NEW b \in 0..255
      PROVE  << Out(a, b) >> \in Seq(Accesses)
  BY OutIsAccess, OneAccess
<1> HIDE DEF m, s
<1>3. Enable_8259_PIC(i) \in Seq(Accesses)
  <2>1. CASE i < 8
    <3>1. i \in 0..7
      BY <2>1
    <3>2. Without(m, i) \in 0..255
      BY <1>1, <3>1, SettingABit
    <3> QED BY <1>2, <2>1, <3>2 DEF Enable_8259_PIC, PIC_MASTER_DATA, m
  <2>2. CASE ~(i < 8)
    <3>1. i - 8 \in 0..7
      BY <2>2
    <3>2. Without(s, i - 8) \in 0..255
      BY <1>1, <3>1, SettingABit
    <3> QED BY <1>2, <2>2, <3>2 DEF Enable_8259_PIC, PIC_SLAVE_DATA, s
  <2> QED BY <2>1, <2>2
<1>4. Disable_8259_PIC(i) \in Seq(Accesses)
  <2>1. CASE i < 8
    <3>1. i \in 0..7
      BY <2>1
    <3>2. With(m, i) \in 0..255
      BY <1>1, <3>1, SettingABit
    <3> QED BY <1>2, <2>1, <3>2 DEF Disable_8259_PIC, PIC_MASTER_DATA, m
  <2>2. CASE ~(i < 8)
    <3>1. i - 8 \in 0..7
      BY <2>2
    <3>2. With(s, i - 8) \in 0..255
      BY <1>1, <3>1, SettingABit
    <3> QED BY <1>2, <2>2, <3>2 DEF Disable_8259_PIC, PIC_SLAVE_DATA, s
  <2> QED BY <2>1, <2>2
<1>5. Acknowledge_8259_PIC(i) \in Seq(Accesses)
  <2>1. CASE i >= 8
    <3>1. /\ Out(96 + (i - 8), PIC_SLAVE_COMMAND) \in Accesses
          /\ Out(96 + 2, PIC_MASTER_COMMAND) \in Accesses
      BY <2>1 DEF Out, Accesses, PIC_SLAVE_COMMAND, PIC_MASTER_COMMAND
    <3> QED BY <2>1, <3>1 DEF Acknowledge_8259_PIC
  <2>2. CASE ~(i >= 8)
    <3>1. Out(96 + i, PIC_MASTER_COMMAND) \in Accesses
      BY <2>2 DEF Out, Accesses, PIC_MASTER_COMMAND
    <3> QED BY <2>2, <3>1 DEF Acknowledge_8259_PIC
  <2> QED BY <2>1, <2>2
<1>6. EoiSlave \in Seq(Accesses) /\ EoiMaster \in Seq(Accesses)
  BY <1>2 DEF EoiSlave, EoiMaster, PIC_SLAVE_COMMAND, PIC_MASTER_COMMAND
<1>7. Eois(i) \in Seq(Accesses)
  BY <1>6, ConcatProperties DEF Eois
<1> QED BY <1>3, <1>4, <1>5, <1>7

-----------------------------------------------------------------------------
(* The initialization.  Of its ten bytes the first done ones have arrived; *)
(* m and s are the masks it has read.                                      *)
Words(m, s) ==
  << Out(32, 17), Out(160, 17), Out(33, 32), Out(161, 40), Out(33, 4), Out(161, 2),
     Out(33, 1), Out(161, 1), Out(33, m), Out(161, s) >>

Ready == [c \in Chips |-> "ready"]

StagesAfter(done) ==
  [c \in Chips |->
     LET first == IF c = "master" THEN 1 ELSE 2
     IN  IF done < first \/ done >= first + 6 THEN "ready"
         ELSE IF done < first + 2 THEN "icw2"
         ELSE IF done < first + 4 THEN "icw3"
         ELSE "icw4"]

BasesAfter(done) == [master |-> IF done >= 3 THEN 32 ELSE 8,
                     slave  |-> IF done >= 4 THEN 40 ELSE 112]

MasksAfter(done) ==
  {i \in bios : IF i \in Master THEN done = 0 \/ done >= 9 ELSE done <= 1 \/ done = 10}

Sent(m, s, done) ==
  /\ LinesIn("master", m) = bios \cap Master
  /\ LinesIn("slave", s) = bios \cap Slave
  /\ Len(code.main) = 10 - done
  /\ \A k \in 1..(10 - done) : code.main[k] = Words(m, s)[done + k]
  /\ stage = StagesAfter(done)
  /\ base = BasesAfter(done)
  /\ imr = MasksAfter(done)
  /\ isr = {}

Initializing == \E m, s \in 0..255, done \in 0..9 : Sent(m, s, done)

(* The other operations send a command port only commands that select a    *)
(* register or end an interrupt, and a data port only masks with line 8:   *)
(* where the mask is the port, the number 161 never gets to a command port.*)
Harmless(a) ==
  a.kind = "out" =>
    /\ a.port \in {32, 160} => a.value \in {10, 11, 33}
    /\ a.port \in {33, 161} => a.value \in {33, 161}

MainInv ==
  /\ 9 \in bios
  /\ wiring = [master |-> 4, slave |-> 2] /\ mode = [c \in Chips |-> 1]
  /\ iflag \/ irq # NoLine => Initialized /\ op.name # "Initialize"
  /\ op.name = "Initialize" => Initializing
  /\ op.name # "Initialize" =>
       /\ stage = Ready
       /\ \A k \in 1..Len(code.main) : Harmless(code.main[k])
  /\ op.name # "Initialize" /\ ~Initialized => imr = bios /\ op = Idle /\ code.main = <<>>
  /\ op.name # "Initialize" /\ Initialized => 8 \in imr \/ 9 \in imr

(* The handler: what is in service, and what is left to do about it.       *)
Checking ==
  /\ ChecksIsr(irq)
  /\ isr = IF irq = 7 THEN isr \cap {7} ELSE {2} \cup (isr \cap {15})
  /\ Len(code.handler) \in 1..4
  /\ \A k \in 1..Len(code.handler) :
       code.handler[k] = ReadIsrAccesses[4 - Len(code.handler) + k]
  /\ Len(code.handler) <= 3 => shown["master"] = "isr"
  /\ Len(code.handler) <= 2 => shown["slave"] = "isr"
  /\ seen = IF Len(code.handler) = 1 THEN isr \cap Master ELSE {}

Ending ==
  \/ /\ irq \in Slave /\ isr = {Cascade, irq}
     /\ code.handler = EoiSlave \o EoiMaster
  \/ /\ isr = {Cascade} \/ (irq \in Master /\ isr = {irq})
     /\ code.handler = EoiMaster
  \/ /\ isr = {}
     /\ code.handler = <<>>

HandlerInv ==
  /\ irq = NoLine => isr = {}
  /\ irq # NoLine => iflag = FALSE /\ (Checking \/ Ending)

PortsInv == TypeOK /\ MainInv /\ HandlerInv

-----------------------------------------------------------------------------
(* What a write to a port does.                                            *)
LEMMA PortWritten ==
  ASSUME NEW port, NEW value, WritePort(port, value)
  PROVE  /\ port = 32 => WriteCommand("master", value)
         /\ port = 160 => WriteCommand("slave", value)
         /\ port = 33 => WriteData("master", value)
         /\ port = 161 => WriteData("slave", value)
         /\ port \notin {32, 33, 160, 161} => UNCHANGED chipVars
BY ChipConstants DEF WritePort

LEMMA CommandBits ==
  /\ Bit(17, 4)
  /\ \A value \in {10, 11} : ~Bit(value, 4) /\ Bit(value, 3)
  /\ \A value \in {32, 33} : ~Bit(value, 4) /\ ~Bit(value, 3)
  /\ Bit(11, 0) /\ ~Bit(10, 0)
BY Weights DEF Bit

(* OCW2 takes the highest line out of service, and nothing else.           *)
LEMMA EoiCommand ==
  ASSUME NEW chip \in Chips, NEW value \in {32, 33}, WriteCommand(chip, value)
  PROVE  EndOfInterrupt(LinesOf(chip)) /\ UNCHANGED <<stage, shown, wiring, mode>>
BY CommandBits DEF WriteCommand, Ocw2

LEMMA SelectCommand ==
  ASSUME NEW chip \in Chips, NEW value \in {10, 11}, WriteCommand(chip, value)
  PROVE  /\ shown' = [shown EXCEPT ![chip] = IF value = 11 THEN "isr" ELSE "irr"]
         /\ UNCHANGED <<picVars, stage, wiring, mode>>
BY CommandBits DEF WriteCommand, Ocw3

LEMMA InitInv == Init => PortsInv
<1> SUFFICES ASSUME Init PROVE PortsInv
  OBVIOUS
<1>1. PICK m \in MasterMasks, s \in SlaveMasks :
        imr = LinesIn("master", m) \cup LinesIn("slave", s)
  BY DEF Init
<1>2. imr \in SUBSET (0..15)
  BY <1>1, ChipConstants DEF LinesIn, Master, Slave
<1>3. 9 \in imr
  <2>1. Bit(s, 1)
    BY PicPortsAssumption
  <2>2. 9 \in Slave /\ 9 - First("slave") = 1
    BY DEF Slave, First
  <2> QED BY <1>1, <2>1, <2>2, ChipConstants DEF LinesIn
<1>4. /\ base = [master |-> 8, slave |-> 112] /\ irr \in SUBSET Devices /\ isr = {}
      /\ stage = Ready /\ shown = [c \in Chips |-> "irr"]
      /\ wiring = [master |-> 4, slave |-> 2] /\ mode = [c \in Chips |-> 1]
      /\ iflag = FALSE /\ op = Idle
      /\ code = [main |-> <<>>, handler |-> <<>>]
      /\ irq = NoLine /\ seen = {} /\ bios = imr
  BY DEF Init, Ready
<1>5. PicTypeOK
  BY <1>2, <1>4 DEF PicTypeOK
<1>6. TypeOK
  <2>1. ChipTypeOK
    BY <1>4, <1>5 DEF ChipTypeOK, Ready, Chips
  <2>2. op \in [name : Operations, line : 0..15] /\ irq \in 0..NoLine
    BY <1>4 DEF Idle, Operation, Operations, NoLine
  <2>3. <<>> \in Seq(Accesses)
    BY EmptySeq
  <2>4. code \in [main : Seq(Accesses), handler : Seq(Accesses)]
    BY <1>4, <2>3
  <2> QED BY <1>2, <1>4, <2>1, <2>2, <2>4 DEF TypeOK, DriverTypeOK
<1>7. MainInv
  <2>1. code.main = <<>> /\ op.name = "idle"
    BY <1>4 DEF Idle, Operation
  <2> QED BY <1>3, <1>4, <2>1 DEF MainInv, Initialized
<1>8. HandlerInv
  BY <1>4 DEF HandlerInv
<1> QED BY <1>6, <1>7, <1>8 DEF PortsInv

LEMMA WriteTypeOK ==
  ASSUME ChipTypeOK, NEW port, NEW value \in 0..255, WritePort(port, value)
  PROVE  ChipTypeOK'
<1> USE DEF ChipTypeOK, PicTypeOK
<1>1. \A chip \in Chips : LinesIn(chip, value) \subseteq 0..15
  BY DEF LinesIn, LinesOf, Master, Slave
<1>2. ASSUME NEW chip \in Chips, WriteCommand(chip, value)
      PROVE  ChipTypeOK'
  <2>1. CASE Icw1(chip)
    BY <2>1 DEF Icw1
  <2>2. CASE Ocw3(chip, value)
    BY <2>2 DEF Ocw3, picVars
  <2>3. CASE Ocw2(chip)
    BY <2>3 DEF Ocw2, EndOfInterrupt
  <2> QED BY <1>2, <2>1, <2>2, <2>3 DEF WriteCommand
<1>3. ASSUME NEW chip \in Chips, WriteData(chip, value)
      PROVE  ChipTypeOK'
  <2>1. CASE stage[chip] = "icw2"
    <3>1. /\ base' = [base EXCEPT ![chip] = value]
          /\ stage' = [stage EXCEPT ![chip] = "icw3"]
          /\ UNCHANGED <<irr, isr, imr, shown, wiring, mode>>
      BY <1>3, <2>1 DEF WriteData
    <3>2. chip = "master" \/ chip = "slave"
      BY DEF Chips
    <3>3. base' \in [master : 0..255, slave : 0..255]
      BY <3>1, <3>2
    <3> QED BY <3>1, <3>3
  <2>2. CASE stage[chip] = "icw3"
    <3>1. /\ wiring' = [wiring EXCEPT ![chip] = value]
          /\ stage' = [stage EXCEPT ![chip] = "icw4"]
          /\ UNCHANGED <<irr, isr, imr, base, shown, mode>>
      BY <1>3, <2>2 DEF WriteData, picVars
    <3> QED BY <3>1
  <2>3. CASE stage[chip] = "icw4"
    <3>1. /\ mode' = [mode EXCEPT ![chip] = value]
          /\ stage' = [stage EXCEPT ![chip] = "ready"]
          /\ UNCHANGED <<irr, isr, imr, base, shown, wiring>>
      BY <1>3, <2>3 DEF WriteData, picVars
    <3> QED BY <3>1
  <2>4. CASE stage[chip] = "ready"
    BY <1>1, <1>3, <2>4 DEF WriteData
  <2> QED BY <1>3, <2>1, <2>2, <2>3, <2>4 DEF WriteData
<1>4. CASE UNCHANGED chipVars
  BY <1>4 DEF chipVars, picVars
<1> QED BY <1>2, <1>3, <1>4 DEF WritePort

(* The first access of a sequence, and the rest.                           *)
LEMMA FirstAccess ==
  ASSUME NEW s \in Seq(Accesses), s # <<>>
  PROVE  /\ Head(s) = s[1] /\ Head(s) \in Accesses /\ Len(s) \in Nat /\ Len(s) >= 1
         /\ Tail(s) \in Seq(Accesses) /\ Len(Tail(s)) = Len(s) - 1
         /\ \A k \in 1..Len(Tail(s)) : Tail(s)[k] = s[k + 1]
         /\ Len(s) = 1 => Tail(s) = <<>>
<1>1. /\ Head(s) = s[1] /\ Head(s) \in Accesses /\ Len(s) \in Nat /\ Len(s) >= 1
      /\ Tail(s) \in Seq(Accesses) /\ Len(Tail(s)) = Len(s) - 1
  BY EmptySeq
<1>2. \A k \in 1..Len(Tail(s)) : Tail(s)[k] = s[k + 1]
  BY <1>1
<1>3. Len(s) = 1 => Tail(s) = <<>>
  <2>1. Tail(s) # <<>> => Len(Tail(s)) \in Nat \ {0}
    BY <1>1, EmptySeq
  <2> QED BY <1>1, <2>1
<1> QED BY <1>1, <1>2, <1>3

LEMMA AccessParts ==
  ASSUME NEW a \in Accesses
  PROVE  a.kind \in {"in", "out"} /\ a.port \in 0..255 /\ a.value \in 0..255
BY DEF Accesses

(* A call of one of the operations that come after the initialization.     *)
LEMMA CallPortsInv ==
  ASSUME PortsInv, Initialized, NEW operation \in [name : Operations, line : 0..15],
         operation.name # "Initialize",
         NEW accesses \in Seq(Accesses), \A k \in 1..Len(accesses) : Harmless(accesses[k]),
         Call(operation, accesses)
  PROVE  PortsInv'
<1>1. /\ irq = NoLine /\ op = Idle /\ op' = operation
      /\ code' = [code EXCEPT !.main = accesses]
      /\ UNCHANGED <<chipVars, iflag, irq, seen, bios>>
  BY DEF Call
<1>2. TypeOK'
  <2>1. ChipTypeOK'
    BY <1>1 DEF PortsInv, TypeOK, ChipTypeOK, PicTypeOK, chipVars, picVars
  <2>2. DriverTypeOK'
    BY <1>1 DEF PortsInv, TypeOK, DriverTypeOK
  <2> QED BY <2>1, <2>2 DEF TypeOK
<1>3. code'.main = accesses /\ code'.handler = code.handler
  BY <1>1 DEF PortsInv, TypeOK, DriverTypeOK
<1>4. op.name # "Initialize"
  BY <1>1 DEF Idle, Operation
<1>5. UNCHANGED <<picVars, stage, wiring, mode, iflag, irq, bios>> /\ Initialized'
  BY <1>1 DEF chipVars, picVars, Initialized
<1>6. MainInv'
  BY <1>1, <1>3, <1>4, <1>5 DEF PortsInv, MainInv, picVars
<1>7. HandlerInv'
  BY <1>1, <1>5 DEF PortsInv, HandlerInv, picVars
<1> QED BY <1>2, <1>6, <1>7 DEF PortsInv

LEMMA OneHarmless ==
  ASSUME NEW a \in Accesses, Harmless(a)
  PROVE  /\ <<a>> \in Seq(Accesses)
         /\ \A k \in 1..Len(<<a>>) : Harmless(<<a>>[k])
OBVIOUS

(* The slave's mask byte has line 8 or 9: it is neither 32 nor 160, nor    *)
(* becomes one of them.                                                    *)
LEMMA SlaveMaskBits ==
  ASSUME 8 \in imr \/ 9 \in imr
  PROVE  Bit(MaskByte("slave"), 0) \/ Bit(MaskByte("slave"), 1)
<1>1. LinesIn("slave", MaskByte("slave")) = imr \cap Slave
  BY MaskAsByte, ChipConstants
<1>2. 8 \in LinesIn("slave", MaskByte("slave")) \/ 9 \in LinesIn("slave", MaskByte("slave"))
  BY <1>1 DEF Slave
<1> QED BY <1>2 DEF LinesIn, First

LEMMA OperationsAreHarmless ==
  ASSUME 8 \in imr \/ 9 \in imr, NEW i \in (0..15) \ {8, 9},
         NEW accesses \in {Enable_8259_PIC(i), Disable_8259_PIC(i), Acknowledge_8259_PIC(i)}
  PROVE  accesses \in Seq(Accesses) /\ \A k \in 1..Len(accesses) : Harmless(accesses[k])
<1> DEFINE m == MaskByte("master")
<1> DEFINE s == MaskByte("slave")
<1>1. m \in 0..255 /\ s \in 0..255
  BY MaskAsByte DEF Chips
<1>2. Bit(s, 0) \/ Bit(s, 1)
  BY SlaveMaskBits
<1> HIDE DEF m, s
<1>3. CASE i < 8 /\ accesses # Acknowledge_8259_PIC(i)
  <2>1. i \in 0..7
    BY <1>3
  <2>2. With(m, i) \in 0..255 /\ Without(m, i) \in 0..255
    BY <1>1, <2>1, SettingABit
  <2>3. accesses = << Out(With(m, i), 33) >> \/ accesses = << Out(Without(m, i), 33) >>
    BY <1>3 DEF Enable_8259_PIC, Disable_8259_PIC, PIC_MASTER_DATA, m
  <2>4. PICK port \in 0..255 : accesses = << Out(port, 33) >>
    BY <2>2, <2>3
  <2>5. Out(port, 33) \in Accesses /\ Harmless(Out(port, 33))
    BY DEF Out, Accesses, Harmless
  <2> QED BY <2>4, <2>5, OneHarmless
<1>4. CASE ~(i < 8) /\ accesses # Acknowledge_8259_PIC(i)
  <2>1. i - 8 \in 2..7
    BY <1>4
  <2>2. With(s, i - 8) \in 0..255 /\ Without(s, i - 8) \in 0..255
    <3>1. i - 8 \in 0..7
      BY <2>1
    <3> QED BY <1>1, <3>1, SettingABit
  <2>3. With(s, i - 8) \notin {32, 160} /\ Without(s, i - 8) \notin {32, 160}
    <3>1. PICK j \in 2..7 : j = i - 8
      BY <2>1
    <3>2. With(s, j) \notin {32, 160} /\ Without(s, j) \notin {32, 160}
      BY <1>1, <1>2, Weights DEF With, Without, Bit
    <3> QED BY <3>1, <3>2
  <2>4. \/ accesses = << Out(With(s, i - 8), 161) >>
        \/ accesses = << Out(Without(s, i - 8), 161) >>
    BY <1>4 DEF Enable_8259_PIC, Disable_8259_PIC, PIC_SLAVE_DATA, s
  <2>5. PICK port \in (0..255) \ {32, 160} : accesses = << Out(port, 161) >>
    BY <2>2, <2>3, <2>4
  <2>6. Out(port, 161) \in Accesses /\ Harmless(Out(port, 161))
    BY DEF Out, Accesses, Harmless
  <2> QED BY <2>5, <2>6, OneHarmless
<1>5. CASE accesses = Acknowledge_8259_PIC(i)
  <2>1. CASE i >= 8
    <3> DEFINE a == Out(96 + (i - 8), PIC_SLAVE_COMMAND)
    <3> DEFINE b == Out(96 + 2, PIC_MASTER_COMMAND)
    <3>1. a \in Accesses /\ b \in Accesses /\ Harmless(a) /\ Harmless(b)
      BY <2>1 DEF Out, Accesses, PIC_SLAVE_COMMAND, PIC_MASTER_COMMAND, Harmless
    <3>2. accesses = <<a, b>>
      BY <1>5, <2>1 DEF Acknowledge_8259_PIC
    <3> HIDE DEF a, b
    <3> QED BY <3>1, <3>2
  <2>2. CASE ~(i >= 8)
    <3> DEFINE a == Out(96 + i, PIC_MASTER_COMMAND)
    <3>1. a \in Accesses /\ Harmless(a)
      BY <2>2 DEF Out, Accesses, PIC_MASTER_COMMAND, Harmless
    <3>2. accesses = <<a>>
      BY <1>5, <2>2 DEF Acknowledge_8259_PIC
    <3> HIDE DEF a
    <3> QED BY <3>1, <3>2
  <2> QED BY <2>1, <2>2
<1> QED BY <1>3, <1>4, <1>5

LEMMA ReadIrrIsHarmless ==
  PIC_Read_IRR \in Seq(Accesses) /\ \A k \in 1..Len(PIC_Read_IRR) : Harmless(PIC_Read_IRR[k])
<1> DEFINE a == Out(PIC_MASTER_COMMAND, 10)
<1> DEFINE b == Out(PIC_SLAVE_COMMAND, 10)
<1> DEFINE c == In(PIC_MASTER_COMMAND)
<1> DEFINE d == In(PIC_SLAVE_COMMAND)
<1>1. a \in Accesses /\ b \in Accesses /\ c \in Accesses /\ d \in Accesses
  BY DEF Out, In, Accesses, PIC_SLAVE_COMMAND, PIC_MASTER_COMMAND
<1>2. Harmless(a) /\ Harmless(b) /\ Harmless(c) /\ Harmless(d)
  BY DEF Out, In, Harmless, PIC_SLAVE_COMMAND, PIC_MASTER_COMMAND
<1>3. PIC_Read_IRR = <<a, b, c, d>>
  BY DEF PIC_Read_IRR, ReadRegister
<1> HIDE DEF a, b, c, d
<1> QED BY <1>1, <1>2, <1>3

LEMMA CallsPortsInv ==
  ASSUME PortsInv,
         \/ CallReadIrr
         \/ \E i \in Lines : CallEnable(i) \/ CallDisable(i) \/ CallAcknowledge(i)
  PROVE  PortsInv'
<1>1. Initialized /\ op = Idle
  BY DEF CallReadIrr, CallEnable, CallDisable, CallAcknowledge, Call
<1>2. 8 \in imr \/ 9 \in imr
  BY <1>1 DEF PortsInv, MainInv, Idle, Operation
<1>3. CASE CallReadIrr
  <2>1. Operation("ReadIrr", 0) \in [name : Operations, line : 0..15]
    BY DEF Operation, Operations
  <2>2. Operation("ReadIrr", 0).name # "Initialize"
    BY DEF Operation
  <2> QED BY <1>1, <1>3, <2>1, <2>2, ReadIrrIsHarmless, CallPortsInv DEF CallReadIrr
<1>4. ASSUME NEW i \in Lines, CallEnable(i) \/ CallDisable(i) \/ CallAcknowledge(i)
      PROVE  PortsInv'
  <2>1. i \in (0..15) \ {8, 9}
    BY PicPortsAssumption
  <2>2. PICK name \in {"Enable", "EnableSlave", "Disable", "Acknowledge"},
             accesses \in {Enable_8259_PIC(i), Disable_8259_PIC(i), Acknowledge_8259_PIC(i)} :
               Call(Operation(name, i), accesses)
    BY <1>4 DEF CallEnable, CallDisable, CallAcknowledge
  <2>3. accesses \in Seq(Accesses) /\ \A k \in 1..Len(accesses) : Harmless(accesses[k])
    BY <1>2, <2>1, OperationsAreHarmless
  <2>4. /\ Operation(name, i) \in [name : Operations, line : 0..15]
        /\ Operation(name, i).name # "Initialize"
    BY <2>1 DEF Operation, Operations
  <2> QED BY <1>1, <2>2, <2>3, <2>4, CallPortsInv
<1> QED BY <1>3, <1>4

-----------------------------------------------------------------------------
(* What leaves the chips and the code of the main thread alone.            *)
LEMMA KeepMainInv ==
  ASSUME MainInv, UNCHANGED <<imr, base, stage, wiring, mode, op, bios>>,
         op.name = "Initialize" => isr' = isr,
         code'.main = code.main,
         iflag' \/ irq' # NoLine => Initialized /\ op.name # "Initialize"
  PROVE  MainInv'
<1>1. CASE op.name = "Initialize"
  <2>1. PICK m \in 0..255, s \in 0..255, done \in 0..9 : Sent(m, s, done)
    BY <1>1 DEF MainInv, Initializing
  <2>2. Sent(m, s, done)'
    BY <1>1, <2>1 DEF Sent, MasksAfter
  <2>3. Initializing'
    BY <2>2 DEF Initializing
  <2> QED BY <1>1, <2>3 DEF MainInv, Initialized
<1>2. CASE op.name # "Initialize"
  BY <1>2 DEF MainInv, Initialized
<1> QED BY <1>1, <1>2

LEMMA EnableInterruptsPortsInv ==
  ASSUME PortsInv, Enable_Interrupts
  PROVE  PortsInv'
<1>1. /\ irq = NoLine /\ op = Idle /\ Initialized /\ iflag' = TRUE
      /\ UNCHANGED <<chipVars, op, code, irq, seen, bios>>
  BY DEF Enable_Interrupts
<1>2. UNCHANGED <<picVars, irr, isr, imr, base, stage, shown, wiring, mode>>
  BY <1>1 DEF chipVars, picVars
<1>3. TypeOK'
  BY <1>1, <1>2 DEF PortsInv, TypeOK, ChipTypeOK, PicTypeOK, DriverTypeOK
<1>4. MainInv'
  BY <1>1, <1>2, KeepMainInv DEF PortsInv, Idle, Operation
<1>5. HandlerInv'
  BY <1>1, <1>2 DEF PortsInv, HandlerInv
<1> QED BY <1>3, <1>4, <1>5 DEF PortsInv

LEMMA DeviceRaisesPortsInv ==
  ASSUME PortsInv, NEW i \in Devices, DeviceRaises(i)
  PROVE  PortsInv'
<1>1. /\ irr' = irr \cup {i}
      /\ UNCHANGED <<isr, imr, base, stage, shown, wiring, mode, iflag, op, code, irq, seen, bios>>
  BY DEF DeviceRaises, Raise, cpuVars
<1>2. TypeOK'
  BY <1>1 DEF PortsInv, TypeOK, ChipTypeOK, PicTypeOK, DriverTypeOK
<1>3. MainInv'
  BY <1>1, KeepMainInv DEF PortsInv, MainInv
<1>4. HandlerInv'
  BY <1>1 DEF PortsInv, HandlerInv, Checking, Ending
<1> QED BY <1>2, <1>3, <1>4 DEF PortsInv

LEMMA HandlerReturnsPortsInv ==
  ASSUME PortsInv, HandlerReturns
  PROVE  PortsInv'
<1>1. /\ irq # NoLine /\ code.handler = <<>> /\ irq' = NoLine /\ iflag' = TRUE /\ seen' = {}
      /\ UNCHANGED <<chipVars, op, code, bios>>
  BY DEF HandlerReturns
<1>2. UNCHANGED <<irr, isr, imr, base, stage, shown, wiring, mode>>
  BY <1>1 DEF chipVars, picVars
<1>3. TypeOK'
  <2>1. ChipTypeOK'
    BY <1>2 DEF PortsInv, TypeOK, ChipTypeOK, PicTypeOK
  <2>2. DriverTypeOK'
    BY <1>1 DEF PortsInv, TypeOK, DriverTypeOK, NoLine
  <2> QED BY <2>1, <2>2 DEF TypeOK
<1>4. MainInv'
  BY <1>1, <1>2, KeepMainInv DEF PortsInv, MainInv
<1>5. isr = {}
  <2>1. ~Checking
    BY <1>1 DEF Checking
  <2>2. code.handler # EoiSlave \o EoiMaster /\ code.handler # EoiMaster
    <3>1. EoiSlave \in Seq(Accesses) /\ EoiMaster \in Seq(Accesses)
          /\ Len(EoiSlave) = 1 /\ Len(EoiMaster) = 1
      BY DEF EoiSlave, EoiMaster, Out, Accesses, PIC_SLAVE_COMMAND, PIC_MASTER_COMMAND
    <3>2. Len(EoiSlave \o EoiMaster) = Len(EoiSlave) + Len(EoiMaster)
      BY <3>1, ConcatProperties
    <3>3. Len(<<>>) = 0
      BY EmptySeq
    <3> QED BY <1>1, <3>1, <3>2, <3>3
  <2> QED BY <1>1, <2>1, <2>2 DEF PortsInv, HandlerInv, Ending
<1>6. HandlerInv'
  BY <1>1, <1>2, <1>5 DEF HandlerInv
<1> QED BY <1>3, <1>4, <1>6 DEF PortsInv

LEMMA EnableCascadePortsInv ==
  ASSUME PortsInv, EnableCascade
  PROVE  PortsInv'
<1>1. /\ irq = NoLine /\ op.name = "EnableSlave" /\ op' = Operation("Enable", op.line)
      /\ code' = [code EXCEPT !.main = Enable_8259_PIC(Cascade)]
      /\ UNCHANGED <<chipVars, iflag, irq, seen, bios>>
  BY DEF EnableCascade
<1>2. UNCHANGED <<irr, isr, imr, base, stage, shown, wiring, mode>>
  BY <1>1 DEF chipVars, picVars
<1>3. Initialized /\ (8 \in imr \/ 9 \in imr)
  BY <1>1 DEF PortsInv, MainInv, Idle, Operation
<1>4. /\ Enable_8259_PIC(Cascade) \in Seq(Accesses)
      /\ \A k \in 1..Len(Enable_8259_PIC(Cascade)) : Harmless(Enable_8259_PIC(Cascade)[k])
  BY <1>3, OperationsAreHarmless DEF Cascade
<1>5. code'.main = Enable_8259_PIC(Cascade) /\ code'.handler = code.handler
  BY <1>1 DEF PortsInv, TypeOK, DriverTypeOK
<1>6. op' \in [name : Operations, line : 0..15] /\ op'.name = "Enable"
  BY <1>1 DEF PortsInv, TypeOK, DriverTypeOK, Operation, Operations
<1>7. TypeOK'
  <2>1. ChipTypeOK'
    BY <1>2 DEF PortsInv, TypeOK, ChipTypeOK, PicTypeOK
  <2>2. code' \in [main : Seq(Accesses), handler : Seq(Accesses)]
    BY <1>1, <1>4 DEF PortsInv, TypeOK, DriverTypeOK
  <2> QED BY <1>1, <1>6, <2>1, <2>2 DEF PortsInv, TypeOK, DriverTypeOK
<1>8. MainInv'
  BY <1>1, <1>2, <1>3, <1>4, <1>5, <1>6 DEF PortsInv, MainInv, Initialized
<1>9. HandlerInv'
  BY <1>1, <1>2 DEF PortsInv, HandlerInv
<1> QED BY <1>7, <1>8, <1>9 DEF PortsInv

LEMMA CallInitializePortsInv ==
  ASSUME PortsInv, CallInitialize
  PROVE  PortsInv'
<1>1. /\ ~Initialized /\ irq = NoLine /\ op = Idle /\ op' = Operation("Initialize", 0)
      /\ code' = [code EXCEPT !.main = Initialize_8259_PIC(32, 40)]
      /\ UNCHANGED <<chipVars, iflag, irq, seen, bios>>
  BY DEF CallInitialize, Call
<1>2. UNCHANGED <<irr, isr, imr, base, stage, shown, wiring, mode>>
  BY <1>1 DEF chipVars, picVars
<1>3. op.name = "idle" /\ op'.name = "Initialize" /\ op' \in [name : Operations, line : 0..15]
  BY <1>1 DEF Idle, Operation, Operations
<1>4. PICK m \in 0..255, s \in 0..255 : m = MaskByte("master") /\ s = MaskByte("slave")
  BY MaskAsByte DEF Chips
<1>5. /\ LinesIn("master", m) = imr \cap Master /\ LinesIn("slave", s) = imr \cap Slave
      /\ Initialize_8259_PIC(32, 40) = Words(m, s)
  <2>1. /\ LinesIn("master", MaskByte("master")) = imr \cap Master
        /\ LinesIn("slave", MaskByte("slave")) = imr \cap Slave
    BY MaskAsByte, ChipConstants
  <2> QED BY <1>4, <2>1 DEF Initialize_8259_PIC, Words, PIC_MASTER_COMMAND, PIC_MASTER_DATA,
             PIC_SLAVE_COMMAND, PIC_SLAVE_DATA
<1>6. Words(m, s) \in Seq(Accesses) /\ Len(Words(m, s)) = 10
  BY DEF Words, Out, Accesses
<1>7. code'.main = Words(m, s) /\ code'.handler = code.handler
  BY <1>1, <1>5 DEF PortsInv, TypeOK, DriverTypeOK
<1>8. TypeOK'
  <2>1. ChipTypeOK'
    BY <1>2 DEF PortsInv, TypeOK, ChipTypeOK, PicTypeOK
  <2>2. code' \in [main : Seq(Accesses), handler : Seq(Accesses)]
    BY <1>1, <1>5, <1>6 DEF PortsInv, TypeOK, DriverTypeOK
  <2> QED BY <1>1, <1>3, <2>1, <2>2 DEF PortsInv, TypeOK, DriverTypeOK
<1>9. /\ imr = bios /\ stage = Ready /\ base = [master |-> 8, slave |-> 112] /\ isr = {}
      /\ ~iflag /\ bios \subseteq Master \cup Slave
  BY <1>1, <1>3
     DEF PortsInv, MainInv, HandlerInv, Initialized, TypeOK, DriverTypeOK, Master, Slave
<1>10. (Sent(m, s, 0))'
  <2>1. StagesAfter(0) = Ready /\ BasesAfter(0) = base
    BY <1>9 DEF StagesAfter, Ready, BasesAfter
  <2>2. (MasksAfter(0))' = bios
    BY <1>1, <1>9 DEF MasksAfter
  <2>3. /\ Len(code'.main) = 10 - 0
        /\ \A k \in 1..(10 - 0) : code'.main[k] = Words(m, s)[0 + k]
    BY <1>6, <1>7
  <2>4. /\ LinesIn("master", m) = bios' \cap Master /\ LinesIn("slave", s) = bios' \cap Slave
        /\ stage' = StagesAfter(0) /\ base' = BasesAfter(0) /\ imr' = (MasksAfter(0))'
        /\ isr' = {}
    BY <1>1, <1>2, <1>5, <1>9, <2>1, <2>2
  <2> QED BY <2>3, <2>4 DEF Sent, StagesAfter, BasesAfter, MasksAfter
<1>11. MainInv'
  <2>1. \E m1, s1 \in 0..255, done \in 0..9 : Sent(m1, s1, done)'
    <3>1. 0 \in 0..9
      OBVIOUS
    <3> QED BY <1>10, <3>1, Zenon
  <2>2. Initializing'
    BY <2>1 DEF Initializing
  <2> QED BY <1>1, <1>2, <1>3, <1>9, <2>2 DEF PortsInv, MainInv
<1>12. HandlerInv'
  BY <1>1, <1>2 DEF PortsInv, HandlerInv
<1> QED BY <1>8, <1>11, <1>12 DEF PortsInv

-----------------------------------------------------------------------------
(* The ten words, and the access that sends each.                          *)
LEMMA WordList ==
  ASSUME NEW m, NEW s, NEW a
  PROVE  /\ a = Words(m, s)[1] => a.port = 32 /\ a.value = 17
         /\ a = Words(m, s)[2] => a.port = 160 /\ a.value = 17
         /\ a = Words(m, s)[3] => a.port = 33 /\ a.value = 32
         /\ a = Words(m, s)[4] => a.port = 161 /\ a.value = 40
         /\ a = Words(m, s)[5] => a.port = 33 /\ a.value = 4
         /\ a = Words(m, s)[6] => a.port = 161 /\ a.value = 2
         /\ a = Words(m, s)[7] => a.port = 33 /\ a.value = 1
         /\ a = Words(m, s)[8] => a.port = 161 /\ a.value = 1
         /\ a = Words(m, s)[9] => a.port = 33 /\ a.value = m
         /\ a = Words(m, s)[10] => a.port = 161 /\ a.value = s
BY DEF Words, Out

LEMMA ResetWord ==
  ASSUME NEW chip \in Chips, WriteCommand(chip, 17)
  PROVE  Icw1(chip)
BY CommandBits DEF WriteCommand

(* The two resets, and the last mask.                                      *)
LEMMA StagesFollow ==
  /\ [StagesAfter(0) EXCEPT !["master"] = "icw2"] = StagesAfter(1)
  /\ [StagesAfter(1) EXCEPT !["slave"] = "icw2"] = StagesAfter(2)
<1>1. StagesAfter(0) = [c \in Chips |-> "ready"]
  BY DEF StagesAfter
<1>2. StagesAfter(1) = [c \in Chips |-> IF c = "master" THEN "icw2" ELSE "ready"]
  BY DEF StagesAfter
<1>3. StagesAfter(2) = [c \in Chips |-> "icw2"]
  BY DEF StagesAfter
<1> QED BY <1>1, <1>2, <1>3 DEF Chips

LEMMA MasksFollow ==
  ASSUME bios \subseteq 0..15
  PROVE  /\ MasksAfter(0) \ Master = MasksAfter(1)
         /\ MasksAfter(1) \ Slave = MasksAfter(2)
         /\ (MasksAfter(8) \ Master) \cup (bios \cap Master) = MasksAfter(9)
         /\ (MasksAfter(9) \ Slave) \cup (bios \cap Slave) = MasksAfter(10)
<1>1. \A i \in bios : i \in Master <=> i \notin Slave
  BY DEF Master, Slave
<1>2. MasksAfter(0) = bios /\ MasksAfter(1) = bios \cap Slave /\ MasksAfter(2) = {}
  <2>1. MasksAfter(0) = bios
    BY DEF MasksAfter
  <2>2. MasksAfter(1) = bios \cap Slave
    <3>1. MasksAfter(1) = bios \ Master
      BY DEF MasksAfter
    <3>2. bios \ Master = bios \cap Slave
      BY <1>1, Zenon
    <3> QED BY <3>1, <3>2
  <2>3. MasksAfter(2) = {}
    BY DEF MasksAfter
  <2> QED BY <2>1, <2>2, <2>3
<1>3. MasksAfter(8) = {} /\ MasksAfter(9) = bios \cap Master /\ MasksAfter(10) = bios
  BY <1>1 DEF MasksAfter
<1> QED BY <1>1, <1>2, <1>3

(* A word of the initialization brings the chips to the next stage.        *)
LEMMA WordArrives ==
  ASSUME NEW m \in 0..255, NEW s \in 0..255, NEW done \in 0..9,
         LinesIn("master", m) = bios \cap Master, LinesIn("slave", s) = bios \cap Slave,
         stage = StagesAfter(done), base = BasesAfter(done), imr = MasksAfter(done), isr = {},
         wiring = [master |-> 4, slave |-> 2], mode = [c \in Chips |-> 1],
         bios \subseteq 0..15, bios' = bios,
         NEW a, a = Words(m, s)[done + 1], WritePort(a.port, a.value)
  PROVE  /\ stage' = StagesAfter(done + 1) /\ base' = BasesAfter(done + 1)
         /\ imr' = (MasksAfter(done + 1))' /\ isr' = {}
         /\ UNCHANGED <<wiring, mode>>
<1> DEFINE Arrived(n) ==
      /\ stage' = StagesAfter(n) /\ base' = BasesAfter(n)
      /\ imr' = MasksAfter(n)
      /\ isr' = {}
      /\ UNCHANGED <<wiring, mode>>
<1> USE DEF Master, Slave
<1>1. Arrived(done + 1) => /\ stage' = StagesAfter(done + 1) /\ base' = BasesAfter(done + 1)
                           /\ imr' = (MasksAfter(done + 1))' /\ isr' = {}
                           /\ UNCHANGED <<wiring, mode>>
  BY DEF MasksAfter
<1>2. "master" \in Chips /\ "slave" \in Chips
  BY DEF Chips
<1>3. CASE done = 0
  <2>0. a.port = 32 /\ a.value = 17
    <3>1. a = Words(m, s)[1]
      BY <1>3
    <3> QED BY <3>1, WordList
  <2>1. WriteCommand("master", 17)
    BY <2>0, PortWritten
  <2>2. Icw1("master")
    BY <1>2, <2>1, ResetWord
  <2>3. Arrived(1)
    <3>1. /\ stage' = [stage EXCEPT !["master"] = "icw2"]
          /\ imr' = imr \ Master /\ isr' = isr \ Master
          /\ UNCHANGED <<base, wiring, mode>>
      BY <2>2, ChipConstants DEF Icw1
    <3>2. stage' = StagesAfter(1)
      BY <1>3, <3>1, StagesFollow
    <3>3. base' = BasesAfter(1)
      BY <1>3, <3>1 DEF BasesAfter
    <3>4. imr' = MasksAfter(1)
      BY <1>3, <3>1, MasksFollow
    <3> QED BY <3>1, <3>2, <3>3, <3>4
  <2> QED BY <1>1, <1>3, <2>3
<1>4. CASE done = 1
  <2>0. a.port = 160 /\ a.value = 17
    <3>1. a = Words(m, s)[2]
      BY <1>4
    <3> QED BY <3>1, WordList
  <2>1. WriteCommand("slave", 17)
    BY <2>0, PortWritten
  <2>2. Icw1("slave")
    BY <1>2, <2>1, ResetWord
  <2>3. Arrived(2)
    <3>1. /\ stage' = [stage EXCEPT !["slave"] = "icw2"]
          /\ imr' = imr \ Slave /\ isr' = isr \ Slave
          /\ UNCHANGED <<base, wiring, mode>>
      BY <2>2, ChipConstants DEF Icw1
    <3>2. stage' = StagesAfter(2)
      BY <1>4, <3>1, StagesFollow
    <3>3. base' = BasesAfter(2)
      BY <1>4, <3>1 DEF BasesAfter
    <3>4. imr' = MasksAfter(2)
      BY <1>4, <3>1, MasksFollow
    <3> QED BY <3>1, <3>2, <3>3, <3>4
  <2> QED BY <1>1, <1>4, <2>3
<1>5. CASE done = 2
  <2>0. a.port = 33 /\ a.value = 32
    <3>1. a = Words(m, s)[3]
      BY <1>5
    <3> QED BY <3>1, WordList
  <2>1. WriteData("master", 32)
    BY <2>0, PortWritten
  <2>2. Arrived(3)
    BY <1>5, <2>1, ChipConstants DEF WriteData, StagesAfter, BasesAfter, MasksAfter, picVars
  <2> QED BY <1>1, <1>5, <2>2
<1>6. CASE done = 3
  <2>0. a.port = 161 /\ a.value = 40
    <3>1. a = Words(m, s)[4]
      BY <1>6
    <3> QED BY <3>1, WordList
  <2>1. WriteData("slave", 40)
    BY <2>0, PortWritten
  <2>2. Arrived(4)
    BY <1>6, <2>1, ChipConstants DEF WriteData, StagesAfter, BasesAfter, MasksAfter, picVars
  <2> QED BY <1>1, <1>6, <2>2
<1>7. CASE done = 4
  <2>0. a.port = 33 /\ a.value = 4
    <3>1. a = Words(m, s)[5]
      BY <1>7
    <3> QED BY <3>1, WordList
  <2>1. WriteData("master", 4)
    BY <2>0, PortWritten
  <2>2. Arrived(5)
    BY <1>7, <2>1, ChipConstants DEF WriteData, StagesAfter, BasesAfter, MasksAfter, picVars
  <2> QED BY <1>1, <1>7, <2>2
<1>8. CASE done = 5
  <2>0. a.port = 161 /\ a.value = 2
    <3>1. a = Words(m, s)[6]
      BY <1>8
    <3> QED BY <3>1, WordList
  <2>1. WriteData("slave", 2)
    BY <2>0, PortWritten
  <2>2. Arrived(6)
    BY <1>8, <2>1, ChipConstants DEF WriteData, StagesAfter, BasesAfter, MasksAfter, picVars
  <2> QED BY <1>1, <1>8, <2>2
<1>9. CASE done = 6
  <2>0. a.port = 33 /\ a.value = 1
    <3>1. a = Words(m, s)[7]
      BY <1>9
    <3> QED BY <3>1, WordList
  <2>1. WriteData("master", 1)
    BY <2>0, PortWritten
  <2>2. Arrived(7)
    BY <1>9, <2>1, ChipConstants DEF WriteData, StagesAfter, BasesAfter, MasksAfter, picVars
  <2> QED BY <1>1, <1>9, <2>2
<1>10. CASE done = 7
  <2>0. a.port = 161 /\ a.value = 1
    <3>1. a = Words(m, s)[8]
      BY <1>10
    <3> QED BY <3>1, WordList
  <2>1. WriteData("slave", 1)
    BY <2>0, PortWritten
  <2>2. Arrived(8)
    BY <1>10, <2>1, ChipConstants DEF WriteData, StagesAfter, BasesAfter, MasksAfter, picVars
  <2> QED BY <1>1, <1>10, <2>2
<1>11. CASE done = 8
  <2>0. a.port = 33 /\ a.value = m
    <3>1. a = Words(m, s)[9]
      BY <1>11
    <3> QED BY <3>1, WordList
  <2>1. WriteData("master", m)
    BY <2>0, PortWritten
  <2>2. Arrived(9)
    BY <1>11, <2>1, ChipConstants DEF WriteData, StagesAfter, BasesAfter, MasksAfter, picVars
  <2> QED BY <1>1, <1>11, <2>2
<1>12. CASE done = 9
  <2>0. a.port = 161 /\ a.value = s
    <3>1. a = Words(m, s)[10]
      BY <1>12
    <3> QED BY <3>1, WordList
  <2>1. WriteData("slave", s)
    BY <2>0, PortWritten
  <2>2. Arrived(10)
    <3>1. stage["slave"] = "ready"
      BY <1>12, <1>2 DEF StagesAfter
    <3>2. /\ imr' = (imr \ Slave) \cup LinesIn("slave", s)
          /\ UNCHANGED <<isr, base, stage, wiring, mode>>
      BY <2>1, <3>1, ChipConstants DEF WriteData
    <3>3. stage' = StagesAfter(10) /\ base' = BasesAfter(10)
      BY <1>12, <3>2 DEF StagesAfter, BasesAfter
    <3>4. imr' = MasksAfter(10)
      BY <1>12, <3>2, MasksFollow
    <3> QED BY <3>2, <3>3, <3>4
  <2> QED BY <1>1, <1>12, <2>2
<1> QED BY <1>3, <1>4, <1>5, <1>6, <1>7, <1>8, <1>9, <1>10, <1>11, <1>12


LEMMA WordsAreOut ==
  ASSUME NEW m, NEW s, NEW k \in 1..10
  PROVE  Words(m, s)[k].kind = "out"
BY DEF Words, Out

LEMMA AfterTheWords ==
  /\ StagesAfter(10) = Ready
  /\ BasesAfter(10) = [master |-> 32, slave |-> 40]
BY DEF StagesAfter, Ready, BasesAfter

LEMMA MainAccessTypeOK ==
  ASSUME TypeOK, MainAccess
  PROVE  /\ TypeOK'
         /\ code'.main = Tail(code.main) /\ code'.handler = code.handler
<1>1. /\ code.main # <<>> /\ code' = [code EXCEPT !.main = Tail(code.main)]
      /\ UNCHANGED <<iflag, irq, seen, bios>>
      /\ op' = IF Len(code.main) = 1 /\ op.name # "EnableSlave" THEN Idle ELSE op
  BY DEF MainAccess
<1>2. code.main \in Seq(Accesses) /\ code \in [main : Seq(Accesses), handler : Seq(Accesses)]
  BY DEF TypeOK, DriverTypeOK
<1>3. Head(code.main) \in Accesses /\ Tail(code.main) \in Seq(Accesses)
  BY <1>1, <1>2, FirstAccess
<1>4. /\ code'.main = Tail(code.main) /\ code'.handler = code.handler
      /\ code' \in [main : Seq(Accesses), handler : Seq(Accesses)]
  BY <1>1, <1>2, <1>3
<1>5. ChipTypeOK'
  <2>1. CASE Head(code.main).kind = "out"
    <3>1. WritePort(Head(code.main).port, Head(code.main).value)
      BY <2>1 DEF MainAccess
    <3>2. Head(code.main).value \in 0..255
      BY <1>3, AccessParts
    <3> QED BY <3>1, <3>2, WriteTypeOK DEF TypeOK
  <2>2. CASE Head(code.main).kind # "out"
    <3>1. UNCHANGED chipVars
      BY <2>2 DEF MainAccess
    <3> QED BY <3>1 DEF chipVars, picVars, TypeOK, ChipTypeOK, PicTypeOK
  <2> QED BY <2>1, <2>2
<1>6. op' \in [name : Operations, line : 0..15]
  <2>1. Idle \in [name : Operations, line : 0..15]
    BY DEF Idle, Operation, Operations
  <2> QED BY <1>1, <2>1 DEF TypeOK, DriverTypeOK
<1> QED BY <1>1, <1>4, <1>5, <1>6 DEF TypeOK, DriverTypeOK

(* One byte of the initialization; with the tenth it is over, and has done *)
(* what it is for.                                                         *)
LEMMA InitializeAccess ==
  ASSUME PortsInv, MainAccess, op.name = "Initialize"
  PROVE  /\ PortsInv'
         /\ op' = Idle =>
              /\ stage' = Ready /\ base' = [master |-> 32, slave |-> 40]
              /\ wiring' = [master |-> 4, slave |-> 2] /\ mode' = [c \in Chips |-> 1]
              /\ imr' = bios
<1> DEFINE a == Head(code.main)
<1>1. /\ irq = NoLine /\ code.main # <<>> /\ iflag' = iflag /\ irq' = irq /\ bios' = bios
      /\ op' = IF Len(code.main) = 1 THEN Idle ELSE op
  BY DEF MainAccess
<1>2. PICK m \in 0..255, s \in 0..255, done \in 0..9 : Sent(m, s, done)
  BY DEF PortsInv, MainInv, Initializing
<1>3. iflag = FALSE /\ 9 \in bios /\ bios \subseteq 0..15
      /\ wiring = [master |-> 4, slave |-> 2] /\ mode = [c \in Chips |-> 1]
  BY DEF PortsInv, MainInv, TypeOK, DriverTypeOK
<1>4. code.main \in Seq(Accesses)
  BY DEF PortsInv, TypeOK, DriverTypeOK
<1>5. /\ a = code.main[1] /\ Len(Tail(code.main)) = Len(code.main) - 1
      /\ \A k \in 1..Len(Tail(code.main)) : Tail(code.main)[k] = code.main[k + 1]
  BY <1>1, <1>4, FirstAccess
<1>6. /\ Len(code.main) = 10 - done
      /\ \A k \in 1..(10 - done) : code.main[k] = Words(m, s)[done + k]
  BY <1>2 DEF Sent
<1>7. a = Words(m, s)[done + 1]
  <2>1. 1 \in 1..(10 - done)
    OBVIOUS
  <2> QED BY <1>5, <1>6, <2>1
<1>8. a.kind = "out"
  <2>1. done + 1 \in 1..10
    OBVIOUS
  <2> QED BY <1>7, <2>1, WordsAreOut
<1>9. WritePort(a.port, a.value)
  BY <1>8 DEF MainAccess
<1>10. /\ stage' = StagesAfter(done + 1) /\ base' = BasesAfter(done + 1)
       /\ imr' = (MasksAfter(done + 1))' /\ isr' = {}
       /\ UNCHANGED <<wiring, mode>>
  <2>1. /\ LinesIn("master", m) = bios \cap Master /\ LinesIn("slave", s) = bios \cap Slave
        /\ stage = StagesAfter(done) /\ base = BasesAfter(done) /\ imr = MasksAfter(done)
        /\ isr = {}
    BY <1>2 DEF Sent
  <2> HIDE DEF a
  <2> QED BY <1>1, <1>3, <1>7, <1>9, <2>1, WordArrives
<1>11. TypeOK' /\ code'.main = Tail(code.main)
  BY MainAccessTypeOK DEF PortsInv
<1>12. HandlerInv'
  BY <1>1, <1>10 DEF HandlerInv
<1>13. CASE done < 9
  <2>1. Len(code'.main) = 10 - (done + 1)
    BY <1>5, <1>6, <1>11
  <2>2. \A k \in 1..(10 - (done + 1)) : code'.main[k] = Words(m, s)[(done + 1) + k]
    <3> SUFFICES ASSUME NEW k \in 1..(10 - (done + 1))
                 PROVE  code'.main[k] = Words(m, s)[(done + 1) + k]
      OBVIOUS
    <3>1. code'.main[k] = code.main[k + 1]
      BY <1>5, <1>11, <2>1
    <3>2. k + 1 \in 1..(10 - done) /\ done + (k + 1) = (done + 1) + k
      BY <1>13
    <3> QED BY <1>6, <3>1, <3>2
  <2>3. LinesIn("master", m) = bios' \cap Master /\ LinesIn("slave", s) = bios' \cap Slave
    BY <1>1, <1>2 DEF Sent
  <2>4. Sent(m, s, done + 1)'
    BY <1>10, <2>1, <2>2, <2>3 DEF Sent, StagesAfter, BasesAfter, MasksAfter
  <2>5. Initializing'
    <3>1. done + 1 \in 0..9
      BY <1>13
    <3> QED BY <2>4, <3>1, Zenon DEF Initializing
  <2>6. op' = op /\ op # Idle
    BY <1>1, <1>6, <1>13 DEF Idle, Operation
  <2>7. MainInv'
    BY <1>1, <1>3, <1>10, <2>5, <2>6 DEF MainInv
  <2> QED BY <1>11, <1>12, <2>6, <2>7 DEF PortsInv
<1>14. CASE done = 9
  <2>1. op' = Idle /\ op'.name # "Initialize"
    BY <1>1, <1>6, <1>14 DEF Idle, Operation
  <2>2. code'.main = <<>>
    BY <1>1, <1>4, <1>6, <1>11, <1>14, FirstAccess
  <2>3. stage' = Ready /\ base' = [master |-> 32, slave |-> 40]
    BY <1>10, <1>14, AfterTheWords
  <2>4. imr' = bios
    BY <1>1, <1>3, <1>10, <1>14, MasksFollow DEF MasksAfter
  <2>5. (Initialized)'
    BY <2>3 DEF Initialized
  <2>6. MainInv'
    BY <1>1, <1>3, <1>10, <2>1, <2>2, <2>3, <2>4, <2>5 DEF MainInv, Ready
  <2> QED BY <1>3, <1>10, <1>11, <1>12, <2>3, <2>4, <2>6 DEF PortsInv
<1> QED BY <1>13, <1>14


-----------------------------------------------------------------------------
(* The other operations.                                                   *)
(* A harmless access on ready chips keeps them ready, their vectors, and   *)
(* line 8 or 9 masked; it ends no interrupt when none is in service.       *)
LEMMA HarmlessWrite ==
  ASSUME ChipTypeOK, NEW a \in Accesses, a.kind = "out", Harmless(a), stage = Ready,
         isr = {}, 8 \in imr \/ 9 \in imr, WritePort(a.port, a.value)
  PROVE  /\ UNCHANGED <<stage, base, wiring, mode>>
         /\ isr' = {}
         /\ 8 \in imr' \/ 9 \in imr'
<1>1. a.port \in 0..255 /\ a.value \in 0..255
  BY AccessParts
<1>2. ASSUME NEW chip \in Chips, WriteCommand(chip, a.value), a.value \in {10, 11, 33}
      PROVE  UNCHANGED <<stage, base, wiring, mode, imr>> /\ isr' = {}
  <2>1. CASE a.value \in {10, 11}
    BY <1>2, <2>1, SelectCommand DEF picVars
  <2>2. CASE a.value = 33
    <3>1. EndOfInterrupt(LinesOf(chip)) /\ UNCHANGED <<stage, shown, wiring, mode>>
      BY <1>2, <2>2, EoiCommand
    <3> QED BY <3>1 DEF EndOfInterrupt
  <2> QED BY <1>2, <2>1, <2>2
<1>3. ASSUME NEW chip \in Chips, WriteData(chip, a.value)
      PROVE  /\ UNCHANGED <<stage, base, wiring, mode, isr>>
             /\ imr' = (imr \ LinesOf(chip)) \cup LinesIn(chip, a.value)
  <2>1. stage[chip] = "ready"
    BY DEF Ready
  <2> QED BY <1>3, <2>1 DEF WriteData
<1>4. CASE a.port = 32 \/ a.port = 160
  <2>1. a.value \in {10, 11, 33}
    BY <1>4 DEF Harmless
  <2>2. WriteCommand("master", a.value) \/ WriteCommand("slave", a.value)
    BY <1>4, PortWritten
  <2> QED BY <1>2, <2>1, <2>2, ChipConstants
<1>5. CASE a.port = 33
  <2>1. WriteData("master", a.value)
    BY <1>5, PortWritten
  <2>2. /\ UNCHANGED <<stage, base, wiring, mode, isr>>
        /\ imr' = (imr \ Master) \cup LinesIn("master", a.value)
    BY <1>3, <2>1, ChipConstants
  <2>3. 8 \notin Master /\ 9 \notin Master
    BY DEF Master
  <2> QED BY <2>2, <2>3
<1>6. CASE a.port = 161
  <2>1. WriteData("slave", a.value)
    BY <1>6, PortWritten
  <2>2. /\ UNCHANGED <<stage, base, wiring, mode, isr>>
        /\ imr' = (imr \ Slave) \cup LinesIn("slave", a.value)
    BY <1>3, <2>1, ChipConstants
  <2>3. a.value \in {33, 161}
    BY <1>6 DEF Harmless
  <2>4. 8 \in LinesIn("slave", a.value)
    <3>1. Bit(a.value, 0)
      BY <2>3, Weights DEF Bit
    <3> QED BY <3>1 DEF LinesIn, LinesOf, First, Slave
  <2> QED BY <2>2, <2>4
<1>7. CASE a.port \notin {32, 33, 160, 161}
  <2>1. UNCHANGED chipVars
    BY <1>7, PortWritten
  <2> QED BY <2>1 DEF chipVars, picVars
<1> QED BY <1>1, <1>4, <1>5, <1>6, <1>7

LEMMA OperationAccess ==
  ASSUME PortsInv, MainAccess, op.name # "Initialize"
  PROVE  PortsInv'
<1> DEFINE a == Head(code.main)
<1>1. /\ irq = NoLine /\ code.main # <<>> /\ iflag' = iflag /\ irq' = irq /\ bios' = bios
      /\ op' \in {Idle, op}
  BY DEF MainAccess
<1>2. code.main \in Seq(Accesses)
  BY DEF PortsInv, TypeOK, DriverTypeOK
<1>3. /\ a = code.main[1] /\ a \in Accesses /\ Len(code.main) \in Nat /\ Len(code.main) >= 1
      /\ Len(Tail(code.main)) = Len(code.main) - 1
      /\ \A k \in 1..Len(Tail(code.main)) : Tail(code.main)[k] = code.main[k + 1]
  BY <1>1, <1>2, FirstAccess
<1>4. /\ Initialized /\ stage = Ready /\ (8 \in imr \/ 9 \in imr)
      /\ \A k \in 1..Len(code.main) : Harmless(code.main[k])
      /\ 9 \in bios /\ wiring = [master |-> 4, slave |-> 2] /\ mode = [c \in Chips |-> 1]
  BY <1>1 DEF PortsInv, MainInv
<1>5. isr = {}
  BY <1>1 DEF PortsInv, HandlerInv
<1>6. Harmless(a)
  BY <1>3, <1>4
<1>7. /\ UNCHANGED <<stage, base, wiring, mode>>
      /\ isr' = {} /\ (8 \in imr' \/ 9 \in imr')
  <2>1. CASE a.kind = "out"
    <3>1. WritePort(a.port, a.value)
      BY <2>1 DEF MainAccess
    <3>2. ChipTypeOK
      BY DEF PortsInv, TypeOK
    <3> HIDE DEF a
    <3> QED BY <1>3, <1>4, <1>5, <1>6, <2>1, <3>1, <3>2, HarmlessWrite
  <2>2. CASE a.kind # "out"
    <3>1. UNCHANGED chipVars
      BY <2>2 DEF MainAccess
    <3> QED BY <1>4, <1>5, <3>1 DEF chipVars, picVars
  <2> QED BY <2>1, <2>2
<1>8. TypeOK' /\ code'.main = Tail(code.main)
  BY MainAccessTypeOK DEF PortsInv
<1>9. op'.name # "Initialize"
  BY <1>1 DEF Idle, Operation
<1>10. \A k \in 1..Len(code'.main) : Harmless(code'.main[k])
  <2> SUFFICES ASSUME NEW k \in 1..Len(code'.main) PROVE Harmless(code'.main[k])
    OBVIOUS
  <2>1. k + 1 \in 1..Len(code.main) /\ code'.main[k] = code.main[k + 1]
    BY <1>3, <1>8
  <2> QED BY <1>4, <2>1
<1>11. (\A k \in 1..Len(code.main) : Harmless(code.main[k]))'
  BY <1>10 DEF Harmless
<1>12. MainInv'
  BY <1>1, <1>4, <1>7, <1>9, <1>11 DEF MainInv, Initialized, Ready
<1>13. HandlerInv'
  BY <1>1, <1>7 DEF HandlerInv
<1> QED BY <1>8, <1>12, <1>13 DEF PortsInv


-----------------------------------------------------------------------------
(* The handler.                                                            *)
LEMMA EoiSequences ==
  /\ EoiMaster \in Seq(Accesses) /\ Len(EoiMaster) = 1 /\ Tail(EoiMaster) = <<>>
  /\ Head(EoiMaster) = Out(32, 32)
  /\ EoiSlave \o EoiMaster \in Seq(Accesses) /\ EoiSlave \o EoiMaster # <<>>
  /\ Head(EoiSlave \o EoiMaster) = Out(160, 32) /\ Tail(EoiSlave \o EoiMaster) = EoiMaster
<1> DEFINE a == Out(160, 32)
<1> DEFINE b == Out(32, 32)
<1>1. a \in Accesses /\ b \in Accesses
  BY OutIsAccess
<1>2. EoiMaster = <<b>> /\ EoiSlave = <<a>>
  BY DEF EoiMaster, EoiSlave, PIC_MASTER_COMMAND, PIC_SLAVE_COMMAND
<1> HIDE DEF a, b
<1>3. <<a>> \o <<b>> = <<a, b>>
  <2>1. /\ <<a>> \in Seq(Accesses) /\ <<b>> \in Seq(Accesses) /\ <<a, b>> \in Seq(Accesses)
        /\ Len(<<a>>) = 1 /\ Len(<<b>>) = 1 /\ Len(<<a, b>>) = 2
        /\ <<a>>[1] = a /\ <<b>>[1] = b /\ <<a, b>>[1] = a /\ <<a, b>>[2] = b
    BY <1>1
  <2> DEFINE s == <<a>>
  <2> DEFINE t == <<b>>
  <2> DEFINE c == <<a, b>>
  <2> HIDE DEF s, t, c
  <2>2. s \o t \in Seq(Accesses) /\ Len(s \o t) = 2 /\ (s \o t)[1] = a /\ (s \o t)[2] = b
    <3>1. /\ s \o t \in Seq(Accesses) /\ Len(s \o t) = 2
          /\ \A i \in 1..2 : (s \o t)[i] = IF i <= 1 THEN s[i] ELSE t[i - 1]
      BY <2>1, ConcatProperties DEF s, t
    <3>2. s[1] = a /\ t[1] = b
      BY <2>1 DEF s, t
    <3> QED BY <3>1, <3>2
  <2>3. c \in Seq(Accesses) /\ Len(c) = 2 /\ c[1] = a /\ c[2] = b
    BY <2>1 DEF c
  <2>4. s \o t = c
    BY <2>2, <2>3, SeqEqual
  <2> QED BY <2>4 DEF s, t, c
<1>4. /\ <<a, b>> \in Seq(Accesses) /\ <<a, b>> # <<>>
      /\ Head(<<a, b>>) = a /\ Tail(<<a, b>>) = <<b>>
  BY <1>1
<1>5. EoiMaster \in Seq(Accesses) /\ Len(EoiMaster) = 1 /\ Tail(EoiMaster) = <<>>
      /\ Head(EoiMaster) = b
  BY <1>1, <1>2, OneAccess
<1>6. EoiSlave \o EoiMaster = <<a, b>>
  BY <1>2, <1>3
<1> QED BY <1>2, <1>4, <1>5, <1>6 DEF a, b

LEMMA ReadIsrSequence ==
  /\ ReadIsrAccesses \in Seq(Accesses) /\ Len(ReadIsrAccesses) = 4
  /\ ReadIsrAccesses[1] = Out(32, 11) /\ ReadIsrAccesses[2] = Out(160, 11)
  /\ ReadIsrAccesses[3] = In(32) /\ ReadIsrAccesses[4] = In(160)
<1> DEFINE a == Out(32, 11)
<1> DEFINE b == Out(160, 11)
<1> DEFINE c == In(32)
<1> DEFINE d == In(160)
<1>1. a \in Accesses /\ b \in Accesses /\ c \in Accesses /\ d \in Accesses
  BY DEF Out, In, Accesses
<1>2. ReadIsrAccesses = <<a, b, c, d>>
  BY DEF ReadIsrAccesses, ReadRegister, PIC_MASTER_COMMAND, PIC_SLAVE_COMMAND
<1> HIDE DEF a, b, c, d
<1>3. /\ <<a, b, c, d>> \in Seq(Accesses) /\ Len(<<a, b, c, d>>) = 4
      /\ <<a, b, c, d>>[1] = a /\ <<a, b, c, d>>[2] = b
      /\ <<a, b, c, d>>[3] = c /\ <<a, b, c, d>>[4] = d
  BY <1>1
<1> QED BY <1>2, <1>3 DEF a, b, c, d

LEMMA KeepTypeOK ==
  ASSUME TypeOK, UNCHANGED <<imr, base, stage, shown, wiring, mode, op, bios>>,
         irr' \subseteq Devices, isr' \subseteq Devices \cup {Cascade},
         iflag' \in BOOLEAN, irq' \in 0..NoLine,
         code' \in [main : Seq(Accesses), handler : Seq(Accesses)], seen' \subseteq 0..15
  PROVE  TypeOK'
<1>1. ChipTypeOK'
  BY DEF TypeOK, ChipTypeOK, PicTypeOK
<1>2. DriverTypeOK'
  BY DEF TypeOK, DriverTypeOK
<1> QED BY <1>1, <1>2 DEF TypeOK

(* An interrupt starts with nothing in service, and with ready chips.      *)
LEMMA HandlePortsInv ==
  ASSUME PortsInv, NEW i \in Devices \cup {7, 15}, Handle(i),
         irr' \subseteq Devices, isr' \subseteq Devices \cup {Cascade}, UNCHANGED <<imr, base>>,
         \/ ChecksIsr(i) /\ isr' \in {{}, {7}} /\ i = 7
         \/ ChecksIsr(i) /\ isr' \in {{2}, {2, 15}} /\ i = 15
         \/ ~ChecksIsr(i) /\ i \in Master /\ isr' = {i}
         \/ ~ChecksIsr(i) /\ i \in Slave /\ isr' = {Cascade, i}
  PROVE  PortsInv'
<1>1. /\ irq = NoLine /\ iflag /\ irq' = i /\ iflag' = FALSE /\ seen' = {}
      /\ code' = [code EXCEPT !.handler = IF ChecksIsr(i) THEN ReadIsrAccesses ELSE Eois(i)]
      /\ UNCHANGED <<stage, shown, wiring, mode, op, bios>>
  BY DEF Handle
<1>2. i \in 0..15 /\ i # NoLine
  BY DEF NoLine
<1>3. isr = {} /\ Initialized /\ op.name # "Initialize"
  BY <1>1 DEF PortsInv, HandlerInv, MainInv
<1>4. (IF ChecksIsr(i) THEN ReadIsrAccesses ELSE Eois(i)) \in Seq(Accesses)
  BY <1>2, ReadIsrSequence, OperationAccesses
<1>5. /\ code'.main = code.main
      /\ code'.handler = IF ChecksIsr(i) THEN ReadIsrAccesses ELSE Eois(i)
      /\ code' \in [main : Seq(Accesses), handler : Seq(Accesses)]
  BY <1>1, <1>4 DEF PortsInv, TypeOK, DriverTypeOK
<1>6. TypeOK'
  <2>1. iflag' \in BOOLEAN /\ seen' \subseteq 0..15
    BY <1>1
  <2>2. irq' \in 0..NoLine
    BY <1>1, <1>2 DEF NoLine
  <2> QED BY <1>1, <1>5, <2>1, <2>2, KeepTypeOK DEF PortsInv
<1>7. MainInv'
  BY <1>1, <1>3, <1>5, KeepMainInv DEF PortsInv
<1>8. Checking' \/ Ending'
  <2>1. CASE ChecksIsr(i)
    <3>1. isr' = IF i = 7 THEN isr' \cap {7} ELSE {2} \cup (isr' \cap {15})
      <4>1. CASE i = 7 /\ isr' \in {{}, {7}}
        BY <4>1
      <4>2. CASE i = 15 /\ isr' \in {{2}, {2, 15}}
        BY <4>2
      <4> QED BY <2>1, <4>1, <4>2
    <3>2. /\ code'.handler = ReadIsrAccesses /\ Len(code'.handler) = 4
      BY <1>5, <2>1, ReadIsrSequence
    <3>3. /\ Len(code'.handler) \in 1..4
          /\ \A k \in 1..Len(code'.handler) :
               code'.handler[k] = ReadIsrAccesses[4 - Len(code'.handler) + k]
      BY <3>2
    <3>4. (ChecksIsr(irq))'
      BY <1>1, <2>1 DEF ChecksIsr
    <3> QED BY <1>1, <3>1, <3>2, <3>3, <3>4 DEF Checking, ReadIsrAccesses, ReadRegister, In, Out
  <2>2. CASE ~ChecksIsr(i) /\ i \in Master /\ isr' = {i}
    <3>1. code'.handler = EoiMaster
      BY <1>5, <2>2 DEF Eois, Master
    <3> QED BY <1>1, <2>2, <3>1 DEF Ending, EoiMaster, Out, Master
  <2>3. CASE ~ChecksIsr(i) /\ i \in Slave /\ isr' = {Cascade, i}
    <3>1. code'.handler = EoiSlave \o EoiMaster
      BY <1>5, <2>3 DEF Eois, Slave
    <3> QED BY <1>1, <2>3, <3>1 DEF Ending, EoiMaster, EoiSlave, Out
  <2> QED BY <2>1, <2>2, <2>3
<1>9. HandlerInv'
  BY <1>1, <1>2, <1>8 DEF HandlerInv
<1> QED BY <1>6, <1>7, <1>9 DEF PortsInv

LEMMA AcceptMasterPortsInv ==
  ASSUME PortsInv, NEW i \in Devices, AcceptMaster(i)
  PROVE  PortsInv'
<1>1. i \in MasterRequests \ {Cascade} /\ Acknowledge(i) /\ Handle(i)
  BY DEF AcceptMaster, Highest
<1>2. isr' = {i} /\ irr' \subseteq Devices /\ UNCHANGED <<imr, base>>
  BY <1>1 DEF Acknowledge, Handle, PortsInv, HandlerInv, TypeOK, ChipTypeOK, PicTypeOK
<1>3. i \in Master
  BY <1>1 DEF MasterRequests, CascadeRequest
<1>4. i # 15
  BY <1>3 DEF Master
<1> QED BY <1>1, <1>2, <1>3, <1>4, HandlePortsInv DEF ChecksIsr

LEMMA AcceptSlavePortsInv ==
  ASSUME PortsInv, NEW i \in Devices, AcceptSlave(i)
  PROVE  PortsInv'
<1>1. /\ i \in SlaveRequests /\ isr' = isr \cup {Cascade, i} /\ irr' = irr \ {i}
      /\ UNCHANGED <<imr, base>> /\ Handle(i)
  BY DEF AcceptSlave, Highest
<1>2. isr' = {Cascade, i} /\ irr' \subseteq Devices
  BY <1>1 DEF Handle, PortsInv, HandlerInv, TypeOK, ChipTypeOK, PicTypeOK
<1>3. i \in Slave /\ i # 7
  BY <1>1 DEF SlaveRequests, Slave
<1>4. CASE i = 15
  <2>1. isr' = {2, 15} /\ ChecksIsr(i)
    BY <1>2, <1>4 DEF Cascade, ChecksIsr
  <2> QED BY <1>1, <1>2, <1>4, <2>1, HandlePortsInv
<1>5. CASE i # 15
  <2>1. ~ChecksIsr(i)
    BY <1>3, <1>5 DEF ChecksIsr
  <2> QED BY <1>1, <1>2, <1>3, <2>1, HandlePortsInv
<1> QED BY <1>4, <1>5

LEMMA AcceptSpuriousPortsInv ==
  ASSUME PortsInv, AcceptSpuriousMaster \/ AcceptSpuriousSlave
  PROVE  PortsInv'
<1>1. irr \subseteq Devices
  BY DEF PortsInv, TypeOK, ChipTypeOK, PicTypeOK
<1>2. CASE AcceptSpuriousMaster
  <2>1. Handle(7) /\ UNCHANGED <<irr, isr, imr, base>>
    BY <1>2 DEF AcceptSpuriousMaster, picVars
  <2>2. isr' = {} /\ ChecksIsr(7)
    BY <2>1 DEF Handle, PortsInv, HandlerInv, ChecksIsr
  <2> QED BY <1>1, <2>1, <2>2, HandlePortsInv
<1>3. CASE AcceptSpuriousSlave
  <2>1. Handle(15) /\ isr' = isr \cup {Cascade} /\ UNCHANGED <<irr, imr, base>>
    BY <1>3 DEF AcceptSpuriousSlave
  <2>2. isr' = {2} /\ ChecksIsr(15)
    BY <2>1 DEF Handle, PortsInv, HandlerInv, ChecksIsr, Cascade
  <2> QED BY <1>1, <2>1, <2>2, HandlePortsInv
<1> QED BY <1>2, <1>3


LEMMA PortsRead ==
  /\ ReadPort(32) = (IF shown["master"] = "isr" THEN isr ELSE irr) \cap Master
  /\ ReadPort(160) = (IF shown["slave"] = "isr" THEN isr ELSE irr) \cap Slave
<1>1. (CHOOSE c \in Chips : 32 = CommandPort[c]) = "master"
  BY ChipConstants
<1>2. (CHOOSE c \in Chips : 160 = CommandPort[c]) = "slave"
  BY ChipConstants
<1> QED BY <1>1, <1>2, ChipConstants DEF ReadPort

LEMMA HandlerAccessParts ==
  ASSUME TypeOK, HandlerAccess
  PROVE  /\ irq # NoLine /\ irq \in 0..15 /\ irq' = irq /\ code'.main = code.main
         /\ UNCHANGED <<iflag, op, bios>>
         /\ code.handler \in Seq(Accesses) /\ code.handler # <<>>
         /\ Head(code.handler) \in Accesses
         /\ Head(code.handler).kind = "out" =>
              /\ WritePort(Head(code.handler).port, Head(code.handler).value)
              /\ seen' = seen
              /\ code'.handler = Tail(code.handler)
         /\ Head(code.handler).kind = "in" =>
              /\ seen' = seen \cup ReadPort(Head(code.handler).port)
              /\ UNCHANGED chipVars
              /\ Tail(code.handler) # <<>> => code'.handler = Tail(code.handler)
              /\ Tail(code.handler) = <<>> =>
                   code'.handler = IF irq \in seen' THEN Eois(irq)
                                   ELSE IF irq = 15 THEN EoiMaster
                                   ELSE <<>>
<1>1. code \in [main : Seq(Accesses), handler : Seq(Accesses)] /\ irq \in 0..16
  BY DEF TypeOK, DriverTypeOK, NoLine
<1>2. code.handler \in Seq(Accesses) /\ code.handler # <<>> /\ irq # NoLine
  BY <1>1 DEF HandlerAccess
<1>3. irq \in 0..15
  BY <1>1, <1>2 DEF NoLine
<1>4. Head(code.handler) \in Accesses
  BY <1>2, FirstAccess
<1> DEFINE rest == Tail(code.handler)
<1> DEFINE a == Head(code.handler)
<1> DEFINE next == IF ~(a.kind = "in" /\ rest = <<>>) THEN rest
                   ELSE IF irq \in seen' THEN Eois(irq)
                   ELSE IF irq = 15 THEN EoiMaster
                   ELSE <<>>
<1>5. /\ code' = [code EXCEPT !.handler = next]
      /\ UNCHANGED <<iflag, op, irq, bios>>
      /\ \/ a.kind = "out" /\ WritePort(a.port, a.value) /\ UNCHANGED seen
         \/ /\ a.kind = "in"
            /\ seen' = seen \cup ReadPort(a.port)
            /\ UNCHANGED chipVars
  BY DEF HandlerAccess
<1> HIDE DEF next
<1>6. code'.main = code.main /\ code'.handler = next
  BY <1>1, <1>5
<1> QED BY <1>2, <1>3, <1>4, <1>5, <1>6 DEF next

LEMMA HandlerAccessTypeOK ==
  ASSUME TypeOK, HandlerAccess
  PROVE  TypeOK'
<1>1. ChipTypeOK
  BY DEF TypeOK
<1>2. isr \subseteq 0..15 /\ irr \subseteq 0..15
  BY <1>1 DEF ChipTypeOK, PicTypeOK, Cascade
<1>3. Head(code.handler).value \in 0..255 /\ Head(code.handler).kind \in {"in", "out"}
  BY HandlerAccessParts, AccessParts
<1>4. ChipTypeOK'
  <2>1. CASE Head(code.handler).kind = "out"
    BY <1>1, <1>3, <2>1, HandlerAccessParts, WriteTypeOK
  <2>2. CASE Head(code.handler).kind = "in"
    <3>1. UNCHANGED chipVars
      BY <2>2, HandlerAccessParts
    <3> QED BY <1>1, <3>1 DEF ChipTypeOK, PicTypeOK, chipVars, picVars
  <2> QED BY <1>3, <2>1, <2>2
<1>5. seen' \subseteq 0..15
  <2>1. \A port : ReadPort(port) \subseteq 0..15
    BY <1>2 DEF ReadPort
  <2> QED BY <1>3, <2>1, HandlerAccessParts DEF TypeOK, DriverTypeOK
<1>6. code'.handler \in Seq(Accesses)
  <2>1. Tail(code.handler) \in Seq(Accesses)
    BY HandlerAccessParts, FirstAccess
  <2>2. Eois(irq) \in Seq(Accesses) /\ EoiMaster \in Seq(Accesses) /\ <<>> \in Seq(Accesses)
    BY HandlerAccessParts, OperationAccesses, EoiSequences, EmptySeq
  <2> QED BY <1>3, <2>1, <2>2, HandlerAccessParts
<1>7. code' \in [main : Seq(Accesses), handler : Seq(Accesses)]
  <2>1. PICK next : code' = [code EXCEPT !.handler = next]
    BY DEF HandlerAccess
  <2>2. code \in [main : Seq(Accesses), handler : Seq(Accesses)]
    BY DEF TypeOK, DriverTypeOK
  <2>3. next = code'.handler
    BY <2>1, <2>2
  <2> QED BY <1>6, <2>1, <2>2, <2>3
<1>8. /\ iflag' \in BOOLEAN /\ irq' \in 0..NoLine /\ bios' \subseteq 0..15
      /\ op' \in [name : Operations, line : 0..15]
  BY HandlerAccessParts DEF TypeOK, DriverTypeOK
<1> QED BY <1>4, <1>5, <1>7, <1>8 DEF TypeOK, DriverTypeOK


(* PIC_Read_ISR: each chip is told to show its in-service register before  *)
(* it is read, and the answer decides which EOIs are due.                  *)
LEMMA CheckingAccess ==
  ASSUME PortsInv, HandlerAccess, Checking
  PROVE  /\ UNCHANGED <<imr, base, isr, stage, wiring, mode>>
         /\ (Checking \/ Ending)'
         /\ Head(code.handler).kind = "in" /\ Len(code.handler) = 1 => seen' = isr
<1>1. PICK n \in 1..4 : Len(code.handler) = n
  BY DEF Checking
<1>2. /\ ChecksIsr(irq) /\ isr = IF irq = 7 THEN isr \cap {7} ELSE {2} \cup (isr \cap {15})
      /\ \A k \in 1..n : code.handler[k] = ReadIsrAccesses[4 - n + k]
      /\ n <= 3 => shown["master"] = "isr"
      /\ n <= 2 => shown["slave"] = "isr"
      /\ seen = IF n = 1 THEN isr \cap Master ELSE {}
  BY <1>1 DEF Checking
<1>3. /\ irq \in 0..15 /\ irq' = irq /\ code.handler \in Seq(Accesses) /\ code.handler # <<>>
      /\ Head(code.handler).kind = "out" =>
           /\ WritePort(Head(code.handler).port, Head(code.handler).value)
           /\ seen' = seen
           /\ code'.handler = Tail(code.handler)
      /\ Head(code.handler).kind = "in" =>
           /\ seen' = seen \cup ReadPort(Head(code.handler).port)
           /\ UNCHANGED chipVars
           /\ Tail(code.handler) # <<>> => code'.handler = Tail(code.handler)
           /\ Tail(code.handler) = <<>> =>
                code'.handler = IF irq \in seen' THEN Eois(irq)
                                ELSE IF irq = 15 THEN EoiMaster
                                ELSE <<>>
  BY HandlerAccessParts DEF PortsInv
<1>4. /\ Head(code.handler) = code.handler[1]
      /\ Tail(code.handler) \in Seq(Accesses) /\ Len(Tail(code.handler)) = n - 1
      /\ \A k \in 1..Len(Tail(code.handler)) : Tail(code.handler)[k] = code.handler[k + 1]
      /\ n = 1 => Tail(code.handler) = <<>>
  BY <1>1, <1>3, FirstAccess
<1>5. code.handler[1] = ReadIsrAccesses[5 - n]
  <2>1. 1 \in 1..n /\ 4 - n + 1 = 5 - n
    OBVIOUS
  <2> QED BY <1>2, <2>1
<1>6. n > 1 => Tail(code.handler) # <<>>
  <2>1. Len(<<>>) = 0
    BY EmptySeq
  <2>2. n > 1 => n - 1 # 0
    OBVIOUS
  <2> QED BY <1>4, <2>1, <2>2
<1>7. \A k \in 1..(n - 1) : Tail(code.handler)[k] = ReadIsrAccesses[4 - (n - 1) + k]
  <2> SUFFICES ASSUME NEW k \in 1..(n - 1)
               PROVE  Tail(code.handler)[k] = ReadIsrAccesses[4 - (n - 1) + k]
    OBVIOUS
  <2>1. k + 1 \in 1..n /\ 4 - n + (k + 1) = 4 - (n - 1) + k
    OBVIOUS
  <2> QED BY <1>2, <1>4, <2>1
<1>8. shown \in [Chips -> {"irr", "isr"}] /\ isr \subseteq 0..15
  BY DEF PortsInv, TypeOK, ChipTypeOK, PicTypeOK, Cascade
<1>9. ASSUME n > 1, code'.handler = Tail(code.handler),
             UNCHANGED <<irr, isr, imr, base, stage, wiring, mode>>,
             n <= 4 => shown'["master"] = "isr",
             n <= 3 => shown'["slave"] = "isr",
             seen' = IF n = 2 THEN isr \cap Master ELSE {}
      PROVE  Checking'
  <2>1. Len(code'.handler) = n - 1 /\ n - 1 \in 1..4
    BY <1>4, <1>9
  <2>2. \A k \in 1..(n - 1) : code'.handler[k] = ReadIsrAccesses[4 - (n - 1) + k]
    BY <1>7, <1>9
  <2>3. (ChecksIsr(irq))'
    BY <1>2, <1>3 DEF ChecksIsr
  <2>4. /\ isr' = IF irq' = 7 THEN isr' \cap {7} ELSE {2} \cup (isr' \cap {15})
        /\ n - 1 <= 3 => shown'["master"] = "isr"
        /\ n - 1 <= 2 => shown'["slave"] = "isr"
        /\ seen' = IF n - 1 = 1 THEN isr' \cap Master ELSE {}
    BY <1>2, <1>3, <1>9
  <2> QED BY <2>1, <2>2, <2>3, <2>4 DEF Checking, ReadIsrAccesses, ReadRegister, Out, In, Master
<1>10. CASE n = 4
  <2>1. Head(code.handler) = Out(32, 11)
    BY <1>4, <1>5, <1>10, ReadIsrSequence
  <2>2. WriteCommand("master", 11) /\ seen' = seen /\ code'.handler = Tail(code.handler)
        /\ Head(code.handler).kind = "out"
    BY <1>3, <2>1, PortWritten DEF Out
  <2>3. shown' = [shown EXCEPT !["master"] = "isr"] /\ UNCHANGED <<picVars, stage, wiring, mode>>
    BY <2>2, SelectCommand DEF Chips
  <2>4. UNCHANGED <<irr, isr, imr, base, stage, wiring, mode>>
    BY <2>3 DEF picVars
  <2>5. shown'["master"] = "isr"
    BY <1>8, <2>3 DEF Chips
  <2>6. Checking'
    BY <1>2, <1>9, <1>10, <2>2, <2>4, <2>5
  <2> QED BY <2>2, <2>4, <2>6
<1>11. CASE n = 3
  <2>1. Head(code.handler) = Out(160, 11)
    BY <1>4, <1>5, <1>11, ReadIsrSequence
  <2>2. WriteCommand("slave", 11) /\ seen' = seen /\ code'.handler = Tail(code.handler)
        /\ Head(code.handler).kind = "out"
    BY <1>3, <2>1, PortWritten DEF Out
  <2>3. shown' = [shown EXCEPT !["slave"] = "isr"] /\ UNCHANGED <<picVars, stage, wiring, mode>>
    BY <2>2, SelectCommand DEF Chips
  <2>4. UNCHANGED <<irr, isr, imr, base, stage, wiring, mode>>
    BY <2>3 DEF picVars
  <2>5. shown'["master"] = "isr" /\ shown'["slave"] = "isr"
    BY <1>2, <1>8, <1>11, <2>3 DEF Chips
  <2>6. Checking'
    BY <1>2, <1>9, <1>11, <2>2, <2>4, <2>5
  <2> QED BY <2>2, <2>4, <2>6
<1>12. CASE n = 2
  <2>1. Head(code.handler) = In(32)
    BY <1>4, <1>5, <1>12, ReadIsrSequence
  <2>2. /\ seen' = seen \cup ReadPort(32) /\ UNCHANGED chipVars
        /\ code'.handler = Tail(code.handler)
    BY <1>3, <1>6, <1>12, <2>1 DEF In
  <2>3. UNCHANGED <<irr, isr, imr, base, stage, shown, wiring, mode>>
    BY <2>2 DEF chipVars, picVars
  <2>4. seen' = isr \cap Master
    BY <1>2, <1>12, <2>2, PortsRead
  <2>5. Checking'
    BY <1>2, <1>9, <1>12, <2>2, <2>3, <2>4
  <2> QED BY <1>1, <1>12, <2>3, <2>5
<1>13. CASE n = 1
  <2>1. Head(code.handler) = In(160)
    BY <1>4, <1>5, <1>13, ReadIsrSequence
  <2>2. /\ seen' = seen \cup ReadPort(160) /\ UNCHANGED chipVars
        /\ code'.handler = IF irq \in seen' THEN Eois(irq)
                           ELSE IF irq = 15 THEN EoiMaster
                           ELSE <<>>
    BY <1>3, <1>4, <1>13, <2>1 DEF In
  <2>3. UNCHANGED <<irr, isr, imr, base, stage, shown, wiring, mode>>
    BY <2>2 DEF chipVars, picVars
  <2>4. seen' = isr
    <3>1. seen = isr \cap Master /\ ReadPort(160) = isr \cap Slave
      BY <1>2, <1>13, PortsRead
    <3>2. \A i \in isr : i \in Master \/ i \in Slave
      BY <1>8 DEF Master, Slave
    <3> QED BY <2>2, <3>1, <3>2
  <2>5. irq = 7 \/ irq = 15
    BY <1>2 DEF ChecksIsr
  <2>6. Ending'
    <3>1. CASE irq = 7 /\ 7 \in isr
      <4>1. isr' = {7} /\ irq' = 7
        BY <1>2, <1>3, <2>3, <3>1
      <4>2. code'.handler = EoiMaster
        BY <2>2, <2>4, <3>1 DEF Eois
      <4> QED BY <4>1, <4>2 DEF Ending, Master, EoiMaster, Out
    <3>2. CASE irq = 7 /\ 7 \notin isr
      <4>1. isr' = {} /\ code'.handler = <<>>
        BY <1>2, <2>2, <2>3, <2>4, <3>2
      <4> QED BY <4>1 DEF Ending
    <3>3. CASE irq = 15 /\ 15 \in isr
      <4>1. isr' = {2, 15} /\ irq' = 15
        BY <1>2, <1>3, <2>3, <3>3
      <4>2. code'.handler = EoiSlave \o EoiMaster
        BY <2>2, <2>4, <3>3 DEF Eois
      <4> QED BY <4>1, <4>2 DEF Ending, Slave, Cascade, EoiMaster, EoiSlave, Out
    <3>4. CASE irq = 15 /\ 15 \notin isr
      <4>1. isr' = {2}
        BY <1>2, <2>3, <3>4
      <4>2. code'.handler = EoiMaster
        BY <2>2, <2>4, <3>4
      <4> QED BY <4>1, <4>2 DEF Ending, Cascade, EoiMaster, Out
    <3> QED BY <2>5, <3>1, <3>2, <3>3, <3>4
  <2> QED BY <2>3, <2>4, <2>6
<1> QED BY <1>10, <1>11, <1>12, <1>13

LEMMA HighestOfOne ==
  ASSUME NEW i \in Nat
  PROVE  Highest({i}) = {i}
BY DEF Highest

(* Each EOI takes out what is highest in service at its chip.              *)
LEMMA EndingAccess ==
  ASSUME PortsInv, HandlerAccess, Ending
  PROVE  /\ UNCHANGED <<imr, base, stage, wiring, mode>>
         /\ Ending'
         /\ Head(code.handler).kind = "out"
<1>1. /\ irq' = irq /\ code.handler # <<>>
      /\ Head(code.handler).kind = "out" =>
           /\ WritePort(Head(code.handler).port, Head(code.handler).value)
           /\ code'.handler = Tail(code.handler)
  BY HandlerAccessParts DEF PortsInv
<1>2. CASE irq \in Slave /\ isr = {Cascade, irq} /\ code.handler = EoiSlave \o EoiMaster
  <2>1. Head(code.handler) = Out(160, 32) /\ Tail(code.handler) = EoiMaster
    BY <1>2, EoiSequences
  <2>2. /\ Head(code.handler).kind = "out" /\ Head(code.handler).port = 160
        /\ Head(code.handler).value = 32
    BY <2>1 DEF Out
  <2>3. WriteCommand("slave", 32) /\ code'.handler = EoiMaster
    BY <1>1, <2>1, <2>2, PortWritten
  <2>4. EndOfInterrupt(Slave) /\ UNCHANGED <<stage, shown, wiring, mode>>
    BY <2>3, EoiCommand, ChipConstants
  <2>5. Highest(isr \cap Slave) = {irq} /\ Cascade # irq
    <3>1. Cascade \notin Slave
      BY DEF Cascade, Slave
    <3>2. isr \cap Slave = {irq} /\ Cascade # irq
      BY <1>2, <3>1
    <3>3. irq \in Nat
      BY <1>2 DEF Slave
    <3> QED BY <3>2, <3>3, HighestOfOne
  <2>6. isr' = {Cascade} /\ UNCHANGED <<imr, base>>
    BY <1>2, <2>4, <2>5 DEF EndOfInterrupt
  <2>7. Ending'
    BY <2>3, <2>6 DEF Ending, EoiMaster, Out
  <2> QED BY <2>2, <2>4, <2>6, <2>7
<1>3. CASE (isr = {Cascade} \/ (irq \in Master /\ isr = {irq})) /\ code.handler = EoiMaster
  <2>1. Head(code.handler) = Out(32, 32) /\ Tail(code.handler) = <<>>
    BY <1>3, EoiSequences
  <2>2. /\ Head(code.handler).kind = "out" /\ Head(code.handler).port = 32
        /\ Head(code.handler).value = 32
    BY <2>1 DEF Out
  <2>3. WriteCommand("master", 32) /\ code'.handler = <<>>
    BY <1>1, <2>1, <2>2, PortWritten
  <2>4. EndOfInterrupt(Master) /\ UNCHANGED <<stage, shown, wiring, mode>>
    BY <2>3, EoiCommand, ChipConstants
  <2>5. Highest(isr \cap Master) = isr
    <3>1. PICK i \in Master : isr = {i}
      BY <1>3 DEF Cascade, Master
    <3>2. isr \cap Master = {i}
      BY <3>1
    <3>3. i \in Nat
      BY DEF Master
    <3> QED BY <3>1, <3>2, <3>3, HighestOfOne
  <2>6. isr' = {} /\ UNCHANGED <<imr, base>>
    BY <2>4, <2>5 DEF EndOfInterrupt
  <2>7. Ending'
    BY <2>3, <2>6 DEF Ending
  <2> QED BY <2>2, <2>4, <2>6, <2>7
<1>4. \/ irq \in Slave /\ isr = {Cascade, irq} /\ code.handler = EoiSlave \o EoiMaster
      \/ (isr = {Cascade} \/ (irq \in Master /\ isr = {irq})) /\ code.handler = EoiMaster
  BY <1>1 DEF Ending
<1> QED BY <1>2, <1>3, <1>4

LEMMA HandlerAccessPortsInv ==
  ASSUME PortsInv, HandlerAccess
  PROVE  /\ PortsInv'
         /\ Head(code.handler).kind = "in" /\ Len(code.handler) = 1 => seen' = isr
<1>1. /\ irq # NoLine /\ irq' = irq /\ code'.main = code.main
      /\ UNCHANGED <<iflag, op, bios>>
  BY HandlerAccessParts DEF PortsInv
<1>2. iflag = FALSE /\ (Checking \/ Ending)
  BY <1>1 DEF PortsInv, HandlerInv
<1>3. /\ UNCHANGED <<imr, base, stage, wiring, mode>>
      /\ (Checking \/ Ending)'
      /\ Head(code.handler).kind = "in" /\ Len(code.handler) = 1 => seen' = isr
  BY <1>2, CheckingAccess, EndingAccess
<1>4. TypeOK'
  BY HandlerAccessTypeOK DEF PortsInv
<1>5. Initialized /\ op.name # "Initialize"
  BY <1>1 DEF PortsInv, MainInv
<1>6. MainInv'
  BY <1>1, <1>3, <1>5, KeepMainInv DEF PortsInv
<1>7. HandlerInv'
  BY <1>1, <1>2, <1>3 DEF HandlerInv
<1> QED BY <1>3, <1>4, <1>6, <1>7 DEF PortsInv


-----------------------------------------------------------------------------
(* Every step.                                                             *)
LEMMA NextInv == PortsInv /\ [Next]_vars => PortsInv'
<1> SUFFICES ASSUME PortsInv, [Next]_vars PROVE PortsInv'
  OBVIOUS
<1>1. CASE CallInitialize
  BY <1>1, CallInitializePortsInv
<1>2. CASE Enable_Interrupts
  BY <1>2, EnableInterruptsPortsInv
<1>3. CASE \/ CallReadIrr
           \/ \E i \in Lines : CallEnable(i) \/ CallDisable(i) \/ CallAcknowledge(i)
  BY <1>3, CallsPortsInv
<1>4. CASE EnableCascade
  BY <1>4, EnableCascadePortsInv
<1>5. CASE MainAccess
  BY <1>5, InitializeAccess, OperationAccess
<1>6. CASE \E i \in Devices : AcceptMaster(i) \/ AcceptSlave(i)
  BY <1>6, AcceptMasterPortsInv, AcceptSlavePortsInv
<1>7. CASE AcceptSpuriousMaster \/ AcceptSpuriousSlave
  BY <1>7, AcceptSpuriousPortsInv
<1>8. CASE HandlerAccess
  BY <1>8, HandlerAccessPortsInv
<1>9. CASE HandlerReturns
  BY <1>9, HandlerReturnsPortsInv
<1>10. CASE \E i \in Devices : DeviceRaises(i)
  BY <1>10, DeviceRaisesPortsInv
<1>11. CASE UNCHANGED vars
  <2>1. /\ UNCHANGED <<irr, isr, imr, base, stage, shown, wiring, mode>>
        /\ UNCHANGED <<iflag, op, code, irq, seen, bios>>
    BY <1>11 DEF vars, chipVars, picVars, cpuVars
  <2>2. TypeOK'
    BY <2>1, KeepTypeOK DEF PortsInv, TypeOK, ChipTypeOK, PicTypeOK, DriverTypeOK
  <2>3. MainInv'
    BY <2>1, KeepMainInv DEF PortsInv, MainInv
  <2>4. HandlerInv'
    BY <2>1 DEF PortsInv, HandlerInv, Checking, Ending
  <2> QED BY <2>2, <2>3, <2>4 DEF PortsInv
<1> QED BY <1>1, <1>2, <1>3, <1>4, <1>5, <1>6, <1>7, <1>8, <1>9, <1>10, <1>11
      DEF Next, Main, Interrupt

LEMMA PortsInvHolds == Spec => []PortsInv
<1> QED BY InitInv, NextInv, PTL DEF Spec

-----------------------------------------------------------------------------
(* What the driver promises, for every set of devices and every mask.      *)

(* The chips' registers, the driver's operation and the accesses it still  *)
(* has to do stay of their types (8259.c).                                 *)
THEOREM TypesAreKept == Spec => []TypeOK
<1>1. PortsInv => TypeOK
  BY DEF PortsInv
<1> QED BY <1>1, PortsInvHolds, PTL

(* No handler runs while a chip waits for a byte of its initialization:    *)
(* interrupts are enabled only after Initialize_8259_PIC, and nothing that *)
(* follows sends an ICW1 (kernel.c:60-81, 8259.c:48-79).                   *)
THEOREM HandlersMeetReadyChips == Spec => []HandlerMeetsReadyChips
<1>1. PortsInv => HandlerMeetsReadyChips
  BY DEF PortsInv, MainInv, HandlerMeetsReadyChips, Ready
<1> QED BY <1>1, PortsInvHolds, PTL

(* When no handler runs, nothing is in service: the commands of every      *)
(* handler, spurious interrupts included, end what the acknowledge cycle   *)
(* began (interrupt.c:150-180).                                            *)
THEOREM InterruptsAreEnded == Spec => []CommandsEndInterrupts
<1>1. PortsInv => CommandsEndInterrupts
  BY DEF PortsInv, HandlerInv, CommandsEndInterrupts
<1> QED BY <1>1, PortsInvHolds, PTL

(* What IRQ_Handler reads at the end of PIC_Read_ISR is what is in         *)
(* service, wherever the interrupt caught the main thread (8259.c:143-157).*)
THEOREM InServiceIsRead == Spec => HandlerReadsInService
<1>1. PortsInv /\ [Next]_vars =>
        [HandlerAccess /\ Head(code.handler).kind = "in" /\ Len(code.handler) = 1 =>
           seen' = isr]_vars
  BY HandlerAccessPortsInv
<1> QED BY <1>1, PortsInvHolds, PTL DEF Spec, HandlerReadsInService

(* The ten bytes of Initialize_8259_PIC program both chips and give them   *)
(* their masks back, whatever the masks were (8259.c:48-79).               *)
THEOREM ChipsAreProgrammed == Spec => InitializeProgramsTheChips
<1> DEFINE Programmed == op.name = "Initialize" /\ op' = Idle =>
             /\ stage' = [c \in Chips |-> "ready"]
             /\ base' = [master |-> 32, slave |-> 40]
             /\ wiring' = [master |-> Weight(Cascade), slave |-> Cascade]
             /\ mode' = [c \in Chips |-> 1]
             /\ imr' = bios
<1>1. ASSUME PortsInv, Next, op.name = "Initialize", op' = Idle
      PROVE  Programmed
  <2>1. op' # op
    BY <1>1 DEF Idle, Operation
  <2>2. irq = NoLine
    BY <1>1 DEF PortsInv, MainInv
  <2>3. MainAccess
    <3>1. ~CallInitialize /\ ~CallReadIrr /\ ~EnableCascade
          /\ \A i \in Lines : ~CallEnable(i) /\ ~CallDisable(i) /\ ~CallAcknowledge(i)
      BY <1>1 DEF CallInitialize, CallReadIrr, EnableCascade, CallEnable, CallDisable,
                  CallAcknowledge, Call, Idle, Operation
    <3>2. ~Enable_Interrupts
      BY <2>1 DEF Enable_Interrupts
    <3>3. ~HandlerAccess /\ ~HandlerReturns
      BY <2>2 DEF HandlerAccess, HandlerReturns
    <3>4. /\ ~AcceptSpuriousMaster /\ ~AcceptSpuriousSlave
          /\ \A i \in Devices : ~AcceptMaster(i) /\ ~AcceptSlave(i) /\ ~DeviceRaises(i)
      BY <2>1 DEF AcceptSpuriousMaster, AcceptSpuriousSlave, AcceptMaster, AcceptSlave,
                  Handle, DeviceRaises, cpuVars
    <3> QED BY <1>1, <3>1, <3>2, <3>3, <3>4 DEF Next, Main, Interrupt
  <2>4. /\ stage' = Ready /\ base' = [master |-> 32, slave |-> 40]
        /\ wiring' = [master |-> 4, slave |-> 2] /\ mode' = [c \in Chips |-> 1]
        /\ imr' = bios
    BY <1>1, <2>3, InitializeAccess
  <2>5. Weight(Cascade) = 4 /\ Cascade = 2
    BY Weights DEF Cascade
  <2> QED BY <2>4, <2>5 DEF Ready
<1>2. PortsInv /\ [Next]_vars => [Programmed]_vars
  BY <1>1
<1> QED BY <1>2, PortsInvHolds, PTL DEF Spec, InitializeProgramsTheChips
=============================================================================

------------------------------- MODULE PicPorts -------------------------------
(***************************************************************************)
(* The driver of the interrupt controllers (kernel/x86/isa/8259.c), one    *)
(* port access at a time, on chips that count the bytes they are sent: the *)
(* meaning of a byte depends on its port, on its bits, and on how far the  *)
(* chip has got in its initialization.  The operations that Pic8259 makes  *)
(* in one step are sequences of accesses here, and an interrupt, whose     *)
(* handler accesses the same ports, may come between two of them.          *)
(***************************************************************************)
EXTENDS Pic8259, Sequences

CONSTANTS
  MasterMasks, SlaveMasks,   \* the mask bytes the BIOS may leave
  Lines                      \* the arguments of Enable_8259_PIC and its kind

Weight(i)     == <<1, 2, 4, 8, 16, 32, 64, 128>>[i + 1]
Bit(value, i) == (value \div Weight(i)) % 2 = 1

(* Line 9 is masked, and neither it nor line 8 is ever enabled: the slave's*)
(* mask, which the operations below take for the port, is then never the   *)
(* number of a command port.  Their operand 161 would be the command for a *)
(* priority rotation there, which is not modelled.                         *)
ASSUME PicPortsAssumption ==
  /\ MasterMasks \subseteq 0..255
  /\ SlaveMasks \subseteq {value \in 0..255 : Bit(value, 1)}
  /\ Lines \subseteq (0..15) \ {8, 9}

VARIABLES
  stage,    \* the byte each chip waits for
  shown,    \* the register each chip shows at its command port
  wiring,   \* ICW3 of each chip
  mode,     \* ICW4 of each chip
  iflag,
  op,       \* the driver operation of the main thread
  code,     \* the port accesses still to do: of the main thread, the handler
  irq,      \* the line being handled, or NoLine
  seen,     \* what PIC_Read_ISR has read in the handler
  bios      \* history: the masks before initialization

chipVars == <<picVars, stage, shown, wiring, mode>>
cpuVars  == <<iflag, op, code, irq, seen, bios>>
vars     == <<chipVars, cpuVars>>

NoLine == 16

Chips == {"master", "slave"}
LinesOf(chip) == IF chip = "master" THEN Master ELSE Slave

PIC_MASTER_COMMAND == 32
PIC_MASTER_DATA    == 33
PIC_SLAVE_COMMAND  == 160
PIC_SLAVE_DATA     == 161

CommandPort == [master |-> PIC_MASTER_COMMAND, slave |-> PIC_SLAVE_COMMAND]
DataPort    == [master |-> PIC_MASTER_DATA, slave |-> PIC_SLAVE_DATA]

(* The mask register of a chip, as a byte and as a set of lines.           *)
First(chip) == IF chip = "master" THEN 0 ELSE 8

MaskByte(chip) ==
  LET bit(k) == IF First(chip) + k \in imr THEN Weight(k) ELSE 0
  IN  bit(0) + bit(1) + bit(2) + bit(3) + bit(4) + bit(5) + bit(6) + bit(7)

LinesIn(chip, value) == {i \in LinesOf(chip) : Bit(value, i - First(chip))}

Operations == {"idle", "Initialize", "ReadIrr", "Enable", "EnableSlave",
               "Disable", "Acknowledge"}

Accesses == [kind : {"out"}, port : 0..255, value : 0..255]
              \cup [kind : {"in"}, port : 0..255, value : {0}]

ChipTypeOK ==
  /\ PicTypeOK
  /\ stage \in [Chips -> {"icw2", "icw3", "icw4", "ready"}]
  /\ shown \in [Chips -> {"irr", "isr"}]
  /\ wiring \in [Chips -> 0..255] /\ mode \in [Chips -> 0..255]

DriverTypeOK ==
  /\ iflag \in BOOLEAN
  /\ op \in [name : Operations, line : 0..15]
  /\ code \in [main : Seq(Accesses), handler : Seq(Accesses)]
  /\ irq \in 0..NoLine
  /\ seen \subseteq 0..15
  /\ bios \subseteq 0..15

TypeOK == ChipTypeOK /\ DriverTypeOK

-----------------------------------------------------------------------------
(* The chips.                                                              *)
(* ICW1 resets a chip and clears its mask.                                 *)
Icw1(chip) ==
  /\ stage' = [stage EXCEPT ![chip] = "icw2"]
  /\ shown' = [shown EXCEPT ![chip] = "irr"]
  /\ irr' = irr \ LinesOf(chip)
  /\ isr' = isr \ LinesOf(chip)
  /\ imr' = imr \ LinesOf(chip)
  /\ UNCHANGED <<base, wiring, mode>>

Ocw2(chip) ==
  /\ EndOfInterrupt(LinesOf(chip))
  /\ UNCHANGED <<stage, shown, wiring, mode>>

Ocw3(chip, value) ==
  /\ shown' = [shown EXCEPT ![chip] = IF Bit(value, 0) THEN "isr" ELSE "irr"]
  /\ UNCHANGED <<picVars, stage, wiring, mode>>

WriteCommand(chip, value) ==
  \/ Bit(value, 4) /\ Icw1(chip)
  \/ ~Bit(value, 4) /\ Bit(value, 3) /\ Ocw3(chip, value)
  \/ ~Bit(value, 4) /\ ~Bit(value, 3) /\ Ocw2(chip)

WriteData(chip, value) ==
  \/ /\ stage[chip] = "icw2"
     /\ base' = [base EXCEPT ![chip] = value]
     /\ stage' = [stage EXCEPT ![chip] = "icw3"]
     /\ UNCHANGED <<irr, isr, imr, shown, wiring, mode>>
  \/ /\ stage[chip] = "icw3"
     /\ wiring' = [wiring EXCEPT ![chip] = value]
     /\ stage' = [stage EXCEPT ![chip] = "icw4"]
     /\ UNCHANGED <<picVars, shown, mode>>
  \/ /\ stage[chip] = "icw4"
     /\ mode' = [mode EXCEPT ![chip] = value]
     /\ stage' = [stage EXCEPT ![chip] = "ready"]
     /\ UNCHANGED <<picVars, shown, wiring>>
  \/ /\ stage[chip] = "ready"
     /\ imr' = (imr \ LinesOf(chip)) \cup LinesIn(chip, value)
     /\ UNCHANGED <<irr, isr, base, stage, shown, wiring, mode>>

(* outb: a port of a chip, or one that belongs to another device.          *)
WritePort(port, value) ==
  \/ \E chip \in Chips : port = CommandPort[chip] /\ WriteCommand(chip, value)
  \/ \E chip \in Chips : port = DataPort[chip] /\ WriteData(chip, value)
  \/ /\ \A chip \in Chips : port \notin {CommandPort[chip], DataPort[chip]}
     /\ UNCHANGED chipVars

(* inb of a command port, the only kind that is left to the accesses.      *)
ReadPort(port) ==
  LET chip == CHOOSE c \in Chips : port = CommandPort[c]
  IN  (IF shown[chip] = "isr" THEN isr ELSE irr) \cap LinesOf(chip)

-----------------------------------------------------------------------------
(* The driver's operations as sequences of port accesses.  A mask is read  *)
(* where the sequence is made: nothing changes it in between.              *)
Out(port, value) == [kind |-> "out", port |-> port, value |-> value]
In(port) == [kind |-> "in", port |-> port, value |-> 0]

(* Mutant: the chips get no ICW4.                                          *)
InitializeWithoutIcw4(masterBase, slaveBase) ==
  << Out(PIC_MASTER_COMMAND, 17), Out(PIC_SLAVE_COMMAND, 17),
     Out(PIC_MASTER_DATA, masterBase), Out(PIC_SLAVE_DATA, slaveBase),
     Out(PIC_MASTER_DATA, 4), Out(PIC_SLAVE_DATA, 2),
     Out(PIC_MASTER_DATA, MaskByte("master")),
     Out(PIC_SLAVE_DATA, MaskByte("slave")) >>

Initialize_8259_PIC(masterBase, slaveBase) ==
  << Out(PIC_MASTER_COMMAND, 17), Out(PIC_SLAVE_COMMAND, 17),
     Out(PIC_MASTER_DATA, masterBase), Out(PIC_SLAVE_DATA, slaveBase),
     Out(PIC_MASTER_DATA, 4), Out(PIC_SLAVE_DATA, 2),
     Out(PIC_MASTER_DATA, 1), Out(PIC_SLAVE_DATA, 1),
     Out(PIC_MASTER_DATA, MaskByte("master")),
     Out(PIC_SLAVE_DATA, MaskByte("slave")) >>

ReadRegister(command) ==
  << Out(PIC_MASTER_COMMAND, command), Out(PIC_SLAVE_COMMAND, command),
     In(PIC_MASTER_COMMAND), In(PIC_SLAVE_COMMAND) >>

PIC_Read_IRR == ReadRegister(10)

(* Mutant: the selection is left to whoever read last.                     *)
ReadIsrUnselected == << In(PIC_MASTER_COMMAND), In(PIC_SLAVE_COMMAND) >>

ReadIsrAccesses == ReadRegister(11)

(* The next three pass port and value to outb in the wrong order, so that  *)
(* the mask, or a command, is the port.  To enable a line of the slave is  *)
(* to enable the cascade line after it: see EnableCascade.                 *)
With(value, i) == IF Bit(value, i) THEN value ELSE value + Weight(i)
Without(value, i) == IF Bit(value, i) THEN value - Weight(i) ELSE value

Enable_8259_PIC(i) ==
  IF i < 8
    THEN << Out(Without(MaskByte("master"), i), PIC_MASTER_DATA) >>
    ELSE << Out(Without(MaskByte("slave"), i - 8), PIC_SLAVE_DATA) >>

(* Mutant: the bit is added to the mask.                                   *)
DisableByAdding(i) ==
  IF i < 8
    THEN << Out(MaskByte("master") + Weight(i), PIC_MASTER_DATA) >>
    ELSE << Out(MaskByte("slave") + Weight(i - 8), PIC_SLAVE_DATA) >>

Disable_8259_PIC(i) ==
  IF i < 8
    THEN << Out(With(MaskByte("master"), i), PIC_MASTER_DATA) >>
    ELSE << Out(With(MaskByte("slave"), i - 8), PIC_SLAVE_DATA) >>

Acknowledge_8259_PIC(i) ==
  IF i >= 8
    THEN << Out(96 + (i - 8), PIC_SLAVE_COMMAND), Out(96 + 2, PIC_MASTER_COMMAND) >>
    ELSE << Out(96 + i, PIC_MASTER_COMMAND) >>

EoiMaster == << Out(PIC_MASTER_COMMAND, 32) >>
EoiSlave  == << Out(PIC_SLAVE_COMMAND, 32) >>

(* Mutant: the master is forgotten for the slave's lines.                  *)
EoisToOneChip(i) == IF i >= 8 THEN EoiSlave ELSE EoiMaster

(* What IRQ_Handler does for line i: the EOIs at once, or PIC_Read_ISR     *)
(* first for the lines that may be spurious.                               *)
Eois(i) == IF i >= 8 THEN EoiSlave \o EoiMaster ELSE EoiMaster
ChecksIsr(i) == i \in {7, 15}

-----------------------------------------------------------------------------
(* The main thread.                                                        *)
Operation(name, i) == [name |-> name, line |-> i]
Idle == Operation("idle", 0)

Call(operation, accesses) ==
  /\ irq = NoLine
  /\ op = Idle
  /\ op' = operation
  /\ code' = [code EXCEPT !.main = accesses]
  /\ UNCHANGED <<chipVars, iflag, irq, seen, bios>>

Initialized == base # [master |-> 8, slave |-> 112]

(* Interrupt_Handler_Installer, before kmain enables interrupts.           *)
CallInitialize ==
  /\ ~Initialized
  /\ Call(Operation("Initialize", 0), Initialize_8259_PIC(32, 40))

(* Mutant: kmain enables interrupts before it installs the handlers.       *)
EnableInterruptsAnyTime ==
  /\ irq = NoLine
  /\ ~iflag
  /\ iflag' = TRUE
  /\ UNCHANGED <<chipVars, op, code, irq, seen, bios>>

Enable_Interrupts ==
  /\ irq = NoLine
  /\ ~iflag
  /\ op = Idle /\ Initialized
  /\ iflag' = TRUE
  /\ UNCHANGED <<chipVars, op, code, irq, seen, bios>>

CallReadIrr == Initialized /\ Call(Operation("ReadIrr", 0), PIC_Read_IRR)
CallEnable(i) ==
  /\ Initialized
  /\ Call(Operation(IF i < 8 THEN "Enable" ELSE "EnableSlave", i), Enable_8259_PIC(i))

(* Enable_8259_PIC(2), with the master's mask as the first write left it.  *)
EnableCascade ==
  /\ irq = NoLine
  /\ op.name = "EnableSlave" /\ code.main = <<>>
  /\ op' = Operation("Enable", op.line)
  /\ code' = [code EXCEPT !.main = Enable_8259_PIC(Cascade)]
  /\ UNCHANGED <<chipVars, iflag, irq, seen, bios>>

CallDisable(i) == Initialized /\ Call(Operation("Disable", i), Disable_8259_PIC(i))
CallAcknowledge(i) == Initialized /\ Call(Operation("Acknowledge", i), Acknowledge_8259_PIC(i))

MainAccess ==
  /\ irq = NoLine
  /\ code.main # <<>>
  /\ LET a == Head(code.main)
     IN  IF a.kind = "out" THEN WritePort(a.port, a.value) ELSE UNCHANGED chipVars
  /\ code' = [code EXCEPT !.main = Tail(@)]
  /\ op' = IF Len(code.main) = 1 /\ op.name # "EnableSlave" THEN Idle ELSE op
  /\ UNCHANGED <<iflag, irq, seen, bios>>

-----------------------------------------------------------------------------
(* Interrupts.  The acknowledge cycle is one step here.                    *)
DeviceRaises(i) == Raise(i) /\ UNCHANGED <<stage, shown, wiring, mode, cpuVars>>

Handle(i) ==
  /\ irq = NoLine
  /\ iflag
  /\ irq' = i
  /\ iflag' = FALSE
  /\ seen' = {}
  /\ code' = [code EXCEPT !.handler = IF ChecksIsr(i) THEN ReadIsrAccesses ELSE Eois(i)]
  /\ UNCHANGED <<stage, shown, wiring, mode, op, bios>>

AcceptMaster(i) ==
  /\ i \in Highest(MasterRequests) \ {Cascade}
  /\ Acknowledge(i)
  /\ Handle(i)

AcceptSlave(i) ==
  /\ Cascade \in Highest(MasterRequests)
  /\ i \in Highest(SlaveRequests)
  /\ isr' = isr \cup {Cascade, i}
  /\ irr' = irr \ {i}
  /\ UNCHANGED <<imr, base>>
  /\ Handle(i)

(* A request was withdrawn before the chip was asked for its number.       *)
AcceptSpuriousMaster ==
  /\ \E i \in (Devices \cap Master) \ imr : Outranks(i, Master)
  /\ UNCHANGED picVars
  /\ Handle(7)

AcceptSpuriousSlave ==
  /\ \E i \in (Devices \cap Slave) \ imr : Outranks(i, Slave)
  /\ Cascade \notin imr /\ Outranks(Cascade, Master)
  /\ isr' = isr \cup {Cascade}
  /\ UNCHANGED <<irr, imr, base>>
  /\ Handle(15)

(* The accesses of IRQ_Handler.                                            *)
HandlerAccess ==
  /\ irq # NoLine
  /\ code.handler # <<>>
  /\ LET a == Head(code.handler)
     IN  \/ a.kind = "out" /\ WritePort(a.port, a.value) /\ UNCHANGED seen
         \/ /\ a.kind = "in"
            /\ seen' = seen \cup ReadPort(a.port)
            /\ UNCHANGED chipVars
  /\ LET rest == Tail(code.handler)
         checked == Head(code.handler).kind = "in" /\ rest = <<>>
     IN  code' = [code EXCEPT !.handler =
                    IF ~checked THEN rest
                    ELSE IF irq \in seen' THEN Eois(irq)
                    ELSE IF irq = 15 THEN EoiMaster
                    ELSE <<>>]
  /\ UNCHANGED <<iflag, op, irq, bios>>

HandlerReturns ==
  /\ irq # NoLine
  /\ code.handler = <<>>
  /\ irq' = NoLine
  /\ iflag' = TRUE
  /\ seen' = {}
  /\ UNCHANGED <<chipVars, op, code, bios>>

Init ==
  /\ irr \in SUBSET Devices
  /\ isr = {}
  /\ \E m \in MasterMasks, s \in SlaveMasks :
       imr = LinesIn("master", m) \cup LinesIn("slave", s)
  /\ base = [master |-> 8, slave |-> 112]
  /\ stage = [c \in Chips |-> "ready"]
  /\ shown = [c \in Chips |-> "irr"]
  /\ wiring = [master |-> 4, slave |-> 2]
  /\ mode = [c \in Chips |-> 1]
  /\ iflag = FALSE
  /\ op = Idle
  /\ code = [main |-> <<>>, handler |-> <<>>]
  /\ irq = NoLine
  /\ seen = {}
  /\ bios = imr

Main ==
  \/ CallInitialize \/ Enable_Interrupts \/ CallReadIrr
  \/ \E i \in Lines : CallEnable(i) \/ CallDisable(i) \/ CallAcknowledge(i)
  \/ EnableCascade
  \/ MainAccess

Interrupt ==
  \/ \E i \in Devices : AcceptMaster(i) \/ AcceptSlave(i)
  \/ AcceptSpuriousMaster
  \/ AcceptSpuriousSlave
  \/ HandlerAccess
  \/ HandlerReturns

Next == Main \/ Interrupt \/ \E i \in Devices : DeviceRaises(i)

Spec == Init /\ [][Next]_vars

-----------------------------------------------------------------------------
(* Properties.                                                             *)

(* The bytes of Initialize_8259_PIC arrive at the stage they are meant     *)
(* for: at its return both chips are ready, with the kernel's vectors,     *)
(* wired as master and slave, without automatic EOI, and with the masks    *)
(* they had (8259.c:48-79).                                                *)
InitializeProgramsTheChips ==
  [][op.name = "Initialize" /\ op' = Idle =>
       /\ stage' = [c \in Chips |-> "ready"]
       /\ base' = [master |-> 32, slave |-> 40]
       /\ wiring' = [master |-> Weight(Cascade), slave |-> Cascade]
       /\ mode' = [c \in Chips |-> 1]
       /\ imr' = bios]_vars

(* No interrupt handler finds a chip in the middle of its initialization,  *)
(* when an EOI would be lost and a vector wrong (kernel.c:60-81).          *)
HandlerMeetsReadyChips ==
  irq # NoLine => stage = [c \in Chips |-> "ready"]

(* IRQ_Handler decides from the in-service registers, even if it comes     *)
(* between the selection and the read of PIC_Read_IRR in the main thread   *)
(* (8259.c:143-157, interrupt.c:159-168).                                  *)
HandlerReadsInService ==
  [][HandlerAccess /\ Head(code.handler).kind = "in" /\ Len(code.handler) = 1 =>
       seen' = isr]_vars

(* The commands that reach the chips end each interrupt, spurious or not,  *)
(* whatever the main thread was sending when it came (interrupt.c:150-180).*)
CommandsEndInterrupts ==
  irq = NoLine => isr = {}

(* "8259 Programmable Interrupt Controller", a working feature (README:13):*)
(* Enable_8259_PIC unmasks a line of the controller.                       *)
EnableUnmasks ==
  [][op.name = "Enable" /\ op' = Idle => op.line \notin imr']_vars
=============================================================================

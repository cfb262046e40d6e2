---------------------------- MODULE IrqDispatch -----------------------------
(***************************************************************************)
(* The interrupt path of the kernel once kmain has enabled interrupts: the *)
(* devices and the two 8259A chips (Pic8259), the CPU's acknowledge cycle  *)
(* and gates, the assembly stubs, Interrupt_Handler, IRQ_Handler and       *)
(* Exception_Handler of kernel/x86/isa/interrupt/interrupt.c, and the main *)
(* thread's operations on the interrupt flag and on Interrupt_Routines.    *)
(*                                                                         *)
(* Devices act between any two steps of the CPU.  The CPU accepts an       *)
(* interrupt whenever its interrupt flag is set, whatever code it is       *)
(* running: that handlers do not nest is a consequence, not a guard.       *)
(***************************************************************************)
EXTENDS Pic8259, Sequences

CONSTANTS
  Glitchy,      \* the lines whose device may withdraw a request
  Faults,       \* the exceptions the running code may cause
  Installable,  \* the slots the main thread installs routines in
  SoftVectors   \* the vectors the main thread may raise with INT

IRQ0  == 32
IRQ7  == 39
IRQ8  == 40
IRQ15 == 47

IrqVectors     == 32..47
SyscallVectors == {120, 121}

ASSUME DispatchAssumption ==
  /\ Glitchy \subseteq Devices
  /\ Faults \subseteq 0..31
  /\ Installable \subseteq IrqVectors \cup SyscallVectors
  /\ SoftVectors \subseteq SyscallVectors

VARIABLES
  Interrupt_Routines, \* the routine installed for each vector
  idt,                \* the present gates, each with the number its stub pushes
  iflag,              \* the interrupt flag of EFLAGS
  bus,                \* where the CPU is in an acknowledge cycle
  pc,                 \* what the CPU executes
  int_no,             \* the interrupt number of the current context
  stack               \* the interrupted contexts, the innermost first

tableVars == <<Interrupt_Routines, idt>>
cpuVars   == <<iflag, bus, pc, int_no, stack>>
vars      == <<picVars, tableVars, cpuVars>>

NULL     == "NULL"
Routines == {"PIT_8254_Handler", "RTC_Handler", "STU_Handler", "STK_Handler"}
Slots    == IrqVectors \cup SyscallVectors

Base    == {"main", "hlt"}
IrqCode == {"irq", "handler", "eoi_slave", "eoi_master", "iret"}
Labels  == Base \cup {"stub"} \cup IrqCode \cup {"panic", "reset"}

Frame == [pc : Labels, int_no : 0..255, iflag : BOOLEAN]

KernelBases  == [master |-> 32, slave |-> 40]
InstalledIdt == [v \in 0..47 \cup {120} |-> v]

TableTypeOK ==
  /\ Interrupt_Routines \in [Slots -> Routines \cup {NULL}]
  /\ DOMAIN idt \subseteq 0..255
  /\ idt \in [DOMAIN idt -> 0..255]

CpuTypeOK ==
  /\ iflag \in BOOLEAN
  /\ bus \in {"idle", "inta", "cascade"}
  /\ pc \in Labels
  /\ int_no \in 0..255
  /\ stack \in Seq(Frame)

TypeOK == PicTypeOK /\ TableTypeOK /\ CpuTypeOK

-----------------------------------------------------------------------------
Executing(label) == bus = "idle" /\ pc = label

Goto(label) ==
  /\ pc' = label
  /\ UNCHANGED <<iflag, bus, int_no, stack>>

(* A vector without a gate of a valid type is a general protection fault.  *)
GateOf(v) == IF v \in DOMAIN idt THEN v ELSE 13

Interrupted == [pc     |-> IF pc = "hlt" THEN "main" ELSE pc,
                int_no |-> int_no,
                iflag  |-> iflag]

(* Mutant: trap gates and a stub without cli leave interrupts on.          *)
EnterGateAsTrap(v) ==
  /\ bus' = "idle"
  /\ GateOf(v) \in DOMAIN idt
  /\ stack' = <<Interrupted>> \o stack
  /\ pc' = "stub"
  /\ int_no' = idt[GateOf(v)]
  /\ UNCHANGED <<tableVars, iflag>>

(* The CPU enters the gate of vector v: it saves the interrupted context   *)
(* (a halted CPU resumes behind its HLT) and clears the interrupt flag, as *)
(* an interrupt gate does and the stub's cli confirms.  With no gate for   *)
(* the fault either, the missing handlers escalate and the machine resets. *)
EnterGate(v) ==
  /\ bus' = "idle"
  /\ \/ /\ GateOf(v) \in DOMAIN idt
        /\ stack' = <<Interrupted>> \o stack
        /\ iflag' = FALSE
        /\ pc' = "stub"
        /\ int_no' = idt[GateOf(v)]
     \/ /\ GateOf(v) \notin DOMAIN idt
        /\ pc' = "reset"
        /\ UNCHANGED <<iflag, int_no, stack>>
  /\ UNCHANGED tableVars

-----------------------------------------------------------------------------
(* The devices.                                                            *)
DeviceRaises(i) == Raise(i) /\ UNCHANGED <<tableVars, cpuVars>>

DeviceWithdraws(i) == Withdraw(i) /\ UNCHANGED <<tableVars, cpuVars>>

(* The CPU sees INTR between two instructions, or while halted, and starts *)
(* an acknowledge cycle.  Until the chips answer, a device may still       *)
(* withdraw: a chip left with nothing to acknowledge answers with its      *)
(* lowest line and marks nothing in service.                               *)
AcceptInterrupt ==
  /\ bus = "idle"
  /\ pc # "reset"
  /\ iflag
  /\ Intr
  /\ bus' = "inta"
  /\ UNCHANGED <<picVars, tableVars, iflag, pc, int_no, stack>>

MasterAnswers(i) ==
  /\ bus = "inta"
  /\ i \in Highest(MasterRequests) \ {Cascade}
  /\ Acknowledge(i)
  /\ EnterGate(base.master + i)

MasterAnswersSpurious ==
  /\ bus = "inta"
  /\ MasterRequests = {}
  /\ UNCHANGED picVars
  /\ EnterGate(base.master + 7)

MasterDefersToSlave ==
  /\ bus = "inta"
  /\ Cascade \in Highest(MasterRequests)
  /\ Acknowledge(Cascade)
  /\ bus' = "cascade"
  /\ UNCHANGED <<tableVars, iflag, pc, int_no, stack>>

SlaveAnswers(i) ==
  /\ bus = "cascade"
  /\ i \in Highest(SlaveRequests)
  /\ Acknowledge(i)
  /\ EnterGate(base.slave + (i - 8))

SlaveAnswersSpurious ==
  /\ bus = "cascade"
  /\ SlaveRequests = {}
  /\ UNCHANGED picVars
  /\ EnterGate(base.slave + 7)

(* An instruction of the running code faults, or a non-maskable interrupt  *)
(* arrives.  In the code that reports an exception this only starts the    *)
(* report again: the report never returns, so that what it interrupts is   *)
(* not kept.                                                               *)
ReportsException == pc = "panic" \/ (pc = "stub" /\ int_no < 32)

RaiseException(v) ==
  /\ bus = "idle"
  /\ pc # "reset"
  /\ ~ReportsException
  /\ EnterGate(v)
  /\ UNCHANGED picVars

RaiseExceptionAgain(v) ==
  /\ ReportsException
  /\ pc' = "stub"
  /\ int_no' = v
  /\ iflag' = FALSE
  /\ UNCHANGED <<picVars, tableVars, bus, stack>>

-----------------------------------------------------------------------------
(* IDT_ISR_Stub calls Interrupt_Handler, which tells exceptions from IRQs  *)
(* and ignores every other number.                                         *)
(* Mutant: the panic loop pauses with interrupts on.                       *)
DispatchExceptionPausing ==
  /\ Executing("stub")
  /\ int_no < 32
  /\ pc' = "panic"
  /\ iflag' = TRUE
  /\ UNCHANGED <<picVars, tableVars, bus, int_no, stack>>

DispatchException ==
  /\ Executing("stub")
  /\ int_no < 32
  /\ Goto("panic")
  /\ UNCHANGED <<picVars, tableVars>>

DispatchIrq ==
  /\ Executing("stub")
  /\ int_no \in IrqVectors
  /\ Goto("irq")
  /\ UNCHANGED <<picVars, tableVars>>

(* Mutant: numbers that are no IRQ are ended too.                          *)
DispatchNothingButEoi ==
  /\ Executing("stub")
  /\ int_no > 47
  /\ Goto("eoi_master")
  /\ UNCHANGED <<picVars, tableVars>>

DispatchNothing ==
  /\ Executing("stub")
  /\ int_no > 47
  /\ Goto("iret")
  /\ UNCHANGED <<picVars, tableVars>>

(* IRQ_Handler.                                                            *)
(* Mutants: the checks of the in-service register are left out.            *)
NeverSpuriousOnMaster == FALSE
NeverSpuriousOnSlave  == FALSE

SpuriousOnMaster == int_no = IRQ7 /\ 7 \notin PIC_Read_ISR
SpuriousOnSlave  == int_no = IRQ15 /\ 15 \notin PIC_Read_ISR

(* Mutant: the first line of the slave is taken for the master's.          *)
FirstEoiOffByOne == IF int_no > IRQ8 THEN "eoi_slave" ELSE "eoi_master"

FirstEoi == IF int_no >= IRQ8 THEN "eoi_slave" ELSE "eoi_master"

IgnoreSpuriousMaster ==
  /\ Executing("irq")
  /\ SpuriousOnMaster
  /\ Goto("iret")
  /\ UNCHANGED <<picVars, tableVars>>

(* Mutant: the master is not told of a spurious IRQ15.                     *)
IgnoreSpuriousSlave ==
  /\ Executing("irq")
  /\ SpuriousOnSlave
  /\ Goto("iret")
  /\ UNCHANGED <<picVars, tableVars>>

EndSpuriousSlave ==
  /\ Executing("irq")
  /\ SpuriousOnSlave
  /\ Goto("eoi_master")
  /\ UNCHANGED <<picVars, tableVars>>

StartGenuineIrq ==
  /\ Executing("irq")
  /\ ~SpuriousOnMaster
  /\ ~SpuriousOnSlave
  /\ \/ Interrupt_Routines[int_no] # NULL /\ Goto("handler")
     \/ Interrupt_Routines[int_no] = NULL /\ Goto(FirstEoi)
  /\ UNCHANGED <<picVars, tableVars>>

CallRoutine ==
  /\ Executing("handler")
  /\ Goto(FirstEoi)
  /\ UNCHANGED <<picVars, tableVars>>

SendEoiSlave ==
  /\ Executing("eoi_slave")
  /\ PIC_EOI_Slave
  /\ Goto("eoi_master")
  /\ UNCHANGED tableVars

SendEoiMaster ==
  /\ Executing("eoi_master")
  /\ PIC_EOI_Master
  /\ Goto("iret")
  /\ UNCHANGED tableVars

(* The end of IDT_ISR_Stub restores the interrupted context.               *)
ReturnFromInterrupt ==
  /\ Executing("iret")
  /\ stack # <<>>
  /\ pc' = Head(stack).pc
  /\ int_no' = Head(stack).int_no
  /\ iflag' = Head(stack).iflag
  /\ stack' = Tail(stack)
  /\ UNCHANGED <<picVars, tableVars, bus>>

-----------------------------------------------------------------------------
(* The operations of the main thread.                                      *)
SetInterruptFlag(value, label) ==
  /\ Executing("main")
  /\ iflag' = value
  /\ pc' = label
  /\ UNCHANGED <<picVars, tableVars, bus, int_no, stack>>

Enable_Interrupts  == SetInterruptFlag(TRUE, "main")
Disable_Interrupts == SetInterruptFlag(FALSE, "main")
Pause_Interrupts   == SetInterruptFlag(TRUE, "hlt")

SetRoutine(routines) ==
  /\ Executing("main")
  /\ Interrupt_Routines' = routines
  /\ UNCHANGED <<picVars, idt, cpuVars>>

Install_Interrupt_Handler(index, handler) ==
  SetRoutine([Interrupt_Routines EXCEPT ![index] = handler])

Uninstall_Interrupt_Handler(index) ==
  SetRoutine([Interrupt_Routines EXCEPT ![index] = NULL])

Install_Syscall_Handler ==
  SetRoutine([Interrupt_Routines EXCEPT ![120] = "STU_Handler",
                                        ![121] = "STK_Handler"])

SoftwareInterrupt(v) ==
  /\ Executing("main")
  /\ EnterGate(v)
  /\ UNCHANGED picVars

-----------------------------------------------------------------------------
Init ==
  /\ irr \in SUBSET Devices
  /\ isr = {}
  /\ imr \in SUBSET (Devices \cup {Cascade})
  /\ base = KernelBases
  /\ Interrupt_Routines = [v \in Slots |-> IF v = IRQ0 THEN "PIT_8254_Handler" ELSE NULL]
  /\ idt = InstalledIdt
  /\ iflag = TRUE
  /\ bus = "idle"
  /\ pc = "main"
  /\ int_no = 0
  /\ stack = <<>>

Environment ==
  \/ \E i \in Devices : DeviceRaises(i)
  \/ \E i \in Glitchy : DeviceWithdraws(i)
  \/ \E v \in Faults : RaiseException(v) \/ RaiseExceptionAgain(v)

AcknowledgeCycle ==
  \/ MasterAnswersSpurious
  \/ \E i \in Devices : MasterAnswers(i)
  \/ MasterDefersToSlave
  \/ \E i \in Devices : SlaveAnswers(i)
  \/ SlaveAnswersSpurious

ServiceRoutine ==
  \/ DispatchException
  \/ DispatchIrq
  \/ DispatchNothing
  \/ IgnoreSpuriousMaster
  \/ EndSpuriousSlave
  \/ StartGenuineIrq
  \/ CallRoutine
  \/ SendEoiSlave
  \/ SendEoiMaster
  \/ ReturnFromInterrupt

MainThread ==
  \/ Enable_Interrupts
  \/ Disable_Interrupts
  \/ Pause_Interrupts
  \/ \E index \in Installable :
       \/ Install_Interrupt_Handler(index, "RTC_Handler")
       \/ Uninstall_Interrupt_Handler(index)
  \/ SoftVectors # {} /\ Install_Syscall_Handler
  \/ \E v \in SoftVectors : SoftwareInterrupt(v)

Next ==
  \/ Environment
  \/ AcceptInterrupt
  \/ AcknowledgeCycle
  \/ ServiceRoutine
  \/ MainThread

(* The CPU does not stop in the middle of an acknowledge cycle or of the   *)
(* service code, which contains no wait of any kind.                       *)
Spec == Init /\ [][Next]_vars /\ WF_vars(AcknowledgeCycle \/ ServiceRoutine)

-----------------------------------------------------------------------------
(* Properties.                                                             *)

(* Whenever the CPU is back in the interrupted code, every interrupt the   *)
(* chips handed out has been ended: IRQ_Handler leaves no bit in service   *)
(* that would block its own and all lower lines for ever, on any of its    *)
(* paths (interrupt.c:150-180), spurious ones and missing routines too.    *)
EveryInterruptIsEnded ==
  pc \in Base /\ bus # "cascade" => isr = {}

(* An installed routine runs only for a request its device really made: a  *)
(* spurious IRQ7 or IRQ15 is recognised (interrupt.c:159-168).             *)
OnlyGenuineIrqRunsRoutine ==
  pc = "handler" => /\ int_no \in IrqVectors
                    /\ int_no - 32 \in isr

(* A non-specific EOI ends whatever has the highest priority.  When the    *)
(* kernel sends one (interrupt.c:175-179) that is the interrupt it is      *)
(* handling, or the cascade line it came through, never another and never  *)
(* nothing at all.                                                         *)
EoiEndsTheCurrentInterrupt ==
  /\ pc = "eoi_slave" => Highest(isr \cap Slave) = {int_no - 32}
  /\ pc = "eoi_master" =>
       Highest(isr \cap Master) = {IF int_no >= IRQ8 THEN Cascade ELSE int_no - 32}

(* Interrupt service does not nest: interrupts stay off from the gate to   *)
(* the iret, so at most one context is interrupted, unless an exception is *)
(* about to stop the kernel (interrupt_handler.asm:72-96, 155-178).        *)
ServiceDoesNotNest ==
  Len(stack) <= 1 \/ ReportsException

(* An exception is the end: its report is never left, no routine runs, no  *)
(* EOI is sent and no request is acknowledged any more, because panic      *)
(* halts with the interrupts the gate turned off (interrupt.c:135-148,     *)
(* panic.c:21-28).                                                         *)
PanicIsFinal ==
  [][ReportsException => ReportsException' /\ isr' = isr]_vars

(* The service a device sees: a line is pending while the chips hold its   *)
(* request and in service while its bit is in service; the cascade bit is  *)
(* internal to the pair of chips.                                          *)
Service == INSTANCE IrqService WITH
  Lines       <- Devices,
  Retractable <- Glitchy,
  pending     <- irr,
  serving     <- isr \ {Cascade}

(* The interrupt path serves one device request at a time and finishes it  *)
(* before the next (8259.c, interrupt.c:150-188, interrupt_handler.asm).   *)
ImplementsIrqService == Service!Spec

(* Every interrupt taken is eventually ended, unless an exception stops    *)
(* the kernel.                                                             *)
ServiceCompletes ==
  isr # {} ~> isr = {} \/ ReportsException

-----------------------------------------------------------------------------
(* The invariant behind these properties, inductive and proved in          *)
(* IrqDispatchProofs: at every label of the service code the bits in       *)
(* service are known from the number of the interrupt, and below it lies   *)
(* exactly the one context of the main thread.                             *)
InService(n) == IF n \in Slave THEN {Cascade, n} ELSE {n}

Genuine(n) == n \in Devices /\ isr = InService(n)

Acknowledged(n) ==
  \/ Genuine(n)
  \/ n \in {7, 15} /\ isr = InService(n) \ {n}

Line == int_no - 32

TablesInv == base = KernelBases /\ idt = InstalledIdt

BaseInv ==
  pc \in Base => /\ stack = <<>>
                 /\ isr = IF bus = "cascade" THEN {Cascade} ELSE {}

BusInv == bus # "idle" => iflag /\ pc \in Base

ServiceInv ==
  pc \in IrqCode \cup {"stub"} /\ ~ReportsException =>
    /\ iflag = FALSE
    /\ \E f \in Frame : f.pc = "main" /\ stack = <<f>>

LabelInv ==
  /\ pc # "reset"
  /\ pc = "panic" => iflag = FALSE
  /\ pc = "stub" => \/ int_no < 32 /\ iflag = FALSE
                    \/ int_no \in IrqVectors /\ Acknowledged(Line)
                    \/ int_no = 120 /\ isr = {}
  /\ pc = "irq" => int_no \in IrqVectors /\ Acknowledged(Line)
  /\ pc = "handler" => int_no \in IrqVectors /\ Genuine(Line)
  /\ pc = "eoi_slave" => int_no \in 40..47 /\ Genuine(Line)
  /\ pc = "eoi_master" =>
       \/ int_no \in 32..39 /\ Genuine(Line)
       \/ int_no \in 40..47 /\ isr = {Cascade}
  /\ pc = "iret" => isr = {}

ControlInv == TablesInv /\ BaseInv /\ BusInv /\ ServiceInv /\ LabelInv

IInv == TypeOK /\ ControlInv
=============================================================================

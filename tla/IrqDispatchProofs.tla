-------------------------- MODULE IrqDispatchProofs --------------------------
(***************************************************************************)
(* Proofs about IrqDispatch, for every set of devices, faults, installable *)
(* slots and software vectors that DispatchAssumption allows.              *)
(***************************************************************************)
EXTENDS IrqDispatch, SequenceTheorems, TLAPS

USE DevicesAssumption, DispatchAssumption

LEMMA HighestSingleton ==
  ASSUME NEW n \in Nat
  PROVE  Highest({n}) = {n}
BY DEF Highest

LEMMA HighestMember ==
  ASSUME NEW S, NEW i \in Highest(S)
  PROVE  i \in S
BY DEF Highest

(* The requests put through belong to a device or are the cascade's.       *)
LEMMA RequestsAreDevices ==
  ASSUME irr \subseteq Devices
  PROVE  /\ SlaveRequests \subseteq Devices \cap Slave
         /\ MasterRequests \subseteq (Devices \cap Master) \cup {Cascade}
BY DEF SlaveRequests, MasterRequests, CascadeRequest

(* Interrupting a context puts it on top of the interrupted ones.          *)
LEMMA PushFrame ==
  ASSUME NEW f \in Frame, NEW s \in Seq(Frame)
  PROVE  /\ <<f>> \o s \in Seq(Frame)
         /\ s = <<>> => <<f>> \o s = <<f>>
<1>1. <<f>> \in Seq(Frame)
  OBVIOUS
<1>2. <<f>> \o s \in Seq(Frame)
  BY <1>1, ConcatProperties
<1>3. <<f>> \o <<>> = <<f>>
  BY <1>1, ConcatEmptySeq
<1> QED BY <1>2, <1>3

(* What a step leaves alone keeps its type.                                *)
LEMMA Framing ==
  /\ PicTypeOK /\ UNCHANGED picVars => PicTypeOK'
  /\ TableTypeOK /\ UNCHANGED tableVars => TableTypeOK'
  /\ CpuTypeOK /\ UNCHANGED cpuVars => CpuTypeOK'
<1>1. PicTypeOK /\ UNCHANGED picVars => PicTypeOK'
  BY DEF PicTypeOK, picVars
<1>2. TableTypeOK /\ UNCHANGED tableVars => TableTypeOK'
  BY DEF TableTypeOK, tableVars
<1>3. CpuTypeOK /\ UNCHANGED cpuVars => CpuTypeOK'
  BY DEF CpuTypeOK, cpuVars
<1> QED BY <1>1, <1>2, <1>3

LEMMA GotoTypeOK ==
  ASSUME CpuTypeOK, NEW label \in Labels, Goto(label)
  PROVE  CpuTypeOK'
BY DEF CpuTypeOK, Goto

LEMMA EndOfInterruptTypeOK ==
  ASSUME PicTypeOK, NEW chip, EndOfInterrupt(chip)
  PROVE  PicTypeOK'
BY DEF PicTypeOK, EndOfInterrupt

(* Entering a gate keeps the processor's state well typed.                 *)
LEMMA EnterGateTypeOK ==
  ASSUME TableTypeOK, CpuTypeOK, NEW v, EnterGate(v)
  PROVE  TableTypeOK' /\ CpuTypeOK'
<1> DEFINE f == Interrupted
<1> DEFINE g == GateOf(v)
<1>1. f \in Frame
  BY DEF CpuTypeOK, Frame, Labels, Base, Interrupted
<1>2. TableTypeOK'
  BY DEF TableTypeOK, EnterGate, tableVars
<1>3. CASE g \in DOMAIN idt
  <2>1. stack' = <<f>> \o stack /\ iflag' = FALSE /\ pc' = "stub"
        /\ int_no' = idt[g] /\ bus' = "idle"
    BY <1>3 DEF EnterGate
  <2>2. stack' \in Seq(Frame)
    BY <2>1, <1>1, PushFrame DEF CpuTypeOK
  <2>3. idt[g] \in 0..255
    BY <1>3 DEF TableTypeOK
  <2> QED BY <1>2, <2>1, <2>2, <2>3 DEF CpuTypeOK, Labels
<1>4. CASE g \notin DOMAIN idt
  BY <1>2, <1>4 DEF EnterGate, CpuTypeOK, Labels
<1> QED BY <1>3, <1>4

(* The chips keep their registers well typed on a request and on an        *)
(* acknowledge.                                                            *)
LEMMA AcknowledgeTypeOK ==
  ASSUME PicTypeOK, NEW i \in Devices \cup {Cascade}, Acknowledge(i)
  PROVE  PicTypeOK'
BY DEF PicTypeOK, Acknowledge

LEMMA SetRoutineTypeOK ==
  ASSUME TypeOK,
         NEW routines \in [Slots -> Routines \cup {NULL}],
         SetRoutine(routines)
  PROVE  TypeOK'
BY DEF TypeOK, PicTypeOK, TableTypeOK, CpuTypeOK, SetRoutine, picVars, cpuVars

LEMMA InitTypeOK == Init => TypeOK
<1> SUFFICES ASSUME Init PROVE TypeOK
  OBVIOUS
<1>1. PicTypeOK
  BY DEF Init, PicTypeOK, KernelBases, Cascade
<1>2. idt \in [DOMAIN idt -> 0..255] /\ DOMAIN idt \subseteq 0..255
  BY DEF Init, InstalledIdt, SyscallVectors
<1>3. Interrupt_Routines \in [Slots -> Routines \cup {NULL}]
  BY DEF Init, Routines
<1>4. stack \in Seq(Frame)
  BY EmptySeq DEF Init
<1>5. CpuTypeOK
  BY <1>4 DEF Init, CpuTypeOK, Labels, Base
<1> QED BY <1>1, <1>2, <1>3, <1>5 DEF TypeOK, TableTypeOK

LEMMA NextTypeOK == TypeOK /\ [Next]_vars => TypeOK'
<1> SUFFICES ASSUME TypeOK, [Next]_vars PROVE TypeOK'
  OBVIOUS
<1> USE DEF TypeOK
<1>1. CASE UNCHANGED vars
  BY <1>1 DEF PicTypeOK, TableTypeOK, CpuTypeOK, vars, picVars, tableVars, cpuVars
<1>2. CASE Environment
  <2>1. ASSUME NEW i \in Devices, DeviceRaises(i) \/ DeviceWithdraws(i)
        PROVE  TypeOK'
    <3>1. PicTypeOK'
      BY <2>1 DEF DeviceRaises, DeviceWithdraws, Raise, Withdraw, PicTypeOK
    <3> QED BY <2>1, <3>1, Framing DEF DeviceRaises, DeviceWithdraws
  <2>2. ASSUME NEW v \in Faults, RaiseException(v)
        PROVE  TypeOK'
    BY <2>2, EnterGateTypeOK DEF RaiseException, PicTypeOK, picVars
  <2>3. ASSUME NEW v \in Faults, RaiseExceptionAgain(v)
        PROVE  TypeOK'
    <3>1. /\ iflag' = FALSE /\ bus' = bus /\ pc' = "stub" /\ int_no' \in 0..255
          /\ stack' = stack
      BY <2>3 DEF RaiseExceptionAgain
    <3>2. CpuTypeOK'
      BY <3>1 DEF CpuTypeOK, Labels
    <3> QED BY <2>3, <3>2, Framing DEF RaiseExceptionAgain
  <2> QED BY <1>2, <2>1, <2>2, <2>3 DEF Environment
<1>3. CASE AcceptInterrupt
  BY <1>3 DEF AcceptInterrupt, PicTypeOK, TableTypeOK, CpuTypeOK, picVars, tableVars
<1>4. CASE AcknowledgeCycle
  <2>1. CASE MasterAnswersSpurious \/ SlaveAnswersSpurious
    BY <2>1, EnterGateTypeOK DEF MasterAnswersSpurious, SlaveAnswersSpurious,
                                 PicTypeOK, picVars
  <2>2. CASE MasterDefersToSlave
    BY <2>2, AcknowledgeTypeOK
       DEF MasterDefersToSlave, TableTypeOK, CpuTypeOK, tableVars
  <2>3. ASSUME NEW i \in Devices, MasterAnswers(i) \/ SlaveAnswers(i)
        PROVE  TypeOK'
    BY <2>3, EnterGateTypeOK, AcknowledgeTypeOK DEF MasterAnswers, SlaveAnswers
  <2> QED BY <1>4, <2>1, <2>2, <2>3 DEF AcknowledgeCycle
<1>5. CASE ServiceRoutine
  <2>1. CASE ReturnFromInterrupt
    <3>1. Head(stack) \in Frame /\ Tail(stack) \in Seq(Frame)
      BY <2>1, HeadTailProperties DEF ReturnFromInterrupt, CpuTypeOK
    <3> QED BY <2>1, <3>1 DEF ReturnFromInterrupt, PicTypeOK, TableTypeOK,
                              CpuTypeOK, Frame, picVars, tableVars
  <2>2. CASE SendEoiSlave \/ SendEoiMaster
    <3>1. "eoi_master" \in Labels /\ "iret" \in Labels
      BY DEF Labels, IrqCode
    <3> QED BY <2>2, <3>1, Framing, GotoTypeOK, EndOfInterruptTypeOK
            DEF SendEoiSlave, SendEoiMaster, PIC_EOI_Slave, PIC_EOI_Master
  <2>3. CASE DispatchException \/ DispatchIrq \/ DispatchNothing \/ CallRoutine
             \/ IgnoreSpuriousMaster \/ EndSpuriousSlave \/ StartGenuineIrq
    <3>1. IrqCode \cup {"panic"} \subseteq Labels /\ FirstEoi \in IrqCode
      BY DEF Labels, IrqCode, FirstEoi
    <3>2. UNCHANGED picVars /\ UNCHANGED tableVars
      BY <2>3 DEF DispatchException, DispatchIrq, DispatchNothing, CallRoutine,
                  IgnoreSpuriousMaster, EndSpuriousSlave, StartGenuineIrq
    <3>3. \E label \in IrqCode \cup {"panic"} : Goto(label)
      BY <2>3, <3>1
         DEF DispatchException, DispatchIrq, DispatchNothing, CallRoutine,
             IgnoreSpuriousMaster, EndSpuriousSlave, StartGenuineIrq, IrqCode
    <3> QED BY <3>1, <3>2, <3>3, Framing, GotoTypeOK
  <2> QED BY <1>5, <2>1, <2>2, <2>3 DEF ServiceRoutine
<1>6. CASE MainThread
  <2>1. CASE Enable_Interrupts \/ Disable_Interrupts \/ Pause_Interrupts
    <3>1. CpuTypeOK'
      BY <2>1 DEF Enable_Interrupts, Disable_Interrupts, Pause_Interrupts,
                  SetInterruptFlag, CpuTypeOK, Labels, Base
    <3> QED BY <2>1, <3>1, Framing DEF Enable_Interrupts, Disable_Interrupts,
                                       Pause_Interrupts, SetInterruptFlag
  <2>2. ASSUME NEW index \in Installable,
               \/ Install_Interrupt_Handler(index, "RTC_Handler")
               \/ Uninstall_Interrupt_Handler(index)
        PROVE  TypeOK'
    BY <2>2, SetRoutineTypeOK DEF Install_Interrupt_Handler,
       Uninstall_Interrupt_Handler, TableTypeOK, Routines, Slots
  <2>3. CASE Install_Syscall_Handler
    BY <2>3, SetRoutineTypeOK DEF Install_Syscall_Handler, TableTypeOK, Routines
  <2>4. ASSUME NEW v \in SoftVectors, SoftwareInterrupt(v)
        PROVE  TypeOK'
    BY <2>4, EnterGateTypeOK DEF SoftwareInterrupt, PicTypeOK, picVars
  <2> QED BY <1>6, <2>1, <2>2, <2>3, <2>4 DEF MainThread
<1> QED BY <1>1, <1>2, <1>3, <1>4, <1>5, <1>6 DEF Next

(* The variables of the interrupt path keep their types (interrupt.c and   *)
(* 8259.c): only lines with a device are requested or in service, and what *)
(* the stubs stack up are contexts of the kernel.                          *)
THEOREM TypeCorrect == Spec => []TypeOK
BY InitTypeOK, NextTypeOK, PTL DEF Spec

-----------------------------------------------------------------------------
(* The inductive invariant.                                                *)
LEMMA InitControlInv == Init => ControlInv
BY DEF Init, ControlInv, TablesInv, BaseInv, BusInv, ServiceInv, LabelInv,
       Base, IrqCode

(* What a CPU in the kernel does at a gate: it is in the stub, interrupts  *)
(* off, with the interrupted context of the main thread on its stack.      *)
LEMMA StubEntered ==
  ASSUME CpuTypeOK, TablesInv,
         NEW v \in 0..47 \cup SyscallVectors, EnterGate(v)
  PROVE  /\ pc' = "stub" /\ bus' = "idle" /\ iflag' = FALSE
         /\ int_no' = IF v = 121 THEN 13 ELSE v
         /\ idt' = InstalledIdt
         /\ stack = <<>> /\ pc \in Base =>
              \E f \in Frame : f.pc = "main" /\ stack' = <<f>>
<1> DEFINE f == Interrupted
<1>1. GateOf(v) \in DOMAIN idt /\ idt[GateOf(v)] = IF v = 121 THEN 13 ELSE v
  BY DEF TablesInv, InstalledIdt, SyscallVectors, GateOf
<1>2. /\ pc' = "stub" /\ bus' = "idle" /\ iflag' = FALSE
      /\ int_no' = idt[GateOf(v)] /\ idt' = idt
      /\ stack' = <<f>> \o stack
  BY <1>1 DEF EnterGate, tableVars
<1>3. f \in Frame /\ stack \in Seq(Frame)
  BY DEF CpuTypeOK, Frame, Labels, Base, Interrupted
<1>4. stack = <<>> => stack' = <<f>>
  BY <1>2, <1>3, PushFrame
<1>5. pc \in Base => f.pc = "main"
  BY DEF Base, Interrupted
<1> QED BY <1>1, <1>2, <1>3, <1>4, <1>5 DEF TablesInv

(* Which gates may be entered where: an IRQ with its bits in service and a *)
(* system call with none interrupt the main thread, an exception anything  *)
(* but the report of another one.                                          *)
LEMMA EnterGateControlInv ==
  ASSUME TypeOK, ControlInv, NEW v, EnterGate(v), base' = base,
         \/ v \in 0..31
         \/ v \in IrqVectors /\ pc \in Base /\ Acknowledged(v - 32)'
         \/ v \in SyscallVectors /\ pc \in Base /\ bus = "idle" /\ isr' = isr
  PROVE  ControlInv'
<1>1. v \in 0..47 \cup SyscallVectors
  BY DEF IrqVectors
<1>2. /\ pc' = "stub" /\ bus' = "idle" /\ iflag' = FALSE
      /\ int_no' = IF v = 121 THEN 13 ELSE v
      /\ idt' = InstalledIdt
      /\ stack = <<>> /\ pc \in Base =>
           \E f \in Frame : f.pc = "main" /\ stack' = <<f>>
  BY <1>1, StubEntered DEF TypeOK, ControlInv
<1>3. TablesInv' /\ BaseInv' /\ BusInv'
  BY <1>2 DEF ControlInv, TablesInv, BaseInv, BusInv, Base
<1>4. ServiceInv'
  <2>1. CASE v \in 0..31
    BY <1>2, <2>1 DEF ServiceInv, ReportsException
  <2>2. CASE pc \in Base
    BY <1>2, <2>2 DEF ControlInv, BaseInv, ServiceInv
  <2> QED BY <2>1, <2>2
<1>5. LabelInv'
  <2>1. CASE v \in 0..31
    BY <1>2, <2>1 DEF LabelInv
  <2>2. CASE v \in IrqVectors /\ Acknowledged(v - 32)'
    <3>1. int_no' = v /\ Line' = v - 32
      BY <1>2, <2>2 DEF IrqVectors, Line
    <3>2. Acknowledged(Line)'
      BY <2>2, <3>1 DEF Acknowledged, Genuine, InService
    <3> QED BY <1>2, <2>2, <3>1, <3>2 DEF LabelInv
  <2>3. CASE v \in SyscallVectors /\ pc \in Base /\ bus = "idle" /\ isr' = isr
    BY <1>2, <2>3 DEF LabelInv, SyscallVectors, ControlInv, BaseInv
  <2> QED BY <2>1, <2>2, <2>3
<1> QED BY <1>3, <1>4, <1>5 DEF ControlInv

LEMMA ControlFraming ==
  ControlInv /\ UNCHANGED <<isr, base, idt, cpuVars>> => ControlInv'
BY DEF ControlInv, TablesInv, BaseInv, BusInv, ServiceInv, LabelInv, cpuVars,
       ReportsException, Acknowledged, Genuine, Line

(* With interrupts on, the CPU is in the main thread.                      *)
LEMMA InterruptibleIsBase ==
  ASSUME TypeOK, ControlInv, iflag
  PROVE  pc \in Base
<1>1. pc # "reset" /\ pc # "panic" /\ ~(pc = "stub" /\ int_no < 32)
  BY DEF ControlInv, LabelInv, TypeOK, CpuTypeOK, IrqVectors
<1>2. pc \notin IrqCode \cup {"stub"}
  BY <1>1 DEF ControlInv, ServiceInv, ReportsException
<1> QED BY <1>1, <1>2 DEF TypeOK, CpuTypeOK, Labels

LEMMA EnvironmentControlInv ==
  TypeOK /\ ControlInv /\ Environment => ControlInv'
<1> SUFFICES ASSUME TypeOK, ControlInv, Environment PROVE ControlInv'
  OBVIOUS
<1>1. ASSUME NEW i \in Devices, DeviceRaises(i) \/ DeviceWithdraws(i)
      PROVE  ControlInv'
  BY <1>1, ControlFraming
     DEF DeviceRaises, DeviceWithdraws, Raise, Withdraw, tableVars
<1>2. ASSUME NEW v \in Faults, RaiseException(v)
      PROVE  ControlInv'
  BY <1>2, EnterGateControlInv DEF RaiseException, picVars
<1>3. ASSUME NEW v \in Faults, RaiseExceptionAgain(v)
      PROVE  ControlInv'
  <2>1. bus = "idle"
    BY <1>3 DEF RaiseExceptionAgain, ReportsException, ControlInv, BusInv, Base
  <2> QED BY <1>3, <2>1 DEF RaiseExceptionAgain, ReportsException, ControlInv,
          TablesInv, BaseInv, BusInv, ServiceInv, LabelInv, picVars, tableVars,
          Base, IrqCode
<1> QED BY <1>1, <1>2, <1>3 DEF Environment

LEMMA AcceptControlInv ==
  TypeOK /\ ControlInv /\ AcceptInterrupt => ControlInv'
<1> SUFFICES ASSUME TypeOK, ControlInv, AcceptInterrupt PROVE ControlInv'
  OBVIOUS
<1>1. pc \in Base
  BY InterruptibleIsBase DEF AcceptInterrupt
<1> QED BY <1>1 DEF AcceptInterrupt, ControlInv, TablesInv, BaseInv, BusInv,
                    ServiceInv, LabelInv, ReportsException, Acknowledged,
                    Genuine, Line, picVars, tableVars, Base, IrqCode

LEMMA AcknowledgeCycleControlInv ==
  TypeOK /\ ControlInv /\ AcknowledgeCycle => ControlInv'
<1> SUFFICES ASSUME TypeOK, ControlInv, AcknowledgeCycle PROVE ControlInv'
  OBVIOUS
<1> USE DEF ControlInv
<1>1. bus # "idle" =>
        /\ pc \in Base /\ iflag /\ base = KernelBases
        /\ isr = IF bus = "cascade" THEN {Cascade} ELSE {}
  BY DEF BusInv, BaseInv, TablesInv
<1>2. /\ SlaveRequests \subseteq Devices \cap Slave
      /\ MasterRequests \subseteq (Devices \cap Master) \cup {Cascade}
  BY RequestsAreDevices DEF TypeOK, PicTypeOK
<1>3. CASE MasterAnswersSpurious
  <2>1. Acknowledged(39 - 32)' /\ EnterGate(39) /\ base' = base
    BY <1>1, <1>3 DEF MasterAnswersSpurious, KernelBases, picVars,
                      Acknowledged, InService, Slave
  <2> QED BY <1>1, <1>3, <2>1, EnterGateControlInv
          DEF MasterAnswersSpurious, IrqVectors
<1>4. ASSUME NEW i \in Devices, MasterAnswers(i)
      PROVE  ControlInv'
  <2>1. i \in Master
    BY <1>2, <1>4, HighestMember DEF MasterAnswers
  <2>2. /\ Acknowledged((32 + i) - 32)' /\ EnterGate(32 + i) /\ base' = base
        /\ 32 + i \in IrqVectors
    BY <1>1, <1>4, <2>1 DEF MasterAnswers, Acknowledge, KernelBases,
       Acknowledged, Genuine, InService, Master, Slave, IrqVectors
  <2> QED BY <1>1, <1>4, <2>2, EnterGateControlInv DEF MasterAnswers
<1>5. CASE MasterDefersToSlave
  BY <1>1, <1>5 DEF MasterDefersToSlave, Acknowledge, TablesInv, BaseInv, BusInv,
     ServiceInv, LabelInv, tableVars, Base, IrqCode
<1>6. ASSUME NEW i \in Devices, SlaveAnswers(i)
      PROVE  ControlInv'
  <2>1. i \in Slave
    BY <1>2, <1>6, HighestMember DEF SlaveAnswers
  <2>2. isr' = {Cascade, i}
    BY <1>1, <1>6 DEF SlaveAnswers, Acknowledge
  <2>3. /\ Acknowledged((32 + i) - 32)' /\ EnterGate(32 + i) /\ base' = base
        /\ 32 + i \in IrqVectors
    BY <1>1, <1>6, <2>1, <2>2 DEF SlaveAnswers, Acknowledge, KernelBases,
       Acknowledged, Genuine, InService, Slave, IrqVectors
  <2> QED BY <1>1, <1>6, <2>3, EnterGateControlInv DEF SlaveAnswers
<1>7. CASE SlaveAnswersSpurious
  <2>1. Acknowledged(47 - 32)' /\ EnterGate(47) /\ base' = base
    BY <1>1, <1>7 DEF SlaveAnswersSpurious, KernelBases, picVars,
                      Acknowledged, InService, Slave, Cascade
  <2> QED BY <1>1, <1>7, <2>1, EnterGateControlInv
          DEF SlaveAnswersSpurious, IrqVectors
<1> QED BY <1>3, <1>4, <1>5, <1>6, <1>7 DEF AcknowledgeCycle

(* A step from one label of the service code to the next keeps everything  *)
(* but what is said of the label itself.                                   *)
LEMMA GotoControlInv ==
  ASSUME ControlInv, bus = "idle", pc \in IrqCode \cup {"stub"},
         ~ReportsException, NEW label \in IrqCode, Goto(label),
         UNCHANGED tableVars, base' = base, LabelInv'
  PROVE  ControlInv'
<1>1. pc' \in IrqCode /\ UNCHANGED <<iflag, bus, stack>>
  BY DEF Goto
<1>2. iflag' = FALSE /\ \E f \in Frame : f.pc = "main" /\ stack' = <<f>>
  BY <1>1 DEF ControlInv, ServiceInv
<1> QED BY <1>1, <1>2 DEF ControlInv, TablesInv, BaseInv, BusInv, ServiceInv,
                          tableVars, Base, IrqCode

(* What is in service when IRQ_Handler sends an end of interrupt to the    *)
(* slave, and to the master.                                               *)
LEMMA InServiceAtSlaveEoi ==
  ASSUME ControlInv, pc = "eoi_slave"
  PROVE  /\ int_no \in 40..47 /\ Line \in Devices
         /\ isr = {Cascade, Line}
         /\ Highest(isr \cap Slave) = {Line}
<1>1. int_no \in 40..47 /\ Genuine(Line)
  BY DEF ControlInv, LabelInv
<1>2. Line \in 8..15 /\ Line \in Slave /\ Cascade \notin Slave
  BY <1>1 DEF Line, Slave, Cascade
<1>3. isr = {Cascade, Line} /\ Line \in Devices
  BY <1>1, <1>2 DEF Genuine, InService
<1>4. isr \cap Slave = {Line}
  BY <1>2, <1>3
<1>5. Highest(isr \cap Slave) = {Line}
  BY <1>2, <1>4, HighestSingleton
<1> QED BY <1>1, <1>3, <1>5

LEMMA InServiceAtMasterEoi ==
  ASSUME ControlInv, pc = "eoi_master"
  PROVE  /\ \/ int_no \in 32..39 /\ Line \in Devices /\ isr = {Line}
            \/ int_no \in 40..47 /\ isr = {Cascade}
         /\ Highest(isr \cap Master) = isr
         /\ isr \subseteq Master
<1>1. \/ int_no \in 32..39 /\ Line \in Devices /\ isr = {Line}
      \/ int_no \in 40..47 /\ isr = {Cascade}
  BY DEF ControlInv, LabelInv, Genuine, InService, Line, Slave
<1>2. PICK n \in Master : isr = {n}
  BY <1>1 DEF Line, Master, Cascade
<1>3. isr \cap Master = {n}
  BY <1>2
<1>4. Highest(isr \cap Master) = {n}
  BY <1>3, HighestSingleton DEF Master
<1> QED BY <1>1, <1>2, <1>4

(* So each end of interrupt clears the one bit it is meant for.            *)
LEMMA EoiEffect ==
  ASSUME ControlInv
  PROVE  /\ SendEoiSlave => isr' = {Cascade}
         /\ SendEoiMaster => isr' = {}
<1>1. SendEoiSlave => isr' = {Cascade}
  <2> SUFFICES ASSUME SendEoiSlave PROVE isr' = {Cascade}
    OBVIOUS
  <2>1. isr = {Cascade, Line} /\ isr' = isr \ {Line}
    BY InServiceAtSlaveEoi DEF SendEoiSlave, Executing, PIC_EOI_Slave, EndOfInterrupt
  <2>2. Line # Cascade
    BY InServiceAtSlaveEoi DEF SendEoiSlave, Executing, Line, Cascade
  <2> QED BY <2>1, <2>2
<1>2. SendEoiMaster => isr' = {}
  BY InServiceAtMasterEoi DEF SendEoiMaster, Executing, PIC_EOI_Master, EndOfInterrupt
<1> QED BY <1>1, <1>2

LEMMA ServiceRoutineControlInv ==
  TypeOK /\ ControlInv /\ ServiceRoutine => ControlInv'
<1> SUFFICES ASSUME TypeOK, ControlInv, ServiceRoutine PROVE ControlInv'
  OBVIOUS
<1> USE DEF Executing
<1>1. CASE DispatchException
  BY <1>1 DEF DispatchException, Goto, ControlInv, TablesInv, BaseInv, BusInv,
     ServiceInv, LabelInv, tableVars, picVars, Base, IrqCode, IrqVectors
<1>2. CASE DispatchIrq
  <2>1. LabelInv'
    BY <1>2 DEF DispatchIrq, Goto, ControlInv, LabelInv, picVars, IrqVectors,
                Acknowledged, Genuine, Line
  <2> QED BY <1>2, <2>1, GotoControlInv
          DEF DispatchIrq, ReportsException, IrqVectors, IrqCode, picVars
<1>3. CASE DispatchNothing
  <2>1. LabelInv'
    BY <1>3 DEF DispatchNothing, Goto, ControlInv, LabelInv, picVars,
                IrqVectors, TypeOK, CpuTypeOK
  <2> QED BY <1>3, <2>1, GotoControlInv
          DEF DispatchNothing, ReportsException, IrqCode, picVars, TypeOK, CpuTypeOK
<1>4. ASSUME pc = "irq", bus = "idle", UNCHANGED picVars, UNCHANGED tableVars,
             NEW label \in IrqCode, Goto(label),
             \/ SpuriousOnMaster /\ label = "iret"
             \/ SpuriousOnSlave /\ label = "eoi_master"
             \/ ~SpuriousOnMaster /\ ~SpuriousOnSlave /\ label \in {"handler", FirstEoi}
      PROVE  ControlInv'
  <2>1. int_no \in IrqVectors /\ Acknowledged(Line)
    BY <1>4 DEF ControlInv, LabelInv
  <2>2. CASE SpuriousOnMaster /\ label = "iret"
    <3>1. isr = {}
      BY <2>1, <2>2 DEF SpuriousOnMaster, PIC_Read_ISR, Acknowledged, Genuine,
         InService, Line, Master, Slave, IRQ7
    <3>2. LabelInv'
      BY <1>4, <2>2, <3>1 DEF Goto, LabelInv, picVars
    <3> QED BY <1>4, <3>2, GotoControlInv DEF ReportsException, IrqCode, picVars
  <2>3. CASE SpuriousOnSlave /\ label = "eoi_master"
    <3>1. int_no = 47 /\ isr = {Cascade}
      BY <2>1, <2>3 DEF SpuriousOnSlave, PIC_Read_ISR, Acknowledged, Genuine,
         InService, Line, Master, Slave, Cascade, IRQ15
    <3>2. LabelInv'
      BY <1>4, <2>3, <3>1 DEF Goto, LabelInv, picVars
    <3> QED BY <1>4, <3>2, GotoControlInv DEF ReportsException, IrqCode, picVars
  <2>4. CASE ~SpuriousOnMaster /\ ~SpuriousOnSlave /\ label \in {"handler", FirstEoi}
    <3>1. Line \in 0..15 /\ Genuine(Line)
      BY <2>1, <2>4 DEF SpuriousOnMaster, SpuriousOnSlave, PIC_Read_ISR,
         Acknowledged, Genuine, InService, Line, Master, Slave, Cascade,
         IRQ7, IRQ15, IrqVectors
    <3>2. Genuine(Line)' /\ int_no' = int_no /\ pc' = label
      BY <1>4, <3>1 DEF Goto, Genuine, Line, picVars
    <3>3. \/ label = "handler"
          \/ label = "eoi_slave" /\ int_no \in 40..47
          \/ label = "eoi_master" /\ int_no \in 32..39
      BY <2>1, <2>4 DEF FirstEoi, IRQ8, IrqVectors
    <3>4. LabelInv'
      BY <2>1, <3>2, <3>3 DEF LabelInv
    <3> QED BY <1>4, <3>4, GotoControlInv DEF ReportsException, IrqCode, picVars
  <2> QED BY <1>4, <2>2, <2>3, <2>4
<1>5. CASE IgnoreSpuriousMaster \/ EndSpuriousSlave \/ StartGenuineIrq
  <2>1. FirstEoi \in IrqCode /\ {"iret", "eoi_master", "handler"} \subseteq IrqCode
    BY DEF FirstEoi, IrqCode
  <2> QED BY <1>4, <1>5, <2>1
          DEF IgnoreSpuriousMaster, EndSpuriousSlave, StartGenuineIrq
<1>6. CASE CallRoutine
  <2>1. int_no \in IrqVectors /\ Genuine(Line)
    BY <1>6 DEF CallRoutine, ControlInv, LabelInv
  <2>2. Genuine(Line)' /\ int_no' = int_no /\ pc' = FirstEoi
    BY <1>6, <2>1 DEF CallRoutine, Goto, Genuine, Line, picVars
  <2>3. \/ FirstEoi = "eoi_slave" /\ int_no \in 40..47
        \/ FirstEoi = "eoi_master" /\ int_no \in 32..39
    BY <2>1 DEF FirstEoi, IRQ8, IrqVectors
  <2>4. LabelInv'
    BY <2>2, <2>3 DEF LabelInv
  <2> QED BY <1>6, <2>3, <2>4, GotoControlInv
          DEF CallRoutine, ReportsException, IrqCode, picVars
<1>7. CASE SendEoiSlave
  <2>1. int_no \in 40..47 /\ isr' = {Cascade}
    BY <1>7, EoiEffect, InServiceAtSlaveEoi DEF SendEoiSlave, Executing
  <2>2. LabelInv'
    BY <1>7, <2>1 DEF SendEoiSlave, Goto, LabelInv
  <2> QED BY <1>7, <2>2, GotoControlInv
          DEF SendEoiSlave, PIC_EOI_Slave, EndOfInterrupt, ReportsException, IrqCode
<1>8. CASE SendEoiMaster
  <2>1. LabelInv'
    BY <1>8, EoiEffect DEF SendEoiMaster, Goto, LabelInv
  <2> QED BY <1>8, <2>1, GotoControlInv
          DEF SendEoiMaster, PIC_EOI_Master, EndOfInterrupt, ReportsException, IrqCode
<1>9. CASE ReturnFromInterrupt
  <2>1. PICK f \in Frame : f.pc = "main" /\ stack = <<f>>
    BY <1>9 DEF ReturnFromInterrupt, ControlInv, ServiceInv, ReportsException, IrqCode
  <2>2. pc' = "main" /\ stack' = <<>> /\ isr' = {} /\ bus' = "idle"
    BY <1>9, <2>1 DEF ReturnFromInterrupt, ControlInv, LabelInv, picVars
  <2> QED BY <1>9, <2>2 DEF ReturnFromInterrupt, ControlInv, TablesInv, BaseInv,
          BusInv, ServiceInv, LabelInv, picVars, tableVars, Base, IrqCode
<1> QED BY <1>1, <1>2, <1>3, <1>5, <1>6, <1>7, <1>8, <1>9 DEF ServiceRoutine

LEMMA MainThreadControlInv ==
  TypeOK /\ ControlInv /\ MainThread => ControlInv'
<1> SUFFICES ASSUME TypeOK, ControlInv, MainThread PROVE ControlInv'
  OBVIOUS
<1>1. CASE Enable_Interrupts \/ Disable_Interrupts \/ Pause_Interrupts
  BY <1>1 DEF Enable_Interrupts, Disable_Interrupts, Pause_Interrupts,
     SetInterruptFlag, Executing, ControlInv, TablesInv, BaseInv, BusInv,
     ServiceInv, LabelInv, picVars, tableVars, Base, IrqCode
<1>2. ASSUME NEW routines, SetRoutine(routines)
      PROVE  ControlInv'
  BY <1>2, ControlFraming DEF SetRoutine, picVars
<1>3. ASSUME NEW v \in SoftVectors, SoftwareInterrupt(v)
      PROVE  ControlInv'
  BY <1>3, EnterGateControlInv DEF SoftwareInterrupt, Executing, picVars, Base
<1> QED BY <1>1, <1>2, <1>3 DEF MainThread, Install_Interrupt_Handler,
           Uninstall_Interrupt_Handler, Install_Syscall_Handler

LEMMA NextIInv == IInv /\ [Next]_vars => IInv'
<1> SUFFICES ASSUME IInv, [Next]_vars PROVE IInv'
  OBVIOUS
<1>1. TypeOK'
  BY NextTypeOK DEF IInv
<1>2. CASE UNCHANGED vars
  BY <1>1, <1>2, ControlFraming DEF IInv, vars, picVars, tableVars
<1>3. CASE Next
  <2>1. CASE Environment
    BY <1>1, <2>1, EnvironmentControlInv DEF IInv
  <2>2. CASE AcceptInterrupt
    BY <1>1, <2>2, AcceptControlInv DEF IInv
  <2>3. CASE AcknowledgeCycle
    BY <1>1, <2>3, AcknowledgeCycleControlInv DEF IInv
  <2>4. CASE ServiceRoutine
    BY <1>1, <2>4, ServiceRoutineControlInv DEF IInv
  <2>5. CASE MainThread
    BY <1>1, <2>5, MainThreadControlInv DEF IInv
  <2> QED BY <1>3, <2>1, <2>2, <2>3, <2>4, <2>5 DEF Next
<1> QED BY <1>2, <1>3

(* The inductive invariant holds throughout.                               *)
THEOREM Invariance == Spec => []IInv
<1>1. Init => IInv
  BY InitTypeOK, InitControlInv DEF IInv
<1> QED BY <1>1, NextIInv, PTL DEF Spec

(* Whenever the CPU is back in the main thread nothing is in service: no   *)
(* path of IRQ_Handler leaves a line blocked.                              *)
THEOREM InterruptsAreEnded == Spec => []EveryInterruptIsEnded
<1>1. IInv => EveryInterruptIsEnded
  BY DEF IInv, ControlInv, BaseInv, EveryInterruptIsEnded
<1> QED BY <1>1, Invariance, PTL

(* IRQ_Handler calls a routine only for a request its device made.         *)
THEOREM SpuriousIrqsAreRecognised == Spec => []OnlyGenuineIrqRunsRoutine
<1>1. IInv => OnlyGenuineIrqRunsRoutine
  BY DEF IInv, ControlInv, LabelInv, OnlyGenuineIrqRunsRoutine, Genuine,
         InService, Line
<1> QED BY <1>1, Invariance, PTL

(* The non-specific EOIs of IRQ_Handler end the interrupt it handles.      *)
THEOREM EoisAreRight == Spec => []EoiEndsTheCurrentInterrupt
<1>1. ASSUME IInv, pc = "eoi_slave"
      PROVE  Highest(isr \cap Slave) = {int_no - 32}
  BY <1>1, InServiceAtSlaveEoi DEF IInv, Line
<1>2. ASSUME IInv, pc = "eoi_master"
      PROVE  Highest(isr \cap Master) =
               {IF int_no >= IRQ8 THEN Cascade ELSE int_no - 32}
  <2>1. Highest(isr \cap Master) = isr
    BY <1>2, InServiceAtMasterEoi DEF IInv
  <2>2. \/ int_no \in 32..39 /\ isr = {Line}
        \/ int_no \in 40..47 /\ isr = {Cascade}
    BY <1>2, InServiceAtMasterEoi DEF IInv
  <2> QED BY <2>1, <2>2 DEF IRQ8, Line
<1>3. IInv => EoiEndsTheCurrentInterrupt
  BY <1>1, <1>2 DEF EoiEndsTheCurrentInterrupt
<1> QED BY <1>3, Invariance, PTL

(* At most one context is interrupted at a time.                           *)
THEOREM NoNesting == Spec => []ServiceDoesNotNest
<1>1. ASSUME IInv, ~ReportsException
      PROVE  Len(stack) <= 1
  <2>1. pc \in Base \/ pc \in IrqCode \cup {"stub"}
    BY <1>1 DEF IInv, TypeOK, CpuTypeOK, Labels, ControlInv, LabelInv,
                ReportsException
  <2>2. CASE pc \in Base
    BY <1>1, <2>2 DEF IInv, ControlInv, BaseInv
  <2>3. CASE pc \in IrqCode \cup {"stub"}
    <3>1. PICK f \in Frame : stack = <<f>>
      BY <1>1, <2>3 DEF IInv, ControlInv, ServiceInv
    <3>2. Len(<<f>>) = 1
      OBVIOUS
    <3> QED BY <3>1, <3>2
  <2> QED BY <2>1, <2>2, <2>3
<1>2. IInv => ServiceDoesNotNest
  BY <1>1 DEF ServiceDoesNotNest
<1> QED BY <1>2, Invariance, PTL

(* Once an exception is reported, nothing but the devices' own state       *)
(* changes.                                                                *)
THEOREM PanicStops == Spec => PanicIsFinal
<1>1. ASSUME IInv, [Next]_vars, ReportsException
      PROVE  ReportsException' /\ isr' = isr
  <2>1. pc \in {"panic", "stub"}
    BY <1>1 DEF ReportsException
  <2>2. iflag = FALSE /\ bus = "idle"
    BY <1>1, <2>1 DEF IInv, TypeOK, CpuTypeOK, ControlInv, LabelInv, BusInv,
       ReportsException, IrqVectors
  <2>3. CASE UNCHANGED vars
    BY <1>1, <2>3 DEF vars, picVars, cpuVars, ReportsException
  <2>4. CASE Environment
    <3>1. ASSUME NEW i \in Devices, DeviceRaises(i) \/ DeviceWithdraws(i)
          PROVE  ReportsException' /\ isr' = isr
      BY <1>1, <3>1 DEF DeviceRaises, DeviceWithdraws, Raise, Withdraw,
         ReportsException, cpuVars
    <3>2. ASSUME NEW v \in Faults, RaiseException(v) \/ RaiseExceptionAgain(v)
          PROVE  ReportsException' /\ isr' = isr
      BY <1>1, <3>2 DEF RaiseException, RaiseExceptionAgain, ReportsException, picVars
    <3> QED BY <2>4, <3>1, <3>2 DEF Environment
  <2>5. ~AcceptInterrupt /\ ~AcknowledgeCycle
    BY <2>2 DEF AcceptInterrupt, AcknowledgeCycle, MasterAnswersSpurious,
       MasterAnswers, MasterDefersToSlave, SlaveAnswers, SlaveAnswersSpurious
  <2>6. ServiceRoutine => DispatchException
    BY <1>1, <2>1 DEF ServiceRoutine, DispatchIrq, DispatchNothing,
       IgnoreSpuriousMaster, EndSpuriousSlave, StartGenuineIrq, CallRoutine,
       SendEoiSlave, SendEoiMaster, ReturnFromInterrupt, Executing,
       ReportsException, IrqVectors, IInv, TypeOK, CpuTypeOK
  <2>7. DispatchException => ReportsException' /\ isr' = isr
    BY DEF DispatchException, Goto, ReportsException, picVars
  <2>8. ~MainThread
    BY <2>1 DEF MainThread, Enable_Interrupts, Disable_Interrupts,
       Pause_Interrupts, SetInterruptFlag, Install_Interrupt_Handler,
       Uninstall_Interrupt_Handler, Install_Syscall_Handler, SetRoutine,
       SoftwareInterrupt, Executing
  <2> QED BY <1>1, <2>3, <2>4, <2>5, <2>6, <2>7, <2>8 DEF Next
<1>2. IInv /\ [Next]_vars =>
        [ReportsException => ReportsException' /\ isr' = isr]_vars
  BY <1>1
<1> QED BY <1>2, Invariance, PTL DEF Spec, PanicIsFinal

-----------------------------------------------------------------------------
(* The refinement.  Service starts when a chip acknowledges the line, and  *)
(* finishes at the end of interrupt of the chip the line is wired to.      *)
LEMMA InitService == Init => Service!Init
BY DEF Init, Service!Init

LEMMA StutterService ==
  UNCHANGED picVars => UNCHANGED Service!vars
BY DEF picVars, Service!vars

LEMMA AcknowledgeStartsService ==
  ASSUME IInv, AcknowledgeCycle
  PROVE  [Service!Next]_Service!vars
<1>1. /\ bus = "inta" => isr = {}
      /\ bus = "cascade" => isr = {Cascade}
  BY DEF IInv, ControlInv, BusInv, BaseInv
<1>2. irr \subseteq Devices /\ Cascade \notin Devices
  BY DEF IInv, TypeOK, PicTypeOK, Cascade
<1>3. CASE MasterAnswersSpurious \/ SlaveAnswersSpurious
  BY <1>3, StutterService DEF MasterAnswersSpurious, SlaveAnswersSpurious
<1>4. CASE MasterDefersToSlave
  BY <1>1, <1>2, <1>4 DEF MasterDefersToSlave, Acknowledge, Service!vars
<1>5. ASSUME NEW i \in Devices, MasterAnswers(i) \/ SlaveAnswers(i)
      PROVE  Service!Start(i)
  <2>1. i \in irr
    BY <1>2, <1>5, HighestMember DEF MasterAnswers, SlaveAnswers, MasterRequests,
       SlaveRequests, CascadeRequest
  <2>2. isr \ {Cascade} = {} /\ isr' = isr \cup {i} /\ irr' = irr \ {i}
    BY <1>1, <1>5 DEF MasterAnswers, SlaveAnswers, Acknowledge
  <2> QED BY <1>2, <2>1, <2>2 DEF Service!Start
<1> QED BY <1>3, <1>4, <1>5 DEF AcknowledgeCycle, Service!Next

LEMMA EoiFinishesService ==
  ASSUME IInv, ServiceRoutine
  PROVE  [Service!Next]_Service!vars
<1>1. Cascade \notin Devices
  BY DEF Cascade
<1>2. CASE SendEoiSlave
  <2>1. Line \in Devices /\ isr = {Cascade, Line} /\ isr' = {Cascade}
    BY <1>2, EoiEffect, InServiceAtSlaveEoi DEF SendEoiSlave, Executing, IInv
  <2>2. Service!Finish(Line)
    BY <1>1, <1>2, <2>1 DEF SendEoiSlave, PIC_EOI_Slave, EndOfInterrupt, Service!Finish
  <2> QED BY <2>1, <2>2 DEF Service!Next
<1>3. CASE SendEoiMaster
  <2>1. isr' = {} /\ irr' = irr
    BY <1>3, EoiEffect DEF SendEoiMaster, PIC_EOI_Master, EndOfInterrupt, IInv
  <2>2. \/ isr = {Cascade}
        \/ Line \in Devices /\ isr = {Line}
    BY <1>3, InServiceAtMasterEoi DEF SendEoiMaster, Executing, IInv
  <2>3. CASE isr = {Cascade}
    BY <2>1, <2>3 DEF Service!vars
  <2>4. CASE Line \in Devices /\ isr = {Line}
    <3>1. Service!Finish(Line)
      BY <1>1, <2>1, <2>4 DEF Service!Finish
    <3> QED BY <2>4, <3>1 DEF Service!Next
  <2> QED BY <2>2, <2>3, <2>4
<1>4. CASE ~SendEoiSlave /\ ~SendEoiMaster
  BY <1>4, StutterService DEF ServiceRoutine, DispatchException, DispatchIrq,
     DispatchNothing, IgnoreSpuriousMaster, EndSpuriousSlave, StartGenuineIrq,
     CallRoutine, ReturnFromInterrupt
<1> QED BY <1>2, <1>3, <1>4

LEMMA NextService == IInv /\ [Next]_vars => [Service!Next]_Service!vars
<1> SUFFICES ASSUME IInv, [Next]_vars PROVE [Service!Next]_Service!vars
  OBVIOUS
<1>1. CASE UNCHANGED vars
  BY <1>1, StutterService DEF vars
<1>2. CASE Environment
  <2>1. ASSUME NEW i \in Devices, DeviceRaises(i)
        PROVE  Service!Request(i)
    BY <2>1 DEF DeviceRaises, Raise, Service!Request
  <2>2. ASSUME NEW i \in Glitchy, DeviceWithdraws(i)
        PROVE  Service!Retract(i)
    BY <2>2 DEF DeviceWithdraws, Withdraw, Service!Retract
  <2>3. ASSUME NEW v \in Faults, RaiseException(v) \/ RaiseExceptionAgain(v)
        PROVE  UNCHANGED Service!vars
    BY <2>3, StutterService DEF RaiseException, RaiseExceptionAgain
  <2> QED BY <1>2, <2>1, <2>2, <2>3 DEF Environment, Service!Next
<1>3. CASE AcceptInterrupt
  BY <1>3, StutterService DEF AcceptInterrupt
<1>4. CASE AcknowledgeCycle
  BY <1>4, AcknowledgeStartsService
<1>5. CASE ServiceRoutine
  BY <1>5, EoiFinishesService
<1>6. CASE MainThread
  BY <1>6, StutterService DEF MainThread, Enable_Interrupts, Disable_Interrupts,
     Pause_Interrupts, SetInterruptFlag, Install_Interrupt_Handler,
     Uninstall_Interrupt_Handler, Install_Syscall_Handler, SetRoutine,
     SoftwareInterrupt
<1> QED BY <1>1, <1>2, <1>3, <1>4, <1>5, <1>6 DEF Next

(* The interrupt path serves the devices as IrqService promises: one       *)
(* request at a time, only requests that were made, each to its end.       *)
THEOREM Refinement == Spec => ImplementsIrqService
BY InitService, NextService, Invariance, PTL
   DEF Spec, ImplementsIrqService, Service!Spec
=============================================================================

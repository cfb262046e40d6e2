--------------------------- MODULE KernelBootProofs --------------------------
(***************************************************************************)
(* What kmain hands over to the interrupt path.  Until sti the machine is  *)
(* quiet: interrupts are off, nothing is in service, and an exception is   *)
(* the end.  From sti on the invariant of IrqDispatch holds, for kmain     *)
(* only halts and waits, and every other step is one of IrqDispatch, but   *)
(* for the fault that loading a segment register would be.                 *)
(***************************************************************************)
EXTENDS KernelBoot, IrqDispatchProofs

Progress == BeforePit \cup BeforeSti \cup AfterSti

NoGates == [v \in {} |-> 0]

Quiet ==
  /\ TypeOK
  /\ iflag = FALSE /\ bus = "idle" /\ isr = {}
  /\ pc \in Base \cup {"stub", "panic", "reset"}
  /\ pc \in Base => stack = <<>>
  /\ pc = "stub" => int_no < 32
  /\ kpc \in {"restore", "gates", "sti"} => base = KernelBases
  /\ idt = IF kpc = "sti" THEN InstalledIdt ELSE NoGates

(* Where the masks of the BIOS are.                                        *)
MaskInv ==
  /\ bios_masks \in SUBSET (0..15)
  /\ IF kpc \in {"icw2", "restore"} THEN masks = bios_masks ELSE imr = bios_masks
  /\ isr \cap bios_masks = {}

PhaseInv ==
  /\ kpc \in Progress
  /\ kpc \in AfterSti => IInv
  /\ kpc \notin AfterSti => Quiet

BootInv == PhaseInv /\ MaskInv

USE DevicesAssumption, DispatchAssumption, TimerAssumption

-----------------------------------------------------------------------------
(* The gates, as the CPU decodes them: none in a table of clear entries,   *)
(* and in the kernel's table those that IrqDispatch starts from.           *)
LEMMA ClearTable == GatesOf([v \in 0..255 |-> ClearEntry]) = NoGates
<1> DEFINE table == [v \in 0..255 |-> ClearEntry]
<1>1. \A v \in 0..255 : ~IsInterruptGate(table[v])
  BY DEF ClearEntry, IsInterruptGate, Has
<1>2. {v \in 0..255 : IsInterruptGate(table[v])} = {}
  BY <1>1
<1> QED BY <1>2 DEF GatesOf, NoGates

LEMMA KernelTable == GatesOf(Table) = InstalledIdt
<1>1. ASSUME NEW v \in 0..255
      PROVE  IsInterruptGate(Table[v]) <=> v \in 0..47 \cup {120}
  <2>1. CASE v \in 0..47 \cup {120}
    BY <2>1 DEF Table, Create_IDT_Entry, IsInterruptGate, Has
  <2>2. CASE v = 121
    BY <2>2 DEF Table, Create_IDT_Entry, IsInterruptGate, Has
  <2>3. CASE v \notin 0..47 \cup {120, 121}
    BY <2>3 DEF Table, ClearEntry, IsInterruptGate, Has
  <2> QED BY <2>1, <2>2, <2>3
<1>2. {v \in 0..255 : IsInterruptGate(Table[v])} = 0..47 \cup {120}
  BY <1>1
<1>3. ASSUME NEW v \in 0..47 \cup {120}
      PROVE  (CHOOSE n \in 0..255 : Stub(n) = TargetOf(Table[v])) = v
  <2>1. TargetOf(Table[v]) = Stub(v)
    BY DEF Table, Create_IDT_Entry, TargetOf, Stub
  <2>2. \A n \in 0..255 : Stub(n) = Stub(v) => n = v
    BY DEF Stub
  <2> QED BY <2>1, <2>2
<1> QED BY <1>2, <1>3 DEF GatesOf, InstalledIdt

(* An exception while the machine is quiet ends in a panic or a reset.     *)
LEMMA QuietException ==
  ASSUME Quiet, NEW v \in 0..31, EnterGate(v), UNCHANGED picVars, kpc' = kpc
  PROVE  Quiet'
<1>1. TypeOK'
  BY EnterGateTypeOK, Framing DEF Quiet, TypeOK
<1>2. CASE kpc = "sti"
  <2>1. idt = InstalledIdt
    BY <1>2 DEF Quiet
  <2>2. v \in DOMAIN InstalledIdt /\ InstalledIdt[v] = v
    BY DEF InstalledIdt
  <2>3. GateOf(v) = v /\ v \in DOMAIN idt /\ idt[v] = v
    BY <2>1, <2>2 DEF GateOf
  <2> QED BY <1>1, <1>2, <2>3 DEF EnterGate, Quiet, Base, picVars, tableVars
<1>3. CASE kpc # "sti"
  <2>1. GateOf(v) \notin DOMAIN idt
    BY <1>3 DEF Quiet, NoGates
  <2> QED BY <1>1, <1>3, <2>1 DEF EnterGate, Quiet, Base, picVars, tableVars
<1> QED BY <1>2, <1>3

(* What the interrupt path does to the masks and what is in service.       *)
LEMMA AcknowledgeUnmasked ==
  ASSUME AcknowledgeCycle
  PROVE  imr' = imr /\ isr' \cap imr \subseteq isr
<1>1. SlaveRequests \cap imr = {} /\ MasterRequests \cap imr = {}
  BY DEF SlaveRequests, MasterRequests
<1>2. CASE MasterAnswersSpurious \/ SlaveAnswersSpurious
  BY <1>2 DEF MasterAnswersSpurious, SlaveAnswersSpurious, picVars
<1>3. ASSUME NEW i \in Devices, MasterAnswers(i) \/ SlaveAnswers(i)
      PROVE  imr' = imr /\ isr' \cap imr \subseteq isr
  <2>1. i \notin imr
    BY <1>1, <1>3, HighestMember DEF MasterAnswers, SlaveAnswers
  <2> QED BY <1>3, <2>1 DEF MasterAnswers, SlaveAnswers, Acknowledge
<1>4. CASE MasterDefersToSlave
  <2>1. Cascade \notin imr
    BY <1>1, <1>4, HighestMember DEF MasterDefersToSlave
  <2> QED BY <1>4, <2>1 DEF MasterDefersToSlave, Acknowledge
<1> QED BY <1>2, <1>3, <1>4 DEF AcknowledgeCycle

LEMMA ServiceEndsOnly ==
  ASSUME ServiceRoutine
  PROVE  imr' = imr /\ isr' \subseteq isr
BY DEF ServiceRoutine, DispatchException, DispatchIrq, DispatchNothing,
       IgnoreSpuriousMaster, EndSpuriousSlave, StartGenuineIrq, CallRoutine,
       SendEoiSlave, SendEoiMaster, ReturnFromInterrupt, PIC_EOI_Slave,
       PIC_EOI_Master, EndOfInterrupt, picVars

LEMMA MasksKept ==
  ASSUME MaskInv, UNCHANGED <<imr, kpc, masks, bios_masks>>,
         \/ isr' \subseteq isr
         \/ isr' \cap imr \subseteq isr /\ kpc \notin {"icw2", "restore"}
  PROVE  MaskInv'
BY DEF MaskInv

-----------------------------------------------------------------------------
(* The initial states: the chips as the BIOS left them, no gates.          *)
LEMMA BootInvInit == BootInit => BootInv
<1> SUFFICES ASSUME BootInit PROVE BootInv
  OBVIOUS
<1>1. PicTypeOK
  <2>1. /\ irr \in SUBSET Devices /\ isr = {} /\ imr \in SUBSET (Devices \cup {Cascade})
        /\ base = [master |-> 8, slave |-> 112]
    BY DEF BootInit
  <2> QED BY <2>1 DEF PicTypeOK, Cascade
<1>2. idt = NoGates /\ TableTypeOK
  <2>1. idt = NoGates
    BY ClearTable DEF BootInit
  <2>2. Interrupt_Routines \in [Slots -> Routines \cup {NULL}]
    BY DEF BootInit
  <2> QED BY <2>1, <2>2 DEF TableTypeOK, NoGates
<1>3. CpuTypeOK
  <2>1. iflag = FALSE /\ bus = "idle" /\ pc = "main" /\ int_no = 0 /\ stack = <<>>
    BY DEF BootInit
  <2>2. stack \in Seq(Frame)
    BY <2>1, EmptySeq
  <2>3. pc \in Labels /\ int_no \in 0..255
    BY <2>1 DEF Labels, Base
  <2>4. iflag \in BOOLEAN /\ bus \in {"idle", "inta", "cascade"}
    BY <2>1
  <2> QED BY <2>2, <2>3, <2>4 DEF CpuTypeOK
<1>4. kpc = "terminal" /\ iflag = FALSE /\ bus = "idle" /\ isr = {} /\ pc = "main" /\ stack = <<>>
  BY DEF BootInit
<1>5. PhaseInv
  BY <1>1, <1>2, <1>3, <1>4
     DEF PhaseInv, Quiet, TypeOK, Progress, BeforePit, AfterSti, Base
<1>6. bios_masks = imr /\ imr \in SUBSET (0..15)
  BY <1>1 DEF BootInit, PicTypeOK
<1> QED BY <1>4, <1>5, <1>6 DEF BootInv, MaskInv

(* Whatever the interrupt path does, when kmain does not go on.            *)
LEMMA QuietMachine ==
  ASSUME Quiet, kpc' = kpc,
         \/ ServiceRoutine
         \/ \E i \in Devices : DeviceRaises(i) \/ DeviceWithdraws(i)
         \/ \E v \in Faults : RaiseException(v) \/ RaiseExceptionAgain(v)
  PROVE  Quiet'
<1>1. CASE ServiceRoutine
  <2>1. DispatchException
    BY <1>1 DEF Quiet, Base, Executing, ServiceRoutine, DispatchException,
       DispatchIrq, DispatchNothing, IgnoreSpuriousMaster, EndSpuriousSlave,
       StartGenuineIrq, CallRoutine, SendEoiSlave, SendEoiMaster,
       ReturnFromInterrupt, IrqVectors, TypeOK, CpuTypeOK
  <2>2. TypeOK'
    BY <1>1, NextTypeOK DEF Quiet, Next
  <2> QED BY <2>1, <2>2 DEF DispatchException, Goto, Quiet, Base, picVars, tableVars
<1>2. ASSUME NEW i \in Devices, DeviceRaises(i) \/ DeviceWithdraws(i)
      PROVE  Quiet'
  <2>1. PicTypeOK'
    BY <1>2 DEF DeviceRaises, DeviceWithdraws, Raise, Withdraw, PicTypeOK, Quiet, TypeOK
  <2>2. UNCHANGED tableVars /\ UNCHANGED cpuVars /\ UNCHANGED <<isr, base>>
    BY <1>2 DEF DeviceRaises, DeviceWithdraws, Raise, Withdraw
  <2>3. TypeOK'
    BY <2>1, <2>2, Framing DEF Quiet, TypeOK
  <2> QED BY <2>2, <2>3 DEF Quiet, cpuVars, tableVars
<1>3. ASSUME NEW v \in Faults, RaiseException(v)
      PROVE  Quiet'
  BY <1>3, QuietException DEF RaiseException
<1>4. ASSUME NEW v \in Faults, RaiseExceptionAgain(v)
      PROVE  Quiet'
  <2>1. TypeOK'
    BY <1>4, NextTypeOK DEF Quiet, Next, Environment
  <2> QED BY <1>4, <2>1 DEF RaiseExceptionAgain, Quiet, Base, picVars, tableVars
<1> QED BY <1>1, <1>2, <1>3, <1>4

LEMMA HaltIInv ==
  ASSUME IInv, SetInterruptFlag(iflag, "hlt")
  PROVE  IInv'
<1>1. CpuTypeOK'
  BY DEF SetInterruptFlag, IInv, TypeOK, CpuTypeOK, Labels, Base
<1>2. TypeOK'
  BY <1>1, Framing DEF SetInterruptFlag, IInv, TypeOK
<1>3. ControlInv'
  BY DEF IInv, SetInterruptFlag, Executing, ControlInv, TablesInv, BaseInv,
     BusInv, ServiceInv, LabelInv, picVars, tableVars, Base, IrqCode
<1> QED BY <1>2, <1>3 DEF IInv

LEMMA FaultIInv ==
  ASSUME IInv, bus = "idle", GeneralProtection
  PROVE  IInv'
<1>1. TypeOK'
  BY EnterGateTypeOK, Framing DEF GeneralProtection, IInv, TypeOK
<1>2. ControlInv'
  BY EnterGateControlInv DEF GeneralProtection, IInv, picVars
<1> QED BY <1>1, <1>2 DEF IInv

-----------------------------------------------------------------------------
(* kmain's steps.  Until the chips are initialized a step that leaves the  *)
(* interrupt path alone keeps the machine quiet.                           *)
LEMMA QuietStep ==
  ASSUME BootInv, UNCHANGED <<irr, isr, imr, base, iflag, bus, pc, int_no, stack, idt>>,
         UNCHANGED bios_masks, TableTypeOK',
         kpc \in (BeforePit \cup BeforeSti) \ {"icw2", "restore", "gates", "sti"},
         kpc' \in (BeforePit \cup BeforeSti) \ {"icw2", "restore", "gates", "sti"}
  PROVE  BootInv'
<1>1. kpc \notin AfterSti /\ kpc' \notin AfterSti
  BY DEF BeforePit, BeforeSti, AfterSti
<1>2. Quiet
  BY <1>1 DEF BootInv, PhaseInv
<1>3. TypeOK'
  BY <1>2 DEF Quiet, TypeOK, PicTypeOK, CpuTypeOK
<1>4. Quiet'
  BY <1>2, <1>3 DEF Quiet
<1>5. MaskInv'
  BY DEF BootInv, MaskInv
<1> QED BY <1>1, <1>4, <1>5 DEF BootInv, PhaseInv, Progress

LEMMA EarlyBootInv ==
  ASSUME BootInv,
         \/ StartTerminal \/ BadMagic \/ PIT_8254_Phase(1000)
         \/ Initialize_PIT_8254 \/ Initialize_GDT \/ Install_IDT
  PROVE  BootInv'
<1>1. /\ kpc \in {"terminal", "command", "low", "high", "pit", "gdt", "data segments",
                  "far jump", "ltr", "idt"}
      /\ UNCHANGED bios_masks
  BY DEF StartTerminal, BadMagic, PIT_8254_Phase, Initialize_PIT_8254,
         Initialize_GDT, SegmentStep, Install_IDT, Kmain
<1>2. Quiet
  BY <1>1 DEF BootInv, PhaseInv, AfterSti
<1>3. TableTypeOK /\ TypeOK /\ idt = NoGates
  BY <1>1, <1>2 DEF Quiet, TypeOK
<1>4. ASSUME UNCHANGED vars,
             kpc' \in {"command", "low", "high", "pit", "data segments", "far jump",
                       "ltr", "idt"}
      PROVE  BootInv'
  BY <1>1, <1>3, <1>4, QuietStep, Framing
     DEF vars, picVars, tableVars, cpuVars, BeforePit, BeforeSti
<1>5. CASE StartTerminal \/ PIT_8254_Phase(1000)
  BY <1>4, <1>5 DEF StartTerminal, PIT_8254_Phase, Kmain
<1>6. CASE BadMagic
  <2>1. /\ UNCHANGED picVars /\ UNCHANGED tableVars /\ UNCHANGED <<bus, int_no, stack>>
        /\ iflag' = FALSE /\ pc = "main" /\ pc' = "hlt"
        /\ kpc' = "hang"
    BY <1>6 DEF BadMagic, Kmain, SetInterruptFlag, Executing
  <2>2. TypeOK'
    <3>1. CpuTypeOK'
      BY <1>3, <2>1 DEF TypeOK, CpuTypeOK, Labels, Base
    <3> QED BY <1>3, <2>1, <3>1, Framing DEF TypeOK
  <2>3. Quiet'
    BY <1>1, <1>2, <2>1, <2>2 DEF Quiet, picVars, tableVars, Base
  <2>4. MaskInv'
    BY <1>1, <2>1 DEF BootInv, MaskInv, picVars
  <2> QED BY <2>1, <2>3, <2>4 DEF BootInv, PhaseInv, Progress, BeforePit, AfterSti
<1>7. CASE Initialize_PIT_8254
  <2>1. Install_Interrupt_Handler(IRQ0, "PIT_8254_Handler") /\ kpc' = "gdt"
    BY <1>7 DEF Initialize_PIT_8254, Kmain
  <2>2. TableTypeOK'
    BY <1>3, <2>1 DEF Install_Interrupt_Handler, SetRoutine, TableTypeOK, Routines, Slots
  <2> QED BY <1>1, <2>1, <2>2, QuietStep
          DEF Install_Interrupt_Handler, SetRoutine, picVars, cpuVars, BeforePit, BeforeSti
<1>8. CASE Initialize_GDT
  <2>1. \/ UNCHANGED vars /\ kpc' \in {"data segments", "far jump", "ltr", "idt"}
        \/ GeneralProtection /\ kpc' = kpc
    BY <1>8 DEF Initialize_GDT, SegmentStep
  <2>2. CASE GeneralProtection /\ kpc' = kpc
    <3>1. Quiet'
      BY <1>2, <2>2, QuietException DEF GeneralProtection
    <3>2. MaskInv'
      BY <1>1, <2>2 DEF BootInv, MaskInv, GeneralProtection, picVars
    <3> QED BY <1>1, <2>2, <3>1, <3>2
            DEF BootInv, PhaseInv, Progress, BeforeSti, AfterSti
  <2> QED BY <1>4, <2>1, <2>2
<1>9. CASE Install_IDT
  <2>1. idt' = NoGates /\ kpc' = "icw1"
        /\ UNCHANGED <<picVars, Interrupt_Routines, cpuVars>>
    BY <1>9, ClearTable DEF Install_IDT, LoadIdt, Kmain
  <2>2. idt' = idt
    BY <1>3, <2>1
  <2>3. TableTypeOK'
    BY <1>3, <2>1, <2>2, Framing DEF tableVars
  <2> QED BY <1>1, <2>1, <2>2, <2>3, QuietStep
          DEF picVars, cpuVars, BeforePit, BeforeSti
<1> QED BY <1>5, <1>6, <1>7, <1>8, <1>9

(* Interrupt_Handler_Installer: the masks are saved, cleared by ICW1 and   *)
(* put back, while nothing can be in service.                              *)
LEMMA ChipsBootInv ==
  ASSUME BootInv, ResetChips \/ RemapChips \/ RestoreChipMasks \/ CreateGates
  PROVE  BootInv'
<1>1. /\ kpc \in {"icw1", "icw2", "restore", "gates"}
      /\ kpc' \in {"icw2", "restore", "gates", "sti"}
      /\ UNCHANGED bios_masks /\ UNCHANGED cpuVars
  BY DEF ResetChips, RemapChips, RestoreChipMasks, CreateGates, LoadIdt, Kmain
<1>2. Quiet
  BY <1>1 DEF BootInv, PhaseInv, AfterSti
<1>3. /\ PicTypeOK /\ TableTypeOK /\ CpuTypeOK /\ idt = NoGates
      /\ MaskInv
  BY <1>1, <1>2 DEF BootInv, Quiet, TypeOK
<1>4. PicTypeOK' /\ isr' = {} /\ MaskInv'
  <2>1. CASE ResetChips
    <3>1. /\ kpc = "icw1" /\ kpc' = "icw2" /\ masks' = imr
          /\ irr' = {} /\ isr' = {} /\ imr' = {} /\ base' = base
      BY <2>1 DEF ResetChips, Kmain, SendIcw1
    <3> QED BY <1>1, <1>3, <3>1 DEF PicTypeOK, MaskInv
  <2>2. CASE RemapChips
    <3>1. /\ kpc = "icw2" /\ kpc' = "restore" /\ masks' = masks
          /\ irr' = irr /\ isr' = isr /\ imr' = imr /\ base' = [master |-> 32, slave |-> 40]
      BY <2>2 DEF RemapChips, Kmain, SendVectorBases, CallsOnly, LocalsKept
    <3> QED BY <1>1, <1>2, <1>3, <3>1 DEF PicTypeOK, MaskInv, Quiet
  <2>3. CASE RestoreChipMasks
    <3>1. /\ kpc = "restore" /\ kpc' = "gates" /\ imr' = masks
          /\ irr' = irr /\ isr' = isr /\ base' = base
      BY <2>3 DEF RestoreChipMasks, Kmain, RestoreMasks
    <3> QED BY <1>1, <1>2, <1>3, <3>1 DEF PicTypeOK, MaskInv, Quiet
  <2>4. CASE CreateGates
    <3>1. kpc = "gates" /\ kpc' = "sti" /\ UNCHANGED picVars
      BY <2>4 DEF CreateGates, LoadIdt, Kmain
    <3> QED BY <1>1, <1>2, <1>3, <3>1, Framing DEF MaskInv, Quiet, picVars
  <2> QED BY <2>1, <2>2, <2>3, <2>4
<1>5. TableTypeOK' /\ idt' = IF kpc' = "sti" THEN InstalledIdt ELSE NoGates
  <2>1. CASE ResetChips \/ RemapChips \/ RestoreChipMasks
    <3>1. UNCHANGED tableVars /\ kpc' # "sti"
      BY <2>1 DEF ResetChips, RemapChips, RestoreChipMasks, Kmain
    <3> QED BY <1>3, <3>1, Framing DEF tableVars
  <2>2. CASE CreateGates
    <3>1. idt' = InstalledIdt /\ Interrupt_Routines' = Interrupt_Routines /\ kpc' = "sti"
      BY <2>2, KernelTable DEF CreateGates, LoadIdt, Kmain
    <3>2. DOMAIN InstalledIdt \subseteq 0..255 /\ InstalledIdt \in [DOMAIN InstalledIdt -> 0..255]
      BY DEF InstalledIdt
    <3> QED BY <1>3, <3>1, <3>2 DEF TableTypeOK
  <2> QED BY <2>1, <2>2
<1>6. kpc' \in {"restore", "gates", "sti"} => base' = KernelBases
  BY <1>2 DEF ResetChips, RemapChips, RestoreChipMasks, CreateGates, LoadIdt, Kmain,
     SendVectorBases, RestoreMasks, KernelBases, picVars, Quiet
<1>7. Quiet'
  BY <1>1, <1>2, <1>3, <1>4, <1>5, <1>6, Framing DEF Quiet, TypeOK, cpuVars
<1> QED BY <1>1, <1>4, <1>7 DEF BootInv, PhaseInv, Progress, BeforeSti, AfterSti

(* sti: what the interrupt path builds on is there.                        *)
LEMMA StiBootInv ==
  ASSUME BootInv, EnableInterrupts
  PROVE  BootInv'
<1>1. /\ kpc = "sti" /\ kpc' = "test_wait" /\ UNCHANGED bios_masks
      /\ UNCHANGED picVars /\ UNCHANGED tableVars /\ UNCHANGED <<bus, int_no, stack>>
      /\ iflag' = TRUE /\ pc = "main" /\ pc' = "main"
  BY DEF EnableInterrupts, Kmain, Enable_Interrupts, SetInterruptFlag, Executing
<1>2. Quiet /\ MaskInv
  BY <1>1 DEF BootInv, PhaseInv, AfterSti
<1>3. TypeOK'
  <2>1. CpuTypeOK'
    BY <1>1, <1>2 DEF Quiet, TypeOK, CpuTypeOK
  <2> QED BY <1>1, <1>2, <2>1, Framing DEF Quiet, TypeOK
<1>4. ControlInv'
  BY <1>1, <1>2 DEF Quiet, ControlInv, TablesInv, BaseInv, BusInv, ServiceInv,
     LabelInv, Base, IrqCode, picVars, tableVars
<1>5. MaskInv'
  BY <1>1, <1>2 DEF MaskInv, picVars
<1> QED BY <1>1, <1>3, <1>4, <1>5
        DEF BootInv, PhaseInv, IInv, Progress, AfterSti

(* After sti kmain only halts, waits and switches the speaker.             *)
LEMMA LateBootInv ==
  ASSUME BootInv, PIT_8254_Wait("test_wait", "beep_command") \/ Speaker_Beep \/ HaltLoop
  PROVE  BootInv'
<1>1. /\ kpc \in AfterSti /\ kpc' \in AfterSti /\ UNCHANGED bios_masks
      /\ UNCHANGED vars \/ SetInterruptFlag(iflag, "hlt")
  BY DEF PIT_8254_Wait, Speaker_Beep, HaltLoop, Kmain, WaitCall, WaitTest, WaitHalt,
         WaitDone, SwitchSpeaker, AfterSti
<1>2. IInv /\ kpc \notin {"icw2", "restore"} /\ kpc' \notin {"icw2", "restore"}
  BY <1>1 DEF BootInv, PhaseInv, AfterSti
<1>3. IInv'
  BY <1>1, <1>2, NextIInv, HaltIInv
<1>4. UNCHANGED <<imr, isr>>
  BY <1>1 DEF SetInterruptFlag, vars, picVars
<1>5. MaskInv'
  BY <1>1, <1>2, <1>4 DEF BootInv, MaskInv
<1> QED BY <1>1, <1>3, <1>5 DEF BootInv, PhaseInv, Progress

LEMMA KmainBootInv == BootInv /\ MainStep => BootInv'
BY EarlyBootInv, ChipsBootInv, StiBootInv, LateBootInv DEF MainStep

-----------------------------------------------------------------------------
(* Every other step is one of IrqDispatch, or the fault at a stub's end.   *)
LEMMA MachineBootInv ==
  ASSUME BootInv, UNCHANGED <<kpc, masks, bios_masks>>,
         ServiceRoutine \/ AcceptInterrupt \/ AcknowledgeCycle \/ Environment
  PROVE  BootInv'
<1>1. CASE kpc \in AfterSti
  <2>1. IInv'
    BY <1>1, NextIInv DEF BootInv, PhaseInv, Next
  <2>2. /\ imr' = imr
        /\ isr' \subseteq isr \/ isr' \cap imr \subseteq isr
    BY AcknowledgeUnmasked, ServiceEndsOnly
       DEF AcceptInterrupt, Environment, DeviceRaises, DeviceWithdraws, Raise,
           Withdraw, RaiseException, RaiseExceptionAgain, picVars
  <2>3. kpc \notin {"icw2", "restore"}
    BY <1>1 DEF AfterSti
  <2>4. MaskInv'
    BY <2>2, <2>3, MasksKept DEF BootInv
  <2> QED BY <1>1, <2>1, <2>4 DEF BootInv, PhaseInv
<1>2. CASE kpc \notin AfterSti
  <2>1. Quiet
    BY <1>2 DEF BootInv, PhaseInv
  <2>2. ServiceRoutine \/ Environment
    BY <2>1 DEF Quiet, AcceptInterrupt, AcknowledgeCycle, MasterAnswersSpurious,
       MasterAnswers, MasterDefersToSlave, SlaveAnswers, SlaveAnswersSpurious
  <2>3. Quiet'
    BY <2>1, <2>2, QuietMachine DEF Environment
  <2>4. imr' = imr /\ isr' \subseteq isr
    BY <2>2, ServiceEndsOnly
       DEF Environment, DeviceRaises, DeviceWithdraws, Raise, Withdraw,
           RaiseException, RaiseExceptionAgain, picVars
  <2>5. MaskInv'
    BY <2>4, MasksKept DEF BootInv
  <2> QED BY <1>2, <2>3, <2>5 DEF BootInv, PhaseInv
<1> QED BY <1>1, <1>2

LEMMA EndStubBootInv ==
  ASSUME BootInv, UNCHANGED <<kpc, masks, bios_masks>>, EndStub
  PROVE  BootInv'
<1>1. CASE ReturnFromInterrupt
  BY <1>1, MachineBootInv DEF ServiceRoutine
<1>2. CASE Executing("iret") /\ GeneralProtection
  <2>1. kpc \in AfterSti
    BY <1>2 DEF BootInv, PhaseInv, Quiet, Executing, Base
  <2>2. IInv'
    BY <1>2, <2>1, FaultIInv DEF BootInv, PhaseInv, Executing
  <2>3. MaskInv'
    BY <1>2, MasksKept DEF BootInv, GeneralProtection, picVars
  <2> QED BY <2>1, <2>2, <2>3 DEF BootInv, PhaseInv
<1> QED BY <1>1, <1>2 DEF EndStub

LEMMA BootNextInv == BootInv /\ [BootNext]_bootVars => BootInv'
<1> SUFFICES ASSUME BootInv, [BootNext]_bootVars PROVE BootInv'
  OBVIOUS
<1>1. CASE UNCHANGED bootVars
  <2>1. UNCHANGED vars /\ UNCHANGED <<kpc, masks, bios_masks>>
    BY <1>1 DEF bootVars, kernelVars
  <2>2. CASE kpc \in AfterSti
    BY <2>1, <2>2, NextIInv DEF BootInv, PhaseInv, MaskInv, vars, picVars
  <2>3. CASE kpc \notin AfterSti
    <3>1. TypeOK'
      BY <2>1, <2>3, NextTypeOK DEF BootInv, PhaseInv, Quiet
    <3> QED BY <2>1, <2>3, <3>1
            DEF BootInv, PhaseInv, Quiet, MaskInv, vars, picVars, tableVars, cpuVars
  <2> QED BY <2>2, <2>3
<1>2. CASE MainStep
  BY <1>2, KmainBootInv
<1>3. CASE ServeInterrupt
  <2>1. UNCHANGED <<kpc, masks, bios_masks>>
    BY <1>3 DEF ServeInterrupt, PIT_8254_Handler, kernelVars
  <2> QED BY <1>3, <2>1, MachineBootInv, EndStubBootInv DEF ServeInterrupt
<1>4. CASE AcknowledgeInterrupt
  BY <1>4, MachineBootInv DEF AcknowledgeInterrupt
<1>5. CASE AcceptInterrupt /\ KernelKept
  BY <1>5, MachineBootInv DEF KernelKept, kernelVars
<1>6. CASE TimerRaises \/ OtherDevices
  <2>1. Environment /\ UNCHANGED <<kpc, masks, bios_masks>>
    BY <1>6 DEF TimerRaises, OtherDevices, Environment, KernelKept, kernelVars
  <2> QED BY <2>1, MachineBootInv
<1>7. ASSUME NEW v \in Faults, Exception(v)
      PROVE  BootInv'
  <2>1. Environment /\ UNCHANGED <<kpc, masks, bios_masks>>
    BY <1>7 DEF Exception, Environment, kernelVars
  <2> QED BY <2>1, MachineBootInv
<1> QED BY <1>1, <1>2, <1>3, <1>4, <1>5, <1>6, <1>7 DEF BootNext

THEOREM BootInvariance == BootSpec => []BootInv
BY BootInvInit, BootNextInv, PTL DEF BootSpec

(* When kmain has enabled interrupts, and ever after, the invariant of the *)
(* interrupt path holds: each gate leads to its stub, the chips send the   *)
(* kernel's vectors, and the rest of IInv (kernel.c:54-81).                *)
THEOREM HandsOver == BootSpec => []HandedOver
<1>1. BootInv => HandedOver
  BY DEF BootInv, PhaseInv, HandedOver
<1> QED BY <1>1, BootInvariance, PTL

(* No line that the BIOS had masked is ever in service, although ICW1      *)
(* clears the masks on the way (8259.c:53-76).                             *)
THEOREM MasksAreKept == BootSpec => []NoMaskedLineInService
<1>1. BootInv => NoMaskedLineInService
  BY DEF BootInv, MaskInv, NoMaskedLineInService
<1> QED BY <1>1, BootInvariance, PTL

-----------------------------------------------------------------------------
(* The ticks.  One is uncounted from the acknowledge cycle of line 0 until *)
(* the call of PIT_8254_Handler, which nothing but that cycle leads to; an *)
(* exception on the way leaves it uncounted for good.                      *)
OnlyTimer == [v \in Slots |-> IF v = IRQ0 THEN "PIT_8254_Handler" ELSE NULL]

TickInService == pc \in {"stub", "irq", "handler"} /\ int_no = IRQ0

TickInv ==
  /\ kpc \in {"pit"} \cup BeforePit => Interrupt_Routines = [v \in Slots |-> NULL]
  /\ kpc \notin {"pit"} \cup BeforePit => Interrupt_Routines = OnlyTimer
  /\ uncounted \in {0, 1}
  /\ kpc \notin AfterSti => uncounted = 0
  /\ kpc \in AfterSti =>
       /\ pc = "handler" => int_no = IRQ0
       /\ ~ReportsException => uncounted = IF TickInService THEN 1 ELSE 0

LEMMA GateEntered ==
  ASSUME IInv, NEW v \in 0..47, EnterGate(v)
  PROVE  pc' = "stub" /\ int_no' = v
<1>1. CpuTypeOK /\ TablesInv
  BY DEF IInv, TypeOK, ControlInv
<1>2. v \in 0..47 \cup SyscallVectors /\ v # 121
  OBVIOUS
<1> QED BY <1>1, <1>2, StubEntered

LEMMA TickInvInit == BootInit => TickInv
<1> SUFFICES ASSUME BootInit PROVE TickInv
  OBVIOUS
<1>1. /\ kpc = "terminal" /\ uncounted = 0
      /\ Interrupt_Routines = [v \in Slots |-> NULL]
  BY DEF BootInit
<1> QED BY <1>1 DEF TickInv, BeforePit, AfterSti

LEMMA KmainTickInv ==
  ASSUME BootInv, TickInv, MainStep
  PROVE  TickInv'
<1>1. /\ pc = "main" /\ uncounted' = uncounted
      /\ \/ pc' \in Base
         \/ GeneralProtection /\ kpc' = kpc /\ kpc \in BeforeSti
  BY DEF MainStep, StartTerminal, BadMagic, PIT_8254_Phase, Initialize_PIT_8254,
     Initialize_GDT, SegmentStep, Install_IDT, ResetChips, RemapChips,
     RestoreChipMasks, CreateGates, LoadIdt, EnableInterrupts, PIT_8254_Wait,
     WaitCall, WaitTest, WaitHalt, WaitDone, Speaker_Beep, SwitchSpeaker,
     HaltLoop, Kmain, Executing, Install_Interrupt_Handler, SetRoutine,
     Enable_Interrupts, SetInterruptFlag, vars, cpuVars, Base, BeforeSti
<1>2. uncounted = 0
  BY <1>1 DEF TickInv, ReportsException, TickInService
<1>3. \/ kpc = "pit" /\ kpc' = "gdt" /\ Install_Interrupt_Handler(IRQ0, "PIT_8254_Handler")
      \/ /\ Interrupt_Routines' = Interrupt_Routines
         /\ kpc \in {"pit"} \cup BeforePit <=> kpc' \in {"pit"} \cup BeforePit
  <2>1. CASE Initialize_GDT
    BY <2>1 DEF Initialize_GDT, SegmentStep, GeneralProtection, EnterGate, vars, tableVars,
       BeforePit
  <2>2. CASE StartTerminal \/ BadMagic \/ PIT_8254_Phase(1000) \/ Initialize_PIT_8254
    BY <2>2 DEF StartTerminal, BadMagic, PIT_8254_Phase, Initialize_PIT_8254, Kmain,
       SetInterruptFlag, vars, tableVars, BeforePit
  <2>3. CASE \/ Install_IDT \/ ResetChips \/ RemapChips \/ RestoreChipMasks \/ CreateGates
             \/ EnableInterrupts \/ HaltLoop
    BY <2>3 DEF Install_IDT, ResetChips, RemapChips, RestoreChipMasks, CreateGates, LoadIdt,
       EnableInterrupts, HaltLoop, Kmain, Enable_Interrupts, SetInterruptFlag, tableVars,
       BeforePit
  <2>4. CASE PIT_8254_Wait("test_wait", "beep_command") \/ Speaker_Beep
    BY <2>4 DEF PIT_8254_Wait, WaitCall, WaitTest, WaitHalt, WaitDone, Speaker_Beep,
       SwitchSpeaker, Kmain, SetInterruptFlag, vars, tableVars, BeforePit
  <2> QED BY <2>1, <2>2, <2>3, <2>4 DEF MainStep
<1>4. /\ kpc' \in {"pit"} \cup BeforePit => Interrupt_Routines' = [v \in Slots |-> NULL]
      /\ kpc' \notin {"pit"} \cup BeforePit => Interrupt_Routines' = OnlyTimer
  <2>1. CASE kpc = "pit" /\ kpc' = "gdt" /\ Install_Interrupt_Handler(IRQ0, "PIT_8254_Handler")
    BY <2>1 DEF Install_Interrupt_Handler, SetRoutine, TickInv, OnlyTimer, BeforePit
  <2> QED BY <1>3, <2>1 DEF TickInv
<1>5. kpc' \in AfterSti => pc' \in Base
  BY <1>1 DEF BeforeSti, AfterSti
<1> QED BY <1>1, <1>2, <1>4, <1>5 DEF TickInv, Base, TickInService

(* The steps of the interrupt path once kmain has enabled interrupts.      *)
LEMMA ServeTickInv ==
  ASSUME BootInv, TickInv, ServeInterrupt
  PROVE  TickInv'
<1>1. UNCHANGED <<kpc, Interrupt_Routines>>
  BY DEF ServeInterrupt, EndStub, GeneralProtection, EnterGate, ServiceRoutine,
     DispatchException, DispatchIrq, DispatchNothing, IgnoreSpuriousMaster,
     EndSpuriousSlave, StartGenuineIrq, CallRoutine, SendEoiSlave, SendEoiMaster,
     ReturnFromInterrupt, PIT_8254_Handler, kernelVars, tableVars
<1>2. CASE kpc \notin AfterSti
  <2>1. pc # "handler"
    BY <1>2 DEF BootInv, PhaseInv, Quiet, Base
  <2> QED BY <1>1, <1>2, <2>1 DEF ServeInterrupt, kernelVars, TickInv
<1>3. CASE kpc \in AfterSti
  <2> USE DEF ReportsException, TickInService, Executing
  <2>1. IInv /\ int_no \in 0..255 /\ Interrupt_Routines = OnlyTimer
    BY <1>3 DEF BootInv, PhaseInv, IInv, TypeOK, CpuTypeOK, TickInv, BeforePit, AfterSti
  <2>2. CASE pc = "handler"
    <3>1. /\ uncounted = 1 /\ uncounted' = uncounted - 1
          /\ int_no = IRQ0 /\ CallRoutine
      BY <1>3, <2>2 DEF ServeInterrupt, PIT_8254_Handler, TickInv, ServiceRoutine,
         DispatchException, DispatchIrq, DispatchNothing, IgnoreSpuriousMaster,
         EndSpuriousSlave, StartGenuineIrq, SendEoiSlave, SendEoiMaster, ReturnFromInterrupt
    <3>2. pc' = "eoi_master"
      BY <3>1 DEF CallRoutine, Goto, FirstEoi, IRQ0, IRQ8
    <3> QED BY <1>1, <1>3, <3>1, <3>2 DEF TickInv
  <2>3. CASE pc # "handler" /\ ServiceRoutine
    <3>1. uncounted' = uncounted
      BY <2>3 DEF ServeInterrupt, kernelVars
    <3>2. CASE DispatchException \/ DispatchIrq \/ DispatchNothing
      BY <1>1, <1>3, <2>1, <3>1, <3>2
         DEF DispatchException, DispatchIrq, DispatchNothing, Goto, TickInv, IRQ0, IrqVectors
    <3>3. CASE IgnoreSpuriousMaster \/ EndSpuriousSlave
      BY <1>1, <1>3, <2>1, <3>1, <3>3
         DEF IgnoreSpuriousMaster, EndSpuriousSlave, SpuriousOnMaster, SpuriousOnSlave,
             Goto, TickInv, IRQ0, IRQ7, IRQ15
    <3>4. CASE StartGenuineIrq
      <4>1. int_no \in Slots
        BY <2>1, <3>4 DEF StartGenuineIrq, IInv, ControlInv, LabelInv, Slots
      <4>2. Interrupt_Routines[int_no] # NULL <=> int_no = IRQ0
        BY <2>1, <4>1 DEF OnlyTimer, NULL
      <4>3. /\ int_no' = int_no
            /\ pc' = IF int_no = IRQ0 THEN "handler" ELSE FirstEoi
        BY <3>4, <4>2 DEF StartGenuineIrq, Goto
      <4>4. FirstEoi \in {"eoi_slave", "eoi_master"}
        BY DEF FirstEoi
      <4> QED BY <1>1, <1>3, <3>1, <3>4, <4>3, <4>4 DEF TickInv, StartGenuineIrq
    <3>5. CASE SendEoiSlave \/ SendEoiMaster
      BY <1>1, <1>3, <3>1, <3>5 DEF SendEoiSlave, SendEoiMaster, Goto, TickInv
    <3>6. CASE ReturnFromInterrupt
      <4>1. pc' = "main"
        BY <2>1, <3>6 DEF ReturnFromInterrupt, IInv, ControlInv, ServiceInv, IrqCode
      <4> QED BY <1>1, <1>3, <3>1, <3>6, <4>1 DEF TickInv, ReturnFromInterrupt
    <3> QED BY <2>3, <3>2, <3>3, <3>4, <3>5, <3>6 DEF ServiceRoutine, CallRoutine
  <2>4. CASE pc = "iret" /\ EndStub
    <3>1. uncounted' = uncounted /\ uncounted = 0
      BY <1>3, <2>4 DEF ServeInterrupt, kernelVars, TickInv
    <3>2. CASE ReturnFromInterrupt
      BY <2>3, <2>4, <3>2 DEF ServiceRoutine
    <3>3. CASE GeneralProtection
      <4>1. pc' = "stub" /\ int_no' = 13
        BY <2>1, <3>3, GateEntered DEF GeneralProtection
      <4> QED BY <1>1, <1>3, <3>1, <4>1 DEF TickInv
    <3> QED BY <2>4, <3>2, <3>3 DEF EndStub
  <2> QED BY <2>2, <2>3, <2>4 DEF ServeInterrupt, PIT_8254_Handler
<1> QED BY <1>2, <1>3

(* The chips hand out line 0 by the vector of the timer, and by no other.  *)
LEMMA AcknowledgeTickInv ==
  ASSUME BootInv, TickInv, AcknowledgeInterrupt
  PROVE  TickInv'
<1>1. /\ AcknowledgeCycle /\ kpc' = kpc
      /\ uncounted' = IF isr' \ isr = {0} THEN uncounted + 1 ELSE uncounted
  BY DEF AcknowledgeInterrupt
<1>2. bus # "idle"
  BY <1>1 DEF AcknowledgeCycle, MasterAnswersSpurious, MasterAnswers,
     MasterDefersToSlave, SlaveAnswers, SlaveAnswersSpurious
<1>3. kpc \in AfterSti /\ IInv
  BY <1>2 DEF BootInv, PhaseInv, Quiet
<1>4. /\ pc \in Base /\ base = KernelBases
      /\ isr = IF bus = "cascade" THEN {Cascade} ELSE {}
  BY <1>2, <1>3 DEF IInv, ControlInv, BusInv, BaseInv, TablesInv
<1>5. uncounted = 0 /\ Interrupt_Routines' = Interrupt_Routines
  BY <1>1, <1>3, <1>4 DEF TickInv, ReportsException, TickInService, Base,
     AcknowledgeCycle, MasterAnswersSpurious, MasterAnswers, MasterDefersToSlave,
     SlaveAnswers, SlaveAnswersSpurious, EnterGate, tableVars
<1>6. ASSUME NEW v \in IrqVectors, EnterGate(v), isr' \ isr = {0} <=> v = IRQ0
      PROVE  TickInv'
  <2>1. pc' = "stub" /\ int_no' = v
    BY <1>3, <1>6, GateEntered DEF IrqVectors
  <2>2. uncounted' = IF v = IRQ0 THEN 1 ELSE 0
    BY <1>1, <1>5, <1>6
  <2> QED BY <1>1, <1>3, <1>5, <2>1, <2>2
          DEF TickInv, ReportsException, TickInService, IrqVectors, AfterSti, BeforePit
<1>7. /\ SlaveRequests \subseteq Devices \cap Slave
      /\ MasterRequests \subseteq (Devices \cap Master) \cup {Cascade}
  BY <1>3, RequestsAreDevices DEF IInv, TypeOK, PicTypeOK
<1>8. CASE MasterAnswersSpurious \/ SlaveAnswersSpurious
  <2>1. EnterGate(39) \/ EnterGate(47)
    BY <1>4, <1>8 DEF MasterAnswersSpurious, SlaveAnswersSpurious, KernelBases
  <2>2. isr' \ isr = {}
    BY <1>8 DEF MasterAnswersSpurious, SlaveAnswersSpurious, picVars
  <2> QED BY <1>6, <2>1, <2>2 DEF IrqVectors, IRQ0
<1>9. ASSUME NEW i \in Devices, MasterAnswers(i)
      PROVE  TickInv'
  <2>1. i \in Master /\ i # Cascade
    BY <1>7, <1>9, HighestMember DEF MasterAnswers
  <2>2. EnterGate(32 + i) /\ 32 + i \in IrqVectors
    BY <1>4, <1>9, <2>1 DEF MasterAnswers, KernelBases, IrqVectors, Master
  <2>3. isr' \ isr = {i}
    BY <1>4, <1>9, <2>1 DEF MasterAnswers, Acknowledge
  <2> QED BY <1>6, <2>1, <2>2, <2>3 DEF IRQ0, Master
<1>10. CASE MasterDefersToSlave
  <2>1. pc' = pc /\ isr' \ isr \subseteq {2}
    BY <1>10 DEF MasterDefersToSlave, Acknowledge, Cascade
  <2> QED BY <1>1, <1>3, <1>4, <1>5, <2>1
          DEF TickInv, TickInService, Base, AfterSti, BeforePit
<1>11. ASSUME NEW i \in Devices, SlaveAnswers(i)
       PROVE  TickInv'
  <2>1. i \in Slave
    BY <1>7, <1>11, HighestMember DEF SlaveAnswers
  <2>2. EnterGate(32 + i) /\ 32 + i \in IrqVectors /\ 32 + i # IRQ0
    BY <1>4, <1>11, <2>1 DEF SlaveAnswers, KernelBases, IrqVectors, Slave, IRQ0
  <2>3. isr' \ isr \subseteq {i}
    BY <1>11 DEF SlaveAnswers, Acknowledge
  <2> QED BY <1>6, <2>1, <2>2, <2>3 DEF Slave
<1> QED BY <1>1, <1>8, <1>9, <1>10, <1>11 DEF AcknowledgeCycle

LEMMA ExceptionTickInv ==
  ASSUME BootInv, TickInv, NEW v \in Faults, Exception(v)
  PROVE  TickInv'
<1>1. UNCHANGED <<kpc, uncounted, Interrupt_Routines>>
  BY DEF Exception, kernelVars, RaiseException, RaiseExceptionAgain, EnterGate, tableVars
<1>2. CASE kpc \notin AfterSti
  BY <1>1, <1>2 DEF TickInv
<1>3. CASE kpc \in AfterSti
  <2>1. pc' = "stub" /\ int_no' = v
    <3>1. CASE RaiseException(v)
      BY <1>3, <3>1, GateEntered DEF RaiseException, BootInv, PhaseInv
    <3>2. CASE RaiseExceptionAgain(v)
      BY <3>2 DEF RaiseExceptionAgain
    <3> QED BY <3>1, <3>2 DEF Exception
  <2> QED BY <1>1, <1>3, <2>1 DEF TickInv, ReportsException
<1> QED BY <1>2, <1>3

LEMMA TickNext == BootInv /\ TickInv /\ [BootNext]_bootVars => TickInv'
<1> SUFFICES ASSUME BootInv, TickInv, [BootNext]_bootVars PROVE TickInv'
  OBVIOUS
<1>1. ASSUME UNCHANGED <<Interrupt_Routines, kpc, pc, int_no, uncounted>>
      PROVE  TickInv'
  BY <1>1 DEF TickInv, ReportsException, TickInService
<1>2. CASE UNCHANGED bootVars
  BY <1>1, <1>2 DEF bootVars, kernelVars, vars, tableVars, cpuVars
<1>3. CASE (AcceptInterrupt /\ KernelKept) \/ TimerRaises \/ OtherDevices
  BY <1>1, <1>3 DEF AcceptInterrupt, TimerRaises, OtherDevices, DeviceRaises,
     DeviceWithdraws, KernelKept, kernelVars, tableVars, cpuVars
<1> QED BY <1>2, <1>3, KmainTickInv, ServeTickInv, AcknowledgeTickInv, ExceptionTickInv
        DEF BootNext

(* No tick is lost or counted twice between the chips and the kernel's     *)
(* counter, unless an exception ends the kernel first                      *)
(* (interrupt.c:157-179, 8254.c:40-47).                                    *)
THEOREM TicksAreCounted == BootSpec => []EveryTickIsCounted
<1>1. BootInv /\ TickInv => EveryTickIsCounted
  BY DEF TickInv, EveryTickIsCounted, ReportsException, TickInService, Base
<1> QED BY <1>1, BootInvariance, TickInvInit, TickNext, PTL DEF BootSpec

-----------------------------------------------------------------------------
(* The timer's channel: which byte it waits for, and from the third on the *)
(* count it has.                                                           *)
Channel == [next : {"none", "low", "high"}, count : Nat]

TimerInv ==
  /\ channels \in [0..2 -> Channel]
  /\ kpc = "low" => channels[0].next = "low"
  /\ kpc = "high" => channels[0] = [next |-> "high", count |-> 169]
  /\ kpc \notin BeforePit => channels[0] = [next |-> "none", count |-> 1193]

LEMMA TimerInvInit == BootInit => TimerInv
<1> SUFFICES ASSUME BootInit PROVE TimerInv
  OBVIOUS
<1>1. kpc = "terminal" /\ channels = [n \in 0..2 |-> [next |-> "none", count |-> 0]]
  BY DEF BootInit, ChannelsInit
<1> QED BY <1>1 DEF TimerInv, Channel, BeforePit

LEMMA DivisorBytes == Divisor(1000) % 256 = 169 /\ Divisor(1000) \div 256 = 4
BY DEF Divisor, Clock

(* The three bytes of PIT_8254_Phase.                                      *)
LEMMA PhaseTimerInv ==
  ASSUME TimerInv, PIT_8254_Phase(1000)
  PROVE  TimerInv'
<1>1. CASE Kmain("command", "low") /\ PhaseCommand
  <2>1. channels' = [channels EXCEPT ![0] = [next |-> "low", count |-> 0]]
    BY <1>1 DEF PhaseCommand, outb, Command, PIT_COMMAND_REGISTER
  <2> QED BY <1>1, <2>1 DEF TimerInv, Channel, Kmain, BeforePit
<1>2. CASE Kmain("low", "high") /\ PhaseLow(1000)
  <2>1. channels' = [channels EXCEPT ![0] = [next |-> "high", count |-> 169]]
    BY <1>2, DivisorBytes DEF PhaseLow, outb, Count, PIT_COMMAND_REGISTER,
       PIT_CHANNEL_0, TimerInv, Kmain
  <2> QED BY <1>2, <2>1 DEF TimerInv, Channel, Kmain, BeforePit
<1>3. CASE Kmain("high", "pit") /\ PhaseHigh(1000)
  <2>1. channels' = [channels EXCEPT ![0] = [next |-> "none", count |-> 1193]]
    BY <1>3, DivisorBytes DEF PhaseHigh, outb, Count, PIT_COMMAND_REGISTER,
       PIT_CHANNEL_0, TimerInv, Kmain
  <2> QED BY <1>3, <2>1 DEF TimerInv, Channel, Kmain, BeforePit
<1> QED BY <1>1, <1>2, <1>3 DEF PIT_8254_Phase

(* The two bytes of the beep concern channel 2.                            *)
LEMMA BeepTimerInv ==
  ASSUME TimerInv, kpc \notin BeforePit, kpc' \notin BeforePit, BeepCommand \/ BeepCount
  PROVE  TimerInv'
<1>1. CASE BeepCommand
  <2>1. channels' = [channels EXCEPT ![2] = [next |-> "low", count |-> 0]]
    BY <1>1 DEF BeepCommand, outb, Command, PIT_COMMAND_REGISTER
  <2> QED BY <2>1 DEF TimerInv, Channel, BeforePit
<1>2. CASE BeepCount
  <2>1. \E c \in Channel : channels' = [channels EXCEPT ![2] = c]
    <3>1. Count(2, 238)
      BY <1>2 DEF BeepCount, outb, PIT_COMMAND_REGISTER, PIT_CHANNEL_0, PIT_CHANNEL_2
    <3> DEFINE c == channels[2]
    <3> DEFINE d == IF c.next = "high" THEN [next |-> "none", count |-> c.count + 256 * 238]
                                      ELSE [next |-> "high", count |-> 238]
    <3>2. c \in Channel
      BY DEF TimerInv
    <3>3. d \in Channel
      BY <3>2 DEF Channel
    <3>4. channels' = [channels EXCEPT ![2] = d]
      BY <3>1 DEF Count
    <3> QED BY <3>3, <3>4
  <2> QED BY <2>1 DEF TimerInv, Channel, BeforePit
<1> QED BY <1>1, <1>2

LEMMA TimerNext == TimerInv /\ [BootNext]_bootVars => TimerInv'
<1> SUFFICES ASSUME TimerInv, [BootNext]_bootVars PROVE TimerInv'
  OBVIOUS
<1>1. ASSUME UNCHANGED channels,
             \/ kpc' = kpc
             \/ kpc \notin BeforePit /\ kpc' \notin BeforePit
             \/ kpc' \in {"command", "hang"}
      PROVE  TimerInv'
  BY <1>1 DEF TimerInv, BeforePit
<1>2. CASE UNCHANGED bootVars
  BY <1>1, <1>2 DEF bootVars, kernelVars, machineVars
<1>3. CASE PIT_8254_Phase(1000)
  BY <1>3, PhaseTimerInv
<1>4. CASE Speaker_Beep
  <2>1. CASE UNCHANGED channels
    BY <1>1, <1>4, <2>1 DEF Speaker_Beep, PIT_8254_Wait, Kmain, BeforePit
  <2>2. CASE BeepCommand \/ BeepCount
    BY <1>4, <2>2, BeepTimerInv DEF Speaker_Beep, PIT_8254_Wait, Kmain, BeforePit
  <2> QED BY <1>4, <2>1, <2>2
          DEF Speaker_Beep, PIT_8254_Wait, SwitchSpeaker, machineVars
<1>5. CASE StartTerminal \/ BadMagic
  BY <1>1, <1>5 DEF StartTerminal, BadMagic, Kmain, CallsOnly, machineVars
<1>6. CASE Initialize_PIT_8254 \/ Initialize_GDT \/ Install_IDT
  BY <1>1, <1>6 DEF Initialize_PIT_8254, Initialize_GDT, SegmentStep, Install_IDT,
     Kmain, CallsOnly, machineVars, BeforePit
<1>7. CASE ResetChips \/ RemapChips \/ RestoreChipMasks \/ CreateGates \/ EnableInterrupts
  BY <1>1, <1>7 DEF ResetChips, RemapChips, RestoreChipMasks, CreateGates,
     EnableInterrupts, Kmain, CallsOnly, machineVars, BeforePit
<1>8. CASE PIT_8254_Wait("test_wait", "beep_command") \/ HaltLoop
  BY <1>1, <1>8 DEF PIT_8254_Wait, HaltLoop, Kmain, CallsOnly, machineVars, BeforePit
<1>9. CASE ServeInterrupt \/ AcknowledgeInterrupt
  BY <1>1, <1>9 DEF ServeInterrupt, AcknowledgeInterrupt, PIT_8254_Handler, kernelVars
<1>10. CASE \/ AcceptInterrupt /\ KernelKept
            \/ TimerRaises
            \/ OtherDevices
            \/ \E v \in Faults : Exception(v)
  BY <1>1, <1>10 DEF TimerRaises, OtherDevices, Exception, KernelKept, kernelVars, machineVars
<1> QED BY <1>2, <1>3, <1>4, <1>5, <1>6, <1>7, <1>8, <1>9, <1>10 DEF BootNext, MainStep

(* Once programmed the timer keeps its rate of 1000 Hz, through the beep   *)
(* too (8254.c:31-38, speaker.c:7-8).                                      *)
THEOREM TimerStaysProgrammed == BootSpec => []TimerKeepsItsRate
<1>1. TimerInv => TimerKeepsItsRate
  BY DEF TimerInv, TimerKeepsItsRate, Counting, Hertz, Period, Clock
<1> QED BY <1>1, TimerInvInit, TimerNext, PTL DEF BootSpec
-----------------------------------------------------------------------------
(* The segments.  A register has a selector of the boot loader's or of the *)
(* kernel's, and a flat segment; so have the selectors a stub will restore.*)
KernelSegments == {FlatSegment(access) : access \in {154, 146, 250, 242}}
DataSelectors  == LoaderSelectors \cup {16}
BusyTask       == [Descriptors EXCEPT ![5].access = 235]

TableFilled == kpc \notin {"pit", "gdt"} \cup BeforePit
GatesSet    == kpc \in {"sti"} \cup AfterSti

Saved == DataRegisters \cup {"cs"}

SegmentTypeOK ==
  /\ selector \in [SegmentRegisters -> Nat]
  /\ pushed \in [Saved -> Nat]
  /\ segment \in [SegmentRegisters -> KernelSegments]

SelectorInv ==
  /\ \A r \in DataRegisters : selector[r] \in DataSelectors
  /\ selector["cs"] > 7
  /\ TableFilled /\ kpc \notin {"data segments", "far jump"} => selector["cs"] = 8
  /\ pc \in IrqCode \cup {"stub"} =>
       pushed["cs"] = 8 /\ \A r \in DataRegisters : pushed[r] \in DataSelectors

GdtInv ==
  /\ TableFilled => gdt \in {Descriptors, BusyTask}
  /\ kpc \in {"data segments", "far jump", "ltr"} => gdt = Descriptors

SegInv ==
  /\ SegmentTypeOK
  /\ IsCode(segment["cs"]) /\ IsData(segment["ss"])
  /\ SelectorInv
  /\ GdtInv
  /\ ~GatesSet => pc \in Base \cup {"reset"}

LEMMA HalfIsNat == Half \subseteq Nat
<1>1. \A n \in 0..65535 : n \in Nat
  OBVIOUS
<1> QED BY <1>1 DEF Half

LEMMA LoaderSelectorsAreHigh ==
  /\ \A s \in LoaderSelectors : s \in Nat /\ s - 8 \in Nat /\ s - 8 > 7
  /\ \A s \in DataSelectors : s \in Nat /\ s > 7
BY SelectorsAssumption, HalfIsNat DEF DataSelectors

LEMMA SegmentsAreFlat ==
  ASSUME NEW d \in KernelSegments
  PROVE  IsFlat(d)
BY DEF KernelSegments, FlatSegment, IsFlat, BaseOf, LimitOf, InPages, Has, Zero

LEMMA KernelTableOfSegments ==
  ASSUME NEW table \in {Descriptors, BusyTask}
  PROVE  /\ DOMAIN table = 0..5
         /\ table[1] = FlatSegment(154) /\ table[2] = FlatSegment(146)
         /\ table[3] = FlatSegment(250) /\ table[4] = FlatSegment(242)
         /\ table[5].access \in {233, 235}
<1>1. /\ DOMAIN Descriptors = 0..5
      /\ Descriptors[1] = FlatSegment(154) /\ Descriptors[2] = FlatSegment(146)
      /\ Descriptors[3] = FlatSegment(250) /\ Descriptors[4] = FlatSegment(242)
  BY DEF Descriptors, Add_GDT_Descriptor, FlatSegment, Zero, AllSet
<1>2. Descriptors[5] = Add_GDT_Descriptor(Zero, [hi |-> 0, lo |-> SizeOfTss - 1], 233, 0)
  BY DEF Descriptors
<1>3. Descriptors[5].access = 233 /\ BusyTask[5].access = 235
  BY <1>1, <1>2 DEF Add_GDT_Descriptor, BusyTask
<1>4. DOMAIN BusyTask = 0..5 /\ \A n \in 1..4 : BusyTask[n] = Descriptors[n]
  BY <1>1 DEF BusyTask
<1> QED BY <1>1, <1>3, <1>4

(* A selector that is not a null one and that the CPU takes is that of a   *)
(* flat segment of the kernel's table.                                     *)
LEMMA LoadedSegment ==
  ASSUME gdt \in {Descriptors, BusyTask}, NEW r, NEW s \in Nat, s > 7, Loadable(r, s)
  PROVE  /\ gdt[Index(s)] \in KernelSegments
         /\ r = "cs" => IsCode(gdt[Index(s)])
         /\ r = "ss" => IsData(gdt[Index(s)])
<1>1. Index(s) \in Nat /\ Index(s) # 0
  BY DEF Index
<1>2. Index(s) \in 0..5 /\ (IsData(gdt[Index(s)]) \/ IsCode(gdt[Index(s)]))
  BY <1>1, KernelTableOfSegments DEF Loadable, InTable
<1>3. Index(s) # 5
  BY <1>2, KernelTableOfSegments DEF IsData, IsCode, Has
<1>4. gdt[Index(s)] \in KernelSegments
  BY <1>1, <1>2, <1>3, KernelTableOfSegments DEF KernelSegments
<1> QED BY <1>1, <1>4 DEF Loadable


LEMMA SegInvInit == BootInit => SegInv
<1> SUFFICES ASSUME BootInit PROVE SegInv
  OBVIOUS
<1>1. /\ kpc = "terminal" /\ pc = "main"
      /\ segment = [r \in SegmentRegisters |-> IF r = "cs" THEN LoaderCode ELSE LoaderData]
      /\ pushed = [r \in DataRegisters \cup {"cs"} |-> 0]
  BY DEF BootInit, SegmentsInit
<1>2. PICK data \in LoaderSelectors :
        selector = [r \in SegmentRegisters |-> IF r = "cs" THEN data - 8 ELSE data]
  BY DEF BootInit, SegmentsInit
<1>3. data \in Nat /\ data - 8 \in Nat /\ data - 8 > 7
  BY LoaderSelectorsAreHigh
<1>4. LoaderCode \in KernelSegments /\ LoaderData \in KernelSegments
  BY DEF LoaderCode, LoaderData, KernelSegments
<1>5. SegmentTypeOK
  BY <1>1, <1>2, <1>3, <1>4 DEF SegmentTypeOK, Saved
<1>6. IsCode(segment["cs"]) /\ IsData(segment["ss"])
  BY <1>1 DEF SegmentRegisters, LoaderCode, LoaderData, FlatSegment, IsCode, IsData, Has
<1>7. SelectorInv /\ GdtInv
  BY <1>1, <1>2, <1>3 DEF SelectorInv, GdtInv, SegmentRegisters, DataRegisters, DataSelectors,
     TableFilled, BeforePit, IrqCode
<1> QED BY <1>1, <1>5, <1>6, <1>7 DEF SegInv, Base

(* Loading registers whose selectors the CPU takes.                        *)
LEMMA LoadSegments ==
  ASSUME SegmentTypeOK, gdt \in {Descriptors, BusyTask},
         IsCode(segment["cs"]), IsData(segment["ss"]),
         NEW new, DOMAIN new \subseteq SegmentRegisters,
         \A r \in DOMAIN new : new[r] \in Nat /\ new[r] > 7,
         AllLoadable(new), Load(new)
  PROVE  /\ selector' \in [SegmentRegisters -> Nat]
         /\ segment' \in [SegmentRegisters -> KernelSegments]
         /\ IsCode(segment'["cs"]) /\ IsData(segment'["ss"])
         /\ \A r \in SegmentRegisters :
              selector'[r] = IF r \in DOMAIN new THEN new[r] ELSE selector[r]
<1>1. ASSUME NEW r \in DOMAIN new
      PROVE  /\ gdt[Index(new[r])] \in KernelSegments
             /\ r = "cs" => IsCode(gdt[Index(new[r])])
             /\ r = "ss" => IsData(gdt[Index(new[r])])
  BY <1>1, LoadedSegment DEF AllLoadable
<1>2. /\ selector' = [r \in SegmentRegisters |->
                        IF r \in DOMAIN new THEN new[r] ELSE selector[r]]
      /\ segment' = [r \in SegmentRegisters |->
                       IF r \in DOMAIN new THEN gdt[Index(new[r])] ELSE segment[r]]
  BY DEF Load
<1>3. "cs" \in SegmentRegisters /\ "ss" \in SegmentRegisters
  BY DEF SegmentRegisters
<1> QED BY <1>1, <1>2, <1>3 DEF SegmentTypeOK

(* The kernel's own selectors fit its table.                               *)
LEMMA KernelSelectorsFit ==
  ASSUME gdt \in {Descriptors, BusyTask}
  PROVE  /\ \A r \in {"ds", "es", "fs", "gs", "ss"} : Loadable(r, 16)
         /\ Loadable("cs", 8)
BY KernelTableOfSegments
   DEF Loadable, InTable, Index, Rpl, Has, Present, Dpl, IsCode, IsData, FlatSegment,
       DataRegisters

(* A step that leaves the segments alone.                                  *)
LEMMA KeepSegInv ==
  ASSUME SegInv, UNCHANGED segmentVars,
         TableFilled' = TableFilled,
         kpc' \in {"data segments", "far jump", "ltr"} <=>
           kpc \in {"data segments", "far jump", "ltr"},
         kpc' \in {"data segments", "far jump"} <=> kpc \in {"data segments", "far jump"},
         pc' \in IrqCode \cup {"stub"} => pc \in IrqCode \cup {"stub"},
         ~GatesSet' => pc' \in Base \cup {"reset"}
  PROVE  SegInv'
BY DEF SegInv, SegmentTypeOK, SelectorInv, GdtInv, segmentVars

LEMMA GatesSetLate == GatesSet => TableFilled /\ kpc \notin {"data segments", "far jump", "ltr"}
BY DEF GatesSet, TableFilled, AfterSti, BeforePit

LEMMA EnterStubSegInv ==
  ASSUME SegInv, GatesSet, kpc' = kpc, EnterStub
  PROVE  SegInv'
<1> USE DEF DataRegisters, SegmentRegisters, Saved
<1>1. /\ pushed' = [r \in Saved |-> selector[r]]
      /\ Load(StubSegments) /\ UNCHANGED <<gdt, tr>>
  BY DEF EnterStub
<1>2. gdt \in {Descriptors, BusyTask} /\ selector["cs"] = 8
  BY GatesSetLate DEF SegInv, GdtInv, SelectorInv
<1>3. /\ DOMAIN StubSegments = Saved
      /\ \A r \in Saved : StubSegments[r] = IF r = "cs" THEN 8 ELSE 16
  BY DEF StubSegments
<1>4. AllLoadable(StubSegments)
  BY <1>2, <1>3, KernelSelectorsFit DEF AllLoadable
<1>5. /\ selector' \in [SegmentRegisters -> Nat]
      /\ segment' \in [SegmentRegisters -> KernelSegments]
      /\ IsCode(segment'["cs"]) /\ IsData(segment'["ss"])
      /\ \A r \in SegmentRegisters :
           selector'[r] = IF r \in Saved THEN StubSegments[r] ELSE selector[r]
  BY <1>1, <1>2, <1>3, <1>4, LoadSegments DEF SegInv
<1>6. SegmentTypeOK'
  BY <1>1, <1>5 DEF SegInv, SegmentTypeOK
<1>7. SelectorInv'
  BY <1>1, <1>2, <1>3, <1>5 DEF SegInv, SelectorInv, DataSelectors
<1>8. GdtInv' /\ GatesSet'
  BY <1>1 DEF SegInv, GdtInv, GatesSet, TableFilled
<1> QED BY <1>5, <1>6, <1>7, <1>8 DEF SegInv

LEMMA LeaveStubSegInv ==
  ASSUME SegInv, GatesSet, pc = "iret", kpc' = kpc, AllLoadable(pushed), LeaveStub
  PROVE  SegInv'
<1> USE DEF DataRegisters, SegmentRegisters, Saved
<1>1. Load(pushed) /\ UNCHANGED <<gdt, tr, pushed>>
  BY DEF LeaveStub
<1>2. gdt \in {Descriptors, BusyTask}
  BY GatesSetLate DEF SegInv, GdtInv
<1>3. /\ DOMAIN pushed = Saved
      /\ pushed["cs"] = 8 /\ \A r \in DataRegisters : pushed[r] \in DataSelectors
  BY DEF SegInv, SegmentTypeOK, SelectorInv, IrqCode
<1>4. \A r \in Saved : pushed[r] \in Nat /\ pushed[r] > 7
  BY <1>3, LoaderSelectorsAreHigh
<1>5. /\ selector' \in [SegmentRegisters -> Nat]
      /\ segment' \in [SegmentRegisters -> KernelSegments]
      /\ IsCode(segment'["cs"]) /\ IsData(segment'["ss"])
      /\ \A r \in SegmentRegisters :
           selector'[r] = IF r \in Saved THEN pushed[r] ELSE selector[r]
  BY <1>1, <1>2, <1>3, <1>4, LoadSegments DEF SegInv
<1>6. SegmentTypeOK'
  BY <1>1, <1>5 DEF SegInv, SegmentTypeOK
<1>7. SelectorInv'
  <2>1. selector'["cs"] = 8 /\ \A r \in DataRegisters : selector'[r] \in DataSelectors
    BY <1>3, <1>5
  <2> QED BY <1>1, <1>3, <2>1 DEF SelectorInv
<1>8. GdtInv' /\ GatesSet'
  BY <1>1 DEF SegInv, GdtInv, GatesSet, TableFilled
<1> QED BY <1>5, <1>6, <1>7, <1>8 DEF SegInv

(* No instruction of Initialize_GDT is refused: that GRUB's fs and gs are  *)
(* loaded from another table shows only at the end of a stub.              *)
LEMMA GdtSegInv ==
  ASSUME SegInv, pc \in Base, Initialize_GDT
  PROVE  SegInv' /\ UNCHANGED vars
<1> USE DEF DataRegisters, SegmentRegisters, Saved
<1>1. CASE SegmentStep("gdt", "data segments", TRUE, LoadGdt)
  <2>1. /\ gdt' = Descriptors /\ UNCHANGED <<selector, segment, pushed>>
        /\ kpc = "gdt" /\ kpc' = "data segments" /\ UNCHANGED vars
    BY <1>1 DEF SegmentStep, LoadGdt
  <2> QED BY <2>1 DEF SegInv, SegmentTypeOK, SelectorInv, GdtInv, GatesSet, TableFilled,
                      BeforePit, AfterSti, vars, cpuVars, Base, IrqCode
<1>2. CASE SegmentStep("data segments", "far jump", AllLoadable(KernelData), LoadRegisters(KernelData))
  <2>1. kpc = "data segments" /\ gdt \in {Descriptors, BusyTask} /\ gdt = Descriptors
    BY <1>2 DEF SegmentStep, SegInv, GdtInv
  <2>2. /\ DOMAIN KernelData = {"ds", "es", "ss"}
        /\ \A r \in {"ds", "es", "ss"} : KernelData[r] = 16
        /\ \A r \in DOMAIN KernelData : KernelData[r] \in Nat /\ KernelData[r] > 7
    BY DEF KernelData
  <2>3. AllLoadable(KernelData)
    BY <2>1, <2>2, KernelSelectorsFit DEF AllLoadable
  <2>4. /\ Load(KernelData) /\ UNCHANGED <<gdt, pushed>>
        /\ kpc' = "far jump" /\ UNCHANGED vars
    BY <1>2, <2>3 DEF SegmentStep, LoadRegisters
  <2>5. /\ selector' \in [SegmentRegisters -> Nat]
        /\ segment' \in [SegmentRegisters -> KernelSegments]
        /\ IsCode(segment'["cs"]) /\ IsData(segment'["ss"])
        /\ \A r \in SegmentRegisters :
             selector'[r] = IF r \in {"ds", "es", "ss"} THEN KernelData[r] ELSE selector[r]
    BY <2>1, <2>2, <2>3, <2>4, LoadSegments DEF SegInv
  <2>6. SegmentTypeOK'
    BY <2>4, <2>5 DEF SegInv, SegmentTypeOK
  <2>7. SelectorInv'
    BY <2>2, <2>4, <2>5 DEF SegInv, SelectorInv, DataSelectors, vars, cpuVars, Base, IrqCode
  <2> QED BY <2>1, <2>4, <2>5, <2>6, <2>7
          DEF SegInv, GdtInv, GatesSet, TableFilled, AfterSti, vars, cpuVars
<1>3. CASE SegmentStep("far jump", "ltr", AllLoadable(KernelCode), LoadRegisters(KernelCode))
  <2>1. kpc = "far jump" /\ gdt \in {Descriptors, BusyTask} /\ gdt = Descriptors
    BY <1>3 DEF SegmentStep, SegInv, GdtInv
  <2>2. /\ DOMAIN KernelCode = {"cs"} /\ KernelCode["cs"] = 8
        /\ \A r \in DOMAIN KernelCode : KernelCode[r] \in Nat /\ KernelCode[r] > 7
    BY DEF KernelCode
  <2>3. AllLoadable(KernelCode)
    BY <2>1, <2>2, KernelSelectorsFit DEF AllLoadable
  <2>4. /\ Load(KernelCode) /\ UNCHANGED <<gdt, pushed>>
        /\ kpc' = "ltr" /\ UNCHANGED vars
    BY <1>3, <2>3 DEF SegmentStep, LoadRegisters
  <2>5. /\ selector' \in [SegmentRegisters -> Nat]
        /\ segment' \in [SegmentRegisters -> KernelSegments]
        /\ IsCode(segment'["cs"]) /\ IsData(segment'["ss"])
        /\ \A r \in SegmentRegisters :
             selector'[r] = IF r \in {"cs"} THEN KernelCode[r] ELSE selector[r]
    BY <2>1, <2>2, <2>3, <2>4, LoadSegments DEF SegInv
  <2>6. SegmentTypeOK'
    BY <2>4, <2>5 DEF SegInv, SegmentTypeOK
  <2>7. SelectorInv'
    <3>1. selector'["cs"] = 8 /\ \A r \in DataRegisters : selector'[r] = selector[r]
      BY <2>2, <2>5
    <3>2. pc' \notin IrqCode \cup {"stub"}
      BY <2>4 DEF vars, cpuVars, Base, IrqCode
    <3>3. \A r \in DataRegisters : selector[r] \in DataSelectors
      BY DEF SegInv, SelectorInv
    <3>4. \A r \in DataRegisters : selector'[r] \in DataSelectors
      BY <3>1, <3>3
    <3> QED BY <3>1, <3>2, <3>4 DEF SelectorInv
  <2> QED BY <2>1, <2>4, <2>5, <2>6, <2>7
          DEF SegInv, GdtInv, GatesSet, TableFilled, AfterSti, vars, cpuVars
<1>4. CASE SegmentStep("ltr", "idt", TaskLoadable, LoadTaskRegister)
  <2>1. kpc = "ltr" /\ gdt = Descriptors
    BY <1>4 DEF SegmentStep, SegInv, GdtInv
  <2>2. /\ Index(TaskSelector) = 5
        /\ Descriptors[5] = Add_GDT_Descriptor(Zero, [hi |-> 0, lo |-> SizeOfTss - 1], 233, 0)
    BY DEF Index, TaskSelector, Descriptors
  <2>3. Descriptors[5].access = 233
    BY <2>2 DEF Add_GDT_Descriptor
  <2>4. TaskLoadable
    BY <2>1, <2>2, <2>3 DEF TaskLoadable, Present, IsTss, Has
  <2>5. LoadTaskRegister /\ kpc' = "idt" /\ UNCHANGED vars
    BY <1>4, <2>4 DEF SegmentStep
  <2>6. tr' = [Descriptors[5] EXCEPT !.access = 235]
    BY <2>1, <2>2, <2>3, <2>5 DEF LoadTaskRegister
  <2>7. gdt' = BusyTask /\ UNCHANGED <<selector, segment, pushed>>
    BY <2>1, <2>2, <2>5, <2>6 DEF LoadTaskRegister, BusyTask
  <2> QED BY <2>1, <2>5, <2>7 DEF SegInv, SegmentTypeOK, SelectorInv, GdtInv, GatesSet,
                                  TableFilled, BeforePit, AfterSti, vars, cpuVars, Base, IrqCode
<1> QED BY <1>1, <1>2, <1>3, <1>4 DEF Initialize_GDT

(* The boot loader and kmain enter no stub before the gates are set.       *)
LEMMA QuietGates ==
  ASSUME BootInv, SegInv, ~GatesSet
  PROVE  Quiet /\ idt = NoGates /\ pc \in Base \cup {"reset"}
BY DEF BootInv, PhaseInv, Quiet, SegInv, GatesSet

LEMMA SegmentsOfGateSegInv ==
  ASSUME SegInv, GatesSet, kpc' = kpc, SegmentsOfGate,
         pc' \in IrqCode => pc \in IrqCode
  PROVE  SegInv'
<1>1. CASE pc' = "stub"
  BY <1>1, EnterStubSegInv DEF SegmentsOfGate
<1>2. CASE pc' # "stub"
  BY <1>2, KeepSegInv DEF SegmentsOfGate, GatesSet, TableFilled
<1> QED BY <1>1, <1>2

LEMMA ExceptionSegInv ==
  ASSUME BootInv, SegInv, NEW v \in Faults, Exception(v)
  PROVE  SegInv'
<1>1. kpc' = kpc /\ SegmentsOfGate
  BY DEF Exception, kernelVars
<1>2. pc' \in {"stub", "reset"}
  BY DEF Exception, RaiseException, RaiseExceptionAgain, EnterGate
<1>3. CASE GatesSet
  BY <1>1, <1>2, <1>3, SegmentsOfGateSegInv DEF IrqCode
<1>4. CASE ~GatesSet
  <2>1. pc' = "reset"
    BY <1>2, <1>4, QuietGates DEF Exception, RaiseException, RaiseExceptionAgain,
       EnterGate, GateOf, NoGates, ReportsException, Base
  <2> QED BY <1>1, <2>1, KeepSegInv DEF SegmentsOfGate, GatesSet, TableFilled, IrqCode
<1> QED BY <1>3, <1>4

LEMMA KmainSegInv ==
  ASSUME SegInv, MainStep
  PROVE  SegInv'
<1>1. pc = "main"
  BY DEF MainStep, StartTerminal, BadMagic, PIT_8254_Phase, Initialize_PIT_8254,
     Initialize_GDT, SegmentStep, Install_IDT, ResetChips, RemapChips,
     RestoreChipMasks, CreateGates, EnableInterrupts, PIT_8254_Wait,
     Speaker_Beep, HaltLoop, Kmain, Executing
<1>2. CASE Initialize_GDT
  BY <1>1, <1>2, GdtSegInv DEF Base
<1>3. ASSUME UNCHANGED segmentVars, pc' \in Base,
             \/ kpc \in BeforePit /\ kpc' \in {"pit", "gdt"} \cup BeforePit
             \/ kpc = "terminal" /\ kpc' = "hang"
             \/ kpc = "pit" /\ kpc' = "gdt"
             \/ kpc \in {"idt", "icw1", "icw2", "restore", "gates", "sti"} \cup AfterSti
                /\ kpc' \in {"icw1", "icw2", "restore", "gates", "sti"} \cup AfterSti
      PROVE  SegInv'
  <2>1. TableFilled' = TableFilled
    BY <1>3 DEF TableFilled, BeforePit, AfterSti
  <2>2. /\ kpc \notin {"data segments", "far jump", "ltr"}
        /\ kpc' \notin {"data segments", "far jump", "ltr"}
    BY <1>3 DEF BeforePit, AfterSti
  <2>3. pc' \notin IrqCode \cup {"stub"}
    BY <1>3 DEF Base, IrqCode
  <2> QED BY <1>3, <2>1, <2>2, <2>3, KeepSegInv
<1>4. CASE StartTerminal \/ BadMagic \/ PIT_8254_Phase(1000) \/ Initialize_PIT_8254
  BY <1>1, <1>3, <1>4
     DEF StartTerminal, BadMagic, PIT_8254_Phase, Initialize_PIT_8254, Kmain, CallsOnly,
         Install_Interrupt_Handler, SetRoutine, SetInterruptFlag, machineVars, vars, cpuVars,
         Base, BeforePit
<1>5. CASE Install_IDT \/ ResetChips \/ RemapChips \/ RestoreChipMasks \/ CreateGates
  BY <1>1, <1>3, <1>5
     DEF Install_IDT, ResetChips, RemapChips, RestoreChipMasks, CreateGates, LoadIdt, Kmain,
         CallsOnly, machineVars, cpuVars, Base
<1>6. CASE EnableInterrupts \/ HaltLoop
  BY <1>1, <1>3, <1>6
     DEF EnableInterrupts, HaltLoop, Kmain, CallsOnly, machineVars, Enable_Interrupts,
         SetInterruptFlag, Base, AfterSti
<1>7. CASE PIT_8254_Wait("test_wait", "beep_command") \/ Speaker_Beep
  BY <1>1, <1>3, <1>7
     DEF PIT_8254_Wait, Speaker_Beep, SwitchSpeaker, WaitCall, WaitTest, WaitHalt, WaitDone,
         Kmain, machineVars, SetInterruptFlag, vars, cpuVars, Base, AfterSti
<1> QED BY <1>2, <1>4, <1>5, <1>6, <1>7 DEF MainStep

(* The serving code runs, and interrupts come, only with the gates set.    *)
LEMMA ServeSegInv ==
  ASSUME BootInv, SegInv, ServeInterrupt
  PROVE  SegInv'
<1>1. kpc' = kpc
  BY DEF ServeInterrupt, PIT_8254_Handler, kernelVars
<1>2. pc \in IrqCode \cup {"stub"}
  BY DEF ServeInterrupt, EndStub, ServiceRoutine, DispatchException, DispatchIrq,
     DispatchNothing, IgnoreSpuriousMaster, EndSpuriousSlave, StartGenuineIrq, CallRoutine,
     SendEoiSlave, SendEoiMaster, ReturnFromInterrupt, Executing, IrqCode
<1>3. GatesSet
  BY <1>2 DEF SegInv, Base, IrqCode
<1>4. CASE ServiceRoutine /\ UNCHANGED segmentVars
  BY <1>1, <1>2, <1>3, <1>4, KeepSegInv DEF GatesSet, TableFilled
<1>5. CASE pc = "iret" /\ AllLoadable(pushed) /\ LeaveStub
  BY <1>1, <1>3, <1>5, LeaveStubSegInv
<1>6. CASE pc = "iret" /\ GeneralProtection
  BY <1>1, <1>3, <1>6, SegmentsOfGateSegInv DEF GeneralProtection, EnterGate, IrqCode
<1> QED BY <1>4, <1>5, <1>6 DEF ServeInterrupt, EndStub

LEMMA AcknowledgeSegInv ==
  ASSUME BootInv, SegInv, AcknowledgeInterrupt
  PROVE  SegInv'
<1>1. AcknowledgeCycle /\ kpc' = kpc /\ SegmentsOfGate
  BY DEF AcknowledgeInterrupt
<1>2. bus # "idle"
  BY <1>1 DEF AcknowledgeCycle, MasterAnswersSpurious, MasterAnswers,
     MasterDefersToSlave, SlaveAnswers, SlaveAnswersSpurious
<1>3. GatesSet
  BY <1>2 DEF BootInv, PhaseInv, Quiet, GatesSet
<1>4. pc' \in {"stub", "reset", pc}
  BY <1>1 DEF AcknowledgeCycle, MasterAnswersSpurious, MasterAnswers,
     MasterDefersToSlave, SlaveAnswers, SlaveAnswersSpurious, EnterGate
<1> QED BY <1>1, <1>3, <1>4, SegmentsOfGateSegInv DEF IrqCode

LEMMA SegNext == BootInv /\ SegInv /\ [BootNext]_bootVars => SegInv'
<1> SUFFICES ASSUME BootInv, SegInv, [BootNext]_bootVars PROVE SegInv'
  OBVIOUS
<1>1. ASSUME UNCHANGED segmentVars, UNCHANGED <<kpc, pc>>
      PROVE  SegInv'
  BY <1>1, KeepSegInv DEF SegInv, GatesSet, TableFilled
<1>2. CASE UNCHANGED bootVars
  BY <1>1, <1>2 DEF bootVars, kernelVars, machineVars, vars, cpuVars
<1>3. CASE (AcceptInterrupt /\ KernelKept) \/ TimerRaises \/ OtherDevices
  BY <1>1, <1>3 DEF AcceptInterrupt, TimerRaises, OtherDevices, DeviceRaises,
     DeviceWithdraws, KernelKept, kernelVars, machineVars, cpuVars
<1> QED BY <1>2, <1>3, KmainSegInv, ServeSegInv, AcknowledgeSegInv, ExceptionSegInv
        DEF BootNext

(* Whichever table a segment register was loaded from, and whatever the    *)
(* boot loader left in it, the kernel's code runs in flat segments: where  *)
(* a selector does not fit the kernel's table the stub faults, it does not *)
(* go on with a wrong segment (gdt.c:69-104, interrupt_handler.asm:157-176)*)
THEOREM SegmentsAreKept == BootSpec => []SegmentsStayFlat
<1>1. SegInv => SegmentsStayFlat
  BY SegmentsAreFlat DEF SegInv, SegmentTypeOK, SegmentsStayFlat
<1> QED BY <1>1, BootInvariance, SegInvInit, SegNext, PTL DEF BootSpec

-----------------------------------------------------------------------------
(* What the boot loader leaves in fs and gs must suit the kernel's table,  *)
(* for the first stub to return: GRUB's 16 and 24 are the kernel's data    *)
(* segment and its user code segment, which can be read.                   *)
LoaderFits ==
  \A s \in LoaderSelectors :
    ~Has(4, s) /\ Index(s) \in 1..4 /\ Rpl(s) <= Dpl(Descriptors[Index(s)])

FaultInv == ReportsException => int_no \in Faults

LEMMA LoaderSelectorsFit ==
  ASSUME LoaderFits, gdt \in {Descriptors, BusyTask},
         NEW r \in DataRegisters, NEW s \in DataSelectors
  PROVE  Loadable(r, s)
<1>1. CASE s = 16
  BY <1>1, KernelSelectorsFit DEF DataRegisters
<1>2. CASE s \in LoaderSelectors
  <2>1. ~Has(4, s) /\ Index(s) \in 1..4 /\ Rpl(s) <= Dpl(Descriptors[Index(s)])
    BY <1>2 DEF LoaderFits
  <2>2. InTable(s) /\ Index(s) # 0
    BY <2>1, KernelTableOfSegments DEF InTable
  <2>3. gdt[Index(s)] = Descriptors[Index(s)]
    BY <2>1, KernelTableOfSegments
  <2>4. ASSUME NEW d \in KernelSegments
        PROVE  Present(d) /\ (IsData(d) \/ (IsCode(d) /\ Has(2, d.access)))
    BY DEF KernelSegments, FlatSegment, Present, IsData, IsCode, Has
  <2>5. gdt[Index(s)] \in KernelSegments
    BY <2>1, KernelTableOfSegments DEF KernelSegments
  <2>6. r # "cs" /\ r # "ss"
    BY DEF DataRegisters
  <2> QED BY <2>1, <2>2, <2>3, <2>4, <2>5, <2>6 DEF Loadable
<1> QED BY <1>1, <1>2 DEF DataSelectors

LEMMA SavedSelectorsFit ==
  ASSUME LoaderFits, SegInv, GatesSet, pc = "iret"
  PROVE  AllLoadable(pushed)
<1>1. gdt \in {Descriptors, BusyTask}
  BY GatesSetLate DEF SegInv, GdtInv
<1>2. /\ pushed["cs"] = 8 /\ \A r \in DataRegisters : pushed[r] \in DataSelectors
      /\ DOMAIN pushed = DataRegisters \cup {"cs"}
  BY DEF SegInv, SegmentTypeOK, SelectorInv, Saved, IrqCode
<1> QED BY <1>1, <1>2, LoaderSelectorsFit, KernelSelectorsFit DEF AllLoadable

(* The chips' vectors are those of the interrupt requests.                 *)
LEMMA AcknowledgeEntersIrq ==
  ASSUME IInv, AcknowledgeCycle
  PROVE  \/ pc' = pc /\ pc \in Base
         \/ pc' = "stub" /\ int_no' \in IrqVectors
<1>1. bus # "idle"
  BY DEF AcknowledgeCycle, MasterAnswersSpurious, MasterAnswers,
     MasterDefersToSlave, SlaveAnswers, SlaveAnswersSpurious
<1>2. pc \in Base /\ base = KernelBases
  BY <1>1 DEF IInv, ControlInv, BusInv, BaseInv, TablesInv
<1>3. /\ SlaveRequests \subseteq Devices \cap Slave
      /\ MasterRequests \subseteq (Devices \cap Master) \cup {Cascade}
  BY RequestsAreDevices DEF IInv, TypeOK, PicTypeOK
<1>4. ASSUME NEW v \in IrqVectors, EnterGate(v)
      PROVE  pc' = "stub" /\ int_no' \in IrqVectors
  BY <1>4, GateEntered DEF IrqVectors
<1>5. CASE MasterAnswersSpurious \/ SlaveAnswersSpurious
  BY <1>2, <1>4, <1>5
     DEF MasterAnswersSpurious, SlaveAnswersSpurious, KernelBases, IrqVectors
<1>6. ASSUME NEW i \in Devices, MasterAnswers(i)
      PROVE  pc' = "stub" /\ int_no' \in IrqVectors
  <2>1. i \in Master /\ i # Cascade
    BY <1>3, <1>6, HighestMember DEF MasterAnswers
  <2>2. EnterGate(32 + i) /\ 32 + i \in IrqVectors
    BY <1>2, <1>6, <2>1 DEF MasterAnswers, KernelBases, IrqVectors, Master
  <2> QED BY <1>4, <2>2
<1>7. ASSUME NEW i \in Devices, SlaveAnswers(i)
      PROVE  pc' = "stub" /\ int_no' \in IrqVectors
  <2>1. i \in Slave
    BY <1>3, <1>7, HighestMember DEF SlaveAnswers
  <2>2. EnterGate(32 + i) /\ 32 + i \in IrqVectors
    BY <1>2, <1>7, <2>1 DEF SlaveAnswers, KernelBases, IrqVectors, Slave
  <2> QED BY <1>4, <2>2
<1>8. CASE MasterDefersToSlave
  BY <1>2, <1>8 DEF MasterDefersToSlave
<1> QED BY <1>5, <1>6, <1>7, <1>8 DEF AcknowledgeCycle

LEMMA ExceptionFaultInv ==
  ASSUME BootInv, SegInv, NEW v \in Faults, Exception(v)
  PROVE  FaultInv'
<1>1. CASE RaiseExceptionAgain(v)
  BY <1>1 DEF RaiseExceptionAgain, FaultInv
<1>2. CASE RaiseException(v)
  <2>1. pc' = "reset" \/ (pc' = "stub" /\ int_no' = v)
    <3>1. CASE kpc \in AfterSti
      BY <1>2, <3>1, GateEntered DEF RaiseException, BootInv, PhaseInv
    <3>2. CASE kpc = "sti"
      <4>1. idt = InstalledIdt
        BY <3>2 DEF BootInv, PhaseInv, Quiet, AfterSti
      <4>2. v \in DOMAIN InstalledIdt /\ InstalledIdt[v] = v
        BY DEF InstalledIdt
      <4> QED BY <1>2, <4>1, <4>2 DEF RaiseException, EnterGate, GateOf
    <3>3. CASE ~GatesSet
      BY <1>2, <3>3, QuietGates DEF RaiseException, EnterGate, GateOf, NoGates
    <3> QED BY <3>1, <3>2, <3>3 DEF GatesSet
  <2> QED BY <2>1 DEF FaultInv, ReportsException
<1> QED BY <1>1, <1>2 DEF Exception

LEMMA KmainFaultInv ==
  ASSUME SegInv, MainStep
  PROVE  FaultInv'
<1>1. pc = "main"
  BY DEF MainStep, StartTerminal, BadMagic, PIT_8254_Phase, Initialize_PIT_8254,
     Initialize_GDT, SegmentStep, Install_IDT, ResetChips, RemapChips,
     RestoreChipMasks, CreateGates, EnableInterrupts, PIT_8254_Wait,
     Speaker_Beep, HaltLoop, Kmain, Executing
<1>2. ASSUME pc' \in {"main", "hlt"}
      PROVE  FaultInv'
  BY <1>2 DEF FaultInv, ReportsException
<1>3. CASE Initialize_GDT
  BY <1>1, <1>2, <1>3, GdtSegInv DEF Base, vars, cpuVars
<1>4. CASE \/ StartTerminal \/ BadMagic \/ PIT_8254_Phase(1000) \/ Initialize_PIT_8254
           \/ Install_IDT \/ ResetChips \/ RemapChips \/ RestoreChipMasks \/ CreateGates
           \/ EnableInterrupts \/ HaltLoop
  BY <1>1, <1>2, <1>4
     DEF StartTerminal, BadMagic, PIT_8254_Phase, Initialize_PIT_8254, Install_IDT,
         ResetChips, RemapChips, RestoreChipMasks, CreateGates, LoadIdt, EnableInterrupts,
         HaltLoop, Install_Interrupt_Handler, SetRoutine, Enable_Interrupts,
         SetInterruptFlag, vars, cpuVars
<1>5. CASE PIT_8254_Wait("test_wait", "beep_command") \/ Speaker_Beep
  BY <1>1, <1>2, <1>5
     DEF PIT_8254_Wait, Speaker_Beep, SwitchSpeaker, WaitCall, WaitTest, WaitHalt, WaitDone,
         SetInterruptFlag, vars, cpuVars
<1> QED BY <1>3, <1>4, <1>5 DEF MainStep

LEMMA ServeFaultInv ==
  ASSUME LoaderFits, BootInv, SegInv, FaultInv, ServeInterrupt
  PROVE  FaultInv'
<1>1. CASE pc = "iret"
  <2>1. GatesSet
    BY <1>1 DEF SegInv, Base
  <2>2. ReturnFromInterrupt
    BY <1>1, <2>1, SavedSelectorsFit DEF ServeInterrupt, EndStub
  <2>3. IInv
    BY <1>1 DEF BootInv, PhaseInv, Quiet, Base
  <2>4. pc' = "main"
    BY <1>1, <2>2, <2>3
       DEF ReturnFromInterrupt, IInv, ControlInv, ServiceInv, IrqCode, ReportsException, Executing
  <2> QED BY <2>4 DEF FaultInv, ReportsException
<1>2. CASE pc # "iret" /\ DispatchException
  BY <1>2 DEF DispatchException, Goto, FaultInv, ReportsException, Executing
<1>3. CASE pc # "iret" /\ ServiceRoutine /\ ~DispatchException
  <2>1. pc' \in IrqCode
    BY <1>3 DEF ServiceRoutine, DispatchIrq, DispatchNothing, IgnoreSpuriousMaster,
       EndSpuriousSlave, StartGenuineIrq, CallRoutine, SendEoiSlave, SendEoiMaster,
       ReturnFromInterrupt, Executing, Goto, FirstEoi, IrqCode
  <2> QED BY <2>1 DEF FaultInv, ReportsException, IrqCode
<1> QED BY <1>1, <1>2, <1>3 DEF ServeInterrupt

LEMMA FaultNext ==
  ASSUME LoaderFits
  PROVE  BootInv /\ SegInv /\ FaultInv /\ [BootNext]_bootVars => FaultInv'
<1> SUFFICES ASSUME BootInv, SegInv, FaultInv, [BootNext]_bootVars PROVE FaultInv'
  OBVIOUS
<1>1. ASSUME UNCHANGED <<pc, int_no>>
      PROVE  FaultInv'
  BY <1>1 DEF FaultInv, ReportsException
<1>2. CASE UNCHANGED bootVars
  BY <1>1, <1>2 DEF bootVars, vars, cpuVars
<1>3. CASE (AcceptInterrupt /\ KernelKept) \/ TimerRaises \/ OtherDevices
  BY <1>1, <1>3 DEF AcceptInterrupt, TimerRaises, OtherDevices, DeviceRaises,
     DeviceWithdraws, cpuVars
<1>4. CASE AcknowledgeInterrupt
  <2>1. AcknowledgeCycle
    BY <1>4 DEF AcknowledgeInterrupt
  <2>2. bus # "idle"
    BY <2>1 DEF AcknowledgeCycle, MasterAnswersSpurious, MasterAnswers,
       MasterDefersToSlave, SlaveAnswers, SlaveAnswersSpurious
  <2>3. IInv
    BY <2>2 DEF BootInv, PhaseInv, Quiet
  <2> QED BY <2>1, <2>3, AcknowledgeEntersIrq DEF FaultInv, ReportsException, Base, IrqVectors
<1> QED BY <1>2, <1>3, <1>4, KmainFaultInv, ServeFaultInv, ExceptionFaultInv DEF BootNext

(* The kernel panics only when the code it interrupted faulted: no device  *)
(* is taken for an exception, and no instruction of Initialize_GDT nor the *)
(* end of a stub adds a fault of its own, as long as the boot loader's     *)
(* selectors fit (gdt_loader.asm, interrupt_handler.asm:157-176).          *)
THEOREM FaultsAreGenuine ==
  ASSUME LoaderFits
  PROVE  BootSpec => []PanicOnlyOnException
<1>1. BootInit => FaultInv
  BY DEF BootInit, FaultInv, ReportsException
<1>2. FaultInv => PanicOnlyOnException
  BY DEF FaultInv, PanicOnlyOnException, ReportsException
<1> QED BY <1>1, <1>2, BootInvariance, BootInvInit, BootNextInv, SegInvInit, SegNext,
           FaultNext, PTL DEF BootSpec
=============================================================================

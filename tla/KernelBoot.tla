----------------------------- MODULE KernelBoot ------------------------------
(***************************************************************************)
(* kmain (kernel/kernel.c) as the main thread above the interrupt path of  *)
(* IrqDispatch: from the entry of kmain with the chips as the BIOS left    *)
(* them and interrupts off, through the installation of the timer, the     *)
(* IDT, the interrupt controllers and the gates, to the timer test, the    *)
(* beep and the final halt loop.                                           *)
(*                                                                         *)
(* Segments gives the descriptor table and the registers that the stubs    *)
(* save and load again, PitChannels the timer chip, which interrupts only  *)
(* while channel 0 counts.  The display does not interact with interrupts: *)
(* its calls are the step "terminal".  The 64-bit counters are represented *)
(* by their difference: remaining is eticks - timer_ticks, floored at 0    *)
(* (module Pit8254 has the counters).                                      *)
(***************************************************************************)
EXTENDS IrqDispatch, Segments, PitChannels, Integers

CONSTANTS
  WaitTicks    \* the ticks kmain and Speaker_Beep wait for (2000 in the code)

ASSUME WaitAssumption == WaitTicks \in Nat \ {0}
ASSUME TimerAssumption == 0 \in Devices

VARIABLES
  kpc,         \* where kmain is
  wait,        \* where PIT_8254_Wait is
  remaining,   \* the ticks that PIT_8254_Wait still has to wait for
  masks,       \* MASTER_MASK and SLAVE_MASK of Initialize_8259_PIC
  speaker,     \* whether the speaker is connected to the timer
  bios_masks,  \* history: the masks the kernel found
  uncounted    \* history: timer interrupts acknowledged and not yet counted

kernelVars == <<kpc, wait, remaining, masks, speaker, bios_masks, uncounted>>
machineVars == <<segmentVars, channels>>
bootVars   == <<vars, kernelVars, machineVars>>

BeforePit == {"terminal", "command", "low", "high", "hang"}
BeforeSti == {"pit", "gdt", "data segments", "far jump", "ltr",
              "idt", "icw1", "icw2", "restore", "gates", "sti"}
AfterSti  == {"test_wait", "beep_command", "beep_count", "beep_on", "beep_wait",
              "beep_off", "idle"}

(* The stub of vector v lies at an address of the kernel's page.  The gates *)
(* are what the CPU finds in the 2048 bytes that idtp announces.           *)
Stub(v) == [hi |-> 49168, lo |-> 16 * v]

Table ==
  [v \in 0..255 |->
     IF v \in 0..47 \cup {120} THEN Create_IDT_Entry(Stub(v), 8, 142)
     ELSE IF v = 121 THEN Create_IDT_Entry(Stub(120), 8, 190)
     ELSE ClearEntry]

MasterTable == [v \in 0..255 |-> IF v \in 0..39 THEN Table[v] ELSE ClearEntry]

GatesOf(table) ==
  [v \in {v \in 0..255 : IsInterruptGate(table[v])} |->
     CHOOSE n \in 0..255 : Stub(n) = TargetOf(table[v])]

-----------------------------------------------------------------------------
Kmain(here, there) ==
  /\ Executing("main")
  /\ kpc = here
  /\ kpc' = there
  /\ UNCHANGED <<bios_masks, uncounted>>

LocalsKept == UNCHANGED <<wait, remaining, masks, speaker>>
CallsOnly  == LocalsKept /\ UNCHANGED machineVars

(* kmain returns on a bad magic number, and the loader stops the CPU.      *)
StartTerminal ==
  /\ Kmain("terminal", "command")
  /\ UNCHANGED vars
  /\ CallsOnly

BadMagic ==
  /\ Kmain("terminal", "hang")
  /\ SetInterruptFlag(FALSE, "hlt")
  /\ CallsOnly

(* Mutant: the handler is installed for the clock's line.                  *)
InstallTimerForIrq8 ==
  /\ Kmain("pit", "gdt")
  /\ Install_Interrupt_Handler(IRQ8, "PIT_8254_Handler")
  /\ CallsOnly

Initialize_PIT_8254 ==
  /\ Kmain("pit", "gdt")
  /\ Install_Interrupt_Handler(IRQ0, "PIT_8254_Handler")
  /\ CallsOnly

PIT_8254_Phase(hz) ==
  /\ \/ Kmain("command", "low") /\ PhaseCommand
     \/ Kmain("low", "high") /\ PhaseLow(hz)
     \/ Kmain("high", "pit") /\ PhaseHigh(hz)
  /\ UNCHANGED <<vars, segmentVars>>
  /\ LocalsKept

(* Entering a gate is entering a stub, if there is one.                    *)
SegmentsOfGate == IF pc' = "stub" THEN EnterStub ELSE UNCHANGED segmentVars

(* Initialize_GDT: the table, then the registers.  An instruction that the *)
(* CPU refuses is a general protection fault.                              *)
GeneralProtection == EnterGate(13) /\ UNCHANGED picVars /\ SegmentsOfGate

SegmentStep(here, there, fits, load) ==
  /\ Executing("main")
  /\ kpc = here
  /\ IF fits THEN load /\ kpc' = there /\ UNCHANGED vars
             ELSE GeneralProtection /\ UNCHANGED kpc
  /\ UNCHANGED <<bios_masks, uncounted, channels>>
  /\ LocalsKept

Initialize_GDT ==
  \/ SegmentStep("gdt", "data segments", TRUE, LoadGdt)
  \/ SegmentStep("data segments", "far jump", AllLoadable(KernelData), LoadRegisters(KernelData))
  \/ SegmentStep("far jump", "ltr", AllLoadable(KernelCode), LoadRegisters(KernelCode))
  \/ SegmentStep("ltr", "idt", TaskLoadable, LoadTaskRegister)

LoadIdt(table) ==
  /\ idt' = GatesOf(table)
  /\ UNCHANGED <<picVars, Interrupt_Routines, cpuVars>>

Install_IDT ==
  /\ Kmain("idt", "icw1")
  /\ LoadIdt([v \in 0..255 |-> ClearEntry])
  /\ CallsOnly

(* Interrupt_Handler_Installer: Initialize_8259_PIC, then the gates.       *)
ResetChips ==
  /\ Kmain("icw1", "icw2")
  /\ masks' = imr
  /\ SendIcw1
  /\ UNCHANGED <<tableVars, cpuVars, machineVars, wait, remaining, speaker>>

(* Mutant: the chips keep the vectors the BIOS gave them.                  *)
KeepBiosVectors ==
  /\ Kmain("icw2", "restore")
  /\ SendVectorBases(8, 112)
  /\ UNCHANGED <<tableVars, cpuVars>>
  /\ CallsOnly

RemapChips ==
  /\ Kmain("icw2", "restore")
  /\ SendVectorBases(32, 40)
  /\ UNCHANGED <<tableVars, cpuVars>>
  /\ CallsOnly

(* Mutant: the masks are not written back.                                 *)
LoseChipMasks ==
  /\ Kmain("restore", "gates")
  /\ UNCHANGED <<picVars, tableVars, cpuVars>>
  /\ CallsOnly

RestoreChipMasks ==
  /\ Kmain("restore", "gates")
  /\ RestoreMasks(masks)
  /\ UNCHANGED <<tableVars, cpuVars>>
  /\ CallsOnly

(* Mutant: the gates of the slave's lines are forgotten.                   *)
CreateMasterGates ==
  /\ Kmain("gates", "sti")
  /\ LoadIdt(MasterTable)
  /\ CallsOnly

CreateGates ==
  /\ Kmain("gates", "sti")
  /\ LoadIdt(Table)
  /\ CallsOnly

(* Mutant: kmain forgets sti.                                              *)
LeaveInterruptsOff ==
  /\ Kmain("sti", "test_wait")
  /\ Disable_Interrupts
  /\ CallsOnly

EnableInterrupts ==
  /\ Kmain("sti", "test_wait")
  /\ Enable_Interrupts
  /\ CallsOnly

(* PIT_8254_Wait.  Between the test of the loop and its hlt any number of  *)
(* timer interrupts may be served; the hlt then sleeps until the next one. *)
WaitCall ==
  /\ wait = "call"
  /\ wait' = "test"
  /\ remaining' = WaitTicks
  /\ UNCHANGED <<masks, speaker>>
  /\ UNCHANGED vars

WaitTest ==
  /\ wait = "test"
  /\ remaining > 0
  /\ wait' = "halt"
  /\ UNCHANGED <<remaining, masks, speaker>>
  /\ UNCHANGED vars

WaitHalt ==
  /\ wait = "halt"
  /\ wait' = "test"
  /\ UNCHANGED <<remaining, masks, speaker>>
  /\ SetInterruptFlag(iflag, "hlt")

WaitDone ==
  /\ wait = "test"
  /\ remaining = 0
  /\ wait' = "call"
  /\ UNCHANGED <<remaining, masks, speaker>>
  /\ UNCHANGED vars

PIT_8254_Wait(here, there) ==
  /\ \/ Kmain(here, here) /\ (WaitCall \/ WaitTest \/ WaitHalt)
     \/ Kmain(here, there) /\ WaitDone
  /\ UNCHANGED machineVars

SwitchSpeaker(on) ==
  /\ speaker' = on
  /\ UNCHANGED <<wait, remaining, masks>>
  /\ UNCHANGED <<vars, machineVars>>

Speaker_Beep ==
  \/ /\ \/ Kmain("beep_command", "beep_count") /\ BeepCommand
        \/ Kmain("beep_count", "beep_on") /\ BeepCount
     /\ LocalsKept
     /\ UNCHANGED <<vars, segmentVars>>
  \/ Kmain("beep_on", "beep_wait") /\ SwitchSpeaker(TRUE)
  \/ PIT_8254_Wait("beep_wait", "beep_off")
  \/ Kmain("beep_off", "idle") /\ SwitchSpeaker(FALSE)

HaltLoop ==
  /\ Kmain("idle", "idle")
  /\ SetInterruptFlag(iflag, "hlt")
  /\ CallsOnly

MainStep ==
  \/ StartTerminal
  \/ BadMagic
  \/ PIT_8254_Phase(1000)
  \/ Initialize_PIT_8254
  \/ Initialize_GDT
  \/ Install_IDT
  \/ ResetChips
  \/ RemapChips
  \/ RestoreChipMasks
  \/ CreateGates
  \/ EnableInterrupts
  \/ PIT_8254_Wait("test_wait", "beep_command")
  \/ Speaker_Beep
  \/ HaltLoop

-----------------------------------------------------------------------------
(* The timer is the only routine kmain installs: running a routine counts  *)
(* a tick.                                                                 *)
PIT_8254_Handler ==
  /\ remaining' = IF remaining > 0 THEN remaining - 1 ELSE 0
  /\ uncounted' = uncounted - 1
  /\ UNCHANGED <<kpc, wait, masks, speaker, bios_masks>>

(* The end of the stub loads the segment registers from what it has pushed.*)
EndStub ==
  IF AllLoadable(pushed) THEN ReturnFromInterrupt /\ LeaveStub
                         ELSE Executing("iret") /\ GeneralProtection

ServeInterrupt ==
  /\ \/ pc # "iret" /\ ServiceRoutine /\ UNCHANGED segmentVars
     \/ pc = "iret" /\ EndStub
  /\ \/ pc = "handler" /\ PIT_8254_Handler
     \/ pc # "handler" /\ UNCHANGED kernelVars
  /\ UNCHANGED channels

AcknowledgeInterrupt ==
  /\ AcknowledgeCycle
  /\ SegmentsOfGate
  /\ uncounted' = IF isr' \ isr = {0} THEN uncounted + 1 ELSE uncounted
  /\ UNCHANGED <<kpc, wait, remaining, masks, speaker, bios_masks, channels>>

Exception(v) ==
  /\ RaiseException(v) \/ RaiseExceptionAgain(v)
  /\ SegmentsOfGate
  /\ UNCHANGED <<kernelVars, channels>>

KernelKept == UNCHANGED <<kernelVars, machineVars>>

TimerRaises == Counting(0) /\ DeviceRaises(0) /\ KernelKept

OtherDevices ==
  /\ \/ \E i \in Devices \ {0} : DeviceRaises(i)
     \/ \E i \in Glitchy : DeviceWithdraws(i)
  /\ KernelKept

BootInit ==
  /\ irr \in SUBSET Devices
  /\ isr = {}
  /\ imr \in SUBSET (Devices \cup {Cascade})
  /\ base = [master |-> 8, slave |-> 112]
  /\ Interrupt_Routines = [v \in Slots |-> NULL]
  /\ idt = GatesOf([v \in 0..255 |-> ClearEntry])
  /\ iflag = FALSE
  /\ bus = "idle"
  /\ pc = "main"
  /\ int_no = 0
  /\ stack = <<>>
  /\ kpc = "terminal"
  /\ wait = "call"
  /\ remaining = 0
  /\ masks = {}
  /\ speaker = FALSE
  /\ bios_masks = imr
  /\ uncounted = 0
  /\ SegmentsInit
  /\ ChannelsInit

BootNext ==
  \/ MainStep
  \/ ServeInterrupt
  \/ AcknowledgeInterrupt
  \/ AcceptInterrupt /\ KernelKept
  \/ TimerRaises
  \/ OtherDevices
  \/ \E v \in Faults : Exception(v)

(* The CPU keeps executing.  A halted or running CPU with INTR asserted    *)
(* takes the interrupt.  Interrupts come at a finite rate, so the main     *)
(* thread is not preempted for ever (strong fairness), and the timer keeps *)
(* asking while its channel counts.                                        *)
Fairness ==
  /\ WF_bootVars(ServeInterrupt)
  /\ WF_bootVars(AcknowledgeInterrupt)
  /\ WF_bootVars(AcceptInterrupt /\ KernelKept)
  /\ SF_bootVars(MainStep)
  /\ WF_bootVars(TimerRaises)

BootSpec == BootInit /\ [][BootNext]_bootVars /\ Fairness

-----------------------------------------------------------------------------
(* Properties.                                                             *)

(* Only an exception of the CPU makes the kernel panic.  A device request  *)
(* never does, although until Initialize_8259_PIC has run the chips would  *)
(* deliver the timer as vector 8, the double fault (kernel.c:55-81).       *)
PanicOnlyOnException ==
  pc = "panic" => int_no \in Faults

(* When kmain enables interrupts it has brought about all that the         *)
(* interrupt path builds on, and nothing it does later disturbs that: the  *)
(* chips send the kernel's vectors, each gate leads to its stub, and the   *)
(* invariant proved of IrqDispatch holds from there (kernel.c:54-81,       *)
(* interrupt.c:192-255, idt.c:31-47).                                      *)
HandedOver ==
  kpc \in AfterSti => IInv

(* The kernel's code runs in flat segments, whichever table they came from:*)
(* when the loader's, when gdt_loader has loaded some of them, in a stub,  *)
(* and when the stub has loaded again what the boot loader left in fs and  *)
(* gs, from a table that is not the boot loader's (gdt.c:69-104,           *)
(* gdt_loader.asm:21-30, interrupt_handler.asm:157-176).                   *)
SegmentsStayFlat ==
  /\ \A r \in SegmentRegisters : IsFlat(segment[r])
  /\ IsCode(segment["cs"]) /\ IsData(segment["ss"])

(* From PIT_8254_Phase on the timer interrupts 1000 times a second: the    *)
(* count arrives whole, and the beep, which uses the same command port,    *)
(* leaves channel 0 alone (8254.c:31-38, speaker.c:7-8).                   *)
TimerKeepsItsRate ==
  kpc \notin BeforePit => Counting(0) /\ Hertz(0) = 1000

(* The chips keep the masks the BIOS chose, although ICW1 clears them in   *)
(* between (8259.c:53-54, 75-76): no line is ever delivered that the BIOS  *)
(* had masked.                                                             *)
NoMaskedLineInService ==
  isr \cap bios_masks = {}

(* Every timer interrupt the chips hand out is counted exactly once before *)
(* the interrupted code goes on (interrupt.c:157-179, 8254.c:40-47).       *)
EveryTickIsCounted ==
  /\ uncounted \in {0, 1}
  /\ pc \in Base /\ bus = "idle" => uncounted = 0

(* If the BIOS left the timer line unmasked, the boot reaches its final    *)
(* halt loop, through two waits whose every hlt needs a timer interrupt    *)
(* (kernel.c:95-110, speaker.c:5-12, 8254.c:49-56).  On a bad magic number *)
(* it stops at once, and an exception ends it, in a reset while there are  *)
(* no gates.                                                               *)
BootCompletes ==
  0 \notin bios_masks =>
    <>(kpc \in {"idle", "hang"} \/ pc \in {"panic", "reset"})
=============================================================================

-------------------------------- MODULE Cmos ---------------------------------
(***************************************************************************)
(* The users of the CMOS ports 0x70 and 0x71: the real time clock driver   *)
(* (kernel/x86/rtc.c) and the switch of the non-maskable interrupt         *)
(* (kernel/x86/nmi.c).  Port 0x70 selects a register, and its bit 7 masks  *)
(* NMIs; port 0x71 accesses the selected register.  The main thread and    *)
(* RTC_Handler, which interrupts it, both use the one selection.           *)
(*                                                                         *)
(* IRQ8 is edge triggered: the clock raises its line with the periodic     *)
(* flag, and only a read of register C lowers it.  No code but the BIOS    *)
(* masks or unmasks the line; it is unmasked here.  RTC_Update, which      *)
(* reads the time, is in RtcUpdate.                                        *)
(***************************************************************************)
EXTENDS Naturals

CONSTANTS
  TickSize,    \* bound: the values of rtc_ticks, 2^32 in the code
  Shown        \* bound: the fields of the time, of the six of rtc_time_t

ASSUME CmosAssumption ==
  /\ TickSize \in Nat \ {0}
  /\ Shown \subseteq {"second", "minute", "hour", "day", "month", "year"}

VARIABLES
  index,        \* the selected register
  nmi_masked,   \* bit 7 of the last byte written to port 0x70
  flag,         \* the periodic flag, in register C
  pie,          \* the periodic interrupt enable, bit 6 of register B
  registers,    \* what the other bits of the registers hold
  request,      \* IRQ8 waits to be acknowledged
  installed,    \* RTC_Handler is in Interrupt_Routines[IRQ8]
  iflag,
  main,         \* the next access of the main thread
  handler,      \* the next access of RTC_Handler
  byte,         \* register B as the main thread has read it, until it is used
  rtc_ticks,
  nmi_enabled

clock    == <<index, nmi_masked, flag, pie, registers, request>>
kernel   == <<installed, iflag, main, handler, byte, rtc_ticks, nmi_enabled>>
cmosVars == <<clock, kernel>>

Registers == Shown \cup {"A", "B", "C", "D", "none"}

Line == flag /\ pie

-----------------------------------------------------------------------------
(* The ports.  After an access of 0x71 some chips go back to register D.   *)
Select(register, masked) ==
  /\ index' = register
  /\ nmi_masked' = masked
  /\ UNCHANGED <<flag, pie, registers, request>>

Deselect == index' \in {index, "D"}

(* A read of register C lowers the line, and takes a request back that has *)
(* not been acknowledged yet.                                              *)
ReadData ==
  /\ Deselect
  /\ flag' = IF index = "C" THEN FALSE ELSE flag
  /\ request' = IF index = "C" THEN FALSE ELSE request
  /\ UNCHANGED <<nmi_masked, pie, registers>>

(* The write of prev | 0x40.                                               *)
WriteData ==
  /\ Deselect
  /\ pie' = IF index = "B" THEN TRUE ELSE pie
  /\ registers' = IF index = "B" /\ byte = "B" THEN registers
                  ELSE [registers EXCEPT ![index] = "overwritten"]
  /\ request' = (request \/ (flag /\ pie' /\ ~pie))
  /\ UNCHANGED <<nmi_masked, flag>>

Tick ==
  /\ ~flag
  /\ flag' = TRUE
  /\ request' = (request \/ pie)
  /\ UNCHANGED <<index, nmi_masked, pie, registers, kernel>>

-----------------------------------------------------------------------------
(* The main thread.                                                        *)
Main(here, there) ==
  /\ handler = "none"
  /\ main = here
  /\ main' = there
  /\ UNCHANGED <<handler, rtc_ticks>>

Step(here, there) == Main(here, there) /\ UNCHANGED <<installed, iflag, byte, nmi_enabled>>

(* Mutant: the call that installs RTC_Handler is left out.                 *)
InitializeWithoutHandler ==
  Main("install", "cli") /\ UNCHANGED <<clock, installed, iflag, byte, nmi_enabled>>

Install ==
  /\ Main("install", "cli")
  /\ installed' = TRUE
  /\ UNCHANGED <<clock, iflag, byte, nmi_enabled>>

(* Mutant: interrupts stay on.                                             *)
LeaveInterruptsOn ==
  Main("cli", "select B") /\ UNCHANGED <<clock, installed, iflag, byte, nmi_enabled>>

Disable_Interrupts ==
  /\ Main("cli", "select B")
  /\ iflag' = FALSE
  /\ UNCHANGED <<clock, installed, byte, nmi_enabled>>

SelectB == Step("select B", "read B") /\ Select("B", TRUE)

ReadB ==
  /\ Main("read B", "select B again")
  /\ ReadData
  /\ byte' = index
  /\ UNCHANGED <<installed, iflag, nmi_enabled>>

SelectBAgain == Step("select B again", "write B") /\ Select("B", TRUE)

WriteB ==
  /\ Main("write B", "sti")
  /\ WriteData
  /\ byte' = "nothing"
  /\ UNCHANGED <<installed, iflag, nmi_enabled>>

Enable_Interrupts ==
  /\ Main("sti", "idle")
  /\ iflag' = TRUE
  /\ UNCHANGED <<clock, installed, byte, nmi_enabled>>

Initialize_RTC ==
  \/ Step("idle", "install") /\ UNCHANGED clock
  \/ Install \/ Disable_Interrupts \/ SelectB \/ ReadB \/ SelectBAgain \/ WriteB
  \/ Enable_Interrupts

(* Port 0x70 may not be readable: the byte that comes back, and with it    *)
(* the register the switch selects, is any.                                *)
NMI_Enable ==
  \/ Step("idle", "nmi_enable") /\ UNCHANGED clock
  \/ /\ Step("nmi_enable", "nmi_enabled = true")
     /\ \E register \in Registers : Select(register, FALSE)
  \/ /\ Main("nmi_enabled = true", "idle")
     /\ nmi_enabled' = TRUE
     /\ UNCHANGED <<clock, installed, iflag, byte>>

NMI_Disable ==
  \/ Step("idle", "nmi_disable") /\ UNCHANGED clock
  \/ /\ Step("nmi_disable", "idle")
     /\ \E register \in Registers : Select(register, TRUE)

-----------------------------------------------------------------------------
(* The interrupt.  Without a routine IRQ_Handler only ends it.             *)
Accept ==
  /\ request
  /\ iflag
  /\ handler = "none"
  /\ request' = FALSE
  /\ IF installed THEN handler' = "count" /\ iflag' = FALSE
                  ELSE UNCHANGED <<handler, iflag>>
  /\ UNCHANGED <<index, nmi_masked, flag, pie, registers,
                 installed, main, byte, rtc_ticks, nmi_enabled>>

Count ==
  /\ handler = "count"
  /\ handler' = "select C"
  /\ rtc_ticks' = (rtc_ticks + 1) % TickSize
  /\ UNCHANGED <<clock, installed, iflag, main, byte, nmi_enabled>>

SelectC ==
  /\ handler = "select C"
  /\ handler' = "read C"
  /\ Select("C", FALSE)
  /\ UNCHANGED <<installed, iflag, main, byte, rtc_ticks, nmi_enabled>>

ReadC ==
  /\ handler = "read C"
  /\ handler' = "none"
  /\ iflag' = TRUE
  /\ ReadData
  /\ UNCHANGED <<installed, main, byte, rtc_ticks, nmi_enabled>>

RTC_Handler == Count \/ SelectC \/ ReadC

CmosInit ==
  /\ index \in Registers
  /\ nmi_masked \in BOOLEAN
  /\ flag \in BOOLEAN
  /\ pie = FALSE
  /\ registers = [r \in Registers |-> "kept"]
  /\ request = FALSE
  /\ installed = FALSE
  /\ iflag = TRUE
  /\ main = "idle"
  /\ handler = "none"
  /\ byte = "nothing"
  /\ rtc_ticks = 0
  /\ nmi_enabled = FALSE

Driver == Initialize_RTC \/ NMI_Enable \/ NMI_Disable
=============================================================================

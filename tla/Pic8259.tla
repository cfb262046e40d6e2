------------------------------- MODULE Pic8259 -------------------------------
(***************************************************************************)
(* The two cascaded 8259A interrupt controllers of a PC, as seen by the    *)
(* driver kernel/x86/isa/8259.c, and the driver's operations on them.      *)
(*                                                                         *)
(* Lines 0..7 are the master's, 8..15 the slave's; the slave's output is   *)
(* wired to line 2 of the master.  The driver programs edge triggering     *)
(* and leaves automatic end of interrupt off (ICW1 and ICW4, lines 56-74). *)
(* The registers of both chips are kept as sets of line numbers.           *)
(***************************************************************************)
EXTENDS Naturals

CONSTANT Devices    \* the lines some device is wired to

ASSUME DevicesAssumption == Devices \subseteq (0..15) \ {2}

VARIABLES
  irr,    \* latched requests that have not been acknowledged
  isr,    \* interrupts in service: acknowledged and not ended
  imr,    \* masked lines
  base    \* the vector of the first line of each chip

picVars == <<irr, isr, imr, base>>

Master  == 0..7
Slave   == 8..15
Cascade == 2

PicTypeOK ==
  /\ irr \in SUBSET Devices
  /\ isr \in SUBSET (Devices \cup {Cascade})
  /\ imr \in SUBSET (0..15)
  /\ base \in [master : 0..255, slave : 0..255]

(***************************************************************************)
(* The priority resolver.  A request is put through when it outranks every *)
(* interrupt in service on its chip: lower numbers have higher priority.   *)
(***************************************************************************)
Highest(S) == {i \in S : \A j \in S : i <= j}

Outranks(i, chip) == \A j \in isr \cap chip : i < j

SlaveRequests ==
  {i \in (irr \cap Slave) \ imr : Outranks(i, Slave)}

CascadeRequest == IF SlaveRequests = {} THEN {} ELSE {Cascade}

MasterRequests ==
  {i \in ((irr \cap Master) \cup CascadeRequest) \ imr : Outranks(i, Master)}

Intr == MasterRequests # {}

(* A device asks for service, or takes its request back before the CPU has *)
(* acknowledged it; the latch of an edge triggered line follows its input. *)
Raise(i) ==
  /\ i \notin irr
  /\ irr' = irr \cup {i}
  /\ UNCHANGED <<isr, imr, base>>

Withdraw(i) ==
  /\ i \in irr
  /\ irr' = irr \ {i}
  /\ UNCHANGED <<isr, imr, base>>

(* An acknowledge cycle moves line i from requested to in service.         *)
Acknowledge(i) ==
  /\ isr' = isr \cup {i}
  /\ irr' = irr \ {i}
  /\ UNCHANGED <<imr, base>>

-----------------------------------------------------------------------------
(* The driver.  PIC_EOI_Master and PIC_EOI_Slave send a non-specific end   *)
(* of interrupt: the chip drops its own highest priority bit in service.   *)
EndOfInterrupt(chip) ==
  /\ isr' = isr \ Highest(isr \cap chip)
  /\ UNCHANGED <<irr, imr, base>>

PIC_EOI_Master == EndOfInterrupt(Master)

(* Mutant: the command goes to the master's port.                          *)
EoiSlaveToMaster == EndOfInterrupt(Master)

PIC_EOI_Slave == EndOfInterrupt(Slave)

(* Mutant: OCW3 selects the request register.                              *)
ReadIrrInstead == irr

PIC_Read_ISR == (isr \cap Master) \cup (isr \cap Slave)

(* Initialize_8259_PIC in three parts.  ICW1 resets each chip, which also  *)
(* clears the mask the driver has just read; ICW2..ICW4 give the vectors;  *)
(* the last two writes put the saved masks back.                           *)
SendIcw1 ==
  /\ irr' = {}
  /\ isr' = {}
  /\ imr' = {}
  /\ UNCHANGED base

SendVectorBases(m, s) ==
  /\ base' = [master |-> m, slave |-> s]
  /\ UNCHANGED <<irr, isr, imr>>

RestoreMasks(saved) ==
  /\ imr' = saved
  /\ UNCHANGED <<irr, isr, base>>
=============================================================================

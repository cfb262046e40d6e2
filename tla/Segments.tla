------------------------------- MODULE Segments ------------------------------
(***************************************************************************)
(* The segment registers of the CPU, from the descriptor table of the boot *)
(* loader to that of Initialize_GDT (kernel/x86/gdt) and through the       *)
(* interrupt stubs, which save, load and restore them                      *)
(* (kernel/x86/isa/interrupt/interrupt_handler.asm).                       *)
(*                                                                         *)
(* A segment register holds a selector, and a copy of the descriptor that  *)
(* was read when the selector was loaded.  gdt_loader does not load fs and *)
(* gs: they keep the loader's selectors, which the first stub to return    *)
(* loads again, now from the kernel's table.                               *)
(***************************************************************************)
EXTENDS Descriptors

CONSTANT LoaderSelectors    \* the data selectors the boot loader may use

(* Its code segment is the entry before; neither selector is a null one.   *)
ASSUME SelectorsAssumption == LoaderSelectors \subseteq Half \ 0..15

VARIABLES
  gdt,       \* the descriptors the CPU finds: none that are known, then the kernel's
  selector,  \* the selector in each segment register
  segment,   \* the descriptor in each segment register
  tr,        \* the descriptor in the task register
  pushed     \* the selectors a stub has saved

segmentVars == <<gdt, selector, segment, tr, pushed>>

DataRegisters    == {"ds", "es", "fs", "gs"}
SegmentRegisters == DataRegisters \cup {"cs", "ss"}

EmptyGdt   == [n \in 0..5 |-> Add_GDT_Descriptor(Zero, Zero, 0, 0)]
FlatSegment(access) ==
  [base0_15 |-> 0, base16_23 |-> 0, base24_31 |-> 0,
   limit0_15 |-> 65535, access |-> access, granularity |-> 207]

LoaderCode == FlatSegment(154)
LoaderData == FlatSegment(146)
NoTask     == EmptyGdt[0]

-----------------------------------------------------------------------------
(* Loading register r with selector s: the index must lie in the table,    *)
(* and the descriptor must suit the register and the privilege level 0.    *)
(* Data registers take the null selector too.                              *)
Index(s)   == s \div 8
Rpl(s)     == s % 4
InTable(s) == ~Has(4, s) /\ Index(s) \in DOMAIN gdt

Loadable(r, s) ==
  \/ r \in DataRegisters /\ Index(s) = 0 /\ ~Has(4, s)
  \/ /\ InTable(s) /\ Index(s) # 0
     /\ LET d == gdt[Index(s)] IN
        /\ Present(d)
        /\ CASE r = "cs" -> IsCode(d) /\ Dpl(d) = 0
             [] r = "ss" -> IsData(d) /\ Has(2, d.access) /\ Dpl(d) = 0 /\ Rpl(s) = 0
             [] OTHER    -> /\ IsData(d) \/ (IsCode(d) /\ Has(2, d.access))
                            /\ Rpl(s) <= Dpl(d)

AllLoadable(new) == \A r \in DOMAIN new : Loadable(r, new[r])

Load(new) ==
  /\ selector' = [r \in SegmentRegisters |-> IF r \in DOMAIN new THEN new[r] ELSE selector[r]]
  /\ segment' = [r \in SegmentRegisters |->
                   IF r \in DOMAIN new THEN gdt[Index(new[r])] ELSE segment[r]]

-----------------------------------------------------------------------------
(* The table is filled, and lgdt tells the CPU where it is.                *)
LoadGdt ==
  /\ gdt' = Descriptors
  /\ UNCHANGED <<selector, segment, tr, pushed>>

KernelData == [r \in {"ds", "es", "ss"} |-> 16]
KernelCode == [r \in {"cs"} |-> 8]

LoadRegisters(new) == Load(new) /\ UNCHANGED <<gdt, tr, pushed>>

(* ltr marks the segment busy.                                             *)
TaskSelector == 43

TaskLoadable == Present(gdt[Index(TaskSelector)]) /\ IsTss(gdt[Index(TaskSelector)])

LoadTaskRegister ==
  /\ tr' = [gdt[Index(TaskSelector)] EXCEPT !.access = @ + 2]
  /\ gdt' = [gdt EXCEPT ![Index(TaskSelector)] = tr']
  /\ UNCHANGED <<selector, segment, pushed>>

(* The gate loads cs; the stub saves the others and takes the kernel's.    *)
StubSegments == [r \in DataRegisters \cup {"cs"} |-> IF r = "cs" THEN 8 ELSE 16]

EnterStub ==
  /\ pushed' = [r \in DataRegisters \cup {"cs"} |-> selector[r]]
  /\ Load(StubSegments)
  /\ UNCHANGED <<gdt, tr>>

(* Its end pops the saved selectors, iret that of cs.                      *)
LeaveStub == Load(pushed) /\ UNCHANGED <<gdt, tr, pushed>>

SegmentsInit ==
  /\ gdt = EmptyGdt
  /\ \E data \in LoaderSelectors :
       selector = [r \in SegmentRegisters |-> IF r = "cs" THEN data - 8 ELSE data]
  /\ segment = [r \in SegmentRegisters |-> IF r = "cs" THEN LoaderCode ELSE LoaderData]
  /\ tr = NoTask
  /\ pushed = [r \in DataRegisters \cup {"cs"} |-> 0]
=============================================================================

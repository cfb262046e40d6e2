----------------------------- MODULE Descriptors -----------------------------
(***************************************************************************)
(* Segment descriptors and interrupt gates: how the kernel packs them      *)
(* (Add_GDT_Descriptor of kernel/x86/gdt/gdt.c, Create_IDT_Entry of        *)
(* kernel/x86/isa/interrupt/idt.c) and how the CPU unpacks them.  A 32-bit *)
(* number is a record of two halves; flags are the numbers the code writes.*)
(***************************************************************************)
EXTENDS Naturals

Half   == 0..65535
Byte   == 0..255
Word32 == [hi : Half, lo : Half]

Zero   == [hi |-> 0, lo |-> 0]
AllSet == [hi |-> 65535, lo |-> 65535]

(* Whether the bit of this weight is set in n.                             *)
Has(weight, n) == (n \div weight) % 2 = 1

-----------------------------------------------------------------------------
(* Mutant: the upper bits of the limit are forgotten.                      *)
DescriptorOfShortLimit(base, limit, access, granularity) ==
  [base0_15    |-> base.lo,
   base16_23   |-> base.hi % 256,
   base24_31   |-> base.hi \div 256,
   limit0_15   |-> limit.lo,
   access      |-> access,
   granularity |-> (granularity \div 16) * 16]

Add_GDT_Descriptor(base, limit, access, granularity) ==
  [base0_15    |-> base.lo,
   base16_23   |-> base.hi % 256,
   base24_31   |-> base.hi \div 256,
   limit0_15   |-> limit.lo,
   access      |-> access,
   granularity |-> (limit.hi % 16) + (granularity \div 16) * 16]

SizeOfTss == 25 * 4 + 2 * 2

Descriptors ==
  [n \in 0..5 |->
     CASE n = 0 -> Add_GDT_Descriptor(Zero, Zero, 0, 0)
       [] n = 1 -> Add_GDT_Descriptor(Zero, AllSet, 154, 207)
       [] n = 2 -> Add_GDT_Descriptor(Zero, AllSet, 146, 207)
       [] n = 3 -> Add_GDT_Descriptor(Zero, AllSet, 250, 207)
       [] n = 4 -> Add_GDT_Descriptor(Zero, AllSet, 242, 207)
       [] n = 5 -> Add_GDT_Descriptor(Zero, [hi |-> 0, lo |-> SizeOfTss - 1], 233, 0)]

(* What the CPU makes of a descriptor.                                     *)
BaseOf(d)  == [hi |-> d.base24_31 * 256 + d.base16_23, lo |-> d.base0_15]
LimitOf(d) == [hi |-> d.granularity % 16, lo |-> d.limit0_15]

InPages(d) == Has(128, d.granularity)
Present(d) == Has(128, d.access)
Dpl(d)     == (d.access \div 32) % 4
IsCode(d)  == Has(16, d.access) /\ Has(8, d.access)
IsData(d)  == Has(16, d.access) /\ ~Has(8, d.access)
IsTss(d)   == d.access % 32 = 9

(* All 4 GB, with addresses as they are.                                   *)
IsFlat(d) ==
  BaseOf(d) = Zero /\ LimitOf(d) = [hi |-> 15, lo |-> 65535] /\ InPages(d)

-----------------------------------------------------------------------------
Create_IDT_Entry(base, sel, flags) ==
  [base_lo |-> base.lo, sel |-> sel, always0 |-> 0, flags |-> flags, base_hi |-> base.hi]

ClearEntry == [base_lo |-> 0, sel |-> 0, always0 |-> 0, flags |-> 0, base_hi |-> 0]

(* A present 32-bit interrupt gate, and the address it leads to.           *)
IsInterruptGate(e) == Has(128, e.flags) /\ e.flags % 32 = 14
TargetOf(e)        == [hi |-> e.base_hi, lo |-> e.base_lo]
=============================================================================

-------------------------- MODULE BootMappingProofs --------------------------
(***************************************************************************)
(* The boot's address space: no instruction of the loader faults, and the  *)
(* lower page is gone for good from invlpg on.  The invariant follows the  *)
(* loader's progress: which registers are set, which pages the directory   *)
(* still has, and what the TLB can hold by then.                           *)
(***************************************************************************)
EXTENDS BootMapping, TLAPS

Before   == {"load cr3", "set pse", "set pg"}
Mapped   == Before \cup {"jump", "unmap"}
Gone     == {"push arguments", "call _init", "call kmain", "Initialize_Terminal"}
Unmapped == {"invlpg"} \cup Gone

MappingInv ==
  /\ pc \in Mapped \cup Unmapped \cup {"reset"}
  /\ paging \in BOOLEAN
  /\ pc \in Before => paging = FALSE
  /\ pc \in {"jump", "unmap"} \cup Unmapped => paging = TRUE /\ pse = TRUE
  /\ pc = "set pg" => pse = TRUE
  /\ pc \in (Mapped \ {"load cr3"}) \cup Unmapped => cr3 = TRUE
  /\ pc \in Mapped => directory = Pages
  /\ pc \in Unmapped => directory = {"K_PAGE_NUMBER"}
  /\ pc \in Gone => tlb \cap LowerAddresses = {}

-----------------------------------------------------------------------------
LEMMA MappingInit == Init => MappingInv
BY DEF Init, PagingIsOff, MappingInv, Before, Mapped, Gone, Unmapped

(* What the loader and the kernel use translates as long as they use it.   *)
LEMMA LoaderTranslates ==
  ASSUME MappingInv, pc \in Mapped
  PROVE  Translates("loader")
BY DEF MappingInv, Before, Mapped, Gone, Unmapped, Translates, Walk,
   LowerAddresses, PageOf, Pages

LEMMA KernelTranslates ==
  ASSUME MappingInv, pc \in {"unmap"} \cup Unmapped, NEW a \in UpperAddresses
  PROVE  Translates(a)
<1>1. a \notin LowerAddresses
  BY DEF UpperAddresses, LowerAddresses
<1>2. paging = TRUE /\ Walk(a)
  BY <1>1 DEF MappingInv, Before, Mapped, Gone, Unmapped, Walk, PageOf, Pages
<1> QED BY <1>2 DEF Translates

(* So that each instruction of the loader is followed by the next.         *)
LEMMA NoFault ==
  ASSUME MappingInv, Loader
  PROVE  pc' = "reset" => pc = "Initialize_Terminal"
<1>1. CASE LoadDirectory \/ EnablePse \/ EnablePaging \/ JumpHigh
  BY <1>1, LoaderTranslates DEF LoadDirectory, EnablePse, EnablePaging, JumpHigh,
     Execute, Mapped, Before
<1>2. CASE Unmap \/ Invalidate \/ PushArguments \/ CallInit \/ CallKmain
  BY <1>2, KernelTranslates DEF Unmap, Invalidate, PushArguments, CallInit,
     CallKmain, Execute, Unmapped, Gone, UpperAddresses
<1>3. CASE Initialize_Terminal
  BY <1>3 DEF Initialize_Terminal, Execute
<1> QED BY <1>1, <1>2, <1>3 DEF Loader

LEMMA MappingByLoader ==
  ASSUME MappingInv, Loader
  PROVE  MappingInv'
<1> USE DEF MappingInv, Before, Mapped, Gone, Unmapped, Execute
<1>1. CASE LoadDirectory
  BY <1>1, NoFault DEF LoadDirectory
<1>2. CASE EnablePse
  BY <1>2, NoFault DEF EnablePse
<1>3. CASE EnablePaging
  BY <1>3, NoFault DEF EnablePaging
<1>4. CASE JumpHigh
  BY <1>4, NoFault DEF JumpHigh
<1>5. CASE Unmap
  BY <1>5, NoFault DEF Unmap, Pages
<1>6. CASE Invalidate
  BY <1>6, NoFault DEF Invalidate
<1>7. CASE PushArguments \/ CallInit \/ CallKmain \/ Initialize_Terminal
  BY <1>7 DEF PushArguments, CallInit, CallKmain, Initialize_Terminal
<1> QED BY <1>1, <1>2, <1>3, <1>4, <1>5, <1>6, <1>7 DEF Loader

(* Once the directory has lost the lower page, no translation of it can be *)
(* kept any more.                                                          *)
LEMMA MappingByCpu ==
  ASSUME MappingInv,
         Reboot \/ \E a \in Addresses : KeepTranslation(a) \/ DropTranslation(a)
  PROVE  MappingInv'
<1> USE DEF MappingInv, Before, Mapped, Gone, Unmapped
<1>1. CASE Reboot
  BY <1>1 DEF Reboot
<1>2. ASSUME NEW a \in Addresses, DropTranslation(a)
      PROVE  MappingInv'
  BY <1>2 DEF DropTranslation
<1>3. ASSUME NEW a \in Addresses, KeepTranslation(a)
      PROVE  MappingInv'
  <2>1. pc \in Gone => a \notin LowerAddresses
    BY <1>3 DEF KeepTranslation, Walk, PageOf
  <2> QED BY <1>3, <2>1 DEF KeepTranslation
<1> QED BY <1>1, <1>2, <1>3

LEMMA MappingNext == MappingInv /\ [Next]_vars => MappingInv'
<1> SUFFICES ASSUME MappingInv, [Next]_vars PROVE MappingInv'
  OBVIOUS
<1>1. CASE UNCHANGED vars
  BY <1>1 DEF MappingInv, vars
<1> QED BY <1>1, MappingByLoader, MappingByCpu DEF Next

LEMMA MappingCorrect == Spec => []MappingInv
BY MappingInit, MappingNext, PTL DEF Spec

(* From invlpg on nothing reaches the lower page, whatever the CPU kept or *)
(* dropped before (loader.asm:83-84).                                      *)
THEOREM LowerPageGone == Spec => []LowerPageIsGone
<1>1. MappingInv => LowerPageIsGone
  BY DEF MappingInv, LowerPageIsGone, Before, Mapped, Gone, Unmapped, Translates,
     Walk, PageOf
<1> QED BY <1>1, MappingCorrect, PTL

(* No instruction of the loader faults (loader.asm:62-97).                 *)
THEOREM NeverFaults == Spec => LoaderNeverFaults
<1>1. MappingInv /\ [Next]_vars => [pc' = "reset" => pc = "Initialize_Terminal"]_vars
  <2> SUFFICES ASSUME MappingInv, Next PROVE pc' = "reset" => pc = "Initialize_Terminal"
    OBVIOUS
  <2>1. CASE Loader
    BY <2>1, NoFault
  <2>2. CASE Reboot \/ \E a \in Addresses : KeepTranslation(a) \/ DropTranslation(a)
    BY <2>2 DEF Reboot, KeepTranslation, DropTranslation
  <2> QED BY <2>1, <2>2 DEF Next
<1> QED BY <1>1, MappingCorrect, PTL DEF Spec, LoaderNeverFaults
=============================================================================

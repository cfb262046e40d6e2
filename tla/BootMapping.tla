----------------------------- MODULE BootMapping -----------------------------
(***************************************************************************)
(* The address space during the boot (kernel/i686/loader.asm): a page      *)
(* directory of two 4 MB pages, both onto the first 4 MB of memory, the    *)
(* instructions that turn paging on and take the lower page away, and the  *)
(* first store of the kernel, to the text memory.                          *)
(*                                                                         *)
(* The CPU may keep a translation in its TLB from any moment paging makes  *)
(* it until invlpg, and may drop it at any moment.  It may keep parts of a *)
(* 4 MB page separately, so the TLB holds addresses, not pages.  There is  *)
(* no IDT yet: a fault resets the machine, and the boot starts over.       *)
(***************************************************************************)

VARIABLES
  pc,         \* the next instruction of the boot, or "reset"
  cr3,        \* the page directory is the kernel's
  pse,        \* 4 MB pages are enabled
  paging,
  directory,  \* the pages present in _pageDirectory
  tlb         \* the addresses whose translation the CPU has kept

vars == <<pc, cr3, pse, paging, directory, tlb>>

(* The addresses the boot uses: the code before paging and the text memory *)
(* in the lower page; the kernel, its stack and _pageDirectory in the      *)
(* upper one.                                                              *)
LowerAddresses == {"loader", "vga"}
UpperAddresses == {"kernel", "stack", "_pageDirectory"}
Addresses == LowerAddresses \cup UpperAddresses

PageOf(a) == IF a \in LowerAddresses THEN "identity" ELSE "K_PAGE_NUMBER"
Pages == {"identity", "K_PAGE_NUMBER"}

-----------------------------------------------------------------------------
Walk(a) == cr3 /\ pse /\ PageOf(a) \in directory

Translates(a) ==
  IF paging THEN a \in tlb \/ Walk(a) ELSE a \in LowerAddresses

(* An instruction that fetches from and accesses the given addresses.      *)
Execute(from, accessed, to) ==
  /\ pc = from
  /\ IF \A a \in accessed : Translates(a) THEN pc' = to ELSE pc' = "reset"

LoadDirectory ==
  /\ Execute("load cr3", {"loader"}, "set pse")
  /\ cr3' = TRUE
  /\ tlb' = {}
  /\ UNCHANGED <<pse, paging, directory>>

EnablePse ==
  /\ Execute("set pse", {"loader"}, "set pg")
  /\ pse' = TRUE
  /\ UNCHANGED <<cr3, paging, directory, tlb>>

EnablePaging ==
  /\ Execute("set pg", {"loader"}, "jump")
  /\ paging' = TRUE
  /\ UNCHANGED <<cr3, pse, directory, tlb>>

JumpHigh ==
  /\ Execute("jump", {"loader"}, "unmap")
  /\ UNCHANGED <<cr3, pse, paging, directory, tlb>>

(* Mutant: the upper page is taken away instead of the lower.              *)
UnmapUpper ==
  /\ Execute("unmap", {"kernel", "_pageDirectory"}, "invlpg")
  /\ directory' = IF pc' = "reset" THEN directory ELSE directory \ {"K_PAGE_NUMBER"}
  /\ UNCHANGED <<cr3, pse, paging, tlb>>

Unmap ==
  /\ Execute("unmap", {"kernel", "_pageDirectory"}, "invlpg")
  /\ directory' = IF pc' = "reset" THEN directory ELSE directory \ {"identity"}
  /\ UNCHANGED <<cr3, pse, paging, tlb>>

(* Mutant: the old translations are not invalidated.                       *)
SkipInvalidate ==
  /\ Execute("invlpg", {"kernel"}, "push arguments")
  /\ UNCHANGED <<cr3, pse, paging, directory, tlb>>

Invalidate ==
  /\ Execute("invlpg", {"kernel"}, "push arguments")
  /\ tlb' = IF pc' = "reset" THEN tlb ELSE tlb \ LowerAddresses
  /\ UNCHANGED <<cr3, pse, paging, directory>>

PushArguments ==
  /\ Execute("push arguments", {"kernel", "stack"}, "call _init")
  /\ UNCHANGED <<cr3, pse, paging, directory, tlb>>

CallInit ==
  /\ Execute("call _init", {"kernel", "stack"}, "call kmain")
  /\ UNCHANGED <<cr3, pse, paging, directory, tlb>>

CallKmain ==
  /\ Execute("call kmain", {"kernel", "stack"}, "Initialize_Terminal")
  /\ UNCHANGED <<cr3, pse, paging, directory, tlb>>

(* Its first store to VGA_MEMORY; the boot modelled here ends with it.     *)
Initialize_Terminal ==
  /\ Execute("Initialize_Terminal", {"kernel", "stack", "vga"}, "Initialize_Terminal")
  /\ UNCHANGED <<cr3, pse, paging, directory, tlb>>

-----------------------------------------------------------------------------
(* The CPU and the boot loader.                                            *)
KeepTranslation(a) ==
  /\ pc # "reset"
  /\ paging
  /\ Walk(a)
  /\ tlb' = tlb \cup {a}
  /\ UNCHANGED <<pc, cr3, pse, paging, directory>>

DropTranslation(a) ==
  /\ pc # "reset"
  /\ a \in tlb
  /\ tlb' = tlb \ {a}
  /\ UNCHANGED <<pc, cr3, pse, paging, directory>>

PagingIsOff ==
  /\ pc = "load cr3"
  /\ cr3 = FALSE /\ pse = FALSE /\ paging = FALSE
  /\ tlb = {}

(* Mutant: the first entry of the directory is empty.                      *)
InitNoIdentity == PagingIsOff /\ directory = {"K_PAGE_NUMBER"}

Init == PagingIsOff /\ directory = Pages

(* The boot loader loads the image again.                                  *)
Reboot ==
  /\ pc = "reset"
  /\ pc' = "load cr3"
  /\ cr3' = FALSE /\ pse' = FALSE /\ paging' = FALSE
  /\ directory' = Pages
  /\ tlb' = {}

Loader ==
  \/ LoadDirectory \/ EnablePse \/ EnablePaging \/ JumpHigh
  \/ Unmap \/ Invalidate
  \/ PushArguments \/ CallInit \/ CallKmain
  \/ Initialize_Terminal

Next ==
  \/ Loader
  \/ \E a \in Addresses : KeepTranslation(a) \/ DropTranslation(a)
  \/ Reboot

Spec == Init /\ [][Next]_vars /\ WF_vars(Loader)

-----------------------------------------------------------------------------
(* Properties.                                                             *)

(* The loader's own code never faults, whatever the TLB keeps or drops:    *)
(* paging starts with the page it runs from mapped, and it has left that   *)
(* page when it unmaps it (loader.asm:62-97).                              *)
LoaderNeverFaults ==
  [][pc' = "reset" => pc = "Initialize_Terminal"]_vars

(* From invlpg on the lower page is gone, from the directory and from the  *)
(* TLB alike: no stale translation makes a null pointer work by chance     *)
(* (loader.asm:83-84).                                                     *)
LowerPageIsGone ==
  pc \in {"push arguments", "call _init", "call kmain", "Initialize_Terminal"} =>
    \A a \in LowerAddresses : ~Translates(a)

(* Every boot gets to the kernel (loader.asm:62-97).                       *)
KmainIsReached ==
  pc = "load cr3" ~> pc = "Initialize_Terminal"

(* "It's ok to unmap this page later." (loader.asm:46)                     *)
UnmappingIsHarmless == pc # "reset"
=============================================================================

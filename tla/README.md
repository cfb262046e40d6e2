# FreeMicroNix: verification models

FreeMicroNix is a small 32-bit x86 kernel: a Multiboot loader, drivers for the
two 8259A interrupt controllers, the 8254 timer, the CMOS clock, the VGA text
screen, the speaker and the keyboard controller (for rebooting), and a small C
library. This directory holds TLA+ models of these parts, the TLC
configurations that check them on small instances, and TLAPS proofs of what
matters most. Paths below are relative to `src/`.

One CPU executes one kernel thread (`kmain`). All concurrency comes from
interrupts, from the devices, and from the CPU itself (translations it keeps or
drops). What is hard is therefore in protocols between the kernel and the chips
and in what an interrupt may do between two instructions of the main thread.

## 1. Inventory

| Part | Code | State | Operations | Interacts with |
|---|---|---|---|---|
| Interrupt dispatch | `kernel/x86/isa/interrupt/interrupt.c`, `interrupt_handler.asm`, `kernel/kernel/panic.c` | `Interrupt_Routines`, the IDT, the interrupt flag, saved frames | stubs, `Interrupt_Handler`, `IRQ_Handler`, `Exception_Handler`, `panic`, install and uninstall, `Enable_`/`Disable_`/`Pause_Interrupts` | reads ISR and sends EOIs through the 8259 driver; calls the routines of timer and clock |
| Interrupt controllers | `kernel/x86/isa/8259.c` | in the chips: requests, in-service bits, masks, vector bases, initialization stage, register to be read | `Initialize_8259_PIC`, `PIC_EOI_*`, `PIC_Read_*`, `Enable_`/`Disable_`/`Acknowledge_8259_PIC` | ports 0x20, 0x21, 0xA0, 0xA1, shared by main thread and handlers |
| Boot | `kernel/kernel.c`, `interrupt/idt.c` | progress of `kmain`, the IDT | timer, GDT, IDT, controllers, gates, `sti`, wait, beep, halt | everything |
| Boot mapping | `kernel/i686/loader.asm` | page directory, control registers, TLB | paging on, jump, unmap, call `kmain` | the CPU; the screen's memory lies in the page it unmaps |
| Timer | `kernel/x86/isa/8254.c` | `timer_ticks` (64 bits), `timer_seconds`; channel 0 of the chip | `PIT_8254_Handler`, `PIT_8254_Wait`, `PIT_8254_Phase` | handler and waiter share the counter; `hlt` |
| Speaker | `kernel/x86/sound/speaker.c` | port 0x61, channel 2 | `Speaker_Beep` | waits with the timer; shares the timer chip's command port |
| Reboot | `kernel/kernel/reboot.c` | the keyboard controller's two buffers | `reboot`, `keyboard_reboot` | waits with the timer |
| Screen | `kernel/x86/video/vga.c` | position, color, text memory, cursor | print, `kprintf`, scroll, backspace, clear | used by all; not reentrant |
| Clock and NMI switch | `kernel/x86/rtc.c`, `nmi.c` | CMOS selection, registers A to C, `rtc_ticks`, `rtc_current`, `nmi_enabled` | `Initialize_RTC`, `RTC_Handler`, `RTC_Update`, `NMI_*` | port 0x70 shared by main thread and handler |
| C library | `libc/string`, `libc/stdlib` | `strtok`'s static pointer, the caller's memory | 16 memory and string functions (`strreverse` included), 2 tokenizers, 5 conversions | the kernel uses `strlen`, `itoa`, `memset` |
| Descriptor tables | `kernel/x86/gdt`, `interrupt/idt.c` | GDT, TSS, IDT, the CPU's segment and task registers | `Initialize_GDT`, `Install_IDT`, `Create_IDT_Entry` | once, with interrupts off; each stub saves, loads and restores segment registers |
| Others | `cpuid.c` (not built), boot sector (prints a message), `abort`, `exit`, `crt*.asm`, headers of constants | | | |

What makes each part correct, and what could break it, is the list of hazards in
`PROJECT.json`: each stands at its line with the properties that watch it.

## 2. Modules

| Module | Models | How |
|---|---|---|
| `Pic8259` | the two chips, as transactions | requests `irr`, in-service `isr`, masks `imr`, vector bases; priorities; line 2 is the cascade; lines 8..15 are the slave's |
| `IrqDispatch` | stubs and `interrupt.c` over `Pic8259` | one action per step between which the code, the chips or a device can move; `pc` is the place in the service code, `stack` the saved frames, `bus` the acknowledge cycle. A device raises and withdraws requests at any time (this makes spurious IRQ7 and IRQ15), exceptions come anywhere, the NMI included |
| `IrqService` | what the interrupt path promises | pending lines become served lines, one at a time, each served to its end |
| `IrqDispatchProofs` | proofs about `IrqDispatch` | |
| `Descriptors` | `Add_GDT_Descriptor`, `Create_IDT_Entry` and what the CPU decodes | a descriptor is the record of its bit fields, a 32-bit number two halves; the CPU's side reads base, limit, type, privilege and presence back |
| `Segments` | the GDT in use and the segment registers | a register holds a selector and the descriptor read when it was loaded, so that a register may be older than the table; loading checks what the CPU checks; `pushed` is what a stub has saved |
| `PitChannels` | the channels of the 8254, byte by byte | `channels` says which byte of a count comes next; `PIT_8254_Phase` and `Speaker_Beep` send theirs |
| `KernelBoot` | `kmain` above `IrqDispatch`, `Segments` and `PitChannels` | `kpc` is the step `kmain` has reached: the bytes to the timer, `Initialize_GDT` register by register, `Install_IDT`, the three phases of `Initialize_8259_PIC`, the gates as packed by `Create_IDT_Entry` and decoded by the CPU, `sti`, the two waits and the speaker. The timer interrupts only while its channel counts. The 64-bit counters are their difference `remaining` |
| `KernelBootProofs` | proofs about `KernelBoot` | |
| `Pit8254` | handler and `PIT_8254_Wait` | the counter is two halves, each read is two loads in either order; the test and `hlt` are apart, so a tick may fall between them and be slept through |
| `Delay` | what a wait promises | |
| `Reboot` | `reboot.c` over `Pit8254` | waits, turns interrupts off (no more ticks), drains and asks the keyboard controller |
| `TimerProofs` | proofs about `Pit8254` and `Reboot` | |
| `PicPorts` | `8259.c`, port access by port access | the initialization stage of each chip, the register the next read shows, and a main thread interrupted between any two accesses; enabling a line of the slave enables line 2 afterwards (`EnableCascade`) |
| `PicPortsProofs` | proofs about `PicPorts` | |
| `BootMapping` | `loader.asm` | which addresses translate, with a TLB that keeps any of them, or parts of a 4 MB page, as long as it likes; a fault before the IDT exists resets the machine |
| `BootMappingProofs` | proofs about `BootMapping` | |
| `VgaTerminal`, `MCVgaTerminal` | `vga.c` | operations are functions on a screen record, an action is one call; `lines` is the text accepted so far. `MCVgaTerminal` gives the texts and formats printed |
| `VgaTerminalProofs` | proofs about `VgaTerminal` | |
| `Cmos` | `Initialize_RTC`, `RTC_Handler`, `NMI_*` and the clock's ports | an action per port access; the selection, the periodic flag, its edge on IRQ8 |
| `RtcTime` | the clock's formats and the conversion of `RTC_Update` | functions on the six bytes read |
| `RtcUpdate`, `MCRtcUpdate` | `RTC_Update` with `Cmos` under it | reads register by register until two readings agree, while the clock counts, starts its fields again and carries, and the handler moves the selection; then converts. The clock is a step apart from the code, with history variables for what it has shown. `rtc_current` is a null pointer: both that its page is mapped and that it is not are modelled |
| `RtcUpdateProofs` | proofs about `RtcUpdate` | |
| `LibcString` | `libc/string`, `strreverse` | one loop iteration per step on a small memory |
| `LibcTokens` | `strtok`, `strtok_r` | a call per step, in any order |
| `LibcNumbers` | `itoa`, `uitoa`, `u64toa`, `atoi`, `abs` | a digit per step, with the widths of `int` and of the 64-bit type |
| `Libc` | the three above as one machine | |
| `LibcProofs` | proofs about `Libc` | |

`KernelBoot` extends `IrqDispatch` (which extends `Pic8259`), `Segments` (which
extends `Descriptors`) and `PitChannels`; `PicPorts` extends `Pic8259` with the
ports; `Reboot` extends `Pit8254`; `RtcUpdate` extends `Cmos` and `RtcTime`.
`IrqDispatch` instantiates `IrqService` and `Pit8254` instantiates `Delay` as
refinements. Each proof module extends the module it is about
(`TimerProofs` extends `Reboot`), and `KernelBootProofs` also `IrqDispatchProofs`. Definitions keep
the source's names. An operator whose comment begins with "Mutant" is a
plausible wrong version of the definition after it; `PROJECT.json` says which
property it breaks.

External parts (chips, CPU, devices, callers) are modelled from the way the code
uses them and are marked external in the map.

## 3. Runs

`tlc -config <cfg> <module>`; twelve runs, all together about three minutes.

| Run | Module, cfg | Shows | Distinct states |
|---|---|---|---|
| `irq` | `IrqDispatch`, `Irq.cfg` | every interrupt taken is ended exactly, on the right chip; routines run for genuine requests only; no nesting; a panic is final; services complete; refinement of `IrqService`; the inductive invariant of the proofs | 232,064 |
| `boot` | `KernelBoot`, `KernelBoot.cfg` | the code runs in flat segments all the time; the timer keeps its rate; only exceptions panic the kernel; what `kmain` hands over at `sti` is what `IrqDispatch` starts from; masks kept; each tick counted once; the boot ends | 74,864 |
| `pit_wait` | `Reboot`, `Reboot.cfg` | waits never early (refinement of `Delay`) and always in the end; exact seconds; the reboot signal is taken and resets the CPU | 313,554 |
| `pit_carry` | `Pit8254`, `PitCarry.cfg` | **violated**: a carry between the loads makes a wait return early | |
| `pic_ports` | `PicPorts`, `PicPorts.cfg` | initialization words in order; no handler meets a half initialized chip; commands end every interrupt; `IRQ_Handler` reads the register it selected | 11,004 |
| `pic_enable` | `PicPorts`, `PicEnable.cfg` | **violated**: enabling a line leaves it masked | |
| `boot_mapping` | `BootMapping`, `BootMapping.cfg` | the loader never faults, the lower page is gone from directory and TLB, `kmain` is reached | 139 |
| `boot_unmapping` | `BootMapping`, `BootUnmapping.cfg` | **violated**: the unmapped page is used afterwards | |
| `vga_text` | `MCVgaTerminal`, `VgaText.cfg` | until the screen is full it shows the accepted text, and nothing else is written | 211,488 |
| `vga_scroll` | `MCVgaTerminal`, `VgaScroll.cfg` | **violated**: after that, new text cannot be seen | |
| `cmos` | `MCRtcUpdate`, `RtcUpdate.cfg` | no CMOS byte is overwritten; the clock's interrupts never stop coming; two undisturbed readings within a minute that agree are of one instant; the conversion is right in all formats but for the hours it exchanges | 299,800 |
| `libc` | `Libc`, `Libc.cfg` | every function returns, answers and changes memory as it should; tokens in order; conversions exact | 401,894 |

### Bounds

* `irq`: two lines of each chip, the lowest and the highest: IRQ0 and IRQ8 as
  ordinary ones that outrank others, IRQ7 and IRQ15 as those a withdrawn request
  shows up as. All four may withdraw. One exception vector, both system calls, two
  routines that come and go. More lines only repeat the relations between these.
* `boot`: the BIOS may leave any masks and any pending requests of lines 0, 7 and
  15; an NMI at any instruction; waits of 2 ticks (one tick per `hlt` and one
  slept through). `LoaderSelectors` are the data selectors of GRUB legacy (0x10)
  and GRUB 2 (0x18), which `fs` and `gs` keep after `gdt_loader`: in the kernel's
  table one is its data segment, the other its user code segment.
* `pit_wait`: halves of 16 values, 12 ticks, so there is no carry; waits of 0, 1,
  3 and 5 ticks; a second of 4 ticks; two keys pressed. `pit_carry`: halves of 4
  values, so that a carry happens.
* `pic_ports`: two masks per controller, chosen so that the bytes the swapped
  `outb` calls send by mistake stay harmless commands; `pic_enable` uses one.
* `vga_*`: 3 columns, 2 rows, tab stops of 2. The text memory has 5 rows (`Rows`),
  6 where text is to leave the screen. A print begins in row `LastRow` or before
  and ends within the memory: rows 0 and 1 are the screen, and from 3 on text
  leaves it. Texts and formats (`Texts`, `Formats`) of up to 3 characters and
  directives (`Longest`), of the characters in `Printed`, that meet the margin in
  every column. `UintSize` is larger than every index, and small enough for an
  underflow to show.
* `cmos`: of the six fields the seconds and the hours are shown (`Shown`): the one
  every update changes, and one that changes by a carry. Both have two values
  (`Highest`), so that a minute is two seconds and each field starts again, and
  carries, within a call; the clock moves on as often as it likes. It runs only
  while `RTC_Update` reads, and shows any time at a call. `TimeIsOfOneInstant`
  counts readings whose seconds were read less than a minute apart; without this
  bound the run refutes it, as the same seconds may come back. The day would be
  compared with any result, as the loop is modelled in any case. What
  is read of another register, or in an update, is one value that may look like a
  time: the property speaks of readings without any. `rtc_ticks` is not counted
  (`TickSize` 1), as nothing depends on it. The conversion is computed for 24
  moments, one in each hour, with fields of one and of two digits, in the four
  formats.
* `libc`: 5 cells, two characters (one delimiter, one above 127) and NUL, every
  pointer and every size; an unsigned `int` of 32 values (`UintSize`), numbers
  written to any of the bases 2, 10, 16 and, as invalid ones, 1 and 17; texts of up
  to 3 digits for `atoi`.

### Fairness

Only what hardware and CPU do: the CPU executes what it has begun (weak fairness
of service code, handlers, loops), completes an acknowledge cycle, and accepts a
request while interrupts are on. In `RtcUpdate` accepting is strongly fair,
because the CPU looks at its interrupt line after every instruction; the clock
ticks, and the handler and the main thread go on (weak fairness). Nothing makes
an update of the clock end, so that `RTC_Update` may poll for ever: no property
says that it returns. In `KernelBoot` the
main thread is strongly fair: interrupts come at a finite rate and do not starve
it. The timer ticks for ever, as it is programmed in a repeating mode. The
keyboard controller looks at its input once its output has been read. Devices
other than the timer, exceptions, and callers are under no fairness.

## 4. Proofs

TLAPS proves these for every value of the constants that the named assumptions
allow.

`IrqDispatchProofs`, for all lines, spurious lines, exceptions and routines:

* `TypeCorrect`, `Invariance`: `TypeOK` and the inductive invariant `IInv`. The
  properties are not inductive: that an EOI ends the right interrupt depends on
  what is in service at every place of the service code. `IInv` says exactly
  that: at each `pc`, the in-service set is empty, or the current line with its
  cascade, or the cascade alone, and the stack holds the one context interrupted;
  while the acknowledge cycle runs, what the chips have committed to.
* `InterruptsAreEnded`, `SpuriousIrqsAreRecognised`, `EoisAreRight`, `NoNesting`
  follow from `IInv` state by state; `PanicStops` from `IInv` step by step.
* `Refinement`: with `irr` as pending and `isr \ {Cascade}` as served, initial
  states map to initial states and every step is a step or a stutter of
  `IrqService`.

`TimerProofs`, for every word size, delay and length of a second:

* `TypeCorrect`; `SecondsCounted`, while the 64-bit counter does not wrap
  (`Uptime < Word * Word`).
* `NeverEarlyInShortUptime` and `WaitImplementsDelay`, if the counter stays below
  one word (`Uptime < Word`, about 49 days at 1000 Hz): the value assembled from
  two loads then lies between the counter before the first and after the second.
  Beyond that the property is false (`pit_carry`).
* `SignalTaken`; the status tested is old, but only `keyboard_reboot` fills the
  input buffer.

`KernelBootProofs`, for all devices, requests, masks, loaders and waits:

* `BootInvariance`: until `sti` the machine is quiet (`Quiet`: interrupts off,
  nothing in service, no acknowledge cycle, and an exception ends in a panic or a
  reset), and from `sti` on `IInv` holds; `MaskInv` says where the masks of the
  BIOS are, in `masks` between ICW1 and the last two writes, else in the chips.
* `HandsOver` is its second half: the gates that the CPU decodes from the table
  `Create_IDT_Entry` has filled are those `IrqDispatch` starts from (lemma
  `KernelTable`), and no step of `kmain` disturbs the invariant afterwards. So the
  theorems of `IrqDispatchProofs` about states hold of the booted kernel.
* `MasksAreKept`: `NoMaskedLineInService`.
* `TicksAreCounted`: `EveryTickIsCounted`, from `TickInv`, which says where a tick
  is on its way from the chips to `PIT_8254_Handler`.
* `TimerStaysProgrammed`: `TimerKeepsItsRate`, from the byte the channel waits for.
* `SegmentsAreKept` and `FaultsAreGenuine`: `SegmentsStayFlat`,
  `PanicOnlyOnException`. `SegInv` says which selectors the registers and the
  stub's saved copies can hold at each step of the boot, and that whatever table a
  register was loaded from, it got a flat segment. `FaultsAreGenuine` has a
  hypothesis, `LoaderFits`: the selectors the loader left in `fs` and `gs` lead to
  segments of the kernel's table that these registers may hold. GRUB's (0x10 and 0x18) do; for one beyond
  the table the first stub would fault, and the theorem would be false.

`BootMappingProofs`: `LowerPageGone` and `NeverFaults`, from an invariant that
follows the loader's progress: registers, directory, and what the TLB can hold.

`PicPortsProofs`, for every set of devices, every mask the BIOS may leave, and the
main thread interrupted between any two port accesses. One invariant, `PortsInv`,
gives all five theorems:

* while `Initialize_8259_PIC` runs, `Sent` says how many of its ten bytes have gone
  out and what each chip has made of them (`HandlersMeetReadyChips`,
  `ChipsAreProgrammed`);
* of every other operation, that what it has still to send is harmless
  (`Harmless`): a command that selects a register or ends an interrupt, or a mask;
* of the handler, either that it is reading ISR, with the register it selected
  still shown (`Checking`), or which EOIs are still to come and which bits they end
  (`Ending`) (`InServiceIsRead`, `InterruptsAreEnded`).

`RtcUpdateProofs`:

* `CmosKept`: between cli and sti the handler does not run and the selection is the
  one just made; elsewhere nobody writes.
* `ReadingsAreOfOneInstant`. A reading reads the seconds first. If the next one,
  less than a minute later, finds the same seconds, then no update has ended
  between the two reads, so that all the first has read, and what the second
  agrees with, is of that instant (`ReadingInv`). The invariant follows the
  updates since the seconds were read (`elapsed`), which the seconds show modulo a
  minute, and what has been stored if there was none. It bounds neither how often
  the handler comes in nor the updates after the seconds of the second reading;
  the length of the minute is any. For a minute and more the claim is false, see
  section 5.
* `ConversionIsExact`: in each format every time of two-digit fields is converted
  to itself, but for noon and midnight in the 12-hour formats (section 5).
  `TimesAreConverted` says that this is what the call has done.

`VgaTerminalProofs`, for every size of screen and memory, all texts and formats of
the characters the kernel prints, and any mixture of operations: `TypeCorrect`,
`TextIsShown` and `MemoryBehindIsKept`. The invariant is `Shows` (each accepted
line is in its row, up to the margin, and what follows it is blank) with the row in
the memory. Printing, `kprintf`, backspacing and clearing are folds; each is a
chain of `Rounds`, and what holds before the first round and is kept by each one
holds after the last: if not, there would be a least round after which it fails.
`Terminal_Clear` is the interesting one: it sends more blanks than the visible part
has cells, and yet nothing lands behind it, because the margin swallows one in
every row.

`LibcProofs`, for every memory, every set of characters, every width of `int` and
every call the contracts allow:

* `PromisesAreKept`: each of the 16 string and memory functions has a loop
  invariant that says what it has read and written so far (`MemcpyInv`,
  `MemmoveInv`, ...); `StringInv` is all of them. `TypeCorrect` follows with what
  the invariants say of the pointers.
* `TokensAreInOrder`: at every moment the tokens of a tokenizer's string are those
  returned, followed by those of what is left (`OnItsWay`). A call takes the first
  of what is left; the other tokenizer's string shares no cell (`TextsApart`); the
  tokens of a string, defined by rank, are put one after another with lemmas on the
  ranks of finite sets of integers.
* `NumbersAreExact`: while digits come out, what is left and the digits written are
  worth the number (`Written`, `IsWorth`); while they are read, the same modulo
  `UintSize` (`WhatIsRead`). The smallest `int` is exempt, as its negation is
  undefined in C.

Assumptions used are those named in the modules, and TLC evaluates them on every
run. Most only say that a constant is of its kind. These say more:

* `TimerAssumption`: the timer is on line 0.
* `SelectorsAssumption`: the loader's data selectors are at least 16, as its code
  segment is the entry before, and neither is the null one.
* `PicPortsAssumption`: lines 8 and 9 are not among those enabled and disabled,
  and the BIOS has line 9 masked. `Enable_8259_PIC` and
  `Disable_8259_PIC` exchange the operands of `outb`, so the mask is the port
  written to; without this it could be a command port, where 161 is a priority
  rotation, which the chips' model leaves out. Only `Enable_Interrupt`
  and `Disable_Interrupt` call them, and nothing calls those.
* `CharactersAssumption`, `PrintedAssumption`: what is printed holds no tab,
  backspace or carriage return, which is so of every text in the source, and is not
  so long that a row number wraps around.
* `NumbersAssumption`: the width of `int` is even, so that it splits into negative
  and other numbers.

Each proof has one step per action; leaves cite the definitions they use.

Not proved, because liveness and ENABLED are out of the prover's reach:
`ServiceCompletes`, `BootCompletes`, `WaitReturns`, `RebootResets`,
`KmainIsReached`, `ClockKeepsTicking`, `CallsReturn`. Every other property of a
passing run is stated by a theorem. `NeverEarly` and `ImplementsDelay` are proved
under `Uptime < Word` only, as said above. Induction over data is not available as
a rule; where a fold or a run of cells needed it, the proof takes the least
counterexample, from the well-founded order on the natural numbers.

## 5. Findings

* `kernel/i686/loader.asm:83`: the page with the text memory (0xB8000), and with
  the Multiboot information, is unmapped before it is used, although the comment
  says it is fine. The first store of `Initialize_Terminal` resets the machine.
  The other modules assume that the memory they touch is mapped.
* `kernel/x86/isa/8254.c:51`: the torn read of `timer_ticks`.
* `kernel/x86/isa/8259.c:88`: `outb` with its operands swapped, also in lines 95,
  107, 114 and 123-128.
* `kernel/x86/video/vga.c:107`: scrolling without taking the row back.

Seen while modelling, without a run of its own (mostly, no document says otherwise
or the code is never reached):

* `interrupt.c:182` drops vectors of 48 and more, so the routines of the system
  calls 120 and 121 would never run. The flags of vector 121 in line 252, 0xBE,
  are no gate of any type (bit 4 is set; the comment above them spells 0xEE): INT
  121 is a general protection fault, and a panic. Lines 101 and 110 test the
  vector instead of the code segment; line 144 prints three arguments that are
  not passed.
* `gdt.c:94`: the descriptor of the task state segment has base 0, not the
  address of `tss_entry`; a change of privilege would take its stack from there.
  `USER_DS` (`interrupt.h:61`), 0x13, is the kernel's data segment with privilege
  3.
* `gdt_loader.asm:26` leaves `fs` and `gs` with the boot loader's selectors, which
  the first stub loads again from the kernel's table; this goes well with the
  selectors of GRUB, and would be a fault for one beyond the table.
* `rtc.c:61` writes through `rtc_current`, which is never set, a page fault where
  the page is unmapped. `last_day` is compared and never assigned, so that the
  loop of line 99 may go on, or stop with a day that has changed. Noon and
  midnight are exchanged in the 12-hour formats (line 122). Line 133 moves the
  pointer by 2000 records instead of the year by 2000, and line 134 then works on
  the memory there. `RTC_Handler` unmasks NMIs that were masked; `nmi.c:29` leaves `nmi_enabled` set. The calls in `kmain` are
  commented out.
* The loop of `rtc.c:98` compares two readings to find out whether the clock moved
  on in between, which is not enough if the thread is kept for a minute or more.
  With 30 seconds read at 10:00:30, 1 minute at 10:01:10, 11 hours at 11:00:00, and
  then 30 seconds at 11:00:30, 1 minute and 11 hours at 11:01:00, both readings say
  11:01:30, a time the clock has not shown. `TimeIsOfOneInstant` is bounded to less
  than a minute between the reads of the seconds.
* `speaker.c:8` is commented "Set frequency to 5 KHz", and `README:15` of the
  repository lists the speaker's driver among the working features; but the line
  sends one of the two bytes of channel 2's count, so the channel stands still and
  there is no tone. `PitChannels` shows the channel waiting for its other byte; no
  run has this as a property. `8254.c:33`: below 19 Hz the divisor does not fit.
* `vga.c:88` drops the character that meets the margin, so of `Terminal_Clear`'s
  characters some are lost and the last cells keep their text; line 102 sets the
  row, not the column, to 0; line 96 may leave the column beyond 80; line 82
  spreads a character above 127 over the attribute; `Terminal_Print_Int` writes
  to a string literal; `kprintf("%u")` of a negative number needs 21 bytes of 20.
* `itoa` of a negative number in base 16 shows it extended to 64 bits;
  `strstr("", "")` is a null pointer; `atoi` knows no sign.
* `loader.asm:108` reserves no memory for the stack.

## 6. Not modelled

* `tss_setup` and `tss_set_kernel_stack`: they fill a segment that the CPU never
  reads, as the kernel never leaves privilege level 0. The mode switch routines
  (`interrupt.c:99-114`), which no vector leads to.
* Control characters inside printed strings are defined in `VgaTerminal` but not
  among the inputs: the kernel prints none but newlines. `Terminal_Print_Int`
  writes to a string literal, with no effect the language defines.
* The size of the memory that `kmain` computes and prints, and the texts of all
  messages.
* `cpuid.c`, which is not built; the boot sector, which prints a message; `abort`,
  `exit`, `putchar` and start-up code, which do nothing or call what does not
  exist; the headers of constants (`ascii.h`, `multiboot.h`, `vga.h`, port
  numbers); build files and linker script.

## 7. Plan

Done: the interrupt path, its refinement and proofs; the boot with descriptor
tables, segment registers and timer channels, and its proofs; the timer with
reboot and proofs; the controllers' ports and proofs; the mapping and proofs; the
screen and proofs; the clock, the reading of the time, its conversion, and proofs;
the C library and proofs.

All safety properties of the passing runs are proved. Next:

1. Seconds and waits beyond one word: what `PIT_8254_Wait` still promises when the
   counter carries once (it returns, and early by at most one carry).
2. `tss_setup` and `tss_set_kernel_stack`, once there is a privilege level 3 that
   would use the segment.
3. The tables of `PIT_8254_Phase` for every rate, with the divisor's two bytes.

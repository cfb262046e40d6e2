------------------------------- MODULE Pit8254 -------------------------------
(***************************************************************************)
(* The timer of the kernel (kernel/x86/isa/8254.c): PIT_8254_Handler, which*)
(* runs at each timer interrupt, and PIT_8254_Wait, which the main thread  *)
(* runs in between.  They share timer_ticks, a 64-bit volatile counter on  *)
(* a 32-bit processor: the handler cannot be interrupted, but each read in *)
(* PIT_8254_Wait is two loads of 32 bits, in the order the compiler likes, *)
(* and the handler may run between them.                                   *)
(***************************************************************************)
EXTENDS Naturals

CONSTANTS
  Word,       \* the values of one half of the counter, 2^32 in the code
  Delays,     \* the arguments of PIT_8254_Wait
  Second,     \* the ticks of a second, 1000 in the code
  Uptime      \* bound: the number of ticks in a run

ASSUME PitAssumption ==
  /\ Word \in Nat \ {0, 1}
  /\ Delays \subseteq Nat
  /\ Second \in Nat \ {0}
  /\ Uptime \in Nat

VARIABLES
  hi, lo,         \* the halves of timer_ticks
  timer_seconds,
  pc,             \* where PIT_8254_Wait is
  ticks,          \* its argument
  high, low,      \* the halves it has loaded, or NotLoaded
  eticks,         \* the tick it waits for
  deadline        \* history: the tick before which it may not return

counters == <<hi, lo, timer_seconds>>
locals   == <<pc, ticks, high, low, eticks, deadline>>
vars     == <<counters, locals>>

NotLoaded == Word

timer_ticks == hi * Word + lo
Loaded      == high * Word + low

Points == {"out", "entry", "test", "hlt", "asleep"}

TypeOK ==
  /\ hi \in 0..Word-1 /\ lo \in 0..Word-1
  /\ timer_seconds \in Nat
  /\ pc \in Points
  /\ ticks \in Nat
  /\ high \in 0..Word /\ low \in 0..Word
  /\ eticks \in Nat /\ deadline \in Nat

-----------------------------------------------------------------------------
Increment ==
  /\ lo' = (lo + 1) % Word
  /\ hi' = IF lo + 1 = Word THEN (hi + 1) % Word ELSE hi

(* Mutant: the second is tested before the increment.                      *)
CountBeforeTick ==
  /\ timer_ticks < Uptime
  /\ Increment
  /\ timer_seconds' = IF timer_ticks % Second = 0
                      THEN timer_seconds + 1 ELSE timer_seconds
  /\ pc' = IF pc = "asleep" THEN "test" ELSE pc
  /\ UNCHANGED <<ticks, high, low, eticks, deadline>>

(* The timer interrupt.  It wakes the CPU only from a hlt that has begun.  *)
PIT_8254_Handler ==
  /\ timer_ticks < Uptime
  /\ Increment
  /\ timer_seconds' = IF (timer_ticks + 1) % Second = 0
                      THEN timer_seconds + 1 ELSE timer_seconds
  /\ pc' = IF pc = "asleep" THEN "test" ELSE pc
  /\ UNCHANGED <<ticks, high, low, eticks, deadline>>

(* The end of a run: later ticks still wake the CPU but are not counted.   *)
UncountedTick ==
  /\ timer_ticks = Uptime
  /\ pc = "asleep"
  /\ pc' = "test"
  /\ UNCHANGED <<counters, ticks, high, low, eticks, deadline>>

Tick == PIT_8254_Handler \/ UncountedTick

-----------------------------------------------------------------------------
(* PIT_8254_Wait: eticks = timer_ticks + ticks, and the loop with its hlt. *)
Call(t) ==
  /\ pc = "out"
  /\ pc' = "entry"
  /\ ticks' = t
  /\ deadline' = timer_ticks + t
  /\ high' = NotLoaded
  /\ low' = NotLoaded
  /\ UNCHANGED <<counters, eticks>>

LoadHigh ==
  /\ pc \in {"entry", "test"}
  /\ high = NotLoaded
  /\ high' = hi
  /\ UNCHANGED <<counters, pc, ticks, low, eticks, deadline>>

LoadLow ==
  /\ pc \in {"entry", "test"}
  /\ low = NotLoaded
  /\ low' = lo
  /\ UNCHANGED <<counters, pc, ticks, high, eticks, deadline>>

ReadDone(here) ==
  /\ pc = here
  /\ high # NotLoaded
  /\ low # NotLoaded
  /\ high' = NotLoaded
  /\ low' = NotLoaded

SetTarget ==
  /\ ReadDone("entry")
  /\ eticks' = Loaded + ticks
  /\ pc' = "test"
  /\ UNCHANGED <<counters, ticks, deadline>>

(* Mutant: the loop ends at the last tick instead of after it.             *)
TestOneEarly ==
  /\ ReadDone("test")
  /\ pc' = IF eticks > Loaded + 1 THEN "hlt" ELSE "out"
  /\ UNCHANGED <<counters, ticks, eticks, deadline>>

(* Mutant: the loop condition ends up as equality.                         *)
TestForEquality ==
  /\ ReadDone("test")
  /\ pc' = IF eticks # Loaded THEN "hlt" ELSE "out"
  /\ UNCHANGED <<counters, ticks, eticks, deadline>>

Test ==
  /\ ReadDone("test")
  /\ pc' = IF eticks > Loaded THEN "hlt" ELSE "out"
  /\ UNCHANGED <<counters, ticks, eticks, deadline>>

Halt ==
  /\ pc = "hlt"
  /\ pc' = "asleep"
  /\ UNCHANGED <<counters, ticks, high, low, eticks, deadline>>

Init ==
  /\ hi = 0 /\ lo = 0
  /\ timer_seconds = 0
  /\ pc = "out"
  /\ ticks = 0
  /\ high = NotLoaded /\ low = NotLoaded
  /\ eticks = 0
  /\ deadline = 0

WaitStep == LoadHigh \/ LoadLow \/ SetTarget \/ Test \/ Halt

Next ==
  \/ Tick
  \/ \E t \in Delays : Call(t)
  \/ WaitStep

(* The timer, in rate mode, keeps ticking and the CPU keeps going.         *)
Spec == Init /\ [][Next]_vars /\ WF_vars(Tick) /\ WF_vars(WaitStep)

-----------------------------------------------------------------------------
(* Properties.                                                             *)

(* PIT_8254_Wait never returns before its time: "Wait for 2 seconds"       *)
(* (speaker.c:10).                                                         *)
NeverEarly ==
  [][pc = "test" /\ pc' = "out" => timer_ticks >= deadline]_vars

(* timer_seconds counts the whole seconds of timer_ticks (8254.c:42-46).   *)
SecondsAreExact ==
  timer_seconds = timer_ticks \div Second

(* A wait for a tick that comes ends (8254.c:49-56), although the last     *)
(* tick it needs may fall between its test and its hlt and be slept        *)
(* through: the tick after it wakes the CPU again.                         *)
WaitReturns ==
  (pc = "test" /\ eticks <= Uptime) ~> pc = "out"

Caller == INSTANCE Delay WITH
  now     <- timer_ticks,
  waiting <- pc # "out"

(* PIT_8254_Wait implements the delay it promises.                         *)
ImplementsDelay == Caller!Spec
=============================================================================

------------------------------ MODULE TimerProofs ----------------------------
(***************************************************************************)
(* Proofs about the timer and about the code that waits with it.  While    *)
(* the upper half of the counter stays zero, which on the real machine is  *)
(* for 49 days, PIT_8254_Wait implements the delay it promises, for every  *)
(* set of delays and every word size.  The reboot signal is never sent     *)
(* into a full input buffer: the status that keyboard_reboot has tested is *)
(* an old one, but nothing else fills that buffer.                         *)
(***************************************************************************)
EXTENDS Reboot, TLAPS

USE PitAssumption

LEMMA InitTypeOK == Init => TypeOK
BY DEF Init, TypeOK, NotLoaded, Points

LEMMA NextTypeOK == TypeOK /\ [Next]_vars => TypeOK'
<1> SUFFICES ASSUME TypeOK, [Next]_vars PROVE TypeOK'
  OBVIOUS
<1> USE DEF TypeOK, Points, counters, NotLoaded
<1>1. CASE UNCHANGED vars
  BY <1>1 DEF vars, locals
<1>2. CASE PIT_8254_Handler
  <2>1. lo' \in 0..Word-1 /\ hi' \in 0..Word-1
    BY <1>2 DEF PIT_8254_Handler, Increment
  <2>2. timer_seconds' \in Nat
    BY <1>2 DEF PIT_8254_Handler
  <2> QED BY <1>2, <2>1, <2>2 DEF PIT_8254_Handler
<1>3. CASE UncountedTick
  BY <1>3 DEF UncountedTick
<1>4. ASSUME NEW t \in Delays, Call(t)
      PROVE  TypeOK'
  <2>1. timer_ticks \in Nat
    BY DEF timer_ticks
  <2> QED BY <1>4, <2>1 DEF Call
<1>5. CASE LoadHigh \/ LoadLow
  BY <1>5 DEF LoadHigh, LoadLow
<1>6. CASE SetTarget
  <2>1. Loaded \in Nat
    BY DEF Loaded
  <2> QED BY <1>6, <2>1 DEF SetTarget, ReadDone
<1>7. CASE Test \/ Halt
  BY <1>7 DEF Test, Halt, ReadDone
<1> QED BY <1>1, <1>2, <1>3, <1>4, <1>5, <1>6, <1>7 DEF Next, Tick, WaitStep

(* The variables of the timer keep their types.                            *)
THEOREM TypeCorrect == Spec => []TypeOK
BY InitTypeOK, NextTypeOK, PTL DEF Spec

-----------------------------------------------------------------------------
(* With the upper half at zero what PIT_8254_Wait has loaded is a value    *)
(* the counter had since the call, and its target lies past the deadline.  *)
UpperHalfIsZero == hi = 0 /\ lo <= Uptime /\ high \in {0, NotLoaded}

LoadedInTime ==
  low # NotLoaded =>
    /\ low <= lo
    /\ pc = "entry" => deadline <= low + ticks

TargetIsLate ==
  /\ pc = "entry" => deadline <= lo + ticks
  /\ pc \in {"test", "hlt", "asleep"} => deadline <= eticks

ShortInv == TypeOK /\ UpperHalfIsZero /\ LoadedInTime /\ TargetIsLate

LEMMA NoUpperHalf ==
  ASSUME NEW l \in Nat
  PROVE  0 * Word + l = l
OBVIOUS

LEMMA ShortCounts ==
  ASSUME TypeOK
  PROVE  /\ hi = 0 => timer_ticks = lo
         /\ high = 0 => Loaded = low
BY DEF TypeOK, timer_ticks, Loaded

LEMMA NextShortInv ==
  ASSUME Uptime < Word, ShortInv, [Next]_vars
  PROVE  ShortInv'
<1> USE DEF ShortInv, UpperHalfIsZero, LoadedInTime, TargetIsLate, TypeOK,
            Points, counters, NotLoaded
<1>1. TypeOK'
  BY NextTypeOK
<1>2. timer_ticks = lo /\ (high = 0 => Loaded = low)
  BY ShortCounts
<1>3. CASE UNCHANGED vars
  BY <1>1, <1>3 DEF vars, locals
<1>4. CASE PIT_8254_Handler
  <2>1. lo + 1 < Word /\ lo + 1 <= Uptime
    BY <1>2, <1>4 DEF PIT_8254_Handler
  <2>2. lo' = lo + 1 /\ hi' = 0
    BY <1>4, <2>1 DEF PIT_8254_Handler, Increment
  <2>3. UNCHANGED <<ticks, high, low, eticks, deadline>>
    BY <1>4 DEF PIT_8254_Handler
  <2>4. /\ pc' = "entry" <=> pc = "entry"
        /\ pc' \in {"test", "hlt", "asleep"} <=> pc \in {"test", "hlt", "asleep"}
    BY <1>4 DEF PIT_8254_Handler
  <2>5. UpperHalfIsZero'
    BY <2>1, <2>2, <2>3
  <2>6. LoadedInTime'
    BY <2>2, <2>3, <2>4
  <2>7. TargetIsLate'
    BY <2>2, <2>3, <2>4
  <2> QED BY <1>1, <2>5, <2>6, <2>7, Zenon
<1>5. CASE UncountedTick
  BY <1>1, <1>5 DEF UncountedTick
<1>6. ASSUME NEW t \in Delays, Call(t)
      PROVE  ShortInv'
  BY <1>1, <1>2, <1>6 DEF Call
<1>7. CASE LoadHigh
  BY <1>1, <1>7 DEF LoadHigh
<1>8. CASE LoadLow
  <2>1. low' = lo /\ UNCHANGED <<hi, lo, pc, ticks, high, eticks, deadline>>
    BY <1>8 DEF LoadLow
  <2>2. UpperHalfIsZero' /\ TargetIsLate'
    BY <2>1
  <2>3. LoadedInTime'
    BY <2>1
  <2> QED BY <1>1, <2>2, <2>3, Zenon
<1>9. CASE SetTarget
  BY <1>1, <1>2, <1>9 DEF SetTarget, ReadDone
<1>10. CASE Test \/ Halt
  BY <1>1, <1>10 DEF Test, Halt, ReadDone
<1> QED BY <1>3, <1>4, <1>5, <1>6, <1>7, <1>8, <1>9, <1>10
    DEF Next, Tick, WaitStep

LEMMA ShortInvariance ==
  ASSUME Uptime < Word
  PROVE  Spec => []ShortInv
<1>1. Init => ShortInv
  BY InitTypeOK DEF Init, ShortInv, UpperHalfIsZero, LoadedInTime, TargetIsLate,
                    NotLoaded
<1>2. ShortInv /\ [Next]_vars => ShortInv'
  BY NextShortInv
<1> QED BY <1>1, <1>2, PTL DEF Spec

(* In a loop test that ends the wait, the counter has passed the deadline. *)
LEMMA TestEndsInTime ==
  ASSUME ShortInv, Test, pc' = "out"
  PROVE  deadline <= timer_ticks
<1>1. timer_ticks = lo /\ high = 0 /\ low # NotLoaded /\ Loaded = low
  BY ShortCounts DEF Test, ReadDone, ShortInv, UpperHalfIsZero
<1>2. eticks <= low
  BY <1>1 DEF Test, ShortInv, TypeOK, NotLoaded
<1> QED BY <1>1, <1>2 DEF ShortInv, TypeOK, LoadedInTime, TargetIsLate, Test,
                          ReadDone, NotLoaded

(* "Wait for 2 seconds" (speaker.c:10) is kept as long as the upper half   *)
(* of the counter is zero.                                                 *)
THEOREM NeverEarlyInShortUptime ==
  ASSUME Uptime < Word
  PROVE  Spec => NeverEarly
<1>1. ASSUME ShortInv, [Next]_vars, pc = "test", pc' = "out"
      PROVE  timer_ticks >= deadline
  <2>1. Test
    BY <1>1 DEF Next, Tick, WaitStep, PIT_8254_Handler, UncountedTick, Call,
       LoadHigh, LoadLow, SetTarget, ReadDone, Halt, vars, locals
  <2>2. deadline <= timer_ticks /\ deadline \in Nat /\ timer_ticks \in Nat
    BY <1>1, <2>1, TestEndsInTime DEF ShortInv, TypeOK, timer_ticks
  <2> QED BY <2>2
<1>2. ShortInv /\ [Next]_vars =>
        [pc = "test" /\ pc' = "out" => timer_ticks >= deadline]_vars
  BY <1>1
<1> QED BY <1>2, ShortInvariance, PTL DEF Spec, NeverEarly

LEMMA NextDelay ==
  ASSUME Uptime < Word, ShortInv, ShortInv', [Next]_vars
  PROVE  [Caller!Next]_Caller!vars
<1> USE DEF Caller!vars
<1>1. timer_ticks = lo /\ timer_ticks' = lo'
  <2>1. timer_ticks = lo
    BY ShortCounts DEF ShortInv, UpperHalfIsZero
  <2>2. hi' = 0 /\ lo' \in Nat /\ timer_ticks' = hi' * Word + lo'
    BY DEF ShortInv, UpperHalfIsZero, TypeOK, timer_ticks
  <2>3. timer_ticks' = lo'
    BY <2>2, NoUpperHalf
  <2> QED BY <2>1, <2>3
<1>2. CASE UNCHANGED vars
  BY <1>1, <1>2 DEF vars, counters, locals
<1>3. CASE PIT_8254_Handler
  <2>1. lo' = lo + 1 /\ lo < Uptime
    BY <1>1, <1>3 DEF PIT_8254_Handler, Increment, ShortInv, UpperHalfIsZero, TypeOK
  <2>2. (pc # "out") = (pc' # "out")
    BY <1>3 DEF PIT_8254_Handler
  <2>3. Caller!Tick
    BY <1>1, <1>3, <2>1, <2>2 DEF PIT_8254_Handler, Caller!Tick
  <2> QED BY <2>3 DEF Caller!Next
<1>4. CASE UncountedTick
  BY <1>1, <1>4 DEF UncountedTick, counters
<1>5. ASSUME NEW t \in Delays, Call(t)
      PROVE  Caller!Call(t)
  BY <1>1, <1>5 DEF Call, counters, Caller!Call
<1>6. CASE LoadHigh \/ LoadLow \/ SetTarget \/ Halt
  BY <1>1, <1>6 DEF LoadHigh, LoadLow, SetTarget, Halt, ReadDone, counters
<1>7. CASE Test
  <2>1. CASE pc' = "out"
    <3>1. deadline <= timer_ticks /\ deadline \in Nat /\ timer_ticks \in Nat
      BY <1>7, <2>1, TestEndsInTime DEF ShortInv, TypeOK, timer_ticks
    <3>2. Caller!Return
      BY <1>1, <1>7, <2>1, <3>1 DEF Test, ReadDone, counters, Caller!Return
    <3> QED BY <3>2 DEF Caller!Next
  <2>2. CASE pc' # "out"
    BY <1>1, <1>7, <2>2 DEF Test, ReadDone, counters
  <2> QED BY <2>1, <2>2
<1> QED BY <1>2, <1>3, <1>4, <1>5, <1>6, <1>7 DEF Next, Tick, WaitStep, Caller!Next

(* The whole promise: the calls and returns of PIT_8254_Wait are those of  *)
(* a delay that is kept.                                                   *)
THEOREM WaitImplementsDelay ==
  ASSUME Uptime < Word
  PROVE  Spec => ImplementsDelay
<1>1. Init => Caller!Init
  BY DEF Init, Caller!Init, timer_ticks
<1>2. ShortInv /\ ShortInv' /\ [Next]_vars => [Caller!Next]_Caller!vars
  BY NextDelay
<1> QED BY <1>1, <1>2, ShortInvariance, PTL DEF Spec, ImplementsDelay, Caller!Spec

-----------------------------------------------------------------------------
(* The clock of seconds.  Short of 2^64 ticks the two halves count up.     *)
LEMMA CountUp ==
  ASSUME TypeOK, timer_ticks < Uptime, Uptime < Word * Word, Increment
  PROVE  timer_ticks' = timer_ticks + 1
<1> USE DEF TypeOK, timer_ticks
<1>1. CASE lo + 1 < Word
  <2>1. lo' = lo + 1 /\ hi' = hi
    BY <1>1 DEF Increment
  <2>2. timer_ticks' = hi * Word + (lo + 1)
    BY <2>1
  <2> QED BY <2>2
<1>2. CASE lo + 1 = Word
  <2>1. hi + 1 < Word
    <3>1. (Word - 1) * Word + (Word - 1) = Word * Word - 1
      OBVIOUS
    <3>2. hi # Word - 1
      BY <1>2, <3>1
    <3> QED BY <3>2
  <2>2. lo' = 0 /\ hi' = hi + 1
    BY <1>2, <2>1 DEF Increment
  <2>3. (hi + 1) * Word + 0 = hi * Word + Word
    OBVIOUS
  <2>4. timer_ticks' = (hi + 1) * Word + 0
    BY <2>2
  <2> QED BY <1>2, <2>3, <2>4
<1> QED BY <1>1, <1>2

LEMMA DivSucc ==
  ASSUME NEW n \in Nat, NEW d \in Nat \ {0}
  PROVE  (n + 1) \div d = IF (n + 1) % d = 0 THEN n \div d + 1 ELSE n \div d
OBVIOUS

(* timer_seconds is the number of whole seconds of timer_ticks, short of   *)
(* the overflow of the 64-bit counter.                                     *)
THEOREM SecondsCounted ==
  ASSUME Uptime < Word * Word
  PROVE  Spec => []SecondsAreExact
<1>1. Init => SecondsAreExact
  <2>1. 0 * Word + 0 = 0 /\ 0 \div Second = 0
    OBVIOUS
  <2> QED BY <2>1 DEF Init, SecondsAreExact, timer_ticks
<1>2. TypeOK /\ SecondsAreExact /\ [Next]_vars => SecondsAreExact'
  <2> SUFFICES ASSUME TypeOK, SecondsAreExact, [Next]_vars
               PROVE  SecondsAreExact'
    OBVIOUS
  <2>1. CASE PIT_8254_Handler
    <3>1. timer_ticks \in Nat
      BY DEF TypeOK, timer_ticks
    <3>2. timer_ticks' = timer_ticks + 1
      BY <2>1, CountUp DEF PIT_8254_Handler
    <3> QED BY <2>1, <3>1, <3>2, DivSucc DEF PIT_8254_Handler, SecondsAreExact
  <2>2. CASE UNCHANGED counters
    BY <2>2 DEF counters, SecondsAreExact, timer_ticks
  <2> QED BY <2>1, <2>2 DEF Next, Tick, WaitStep, UncountedTick, Call, LoadHigh,
          LoadLow, SetTarget, Test, Halt, vars
<1> QED BY <1>1, <1>2, TypeCorrect, PTL DEF Spec

-----------------------------------------------------------------------------
TestedInv ==
  /\ command # "lost"
  /\ rpc \in {"data", "loop"} /\ "input full" \notin temp => ~input_full
  /\ rpc = "command" => ~input_full

-----------------------------------------------------------------------------
LEMMA TestedInit == RebootInit => TestedInv
BY DEF RebootInit, TestedInv

(* The accesses of keyboard_reboot.                                        *)
LEMMA TestedByReboot ==
  ASSUME TestedInv, CallReboot \/ keyboard_reboot
  PROVE  TestedInv'
<1> USE DEF TestedInv, At, controller
<1>1. CASE CallReboot \/ Disable_Interrupts
  BY <1>1 DEF CallReboot, Disable_Interrupts
<1>2. CASE ReadStatus
  BY <1>2 DEF ReadStatus
<1>3. CASE ReadKeyboardData
  BY <1>3 DEF ReadKeyboardData
<1>4. CASE TestInputFlag
  BY <1>4 DEF TestInputFlag
<1>5. CASE SendRebootSignal
  BY <1>5 DEF SendRebootSignal
<1> QED BY <1>1, <1>2, <1>3, <1>4, <1>5 DEF keyboard_reboot

LEMMA TestedNext == TestedInv /\ [RebootNext]_allVars => TestedInv'
<1> SUFFICES ASSUME TestedInv, [RebootNext]_allVars PROVE TestedInv'
  OBVIOUS
<1>1. CASE UNCHANGED allVars
  BY <1>1 DEF TestedInv, allVars, rebootVars, controller
<1>2. CASE PressKey
  BY <1>2 DEF PressKey, TestedInv
<1>3. CASE TakeInput
  BY <1>3 DEF TakeInput, TestedInv
<1>4. CASE ResetCpu
  BY <1>4 DEF ResetCpu, At, TestedInv, controller
<1>5. ASSUME UNCHANGED rebootVars PROVE TestedInv'
  BY <1>5 DEF TestedInv, rebootVars, controller
<1> QED BY <1>1, <1>2, <1>3, <1>4, <1>5, TestedByReboot
        DEF RebootNext, Interrupt, WaitRuns, OtherCaller

(* The reboot signal is sent only when the controller can take it,         *)
(* whatever was in its buffers and however many keys are pressed           *)
(* (reboot.c:36-45).                                                       *)
THEOREM SignalTaken == RebootSpec => []SignalIsTaken
<1>1. TestedInv => SignalIsTaken
  BY DEF TestedInv, SignalIsTaken
<1> QED BY <1>1, TestedInit, TestedNext, PTL DEF RebootSpec
=============================================================================

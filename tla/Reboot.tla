------------------------------- MODULE Reboot --------------------------------
(***************************************************************************)
(* reboot and keyboard_reboot (kernel/kernel/reboot.c) as a client of      *)
(* PIT_8254_Wait: it waits with interrupts on, turns them off, empties the *)
(* keyboard controller and asks it to reset the CPU.                       *)
(*                                                                         *)
(* The controller has one buffer in each direction.  It looks at what has  *)
(* been written to it when its output has been read, and a byte written    *)
(* before that is lost.  Keys are pressed at any time, Keys of them.       *)
(***************************************************************************)
EXTENDS Pit8254

CONSTANTS
  RebootDelay,    \* the ticks reboot waits, 5000 in the code
  Keys            \* bound: the keys pressed in a run

ASSUME RebootAssumption == RebootDelay \in Delays /\ Keys \in Nat

VARIABLES
  rpc,            \* where reboot is
  iflag,
  temp,           \* the bits of the last status read: output full, input full
  output_full, input_full,
  keys,           \* the keys still to be pressed
  command         \* the reboot command: "none", "taken", or "lost"

controller == <<output_full, input_full, keys, command>>
rebootVars == <<rpc, iflag, temp, controller>>
allVars    == <<vars, rebootVars>>

-----------------------------------------------------------------------------
CallReboot ==
  /\ rpc = "no"
  /\ rpc' = "wait"
  /\ Call(RebootDelay)
  /\ UNCHANGED <<iflag, temp, controller>>

At(here, there) == rpc = here /\ rpc' = there /\ UNCHANGED vars

Disable_Interrupts ==
  /\ pc = "out"
  /\ At("wait", "status")
  /\ iflag' = FALSE
  /\ UNCHANGED <<temp, controller>>

ReadStatus ==
  /\ At("status", IF output_full THEN "data" ELSE "loop")
  /\ temp' = {f \in {"output full", "input full"} :
                IF f = "output full" THEN output_full ELSE input_full}
  /\ UNCHANGED <<iflag, controller>>

(* Mutant: the data is left where it is.                                   *)
LeaveData == At("data", "loop") /\ UNCHANGED <<iflag, temp, controller>>

ReadKeyboardData ==
  /\ At("data", "loop")
  /\ output_full' = FALSE
  /\ UNCHANGED <<iflag, temp, input_full, keys, command>>

(* Mutant: the loop looks at the other flag.                               *)
TestOutputFlag ==
  /\ At("loop", IF "output full" \in temp THEN "status" ELSE "command")
  /\ UNCHANGED <<iflag, temp, controller>>

TestInputFlag ==
  /\ At("loop", IF "input full" \in temp THEN "status" ELSE "command")
  /\ UNCHANGED <<iflag, temp, controller>>

SendRebootSignal ==
  /\ At("command", "halt")
  /\ command' = IF input_full THEN "lost" ELSE "taken"
  /\ UNCHANGED <<iflag, temp, output_full, input_full, keys>>

keyboard_reboot ==
  \/ Disable_Interrupts \/ ReadStatus \/ ReadKeyboardData \/ TestInputFlag
  \/ SendRebootSignal

-----------------------------------------------------------------------------
(* The keyboard and its controller.                                        *)
PressKey ==
  /\ keys > 0 /\ ~output_full
  /\ keys' = keys - 1
  /\ output_full' = TRUE
  /\ UNCHANGED <<vars, rpc, iflag, temp, input_full, command>>

TakeInput ==
  /\ input_full /\ ~output_full
  /\ input_full' = FALSE
  /\ UNCHANGED <<vars, rpc, iflag, temp, output_full, keys, command>>

ResetCpu ==
  /\ At("halt", "reset")
  /\ command = "taken"
  /\ UNCHANGED <<iflag, temp, controller>>

Interrupt   == iflag /\ Tick /\ UNCHANGED rebootVars
WaitRuns    == WaitStep /\ UNCHANGED rebootVars
OtherCaller == rpc = "no" /\ (\E t \in Delays : Call(t)) /\ UNCHANGED rebootVars

RebootInit ==
  /\ Init
  /\ rpc = "no" /\ iflag = TRUE /\ temp = {}
  /\ output_full \in BOOLEAN /\ input_full \in BOOLEAN
  /\ keys = Keys
  /\ command = "none"

RebootNext ==
  \/ CallReboot \/ keyboard_reboot
  \/ PressKey \/ TakeInput \/ ResetCpu
  \/ Interrupt \/ WaitRuns \/ OtherCaller

(* As in Pit8254; the CPU executes keyboard_reboot, and the controller     *)
(* does its work.                                                          *)
RebootSpec ==
  /\ RebootInit /\ [][RebootNext]_allVars
  /\ WF_allVars(Interrupt) /\ WF_allVars(WaitRuns)
  /\ WF_allVars(keyboard_reboot)
  /\ WF_allVars(TakeInput) /\ WF_allVars(ResetCpu)

-----------------------------------------------------------------------------
(* Properties.                                                             *)

(* The reboot signal is sent only when the controller can take it,         *)
(* whatever was waiting in its buffers (reboot.c:36-45): after it the CPU  *)
(* sleeps with interrupts off and could not repeat it.                     *)
SignalIsTaken == command # "lost"

(* A reboot whose wait ends resets the CPU, also with keys being pressed   *)
(* and a controller that will not look at its input before its output has  *)
(* been read (reboot.c:30-58).                                             *)
RebootResets ==
  (rpc = "wait" /\ pc = "test" /\ eticks <= Uptime) ~> rpc = "reset"
=============================================================================

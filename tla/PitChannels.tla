----------------------------- MODULE PitChannels -----------------------------
(***************************************************************************)
(* The channels of the 8254 timer chip as PIT_8254_Phase                   *)
(* (kernel/x86/isa/8254.c) and Speaker_Beep (kernel/x86/sound/speaker.c)   *)
(* program them, byte by byte.  The commands used announce a count of two  *)
(* bytes, the lower first; a channel stands still from the command to the  *)
(* second byte.                                                            *)
(***************************************************************************)
EXTENDS Naturals

VARIABLE channels    \* of each channel: the byte that comes next, and its count

PIT_CHANNEL_0        == 64
PIT_CHANNEL_2        == 66
PIT_COMMAND_REGISTER == 67

Counting(n) == channels[n].next = "none"

(* A count of 0 stands for 65536.                                          *)
Period(n) == IF channels[n].count = 0 THEN 65536 ELSE channels[n].count

Clock == 1193182
Hertz(n) == Clock \div Period(n)

-----------------------------------------------------------------------------
(* The chip.  A byte behind the second one starts a new count.             *)
Command(byte) ==
  channels' = [channels EXCEPT ![byte \div 64] = [next |-> "low", count |-> 0]]

Count(n, byte) ==
  LET c == channels[n] IN
  channels' = [channels EXCEPT ![n] =
    IF c.next = "high" THEN [next |-> "none", count |-> c.count + 256 * byte]
                       ELSE [next |-> "high", count |-> byte]]

(* outb takes a byte of what it is given.                                  *)
outb(port, value) ==
  IF port = PIT_COMMAND_REGISTER THEN Command(value % 256)
                                 ELSE Count(port - PIT_CHANNEL_0, value % 256)

-----------------------------------------------------------------------------
(* The driver: the bytes PIT_8254_Phase sends, and those of Speaker_Beep.  *)
Divisor(hz) == Clock \div hz

PhaseCommand == outb(PIT_COMMAND_REGISTER, 54)

(* Mutant: the two bytes go the other way round.                           *)
PhaseHighFirst(hz) == outb(PIT_CHANNEL_0, Divisor(hz) \div 256)

PhaseLow(hz) == outb(PIT_CHANNEL_0, Divisor(hz) % 256)
PhaseHigh(hz) == outb(PIT_CHANNEL_0, Divisor(hz) \div 256)

(* Mutant: the beep's command is for channel 0.                            *)
BeepCommandToTimer == outb(PIT_COMMAND_REGISTER, 54)

BeepCommand == outb(PIT_COMMAND_REGISTER, 182)
BeepCount == outb(PIT_CHANNEL_2, 238)

(* The boot loader leaves the channels counting.                           *)
ChannelsInit == channels = [n \in 0..2 |-> [next |-> "none", count |-> 0]]
=============================================================================

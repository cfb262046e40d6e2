------------------------------- MODULE RtcTime -------------------------------
(***************************************************************************)
(* The formats of the real time clock, and what RTC_Update                 *)
(* (kernel/x86/rtc.c) makes of the six bytes it has read.                  *)
(***************************************************************************)
EXTENDS Naturals

Fields == {"second", "minute", "hour", "day", "month", "year"}

(* Register B: bit 2 for binary numbers, bit 1 for hours from 0 to 23.     *)
Formats == [binary : BOOLEAN, day24 : BOOLEAN]

-----------------------------------------------------------------------------
(* What the clock shows: 12-hour mode has no hour 0, and bit 7 after noon. *)
Bcd(n) == 16 * (n \div 10) + (n % 10)

Number(format, n) == IF format.binary THEN n ELSE Bcd(n)

HourOf(format, h) ==
  IF format.day24 THEN Number(format, h)
  ELSE Number(format, IF h % 12 = 0 THEN 12 ELSE h % 12) + IF h >= 12 THEN 128 ELSE 0

Encoded(format, time) ==
  [f \in Fields |-> IF f = "hour" THEN HourOf(format, time[f]) ELSE Number(format, time[f])]

-----------------------------------------------------------------------------
FromBcd(byte) == (byte % 16) + (byte \div 16) * 10

(* & 0x70 drops bit 7, which an hour keeps.                                *)
LowFromBcd(byte) == FromBcd(byte % 128)

(* Mutant: the flag of the afternoon is taken for a digit.                 *)
DecimalsWithFlag(bytes) == [f \in Fields |-> FromBcd(bytes[f])]

Decimals(bytes) ==
  [f \in Fields |->
     CASE f = "hour" -> LowFromBcd(bytes[f]) + 128 * (bytes[f] \div 128)
       [] f = "day"  -> LowFromBcd(bytes[f])
       [] OTHER      -> FromBcd(bytes[f])]

(* The code does this twice; the second time bit 7 is gone.                *)
Afternoon(bytes) ==
  IF bytes["hour"] >= 128
  THEN [bytes EXCEPT !["hour"] = ((@ % 128) + 12) % 24]
  ELSE bytes

Converted(format, bytes) ==
  LET numbers == IF format.binary THEN bytes ELSE Decimals(bytes) IN
  IF format.day24 THEN numbers ELSE Afternoon(Afternoon(numbers))

(* Every hour of the day, and two digits of every other field.             *)
Moments ==
  {[second |-> (5 * h) % 60, minute |-> 59 - h, hour |-> h,
    day |-> 1 + h, month |-> 1 + (h % 12), year |-> 4 * h] : h \in 0..23}
=============================================================================

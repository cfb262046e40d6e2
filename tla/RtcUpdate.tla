------------------------------ MODULE RtcUpdate ------------------------------
(***************************************************************************)
(* RTC_Update (kernel/x86/rtc.c): the time is read register by register,   *)
(* while the clock goes on and RTC_Handler moves the selection, until two  *)
(* readings agree, and is then converted.  It is read into *rtc_current,   *)
(* which nothing sets: a null pointer, into the page that the loader has   *)
(* unmapped.  Both cases are modelled, that the page is gone and that it   *)
(* is still there, as the screen and the Multiboot information need it     *)
(* (BootMapping).                                                          *)
(*                                                                         *)
(* The clock counts: an update moves the seconds on, or starts them again  *)
(* and carries into the next field.  While it is in progress the registers *)
(* do not show a time.                                                     *)
(***************************************************************************)
EXTENDS Cmos, RtcTime

CONSTANT Highest    \* the highest value of each field: 59 of the seconds

ASSUME UpdateAssumption == "second" \in Shown /\ Highest \in [Shown -> Nat]

VARIABLES
  mapped,     \* the page that rtc_current points into is there
  moved,      \* rtc_current has moved on, and points behind what was read
  updating,   \* bit 7 of register A
  time,       \* what the registers show
  current,    \* the fields of *rtc_current
  last,       \* last_second ... last_year, once they have been assigned
  field,      \* the place in the order of the field to be read next
  clean,      \* history: how many readings in a row are clean, up to 2 (see Witness)
  began,      \* history: what the clock showed when the seconds of the last were read
  elapsed,    \* history: its updates since then, up to a minute
  converted   \* what the conversion has made of a time

history    == <<clean, began, elapsed>>
updateVars == <<mapped, moved, updating, time, current, last, field, history, converted>>
vars       == <<cmosVars, updateVars>>

Order == <<"second", "minute", "hour", "day", "month", "year">>
Least(S) == {n \in S : \A m \in S : n <= m}

(* The fields that are still to be read after this one.                    *)
Later == {n \in 1..6 : n > field /\ Order[n] \in Shown}

Values   == UNION {0..Highest[f] : f \in Shown}
Times    == {t \in [Shown -> Values] : \A f \in Shown : t[f] <= Highest[f]}
Start    == [f \in Shown |-> 0]
NoFields == [f \in {} |-> 0]
NoTime   == [format |-> "none"]
Minute   == Highest["second"] + 1

-----------------------------------------------------------------------------
(* The clock.  Only what it does while RTC_Update reads matters.  Fields   *)
(* count from 0; a month may end before the highest day.                   *)
Reads == {"select A", "read A", "select field", "read field", "store", "compare"}

StartUpdate ==
  /\ main \in Reads
  /\ ~updating
  /\ updating' = TRUE
  /\ UNCHANGED <<cmosVars, mapped, moved, time, current, last, field, history, converted>>

(* The carry stops at the first field that can go on; 7 is the century.    *)
EndUpdate ==
  /\ main \in Reads
  /\ updating
  /\ updating' = FALSE
  /\ \E stop \in 1..7 :
       /\ \A n \in 1..6 : Order[n] \in Shown =>
            /\ n < stop => time[Order[n]] = Highest[Order[n]] \/ Order[n] = "day"
            /\ n = stop => time[Order[n]] < Highest[Order[n]]
       /\ time' = [f \in Shown |-> IF \E n \in 1..stop-1 : Order[n] = f THEN 0
                                   ELSE IF stop < 7 /\ f = Order[stop] THEN time[f] + 1
                                   ELSE time[f]]
  /\ elapsed' = IF clean = 0 \/ elapsed = Minute THEN elapsed ELSE elapsed + 1
  /\ UNCHANGED <<cmosVars, mapped, moved, current, last, field, clean, began, converted>>

-----------------------------------------------------------------------------
ReadByte(here, there) == Step(here, there) /\ ReadData

ClockKept == UNCHANGED <<mapped, updating, time, converted>>

(* The clock has gone on since the last call.                              *)
Call ==
  /\ Step("idle", "select A")
  /\ time' \in Times
  /\ updating' \in BOOLEAN
  /\ UNCHANGED <<clock, mapped, moved, current, last, field, history, converted>>

(* Polling the update flag.  If the selection has moved, what is read has  *)
(* some other bit 7.                                                       *)
RTC_Get_Update_In_Progress_Flag ==
  /\ \/ Step("select A", "read A") /\ Select("A", FALSE) /\ UNCHANGED <<field, clean>>
     \/ /\ updating \/ index # "A"
        /\ ReadByte("read A", "select A")
        /\ UNCHANGED <<field, clean>>
     \/ /\ ~updating \/ index # "A"
        /\ ReadByte("read A", "select field")
        /\ field' = 1
        /\ clean' = IF clean < 2 THEN clean + 1 ELSE 2
  /\ UNCHANGED <<moved, current, last, began, elapsed>>
  /\ ClockKept

(* RTC_Get_Register.  What is read of another register, or in an update,   *)
(* is no time: one value, which may look like one, stands for all.         *)
Genuine == index = Order[field] /\ ~updating

Fetched == IF Genuine THEN time[Order[field]] ELSE 0

(* History: a reading is clean as long as what it reads is genuine, and    *)
(* follows the one before if less than a minute lies between the two reads *)
(* of the seconds.                                                         *)
Witness ==
  /\ clean' = IF ~Genuine THEN 0
              ELSE IF field = 1 /\ elapsed = Minute THEN 1
              ELSE clean
  /\ began' = IF clean' = 0 THEN Start ELSE IF field = 1 THEN time ELSE began
  /\ elapsed' = IF clean' = 0 \/ field = 1 THEN 0 ELSE elapsed

RTC_Get_Register ==
  \/ /\ Step("select field", "read field")
     /\ Select(Order[field], FALSE)
     /\ UNCHANGED <<current, history>>
  \/ /\ ReadByte("read field", "store")
     /\ current' = [current EXCEPT ![Order[field]] = Fetched]
     /\ Witness

ReadField ==
  /\ RTC_Get_Register
  /\ UNCHANGED <<moved, last, field>>
  /\ ClockKept

Store ==
  /\ IF ~mapped
     THEN /\ Main("store", "page fault")
          /\ iflag' = FALSE
          /\ UNCHANGED <<clock, installed, byte, nmi_enabled, field>>
     ELSE IF Later # {}
     THEN Step("store", "select field") /\ field' \in Least(Later) /\ UNCHANGED clock
     ELSE Step("store", "compare") /\ field' = 1 /\ UNCHANGED clock
  /\ UNCHANGED <<moved, current, last, history>>
  /\ ClockKept

(* The condition of the loop.  last_day is never assigned: its comparison  *)
(* has any result, so that the loop may go on although all others agree.   *)
Compared == Shown \ {"day"}

(* Mutant: && in place of ||.                                              *)
AgreeSomewhere == last # NoFields /\ \E f \in Compared : last[f] = current[f]

Agree == last # NoFields /\ \A f \in Compared : last[f] = current[f]

Compare ==
  /\ \/ /\ Step("compare", "select A")
        /\ last' = current
     \/ /\ Step("compare", "select format")
        /\ Agree
        /\ last' = NoFields
  /\ UNCHANGED <<clock, moved, current, field, history>>
  /\ ClockKept

(* The format, and the conversion of any time in any format.               *)
ReadFormat ==
  /\ \/ Step("select format", "read format") /\ Select("B", FALSE)
     \/ /\ Main("read format", "convert")
        /\ ReadData
        /\ byte' = index
        /\ UNCHANGED <<installed, iflag, nmi_enabled>>
  /\ UNCHANGED <<moved, current, last, field, history>>
  /\ ClockKept

(* The clock, history and *rtc_current start afresh: the next call finds   *)
(* the clock at any time, and stores each field before it compares it.     *)
Convert ==
  /\ Main("convert", "century")
  /\ byte' = "nothing"
  /\ UNCHANGED <<installed, iflag, nmi_enabled>>
  /\ \E format \in Formats :
       \E assumed \in IF byte = "B" THEN {format} ELSE Formats :
         converted' = [format |-> format, assumed |-> assumed,
                       results |-> [moment \in Moments |->
                                      Converted(assumed, Encoded(format, moment))]]
  /\ time' = Start /\ updating' = FALSE
  /\ current' = Start
  /\ clean' = 0 /\ began' = Start /\ elapsed' = 0
  /\ UNCHANGED <<clock, mapped, moved, last, field>>

(* century_register is 0: the pointer is moved in place of the year.       *)
Century ==
  /\ Step("century", "idle")
  /\ moved' = TRUE
  /\ converted' = NoTime
  /\ UNCHANGED <<clock, mapped, updating, time, current, last, field, history>>

RTC_Update ==
  \/ Call \/ RTC_Get_Update_In_Progress_Flag \/ ReadField \/ Store
  \/ Compare \/ ReadFormat \/ Convert \/ Century

-----------------------------------------------------------------------------
Init ==
  /\ CmosInit
  /\ mapped \in BOOLEAN
  /\ moved = FALSE
  /\ updating = FALSE
  /\ time = Start
  /\ current = Start
  /\ last = NoFields
  /\ field = 1
  /\ clean = 0
  /\ began = Start
  /\ elapsed = 0
  /\ converted = NoTime

Interrupt == (Accept \/ RTC_Handler) /\ UNCHANGED updateVars

MainThread == RTC_Update \/ (Driver /\ UNCHANGED updateVars)

Next ==
  \/ MainThread
  \/ Interrupt
  \/ Tick /\ UNCHANGED updateVars
  \/ StartUpdate
  \/ EndUpdate

(* The clock runs, the CPU executes what it has begun, and it looks at its *)
(* interrupt request after every instruction: one that is there again and  *)
(* again with interrupts on is taken, although cli comes in between.       *)
Spec ==
  /\ Init /\ [][Next]_vars
  /\ WF_vars(Tick /\ UNCHANGED updateVars)
  /\ SF_vars(Accept /\ UNCHANGED updateVars)
  /\ WF_vars(RTC_Handler /\ UNCHANGED updateVars)
  /\ WF_vars(MainThread)

-----------------------------------------------------------------------------
(* Properties.                                                             *)

(* Initialize_RTC sets its bit in register B and leaves every other bit of *)
(* the CMOS as it was, although the handler moves the selection whenever   *)
(* it comes, and a read may (rtc.c:152-160): no other byte is written, and *)
(* the byte written back was read from register B.                         *)
CmosIsKept ==
  registers = [r \in Registers |-> "kept"]

(* Once the clock is initialized its interrupts never stop coming, unless  *)
(* the kernel panics: each is answered by a read of register C before the  *)
(* next, and none is dismissed for want of a routine (rtc.c:145-160).      *)
ClockKeepsTicking ==
  pie ~> handler = "count" \/ main = "page fault"

(* A reading that ends shows the time at which its seconds were read       *)
(* (rtc.c:59-100), if in the last two readings no access of RTC_Handler    *)
(* and no update fell between a selection and its read, and less than a    *)
(* minute between their reads of the seconds; in between, any number of    *)
(* interrupts and updates.  From a minute on, the two readings may agree   *)
(* on fields of several times.  The day is not among the fields, for       *)
(* last_day is never assigned.                                             *)
TimeIsOfOneInstant ==
  main = "select format" /\ clean = 2 =>
    \A f \in Compared : current[f] = began[f]

(* The conversion gives the time the clock shows, in all four formats      *)
(* (rtc.c:103-125), but for the hours from noon to one and from midnight   *)
(* to one of the 12-hour formats, which it exchanges.                      *)
TimeIsConverted ==
  main = "century" /\ converted.assumed = converted.format =>
    \A moment \in Moments :
      LET exchanged == ~converted.format.day24 /\ moment.hour % 12 = 0 IN
      converted.results[moment] =
        IF exchanged THEN [moment EXCEPT !.hour = 12 - @] ELSE moment
=============================================================================

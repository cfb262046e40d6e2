--------------------------- MODULE RtcUpdateProofs ---------------------------
(***************************************************************************)
(* Proofs about the users of the CMOS, for every set of fields with the    *)
(* seconds in it and every length of a minute: no byte is overwritten, two *)
(* readings within a minute that agree are of one instant, and every time  *)
(* is converted as TimeIsConverted says.                                   *)
(***************************************************************************)
EXTENDS RtcUpdate, TLAPS

-----------------------------------------------------------------------------
(* That no access of the clock driver overwrites a byte of the CMOS: the   *)
(* one write follows a selection of register B with interrupts off, and    *)
(* writes back what was read from it.  The strengthening says what the     *)
(* main thread knows at each access between cli and sti, and that the      *)
(* handler is not running then.                                            *)

Critical == {"select B", "read B", "select B again", "write B", "sti"}

KeptInv ==
  /\ registers = [r \in Registers |-> "kept"]
  /\ main \in Critical => handler = "none" /\ iflag = FALSE
  /\ main \in {"read B", "write B"} => index = "B"
  /\ main \in {"select B again", "write B"} => byte = "B"

-----------------------------------------------------------------------------
LEMMA KeptInit == Init => KeptInv
BY DEF Init, CmosInit, KeptInv, Critical

(* The handler and the clock: no interrupt is taken in between.            *)
LEMMA KeptByInterrupt ==
  ASSUME KeptInv, Accept \/ RTC_Handler \/ Tick
  PROVE  KeptInv'
<1>1. CASE Accept
  BY <1>1 DEF Accept, KeptInv, Critical
<1>2. CASE RTC_Handler
  BY <1>2 DEF RTC_Handler, Count, SelectC, ReadC, Select, ReadData, Deselect,
     KeptInv, Critical, clock
<1>3. CASE Tick
  BY <1>3 DEF Tick, KeptInv, Critical, kernel
<1> QED BY <1>1, <1>2, <1>3

(* Initialize_RTC: each access hands on what the next one needs.           *)
LEMMA KeptByInitialize ==
  ASSUME KeptInv, Initialize_RTC
  PROVE  KeptInv'
<1> USE DEF KeptInv, Critical
<1>1. CASE (Step("idle", "install") /\ UNCHANGED clock) \/ Install
  BY <1>1 DEF Step, Main, Install, clock
<1>2. CASE Disable_Interrupts
  BY <1>2 DEF Disable_Interrupts, Main, clock
<1>3. CASE SelectB \/ SelectBAgain
  BY <1>3 DEF SelectB, SelectBAgain, Step, Main, Select
<1>4. CASE ReadB
  BY <1>4 DEF ReadB, Main, ReadData
<1>5. CASE WriteB
  BY <1>5 DEF WriteB, Main, WriteData
<1>6. CASE Enable_Interrupts
  BY <1>6 DEF Enable_Interrupts, Main, clock
<1> QED BY <1>1, <1>2, <1>3, <1>4, <1>5, <1>6 DEF Initialize_RTC

(* The other calls of the main thread never write to port 0x71.            *)
LEMMA KeptByReaders ==
  ASSUME KeptInv, NMI_Enable \/ NMI_Disable \/ RTC_Update
  PROVE  KeptInv'
<1> USE DEF KeptInv, Critical, Main, Step, clock
<1>1. CASE NMI_Enable \/ NMI_Disable
  BY <1>1 DEF NMI_Enable, NMI_Disable, Select
<1>2. CASE Call \/ Store \/ Compare \/ Convert \/ Century
  BY <1>2 DEF Call, Store, Compare, Convert, Century
<1>3. CASE RTC_Get_Update_In_Progress_Flag
  BY <1>3 DEF RTC_Get_Update_In_Progress_Flag, Select, ReadByte, ReadData
<1>4. CASE ReadField
  BY <1>4 DEF ReadField, RTC_Get_Register, Select, ReadByte, ReadData
<1>5. CASE ReadFormat
  BY <1>5 DEF ReadFormat, Select, ReadByte, ReadData
<1> QED BY <1>1, <1>2, <1>3, <1>4, <1>5 DEF RTC_Update

LEMMA KeptNext == KeptInv /\ [Next]_vars => KeptInv'
<1> SUFFICES ASSUME KeptInv, [Next]_vars PROVE KeptInv'
  OBVIOUS
<1>1. CASE UNCHANGED vars
  BY <1>1 DEF vars, cmosVars, clock, kernel, KeptInv
<1>2. CASE StartUpdate \/ EndUpdate
  BY <1>2 DEF StartUpdate, EndUpdate, cmosVars, clock, kernel, KeptInv
<1> QED BY <1>1, <1>2, KeptByInterrupt, KeptByInitialize, KeptByReaders
        DEF Next, MainThread, Interrupt, Driver

(* Whatever the interleaving of Initialize_RTC, RTC_Handler, the switch of *)
(* the NMI and readings of the time, every register keeps what it had      *)
(* (rtc.c:37-61, 145-160, nmi.c:23-32).                                    *)
THEOREM CmosKept == Spec => []CmosIsKept
<1>1. KeptInv => CmosIsKept
  BY DEF KeptInv, CmosIsKept
<1> QED BY <1>1, KeptInit, KeptNext, PTL DEF Spec

-----------------------------------------------------------------------------
(* That two readings which agree are of one instant.  A reading reads the  *)
(* seconds first.  If the next one finds the same seconds, less than a     *)
(* minute later, then no update lies in between: whatever the first one    *)
(* has read, it has read at that instant.  The strengthening follows what  *)
(* the clock has done since the seconds were read last, and what has been  *)
(* stored if it has done nothing.                                          *)
Reading == {"select field", "read field", "store", "compare"}
Polling == {"select A", "read A"}
Ended   == {"select format", "read format", "convert"}
InCall  == Reading \cup Polling \cup Ended \cup {"page fault"}

Stamps == [Shown -> Nat]

(* The fields of *rtc_current that the reading in progress has stored.     *)
Stored ==
  {f \in Shown : \/ main = "compare"
                 \/ \E n \in 1..6 : f = Order[n] /\ (n < field \/ (main = "store" /\ n = field))}

ReadingTypeOK ==
  /\ time \in Stamps /\ time["second"] < Minute
  /\ current \in Stamps
  /\ last \in Stamps \cup {NoFields}
  /\ field \in 1..6 /\ Order[field] \in Shown
  /\ clean \in 0..2
  /\ began \in Stamps /\ began["second"] < Minute
  /\ elapsed \in 0..Minute

(* Where the seconds that count are those of the reading before, and where *)
(* they are those of the reading in progress.                              *)
BeforeSeconds ==
  \/ clean >= 1 /\ main \in Polling
  \/ clean = 2 /\ main \in Reading /\ "second" \notin Stored

SinceSeconds == clean >= 1 /\ main \in Reading /\ "second" \in Stored

Counted ==
  /\ elapsed = 0 => time = began
  /\ elapsed < Minute => \/ time["second"] = began["second"] + elapsed
                         \/ time["second"] = began["second"] + elapsed - Minute

LastFromBegan ==
  /\ last # NoFields /\ last["second"] = began["second"]
  /\ elapsed = 0 => \A f \in Shown : last[f] = began[f]

CurrentFromBegan ==
  /\ current["second"] = began["second"]
  /\ elapsed = 0 => \A f \in Stored : current[f] = began[f]

LastIfSame ==
  /\ last # NoFields
  /\ last["second"] = current["second"] => \A f \in Shown : last[f] = began[f]

ReadingInv ==
  /\ ReadingTypeOK
  /\ main \notin Reading \cup Polling \cup {"page fault"} => last = NoFields
  /\ main \notin InCall => clean = 0
  /\ BeforeSeconds => Counted /\ LastFromBegan
  /\ SinceSeconds => Counted /\ CurrentFromBegan
  /\ SinceSeconds /\ clean = 2 => LastIfSame
  /\ clean = 2 /\ main \in Ended => \A f \in Compared : current[f] = began[f]

LEMMA Places ==
  /\ \A m, n \in 1..6 : Order[m] = Order[n] => m = n
  /\ \A f \in Shown : \E n \in 1..6 : f = Order[n]
  /\ Order[1] = "second" /\ "second" \in Shown /\ "second" \in Compared
BY CmosAssumption, UpdateAssumption DEF Order, Compared

LEMMA Minutes == Minute \in Nat /\ Minute >= 1 /\ Minute = Highest["second"] + 1
BY UpdateAssumption DEF Minute

LEMMA StoredNext ==
  Stored' = {f \in Shown : \/ main' = "compare"
                           \/ \E n \in 1..6 :
                                /\ f = Order[n]
                                /\ n < field' \/ (main' = "store" /\ n = field')}
BY DEF Stored, Order

LEMMA StartIsStamp == Start \in Stamps /\ Start["second"] < Minute
BY Places, Minutes DEF Start, Stamps

LEMMA CleanIs == ReadingInv => clean \in {0, 1, 2}
<1>1. ReadingInv => clean \in 0..2
  BY DEF ReadingInv, ReadingTypeOK
<1>2. \A c \in 0..2 : c \in {0, 1, 2}
  OBVIOUS
<1> QED BY <1>1, <1>2

LEMMA InitReading == Init => ReadingInv
<1> SUFFICES ASSUME Init PROVE ReadingInv
  OBVIOUS
<1>1. /\ main = "idle" /\ time = Start /\ current = Start /\ last = NoFields
      /\ field = 1 /\ clean = 0 /\ began = Start /\ elapsed = 0
  BY DEF Init, CmosInit
<1>2. ReadingTypeOK
  BY <1>1, Places, Minutes, StartIsStamp DEF ReadingTypeOK
<1> QED BY <1>1, <1>2
        DEF ReadingInv, BeforeSeconds, SinceSeconds, Reading, Polling, Ended

(* The steps that leave the reading where it is.                           *)
LEMMA KeepReading ==
  ASSUME ReadingInv, UNCHANGED <<time, current, last, field, clean, began, elapsed>>,
         main' = main \/ (main \notin InCall /\ main' \notin InCall)
  PROVE  ReadingInv'
<1>1. ReadingTypeOK'
  BY DEF ReadingInv, ReadingTypeOK, Stamps, Order, NoFields, Minute
<1>2. CASE main' = main
  <2>1. Stored' = Stored
    BY <1>2 DEF Stored, Order
  <2>2. BeforeSeconds' = BeforeSeconds /\ SinceSeconds' = SinceSeconds
    BY <1>2, <2>1 DEF BeforeSeconds, SinceSeconds, Polling, Reading
  <2>3. Counted' = Counted /\ LastFromBegan' = LastFromBegan /\ LastIfSame' = LastIfSame
        /\ CurrentFromBegan' = CurrentFromBegan
    BY <2>1 DEF Counted, LastFromBegan, LastIfSame, CurrentFromBegan, Minute, NoFields
  <2> QED BY <1>1, <1>2, <2>2, <2>3
          DEF ReadingInv, InCall, Reading, Polling, Ended, Compared, NoFields
<1>3. CASE main \notin InCall /\ main' \notin InCall
  BY <1>1, <1>3
     DEF ReadingInv, BeforeSeconds, SinceSeconds, InCall, Reading, Polling, Ended, NoFields
<1> QED BY <1>2, <1>3

LEMMA ReadingAndOthers ==
  ASSUME ReadingInv, Interrupt \/ (Tick /\ UNCHANGED updateVars)
                     \/ (Driver /\ UNCHANGED updateVars) \/ StartUpdate \/ UNCHANGED vars
  PROVE  ReadingInv'
<1>1. UNCHANGED <<time, current, last, field, clean, began, elapsed>>
  BY DEF Interrupt, StartUpdate, updateVars, vars, history
<1>2. CASE Interrupt \/ (Tick /\ UNCHANGED updateVars) \/ StartUpdate \/ UNCHANGED vars
  <2>1. main' = main
    BY <1>2 DEF Interrupt, Accept, RTC_Handler, Count, SelectC, ReadC, Tick, StartUpdate,
                vars, cmosVars, kernel
  <2> QED BY <1>1, <2>1, KeepReading
<1>3. CASE Driver
  <2>1. main \notin InCall /\ main' \notin InCall
    BY <1>3 DEF Driver, Initialize_RTC, NMI_Enable, NMI_Disable, Install, Disable_Interrupts,
                SelectB, ReadB, SelectBAgain, WriteB, Enable_Interrupts, Step, Main,
                InCall, Reading, Polling, Ended
  <2> QED BY <1>1, <2>1, KeepReading
<1> QED BY <1>2, <1>3

(* The clock goes on: the seconds count up and start again, and if they    *)
(* have been counted, an update has been.                                  *)
LEMMA SecondsGoOn ==
  ASSUME EndUpdate, time \in Stamps, time["second"] < Minute
  PROVE  /\ time' \in Stamps /\ time'["second"] < Minute
         /\ time'["second"] = IF time["second"] + 1 = Minute THEN 0 ELSE time["second"] + 1
<1>1. PICK stop \in 1..7 :
        /\ \A n \in 1..6 : Order[n] \in Shown =>
             /\ n < stop => time[Order[n]] = Highest[Order[n]] \/ Order[n] = "day"
             /\ n = stop => time[Order[n]] < Highest[Order[n]]
        /\ time' = [f \in Shown |-> IF \E n \in 1..stop-1 : Order[n] = f THEN 0
                                    ELSE IF stop < 7 /\ f = Order[stop] THEN time[f] + 1
                                    ELSE time[f]]
  BY DEF EndUpdate
<1>2. \A f \in Shown : time[f] \in Nat /\ time[f] + 1 \in Nat /\ 0 \in Nat
  BY DEF Stamps
<1>3. time' \in Stamps
  BY <1>1, <1>2 DEF Stamps
<1>4. Order[1] = "second" /\ "second" \in Shown /\ "second" # "day" /\ 1 \in 1..6
  BY Places
<1>5. CASE stop = 1
  <2>1. time["second"] < Highest["second"]
    BY <1>1, <1>4, <1>5
  <2>2. time'["second"] = time["second"] + 1
    <3>1. ~ \E n \in 1..stop-1 : Order[n] = "second"
      BY <1>5
    <3> QED BY <1>1, <1>4, <1>5, <3>1
  <2>3. time["second"] \in Nat /\ Highest["second"] \in Nat
    BY <1>2, <1>4, UpdateAssumption
  <2> QED BY <1>3, <2>1, <2>2, <2>3, Minutes
<1>6. CASE stop # 1
  <2>1. 1 < stop /\ 1 \in 1..stop-1
    BY <1>6
  <2>2. time["second"] = Highest["second"]
    BY <1>1, <1>4, <2>1
  <2>3. time'["second"] = 0
    BY <1>1, <1>4, <2>1
  <2> QED BY <1>3, <2>2, <2>3, Minutes
<1> QED BY <1>5, <1>6

LEMMA ReadingAndUpdate ==
  ASSUME ReadingInv, EndUpdate
  PROVE  ReadingInv'
<1>1. /\ UNCHANGED <<main, current, last, field, clean, began>> /\ main \in Reads
      /\ elapsed' = IF clean = 0 \/ elapsed = Minute THEN elapsed ELSE elapsed + 1
  BY DEF EndUpdate, cmosVars, kernel
<1>2. time \in Stamps /\ time["second"] \in Nat /\ began["second"] \in Nat
      /\ time["second"] < Minute /\ began["second"] < Minute /\ elapsed \in 0..Minute
  BY Places DEF ReadingInv, ReadingTypeOK, Stamps
<1>3. /\ time' \in Stamps /\ time'["second"] < Minute
      /\ time'["second"] = IF time["second"] + 1 = Minute THEN 0 ELSE time["second"] + 1
  BY <1>2, SecondsGoOn
<1>4. elapsed' \in 0..Minute /\ (clean # 0 => elapsed' # 0)
  BY <1>1, <1>2, Minutes
<1>5. ReadingTypeOK'
  BY <1>1, <1>3, <1>4 DEF ReadingInv, ReadingTypeOK, Order, NoFields, Minute, Stamps
<1>6. Stored' = Stored
  BY <1>1 DEF Stored, Order
<1>7. BeforeSeconds' = BeforeSeconds /\ SinceSeconds' = SinceSeconds
  BY <1>1, <1>6 DEF BeforeSeconds, SinceSeconds, Polling, Reading
<1>8. ASSUME Counted, clean # 0
      PROVE  Counted'
  <2>1. ASSUME elapsed' < Minute
        PROVE  \/ time'["second"] = began["second"] + elapsed'
               \/ time'["second"] = began["second"] + elapsed' - Minute
    <3>1. elapsed' = elapsed + 1 /\ elapsed < Minute
      BY <1>1, <1>2, <1>8, <2>1, Minutes
    <3>2. \/ time["second"] = began["second"] + elapsed
          \/ time["second"] = began["second"] + elapsed - Minute
      BY <1>8, <3>1 DEF Counted
    <3> QED BY <1>2, <1>3, <2>1, <3>1, <3>2, Minutes
  <2> QED BY <1>1, <1>4, <1>8, <2>1 DEF Counted, Minute
<1>9. clean # 0 /\ LastFromBegan => LastFromBegan'
  BY <1>1, <1>4 DEF LastFromBegan, NoFields
<1>10. clean # 0 /\ CurrentFromBegan => CurrentFromBegan'
  BY <1>1, <1>4 DEF CurrentFromBegan
<1>11. LastIfSame => LastIfSame'
  BY <1>1 DEF LastIfSame, NoFields
<1>12. (BeforeSeconds => clean # 0) /\ (SinceSeconds => clean # 0)
  BY CleanIs DEF BeforeSeconds, SinceSeconds
<1> QED BY <1>1, <1>5, <1>7, <1>8, <1>9, <1>10, <1>11, <1>12
        DEF ReadingInv, InCall, Reading, Polling, Ended, Compared, NoFields

(* The call, and the polling of the update flag: a reading begins.         *)
LEMMA ReadingAndCall ==
  ASSUME ReadingInv, Call
  PROVE  ReadingInv'
<1>1. /\ main = "idle" /\ main' = "select A" /\ time' \in Times
      /\ UNCHANGED <<current, last, field, clean, began, elapsed>>
  BY DEF Call, Step, Main, history
<1>2. clean = 0 /\ last = NoFields
  BY <1>1 DEF ReadingInv, InCall, Reading, Polling, Ended
<1>3. time' \in Stamps /\ time'["second"] < Minute
  <2>1. \A f \in Shown : Highest[f] \in Nat
    BY UpdateAssumption
  <2>2. Values \subseteq Nat
    BY <2>1 DEF Values
  <2>3. time' \in [Shown -> Values] /\ time'["second"] <= Highest["second"]
    BY <1>1, Places DEF Times
  <2>4. time' \in Stamps
    BY <2>2, <2>3 DEF Stamps
  <2>5. time'["second"] \in Nat /\ Highest["second"] \in Nat
    BY <2>1, <2>4, Places DEF Stamps
  <2> QED BY <2>3, <2>4, <2>5, Minutes
<1>4. ReadingTypeOK'
  BY <1>1, <1>3 DEF ReadingInv, ReadingTypeOK, Stamps, Order, NoFields, Minute
<1>5. ~BeforeSeconds' /\ ~SinceSeconds'
  <2>1. clean' = 0
    BY <1>1, <1>2
  <2>2. ~(0 >= 1)
    OBVIOUS
  <2> QED BY <2>1, <2>2 DEF BeforeSeconds, SinceSeconds
<1> QED BY <1>1, <1>2, <1>4, <1>5 DEF ReadingInv, InCall, Reading, Polling, Ended

LEMMA ReadingAndPoll ==
  ASSUME ReadingInv, RTC_Get_Update_In_Progress_Flag
  PROVE  ReadingInv'
<1>1. UNCHANGED <<time, current, last, began, elapsed>>
  BY DEF RTC_Get_Update_In_Progress_Flag, ClockKept
<1>2. Counted' = Counted /\ LastFromBegan' = LastFromBegan
  BY <1>1 DEF Counted, LastFromBegan, NoFields, Minute
<1>3. CASE main' \in Polling /\ UNCHANGED <<field, clean>>
  <2>1. main \in Polling
    BY DEF RTC_Get_Update_In_Progress_Flag, ReadByte, Step, Main, Polling
  <2>2. main \notin Reading \cup Ended /\ main' \notin Reading \cup Ended
    BY <1>3, <2>1 DEF Polling, Reading, Ended
  <2>3. ReadingTypeOK'
    BY <1>1, <1>3 DEF ReadingInv, ReadingTypeOK, Stamps, Order, NoFields, Minute
  <2>4. BeforeSeconds' = BeforeSeconds /\ ~SinceSeconds'
    BY <1>3, <2>1, <2>2 DEF BeforeSeconds, SinceSeconds, Reading, Polling
  <2> QED BY <1>1, <1>2, <1>3, <2>2, <2>3, <2>4
          DEF ReadingInv, InCall, Reading, Polling, Ended, NoFields
<1>4. CASE main' \notin Polling
  <2>1. main = "read A" /\ main' = "select field" /\ main' # "store" /\ main' # "compare"
    BY <1>4 DEF RTC_Get_Update_In_Progress_Flag, ReadByte, Step, Main, Polling
  <2>2. field' = 1 /\ clean' = IF clean < 2 THEN clean + 1 ELSE 2
    BY <1>4 DEF RTC_Get_Update_In_Progress_Flag, ReadByte, Step, Main, Polling
  <2>3. clean \in 0..2
    BY DEF ReadingInv, ReadingTypeOK
  <2>4. clean' \in 0..2 /\ (clean' = 2 => clean >= 1)
    BY <2>2, <2>3
  <2>5. field' \in 1..6 /\ (Order[field])' \in Shown
    BY <2>2, Places DEF Order
  <2>6. ReadingTypeOK'
    BY <1>1, <2>4, <2>5 DEF ReadingInv, ReadingTypeOK, Stamps, NoFields, Minute
  <2>7. Stored' = {}
    <3>1. \A k \in 1..6 : ~(k < field')
      BY <2>2
    <3> QED BY <2>1, <3>1, StoredNext
  <2>8. (BeforeSeconds' => BeforeSeconds) /\ ~SinceSeconds'
    BY <2>1, <2>4, <2>7 DEF BeforeSeconds, SinceSeconds, Reading, Polling
  <2> QED BY <1>1, <1>2, <2>1, <2>6, <2>8
          DEF ReadingInv, InCall, Reading, Polling, Ended, NoFields
<1>5. main' \in Polling => UNCHANGED <<field, clean>>
  BY DEF RTC_Get_Update_In_Progress_Flag, ReadByte, Step, Main, Polling
<1> QED BY <1>3, <1>4, <1>5

(* What the history makes of a read.                                       *)
LEMMA WitnessNext ==
  ASSUME ReadingInv, Witness
  PROVE  \/ clean' = 0 /\ began' = Start /\ elapsed' = 0
         \/ /\ Genuine /\ field = 1 /\ elapsed = Minute
            /\ clean' = 1 /\ began' = time /\ elapsed' = 0
         \/ /\ Genuine /\ field = 1 /\ elapsed # Minute
            /\ clean' = clean /\ clean >= 1 /\ began' = time /\ elapsed' = 0
         \/ /\ Genuine /\ field # 1
            /\ clean >= 1 /\ UNCHANGED <<clean, began, elapsed>>
<1>1. clean = 0 \/ clean >= 1
  BY CleanIs
<1>2. CASE ~Genuine
  BY <1>2 DEF Witness
<1>3. CASE Genuine /\ field = 1 /\ elapsed = Minute
  <2>1. clean' = 1
    BY <1>3 DEF Witness
  <2> QED BY <1>3, <2>1 DEF Witness
<1>4. CASE Genuine /\ ~(field = 1 /\ elapsed = Minute)
  <2>1. clean' = clean
    BY <1>4 DEF Witness
  <2> QED BY <1>1, <1>4, <2>1 DEF Witness
<1> QED BY <1>2, <1>3, <1>4

(* The read of a field of the time.                                        *)
LEMMA ReadingAndField ==
  ASSUME ReadingInv, ReadField
  PROVE  ReadingInv'
<1> DEFINE f == Order[field]
<1>1. UNCHANGED <<time, last, field>>
  BY DEF ReadField, ClockKept
<1>2. /\ f \in Shown /\ field \in 1..6 /\ time \in Stamps /\ current \in Stamps
      /\ clean \in 0..2 /\ "second" \in Shown
  BY Places DEF ReadingInv, ReadingTypeOK
<1>3. CASE main' = "read field"
  <2>1. main = "select field" /\ UNCHANGED <<current, clean, began, elapsed>>
    BY <1>3 DEF ReadField, RTC_Get_Register, ReadByte, Step, Main, history
  <2>2. Stored' = Stored
    BY <1>1, <1>3, <2>1, StoredNext DEF Stored
  <2>3. ReadingTypeOK'
    BY <1>1, <2>1 DEF ReadingInv, ReadingTypeOK, Stamps, Order, NoFields, Minute
  <2>4. BeforeSeconds' = BeforeSeconds /\ SinceSeconds' = SinceSeconds
    BY <1>3, <2>1, <2>2 DEF BeforeSeconds, SinceSeconds, Reading, Polling
  <2>5. Counted' = Counted /\ LastFromBegan' = LastFromBegan /\ LastIfSame' = LastIfSame
        /\ CurrentFromBegan' = CurrentFromBegan
    BY <1>1, <2>1, <2>2
       DEF Counted, LastFromBegan, LastIfSame, CurrentFromBegan, Minute, NoFields
  <2> QED BY <1>1, <1>3, <2>1, <2>3, <2>4, <2>5
          DEF ReadingInv, InCall, Reading, Polling, Ended, NoFields
<1>4. CASE main' # "read field"
  <2>1. /\ main = "read field" /\ main' = "store"
        /\ current' = [current EXCEPT ![f] = Fetched] /\ Witness
    BY <1>4 DEF ReadField, RTC_Get_Register, ReadByte, Step, Main
  <2>2. Fetched \in Nat /\ (Genuine => Fetched = time[f])
    BY <1>2 DEF Fetched, Stamps
  <2> HIDE DEF f
  <2>3. current' \in Stamps /\ current'[f] = Fetched
        /\ \A g \in Shown : g # f => current'[g] = current[g]
    BY <1>2, <2>1, <2>2 DEF Stamps
  <2>4. /\ clean' \in 0..2 /\ (clean' >= 1 => Genuine)
        /\ clean' = 2 => clean = 2 /\ (field = 1 => elapsed # Minute)
        /\ clean' >= 1 /\ field # 1 => clean' = clean
    <3>1. clean \in {0, 1, 2}
      BY CleanIs
    <3>2. ~(0 >= 1) /\ 0 \in 0..2 /\ 1 \in 0..2 /\ 2 \in 0..2 /\ 0 # 2 /\ 1 # 2
      OBVIOUS
    <3>3. clean' >= 1 => clean' # 0
      BY <3>2
    <3>4. clean' \in 0..2
      BY <2>1, <3>1, <3>2, WitnessNext
    <3>5. clean' # 0 => Genuine
      BY <2>1, WitnessNext
    <3>6. clean' = 2 => clean = 2 /\ (field = 1 => elapsed # Minute)
      BY <2>1, <3>2, WitnessNext
    <3>7. clean' # 0 /\ field # 1 => clean' = clean
      BY <2>1, WitnessNext
    <3> QED BY <3>3, <3>4, <3>5, <3>6, <3>7
  <2>5. began' \in Stamps /\ began'["second"] < Minute /\ elapsed' \in 0..Minute
    <3>1. \/ began' = Start \/ began' = time \/ began' = began
      BY <2>1, WitnessNext
    <3>2. elapsed' = 0 \/ elapsed' = elapsed
      BY <2>1, WitnessNext
    <3>3. 0 \in 0..Minute
      BY Minutes
    <3> QED BY <3>1, <3>2, <3>3, StartIsStamp DEF ReadingInv, ReadingTypeOK
  <2>6. ReadingTypeOK'
    BY <1>1, <2>3, <2>4, <2>5
       DEF ReadingInv, ReadingTypeOK, Order, NoFields, Minute, Stamps
  <2>7. ASSUME NEW g \in Stored'
        PROVE  g \in Shown /\ (g = f \/ (g \in Stored /\ g # f))
    <3>1. g \in Shown
      BY <2>7, StoredNext
    <3>2. PICK n \in 1..6 : g = Order[n] /\ (n < field \/ n = field)
      <4>1. main' # "compare" /\ field' = field
        BY <1>1, <2>1
      <4> QED BY <2>7, <4>1, StoredNext
    <3>3. n < field => g \in Stored
      BY <2>1, <3>1, <3>2 DEF Stored
    <3>4. n = field => g = f
      BY <3>2 DEF f
    <3> QED BY <1>2, <3>1, <3>2, <3>3, <3>4
  <2>8. "second" \in Stored'
    <3>1. field' = field /\ 1 \in 1..6 /\ (1 < field \/ 1 = field)
      BY <1>1, <1>2
    <3> QED BY <2>1, <3>1, Places, StoredNext
  <2>9. CASE field = 1
    <3>1. f = "second" /\ "second" \notin Stored
      <4>1. f = "second"
        BY <2>9, Places DEF f
      <4>2. \A n \in 1..6 : ~(n < field)
        BY <2>9
      <4> QED BY <2>1, <4>1, <4>2 DEF Stored
    <3>2. clean' >= 1 => Counted' /\ CurrentFromBegan'
      <4> SUFFICES ASSUME clean' >= 1 PROVE Counted' /\ CurrentFromBegan'
        OBVIOUS
      <4>1. began' = time /\ elapsed' = 0
        <5>1. clean' # 0
          BY <2>4
        <5> QED BY <2>1, <2>9, <5>1, WitnessNext
      <4>2. current'["second"] = time["second"]
        BY <2>2, <2>3, <2>4, <3>1
      <4>3. \A g \in Stored' : g = f
        <5> SUFFICES ASSUME NEW g \in Stored', g # f PROVE FALSE
          OBVIOUS
        <5>1. g \in Stored /\ g \in Shown
          BY <2>7
        <5>2. PICK n \in 1..6 : n < field
          BY <2>1, <5>1 DEF Stored
        <5> QED BY <2>9, <5>2
      <4>4. \A g \in Stored' : current'[g] = began'[g]
        BY <3>1, <4>1, <4>2, <4>3
      <4>5. time["second"] \in Nat
        BY <1>2 DEF Stamps
      <4>6. CurrentFromBegan'
        BY <4>1, <4>2, <4>4 DEF CurrentFromBegan
      <4>7. Counted'
        BY <1>1, <4>1, <4>5 DEF Counted, Minute
      <4> QED BY <4>6, <4>7
    <3>3. clean' = 2 => LastIfSame'
      <4> SUFFICES ASSUME clean' = 2 PROVE LastIfSame'
        OBVIOUS
      <4>1. clean = 2 /\ elapsed # Minute /\ began' = time
        <5>1. clean' # 0 /\ clean = 2 /\ elapsed # Minute
          BY <2>4, <2>9
        <5> QED BY <2>1, <2>9, <5>1, WitnessNext
      <4>2. BeforeSeconds
        BY <2>1, <3>1, <4>1 DEF BeforeSeconds, Reading
      <4>3. Counted /\ LastFromBegan
        BY <4>2 DEF ReadingInv
      <4>4. ASSUME last["second"] = current'["second"]
            PROVE  \A g \in Shown : last[g] = time[g]
        <5>1. time["second"] = began["second"]
          BY <2>2, <2>3, <2>4, <3>1, <4>3, <4>4 DEF LastFromBegan
        <5>2. /\ time["second"] \in Nat /\ began["second"] \in Nat
              /\ elapsed \in Nat /\ elapsed < Minute
          <6>1. began \in Stamps /\ elapsed \in 0..Minute
            BY DEF ReadingInv, ReadingTypeOK
          <6>2. elapsed < Minute
            BY <4>1, <6>1, Minutes
          <6> QED BY <1>2, <6>1, <6>2 DEF Stamps
        <5>3. elapsed = 0
          BY <4>3, <5>1, <5>2, Minutes DEF Counted
        <5> QED BY <4>3, <5>3 DEF Counted, LastFromBegan
      <4> QED BY <1>1, <4>1, <4>3, <4>4 DEF LastIfSame, LastFromBegan, NoFields
    <3>4. ~BeforeSeconds'
      BY <2>1, <2>8 DEF BeforeSeconds, Polling
    <3>5. SinceSeconds' => clean' >= 1
      BY DEF SinceSeconds
    <3> QED BY <1>1, <2>1, <2>6, <3>2, <3>3, <3>4, <3>5
            DEF ReadingInv, InCall, Reading, Polling, Ended, NoFields
  <2>10. CASE field # 1
    <3>1. f # "second" /\ "second" \in Stored
      <4>1. f # "second"
        BY <1>2, <2>10, Places DEF f
      <4>2. 1 < field
        BY <1>2, <2>10
      <4> QED BY <4>1, <4>2, Places DEF Stored
    <3>2. ASSUME clean' >= 1
          PROVE  /\ UNCHANGED <<clean, began, elapsed>> /\ SinceSeconds
                 /\ Counted' /\ CurrentFromBegan'
      <4>1. UNCHANGED <<clean, began, elapsed>> /\ clean >= 1
        <5>1. clean' # 0
          BY <3>2
        <5> QED BY <2>1, <2>10, <5>1, WitnessNext
      <4>2. SinceSeconds
        BY <2>1, <3>1, <4>1 DEF SinceSeconds, Reading
      <4>3. Counted /\ CurrentFromBegan
        BY <4>2 DEF ReadingInv
      <4>4. current'["second"] = current["second"]
        BY <1>2, <2>3, <3>1
      <4>5. ASSUME elapsed = 0, NEW g \in Stored'
            PROVE  current'[g] = began[g]
        <5>1. CASE g = f
          BY <2>2, <2>3, <2>4, <3>2, <4>3, <4>5, <5>1 DEF Counted
        <5>2. CASE g # f
          BY <2>3, <2>7, <4>3, <4>5, <5>2 DEF CurrentFromBegan
        <5> QED BY <5>1, <5>2
      <4>6. Counted'
        BY <1>1, <4>1, <4>3 DEF Counted, Minute
      <4>7. CurrentFromBegan'
        BY <4>1, <4>3, <4>4, <4>5 DEF CurrentFromBegan
      <4> QED BY <4>1, <4>2, <4>6, <4>7
    <3>3. clean' = 2 => LastIfSame'
      <4> SUFFICES ASSUME clean' = 2 PROVE LastIfSame'
        OBVIOUS
      <4>1. SinceSeconds /\ UNCHANGED <<clean, began>>
        BY <3>2
      <4>2. LastIfSame
        BY <4>1 DEF ReadingInv
      <4>3. current'["second"] = current["second"]
        BY <1>2, <2>3, <3>1
      <4> QED BY <1>1, <4>1, <4>2, <4>3 DEF LastIfSame, NoFields
    <3>4. ~BeforeSeconds'
      BY <2>1, <2>8 DEF BeforeSeconds, Polling
    <3>5. SinceSeconds' => clean' >= 1
      BY DEF SinceSeconds
    <3> QED BY <1>1, <2>1, <2>6, <3>2, <3>3, <3>4, <3>5
            DEF ReadingInv, InCall, Reading, Polling, Ended, NoFields
  <2> QED BY <2>9, <2>10
<1> QED BY <1>3, <1>4

(* The next field, or the comparison: what is stored stays stored.         *)
LEMMA ReadingAndStore ==
  ASSUME ReadingInv, Store
  PROVE  ReadingInv'
<1>1. main = "store" /\ UNCHANGED <<time, current, last, clean, began, elapsed>>
  BY DEF Store, Step, Main, ClockKept, history
<1>2. PICK n \in 1..6 : field = n
  BY DEF ReadingInv, ReadingTypeOK
<1>3. "second" \in Stored
  <2>1. 1 < field \/ 1 = field
    BY <1>2
  <2> QED BY <1>1, <2>1, Places DEF Stored
<1>4. CASE main' = "page fault"
  <2>1. field' = field
    BY <1>4 DEF Store, Step, Main
  <2>2. ReadingTypeOK'
    BY <1>1, <2>1 DEF ReadingInv, ReadingTypeOK, Stamps, Order, NoFields, Minute
  <2> QED BY <1>4, <2>2
          DEF ReadingInv, BeforeSeconds, SinceSeconds, InCall, Reading, Polling, Ended
<1>5. ASSUME main' \in {"select field", "compare"}, Stored' \subseteq Stored,
             "second" \in Stored', field' \in 1..6, (Order[field])' \in Shown
      PROVE  ReadingInv'
  <2>1. ReadingTypeOK'
    BY <1>1, <1>5 DEF ReadingInv, ReadingTypeOK, Stamps, NoFields, Minute
  <2>2. main \in Reading /\ main' \in Reading /\ main' \notin Polling \cup Ended
    BY <1>1, <1>5 DEF Reading, Polling, Ended
  <2>3. ~BeforeSeconds' /\ SinceSeconds' = SinceSeconds
    BY <1>1, <1>3, <1>5, <2>2 DEF BeforeSeconds, SinceSeconds
  <2>4. (Counted => Counted') /\ (LastIfSame => LastIfSame')
        /\ (CurrentFromBegan => CurrentFromBegan')
    BY <1>1, <1>5 DEF Counted, LastIfSame, CurrentFromBegan, Minute, NoFields
  <2> QED BY <1>1, <2>1, <2>2, <2>3, <2>4 DEF ReadingInv, InCall, NoFields
<1>6. CASE main' = "select field"
  <2>1. field' \in Least(Later)
    BY <1>4, <1>6 DEF Store, Step, Main
  <2>2. PICK k \in 1..6 : /\ field' = k /\ k > field /\ Order[k] \in Shown
                         /\ \A m \in Later : k <= m
    BY <2>1 DEF Least, Later
  <2>3. (Order[field])' \in Shown
    BY <2>2 DEF Order
  <2>4. ASSUME NEW f \in Stored'
        PROVE  f \in Stored
    <3>1. f \in Shown /\ main' # "compare" /\ main' # "store"
      BY <1>6, <2>4, StoredNext
    <3>2. PICK m \in 1..6 : f = Order[m] /\ m < field'
      BY <2>4, <3>1, StoredNext
    <3>3. m \notin Later
      BY <2>2, <3>2
    <3>4. m < field \/ m = field
      <4>1. ~(m > field)
        BY <3>1, <3>2, <3>3 DEF Later
      <4> QED BY <1>2, <4>1
    <3> QED BY <1>1, <3>1, <3>2, <3>4 DEF Stored
  <2>5. "second" \in Stored'
    <3>1. 1 < field' /\ 1 \in 1..6
      BY <1>2, <2>2
    <3> QED BY <3>1, Places, StoredNext
  <2> QED BY <1>5, <1>6, <2>2, <2>3, <2>4, <2>5
<1>7. CASE main' = "compare"
  <2>1. Later = {} /\ field' = 1
    BY <1>7 DEF Store, Step, Main
  <2>2. field' \in 1..6 /\ (Order[field])' \in Shown
    BY <2>1, Places DEF Order
  <2>3. ASSUME NEW f \in Shown
        PROVE  f \in Stored
    <3>1. PICK m \in 1..6 : f = Order[m]
      BY Places
    <3>2. m < field \/ m = field
      <4>1. ~(m > field)
        BY <2>1, <3>1 DEF Later
      <4> QED BY <1>2, <4>1
    <3> QED BY <1>1, <3>1, <3>2 DEF Stored
  <2>4. Stored' = Shown
    BY <1>7, StoredNext
  <2> QED BY <1>5, <1>7, <2>2, <2>3, <2>4, Places
<1> QED BY <1>4, <1>6, <1>7 DEF Store, Step, Main

(* The comparison: the last fields are now those of this reading; or the   *)
(* seconds agree, and all that has been read is of the instant of both.    *)
LEMMA ReadingAndCompare ==
  ASSUME ReadingInv, Compare
  PROVE  ReadingInv'
<1>1. main = "compare" /\ UNCHANGED <<time, current, field, clean, began, elapsed>>
  BY DEF Compare, Step, Main, ClockKept, history
<1>2. Stored = Shown /\ current \in Stamps /\ "second" \in Stored
  BY <1>1, Places DEF ReadingInv, ReadingTypeOK, Stored
<1>3. clean >= 1 => SinceSeconds
  BY <1>1, <1>2 DEF SinceSeconds, Reading
<1>4. CASE main' = "select A"
  <2>1. last' = current
    BY <1>4 DEF Compare, Step, Main
  <2>2. main' \in Polling /\ main' \notin Reading \cup Ended
    BY <1>4 DEF Reading, Polling, Ended
  <2>3. ReadingTypeOK'
    BY <1>1, <1>2, <2>1 DEF ReadingInv, ReadingTypeOK, Stamps, Order, Minute
  <2>4. ASSUME clean >= 1
        PROVE  Counted' /\ LastFromBegan'
    <3>1. Counted /\ CurrentFromBegan
      BY <1>3, <2>4 DEF ReadingInv
    <3>2. current # NoFields
      BY <1>2, Places DEF Stamps, NoFields
    <3>3. Counted'
      BY <1>1, <3>1 DEF Counted, Minute
    <3>4. LastFromBegan'
      BY <1>1, <1>2, <2>1, <3>1, <3>2 DEF LastFromBegan, CurrentFromBegan, NoFields
    <3> QED BY <3>3, <3>4
  <2>5. (BeforeSeconds' => clean >= 1) /\ ~SinceSeconds'
    BY <1>1, <2>2 DEF BeforeSeconds, SinceSeconds
  <2> QED BY <1>1, <2>2, <2>3, <2>4, <2>5 DEF ReadingInv, InCall
<1>5. CASE main' # "select A"
  <2>1. main' = "select format" /\ Agree /\ last' = NoFields
    BY <1>5 DEF Compare, Step, Main
  <2>2. main' \in Ended /\ main' \notin Reading \cup Polling
    BY <2>1 DEF Reading, Polling, Ended
  <2>3. ReadingTypeOK'
    BY <1>1, <2>1 DEF ReadingInv, ReadingTypeOK, Stamps, Order, NoFields, Minute
  <2>4. ASSUME clean = 2
        PROVE  \A f \in Compared : current[f] = began[f]
    <3>1. LastIfSame
      <4>1. SinceSeconds
        BY <1>3, <2>4
      <4> QED BY <2>4, <4>1 DEF ReadingInv
    <3>2. \A f \in Compared : f \in Shown /\ last[f] = current[f]
      BY <2>1 DEF Agree, Compared
    <3> QED BY <3>1, <3>2, Places DEF LastIfSame
  <2>5. ~BeforeSeconds' /\ ~SinceSeconds'
    BY <2>2 DEF BeforeSeconds, SinceSeconds
  <2> QED BY <1>1, <2>1, <2>2, <2>3, <2>4, <2>5
          DEF ReadingInv, InCall, Compared, NoFields
<1> QED BY <1>4, <1>5

(* The format, the conversion and the year.                                *)
LEMMA ReadingAndConversion ==
  ASSUME ReadingInv, ReadFormat \/ Convert \/ Century
  PROVE  ReadingInv'
<1>1. CASE ReadFormat
  <2>1. /\ main \in Ended /\ main' \in Ended
        /\ UNCHANGED <<time, current, last, field, clean, began, elapsed>>
    BY <1>1 DEF ReadFormat, ReadByte, Step, Main, ClockKept, Ended, history
  <2>2. ReadingTypeOK'
    BY <2>1 DEF ReadingInv, ReadingTypeOK, Stamps, Order, NoFields, Minute
  <2>3. main' \notin Reading \cup Polling /\ main \notin Reading \cup Polling \cup {"page fault"}
    BY <2>1 DEF Ended, Reading, Polling
  <2>4. ~BeforeSeconds' /\ ~SinceSeconds'
    BY <2>3 DEF BeforeSeconds, SinceSeconds
  <2> QED BY <2>1, <2>2, <2>3, <2>4 DEF ReadingInv, InCall, Compared, NoFields
<1>2. CASE Convert
  <2>1. /\ main = "convert" /\ main' = "century" /\ UNCHANGED <<last, field>>
        /\ time' = Start /\ current' = Start
        /\ clean' = 0 /\ began' = Start /\ elapsed' = 0
    BY <1>2 DEF Convert, Main
  <2>2. ReadingTypeOK'
    BY <2>1, StartIsStamp, Minutes
       DEF ReadingInv, ReadingTypeOK, Stamps, Order, NoFields, Start, Minute
  <2>3. last = NoFields
    BY <2>1 DEF ReadingInv, Reading, Polling
  <2> QED BY <2>1, <2>2, <2>3
          DEF ReadingInv, BeforeSeconds, SinceSeconds, InCall, Reading, Polling, Ended, NoFields
<1>3. CASE Century
  <2>1. /\ main = "century" /\ main' = "idle"
        /\ UNCHANGED <<time, current, last, field, clean, began, elapsed>>
    BY <1>3 DEF Century, Step, Main, history
  <2> QED BY <2>1, KeepReading DEF InCall, Ended, Reading, Polling
<1> QED BY <1>1, <1>2, <1>3

LEMMA ReadingNext == ReadingInv /\ [Next]_vars => ReadingInv'
<1> SUFFICES ASSUME ReadingInv, [Next]_vars PROVE ReadingInv'
  OBVIOUS
<1> QED BY ReadingAndOthers, ReadingAndUpdate, ReadingAndCall, ReadingAndPoll,
           ReadingAndField, ReadingAndStore, ReadingAndCompare, ReadingAndConversion
        DEF Next, MainThread, RTC_Update

(* Two readings that no access of the handler and no update has disturbed  *)
(* between a selection and its read, and whose seconds were read less than *)
(* a minute apart, show the instant at which the seconds of the second one *)
(* were read, if they agree: for every set of fields and every highest     *)
(* value of each, which they start again after (rtc.c:59-100).             *)
THEOREM ReadingsAreOfOneInstant == Spec => []TimeIsOfOneInstant
<1>1. ReadingInv => TimeIsOfOneInstant
  BY DEF ReadingInv, TimeIsOfOneInstant, Ended
<1> QED BY <1>1, InitReading, ReadingNext, PTL DEF Spec

-----------------------------------------------------------------------------
(* That the conversion is right.  The times of a clock: two digits, hours  *)
(* below 24, and days, months and years that bit 7 is no part of.          *)
ClockTimes ==
  {t \in [Fields -> 0..99] : t["hour"] < 24 /\ t["day"] < 80}

LEMMA Digits ==
  ASSUME NEW n \in 0..99
  PROVE  /\ Bcd(n) \in Nat /\ FromBcd(Bcd(n)) = n
         /\ n < 80 => LowFromBcd(Bcd(n)) = n
<1>1. PICK a \in 0..9, b \in 0..9 : n = 10 * a + b /\ n \div 10 = a /\ n % 10 = b
  OBVIOUS
<1>2. Bcd(n) = 16 * a + b
  BY <1>1 DEF Bcd
<1>3. (16 * a + b) % 16 = b /\ (16 * a + b) \div 16 = a
  OBVIOUS
<1>4. n < 80 => (16 * a + b) % 128 = 16 * a + b
  BY <1>1
<1> QED BY <1>1, <1>2, <1>3, <1>4 DEF FromBcd, LowFromBcd

(* The hours of the 12-hour formats, with and without the afternoon's bit. *)
LEMMA HourDigits ==
  ASSUME NEW n \in 1..12
  PROVE  /\ LowFromBcd(Bcd(n)) + 128 * (Bcd(n) \div 128) = n
         /\ LowFromBcd(Bcd(n) + 128) + 128 * ((Bcd(n) + 128) \div 128) = n + 128
<1>1. PICK a \in 0..1, b \in 0..9 : n = 10 * a + b /\ n \div 10 = a /\ n % 10 = b
  OBVIOUS
<1>2. Bcd(n) = 16 * a + b
  BY <1>1 DEF Bcd
<1>3. /\ (16 * a + b) % 128 = 16 * a + b /\ (16 * a + b) \div 128 = 0
      /\ (16 * a + b + 128) % 128 = 16 * a + b /\ (16 * a + b + 128) \div 128 = 1
      /\ (16 * a + b) % 16 = b /\ (16 * a + b) \div 16 = a
  OBVIOUS
<1>4. LowFromBcd(16 * a + b) = n /\ LowFromBcd(16 * a + b + 128) = n
  BY <1>1, <1>3 DEF LowFromBcd, FromBcd
<1> QED BY <1>2, <1>3, <1>4

(* What the formats make of an hour, and the hour that comes out.          *)
OnTheDial(format, h) ==
  IF format.day24 THEN h
  ELSE (IF h % 12 = 0 THEN 12 ELSE h % 12) + IF h >= 12 THEN 128 ELSE 0

HourBack(format, h) == IF ~format.day24 /\ h % 12 = 0 THEN 12 - h ELSE h

LEMMA HourIsRead ==
  ASSUME NEW format \in Formats, NEW h \in 0..23
  PROVE  LET x == HourOf(format, h) IN
         (IF format.binary THEN x ELSE LowFromBcd(x) + 128 * (x \div 128)) = OnTheDial(format, h)
<1> DEFINE n == IF h % 12 = 0 THEN 12 ELSE h % 12
<1>1. n \in 1..12
  OBVIOUS
<1> HIDE DEF n
<1>2. CASE format.binary
  BY <1>2 DEF HourOf, OnTheDial, Number
<1>3. CASE ~format.binary /\ format.day24
  <2>1. HourOf(format, h) = Bcd(h) /\ OnTheDial(format, h) = h
    BY <1>3 DEF HourOf, OnTheDial, Number
  <2>2. LowFromBcd(Bcd(h)) = h
    BY Digits
  <2>3. Bcd(h) \in 0..127
    BY DEF Bcd
  <2>4. Bcd(h) \div 128 = 0
    BY <2>3
  <2> QED BY <1>3, <2>1, <2>2, <2>4
<1>4. CASE ~format.binary /\ ~format.day24
  <2>1. HourOf(format, h) = Bcd(n) + (IF h >= 12 THEN 128 ELSE 0)
        /\ OnTheDial(format, h) = n + (IF h >= 12 THEN 128 ELSE 0)
    BY <1>4 DEF HourOf, OnTheDial, Number, n
  <2>2. Bcd(n) \in Nat
    BY <1>1 DEF Bcd
  <2>3. CASE h >= 12
    BY <1>1, <1>4, <2>1, <2>3, HourDigits
  <2>4. CASE ~(h >= 12)
    <3>1. Bcd(n) + 0 = Bcd(n) /\ n + 0 = n
      BY <1>1, <2>2
    <3> QED BY <1>1, <1>4, <2>1, <2>4, <3>1, HourDigits
  <2> QED BY <2>3, <2>4
<1> QED BY <1>2, <1>3, <1>4

(* The two corrections of the afternoon: the second one finds nothing.     *)
LEMMA AfternoonOnce ==
  ASSUME NEW numbers, NEW v \in 0..255, numbers = [numbers EXCEPT !["hour"] = v],
         "hour" \in DOMAIN numbers
  PROVE  Afternoon(Afternoon(numbers)) =
           [numbers EXCEPT !["hour"] = IF v >= 128 THEN ((v % 128) + 12) % 24 ELSE v]
<1>1. numbers["hour"] = v
  OBVIOUS
<1>2. CASE v >= 128
  <2>1. PICK w \in 0..23 : w = ((v % 128) + 12) % 24
    OBVIOUS
  <2>2. Afternoon(numbers) = [numbers EXCEPT !["hour"] = w]
    BY <1>1, <1>2, <2>1 DEF Afternoon
  <2>3. Afternoon(numbers)["hour"] = w /\ ~(w >= 128)
    BY <2>2
  <2>4. Afternoon(Afternoon(numbers)) = Afternoon(numbers)
    BY <2>3 DEF Afternoon
  <2> QED BY <1>2, <2>1, <2>2, <2>4
<1>3. CASE ~(v >= 128)
  <2>1. Afternoon(numbers) = numbers
    BY <1>1, <1>3 DEF Afternoon
  <2> QED BY <1>3, <2>1
<1> QED BY <1>2, <1>3

LEMMA HourComesBack ==
  ASSUME NEW format \in Formats, ~format.day24, NEW h \in 0..23
  PROVE  /\ OnTheDial(format, h) \in 0..255
         /\ LET v == OnTheDial(format, h) IN
            (IF v >= 128 THEN ((v % 128) + 12) % 24 ELSE v) = HourBack(format, h)
<1>1. CASE h = 0
  BY <1>1 DEF OnTheDial, HourBack
<1>2. CASE h \in 1..11
  BY <1>2 DEF OnTheDial, HourBack
<1>3. CASE h = 12
  BY <1>3 DEF OnTheDial, HourBack
<1>4. CASE h \in 13..23
  <2>1. h % 12 = h - 12
    BY <1>4
  <2>2. OnTheDial(format, h) = h + 116
    BY <1>4, <2>1 DEF OnTheDial
  <2>3. ((h + 116) % 128) = h - 12 /\ ((h - 12) + 12) % 24 = h
    BY <1>4
  <2> QED BY <1>4, <2>1, <2>2, <2>3 DEF HourBack
<1> QED BY <1>1, <1>2, <1>3, <1>4


LEMMA TimeComesBack ==
  ASSUME NEW format \in Formats, NEW t \in ClockTimes
  PROVE  Converted(format, Encoded(format, t)) =
           [t EXCEPT !["hour"] = HourBack(format, t["hour"])]
<1> DEFINE h == t["hour"]
<1> DEFINE bytes == Encoded(format, t)
<1> DEFINE numbers == IF format.binary THEN bytes ELSE Decimals(bytes)
<1>1. /\ t \in [Fields -> 0..99] /\ h \in 0..23 /\ t["day"] \in 0..79
      /\ "hour" \in Fields /\ "day" \in Fields
  BY DEF ClockTimes, Fields
<1>2. /\ bytes["hour"] = HourOf(format, h)
      /\ \A f \in Fields \ {"hour"} : bytes[f] = Number(format, t[f])
      /\ bytes = [f \in Fields |-> bytes[f]]
  BY <1>1 DEF Encoded
<1> HIDE DEF bytes
<1>3. numbers = [t EXCEPT !["hour"] = OnTheDial(format, h)]
  <2>1. CASE format.binary
    <3>1. \A f \in Fields \ {"hour"} : bytes[f] = t[f]
      BY <1>2, <2>1 DEF Number
    <3>2. bytes["hour"] = OnTheDial(format, h)
      BY <1>1, <1>2, <2>1, HourIsRead
    <3> QED BY <1>1, <1>2, <2>1, <3>1, <3>2
  <2>2. CASE ~format.binary
    <3>1. \A f \in Fields \ {"hour"} : bytes[f] = Bcd(t[f])
      BY <1>2, <2>2 DEF Number
    <3>2. ASSUME NEW f \in Fields
          PROVE  Decimals(bytes)[f] = IF f = "hour" THEN OnTheDial(format, h) ELSE t[f]
      <4>1. CASE f = "hour"
        <5>1. Decimals(bytes)[f] = LowFromBcd(bytes[f]) + 128 * (bytes[f] \div 128)
          BY <4>1 DEF Decimals
        <5> QED BY <1>1, <1>2, <2>2, <4>1, <5>1, HourIsRead
      <4>2. CASE f = "day"
        <5>1. Decimals(bytes)[f] = LowFromBcd(bytes[f])
          BY <4>2 DEF Decimals
        <5>2. bytes[f] = Bcd(t[f])
          BY <3>1, <4>2
        <5>3. LowFromBcd(Bcd(t[f])) = t[f]
          BY <1>1, <4>2, Digits
        <5> QED BY <4>2, <5>1, <5>2, <5>3
      <4>3. CASE f # "hour" /\ f # "day"
        <5>1. Decimals(bytes)[f] = FromBcd(bytes[f])
          BY <4>3 DEF Decimals
        <5>2. bytes[f] = Bcd(t[f])
          BY <3>1, <4>3
        <5>3. FromBcd(Bcd(t[f])) = t[f]
          BY <1>1, Digits
        <5> QED BY <4>3, <5>1, <5>2, <5>3
      <4> QED BY <4>1, <4>2, <4>3
    <3>3. Decimals(bytes) = [f \in Fields |-> Decimals(bytes)[f]]
      BY DEF Decimals
    <3> QED BY <1>1, <2>2, <3>2, <3>3
  <2> QED BY <2>1, <2>2
<1> HIDE DEF numbers
<1>4. CASE format.day24
  <2>1. Converted(format, bytes) = numbers
    BY <1>4 DEF Converted, numbers
  <2>2. OnTheDial(format, h) = h /\ HourBack(format, h) = h
    BY <1>4 DEF OnTheDial, HourBack
  <2> QED BY <1>3, <2>1, <2>2 DEF bytes
<1>5. CASE ~format.day24
  <2>1. Converted(format, bytes) = Afternoon(Afternoon(numbers))
    BY <1>5 DEF Converted, numbers
  <2>2. PICK v \in 0..255 : v = OnTheDial(format, h)
    BY <1>1, <1>5, HourComesBack
  <2>3. (IF v >= 128 THEN ((v % 128) + 12) % 24 ELSE v) = HourBack(format, h)
    BY <1>1, <1>5, <2>2, HourComesBack
  <2>4. numbers = [numbers EXCEPT !["hour"] = v] /\ "hour" \in DOMAIN numbers
    BY <1>1, <1>3, <2>2
  <2>5. Afternoon(Afternoon(numbers)) = [numbers EXCEPT !["hour"] = HourBack(format, h)]
    BY <2>3, <2>4, AfternoonOnce
  <2> QED BY <1>1, <1>3, <2>1, <2>5 DEF bytes
<1> QED BY <1>4, <1>5

LEMMA MomentsAreTimes == Moments \subseteq ClockTimes
<1> SUFFICES ASSUME NEW h \in 0..23
             PROVE  [second |-> (5 * h) % 60, minute |-> 59 - h, hour |-> h,
                     day |-> 1 + h, month |-> 1 + (h % 12), year |-> 4 * h] \in ClockTimes
  BY DEF Moments
<1>1. /\ (5 * h) % 60 \in 0..99 /\ 59 - h \in 0..99 /\ 1 + h \in 0..79
      /\ 1 + (h % 12) \in 0..99 /\ 4 * h \in 0..99
  OBVIOUS
<1> QED BY <1>1 DEF ClockTimes, Fields

(* What Convert leaves for every time and every format.                    *)
ConvertedInv ==
  main = "century" =>
    \E format \in Formats, assumed \in Formats :
      converted = [format |-> format, assumed |-> assumed,
                   results |-> [moment \in Moments |->
                                  Converted(assumed, Encoded(format, moment))]]

LEMMA ConvertedNext == ConvertedInv /\ [Next]_vars => ConvertedInv'
<1> SUFFICES ASSUME ConvertedInv, [Next]_vars, main' = "century"
             PROVE  ConvertedInv'
  BY DEF ConvertedInv
<1>1. CASE Convert
  BY <1>1 DEF Convert, ConvertedInv
<1>2. CASE (Interrupt \/ (Tick /\ UNCHANGED updateVars) \/ StartUpdate \/ EndUpdate
              \/ UNCHANGED vars)
  <2>1. main' = main
    BY <1>2 DEF Interrupt, Accept, RTC_Handler, Count, SelectC, ReadC, Tick, StartUpdate,
                EndUpdate, vars, cmosVars, kernel
  <2>2. converted' = converted
    BY <1>2 DEF Interrupt, StartUpdate, EndUpdate, vars, updateVars
  <2> QED BY <2>1, <2>2 DEF ConvertedInv, Moments, Converted, Encoded, Formats
<1>3. ~Driver
  BY DEF Driver, Initialize_RTC, NMI_Enable, NMI_Disable, Install, Disable_Interrupts,
         SelectB, ReadB, SelectBAgain, WriteB, Enable_Interrupts, Step, Main
<1>4. /\ ~Call /\ ~RTC_Get_Update_In_Progress_Flag /\ ~ReadField /\ ~Store
      /\ ~Compare /\ ~ReadFormat /\ ~Century
  BY DEF Call, RTC_Get_Update_In_Progress_Flag, ReadField, RTC_Get_Register, Store,
         Compare, ReadFormat, Century, ReadByte, Step, Main
<1> QED BY <1>1, <1>2, <1>3, <1>4 DEF Next, MainThread, RTC_Update

(* Whatever the format, every time a clock can show, and not only those    *)
(* that a run tries, is converted to itself, but for two hours of the      *)
(* 12-hour formats, which are exchanged (rtc.c:103-125).                   *)
THEOREM ConversionIsExact ==
  \A format \in Formats, t \in ClockTimes :
    Converted(format, Encoded(format, t)) =
      IF ~format.day24 /\ t["hour"] % 12 = 0
      THEN [t EXCEPT !["hour"] = 12 - t["hour"]] ELSE t
<1> SUFFICES ASSUME NEW format \in Formats, NEW t \in ClockTimes
             PROVE  Converted(format, Encoded(format, t)) =
                      IF ~format.day24 /\ t["hour"] % 12 = 0
                      THEN [t EXCEPT !["hour"] = 12 - t["hour"]] ELSE t
  OBVIOUS
<1>1. t = [t EXCEPT !["hour"] = t["hour"]]
  BY DEF ClockTimes
<1> QED BY <1>1, TimeComesBack DEF HourBack

(* So RTC_Update leaves in *rtc_current what the clock shows, whatever the *)
(* handler and the clock do meanwhile, if it has read the format from      *)
(* register B (rtc.c:101-125).                                             *)
THEOREM TimesAreConverted == Spec => []TimeIsConverted
<1>1. Init => ConvertedInv
  BY DEF Init, CmosInit, ConvertedInv
<1>2. ConvertedInv => TimeIsConverted
  <2> SUFFICES ASSUME ConvertedInv, main = "century", converted.assumed = converted.format,
                      NEW moment \in Moments
               PROVE  converted.results[moment] =
                        IF ~converted.format.day24 /\ moment.hour % 12 = 0
                        THEN [moment EXCEPT !.hour = 12 - @] ELSE moment
    BY DEF TimeIsConverted
  <2>1. PICK format \in Formats :
          /\ converted.format = format
          /\ converted.results = [m \in Moments |-> Converted(format, Encoded(format, m))]
    BY DEF ConvertedInv
  <2>2. moment \in ClockTimes
    BY MomentsAreTimes
  <2> QED BY <2>1, <2>2, ConversionIsExact
<1> QED BY <1>1, <1>2, ConvertedNext, PTL DEF Spec
=============================================================================

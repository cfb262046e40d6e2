----------------------------- MODULE LibcNumbers -----------------------------
(***************************************************************************)
(* The number conversions of the C library (libc/stdlib), a digit per      *)
(* step: itoa, uitoa, u64toa, atoi and abs.  A text is a sequence of       *)
(* digits, the least significant first until it is reversed; "-" is a      *)
(* digit, too.  The 64-bit type has twice as many bits as int.             *)
(***************************************************************************)
EXTENDS Integers, Sequences, SequencesExt

CONSTANTS
  UintSize,   \* bound: the values of an unsigned int, 2^32 in the code
  Bases,      \* the bases uitoa and u64toa are called with
  MaxMin,     \* bound: the largest min they are called with
  MaxText     \* bound: the longest text atoi is called with

ASSUME NumbersAssumption ==
  /\ UintSize \in Nat \ {0} /\ UintSize % 2 = 0
  /\ Bases \subseteq Nat /\ MaxMin \in Nat /\ MaxText \in Nat

IntMin  == -(UintSize \div 2)
U64Size == UintSize * UintSize

Ints  == IntMin .. -IntMin - 1
UInts == 0 .. UintSize - 1
U64s  == 0 .. U64Size - 1

VARIABLES
  job,      \* the conversion and its arguments
  left,     \* ud, val, or the characters atoi has still to read
  pad,      \* min
  pow,      \* atoi's pow
  out,      \* the text, or the number
  stage     \* "idle", "digits", "padding" or "done"

converting == <<job, left, pad, pow, out, stage>>

NoJob == [fn |-> "none", val |-> 0, base |-> 0, min |-> 0, text |-> <<>>]

(* An int as unsigned, and an unsigned as int.                             *)
AsU64(i) == i % U64Size
AsInt(u) == IF u \in Ints THEN u ELSE u - UintSize

Signed(j) == j.base = 10 /\ j.val < 0

(* -val of the smallest int overflows: the compiler negates in 32 bits or  *)
(* in 64.                                                                  *)
Negated(i) == {AsU64(-i)} \cup (IF -i \in Ints THEN {} ELSE {AsU64(i)})

Digit(base) == IF base = 16 THEN 16 ELSE 10

-----------------------------------------------------------------------------
Start(fn, val, base, min, text) ==
  /\ stage = "idle"
  /\ job' = [fn |-> fn, val |-> val, base |-> base, min |-> min, text |-> text]

(* Base 0 stands for 'u' and every other base itoa does not know.          *)
itoa(val, base) ==
  /\ Start("itoa", val, base, 0, <<>>)
  /\ left' \in IF Signed(job') THEN Negated(val) ELSE {AsU64(val)}
  /\ stage' = "digits" /\ pad' = 0 /\ pow' = 0 /\ out' = <<>>

uitoa(fn, val, base, min) ==
  /\ Start(fn, val, base, min, <<>>)
  /\ left' = val /\ pad' = min /\ pow' = 0 /\ out' = <<>>
  /\ stage' = IF base \in 2..16 THEN "digits" ELSE "done"

atoi(text) ==
  /\ Start("atoi", 0, 10, 0, text)
  /\ left' = text /\ pad' = 0 /\ pow' = 1 /\ out' = 0
  /\ stage' = "digits"

abs(val) ==
  /\ Start("abs", val, 0, 0, <<>>)
  /\ val # IntMin
  /\ out' = IF val < 0 THEN -val ELSE val
  /\ stage' = "done"
  /\ UNCHANGED <<left, pad, pow>>

Divisor == IF job.fn = "itoa" THEN Digit(job.base) ELSE job.base

Finish(text) ==
  out' = (IF job.fn = "itoa" /\ Signed(job) THEN <<"-">> ELSE <<>>) \o Reverse(text)

(* Mutant: the loop tests before it writes a digit.                        *)
EmitUnlessZero ==
  /\ stage = "digits" /\ job.fn # "atoi"
  /\ IF left = 0 THEN /\ stage' = "padding" /\ UNCHANGED <<left, pad, out>>
                 ELSE /\ out' = Append(out, left % Divisor)
                      /\ left' = left \div Divisor
                      /\ pad' = (IF pad > 0 THEN pad - 1 ELSE 0)
                      /\ UNCHANGED stage
  /\ UNCHANGED <<job, pow>>

EmitDigit ==
  /\ stage = "digits" /\ job.fn # "atoi"
  /\ out' = Append(out, left % Divisor)
  /\ left' = left \div Divisor
  /\ pad' = IF pad > 0 THEN pad - 1 ELSE 0
  /\ stage' = IF left' = 0 THEN "padding" ELSE "digits"
  /\ UNCHANGED <<job, pow>>

PadAndReverse ==
  /\ stage = "padding"
  /\ \/ pad > 0 /\ out' = Append(out, 0) /\ pad' = pad - 1 /\ UNCHANGED stage
     \/ pad = 0 /\ Finish(out) /\ stage' = "done" /\ UNCHANGED pad
  /\ UNCHANGED <<job, left, pow>>

ReadDigit ==
  /\ stage = "digits" /\ job.fn = "atoi"
  /\ \/ /\ left # <<>>
        /\ out' = (out + Last(left) * pow) % UintSize
        /\ pow' = (pow * 10) % UintSize
        /\ left' = Front(left)
        /\ UNCHANGED stage
     \/ /\ left = <<>>
        /\ out' = AsInt(out)
        /\ stage' = "done"
        /\ UNCHANGED <<left, pow>>
  /\ UNCHANGED <<job, pad>>

Convert ==
  \/ \E val \in Ints : abs(val) \/ \E base \in {10, 16, 0} : itoa(val, base)
  \/ \E val \in UInts, base \in Bases, min \in 0..MaxMin : uitoa("uitoa", val, base, min)
  \/ \E val \in U64s, base \in Bases, min \in 0..MaxMin : uitoa("u64toa", val, base, min)
  \/ \E n \in 0..MaxText : \E text \in [1..n -> 0..9] : atoi(text)

NumberStep == EmitDigit \/ PadAndReverse \/ ReadDigit

TakeNumber ==
  /\ stage = "done"
  /\ job' = NoJob /\ left' = 0 /\ pad' = 0 /\ pow' = 0 /\ out' = <<>> /\ stage' = "idle"

NumberInit ==
  job = NoJob /\ left = 0 /\ pad = 0 /\ pow = 0 /\ out = <<>> /\ stage = "idle"

-----------------------------------------------------------------------------
(* What a text of digits is worth.                                         *)
Worth(text, base) == FoldLeft(LAMBDA sum, digit : sum * base + digit, 0, text)

(* A text is written for a number when it is worth it and no longer than   *)
(* it need be, or than min asks for.                                       *)
Writes(text, number, base, min) ==
  /\ \A i \in DOMAIN text : text[i] \in 0..base-1
  /\ Worth(text, base) = number
  /\ Len(text) >= min /\ Len(text) > 0
  /\ Len(text) > 1 /\ Len(text) > min => text[1] # 0

(* Every conversion is exact: the digits are those of the number, with a   *)
(* sign only where base 10 needs one, hexadecimal showing a negative int   *)
(* extended to 64 bits, as many as asked for; reading gives the number     *)
(* modulo the width of int.  The smallest int is exempt: its negation is   *)
(* undefined (itoa.c:25-60, uitoa.c:22-46, u64toa.c:22-46, atoi.c:22-32).  *)
ConversionsAreExact ==
  stage = "done" =>
    \/ job.fn = "abs" /\ out >= 0 /\ out \in {job.val, -job.val}
    \/ job.fn = "atoi" /\ out \in Ints /\ (out - Worth(job.text, 10)) % UintSize = 0
    \/ /\ job.fn = "itoa"
       /\ \/ ~Signed(job) /\ Writes(out, AsU64(job.val), Digit(job.base), 0)
          \/ Signed(job) /\ out[1] = "-" /\ Writes(Tail(out), -job.val, 10, 0)
          \/ Signed(job) /\ -job.val \notin Ints
    \/ /\ job.fn \in {"uitoa", "u64toa"}
       /\ IF job.base \in 2..16 THEN Writes(out, job.val, job.base, job.min) ELSE out = <<>>
=============================================================================

-------------------------------- MODULE Libc ---------------------------------
(***************************************************************************)
(* The C library as one machine: the memory and string functions, the      *)
(* tokenizers and the number conversions, called one after another.  They  *)
(* share no state but the memory.  A function whose outcome depends on the *)
(* memory alone is called before the tokenizers are, from every memory;    *)
(* the conversions are called while the memory is still empty.             *)
(***************************************************************************)
EXTENDS LibcTokens, LibcNumbers

vars == <<mem, locals, tokenizing, converting>>

Unused == text = [t \in Tokenizers |-> {}] /\ stage = "idle"
Empty  == mem = [a \in Cells |-> NUL]

TypeOK ==
  /\ mem \in [Cells -> Chars \cup {NUL}]
  /\ before \in [Cells -> Chars \cup {NUL}]
  /\ call.fn \in Functions \cup {"none"}
  /\ at \in {"ready", "loop", "pad", "copy", "accept", "end", "done", "returned"}
  /\ p \in 0..Size+1 /\ q \in 0..Size+1 /\ k \in 0..Size
  /\ result \in (-255..255) \cup (0..Size)
  /\ rest \in [Tokenizers -> 0..Size+1]
  /\ answer \in [Tokenizers -> 0..Size]
  /\ text \in [Tokenizers -> SUBSET Cells]
  /\ \A t \in Tokenizers : {tokens[t], yielded[t]} \subseteq Seq(Cells \X (1..Size))
  /\ job.fn \in {"none", "itoa", "uitoa", "u64toa", "atoi", "abs"}
  /\ pad \in 0..MaxMin /\ pow \in UInts
  /\ stage \in {"idle", "digits", "padding", "done"}

Init == StringInit /\ TokensInit /\ NumberInit

Step ==
  \/ StringStep /\ UNCHANGED <<tokenizing, converting>>
  \/ NumberStep /\ UNCHANGED <<mem, locals, tokenizing>>

Next ==
  \/ Unused /\ CallFunction /\ UNCHANGED <<tokenizing, converting>>
  \/ Unused /\ at = "ready" /\ Empty /\ Convert /\ UNCHANGED <<mem, locals, tokenizing>>
  \/ stage = "idle" /\ CallStrtok /\ UNCHANGED converting
  \/ stage = "idle" /\ CallStrtok_r /\ UNCHANGED converting
  \/ Step
  \/ TakeResult /\ UNCHANGED <<tokenizing, converting>>
  \/ TakeNumber /\ UNCHANGED <<mem, locals, tokenizing>>

(* What has been called runs.                                              *)
Spec == Init /\ [][Next]_vars /\ WF_vars(Step)

(* Every call of a library function returns, in its loop at the end of the *)
(* string, of the number, or of the size it was given (libc/string,        *)
(* libc/stdlib).                                                           *)
CallsReturn ==
  (call # NoCall \/ job # NoJob) ~> (at = "returned" \/ stage = "done")
=============================================================================

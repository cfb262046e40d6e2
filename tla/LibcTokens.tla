----------------------------- MODULE LibcTokens ------------------------------
(***************************************************************************)
(* The C library's tokenizers, which keep state from call to call: strtok  *)
(* in a static pointer and strtok_r where its caller says, here one place. *)
(* A program splits a string with each of them, in any order of calls, and *)
(* starts again with another string whenever it likes.  What strspn,       *)
(* strcspn, strpbrk and lfind answer is established in LibcString.         *)
(***************************************************************************)
EXTENDS LibcString, Sequences

CONSTANTS Delim    \* the characters of the delimiter string

ASSUME DelimAssumption == Delim \subseteq Chars

Tokenizers == {"strtok", "strtok_r"}

VARIABLES
  rest,       \* strtok's static p, strtok_r's *saveptr
  answer,     \* what each returned last
  text,       \* ghost: the cells of the string each was started with
  tokens,     \* ghost: the tokens that string had, as <<address, length>>
  yielded     \* ghost: the tokens returned so far

tokenizing == <<rest, answer, text, tokens, yielded>>
-----------------------------------------------------------------------------
(* The tokens of the string at s: its runs of other characters.            *)
TokensOf(m, s) ==
  LET inside == {a \in s..s+Length(m, s)-1 : m[a] \notin Delim}
      starts == {a \in inside : a - 1 \notin inside}
      Run(a) == <<a, CSpan(m, a, Delim)>>
  IN  [i \in 1..Cardinality(starts) |->
         Run(CHOOSE a \in starts : Cardinality({b \in starts : b <= a}) = i)]

(* t is called with str, or goes on with NULL; its string shares no cell   *)
(* with the other tokenizer's.                                             *)
Begin(t, str) ==
  LET own == str..str+Length(mem, str)
  IN  /\ str # NULL /\ Terminated(mem, str)
      /\ \A other \in Tokenizers \ {t} : text[other] \cap own = {}
      /\ text' = [text EXCEPT ![t] = own]
      /\ tokens' = [tokens EXCEPT ![t] = TokensOf(mem, str)]

Continue(t, str) == str = NULL /\ UNCHANGED <<text, tokens>>

Yield(t, str, token, next) ==
  LET sofar == IF str = NULL THEN yielded[t] ELSE <<>>
  IN  /\ answer' = [answer EXCEPT ![t] = token]
      /\ rest' = [rest EXCEPT ![t] = next]
      /\ yielded' = [yielded EXCEPT ![t] =
           IF token = NULL THEN sofar ELSE Append(sofar, <<token, Length(mem', token)>>)]

Cut(e) == mem' = [mem EXCEPT ![e] = NUL]

(* Mutant: the last token leaves p where it was.                           *)
KeepP(str) ==
  LET from  == IF str # NULL THEN str ELSE rest["strtok"]
      start == from + Span(mem, from, Delim)
      end   == start + CSpan(mem, start, Delim)
  IN  \/ from = NULL /\ UNCHANGED mem /\ Yield("strtok", str, NULL, NULL)
      \/ from # NULL /\ end = start /\ UNCHANGED mem /\ Yield("strtok", str, NULL, NULL)
      \/ /\ from # NULL /\ end # start /\ mem[end] # NUL
         /\ Cut(end) /\ Yield("strtok", str, start, end + 1)
      \/ /\ from # NULL /\ end # start /\ mem[end] = NUL
         /\ UNCHANGED mem /\ Yield("strtok", str, start, from)

strtok(str) ==
  LET from  == IF str # NULL THEN str ELSE rest["strtok"]
      start == from + Span(mem, from, Delim)
      end   == start + CSpan(mem, start, Delim)
  IN  \/ from = NULL /\ UNCHANGED mem /\ Yield("strtok", str, NULL, NULL)
      \/ from # NULL /\ end = start /\ UNCHANGED mem /\ Yield("strtok", str, NULL, NULL)
      \/ /\ from # NULL /\ end # start /\ mem[end] # NUL
         /\ Cut(end) /\ Yield("strtok", str, start, end + 1)
      \/ /\ from # NULL /\ end # start /\ mem[end] = NUL
         /\ UNCHANGED mem /\ Yield("strtok", str, start, NULL)

(* *saveptr is not initialized: the first call needs a string.             *)
strtok_r(str) ==
  LET from  == IF str # NULL THEN str ELSE rest["strtok_r"]
      start == from + Span(mem, from, Delim)
      end   == start + CSpan(mem, start, Delim)
  IN  /\ from # NULL
      /\ \/ mem[start] = NUL /\ UNCHANGED mem /\ Yield("strtok_r", str, NULL, start)
         \/ mem[start] # NUL /\ mem[end] # NUL /\ Cut(end) /\ Yield("strtok_r", str, start, end + 1)
         \/ mem[start] # NUL /\ mem[end] = NUL /\ UNCHANGED mem /\ Yield("strtok_r", str, start, end)

CallStrtok ==
  /\ at = "ready"
  /\ \E str \in Cells \cup {NULL} :
       /\ Begin("strtok", str) \/ Continue("strtok", str)
       /\ strtok(str)
  /\ before' = mem'
  /\ UNCHANGED <<call, at, p, q, k, result>>

CallStrtok_r ==
  /\ at = "ready"
  /\ \E str \in Cells \cup {NULL} :
       /\ Begin("strtok_r", str) \/ Continue("strtok_r", str)
       /\ strtok_r(str)
  /\ before' = mem'
  /\ UNCHANGED <<call, at, p, q, k, result>>

-----------------------------------------------------------------------------
Nowhere == [t \in Tokenizers |-> NULL]

TokensInit ==
  /\ rest = Nowhere /\ answer = Nowhere
  /\ text = [t \in Tokenizers |-> {}]
  /\ tokens = [t \in Tokenizers |-> <<>>]
  /\ yielded = [t \in Tokenizers |-> <<>>]

(* Each tokenizer returns the tokens of its string, whole, terminated, in  *)
(* order, and NULL when there are no more and only then, whatever the      *)
(* other does between its calls and however often it has been started      *)
(* before (strtok.c:24-34, strtok_r.c:24-40).                              *)
TokensComeInOrder ==
  \A t \in Tokenizers :
    /\ Len(yielded[t]) <= Len(tokens[t])
    /\ yielded[t] = SubSeq(tokens[t], 1, Len(yielded[t]))
    /\ answer[t] = NULL => yielded[t] = tokens[t]
=============================================================================

----------------------------- MODULE LibcString ------------------------------
(***************************************************************************)
(* The memory and string functions of the C library (libc/string, and      *)
(* strreverse of libc/stdlib) as a machine that executes one call at a     *)
(* time, one iteration of its loop per step, on a small memory.  A caller  *)
(* keeps to the functions' contracts: the strings are terminated, the      *)
(* destination has room, and only memmove gets objects that overlap.       *)
(*                                                                         *)
(* The functions are the machine; Answer and Effect say declaratively what *)
(* they return and what they leave in memory.                              *)
(***************************************************************************)
EXTENDS Integers, FiniteSetsExt

CONSTANTS
  Size,    \* bound: the cells of the memory
  Chars    \* bound: the characters other than NUL, as unsigned bytes

ASSUME LibcAssumption == Size \in Nat \ {0} /\ Chars \subseteq 1..255

NUL   == 0
NULL  == 0
Cells == 1..Size

VARIABLES
  mem,
  before,     \* ghost: the memory when the call began
  call,       \* the function and its arguments
  at,         \* the loop it is in
  p, q, k,    \* its pointers and its counter
  result

locals == <<call, before, at, p, q, k, result>>

-----------------------------------------------------------------------------
(* Strings in a memory m.                                                  *)
Terminated(m, s) == \E a \in s..Size : m[a] = NUL
Length(m, s)     == Min({a \in s..Size : m[a] = NUL}) - s
CharsAt(m, s)    == {m[a] : a \in s..s+Length(m, s)-1}

(* strchr's answer for c # NUL, strspn's, strcspn's and lfind's.           *)
Span(m, s, accept)  == Min({a \in s..Size : m[a] \notin accept}) - s
CSpan(m, s, reject) == Min({a \in s..Size : m[a] \in reject \cup {NUL}}) - s

(* memcmp(s, t, n) = 0.  It looks no further than the first difference,    *)
(* which in a string at s is its terminator if nothing before it is.       *)
Equal(m, s, t, n) == \A i \in 0..n-1 : s + i \in Cells /\ m[s + i] = m[t + i]

Difference(m, s, t, N) ==
  LET D == {i \in N : m[s + i] # m[t + i]}
  IN  IF D = {} THEN 0 ELSE m[s + Min(D)] - m[t + Min(D)]

Copied(m, d, s, n) ==
  [a \in Cells |-> IF a \in d..d+n-1 THEN m[s + a - d] ELSE m[a]]

Fits(d, n)        == d + n <= Size + 1
Apart(d, s, n)    == d + n <= s \/ s + n <= d

-----------------------------------------------------------------------------
(* The contracts.  s and t are the pointers, n is a size and c a character. *)
Copiers == {"memcpy", "memmove"}
Strings == {"strlen", "strchr", "strreverse"}
Pairs   == {"strcmp", "strspn", "strcspn", "strpbrk", "strstr"}

Legal(f, m, s, t, n, c) ==
  \/ /\ f \in Copiers /\ c = NUL
     /\ Fits(s, n) /\ Fits(t, n)
     /\ f = "memcpy" => Apart(s, t, n)
  \/ f = "memset" /\ t = s /\ Fits(s, n)
  \/ f = "memcmp" /\ c = NUL /\ Fits(s, n) /\ Fits(t, n)
  \/ f = "lfind" /\ t = s /\ n = 0 /\ c \in {m[a] : a \in s..Size}
  \/ /\ f \in Strings /\ t = s /\ n = 0
     /\ f # "strchr" => c = NUL
     /\ Terminated(m, s)
  \/ /\ f \in Pairs /\ n = 0 /\ c = NUL
     /\ Terminated(m, s) /\ Terminated(m, t)
  \/ /\ f = "strcpy" /\ n = 0 /\ c = NUL
     /\ Terminated(m, t)
     /\ Fits(s, Length(m, t) + 1) /\ Apart(s, t, Length(m, t) + 1)
  \/ /\ f = "strncpy" /\ c = NUL
     /\ Terminated(m, t)
     /\ Fits(s, n) /\ (s + n <= t \/ t + Length(m, t) < s)
  \/ /\ f = "strcat" /\ n = 0 /\ c = NUL
     /\ Terminated(m, s) /\ Terminated(m, t)
     /\ Fits(s, Length(m, s) + Length(m, t) + 1)
     /\ s + Length(m, s) + Length(m, t) < t \/ t + Length(m, t) < s

Functions == Copiers \cup Strings \cup Pairs
               \cup {"memset", "memcmp", "lfind", "strcpy", "strncpy", "strcat"}

NoCall == [fn |-> "none", s |-> NULL, t |-> NULL, n |-> 0, c |-> NUL]

(* Where the locals of a function start.                                   *)
CallFunction ==
  /\ at = "ready"
  /\ \E f \in Functions, s, t \in Cells, n \in 0..Size, c \in Chars \cup {NUL} :
       /\ Legal(f, mem, s, t, n, c)
       /\ call' = [fn |-> f, s |-> s, t |-> t, n |-> n, c |-> c]
       /\ p' = s
       /\ q' = IF f = "strreverse" THEN s + Length(mem, s) - 1 ELSE t
       /\ k' = CASE f = "memmove" -> (IF s < t THEN 0 ELSE n)
                 [] f = "strstr"  -> Length(mem, t)
                 [] OTHER         -> n
  /\ at' = "loop"
  /\ before' = mem
  /\ UNCHANGED <<mem, result>>

-----------------------------------------------------------------------------
(* The steps of a call: an iteration that stays in a loop, and the return. *)
In(f, loop) == call.fn = f /\ at = loop

Go(loop, pp, qq, kk) ==
  /\ at' = loop /\ p' = pp /\ q' = qq /\ k' = kk
  /\ UNCHANGED <<call, before, result>>

Read(loop, pp, qq, kk) == Go(loop, pp, qq, kk) /\ UNCHANGED mem

Write(a, c) == mem' = [mem EXCEPT ![a] = c]

Return(r) ==
  /\ at' = "returned"
  /\ result' = r
  /\ UNCHANGED <<mem, call, before, p, q, k>>

-----------------------------------------------------------------------------
(* libc/string, mem*.                                                      *)
memcpy ==
  /\ In("memcpy", "loop")
  /\ \/ k > 0 /\ Write(p, mem[q]) /\ Go("loop", p + 1, q + 1, k - 1)
     \/ k = 0 /\ Return(call.s)

(* Mutant: always from the front, as memcpy.                               *)
MoveUpwards ==
  /\ In("memmove", "loop")
  /\ \/ k < call.n /\ Write(p + k, mem[q + k]) /\ Go("loop", p, q, k + 1)
     \/ k = call.n /\ Return(call.s)

memmove ==
  /\ In("memmove", "loop")
  /\ \/ p < q /\ k < call.n /\ Write(p + k, mem[q + k]) /\ Go("loop", p, q, k + 1)
     \/ p < q /\ k = call.n /\ Return(call.s)
     \/ p >= q /\ k # 0 /\ Write(p + k - 1, mem[q + k - 1]) /\ Go("loop", p, q, k - 1)
     \/ p >= q /\ k = 0 /\ Return(call.s)

memset ==
  /\ In("memset", "loop")
  /\ \/ k > 0 /\ Write(p, call.c) /\ Go("loop", p + 1, q, k - 1)
     \/ k = 0 /\ Return(call.s)

memcmp ==
  /\ In("memcmp", "loop")
  /\ \/ k = 0 /\ Return(0)
     \/ k > 0 /\ mem[p] # mem[q] /\ Return(mem[p] - mem[q])
     \/ k > 0 /\ mem[p] = mem[q] /\ Read("loop", p + 1, q + 1, k - 1)

(* libc/string, str*.  lfind searches an object for a character it holds.  *)
lfind ==
  /\ In("lfind", "loop")
  /\ \/ mem[p + k] # call.c /\ Read("loop", p, q, k + 1)
     \/ mem[p + k] = call.c /\ Return(p + k)

strlen ==
  /\ In("strlen", "loop")
  /\ \/ mem[p + k] # NUL /\ Read("loop", p, q, k + 1)
     \/ mem[p + k] = NUL /\ Return(k)

strcmp ==
  /\ In("strcmp", "loop")
  /\ \/ mem[p] # NUL /\ mem[p] = mem[q] /\ Read("loop", p + 1, q + 1, k)
     \/ ~(mem[p] # NUL /\ mem[p] = mem[q]) /\ Return(mem[p] - mem[q])

strcpy ==
  \/ /\ In("strcpy", "loop")
     /\ Write(p, mem[q])
     /\ Go(IF mem[q] = NUL THEN "done" ELSE "loop", p + 1, q + 1, k)
  \/ In("strcpy", "done") /\ Return(call.s)

(* Mutant: the padding is one character too long.                          *)
PadOneMore ==
  \/ /\ In("strncpy", "loop")
     /\ \/ k = 0 /\ Return(call.s)
        \/ /\ k > 0
           /\ Write(p, mem[q])
           /\ Go(IF mem[q] = NUL THEN "pad" ELSE "loop", p + 1, q + 1, k - 1)
  \/ /\ In("strncpy", "pad")
     /\ \/ k >= 0 /\ Write(p, NUL) /\ Go("pad", p + 1, q, k - 1)
        \/ k < 0 /\ Return(call.s)

strncpy ==
  \/ /\ In("strncpy", "loop")
     /\ \/ k = 0 /\ Return(call.s)
        \/ /\ k > 0
           /\ Write(p, mem[q])
           /\ Go(IF mem[q] = NUL THEN "pad" ELSE "loop", p + 1, q + 1, k - 1)
  \/ /\ In("strncpy", "pad")
     /\ \/ k > 0 /\ Write(p, NUL) /\ Go("pad", p + 1, q, k - 1)
        \/ k = 0 /\ Return(call.s)

strcat ==
  \/ /\ In("strcat", "loop")
     /\ \/ mem[p] # NUL /\ Read("loop", p + 1, q, k)
        \/ mem[p] = NUL /\ Read("copy", p, q, k)
  \/ /\ In("strcat", "copy")
     /\ Write(p, mem[q])
     /\ Go(IF mem[q] = NUL THEN "done" ELSE "copy", p + 1, q + 1, k)
  \/ In("strcat", "done") /\ Return(call.s)

strchr ==
  /\ In("strchr", "loop")
  /\ \/ mem[p] = call.c /\ Return(p)
     \/ mem[p] # call.c /\ mem[p] = NUL /\ Return(NULL)
     \/ mem[p] # call.c /\ mem[p] # NUL /\ Read("loop", p + 1, q, k)

strspn ==
  /\ In("strspn", "loop")
  /\ \/ mem[p] # NUL /\ mem[p] \in CharsAt(mem, q) /\ Read("loop", p + 1, q, k + 1)
     \/ ~(mem[p] # NUL /\ mem[p] \in CharsAt(mem, q)) /\ Return(k)

strcspn ==
  /\ In("strcspn", "loop")
  /\ \/ mem[p] # NUL /\ mem[p] \in CharsAt(mem, q) /\ Return(k)
     \/ mem[p] # NUL /\ mem[p] \notin CharsAt(mem, q) /\ Read("loop", p + 1, q, k + 1)
     \/ mem[p] = NUL /\ Return(k)

(* Mutant: the outer loop does not go on.                                  *)
StayAtFirst ==
  \/ /\ In("strpbrk", "loop")
     /\ \/ mem[p] = NUL /\ Return(NULL)
        \/ mem[p] # NUL /\ Read("accept", p, call.t, k)
  \/ /\ In("strpbrk", "accept")
     /\ \/ mem[q] = NUL /\ Read("loop", p, q, k)
        \/ mem[q] # NUL /\ mem[p] # mem[q] /\ Read("accept", p, q + 1, k)
        \/ mem[q] # NUL /\ mem[p] = mem[q] /\ Read("end", p, q, k)
  \/ In("strpbrk", "end") /\ Return(p)

(* The outer loop runs over str with p, the inner one over accept with q.  *)
strpbrk ==
  \/ /\ In("strpbrk", "loop")
     /\ \/ mem[p] = NUL /\ p = call.s /\ Return(NULL)
        \/ mem[p] = NUL /\ p # call.s /\ Read("end", p, q, k)
        \/ mem[p] # NUL /\ Read("accept", p, call.t, k)
  \/ /\ In("strpbrk", "accept")
     /\ \/ mem[q] = NUL /\ Read("loop", p + 1, q, k)
        \/ mem[q] # NUL /\ mem[p] # mem[q] /\ Read("accept", p, q + 1, k)
        \/ mem[q] # NUL /\ mem[p] = mem[q] /\ Read("end", p, q, k)
  \/ In("strpbrk", "end") /\ Return(IF mem[q] = NUL THEN NULL ELSE p)

strstr ==
  /\ In("strstr", "loop")
  /\ \/ mem[p] = NUL /\ Return(NULL)
     \/ mem[p] # NUL /\ Equal(mem, p, call.t, k) /\ Return(p)
     \/ mem[p] # NUL /\ ~Equal(mem, p, call.t, k) /\ Read("loop", p + 1, q, k)

(* The three exclusive ors of two different cells exchange them.           *)
strreverse ==
  /\ In("strreverse", "loop")
  /\ \/ /\ q > p
        /\ mem' = [mem EXCEPT ![p] = mem[q], ![q] = mem[p]]
        /\ Go("loop", p + 1, q - 1, k)
     \/ q <= p /\ Return(call.s)

StringStep ==
  \/ memcpy \/ memmove \/ memset \/ memcmp \/ lfind \/ strlen \/ strcmp \/ strcpy
  \/ strncpy \/ strcat \/ strchr \/ strspn \/ strcspn \/ strpbrk \/ strstr
  \/ strreverse

(* The caller goes on.                                                     *)
TakeResult ==
  /\ at = "returned"
  /\ at' = "ready" /\ call' = NoCall /\ before' = mem
  /\ p' = NULL /\ q' = NULL /\ k' = 0 /\ result' = NULL
  /\ UNCHANGED mem

StringInit ==
  /\ mem \in [Cells -> Chars \cup {NUL}]
  /\ before = mem /\ call = NoCall /\ at = "ready"
  /\ p = NULL /\ q = NULL /\ k = 0 /\ result = NULL

-----------------------------------------------------------------------------
(* What the functions are for.  FirstIn is NULL when nothing is found.     *)
FirstIn(A) == IF A = {} THEN NULL ELSE Min(A)

Answer ==
  LET m == before  s == call.s  t == call.t
      strs == s..s+Length(m, s)-1
  IN  CASE call.fn \in {"strlen"}      -> Length(m, s)
        [] call.fn = "memcmp"          -> Difference(m, s, t, 0..call.n-1)
        [] call.fn = "strcmp"          -> Difference(m, s, t, 0..Min({Length(m, s), Length(m, t)}))
        [] call.fn = "lfind"           -> FirstIn({a \in s..Size : m[a] = call.c})
        [] call.fn = "strchr"          -> FirstIn({a \in s..s+Length(m, s) : m[a] = call.c})
        [] call.fn = "strspn"          -> Span(m, s, CharsAt(m, t))
        [] call.fn = "strcspn"         -> CSpan(m, s, CharsAt(m, t))
        [] call.fn = "strpbrk"         -> FirstIn({a \in strs : m[a] \in CharsAt(m, t)})
        [] call.fn = "strstr"          -> FirstIn({a \in strs : Equal(m, a, t, Length(m, t))})
        [] OTHER                       -> s

Effect ==
  LET m == before  s == call.s  t == call.t
  IN  CASE call.fn \in Copiers    -> Copied(m, s, t, call.n)
        [] call.fn = "memset"     -> [a \in Cells |-> IF a \in s..s+call.n-1 THEN call.c ELSE m[a]]
        [] call.fn = "strcpy"     -> Copied(m, s, t, Length(m, t) + 1)
        [] call.fn = "strncpy"    ->
             [a \in Cells |-> IF a \notin s..s+call.n-1 THEN m[a]
                              ELSE IF a - s < Length(m, t) THEN m[t + a - s] ELSE NUL]
        [] call.fn = "strcat"     -> Copied(m, s + Length(m, s), t, Length(m, t) + 1)
        [] call.fn = "strreverse" ->
             [a \in Cells |-> IF a \in s..s+Length(m, s)-1
                              THEN m[2 * s + Length(m, s) - 1 - a] ELSE m[a]]
        [] OTHER                  -> m

(* Every function returns what it should and changes the cells it should   *)
(* and no other, whatever the memory holds: memmove with any overlap,      *)
(* strncpy with or without room for the terminator, searches in a string   *)
(* that shares cells with what is searched for.                            *)
CallsKeepTheirPromise ==
  at = "returned" => result = Answer /\ mem = Effect
=============================================================================

------------------------------ MODULE LibcProofs -----------------------------
(***************************************************************************)
(* Proofs about the C library, for every memory, every set of characters   *)
(* and every call that keeps to a function's contract.  Each function has  *)
(* a loop invariant: what it has read so far, and what it has written.     *)
(***************************************************************************)
EXTENDS Libc, FiniteSetTheorems, TLAPS

USE LibcAssumption DEF Cells

Bytes    == Chars \cup {NUL}
Memories == [Cells -> Bytes]

-----------------------------------------------------------------------------
(* The least element of a set of natural numbers.                          *)
LessThan == {e \in Nat \X Nat : e[1] < e[2]}

LEMMA LessThanWellFounded == IsWellFoundedOn(LessThan, Nat)
BY NatLessThanWellFounded, Zenon DEF OpToRel, LessThan

LEMMA LeastExists ==
  ASSUME NEW A, A \subseteq Nat, A # {}
  PROVE  Min(A) \in A /\ \A y \in A : Min(A) <= y
<1>1. \E x \in A : \A y \in A : ~ (<<y, x>> \in LessThan)
  BY LessThanWellFounded, WFMin
<1>2. \A x, y \in A : ~ (<<y, x>> \in LessThan) => x <= y
  BY DEF LessThan
<1> QED BY <1>1, <1>2 DEF Min

LEMMA MinIs ==
  ASSUME NEW A, A \subseteq Int, NEW x \in A, \A y \in A : x <= y
  PROVE  Min(A) = x
<1>1. \A z \in A : (\A y \in A : z <= y) => z = x
  OBVIOUS
<1> QED BY <1>1 DEF Min

-----------------------------------------------------------------------------
(* The loop invariants.  Str1, Str2 and Num are the arguments s, t and n,  *)
(* Len1 and Len2 the lengths of the strings there when the call began.     *)
Str1  == call.s
Str2  == call.t
Num   == call.n
Len1  == Length(before, call.s)
Len2  == Length(before, call.t)

(* No cell from s up to p, exclusive, has a character in A.                *)
Free(A, s, e) == \A a \in s..e-1 : before[a] \notin A

MemcpyInv ==
  /\ at = "loop" /\ k \in 0..Num
  /\ p = Str1 + (Num - k) /\ q = Str2 + (Num - k)
  /\ mem = Copied(before, Str1, Str2, Num - k)

(* Towards higher addresses, and towards lower ones.                       *)
MemmoveInv ==
  /\ at = "loop" /\ k \in 0..Num
  /\ p = Str1 /\ q = Str2
  /\ p < q  => mem = Copied(before, Str1, Str2, k)
  /\ p >= q => mem = [a \in Cells |->
                        IF a \in Str1+k..Str1+Num-1 THEN before[Str2 + a - Str1] ELSE before[a]]

MemsetInv ==
  /\ at = "loop" /\ k \in 0..Num
  /\ p = Str1 + (Num - k)
  /\ mem = [a \in Cells |-> IF a \in Str1..Str1+(Num-k)-1 THEN call.c ELSE before[a]]

MemcmpInv ==
  /\ at = "loop" /\ k \in 0..Num /\ mem = before
  /\ p = Str1 + (Num - k) /\ q = Str2 + (Num - k)
  /\ \A i \in 0..Num-k-1 : before[Str1 + i] = before[Str2 + i]

LfindInv ==
  /\ at = "loop" /\ k \in 0..Size /\ mem = before
  /\ p = Str1 /\ Free({call.c}, Str1, Str1 + k)

StrlenInv ==
  /\ at = "loop" /\ k \in 0..Size /\ mem = before
  /\ p = Str1 /\ Free({NUL}, Str1, Str1 + k)

StrcmpInv ==
  /\ at = "loop" /\ p \in Cells /\ q \in Cells /\ mem = before
  /\ p >= Str1 /\ q - Str2 = p - Str1
  /\ \A i \in 0..p-Str1-1 : before[Str1 + i] = before[Str2 + i] /\ before[Str1 + i] # NUL

StrcpyInv ==
  /\ at \in {"loop", "done"}
  /\ p \in Str1..Str1+Len2+1 /\ q = Str2 + (p - Str1)
  /\ at = "loop" <=> p - Str1 <= Len2
  /\ mem = Copied(before, Str1, Str2, p - Str1)

StrncpyInv ==
  /\ at \in {"loop", "pad"} /\ k \in 0..Num
  /\ p = Str1 + (Num - k)
  /\ at = "loop" => /\ q = Str2 + (Num - k) /\ Num - k <= Len2
                    /\ mem = Copied(before, Str1, Str2, Num - k)
  /\ at = "pad" => /\ Num - k > Len2
                   /\ mem = [a \in Cells |->
                               IF a \notin Str1..p-1 THEN before[a]
                               ELSE IF a - Str1 < Len2 THEN before[Str2 + a - Str1] ELSE NUL]

StrcatInv ==
  /\ at \in {"loop", "copy", "done"}
  /\ at = "loop" => /\ p \in Str1..Str1+Len1 /\ q = Str2 /\ mem = before
  /\ at # "loop" => /\ p \in Str1+Len1..Str1+Len1+Len2+1
                    /\ q = Str2 + (p - (Str1 + Len1))
                    /\ at = "copy" <=> p - (Str1 + Len1) <= Len2
                    /\ mem = Copied(before, Str1 + Len1, Str2, p - (Str1 + Len1))

StrchrInv ==
  /\ at = "loop" /\ mem = before
  /\ p \in Str1..Str1+Len1 /\ Free({call.c}, Str1, p)

StrspnInv ==
  /\ at = "loop" /\ mem = before
  /\ k \in 0..Len1 /\ p = Str1 + k /\ q = Str2
  /\ \A a \in Str1..p-1 : before[a] \in CharsAt(before, Str2)

StrcspnInv ==
  /\ at = "loop" /\ mem = before
  /\ k \in 0..Len1 /\ p = Str1 + k /\ q = Str2
  /\ Free(CharsAt(before, Str2), Str1, p)

StrpbrkInv ==
  /\ at \in {"loop", "accept", "end"} /\ mem = before
  /\ p \in Str1..Str1+Len1 /\ Free(CharsAt(before, Str2), Str1, p)
  /\ q \in Str2..Str2+Len2
  /\ at = "loop" /\ p # Str1 => before[q] = NUL
  /\ at = "accept" => before[p] # NUL /\ Free({before[p]}, Str2, q)
  /\ at = "end" => \/ before[q] = NUL /\ before[p] = NUL
                   \/ before[q] # NUL /\ before[q] = before[p]

StrstrInv ==
  /\ at = "loop" /\ mem = before
  /\ p \in Str1..Str1+Len1 /\ k = Len2
  /\ \A a \in Str1..p-1 : ~Equal(before, a, Str2, Len2)

(* The ends have been exchanged, the cells from p to q are still there.    *)
StrreverseInv ==
  /\ at = "loop"
  /\ p \in Str1..Str1+Len1 /\ p <= q + 1
  /\ q = Str1 + Len1 - 1 - (p - Str1)
  /\ mem = [a \in Cells |-> IF a \in Str1..p-1 \/ a \in q+1..Str1+Len1-1
                            THEN before[2 * Str1 + Len1 - 1 - a] ELSE before[a]]

Running ==
  /\ call.fn = "memcpy" => MemcpyInv
  /\ call.fn = "memmove" => MemmoveInv
  /\ call.fn = "memset" => MemsetInv
  /\ call.fn = "memcmp" => MemcmpInv
  /\ call.fn = "lfind" => LfindInv
  /\ call.fn = "strlen" => StrlenInv
  /\ call.fn = "strcmp" => StrcmpInv
  /\ call.fn = "strcpy" => StrcpyInv
  /\ call.fn = "strncpy" => StrncpyInv
  /\ call.fn = "strcat" => StrcatInv
  /\ call.fn = "strchr" => StrchrInv
  /\ call.fn = "strspn" => StrspnInv
  /\ call.fn = "strcspn" => StrcspnInv
  /\ call.fn = "strpbrk" => StrpbrkInv
  /\ call.fn = "strstr" => StrstrInv
  /\ call.fn = "strreverse" => StrreverseInv

Called ==
  /\ call \in [fn : Functions, s : Cells, t : Cells, n : 0..Size, c : Bytes]
  /\ Legal(call.fn, before, Str1, Str2, Num, call.c)

StringInv ==
  /\ mem \in Memories /\ before \in Memories
  /\ CallsKeepTheirPromise
  /\ at \notin {"ready", "returned"} => Called /\ Running

-----------------------------------------------------------------------------
(* Strings.                                                                *)
LEMMA LengthFacts ==
  ASSUME NEW m, NEW s \in Cells, Terminated(m, s)
  PROVE  /\ Length(m, s) \in 0..Size-s
         /\ m[s + Length(m, s)] = NUL
         /\ \A a \in s..s+Length(m, s)-1 : m[a] # NUL
<1> DEFINE A == {a \in s..Size : m[a] = NUL}
<1>1. A \subseteq Nat /\ A # {}
  BY DEF Terminated
<1>2. Min(A) \in A /\ \A y \in A : Min(A) <= y
  <2> HIDE DEF A
  <2> QED BY <1>1, LeastExists
<1>3. PICK e \in s..Size : e = Min(A)
  BY <1>2
<1>4. m[e] = NUL /\ \A y \in s..Size : m[y] = NUL => e <= y
  BY <1>2, <1>3
<1>5. Length(m, s) = e - s
  BY <1>3 DEF Length
<1> QED BY <1>4, <1>5

LEMMA SpanIs ==
  ASSUME NEW m, NEW s \in Cells, NEW e \in s..Size, NEW A,
         m[e] \notin A, \A a \in s..e-1 : m[a] \in A
  PROVE  Span(m, s, A) = e - s
<1> DEFINE B == {a \in s..Size : m[a] \notin A}
<1>1. e \in B /\ B \subseteq Int /\ \A y \in B : e <= y
  OBVIOUS
<1>2. Min(B) = e
  <2> HIDE DEF B
  <2> QED BY <1>1, MinIs
<1> QED BY <1>2 DEF Span

LEMMA CSpanIs ==
  ASSUME NEW m, NEW s \in Cells, NEW e \in s..Size, NEW A,
         m[e] \in A \cup {NUL}, \A a \in s..e-1 : m[a] \notin A \cup {NUL}
  PROVE  CSpan(m, s, A) = e - s
<1> DEFINE B == {a \in s..Size : m[a] \in A \cup {NUL}}
<1>1. e \in B /\ B \subseteq Int /\ \A y \in B : e <= y
  OBVIOUS
<1>2. Min(B) = e
  <2> HIDE DEF B
  <2> QED BY <1>1, MinIs
<1> QED BY <1>2 DEF CSpan

LEMMA FirstInIs ==
  ASSUME NEW A, A \subseteq Int, NEW x \in A, \A y \in A : x <= y
  PROVE  FirstIn(A) = x
<1>1. Min(A) = x
  BY MinIs
<1> QED BY <1>1 DEF FirstIn

(* The cells from s and from t differ at i for the first time, and do not  *)
(* differ up to n.                                                         *)
DifferAt(m, s, t, n, i) ==
  /\ n \in Int /\ i \in 0..n
  /\ m[s + i] # m[t + i]
  /\ \A j \in 0..i-1 : m[s + j] = m[t + j]

Agree(m, s, t, n) == n \in Int /\ \A j \in 0..n : m[s + j] = m[t + j]

LEMMA DifferenceIs ==
  ASSUME NEW m, NEW s, NEW t, NEW n, NEW i, DifferAt(m, s, t, n, i)
  PROVE  Difference(m, s, t, 0..n) = m[s + i] - m[t + i]
<1> USE DEF DifferAt
<1> DEFINE D == {j \in 0..n : m[s + j] # m[t + j]}
<1>1. i \in D /\ D \subseteq Int /\ i \in Int
  OBVIOUS
<1>2. Min(D) = i /\ D # {}
  <2>1. \A j \in D : ~(j \in 0..i-1)
    OBVIOUS
  <2>2. \A j \in D : j \in 0..n
    OBVIOUS
  <2> HIDE DEF D
  <2>3. \A j \in D : i <= j
    BY <1>1, <2>1, <2>2
  <2> QED BY <1>1, <2>3, MinIs
<1>3. Difference(m, s, t, 0..n) = IF D = {} THEN 0 ELSE m[s + Min(D)] - m[t + Min(D)]
  BY DEF Difference
<1> HIDE DEF D
<1> QED BY <1>2, <1>3

LEMMA NoDifference ==
  ASSUME NEW m, NEW s, NEW t, NEW n, Agree(m, s, t, n)
  PROVE  Difference(m, s, t, 0..n) = 0
<1> USE DEF Agree
<1> DEFINE D == {j \in 0..n : m[s + j] # m[t + j]}
<1>1. D = {}
  OBVIOUS
<1>2. Difference(m, s, t, 0..n) = IF D = {} THEN 0 ELSE m[s + Min(D)] - m[t + Min(D)]
  BY DEF Difference
<1> HIDE DEF D
<1> QED BY <1>1, <1>2

LEMMA MinOfTwo ==
  ASSUME NEW a \in Int, NEW b \in Int
  PROVE  Min({a, b}) = IF a <= b THEN a ELSE b
<1>1. CASE a <= b
  BY <1>1, MinIs
<1>2. CASE ~(a <= b)
  BY <1>2, MinIs
<1> QED BY <1>1, <1>2

(* The strings a call was given.                                           *)
LEMMA FirstString ==
  ASSUME Called, Terminated(before, Str1)
  PROVE  /\ Str1 \in Cells /\ Len1 \in 0..Size-Str1
         /\ before[Str1 + Len1] = NUL
         /\ \A a \in Str1..Str1+Len1-1 : before[a] # NUL
<1>1. Str1 \in Cells
  BY DEF Called, Str1
<1> QED BY <1>1, LengthFacts DEF Len1, Str1

LEMMA SecondString ==
  ASSUME Called, Terminated(before, Str2)
  PROVE  /\ Str2 \in Cells /\ Len2 \in 0..Size-Str2
         /\ before[Str2 + Len2] = NUL
         /\ \A a \in Str2..Str2+Len2-1 : before[a] # NUL
         /\ NUL \notin CharsAt(before, Str2)
<1>1. Str2 \in Cells
  BY DEF Called, Str2
<1>2. /\ Len2 \in 0..Size-Str2
      /\ before[Str2 + Len2] = NUL
      /\ \A a \in Str2..Str2+Len2-1 : before[a] # NUL
  BY <1>1, LengthFacts DEF Len2, Str2
<1>3. CharsAt(before, Str2) = {before[a] : a \in Str2..Str2+Len2-1}
  BY DEF CharsAt, Len2, Str2
<1> QED BY <1>1, <1>2, <1>3

(* Which arguments are strings.                                            *)
OneString == {"strlen", "strchr", "strreverse", "strcat"} \cup Pairs
TwoStrings == {"strcpy", "strncpy", "strcat"} \cup Pairs

LEMMA LegalStrings ==
  ASSUME NEW f, NEW m, NEW s, NEW t, NEW n, NEW c, Legal(f, m, s, t, n, c)
  PROVE  /\ f \in OneString => Terminated(m, s)
         /\ f \in TwoStrings => Terminated(m, t)
BY DEF Legal, OneString, TwoStrings, Copiers, Strings, Pairs

LEMMA Contracts ==
  ASSUME Called
  PROVE  /\ Str1 \in Cells /\ Str2 \in Cells /\ Num \in 0..Size
         /\ call.fn \in OneString => Terminated(before, Str1)
         /\ call.fn \in TwoStrings => Terminated(before, Str2)
BY LegalStrings DEF Called, Str1, Str2, Num

-----------------------------------------------------------------------------
(* A function that returns as it should; see CallsKeepTheirPromise.        *)
Returns == at' = "returned" /\ result' = Answer /\ mem' = Effect

(* The functions that only read.                                           *)
LEMMA StrlenKept ==
  ASSUME before \in Memories, Called, call.fn = "strlen", StrlenInv, strlen
  PROVE  StrlenInv' \/ Returns
<1>1. /\ Str1 \in Cells /\ Len1 \in 0..Size-Str1
      /\ before[Str1 + Len1] = NUL
      /\ \A a \in Str1..Str1+Len1-1 : before[a] # NUL
  BY Contracts, FirstString DEF OneString, Pairs
<1>2. k <= Len1
  BY <1>1 DEF StrlenInv, Free
<1>3. CASE mem[p + k] # NUL /\ Read("loop", p, q, k + 1)
  BY <1>1, <1>2, <1>3 DEF Read, Go, StrlenInv, Free, Str1
<1>4. CASE mem[p + k] = NUL /\ Return(k)
  <2>1. k = Len1
    BY <1>1, <1>2, <1>4 DEF StrlenInv, Free
  <2>2. Answer = Len1 /\ Effect = before
    BY DEF Answer, Effect, Len1, Copiers
  <2> QED BY <2>1, <2>2, <1>4 DEF Return, Returns, StrlenInv
<1> QED BY <1>3, <1>4 DEF strlen

LEMMA LfindKept ==
  ASSUME before \in Memories, Called, call.fn = "lfind", LfindInv, lfind
  PROVE  LfindInv' \/ Returns
<1>1. PICK b \in Str1..Size : before[b] = call.c
  BY DEF Called, Legal, Str1, Copiers, Strings, Pairs
<1>2. Str1 \in Cells /\ Str1 + k <= b
  BY <1>1, Contracts DEF LfindInv, Free
<1>3. CASE mem[p + k] # call.c /\ Read("loop", p, q, k + 1)
  <2>1. Str1 + k # b
    BY <1>1, <1>2, <1>3 DEF LfindInv
  <2> QED BY <1>1, <1>2, <1>3, <2>1 DEF Read, Go, LfindInv, Free, Str1
<1>4. CASE mem[p + k] = call.c /\ Return(p + k)
  <2> DEFINE A == {a \in Str1..Size : before[a] = call.c}
  <2>1. p + k \in A /\ A \subseteq Int /\ \A y \in A : p + k <= y
    BY <1>1, <1>2, <1>4 DEF LfindInv, Free
  <2>2. FirstIn(A) = p + k
    <3> HIDE DEF A
    <3> QED BY <2>1, FirstInIs
  <2>3. Answer = FirstIn(A) /\ Effect = before
    BY DEF Answer, Effect, Copiers, Str1
  <2> QED BY <2>2, <2>3, <1>4 DEF Return, Returns, LfindInv
<1> QED BY <1>3, <1>4 DEF lfind

LEMMA StrchrKept ==
  ASSUME before \in Memories, Called, call.fn = "strchr", StrchrInv, strchr
  PROVE  StrchrInv' \/ Returns
<1>1. /\ Str1 \in Cells /\ Len1 \in 0..Size-Str1
      /\ before[Str1 + Len1] = NUL
      /\ \A a \in Str1..Str1+Len1-1 : before[a] # NUL
  BY Contracts, FirstString DEF OneString, Pairs
<1> DEFINE A == {a \in Str1..Str1+Len1 : before[a] = call.c}
<1>2. Answer = FirstIn(A) /\ Effect = before
  BY DEF Answer, Effect, Copiers, Str1, Len1
<1>3. CASE mem[p] = call.c /\ Return(p)
  <2>1. p \in A /\ A \subseteq Int /\ \A y \in A : p <= y
    BY <1>1, <1>3 DEF StrchrInv, Free
  <2>2. FirstIn(A) = p
    <3> HIDE DEF A
    <3> QED BY <2>1, FirstInIs
  <2> QED BY <1>2, <2>2, <1>3 DEF Return, Returns, StrchrInv
<1>4. CASE mem[p] # call.c /\ mem[p] = NUL /\ Return(NULL)
  <2>1. p = Str1 + Len1
    BY <1>1, <1>4 DEF StrchrInv
  <2>2. A = {}
    BY <1>1, <1>4, <2>1 DEF StrchrInv, Free
  <2> HIDE DEF A
  <2> QED BY <1>2, <2>2, <1>4 DEF Return, Returns, StrchrInv, FirstIn
<1>5. CASE mem[p] # call.c /\ mem[p] # NUL /\ Read("loop", p + 1, q, k)
  <2>1. p # Str1 + Len1
    BY <1>1, <1>5 DEF StrchrInv
  <2> QED BY <1>1, <1>5, <2>1 DEF Read, Go, StrchrInv, Free, Str1, Len1
<1> QED BY <1>3, <1>4, <1>5 DEF strchr

LEMMA StrspnKept ==
  ASSUME before \in Memories, Called, call.fn = "strspn", StrspnInv, strspn
  PROVE  StrspnInv' \/ Returns
<1>1. /\ Str1 \in Cells /\ Len1 \in 0..Size-Str1
      /\ before[Str1 + Len1] = NUL
      /\ \A a \in Str1..Str1+Len1-1 : before[a] # NUL
      /\ NUL \notin CharsAt(before, Str2)
  BY Contracts, FirstString, SecondString DEF OneString, TwoStrings, Pairs
<1>2. Answer = Span(before, Str1, CharsAt(before, Str2)) /\ Effect = before
  BY DEF Answer, Effect, Copiers, Str1, Str2
<1>3. CASE mem[p] # NUL /\ mem[p] \in CharsAt(mem, q) /\ Read("loop", p + 1, q, k + 1)
  BY <1>1, <1>3 DEF Read, Go, StrspnInv, Str1, Str2, Len1
<1>4. CASE ~(mem[p] # NUL /\ mem[p] \in CharsAt(mem, q)) /\ Return(k)
  <2>1. p \in Str1..Size /\ k = p - Str1
    BY <1>1 DEF StrspnInv
  <2>2. before[p] \notin CharsAt(before, Str2)
    BY <1>1, <1>4 DEF StrspnInv
  <2>3. \A a \in Str1..p-1 : before[a] \in CharsAt(before, Str2)
    BY DEF StrspnInv
  <2>4. Span(before, Str1, CharsAt(before, Str2)) = k
    BY <1>1, <2>1, <2>2, <2>3, SpanIs
  <2> QED BY <1>2, <2>4, <1>4 DEF Return, Returns, StrspnInv
<1> QED BY <1>3, <1>4 DEF strspn

LEMMA StrcspnKept ==
  ASSUME before \in Memories, Called, call.fn = "strcspn", StrcspnInv, strcspn
  PROVE  StrcspnInv' \/ Returns
<1>1. /\ Str1 \in Cells /\ Len1 \in 0..Size-Str1
      /\ before[Str1 + Len1] = NUL
      /\ \A a \in Str1..Str1+Len1-1 : before[a] # NUL
  BY Contracts, FirstString DEF OneString, Pairs
<1>2. Answer = CSpan(before, Str1, CharsAt(before, Str2)) /\ Effect = before
  BY DEF Answer, Effect, Copiers, Str1, Str2
<1>3. CASE mem[p] # NUL /\ mem[p] \notin CharsAt(mem, q) /\ Read("loop", p + 1, q, k + 1)
  BY <1>1, <1>3 DEF Read, Go, StrcspnInv, Free, Str1, Str2, Len1
<1>4. CASE mem[p] \in CharsAt(mem, q) \cup {NUL} /\ Return(k)
  <2>1. p \in Str1..Size /\ k = p - Str1
    BY <1>1 DEF StrcspnInv
  <2>2. before[p] \in CharsAt(before, Str2) \cup {NUL}
    BY <1>4 DEF StrcspnInv
  <2>3. \A a \in Str1..p-1 : before[a] \notin CharsAt(before, Str2) \cup {NUL}
    BY <1>1 DEF StrcspnInv, Free
  <2>4. CSpan(before, Str1, CharsAt(before, Str2)) = k
    BY <1>1, <2>1, <2>2, <2>3, CSpanIs
  <2> QED BY <1>2, <2>4, <1>4 DEF Return, Returns, StrcspnInv
<1> QED BY <1>3, <1>4 DEF strcspn

LEMMA MemcmpKept ==
  ASSUME before \in Memories, Called, call.fn = "memcmp", MemcmpInv, memcmp
  PROVE  MemcmpInv' \/ Returns
<1>1. Str1 \in Cells /\ Str2 \in Cells /\ Num \in 0..Size
  BY Contracts
<1>2. Answer = Difference(before, Str1, Str2, 0..Num-1) /\ Effect = before
  BY DEF Answer, Effect, Copiers, Str1, Str2, Num
<1> DEFINE i == Num - k
<1>3. /\ i \in 0..Num /\ p = Str1 + i /\ q = Str2 + i /\ k = Num - i
      /\ mem = before
      /\ \A j \in 0..i-1 : before[Str1 + j] = before[Str2 + j]
  BY <1>1 DEF MemcmpInv
<1> HIDE DEF i
<1>4. CASE k = 0 /\ Return(0)
  <2>1. Agree(before, Str1, Str2, Num - 1)
    BY <1>1, <1>3, <1>4 DEF Agree
  <2>2. Difference(before, Str1, Str2, 0..Num-1) = 0
    BY <2>1, NoDifference
  <2> QED BY <1>2, <2>2, <1>3, <1>4 DEF Return, Returns
<1>5. CASE k > 0 /\ mem[p] # mem[q] /\ Return(mem[p] - mem[q])
  <2>1. DifferAt(before, Str1, Str2, Num - 1, i)
    BY <1>1, <1>3, <1>5 DEF DifferAt
  <2>2. Difference(before, Str1, Str2, 0..Num-1) = before[Str1 + i] - before[Str2 + i]
    BY <2>1, DifferenceIs
  <2> QED BY <1>2, <2>2, <1>3, <1>5 DEF Return, Returns
<1>6. CASE k > 0 /\ mem[p] = mem[q] /\ Read("loop", p + 1, q + 1, k - 1)
  <2>1. /\ k' \in 0..Num /\ p' = Str1 + (Num - k') /\ q' = Str2 + (Num - k')
        /\ \A j \in 0..Num-k'-1 : before[Str1 + j] = before[Str2 + j]
    <3>1. k' = k - 1 /\ p' = p + 1 /\ q' = q + 1 /\ before[Str1 + i] = before[Str2 + i]
      BY <1>3, <1>6 DEF Read, Go
    <3>2. k \in 0..Num /\ k > 0
      BY <1>1, <1>3, <1>6
    <3>3. k' \in 0..Num /\ Num - k' = i + 1 /\ i \in 0..Num
      BY <1>1, <1>3, <3>1, <3>2
    <3>4. p' = Str1 + (Num - k') /\ q' = Str2 + (Num - k')
      BY <1>1, <1>3, <3>1, <3>3
    <3>5. \A j \in 0..Num-k'-1 : j \in 0..i-1 \/ j = i
      BY <3>3
    <3> QED BY <1>3, <3>1, <3>3, <3>4, <3>5
  <2>2. call' = call /\ before' = before /\ at' = "loop" /\ mem' = before
    BY <1>3, <1>6 DEF Read, Go
  <2> QED BY <2>1, <2>2 DEF MemcmpInv, Str1, Str2, Num
<1> QED BY <1>4, <1>5, <1>6 DEF memcmp

LEMMA StrcmpKept ==
  ASSUME before \in Memories, Called, call.fn = "strcmp", StrcmpInv, strcmp
  PROVE  StrcmpInv' \/ Returns
<1>1. /\ Str1 \in Cells /\ Len1 \in 0..Size-Str1
      /\ before[Str1 + Len1] = NUL
      /\ \A a \in Str1..Str1+Len1-1 : before[a] # NUL
  BY Contracts, FirstString DEF OneString, Pairs
<1>2. /\ Str2 \in Cells /\ Len2 \in 0..Size-Str2
      /\ before[Str2 + Len2] = NUL
      /\ \A a \in Str2..Str2+Len2-1 : before[a] # NUL
  BY Contracts, SecondString DEF TwoStrings, Pairs
<1> DEFINE lo == IF Len1 <= Len2 THEN Len1 ELSE Len2
<1>3. Answer = Difference(before, Str1, Str2, 0..lo) /\ Effect = before
  <2>1. Min({Len1, Len2}) = lo
    BY <1>1, <1>2, MinOfTwo
  <2>2. Answer = Difference(before, Str1, Str2, 0..Min({Len1, Len2})) /\ Effect = before
    BY DEF Answer, Effect, Copiers, Str1, Str2, Len1, Len2
  <2> QED BY <2>1, <2>2
<1> DEFINE i == p - Str1
<1>4. /\ i \in Nat /\ p = Str1 + i /\ q = Str2 + i /\ mem = before
      /\ \A j \in 0..i-1 : before[Str1 + j] = before[Str2 + j] /\ before[Str1 + j] # NUL
  BY <1>1, <1>2 DEF StrcmpInv
<1>5. i <= lo /\ lo \in Nat /\ i <= Len1 /\ i <= Len2 /\ i = p - Str1
  <2>1. ~(Len1 < i)
    BY <1>1, <1>4
  <2>2. ~(Len2 < i)
    BY <1>2, <1>4
  <2> QED BY <1>1, <1>2, <1>4, <2>1, <2>2
<1> HIDE DEF i, lo
<1>6. CASE mem[p] # NUL /\ mem[p] = mem[q] /\ Read("loop", p + 1, q + 1, k)
  <2>1. i # Len1 /\ i # Len2
    BY <1>1, <1>2, <1>4, <1>6
  <2>2. p + 1 \in Cells /\ q + 1 \in Cells /\ p + 1 >= Str1 /\ q + 1 - Str2 = p + 1 - Str1
    BY <1>1, <1>2, <1>4, <1>5, <2>1
  <2>3. \A j \in 0..p+1-Str1-1 : before[Str1 + j] = before[Str2 + j] /\ before[Str1 + j] # NUL
    <3>1. before[Str1 + i] = before[Str2 + i] /\ before[Str1 + i] # NUL
      BY <1>4, <1>6
    <3>2. \A j \in 0..p+1-Str1-1 : j \in 0..i-1 \/ j = i
      BY <1>1, <1>4
    <3> QED BY <1>4, <3>1, <3>2
  <2>4. /\ call' = call /\ before' = before /\ at' = "loop" /\ mem' = before
        /\ p' = p + 1 /\ q' = q + 1
    BY <1>4, <1>6 DEF Read, Go
  <2>5. /\ p' \in Cells /\ q' \in Cells /\ p' >= Str1 /\ q' - Str2 = p' - Str1
        /\ \A j \in 0..p'-Str1-1 : before[Str1 + j] = before[Str2 + j] /\ before[Str1 + j] # NUL
    <3>1. p \in Int /\ q \in Int
      BY <1>1, <1>2, <1>4
    <3>2. p' \in Cells /\ q' \in Cells /\ p' >= Str1 /\ q' - Str2 = p' - Str1
      BY <1>1, <1>2, <2>2, <2>4, <3>1
    <3>3. p' - Str1 - 1 = p + 1 - Str1 - 1
      BY <1>1, <2>4, <3>1
    <3> QED BY <2>3, <3>2, <3>3
  <2> QED BY <2>4, <2>5 DEF StrcmpInv, Str1, Str2
<1>7. CASE ~(mem[p] # NUL /\ mem[p] = mem[q]) /\ Return(mem[p] - mem[q])
  <2>1. CASE mem[p] # mem[q]
    <3>1. DifferAt(before, Str1, Str2, lo, i)
      BY <1>4, <1>5, <2>1 DEF DifferAt
    <3>2. Difference(before, Str1, Str2, 0..lo) = before[Str1 + i] - before[Str2 + i]
      BY <3>1, DifferenceIs
    <3> QED BY <1>3, <3>2, <1>4, <1>7 DEF Return, Returns
  <2>2. CASE mem[p] = NUL /\ mem[q] = NUL
    <3>1. ~(i < Len1) /\ ~(i < Len2)
      BY <1>1, <1>2, <1>4, <1>5, <2>2
    <3>2. i = Len1 /\ i = Len2 /\ lo = i
      BY <1>1, <1>2, <1>4, <1>5, <3>1 DEF lo
    <3>3. before[Str1 + i] = before[Str2 + i]
      BY <1>4, <2>2
    <3>4. \A j \in 0..lo : j \in 0..i-1 \/ j = i
      BY <1>4, <3>2
    <3>5. Agree(before, Str1, Str2, lo)
      BY <1>4, <1>5, <3>3, <3>4 DEF Agree
    <3>6. Difference(before, Str1, Str2, 0..lo) = 0
      BY <3>5, NoDifference
    <3>7. mem[p] - mem[q] = 0
      BY <2>2 DEF NUL
    <3> QED BY <1>3, <3>6, <3>7, <1>4, <1>7 DEF Return, Returns
  <2> QED BY <1>7, <2>1, <2>2
<1> QED BY <1>6, <1>7 DEF strcmp

LEMMA StrstrKept ==
  ASSUME before \in Memories, Called, call.fn = "strstr", StrstrInv, strstr
  PROVE  StrstrInv' \/ Returns
<1>1. /\ Str1 \in Cells /\ Len1 \in 0..Size-Str1
      /\ before[Str1 + Len1] = NUL
      /\ \A a \in Str1..Str1+Len1-1 : before[a] # NUL
  BY Contracts, FirstString DEF OneString, Pairs
<1> DEFINE A == {a \in Str1..Str1+Len1-1 : Equal(before, a, Str2, Len2)}
<1>2. Answer = FirstIn(A) /\ Effect = before
  BY DEF Answer, Effect, Copiers, Str1, Str2, Len1, Len2
<1>3. CASE mem[p] = NUL /\ Return(NULL)
  <2>1. p = Str1 + Len1
    BY <1>1, <1>3 DEF StrstrInv
  <2>2. A = {}
    BY <1>1, <2>1 DEF StrstrInv
  <2> HIDE DEF A
  <2> QED BY <1>2, <2>2, <1>3 DEF Return, Returns, StrstrInv, FirstIn
<1>4. CASE mem[p] # NUL /\ Equal(mem, p, call.t, k) /\ Return(p)
  <2>1. p # Str1 + Len1 /\ Equal(before, p, Str2, Len2)
    BY <1>1, <1>4 DEF StrstrInv, Str2
  <2>2. p \in A /\ A \subseteq Int /\ \A y \in A : p <= y
    BY <1>1, <2>1 DEF StrstrInv
  <2>3. FirstIn(A) = p
    <3> HIDE DEF A
    <3> QED BY <2>2, FirstInIs
  <2> QED BY <1>2, <2>3, <1>4 DEF Return, Returns, StrstrInv
<1>5. CASE mem[p] # NUL /\ ~Equal(mem, p, call.t, k) /\ Read("loop", p + 1, q, k)
  <2>1. p # Str1 + Len1 /\ ~Equal(before, p, Str2, Len2)
    BY <1>1, <1>5 DEF StrstrInv, Str2
  <2>2. p + 1 \in Str1..Str1+Len1 /\ k = Len2
    BY <1>1, <2>1 DEF StrstrInv
  <2>3. \A a \in Str1..p+1-1 : ~Equal(before, a, Str2, Len2)
    BY <1>1, <2>1 DEF StrstrInv
  <2>4. /\ call' = call /\ before' = before /\ at' = "loop" /\ mem' = before
        /\ p' = p + 1 /\ k' = k
    BY <1>5 DEF Read, Go, StrstrInv
  <2> QED BY <2>2, <2>3, <2>4 DEF StrstrInv, Str1, Str2, Len1, Len2
<1> QED BY <1>3, <1>4, <1>5 DEF strstr

LEMMA StrpbrkKept ==
  ASSUME before \in Memories, Called, call.fn = "strpbrk", StrpbrkInv, strpbrk
  PROVE  StrpbrkInv' \/ Returns
<1>1. /\ Str1 \in Cells /\ Len1 \in 0..Size-Str1
      /\ before[Str1 + Len1] = NUL
      /\ \A a \in Str1..Str1+Len1-1 : before[a] # NUL
  BY Contracts, FirstString DEF OneString, Pairs
<1>2. /\ Str2 \in Cells /\ Len2 \in 0..Size-Str2
      /\ before[Str2 + Len2] = NUL
      /\ \A a \in Str2..Str2+Len2-1 : before[a] # NUL
  BY Contracts, SecondString DEF TwoStrings, Pairs
<1> DEFINE accept == CharsAt(before, Str2)
<1>3. accept = {before[a] : a \in Str2..Str2+Len2-1}
  BY DEF CharsAt, Len2, Str2
<1> DEFINE A == {a \in Str1..Str1+Len1-1 : before[a] \in accept}
<1>4. Answer = FirstIn(A) /\ Effect = before
  BY DEF Answer, Effect, Copiers, Str1, Str2, Len1
<1> HIDE DEF accept
<1>5. /\ mem = before /\ p \in Str1..Str1+Len1 /\ q \in Str2..Str2+Len2
      /\ Free(accept, Str1, p)
  BY DEF StrpbrkInv, accept
<1>6. ASSUME mem[p] = NUL
      PROVE  A = {}
  <2>1. p = Str1 + Len1
    BY <1>1, <1>5, <1>6
  <2> QED BY <1>1, <1>5, <2>1 DEF Free
<1>7. CASE mem[p] = NUL /\ p = call.s /\ Return(NULL)
  <2>1. A = {}
    BY <1>6, <1>7
  <2> HIDE DEF A
  <2> QED BY <1>4, <1>5, <1>7, <2>1 DEF FirstIn, Return, Returns
<1>8. CASE at = "loop" /\ mem[p] = NUL /\ p # call.s /\ Read("end", p, q, k)
  <2>1. before[q] = NUL /\ before[p] = NUL
    BY <1>5, <1>8 DEF StrpbrkInv, Str1
  <2>2. /\ call' = call /\ before' = before /\ at' = "end" /\ mem' = before
        /\ p' = p /\ q' = q
    BY <1>5, <1>8 DEF Read, Go
  <2> QED BY <1>5, <2>1, <2>2 DEF StrpbrkInv, Str1, Str2, Len1, Len2, Free, accept
<1>9. CASE mem[p] # NUL /\ Read("accept", p, call.t, k)
  <2>1. Free({before[p]}, Str2, Str2) /\ Str2 \in Str2..Str2+Len2
    BY <1>2 DEF Free
  <2>2. /\ call' = call /\ before' = before /\ at' = "accept" /\ mem' = before
        /\ p' = p /\ q' = Str2
    BY <1>5, <1>9 DEF Read, Go, Str2
  <2> QED BY <1>5, <1>9, <2>1, <2>2 DEF StrpbrkInv, Str1, Str2, Len1, Len2, Free, accept
<1>10. CASE at = "accept" /\ mem[q] = NUL /\ Read("loop", p + 1, q, k)
  <2>1. before[p] # NUL /\ Free({before[p]}, Str2, q)
    BY <1>10 DEF StrpbrkInv
  <2>2. q = Str2 + Len2
    BY <1>2, <1>5, <1>10
  <2>3. before[p] \notin accept
    <3>1. \A a \in Str2..Str2+Len2-1 : before[a] # before[p]
      BY <1>2, <2>1, <2>2 DEF Free
    <3> QED BY <1>3, <3>1
  <2>4. p # Str1 + Len1
    BY <1>1, <2>1
  <2>5. p + 1 \in Str1..Str1+Len1 /\ Free(accept, Str1, p + 1)
    BY <1>1, <1>5, <2>3, <2>4 DEF Free
  <2>6. /\ call' = call /\ before' = before /\ at' = "loop" /\ mem' = before
        /\ p' = p + 1 /\ q' = q
    BY <1>5, <1>10 DEF Read, Go
  <2> QED BY <1>5, <1>10, <2>5, <2>6 DEF StrpbrkInv, Str1, Str2, Len1, Len2, Free, accept
<1>11. CASE at = "accept" /\ mem[q] # NUL /\ mem[p] # mem[q] /\ Read("accept", p, q + 1, k)
  <2>1. before[p] # NUL /\ Free({before[p]}, Str2, q)
    BY <1>11 DEF StrpbrkInv
  <2>2. q # Str2 + Len2
    BY <1>2, <1>5, <1>11
  <2>3. q + 1 \in Str2..Str2+Len2 /\ Free({before[p]}, Str2, q + 1)
    BY <1>2, <1>5, <1>11, <2>1, <2>2 DEF Free
  <2>4. /\ call' = call /\ before' = before /\ at' = "accept" /\ mem' = before
        /\ p' = p /\ q' = q + 1
    BY <1>5, <1>11 DEF Read, Go
  <2> QED BY <1>5, <2>1, <2>3, <2>4 DEF StrpbrkInv, Str1, Str2, Len1, Len2, Free, accept
<1>12. CASE mem[q] # NUL /\ mem[p] = mem[q] /\ Read("end", p, q, k)
  <2>1. /\ call' = call /\ before' = before /\ at' = "end" /\ mem' = before
        /\ p' = p /\ q' = q
    BY <1>5, <1>12 DEF Read, Go
  <2> QED BY <1>5, <1>12, <2>1 DEF StrpbrkInv, Str1, Str2, Len1, Len2, Free, accept
<1>13. CASE at = "end" /\ Return(IF mem[q] = NUL THEN NULL ELSE p)
  <2>1. CASE mem[q] = NUL
    <3>1. mem[p] = NUL
      BY <1>5, <1>13, <2>1 DEF StrpbrkInv
    <3>2. A = {}
      BY <1>6, <3>1
    <3> HIDE DEF A
    <3> QED BY <1>4, <1>5, <1>13, <2>1, <3>2 DEF FirstIn, Return, Returns
  <2>2. CASE mem[q] # NUL
    <3>1. before[q] = before[p] /\ before[p] # NUL
      BY <1>5, <1>13, <2>2 DEF StrpbrkInv
    <3>2. q # Str2 + Len2 /\ p # Str1 + Len1
      BY <1>1, <1>2, <3>1
    <3>3. q \in Str2..Str2+Len2-1 /\ p \in Str1..Str1+Len1-1
      BY <1>1, <1>2, <1>5, <3>2
    <3>4. before[p] \in accept
      BY <1>3, <3>1, <3>3
    <3>5. p \in A /\ A \subseteq Int /\ \A y \in A : p <= y
      BY <1>1, <1>5, <3>3, <3>4 DEF Free
    <3>6. FirstIn(A) = p
      <4> HIDE DEF A
      <4> QED BY <3>5, FirstInIs
    <3> QED BY <1>4, <1>5, <1>13, <2>2, <3>6 DEF Return, Returns
  <2> QED BY <2>1, <2>2
<1> QED
  BY <1>7, <1>8, <1>9, <1>10, <1>11, <1>12, <1>13 DEF strpbrk, In

-----------------------------------------------------------------------------
(* The functions that write.  What a loop has copied so far.               *)
LEMMA CopyOutside ==
  ASSUME NEW m, NEW d \in Int, NEW s \in Int, NEW n \in Int,
         NEW a \in Cells, a \notin d..d+n-1
  PROVE  Copied(m, d, s, n)[a] = m[a]
BY DEF Copied

LEMMA CopyNext ==
  ASSUME NEW m, NEW d \in Int, NEW s \in Int, NEW n \in Nat, d + n \in Cells
  PROVE  [Copied(m, d, s, n) EXCEPT ![d + n] = m[s + n]] = Copied(m, d, s, n + 1)
<1> DEFINE old == Copied(m, d, s, n)
           new == Copied(m, d, s, n + 1)
<1>1. old = [a \in Cells |-> IF a \in d..d+n-1 THEN m[s + a - d] ELSE m[a]]
  BY DEF Copied
<1>2. new = [a \in Cells |-> IF a \in d..d+(n+1)-1 THEN m[s + a - d] ELSE m[a]]
  BY DEF Copied
<1>3. ASSUME NEW a \in Cells
      PROVE  [old EXCEPT ![d + n] = m[s + n]][a] = new[a]
  <2> HIDE DEF old, new
  <2>1. CASE a = d + n
    <3>1. a \in d..d+(n+1)-1 /\ s + a - d = s + n
      BY <2>1
    <3>2. [old EXCEPT ![d + n] = m[s + n]][a] = m[s + n]
      BY <1>1, <2>1
    <3> QED BY <1>2, <3>1, <3>2
  <2>2. CASE a # d + n
    <3>1. a \in d..d+(n+1)-1 <=> a \in d..d+n-1
      BY <2>2
    <3>2. [old EXCEPT ![d + n] = m[s + n]][a] = old[a]
      BY <1>1, <2>2
    <3> QED BY <1>1, <1>2, <3>1, <3>2
  <2> QED BY <2>1, <2>2
<1> HIDE DEF old, new
<1> QED BY <1>1, <1>2, <1>3 DEF old, new

LEMMA MemcpyKept ==
  ASSUME mem \in Memories, before \in Memories, Called,
         call.fn = "memcpy", MemcpyInv, memcpy
  PROVE  (MemcpyInv' /\ mem' \in Memories) \/ Returns
<1>1. /\ Str1 \in Cells /\ Str2 \in Cells /\ Num \in 0..Size
      /\ Str1 + Num <= Size + 1 /\ Str2 + Num <= Size + 1
      /\ Str1 + Num <= Str2 \/ Str2 + Num <= Str1
  BY Contracts DEF Called, Legal, Fits, Apart, Str1, Str2, Num, Copiers, Strings, Pairs
<1>2. Answer = Str1 /\ Effect = Copied(before, Str1, Str2, Num)
  BY DEF Answer, Effect, Copiers, Str1, Str2, Num
<1> DEFINE i == Num - k
<1>3. /\ i \in 0..Num /\ p = Str1 + i /\ q = Str2 + i /\ k = Num - i
      /\ mem = Copied(before, Str1, Str2, i)
  BY <1>1 DEF MemcpyInv
<1> HIDE DEF i
<1>4. CASE k > 0 /\ Write(p, mem[q]) /\ Go("loop", p + 1, q + 1, k - 1)
  <2>1. i < Num /\ p \in Cells /\ q \in Cells /\ q \notin Str1..Str1+i-1
    BY <1>1, <1>3, <1>4
  <2>2. mem[q] = before[q]
    BY <1>1, <1>3, <2>1, CopyOutside
  <2>3. mem' = [Copied(before, Str1, Str2, i) EXCEPT ![Str1 + i] = before[Str2 + i]]
    BY <1>3, <1>4, <2>2 DEF Write
  <2>4. mem' = Copied(before, Str1, Str2, i + 1)
    <3>1. i \in Nat /\ Str1 \in Int /\ Str2 \in Int /\ Str1 + i \in Cells
      BY <1>1, <1>3, <2>1
    <3> QED BY <2>3, <3>1, CopyNext
  <2>5. mem' \in Memories
    BY <1>4, <2>1 DEF Write, Memories
  <2>6. k' = k - 1 /\ p' = p + 1 /\ q' = q + 1 /\ call' = call /\ before' = before /\ at' = "loop"
    BY <1>4 DEF Go
  <2>7. k' \in 0..Num /\ Num - k' = i + 1 /\ p' = Str1 + (Num - k') /\ q' = Str2 + (Num - k')
    BY <1>1, <1>3, <2>1, <2>6
  <2> QED BY <2>4, <2>5, <2>6, <2>7 DEF MemcpyInv, Str1, Str2, Num
<1>5. CASE k = 0 /\ Return(call.s)
  <2>1. i = Num
    BY <1>1, <1>3, <1>5
  <2> QED BY <1>2, <1>3, <1>5, <2>1 DEF Return, Returns, Str1
<1> QED BY <1>4, <1>5 DEF memcpy

LEMMA MemsetKept ==
  ASSUME mem \in Memories, before \in Memories, Called,
         call.fn = "memset", MemsetInv, memset
  PROVE  (MemsetInv' /\ mem' \in Memories) \/ Returns
<1>1. /\ Str1 \in Cells /\ Num \in 0..Size /\ Str1 + Num <= Size + 1 /\ call.c \in Bytes
  BY Contracts DEF Called, Legal, Fits, Str1, Num, Copiers, Strings, Pairs
<1> DEFINE Filled(i) ==
      [a \in Cells |-> IF a \in Str1..Str1+i-1 THEN call.c ELSE before[a]]
<1>2. Answer = Str1 /\ Effect = Filled(Num)
  BY DEF Answer, Effect, Copiers, Str1, Num
<1> DEFINE i == Num - k
<1>3. i \in 0..Num /\ p = Str1 + i /\ k = Num - i /\ mem = Filled(i)
  BY <1>1 DEF MemsetInv
<1>4. CASE k > 0 /\ Write(p, call.c) /\ Go("loop", p + 1, q, k - 1)
  <2> HIDE DEF i
  <2>1. i < Num /\ p \in Cells
    BY <1>1, <1>3, <1>4
  <2>2. ASSUME NEW a \in Cells
        PROVE  [mem EXCEPT ![p] = call.c][a] = Filled(i + 1)[a]
    <3>1. a \in Str1..Str1+(i+1)-1 <=> a = p \/ a \in Str1..Str1+i-1
      BY <1>1, <1>3
    <3> QED BY <1>3, <3>1
  <2>3. mem' = Filled(i + 1)
    BY <1>3, <1>4, <2>2 DEF Write
  <2>4. mem' \in Memories
    BY <1>1, <1>4 DEF Write, Memories
  <2>5. k' = k - 1 /\ p' = p + 1 /\ call' = call /\ before' = before /\ at' = "loop"
    BY <1>4 DEF Go
  <2>6. k' \in 0..Num /\ Num - k' = i + 1 /\ p' = Str1 + (Num - k')
    BY <1>1, <1>3, <2>1, <2>5
  <2>7. mem' = [a \in Cells |-> IF a \in Str1..Str1+(Num-k')-1 THEN call.c ELSE before[a]]
    BY <2>3, <2>6
  <2> QED BY <2>4, <2>5, <2>6, <2>7 DEF MemsetInv, Str1, Num
<1>5. CASE k = 0 /\ Return(call.s)
  <2>1. i = Num
    BY <1>1, <1>3, <1>5
  <2> HIDE DEF i, Filled
  <2> QED BY <1>2, <1>3, <1>5, <2>1 DEF Return, Returns, Str1
<1> QED BY <1>4, <1>5 DEF memset

(* Downwards the cells behind the target have been read before they are    *)
(* overwritten, upwards those before it.                                   *)
LEMMA MemmoveKept ==
  ASSUME mem \in Memories, before \in Memories, Called,
         call.fn = "memmove", MemmoveInv, memmove
  PROVE  (MemmoveInv' /\ mem' \in Memories) \/ Returns
<1>1. /\ Str1 \in Cells /\ Str2 \in Cells /\ Num \in 0..Size
      /\ Str1 + Num <= Size + 1 /\ Str2 + Num <= Size + 1
  BY Contracts DEF Called, Legal, Fits, Str1, Str2, Num, Copiers, Strings, Pairs
<1> DEFINE Moved(i) ==
      [a \in Cells |-> IF a \in Str1+i..Str1+Num-1 THEN before[Str2 + a - Str1] ELSE before[a]]
<1>2. Answer = Str1 /\ Effect = Copied(before, Str1, Str2, Num)
  BY DEF Answer, Effect, Copiers, Str1, Str2, Num
<1>3. /\ k \in 0..Num /\ p = Str1 /\ q = Str2
      /\ p < q => mem = Copied(before, Str1, Str2, k)
      /\ p >= q => mem = Moved(k)
  BY DEF MemmoveInv
<1>4. CASE p < q /\ k < call.n /\ Write(p + k, mem[q + k]) /\ Go("loop", p, q, k + 1)
  <2>1. k < Num /\ p + k \in Cells /\ q + k \in Cells /\ q + k \notin Str1..Str1+k-1
    BY <1>1, <1>3, <1>4 DEF Num
  <2>2. mem[q + k] = before[Str2 + k]
    <3>1. Copied(before, Str1, Str2, k)[q + k] = before[q + k]
      <4>1. Str1 \in Int /\ Str2 \in Int /\ k \in Int
        BY <1>1, <1>3
      <4> QED BY <2>1, <4>1, CopyOutside
    <3> QED BY <1>3, <1>4, <3>1
  <2>3. mem' = [Copied(before, Str1, Str2, k) EXCEPT ![Str1 + k] = before[Str2 + k]]
    BY <1>3, <1>4, <2>2 DEF Write
  <2>4. mem' = Copied(before, Str1, Str2, k + 1)
    <3>1. k \in Nat /\ Str1 \in Int /\ Str2 \in Int /\ Str1 + k \in Cells
      BY <1>1, <1>3, <2>1
    <3> QED BY <2>3, <3>1, CopyNext
  <2>5. mem' \in Memories
    BY <1>4, <2>1 DEF Write, Memories
  <2>6. k' = k + 1 /\ p' = Str1 /\ q' = Str2 /\ call' = call /\ before' = before /\ at' = "loop"
    BY <1>3, <1>4 DEF Go
  <2>7. k' \in 0..Num /\ ~(p' >= q')
    BY <1>1, <1>3, <1>4, <2>1, <2>6
  <2> QED BY <2>4, <2>5, <2>6, <2>7 DEF MemmoveInv, Str1, Str2, Num
<1>5. CASE p < q /\ k = call.n /\ Return(call.s)
  BY <1>2, <1>3, <1>5 DEF Return, Returns, Str1, Num
<1>6. CASE p >= q /\ k # 0 /\ Write(p + k - 1, mem[q + k - 1]) /\ Go("loop", p, q, k - 1)
  <2>1. /\ k - 1 \in 0..Num /\ p + k - 1 \in Cells /\ q + k - 1 \in Cells
        /\ q + k - 1 \notin Str1+k..Str1+Num-1
    BY <1>1, <1>3, <1>6
  <2>2. mem[q + k - 1] = before[Str2 + k - 1]
    BY <1>1, <1>3, <1>6, <2>1
  <2>3. ASSUME NEW a \in Cells
        PROVE  [mem EXCEPT ![p + k - 1] = before[Str2 + k - 1]][a] = Moved(k - 1)[a]
    <3>1. CASE a = Str1 + k - 1
      <4>1. a \in Str1+(k-1)..Str1+Num-1 /\ Str2 + a - Str1 = Str2 + k - 1
        BY <1>1, <1>3, <1>6, <3>1
      <4>2. [mem EXCEPT ![p + k - 1] = before[Str2 + k - 1]][a] = before[Str2 + k - 1]
        BY <1>3, <1>6, <3>1
      <4> QED BY <4>1, <4>2
    <3>2. CASE a # Str1 + k - 1
      <4>1. a \in Str1+(k-1)..Str1+Num-1 <=> a \in Str1+k..Str1+Num-1
        <5>1. k \in 1..Num
          BY <1>1, <1>3, <1>6
        <5> QED BY <1>1, <3>2, <5>1
      <4>2. [mem EXCEPT ![p + k - 1] = before[Str2 + k - 1]][a] = mem[a]
        BY <1>3, <1>6, <3>2
      <4> QED BY <1>3, <1>6, <4>1, <4>2
    <3> QED BY <3>1, <3>2
  <2>4. mem' = Moved(k - 1)
    <3>1. mem' = [mem EXCEPT ![p + k - 1] = before[Str2 + k - 1]]
      BY <1>6, <2>2 DEF Write
    <3>2. mem' = [a \in Cells |-> mem'[a]]
      BY <3>1 DEF Memories
    <3>3. Moved(k - 1) = [a \in Cells |-> Moved(k - 1)[a]]
      OBVIOUS
    <3>4. \A a \in Cells : mem'[a] = Moved(k - 1)[a]
      BY <2>3, <3>1
    <3> HIDE DEF Moved
    <3> QED BY <3>2, <3>3, <3>4
  <2>5. mem' \in Memories
    BY <1>6, <2>1 DEF Write, Memories
  <2>6. k' = k - 1 /\ p' = Str1 /\ q' = Str2 /\ call' = call /\ before' = before /\ at' = "loop"
    BY <1>3, <1>6 DEF Go
  <2>7. k' \in 0..Num /\ ~(p' < q')
    BY <1>1, <1>3, <1>6, <2>1, <2>6
  <2>8. mem' = [a \in Cells |->
                  IF a \in Str1+k'..Str1+Num-1 THEN before[Str2 + a - Str1] ELSE before[a]]
    BY <2>4, <2>6
  <2> QED BY <2>5, <2>6, <2>7, <2>8 DEF MemmoveInv, Str1, Str2, Num
<1>7. CASE p >= q /\ k = 0 /\ Return(call.s)
  <2>1. Moved(0) = Copied(before, Str1, Str2, Num)
    BY <1>1 DEF Copied
  <2> HIDE DEF Moved
  <2> QED BY <1>2, <1>3, <1>7, <2>1 DEF Return, Returns, Str1
<1> QED BY <1>4, <1>5, <1>6, <1>7 DEF memmove

LEMMA StrcpyKept ==
  ASSUME mem \in Memories, before \in Memories, Called,
         call.fn = "strcpy", StrcpyInv, strcpy
  PROVE  (StrcpyInv' /\ mem' \in Memories) \/ Returns
<1>1. /\ Str1 \in Cells
      /\ Str2 \in Cells /\ Len2 \in 0..Size-Str2
      /\ before[Str2 + Len2] = NUL
      /\ \A a \in Str2..Str2+Len2-1 : before[a] # NUL
  BY Contracts, SecondString DEF TwoStrings, Pairs
<1>2. /\ Str1 + Len2 <= Size
      /\ Str1 + Len2 < Str2 \/ Str2 + Len2 < Str1
  <2>1. Fits(Str1, Len2 + 1) /\ Apart(Str1, Str2, Len2 + 1)
    BY DEF Called, Legal, Str1, Str2, Len2, Copiers, Strings, Pairs
  <2> QED BY <1>1, <2>1 DEF Fits, Apart
<1>3. Answer = Str1 /\ Effect = Copied(before, Str1, Str2, Len2 + 1)
  BY DEF Answer, Effect, Copiers, Str1, Str2, Len2
<1> DEFINE i == p - Str1
<1>4. /\ i \in 0..Len2 + 1 /\ p = Str1 + i /\ q = Str2 + i
      /\ mem = Copied(before, Str1, Str2, i)
      /\ at = "loop" <=> i <= Len2
  BY <1>1 DEF StrcpyInv
<1> HIDE DEF i
<1>5. CASE /\ at = "loop" /\ Write(p, mem[q])
           /\ Go(IF mem[q] = NUL THEN "done" ELSE "loop", p + 1, q + 1, k)
  <2>1. i <= Len2 /\ Str1 + i \in Cells /\ q \in Cells /\ q \notin Str1..Str1+i-1
    BY <1>1, <1>2, <1>4, <1>5
  <2>2. mem[q] = before[Str2 + i]
    BY <1>1, <1>4, <2>1, CopyOutside
  <2>3. mem' = [Copied(before, Str1, Str2, i) EXCEPT ![Str1 + i] = before[Str2 + i]]
    BY <1>4, <1>5, <2>2 DEF Write
  <2>4. mem' = Copied(before, Str1, Str2, i + 1)
    <3>1. i \in Nat /\ Str1 \in Int /\ Str2 \in Int /\ Str1 + i \in Cells
      BY <1>1, <1>4, <2>1
    <3> QED BY <2>3, <3>1, CopyNext
  <2>5. mem' \in Memories
    BY <1>5, <2>1 DEF Write, Memories
  <2>6. /\ p' = p + 1 /\ q' = q + 1 /\ call' = call /\ before' = before
        /\ at' = IF mem[q] = NUL THEN "done" ELSE "loop"
    BY <1>5 DEF Go
  <2>7. p' - Str1 = i + 1 /\ p' \in Str1..Str1+Len2+1 /\ q' = Str2 + (i + 1)
    BY <1>1, <1>4, <2>1, <2>6
  <2>8. mem[q] = NUL <=> i = Len2
    BY <1>1, <1>4, <2>1, <2>2
  <2>9. at' = "loop" <=> i + 1 <= Len2
    <3>1. i + 1 <= Len2 <=> i # Len2
      BY <1>1, <1>4, <2>1
    <3> QED BY <2>6, <2>8, <3>1
  <2> QED BY <2>4, <2>5, <2>6, <2>7, <2>9 DEF StrcpyInv, Str1, Str2, Len2
<1>6. CASE at = "done" /\ Return(call.s)
  <2>1. i = Len2 + 1
    <3>1. ~(i <= Len2)
      BY <1>4, <1>6
    <3> QED BY <1>1, <1>4, <3>1
  <2> QED BY <1>3, <1>4, <1>6, <2>1 DEF Return, Returns, Str1
<1> QED BY <1>5, <1>6 DEF strcpy, In

LEMMA StrncpyKept ==
  ASSUME mem \in Memories, before \in Memories, Called,
         call.fn = "strncpy", StrncpyInv, strncpy
  PROVE  (StrncpyInv' /\ mem' \in Memories) \/ Returns
<1>1. /\ Str1 \in Cells /\ Num \in 0..Size
      /\ Str2 \in Cells /\ Len2 \in 0..Size-Str2
      /\ before[Str2 + Len2] = NUL
      /\ \A a \in Str2..Str2+Len2-1 : before[a] # NUL
  BY Contracts, SecondString DEF TwoStrings, Pairs
<1>2. /\ Str1 + Num <= Size + 1
      /\ Str1 + Num <= Str2 \/ Str2 + Len2 < Str1
  BY DEF Called, Legal, Fits, Str1, Str2, Num, Len2, Copiers, Strings, Pairs
<1> DEFINE Padded(i) ==
      [a \in Cells |-> IF a \notin Str1..Str1+i-1 THEN before[a]
                       ELSE IF a - Str1 < Len2 THEN before[Str2 + a - Str1] ELSE NUL]
<1>3. Answer = Str1 /\ Effect = Padded(Num)
  BY DEF Answer, Effect, Copiers, Str1, Str2, Len2, Num
<1> DEFINE i == Num - k
<1>4. /\ i \in 0..Num /\ p = Str1 + i /\ k = Num - i
      /\ at = "loop" => q = Str2 + i /\ i <= Len2 /\ mem = Copied(before, Str1, Str2, i)
  BY <1>1 DEF StrncpyInv
<1>5. at = "pad" => i > Len2 /\ mem = Padded(i)
  <2>1. p - 1 = Str1 + i - 1
    BY <1>1, <1>4
  <2> QED BY <2>1 DEF StrncpyInv
<1> HIDE DEF i
<1>6. CASE at = "loop" /\ k = 0 /\ Return(call.s)
  <2>1. i = Num /\ Num <= Len2
    BY <1>1, <1>4, <1>6
  <2>2. Copied(before, Str1, Str2, Num) = Padded(Num)
    <3>1. \A a \in Str1..Str1+Num-1 : a - Str1 < Len2
      BY <1>1, <2>1
    <3> QED BY <3>1 DEF Copied
  <2> HIDE DEF Padded
  <2> QED BY <1>3, <1>4, <1>6, <2>1, <2>2 DEF Return, Returns, Str1
<1>7. CASE /\ at = "loop" /\ k > 0 /\ Write(p, mem[q])
           /\ Go(IF mem[q] = NUL THEN "pad" ELSE "loop", p + 1, q + 1, k - 1)
  <2>1. /\ i < Num /\ i <= Len2 /\ q = Str2 + i
        /\ Str1 + i \in Cells /\ q \in Cells /\ q \notin Str1..Str1+i-1
    BY <1>1, <1>2, <1>4, <1>7
  <2>2. mem[q] = before[Str2 + i]
    <3>1. Str1 \in Int /\ Str2 \in Int /\ i \in Int
      BY <1>1, <1>4
    <3>2. Copied(before, Str1, Str2, i)[q] = before[q]
      BY <2>1, <3>1, CopyOutside
    <3> QED BY <1>4, <1>7, <2>1, <3>2
  <2>3. mem' = [Copied(before, Str1, Str2, i) EXCEPT ![Str1 + i] = before[Str2 + i]]
    BY <1>4, <1>7, <2>2 DEF Write
  <2>4. mem' = Copied(before, Str1, Str2, i + 1)
    <3>1. i \in Nat /\ Str1 \in Int /\ Str2 \in Int /\ Str1 + i \in Cells
      BY <1>1, <1>4, <2>1
    <3> QED BY <2>3, <3>1, CopyNext
  <2>5. mem' \in Memories
    BY <1>7, <2>1 DEF Write, Memories
  <2>6. /\ p' = p + 1 /\ q' = q + 1 /\ k' = k - 1 /\ call' = call /\ before' = before
        /\ at' = IF mem[q] = NUL THEN "pad" ELSE "loop"
    BY <1>7 DEF Go
  <2>7. k' \in 0..Num /\ Num - k' = i + 1 /\ p' = Str1 + (Num - k') /\ q' = Str2 + (Num - k')
    BY <1>1, <1>4, <2>1, <2>6
  <2>8. CASE mem[q] = NUL
    <3>1. i = Len2
      <4>1. ~(Str2 + i \in Str2..Str2+Len2-1)
        BY <1>1, <2>2, <2>8
      <4>2. i \in Nat
        BY <1>1, <1>4
      <4> QED BY <1>1, <2>1, <4>1, <4>2
    <3>2. ASSUME NEW a \in Cells
          PROVE  Copied(before, Str1, Str2, i + 1)[a] = Padded(i + 1)[a]
      <4>1. CASE a = Str1 + i
        <5>1. a \in Str1..Str1+(i+1)-1 /\ Str2 + a - Str1 = Str2 + i /\ ~(a - Str1 < Len2)
          BY <1>1, <1>4, <3>1, <4>1
        <5> QED BY <2>2, <2>8, <5>1 DEF Copied
      <4>2. CASE a \in Str1..Str1+i-1
        <5>1. a \in Str1..Str1+(i+1)-1 /\ a - Str1 < Len2
          BY <1>1, <1>4, <3>1, <4>2
        <5> QED BY <5>1 DEF Copied
      <4>3. CASE a # Str1 + i /\ a \notin Str1..Str1+i-1
        <5>1. a \notin Str1..Str1+(i+1)-1
          BY <1>1, <1>4, <3>1, <4>3
        <5> QED BY <5>1 DEF Copied
      <4> QED BY <4>1, <4>2, <4>3
    <3>3. mem' = Padded(i + 1)
      BY <2>4, <3>2 DEF Copied
    <3>4. i + 1 = p' - Str1 /\ p' - 1 = Str1 + (i + 1) - 1 /\ Num - k' > Len2
      BY <1>1, <1>4, <2>6, <2>7, <3>1
    <3>5. mem' = [a \in Cells |->
                    IF a \notin Str1..p'-1 THEN before[a]
                    ELSE IF a - Str1 < Len2 THEN before[Str2 + a - Str1] ELSE NUL]
      BY <3>3, <3>4
    <3> QED BY <2>5, <2>6, <2>7, <2>8, <3>4, <3>5 DEF StrncpyInv, Str1, Str2, Num, Len2
  <2>9. CASE mem[q] # NUL
    <3>1. i # Len2
      BY <1>1, <2>2, <2>9
    <3>2. Num - k' <= Len2
      <4>1. i \in Nat
        BY <1>1, <1>4
      <4>2. i + 1 <= Len2
        BY <1>1, <2>1, <3>1, <4>1
      <4> QED BY <2>7, <4>2
    <3> QED BY <2>4, <2>5, <2>6, <2>7, <2>9, <3>2 DEF StrncpyInv, Str1, Str2, Num, Len2
  <2> QED BY <2>8, <2>9
<1>8. CASE at = "pad" /\ k > 0 /\ Write(p, NUL) /\ Go("pad", p + 1, q, k - 1)
  <2>1. i < Num /\ i > Len2 /\ p \in Cells /\ mem = Padded(i)
    BY <1>1, <1>2, <1>4, <1>5, <1>8
  <2>2. mem' = [mem EXCEPT ![p] = NUL]
    BY <1>8 DEF Write
  <2>3. ASSUME NEW a \in Cells
        PROVE  mem'[a] = Padded(i + 1)[a]
    <3>1. CASE a = p
      <4>1. a \in Str1..Str1+(i+1)-1 /\ ~(a - Str1 < Len2)
        BY <1>1, <1>4, <2>1, <3>1
      <4> QED BY <2>1, <2>2, <3>1, <4>1
    <3>2. CASE a # p
      <4>1. a \in Str1..Str1+(i+1)-1 <=> a \in Str1..Str1+i-1
        BY <1>1, <1>4, <2>1, <3>2
      <4>2. mem'[a] = mem[a]
        BY <2>1, <2>2, <3>2
      <4> QED BY <2>1, <4>1, <4>2
    <3> QED BY <3>1, <3>2
  <2>4. mem' = Padded(i + 1)
    <3>1. mem' = [a \in Cells |-> mem'[a]]
      BY <2>2 DEF Memories
    <3>2. Padded(i + 1) = [a \in Cells |-> Padded(i + 1)[a]]
      OBVIOUS
    <3> HIDE DEF Padded
    <3> QED BY <2>3, <3>1, <3>2
  <2>5. mem' \in Memories
    BY <2>2 DEF Memories, Bytes
  <2>6. /\ p' = p + 1 /\ k' = k - 1 /\ call' = call /\ before' = before /\ at' = "pad"
    BY <1>8 DEF Go
  <2>7. k' \in 0..Num /\ Num - k' = i + 1 /\ p' = Str1 + (Num - k')
    BY <1>1, <1>4, <2>1, <2>6
  <2>8. p' - 1 = Str1 + (i + 1) - 1 /\ Num - k' > Len2
    BY <1>1, <1>4, <2>1, <2>7
  <2>9. mem' = [a \in Cells |->
                  IF a \notin Str1..p'-1 THEN before[a]
                  ELSE IF a - Str1 < Len2 THEN before[Str2 + a - Str1] ELSE NUL]
    BY <2>4, <2>8
  <2> QED BY <2>5, <2>6, <2>7, <2>8, <2>9 DEF StrncpyInv, Str1, Str2, Num, Len2
<1>9. CASE at = "pad" /\ k = 0 /\ Return(call.s)
  <2>1. i = Num /\ mem = Padded(Num)
    BY <1>1, <1>4, <1>5, <1>9
  <2> HIDE DEF Padded
  <2> QED BY <1>3, <1>9, <2>1 DEF Return, Returns, Str1
<1> QED BY <1>6, <1>7, <1>8, <1>9 DEF strncpy, In

LEMMA StrcatKept ==
  ASSUME mem \in Memories, before \in Memories, Called,
         call.fn = "strcat", StrcatInv, strcat
  PROVE  (StrcatInv' /\ mem' \in Memories) \/ Returns
<1>1. /\ Str1 \in Cells /\ Len1 \in 0..Size-Str1
      /\ before[Str1 + Len1] = NUL
      /\ \A a \in Str1..Str1+Len1-1 : before[a] # NUL
  BY Contracts, FirstString DEF OneString, Pairs
<1>2. /\ Str2 \in Cells /\ Len2 \in 0..Size-Str2
      /\ before[Str2 + Len2] = NUL
      /\ \A a \in Str2..Str2+Len2-1 : before[a] # NUL
  BY Contracts, SecondString DEF TwoStrings, Pairs
<1> DEFINE d == Str1 + Len1
<1>3. /\ d \in Cells /\ d + Len2 <= Size
      /\ d + Len2 < Str2 \/ Str2 + Len2 < Str1
  <2>1. /\ Fits(Str1, Len1 + Len2 + 1)
        /\ Str1 + Len1 + Len2 < Str2 \/ Str2 + Len2 < Str1
    BY DEF Called, Legal, Str1, Str2, Len1, Len2, Copiers, Strings, Pairs
  <2> QED BY <1>1, <1>2, <2>1 DEF Fits
<1>4. Answer = Str1 /\ Effect = Copied(before, d, Str2, Len2 + 1)
  BY DEF Answer, Effect, Copiers, Str1, Str2, Len1, Len2
<1>5. at = "loop" => p \in Str1..d /\ q = Str2 /\ mem = before
  BY DEF StrcatInv
<1> DEFINE i == p - d
<1>6. at # "loop" => /\ i \in 0..Len2 + 1 /\ p = d + i /\ q = Str2 + i
                     /\ mem = Copied(before, d, Str2, i)
                     /\ at = "copy" <=> i <= Len2
  BY <1>1, <1>2 DEF StrcatInv
<1>7. d = Str1 + Len1
  OBVIOUS
<1> HIDE DEF d, i
<1>8. CASE at = "loop" /\ mem[p] # NUL /\ Read("loop", p + 1, q, k)
  <2>1. p # d
    BY <1>1, <1>5, <1>7, <1>8
  <2>2. p + 1 \in Str1..d
    BY <1>1, <1>3, <1>5, <1>8, <2>1
  <2>3. /\ p' = p + 1 /\ q' = q /\ call' = call /\ before' = before /\ at' = "loop" /\ mem' = mem
    BY <1>8 DEF Read, Go
  <2> QED BY <1>5, <1>7, <1>8, <2>2, <2>3 DEF StrcatInv, Str1, Str2, Len1, Len2
<1>9. CASE at = "loop" /\ mem[p] = NUL /\ Read("copy", p, q, k)
  <2>1. p = d
    <3>1. ~(p \in Str1..Str1+Len1-1)
      BY <1>1, <1>5, <1>9
    <3> QED BY <1>1, <1>5, <1>7, <1>9, <3>1
  <2>2. /\ p' = p /\ q' = q /\ call' = call /\ before' = before /\ at' = "copy" /\ mem' = mem
    BY <1>9 DEF Read, Go
  <2>3. mem = Copied(before, d, Str2, 0)
    <3>1. \A a \in Cells : a \notin d..d+0-1
      BY <1>3
    <3>2. Copied(before, d, Str2, 0) = [a \in Cells |-> before[a]]
      BY <3>1 DEF Copied
    <3> QED BY <1>5, <1>9, <3>2 DEF Memories
  <2>4. p' - d = 0 /\ p' \in d..d+Len2+1 /\ q' = Str2 + (p' - d) /\ p' - d <= Len2
    BY <1>2, <1>3, <1>5, <1>9, <2>1, <2>2
  <2> QED BY <1>7, <2>2, <2>3, <2>4 DEF StrcatInv, Str1, Str2, Len1, Len2
<1>10. CASE /\ at = "copy" /\ Write(p, mem[q])
            /\ Go(IF mem[q] = NUL THEN "done" ELSE "copy", p + 1, q + 1, k)
  <2>1. /\ i \in 0..Len2 /\ p = d + i /\ q = Str2 + i /\ mem = Copied(before, d, Str2, i)
    BY <1>2, <1>6, <1>10
  <2>2. p \in Cells /\ q \in Cells /\ q \notin d..d+i-1
    BY <1>1, <1>2, <1>3, <1>7, <2>1
  <2>3. mem[q] = before[Str2 + i]
    <3>1. d \in Int /\ Str2 \in Int /\ i \in Int
      BY <1>2, <1>3, <2>1
    <3>2. Copied(before, d, Str2, i)[q] = before[q]
      BY <2>2, <3>1, CopyOutside
    <3> QED BY <2>1, <3>2
  <2>4. mem' = [Copied(before, d, Str2, i) EXCEPT ![d + i] = before[Str2 + i]]
    BY <1>10, <2>1, <2>3 DEF Write
  <2>5. mem' = Copied(before, d, Str2, i + 1)
    <3>1. i \in Nat /\ d \in Int /\ Str2 \in Int /\ d + i \in Cells
      BY <1>2, <1>3, <2>1, <2>2
    <3> QED BY <2>4, <3>1, CopyNext
  <2>6. mem' \in Memories
    BY <1>10, <2>2 DEF Write, Memories
  <2>7. /\ p' = p + 1 /\ q' = q + 1 /\ call' = call /\ before' = before
        /\ at' = IF mem[q] = NUL THEN "done" ELSE "copy"
    BY <1>10 DEF Go
  <2>8. p' - d = i + 1 /\ p' \in d..d+Len2+1 /\ q' = Str2 + (p' - d)
    BY <1>2, <1>3, <2>1, <2>7
  <2>9. mem[q] = NUL <=> i = Len2
    <3>1. i < Len2 => Str2 + i \in Str2..Str2+Len2-1
      BY <1>2, <2>1
    <3>2. i = Len2 \/ i < Len2
      BY <1>2, <2>1
    <3> QED BY <1>2, <2>3, <3>1, <3>2
  <2>10. at' = "copy" <=> p' - d <= Len2
    <3>1. i + 1 <= Len2 <=> i # Len2
      BY <1>2, <2>1
    <3> QED BY <2>7, <2>8, <2>9, <3>1
  <2>11. at' \in {"copy", "done"}
    BY <2>7
  <2> QED BY <1>7, <2>5, <2>6, <2>7, <2>8, <2>10, <2>11
          DEF StrcatInv, Str1, Str2, Len1, Len2
<1>11. CASE at = "done" /\ Return(call.s)
  <2>1. i \in 0..Len2 + 1 /\ ~(i <= Len2) /\ mem = Copied(before, d, Str2, i)
    BY <1>6, <1>11
  <2>2. i = Len2 + 1
    BY <1>2, <2>1
  <2> QED BY <1>4, <1>11, <2>1, <2>2 DEF Return, Returns, Str1
<1> QED BY <1>8, <1>9, <1>10, <1>11 DEF strcat, In

LEMMA StrreverseKept ==
  ASSUME mem \in Memories, before \in Memories, Called,
         call.fn = "strreverse", StrreverseInv, strreverse
  PROVE  (StrreverseInv' /\ mem' \in Memories) \/ Returns
<1>1. /\ Str1 \in Cells /\ Len1 \in 0..Size-Str1
      /\ before[Str1 + Len1] = NUL
      /\ \A a \in Str1..Str1+Len1-1 : before[a] # NUL
  BY Contracts, FirstString DEF OneString, Pairs
<1> DEFINE Mirror(a) == 2 * Str1 + Len1 - 1 - a
           Swapped(u, v) ==
             [a \in Cells |-> IF a \in Str1..u-1 \/ a \in v+1..Str1+Len1-1
                              THEN before[Mirror(a)] ELSE before[a]]
           Reversed ==
             [a \in Cells |-> IF a \in Str1..Str1+Len1-1
                              THEN before[Mirror(a)] ELSE before[a]]
<1>2. Answer = Str1 /\ Effect = Reversed
  BY DEF Answer, Effect, Copiers, Str1, Len1
<1>3. /\ p \in Str1..Str1+Len1 /\ p <= q + 1 /\ q = Mirror(p)
      /\ mem = Swapped(p, q)
  <2>1. Str1 + Len1 - 1 - (p - Str1) = Mirror(p)
    BY <1>1 DEF StrreverseInv
  <2> QED BY <2>1 DEF StrreverseInv
<1>4. q \in Int
  BY <1>1, <1>3
<1>5. CASE /\ q > p
           /\ mem' = [mem EXCEPT ![p] = mem[q], ![q] = mem[p]]
           /\ Go("loop", p + 1, q - 1, k)
  <2>1. p \in Cells /\ q \in Cells /\ p # q /\ q <= Str1 + Len1 - 1
    BY <1>1, <1>3, <1>4, <1>5
  <2>2. mem[p] = before[p] /\ mem[q] = before[q]
    <3>1. /\ p \notin Str1..p-1 /\ p \notin q+1..Str1+Len1-1
          /\ q \notin Str1..p-1 /\ q \notin q+1..Str1+Len1-1
      BY <1>1, <1>4, <1>5, <2>1
    <3> QED BY <1>3, <2>1, <3>1
  <2>3. Mirror(p) = q /\ Mirror(q) = p
    BY <1>1, <1>3, <1>4
  <2>4. ASSUME NEW a \in Cells
        PROVE  mem'[a] = Swapped(p + 1, q - 1)[a]
    <3>1. CASE a = p
      <4>1. a \in Str1..(p+1)-1
        BY <1>1, <1>3, <3>1
      <4>2. mem'[a] = before[q]
        BY <1>5, <2>1, <2>2, <3>1 DEF Memories
      <4> QED BY <2>3, <3>1, <4>1, <4>2
    <3>2. CASE a = q
      <4>1. a \in (q-1)+1..Str1+Len1-1
        BY <1>1, <1>4, <2>1, <3>2
      <4>2. mem'[a] = before[p]
        BY <1>5, <2>1, <2>2, <3>2 DEF Memories
      <4> QED BY <2>3, <3>2, <4>1, <4>2
    <3>3. CASE a # p /\ a # q
      <4>1. a \in Str1..(p+1)-1 <=> a \in Str1..p-1
        BY <1>1, <1>3, <3>3
      <4>2. a \in (q-1)+1..Str1+Len1-1 <=> a \in q+1..Str1+Len1-1
        BY <1>1, <1>4, <3>3
      <4>3. mem'[a] = mem[a]
        BY <1>5, <3>3 DEF Memories
      <4> QED BY <1>3, <4>1, <4>2, <4>3
    <3> QED BY <3>1, <3>2, <3>3
  <2>5. mem' = Swapped(p + 1, q - 1)
    <3>1. mem' = [a \in Cells |-> mem'[a]]
      BY <1>5 DEF Memories
    <3>2. Swapped(p + 1, q - 1) = [a \in Cells |-> Swapped(p + 1, q - 1)[a]]
      OBVIOUS
    <3> HIDE DEF Swapped
    <3> QED BY <2>4, <3>1, <3>2
  <2>6. mem' \in Memories
    <3>1. mem[p] \in Bytes /\ mem[q] \in Bytes
      BY <2>1 DEF Memories
    <3> QED BY <1>5, <2>1, <3>1 DEF Memories
  <2>7. p' = p + 1 /\ q' = q - 1 /\ call' = call /\ before' = before /\ at' = "loop"
    BY <1>5 DEF Go
  <2>8. /\ p' \in Str1..Str1+Len1 /\ p' <= q' + 1
        /\ q' = Str1 + Len1 - 1 - (p' - Str1)
    <3>1. p < q /\ p \in Int /\ q <= Str1 + Len1 - 1
      BY <1>1, <1>3, <1>5, <2>1
    <3>2. p' \in Str1..Str1+Len1
      BY <1>1, <1>3, <1>4, <2>7, <3>1
    <3>3. p' <= q' + 1
      BY <1>4, <2>7, <3>1
    <3>4. q - 1 = Str1 + Len1 - 1 - (p + 1 - Str1)
      BY <1>1, <1>3, <3>1
    <3>5. q' = Str1 + Len1 - 1 - (p' - Str1)
      BY <1>1, <1>4, <2>7, <3>1, <3>4
    <3> QED BY <3>2, <3>3, <3>5
  <2>9. mem' = [a \in Cells |-> IF a \in Str1..p'-1 \/ a \in q'+1..Str1+Len1-1
                                THEN before[2 * Str1 + Len1 - 1 - a] ELSE before[a]]
    BY <2>5, <2>7
  <2> QED BY <2>6, <2>7, <2>8, <2>9 DEF StrreverseInv, Str1, Len1
<1>6. CASE q <= p /\ Return(call.s)
  <2>1. ASSUME NEW a \in Cells
        PROVE  Swapped(p, q)[a] = Reversed[a]
    <3>1. CASE a \in Str1..p-1 \/ a \in q+1..Str1+Len1-1
      <4>1. a \in Str1..Str1+Len1-1
        BY <1>1, <1>3, <1>4, <1>6, <3>1
      <4> QED BY <3>1, <4>1
    <3>2. CASE a \in p..q /\ a \in Str1..Str1+Len1-1
      <4>1. a = p /\ a = q /\ Mirror(a) = a
        BY <1>1, <1>3, <1>4, <1>6, <3>2
      <4> QED BY <3>2, <4>1
    <3>3. CASE a \notin Str1..Str1+Len1-1
      <4>1. ~(a \in Str1..p-1 \/ a \in q+1..Str1+Len1-1)
        BY <1>1, <1>3, <1>4, <3>3
      <4> QED BY <3>3, <4>1
    <3>4. \/ a \in Str1..p-1 \/ a \in q+1..Str1+Len1-1
          \/ a \in p..q /\ a \in Str1..Str1+Len1-1
          \/ a \notin Str1..Str1+Len1-1
      BY <1>1, <1>3, <1>4
    <3> QED BY <3>1, <3>2, <3>3, <3>4
  <2>2. mem = Reversed
    <3>1. Swapped(p, q) = [a \in Cells |-> Swapped(p, q)[a]]
      OBVIOUS
    <3>2. Reversed = [a \in Cells |-> Reversed[a]]
      OBVIOUS
    <3> HIDE DEF Swapped, Reversed
    <3> QED BY <1>3, <2>1, <3>1, <3>2
  <2> HIDE DEF Reversed, Swapped
  <2> QED BY <1>2, <1>6, <2>2 DEF Return, Returns, Str1
<1> QED BY <1>5, <1>6 DEF strreverse

-----------------------------------------------------------------------------
(* A call begins with the invariant of its function.                       *)
LEMMA CopyNothing ==
  ASSUME NEW m \in Memories, NEW d \in Int, NEW s
  PROVE  Copied(m, d, s, 0) = m
<1>1. \A a \in Cells : a \notin d..d+0-1
  OBVIOUS
<1>2. Copied(m, d, s, 0) = [a \in Cells |-> m[a]]
  BY <1>1 DEF Copied
<1> QED BY <1>2 DEF Memories

LEMMA CallBegins ==
  ASSUME StringInv, CallFunction
  PROVE  StringInv'
<1>1. PICK f \in Functions, s \in Cells, t \in Cells, n \in 0..Size, c \in Chars \cup {NUL} :
        /\ Legal(f, mem, s, t, n, c)
        /\ call' = [fn |-> f, s |-> s, t |-> t, n |-> n, c |-> c]
        /\ p' = s
        /\ q' = IF f = "strreverse" THEN s + Length(mem, s) - 1 ELSE t
        /\ k' = CASE f = "memmove" -> (IF s < t THEN 0 ELSE n)
                  [] f = "strstr"  -> Length(mem, t)
                  [] OTHER         -> n
  BY DEF CallFunction
<1>2. at' = "loop" /\ before' = mem /\ mem' = mem /\ mem \in Memories
  BY DEF CallFunction, StringInv
<1>3. Called'
  BY <1>1, <1>2 DEF Called, Str1, Str2, Num, Bytes
<1>4. /\ Str1' = s /\ Str2' = t /\ Num' = n /\ call'.fn = f /\ call'.c = c
      /\ Len1' = Length(mem, s) /\ Len2' = Length(mem, t)
  BY <1>1, <1>2 DEF Str1, Str2, Num, Len1, Len2
<1> DEFINE l1 == Length(mem, s)
           l2 == Length(mem, t)
<1>5. f \in OneString => l1 \in 0..Size-s /\ mem[s + l1] = NUL
  BY <1>1, LegalStrings, LengthFacts
<1>6. f \in TwoStrings => l2 \in 0..Size-t /\ mem[t + l2] = NUL
  BY <1>1, LegalStrings, LengthFacts
<1> HIDE DEF l1, l2
<1>7. /\ f # "strreverse" => q' = t
      /\ f = "strreverse" => q' = s + l1 - 1
      /\ f = "memmove" => k' = IF s < t THEN 0 ELSE n
      /\ f = "strstr" => k' = l2
      /\ f \notin {"memmove", "strstr"} => k' = n
  BY <1>1 DEF l1, l2
<1>8. /\ Len1' = l1 /\ Len2' = l2 /\ p' = s
  BY <1>1, <1>4 DEF l1, l2
<1>9. n - n = 0 /\ s - s = 0 /\ n \in 0..n
  OBVIOUS
<1>10. Copied(mem, s, t, 0) = mem
  BY <1>2, CopyNothing
<1>11. mem = [a \in Cells |-> mem[a]]
  BY <1>2 DEF Memories
<1> SUFFICES Running'
  BY <1>2, <1>3 DEF StringInv, CallsKeepTheirPromise
<1> USE <1>2, <1>4, <1>8
<1>12. CASE f = "memcpy"
  <2>1. k' = n /\ q' = t
    BY <1>7, <1>12
  <2>2. MemcpyInv'
    BY <2>1, <1>9, <1>10 DEF MemcpyInv
  <2> QED BY <1>12, <2>2 DEF Running
<1>13. CASE f = "memmove"
  <2>1. k' = (IF s < t THEN 0 ELSE n) /\ q' = t
    BY <1>7, <1>13
  <2>2. [a \in Cells |-> IF a \in s+n..s+n-1 THEN mem[t + a - s] ELSE mem[a]] = mem
    <3>1. \A a \in Cells : a \notin s+n..s+n-1
      OBVIOUS
    <3> QED BY <1>11, <3>1
  <2>3. MemmoveInv'
    BY <2>1, <2>2, <1>10 DEF MemmoveInv
  <2> QED BY <1>13, <2>3 DEF Running
<1>14. CASE f = "memset"
  <2>1. k' = n
    BY <1>7, <1>14
  <2>2. [a \in Cells |-> IF a \in s..s+(n-n)-1 THEN c ELSE mem[a]] = mem
    <3>1. \A a \in Cells : a \notin s..s+(n-n)-1
      OBVIOUS
    <3> QED BY <1>11, <3>1
  <2>3. MemsetInv'
    BY <2>1, <2>2, <1>9 DEF MemsetInv
  <2> QED BY <1>14, <2>3 DEF Running
<1>15. CASE f = "memcmp"
  <2>1. k' = n /\ q' = t
    BY <1>7, <1>15
  <2>2. MemcmpInv'
    BY <2>1, <1>9 DEF MemcmpInv
  <2> QED BY <1>15, <2>2 DEF Running
<1>16. CASE f \in {"lfind", "strlen"}
  <2>1. k' = n /\ n = 0
    <3>1. n = 0
      BY <1>1, <1>16 DEF Legal, Copiers, Strings, Pairs
    <3> QED BY <1>7, <1>16, <3>1
  <2>2. LfindInv' /\ StrlenInv'
    BY <2>1 DEF LfindInv, StrlenInv, Free
  <2> QED BY <1>16, <2>2 DEF Running
<1>17. CASE f = "strcmp"
  <2>1. q' = t
    BY <1>7, <1>17
  <2>2. StrcmpInv'
    BY <2>1, <1>9 DEF StrcmpInv
  <2> QED BY <1>17, <2>2 DEF Running
<1>18. CASE f = "strcpy"
  <2>1. q' = t /\ l2 \in Nat
    BY <1>6, <1>7, <1>18 DEF TwoStrings
  <2>2. StrcpyInv'
    BY <2>1, <1>9, <1>10 DEF StrcpyInv
  <2> QED BY <1>18, <2>2 DEF Running
<1>19. CASE f = "strncpy"
  <2>1. k' = n /\ q' = t /\ l2 \in Nat
    BY <1>6, <1>7, <1>19 DEF TwoStrings
  <2>2. StrncpyInv'
    BY <2>1, <1>9, <1>10 DEF StrncpyInv
  <2> QED BY <1>19, <2>2 DEF Running
<1>20. CASE f = "strcat"
  <2>1. q' = t /\ l1 \in Nat
    BY <1>5, <1>7, <1>20 DEF OneString
  <2>2. StrcatInv'
    BY <2>1 DEF StrcatInv
  <2> QED BY <1>20, <2>2 DEF Running
<1>21. CASE f = "strchr"
  <2>1. l1 \in Nat
    BY <1>5, <1>21 DEF OneString
  <2>2. StrchrInv'
    BY <2>1 DEF StrchrInv, Free
  <2> QED BY <1>21, <2>2 DEF Running
<1>22. CASE f \in {"strspn", "strcspn"}
  <2>1. k' = n /\ n = 0 /\ q' = t /\ l1 \in Nat
    <3>1. n = 0
      BY <1>1, <1>22 DEF Legal, Copiers, Strings, Pairs
    <3> QED BY <1>5, <1>7, <1>22, <3>1 DEF OneString, Pairs
  <2>2. StrspnInv' /\ StrcspnInv'
    BY <2>1 DEF StrspnInv, StrcspnInv, Free
  <2> QED BY <1>22, <2>2 DEF Running
<1>23. CASE f = "strpbrk"
  <2>1. q' = t /\ l1 \in Nat /\ l2 \in Nat
    BY <1>5, <1>6, <1>7, <1>23 DEF OneString, TwoStrings, Pairs
  <2>2. StrpbrkInv'
    BY <2>1 DEF StrpbrkInv, Free
  <2> QED BY <1>23, <2>2 DEF Running
<1>24. CASE f = "strstr"
  <2>1. q' = t /\ l1 \in Nat /\ k' = l2
    BY <1>5, <1>7, <1>24 DEF OneString, Pairs
  <2>2. StrstrInv'
    BY <2>1 DEF StrstrInv
  <2> QED BY <1>24, <2>2 DEF Running
<1>25. CASE f = "strreverse"
  <2>1. l1 \in Nat /\ q' = s + l1 - 1
    BY <1>5, <1>7, <1>25 DEF OneString
  <2>2. [a \in Cells |-> IF a \in s..s-1 \/ a \in (s+l1-1)+1..s+l1-1
                         THEN mem[2 * s + l1 - 1 - a] ELSE mem[a]] = mem
    <3>1. \A a \in Cells : a \notin s..s-1 /\ a \notin (s+l1-1)+1..s+l1-1
      BY <2>1
    <3> QED BY <1>11, <3>1
  <2>3. StrreverseInv'
    BY <2>1, <2>2 DEF StrreverseInv
  <2> QED BY <1>25, <2>3 DEF Running
<1> QED
  BY <1>12, <1>13, <1>14, <1>15, <1>16, <1>17, <1>18, <1>19, <1>20, <1>21, <1>22,
     <1>23, <1>24, <1>25 DEF Functions, Copiers, Strings, Pairs

-----------------------------------------------------------------------------
(* A step of a function keeps its invariant, or returns.                   *)
LEMMA StepKeeps ==
  ASSUME StringInv, StringStep
  PROVE  StringInv'
<1>1. at \notin {"ready", "returned"} /\ call' = call /\ before' = before
  BY DEF StringStep, memcpy, memmove, memset, memcmp, lfind, strlen, strcmp, strcpy,
     strncpy, strcat, strchr, strspn, strcspn, strpbrk, strstr, strreverse,
     In, Go, Read, Return
<1>2. Called /\ Running /\ mem \in Memories /\ before \in Memories
  BY <1>1 DEF StringInv
<1>3. Called'
  BY <1>1, <1>2 DEF Called, Str1, Str2, Num
<1>4. ASSUME Returns, mem' = mem
      PROVE  StringInv'
  <2>1. Answer' = Answer /\ Effect' = Effect
    BY <1>1 DEF Answer, Effect
  <2> QED BY <1>1, <1>2, <1>4, <2>1 DEF Returns, StringInv, CallsKeepTheirPromise
<1>5. ASSUME Running', mem' \in Memories, at' \notin {"ready", "returned"}
      PROVE  StringInv'
  BY <1>1, <1>2, <1>3, <1>5 DEF StringInv, CallsKeepTheirPromise
<1>6. at' = "returned" => mem' = mem
  BY DEF StringStep, memcpy, memmove, memset, memcmp, lfind, strlen, strcmp, strcpy,
     strncpy, strcat, strchr, strspn, strcspn, strpbrk, strstr, strreverse,
     In, Go, Read, Return
<1>7. Returns => StringInv'
  BY <1>4, <1>6 DEF Returns
<1>8. CASE memcpy
  <2>1. call.fn = "memcpy" /\ MemcpyInv
    BY <1>2, <1>8 DEF memcpy, In, Running
  <2>2. (MemcpyInv' /\ mem' \in Memories) \/ Returns
    BY <1>2, <1>8, <2>1, MemcpyKept
  <2>3. MemcpyInv' => Running' /\ at' \notin {"ready", "returned"}
    BY <1>1, <2>1 DEF Running, MemcpyInv
  <2> QED BY <1>5, <1>7, <2>2, <2>3
<1>9. CASE memmove
  <2>1. call.fn = "memmove" /\ MemmoveInv
    BY <1>2, <1>9 DEF memmove, In, Running
  <2>2. (MemmoveInv' /\ mem' \in Memories) \/ Returns
    BY <1>2, <1>9, <2>1, MemmoveKept
  <2>3. MemmoveInv' => Running' /\ at' \notin {"ready", "returned"}
    BY <1>1, <2>1 DEF Running, MemmoveInv
  <2> QED BY <1>5, <1>7, <2>2, <2>3
<1>10. CASE memset
  <2>1. call.fn = "memset" /\ MemsetInv
    BY <1>2, <1>10 DEF memset, In, Running
  <2>2. (MemsetInv' /\ mem' \in Memories) \/ Returns
    BY <1>2, <1>10, <2>1, MemsetKept
  <2>3. MemsetInv' => Running' /\ at' \notin {"ready", "returned"}
    BY <1>1, <2>1 DEF Running, MemsetInv
  <2> QED BY <1>5, <1>7, <2>2, <2>3
<1>11. CASE strcpy
  <2>1. call.fn = "strcpy" /\ StrcpyInv
    BY <1>2, <1>11 DEF strcpy, In, Running
  <2>2. (StrcpyInv' /\ mem' \in Memories) \/ Returns
    BY <1>2, <1>11, <2>1, StrcpyKept
  <2>3. StrcpyInv' => Running' /\ at' \notin {"ready", "returned"}
    BY <1>1, <2>1 DEF Running, StrcpyInv
  <2> QED BY <1>5, <1>7, <2>2, <2>3
<1>12. CASE strncpy
  <2>1. call.fn = "strncpy" /\ StrncpyInv
    BY <1>2, <1>12 DEF strncpy, In, Running
  <2>2. (StrncpyInv' /\ mem' \in Memories) \/ Returns
    BY <1>2, <1>12, <2>1, StrncpyKept
  <2>3. StrncpyInv' => Running' /\ at' \notin {"ready", "returned"}
    BY <1>1, <2>1 DEF Running, StrncpyInv
  <2> QED BY <1>5, <1>7, <2>2, <2>3
<1>13. CASE strcat
  <2>1. call.fn = "strcat" /\ StrcatInv
    BY <1>2, <1>13 DEF strcat, In, Running
  <2>2. (StrcatInv' /\ mem' \in Memories) \/ Returns
    BY <1>2, <1>13, <2>1, StrcatKept
  <2>3. StrcatInv' => Running' /\ at' \notin {"ready", "returned"}
    BY <1>1, <2>1 DEF Running, StrcatInv
  <2> QED BY <1>5, <1>7, <2>2, <2>3
<1>14. CASE strreverse
  <2>1. call.fn = "strreverse" /\ StrreverseInv
    BY <1>2, <1>14 DEF strreverse, In, Running
  <2>2. (StrreverseInv' /\ mem' \in Memories) \/ Returns
    BY <1>2, <1>14, <2>1, StrreverseKept
  <2>3. StrreverseInv' => Running' /\ at' \notin {"ready", "returned"}
    BY <1>1, <2>1 DEF Running, StrreverseInv
  <2> QED BY <1>5, <1>7, <2>2, <2>3
<1>15. CASE memcmp
  <2>1. call.fn = "memcmp" /\ MemcmpInv
    BY <1>2, <1>15 DEF memcmp, In, Running
  <2>2. MemcmpInv' \/ Returns
    BY <1>2, <1>15, <2>1, MemcmpKept
  <2>3. MemcmpInv' => Running' /\ mem' \in Memories /\ at' \notin {"ready", "returned"}
    BY <1>1, <1>2, <2>1 DEF Running, MemcmpInv
  <2> QED BY <1>5, <1>7, <2>2, <2>3
<1>16. CASE lfind
  <2>1. call.fn = "lfind" /\ LfindInv
    BY <1>2, <1>16 DEF lfind, In, Running
  <2>2. LfindInv' \/ Returns
    BY <1>2, <1>16, <2>1, LfindKept
  <2>3. LfindInv' => Running' /\ mem' \in Memories /\ at' \notin {"ready", "returned"}
    BY <1>1, <1>2, <2>1 DEF Running, LfindInv
  <2> QED BY <1>5, <1>7, <2>2, <2>3
<1>17. CASE strlen
  <2>1. call.fn = "strlen" /\ StrlenInv
    BY <1>2, <1>17 DEF strlen, In, Running
  <2>2. StrlenInv' \/ Returns
    BY <1>2, <1>17, <2>1, StrlenKept
  <2>3. StrlenInv' => Running' /\ mem' \in Memories /\ at' \notin {"ready", "returned"}
    BY <1>1, <1>2, <2>1 DEF Running, StrlenInv
  <2> QED BY <1>5, <1>7, <2>2, <2>3
<1>18. CASE strcmp
  <2>1. call.fn = "strcmp" /\ StrcmpInv
    BY <1>2, <1>18 DEF strcmp, In, Running
  <2>2. StrcmpInv' \/ Returns
    BY <1>2, <1>18, <2>1, StrcmpKept
  <2>3. StrcmpInv' => Running' /\ mem' \in Memories /\ at' \notin {"ready", "returned"}
    BY <1>1, <1>2, <2>1 DEF Running, StrcmpInv
  <2> QED BY <1>5, <1>7, <2>2, <2>3
<1>19. CASE strchr
  <2>1. call.fn = "strchr" /\ StrchrInv
    BY <1>2, <1>19 DEF strchr, In, Running
  <2>2. StrchrInv' \/ Returns
    BY <1>2, <1>19, <2>1, StrchrKept
  <2>3. StrchrInv' => Running' /\ mem' \in Memories /\ at' \notin {"ready", "returned"}
    BY <1>1, <1>2, <2>1 DEF Running, StrchrInv
  <2> QED BY <1>5, <1>7, <2>2, <2>3
<1>20. CASE strspn
  <2>1. call.fn = "strspn" /\ StrspnInv
    BY <1>2, <1>20 DEF strspn, In, Running
  <2>2. StrspnInv' \/ Returns
    BY <1>2, <1>20, <2>1, StrspnKept
  <2>3. StrspnInv' => Running' /\ mem' \in Memories /\ at' \notin {"ready", "returned"}
    BY <1>1, <1>2, <2>1 DEF Running, StrspnInv
  <2> QED BY <1>5, <1>7, <2>2, <2>3
<1>21. CASE strcspn
  <2>1. call.fn = "strcspn" /\ StrcspnInv
    BY <1>2, <1>21 DEF strcspn, In, Running
  <2>2. StrcspnInv' \/ Returns
    BY <1>2, <1>21, <2>1, StrcspnKept
  <2>3. StrcspnInv' => Running' /\ mem' \in Memories /\ at' \notin {"ready", "returned"}
    BY <1>1, <1>2, <2>1 DEF Running, StrcspnInv
  <2> QED BY <1>5, <1>7, <2>2, <2>3
<1>22. CASE strpbrk
  <2>1. call.fn = "strpbrk" /\ StrpbrkInv
    BY <1>2, <1>22 DEF strpbrk, In, Running
  <2>2. StrpbrkInv' \/ Returns
    BY <1>2, <1>22, <2>1, StrpbrkKept
  <2>3. StrpbrkInv' => Running' /\ mem' \in Memories /\ at' \notin {"ready", "returned"}
    BY <1>1, <1>2, <2>1 DEF Running, StrpbrkInv
  <2> QED BY <1>5, <1>7, <2>2, <2>3
<1>23. CASE strstr
  <2>1. call.fn = "strstr" /\ StrstrInv
    BY <1>2, <1>23 DEF strstr, In, Running
  <2>2. StrstrInv' \/ Returns
    BY <1>2, <1>23, <2>1, StrstrKept
  <2>3. StrstrInv' => Running' /\ mem' \in Memories /\ at' \notin {"ready", "returned"}
    BY <1>1, <1>2, <2>1 DEF Running, StrstrInv
  <2> QED BY <1>5, <1>7, <2>2, <2>3
<1> QED
  BY <1>8, <1>9, <1>10, <1>11, <1>12, <1>13, <1>14, <1>15, <1>16, <1>17,
     <1>18, <1>19, <1>20, <1>21, <1>22, <1>23 DEF StringStep

-----------------------------------------------------------------------------
(* The other steps: the caller takes the result, tokenizers write NULs     *)
(* between calls, conversions leave the memory alone.                      *)
LEMMA TokenizerWrites ==
  ASSUME NEW str, mem \in Memories, strtok(str) \/ strtok_r(str)
  PROVE  mem' \in Memories
<1>1. ASSUME NEW e, Cut(e)
      PROVE  mem' \in Memories
  BY <1>1 DEF Cut, Memories, Bytes
<1> QED BY <1>1 DEF strtok, strtok_r

LEMMA StringInvariance ==
  ASSUME StringInv, [Next]_vars
  PROVE  StringInv'
<1>1. CASE CallFunction
  BY <1>1, CallBegins
<1>2. CASE StringStep
  BY <1>2, StepKeeps
<1>3. CASE CallStrtok \/ CallStrtok_r
  <2>1. mem' \in Memories /\ before' = mem' /\ at' = "ready"
    BY <1>3, TokenizerWrites DEF CallStrtok, CallStrtok_r, StringInv
  <2> QED BY <2>1 DEF StringInv, CallsKeepTheirPromise
<1>4. CASE TakeResult
  <2>1. mem' = mem /\ before' = mem /\ at' = "ready"
    BY <1>4 DEF TakeResult
  <2> QED BY <2>1 DEF StringInv, CallsKeepTheirPromise
<1>5. CASE UNCHANGED <<mem, locals>>
  <2>1. mem' = mem /\ before' = before /\ call' = call /\ at' = at /\ p' = p /\ q' = q /\ k' = k
        /\ result' = result
    BY <1>5 DEF locals
  <2> QED
    BY <2>1 DEF StringInv, CallsKeepTheirPromise, Answer, Effect, Called, Running,
       MemcpyInv, MemmoveInv, MemsetInv, MemcmpInv, LfindInv, StrlenInv, StrcmpInv,
       StrcpyInv, StrncpyInv, StrcatInv, StrchrInv, StrspnInv, StrcspnInv, StrpbrkInv,
       StrstrInv, StrreverseInv, Str1, Str2, Num, Len1, Len2, Free
<1> QED
  BY <1>1, <1>2, <1>3, <1>4, <1>5 DEF Next, Step, vars

(* Every function of libc/string, and strreverse, returns what it should   *)
(* and changes the cells it should and no other, for every memory and      *)
(* every call its contract allows, whatever has been called before.        *)
THEOREM PromisesAreKept == Spec => []CallsKeepTheirPromise
<1>1. Init => StringInv
  BY DEF Init, StringInit, StringInv, CallsKeepTheirPromise, Memories, Bytes
<1>2. StringInv => CallsKeepTheirPromise
  BY DEF StringInv
<1> QED BY <1>1, <1>2, StringInvariance, PTL DEF Spec

-----------------------------------------------------------------------------
(* The elements of a finite set of integers, in order.                     *)
Below(A, a)  == {b \in A : b <= a}
Rank(A, a)   == Cardinality(Below(A, a))
AtRank(A, i) == CHOOSE a \in A : Cardinality({b \in A : b <= a}) = i

LEMMA RankType ==
  ASSUME NEW A, IsFiniteSet(A), A \subseteq Int, NEW a \in A
  PROVE  Rank(A, a) \in 1..Cardinality(A)
<1>1. Below(A, a) \in SUBSET A /\ a \in Below(A, a)
  BY DEF Below
<1>2. /\ IsFiniteSet(Below(A, a))
      /\ Cardinality(Below(A, a)) <= Cardinality(A)
  BY <1>1, FS_Subset
<1>3. Cardinality(Below(A, a)) \in Nat /\ Cardinality(A) \in Nat
  BY <1>2, FS_CardinalityType
<1>4. Cardinality(Below(A, a)) # 0
  BY <1>1, <1>2, FS_EmptySet
<1> QED BY <1>2, <1>3, <1>4 DEF Rank

LEMMA RankIsInt ==
  ASSUME NEW A, IsFiniteSet(A), A \subseteq Int, NEW a \in A
  PROVE  Rank(A, a) \in Int
<1>1. Cardinality(A) \in Nat
  BY FS_CardinalityType
<1>2. Rank(A, a) \in 1..Cardinality(A)
  BY RankType
<1> QED BY <1>1, <1>2

LEMMA RankIsMonotone ==
  ASSUME NEW A, IsFiniteSet(A), A \subseteq Int, NEW a \in A, NEW b \in A, a < b
  PROVE  Rank(A, a) < Rank(A, b)
<1>1. /\ Below(A, b) \in SUBSET A /\ Below(A, a) \in SUBSET Below(A, b)
      /\ b \in Below(A, b) /\ b \notin Below(A, a)
  <2>1. ~ (b <= a)
    OBVIOUS
  <2>2. \A c \in A : c <= a => c <= b
    OBVIOUS
  <2>3. b <= b
    OBVIOUS
  <2>4. Below(A, a) \in SUBSET Below(A, b)
    BY <2>2, Zenon DEF Below
  <2> QED BY <2>1, <2>3, <2>4, Zenon DEF Below
<1>2. IsFiniteSet(Below(A, b))
  BY <1>1, FS_Subset
<1>3. /\ Cardinality(Below(A, a)) <= Cardinality(Below(A, b))
      /\ Cardinality(Below(A, b)) # Cardinality(Below(A, a))
  BY <1>1, <1>2, FS_Subset
<1>4. Rank(A, a) \in Int /\ Rank(A, b) \in Int
  BY RankIsInt
<1> QED BY <1>3, <1>4 DEF Rank

LEMMA AtRankIs ==
  ASSUME NEW A, IsFiniteSet(A), A \subseteq Int, NEW a \in A
  PROVE  AtRank(A, Rank(A, a)) = a
<1>1. \A b \in A : Rank(A, b) = Rank(A, a) => b = a
  <2> SUFFICES ASSUME NEW b \in A, Rank(A, b) = Rank(A, a), b # a
               PROVE  FALSE
    OBVIOUS
  <2>1. a < b \/ b < a
    OBVIOUS
  <2>2. Rank(A, a) \in Int /\ Rank(A, b) \in Int
    BY RankIsInt
  <2>3. Rank(A, a) < Rank(A, b) \/ Rank(A, b) < Rank(A, a)
    BY <2>1, RankIsMonotone
  <2> QED BY <2>2, <2>3
<1>2. AtRank(A, Rank(A, a)) = CHOOSE b \in A : Rank(A, b) = Rank(A, a)
  BY DEF AtRank, Rank, Below
<1> QED BY <1>1, <1>2

LEMMA EveryRankIsTaken ==
  ASSUME NEW A, IsFiniteSet(A), A \subseteq Int, NEW i \in 1..Cardinality(A)
  PROVE  \E a \in A : Rank(A, a) = i
<1> DEFINE n == Cardinality(A)
           f == [a \in A |-> Rank(A, a)]
<1>1. n \in Nat
  BY FS_CardinalityType
<1>2. f \in [A -> 1..n]
  BY RankType
<1>3. ASSUME NEW a \in A, NEW b \in A, f[a] = f[b]
      PROVE  a = b
  <2>1. Rank(A, a) = Rank(A, b)
    BY <1>3
  <2>2. AtRank(A, Rank(A, a)) = a /\ AtRank(A, Rank(A, b)) = b
    BY AtRankIs
  <2> QED BY <2>1, <2>2
<1>4. f \in Injection(A, 1..n)
  BY <1>2, <1>3 DEF Injection, IsInjective
<1>5. IsFiniteSet(1..n) /\ Cardinality(1..n) = n
  BY <1>1, FS_Interval
<1>6. f \in Surjection(A, 1..n)
  <2> HIDE DEF f
  <2> QED BY <1>4, <1>5, FS_Injection
<1>7. PICK a \in A : f[a] = i
  BY <1>6 DEF Surjection
<1> QED BY <1>7

(* A set that has one element more, at its front.                          *)
LEMMA FrontBelow ==
  ASSUME NEW B, IsFiniteSet(B), B \subseteq Int, NEW x \in Int,
         \A b \in B : x < b
  PROVE  LET A == {x} \cup B
         IN  /\ IsFiniteSet(A) /\ A \subseteq Int
             /\ Cardinality(A) = Cardinality(B) + 1
             /\ Rank(A, x) = 1
             /\ \A b \in B : Rank(A, b) = Rank(B, b) + 1
<1> DEFINE A == {x} \cup B
<1>1. x \notin B
  OBVIOUS
<1>2. IsFiniteSet(A) /\ Cardinality(A) = Cardinality(B) + 1
  BY <1>1, FS_AddElement
<1>3. Rank(A, x) = 1
  <2>1. \A b \in A : b <= x <=> b = x
    OBVIOUS
  <2>2. Below(A, x) = {x}
    BY <2>1, Zenon DEF Below
  <2> QED BY <2>2, FS_Singleton DEF Rank
<1>4. ASSUME NEW b \in B
      PROVE  Rank(A, b) = Rank(B, b) + 1
  <2>1. Below(A, b) = Below(B, b) \cup {x}
    BY DEF Below
  <2>2. Below(B, b) \in SUBSET B
    BY DEF Below
  <2>3. IsFiniteSet(Below(B, b)) /\ x \notin Below(B, b)
    BY <2>2, <1>1, FS_Subset
  <2> QED BY <2>1, <2>3, FS_AddElement DEF Rank
<1> QED BY <1>2, <1>3, <1>4

LEMMA FrontFirst ==
  ASSUME NEW B, IsFiniteSet(B), B \subseteq Int, NEW x \in Int,
         \A b \in B : x < b
  PROVE  LET A == {x} \cup B
         IN  /\ Cardinality(A) = Cardinality(B) + 1
             /\ AtRank(A, 1) = x
             /\ \A i \in 1..Cardinality(B) : AtRank(B, i) \in B /\ AtRank(A, i + 1) = AtRank(B, i)
<1> DEFINE A == {x} \cup B
<1>1. /\ IsFiniteSet(A) /\ A \subseteq Int
      /\ Cardinality(A) = Cardinality(B) + 1
      /\ Rank(A, x) = 1
      /\ \A b \in B : Rank(A, b) = Rank(B, b) + 1
  BY FrontBelow
<1>2. x \in A /\ \A b \in B : b \in A
  OBVIOUS
<1> HIDE DEF A
<1>3. AtRank(A, 1) = x
  BY <1>1, <1>2, AtRankIs
<1>4. ASSUME NEW i \in 1..Cardinality(B)
      PROVE  AtRank(B, i) \in B /\ AtRank(A, i + 1) = AtRank(B, i)
  <2>1. PICK b \in B : Rank(B, b) = i
    BY EveryRankIsTaken
  <2>2. AtRank(B, i) = b
    BY <2>1, AtRankIs
  <2>3. Rank(A, b) = i + 1 /\ b \in A
    BY <1>1, <1>2, <2>1
  <2>4. AtRank(A, i + 1) = b
    BY <1>1, <2>3, AtRankIs
  <2> QED BY <2>2, <2>4
<1>5. Cardinality(A) = Cardinality(B) + 1
  BY <1>1
<1> QED BY <1>3, <1>4, <1>5 DEF A

-----------------------------------------------------------------------------
(* The tokens of a string.                                                 *)
Inside(m, s) == {a \in s..s+Length(m, s)-1 : m[a] \notin Delim}
Starts(m, s) == {a \in Inside(m, s) : a - 1 \notin Inside(m, s)}
Token(m, a)  == <<a, CSpan(m, a, Delim)>>

LEMMA TokensAre ==
  ASSUME NEW m, NEW s
  PROVE  TokensOf(m, s) = [i \in 1..Cardinality(Starts(m, s)) |-> Token(m, AtRank(Starts(m, s), i))]
BY DEF TokensOf, Starts, Inside, Token, AtRank

(* The string's end, by what it is.                                        *)
EndsAt(m, s, z) == z \in Cells /\ s <= z /\ m[z] = NUL /\ \A a \in s..z-1 : m[a] # NUL

LEMMA EndIs ==
  ASSUME NEW m, NEW s \in Cells, Terminated(m, s)
  PROVE  /\ Length(m, s) \in Nat
         /\ EndsAt(m, s, s + Length(m, s))
BY LengthFacts DEF EndsAt

LEMMA LengthIs ==
  ASSUME NEW m, NEW s \in Cells, NEW z, EndsAt(m, s, z)
  PROVE  Terminated(m, s) /\ Length(m, s) = z - s
<1>1. z \in {a \in s..Size : m[a] = NUL}
  BY DEF EndsAt
<1>2. \A y \in {a \in s..Size : m[a] = NUL} : z <= y
  BY DEF EndsAt, NUL
<1>3. Min({a \in s..Size : m[a] = NUL}) = z
  BY <1>1, <1>2, MinIs
<1> QED BY <1>1, <1>3 DEF Length, Terminated

LEMMA AtRankIn ==
  ASSUME NEW A, IsFiniteSet(A), A \subseteq Int, NEW i \in 1..Cardinality(A)
  PROVE  AtRank(A, i) \in A
<1>1. PICK a \in A : Rank(A, a) = i
  BY EveryRankIsTaken
<1> QED BY <1>1, AtRankIs

LEMMA StartsFinite ==
  ASSUME NEW m, NEW s \in Int, Length(m, s) \in Int
  PROVE  IsFiniteSet(Starts(m, s)) /\ Starts(m, s) \subseteq Int
<1>1. Starts(m, s) \in SUBSET (s..s+Length(m, s)-1)
  BY DEF Starts, Inside
<1>2. IsFiniteSet(s..s+Length(m, s)-1)
  BY FS_Interval
<1>3. IsFiniteSet(Starts(m, s))
  BY <1>1, <1>2, FS_Subset
<1> QED BY <1>1, <1>3

(* Where the next token starts, and where the one that starts at b stops.  *)
StartsAt(m, s, b) ==
  b \in Cells /\ s <= b /\ m[b] \notin Delim /\ \A a \in s..b-1 : m[a] \in Delim
StopsAt(m, b, e) ==
  /\ e \in Cells /\ b <= e /\ m[e] \in Delim \cup {NUL}
  /\ \A a \in b..e-1 : m[a] \notin Delim \cup {NUL}

LEMMA NoNulInDelim == NUL \notin Delim
BY DelimAssumption DEF NUL

LEMMA StartIs ==
  ASSUME NEW m, NEW s \in Cells, Terminated(m, s)
  PROVE  /\ Span(m, s, Delim) \in Nat
         /\ StartsAt(m, s, s + Span(m, s, Delim))
         /\ s + Span(m, s, Delim) <= s + Length(m, s)
<1> DEFINE A == {a \in s..Size : m[a] \notin Delim}
<1>1. /\ Length(m, s) \in 0..Size-s
      /\ m[s + Length(m, s)] = NUL
  BY LengthFacts
<1>2. s + Length(m, s) \in A /\ A \subseteq Nat
  BY <1>1, NoNulInDelim
<1>3. Min(A) \in A /\ \A y \in A : Min(A) <= y
  <2> HIDE DEF A
  <2> QED BY <1>2, LeastExists
<1>4. PICK b \in s..Size : b = Min(A)
  BY <1>3
<1>5. m[b] \notin Delim /\ \A y \in s..Size : m[y] \notin Delim => b <= y
  BY <1>3, <1>4
<1>6. Span(m, s, Delim) = b - s
  BY <1>4 DEF Span
<1>7. b <= s + Length(m, s)
  BY <1>2, <1>3, <1>4
<1>8. StartsAt(m, s, b)
  BY <1>5 DEF StartsAt
<1> QED BY <1>1, <1>6, <1>7, <1>8

LEMMA StopIs ==
  ASSUME NEW m, NEW b \in Cells, Terminated(m, b)
  PROVE  /\ CSpan(m, b, Delim) \in Nat
         /\ StopsAt(m, b, b + CSpan(m, b, Delim))
<1> DEFINE A == {a \in b..Size : m[a] \in Delim \cup {NUL}}
<1>1. A \subseteq Nat /\ A # {}
  BY DEF Terminated
<1>2. Min(A) \in A /\ \A y \in A : Min(A) <= y
  <2> HIDE DEF A
  <2> QED BY <1>1, LeastExists
<1>3. PICK e \in b..Size : e = Min(A)
  BY <1>2
<1>4. m[e] \in Delim \cup {NUL} /\ \A y \in b..Size : m[y] \in Delim \cup {NUL} => e <= y
  BY <1>2, <1>3
<1>5. CSpan(m, b, Delim) = e - b
  BY <1>3 DEF CSpan
<1>6. StopsAt(m, b, e)
  BY <1>4 DEF StopsAt
<1> QED BY <1>5, <1>6

LEMMA StopsAtIs ==
  ASSUME NEW m, NEW b \in Cells, NEW e, StopsAt(m, b, e)
  PROVE  CSpan(m, b, Delim) = e - b
<1>1. e \in b..Size
  BY DEF StopsAt
<1> QED BY <1>1, CSpanIs DEF StopsAt

(* A string with the same cells has the same tokens.                       *)
LEMMA TokensAgree ==
  ASSUME NEW m, NEW m2, NEW s \in Cells, Terminated(m, s),
         \A a \in s..s+Length(m, s) : m2[a] = m[a]
  PROVE  /\ Terminated(m2, s) /\ Length(m2, s) = Length(m, s)
         /\ TokensOf(m2, s) = TokensOf(m, s)
<1> DEFINE z == s + Length(m, s)
<1>1. Length(m, s) \in Nat /\ EndsAt(m, s, z)
  BY EndIs
<1>2. EndsAt(m2, s, z)
  BY <1>1 DEF EndsAt
<1>3. Terminated(m2, s) /\ Length(m2, s) = Length(m, s)
  BY <1>1, <1>2, LengthIs
<1>4. Inside(m2, s) = Inside(m, s)
  BY <1>1, <1>3 DEF Inside
<1>5. Starts(m2, s) = Starts(m, s)
  BY <1>4 DEF Starts
<1>6. ASSUME NEW a \in Starts(m, s)
      PROVE  Token(m2, a) = Token(m, a)
  <2>1. a \in s..z-1 /\ a \in Cells /\ z \in Cells /\ m[z] = NUL
    BY <1>1 DEF Starts, Inside, EndsAt
  <2>2. Terminated(m, a)
    BY <2>1 DEF Terminated
  <2>3. CSpan(m, a, Delim) \in Nat /\ StopsAt(m, a, a + CSpan(m, a, Delim))
    BY <2>1, <2>2, StopIs
  <2> DEFINE e == a + CSpan(m, a, Delim)
  <2>4. e <= z
    BY <2>1, <2>3 DEF StopsAt
  <2>5. \A y \in a..e : m2[y] = m[y]
    BY <2>1, <2>3, <2>4, <1>1
  <2>6. StopsAt(m2, a, e)
    BY <2>1, <2>3, <2>5 DEF StopsAt
  <2>7. CSpan(m2, a, Delim) = e - a
    BY <2>1, <2>6, StopsAtIs
  <2> QED BY <2>1, <2>3, <2>7 DEF Token
<1>7. Starts(m, s) \subseteq Int /\ IsFiniteSet(Starts(m, s))
  BY <1>1, StartsFinite
<1>8. \A i \in 1..Cardinality(Starts(m, s)) : AtRank(Starts(m, s), i) \in Starts(m, s)
  BY <1>7, AtRankIn
<1>9. TokensOf(m2, s) = TokensOf(m, s)
  BY <1>5, <1>6, <1>8, TokensAre
<1> QED BY <1>3, <1>9

LEMMA InFront ==
  ASSUME NEW n \in Nat, NEW w, NEW g, NEW x, NEW u, w \in Seq(u),
         Len(w) = n + 1, w[1] = x,
         g \in Seq(u), Len(g) = n, \A i \in 1..n : w[i + 1] = g[i]
  PROVE  w = <<x>> \o g
<1> DEFINE v == <<x>> \o g
<1>1. x \in u
  BY SMT
<1>2. <<x>> \in Seq(u) /\ Len(<<x>>) = 1
  BY <1>1
<1>3. v \in Seq(u) /\ Len(v) = n + 1 /\ \A i \in 1..n+1 : v[i] = IF i = 1 THEN x ELSE g[i - 1]
  BY <1>2
<1>4. \A i \in 1..n+1 : w[i] = v[i]
  <2> SUFFICES ASSUME NEW i \in 1..n+1 PROVE w[i] = v[i]
    OBVIOUS
  <2>1. CASE i = 1
    BY <1>3, <2>1
  <2>2. CASE i # 1
    <3>1. i - 1 \in 1..n /\ (i - 1) + 1 = i
      BY <2>2
    <3> QED BY <1>3, <2>2, <3>1
  <2> QED BY <2>1, <2>2
<1> HIDE DEF v
<1>5. w = v
  BY <1>3, <1>4
<1> QED BY <1>5 DEF v

LEMMA OneLong ==
  ASSUME NEW w, NEW u, w \in Seq(u), Len(w) = 1, NEW x, w[1] = x
  PROVE  w = <<x>>
<1>1. DOMAIN w = 1..1
  OBVIOUS
<1> QED BY <1>1

-----------------------------------------------------------------------------
(* Where the tokens are, and that they come one after the other.           *)
TokenRecords == Cells \X (1..Size)

LEMMA TokenType ==
  ASSUME NEW m, NEW s \in Cells, Terminated(m, s), NEW a \in Starts(m, s)
  PROVE  Token(m, a) \in TokenRecords
<1>1. Length(m, s) \in Nat /\ EndsAt(m, s, s + Length(m, s))
  BY EndIs
<1>2. /\ a \in s..s+Length(m, s)-1 /\ m[a] \notin Delim /\ m[a] # NUL
      /\ s + Length(m, s) \in Cells /\ m[s + Length(m, s)] = NUL
  BY <1>1 DEF Starts, Inside, EndsAt
<1>3. a \in Cells /\ Terminated(m, a)
  BY <1>1, <1>2 DEF Terminated
<1>4. CSpan(m, a, Delim) \in Nat /\ StopsAt(m, a, a + CSpan(m, a, Delim))
  BY <1>3, StopIs
<1>5. CSpan(m, a, Delim) # 0
  BY <1>2, <1>3, <1>4 DEF StopsAt
<1>6. CSpan(m, a, Delim) \in 1..Size
  BY <1>3, <1>4, <1>5 DEF StopsAt
<1> QED BY <1>3, <1>6 DEF Token, TokenRecords

LEMMA TokensType ==
  ASSUME NEW m, NEW s \in Cells, Terminated(m, s)
  PROVE  TokensOf(m, s) \in Seq(TokenRecords)
<1> DEFINE n == Cardinality(Starts(m, s))
<1>1. Length(m, s) \in Nat
  BY EndIs
<1>2. IsFiniteSet(Starts(m, s)) /\ Starts(m, s) \subseteq Int
  BY <1>1, StartsFinite
<1>3. n \in Nat
  BY <1>2, FS_CardinalityType
<1>4. \A i \in 1..n : Token(m, AtRank(Starts(m, s), i)) \in TokenRecords
  BY <1>2, AtRankIn, TokenType
<1>5. TokensOf(m, s) = [i \in 1..n |-> Token(m, AtRank(Starts(m, s), i))]
  BY TokensAre
<1> HIDE DEF n
<1> QED BY <1>3, <1>4, <1>5

Ahead(b, B) ==
  b \in Int /\ B \subseteq Int /\ IsFiniteSet(B) /\ \A x \in B : b < x

LEMMA TokenInFront ==
  ASSUME NEW m, NEW s, NEW B, NEW b, Ahead(b, B), Starts(m, s) = {b} \cup B
  PROVE  /\ Len(TokensOf(m, s)) = Cardinality(B) + 1
         /\ DOMAIN TokensOf(m, s) = 1..Cardinality(B)+1
         /\ TokensOf(m, s)[1] = Token(m, b)
         /\ \A i \in 1..Cardinality(B) : TokensOf(m, s)[i + 1] = Token(m, AtRank(B, i))
<1> DEFINE A == {b} \cup B
           n == Cardinality(B)
<1>1. /\ Cardinality(A) = n + 1
      /\ AtRank(A, 1) = b
      /\ \A i \in 1..n : AtRank(A, i + 1) = AtRank(B, i)
  BY FrontFirst DEF Ahead
<1>2. n \in Nat
  BY FS_CardinalityType DEF Ahead
<1>3. TokensOf(m, s) = [i \in 1..n+1 |-> Token(m, AtRank(A, i))]
  BY <1>1, TokensAre
<1> HIDE DEF n, A
<1>4. /\ Len(TokensOf(m, s)) = n + 1 /\ DOMAIN TokensOf(m, s) = 1..n+1
      /\ \A i \in 1..n+1 : TokensOf(m, s)[i] = Token(m, AtRank(A, i))
  BY <1>2, <1>3
<1> QED BY <1>1, <1>2, <1>4 DEF n

LEMMA NoToken ==
  ASSUME NEW m, NEW s \in Cells, NEW b, StartsAt(m, s, b), m[b] = NUL
  PROVE  TokensOf(m, s) = <<>>
<1>1. EndsAt(m, s, b)
  BY NoNulInDelim DEF StartsAt, EndsAt
<1>2. Length(m, s) = b - s /\ b \in Int
  BY <1>1, LengthIs DEF EndsAt
<1>3. Inside(m, s) = {}
  BY <1>2 DEF Inside, StartsAt
<1>4. Starts(m, s) = {}
  BY <1>3 DEF Starts
<1>5. Cardinality(Starts(m, s)) = 0
  BY <1>4, FS_EmptySet
<1> QED BY <1>5, TokensAre

LEMMA OneToken ==
  ASSUME NEW m, NEW s \in Cells, NEW b, NEW e,
         StartsAt(m, s, b), StopsAt(m, b, e), m[b] # NUL, m[e] = NUL
  PROVE  TokensOf(m, s) = <<<<b, e - b>>>>
<1>1. b \in Cells /\ e \in Cells /\ s <= b /\ b <= e
  BY DEF StartsAt, StopsAt
<1>2. EndsAt(m, s, e)
  <2>1. \A a \in s..e-1 : a \in s..b-1 \/ a \in b..e-1
    BY <1>1
  <2> QED BY <1>1, <2>1, NoNulInDelim DEF StartsAt, StopsAt, EndsAt
<1>3. Length(m, s) = e - s
  BY <1>2, LengthIs
<1>4. Inside(m, s) = b..e-1
  BY <1>1, <1>3 DEF Inside, StartsAt, StopsAt
<1>5. b # e
  BY DEF StartsAt, StopsAt
<1>6. Starts(m, s) = {b} \cup {}
  BY <1>1, <1>4, <1>5 DEF Starts
<1>7. Token(m, b) = <<b, e - b>>
  BY <1>1, StopsAtIs DEF Token
<1>8. IsFiniteSet({}) /\ Cardinality({}) = 0
  BY FS_EmptySet
<1>9. /\ Len(TokensOf(m, s)) = 1 /\ DOMAIN TokensOf(m, s) = 1..1
      /\ TokensOf(m, s)[1] = <<b, e - b>>
  <2>1. Ahead(b, {})
    BY <1>1, <1>8 DEF Ahead
  <2>2. /\ Len(TokensOf(m, s)) = Cardinality({}) + 1
        /\ DOMAIN TokensOf(m, s) = 1..Cardinality({})+1
        /\ TokensOf(m, s)[1] = Token(m, b)
    BY <1>6, <2>1, TokenInFront
  <2> QED BY <1>7, <1>8, <2>2
<1>10. TokensOf(m, s) \in Seq(TokenRecords)
  BY <1>2, LengthIs, TokensType
<1> QED BY <1>9, <1>10, OneLong

LEMMA NextToken ==
  ASSUME NEW m, NEW s \in Cells, NEW b, NEW e, Terminated(m, s),
         StartsAt(m, s, b), StopsAt(m, b, e), m[b] # NUL, m[e] # NUL
  PROVE  /\ e + 1 \in Cells /\ Terminated(m, e + 1)
         /\ e + 1 + Length(m, e + 1) = s + Length(m, s)
         /\ TokensOf(m, s) = <<<<b, e - b>>>> \o TokensOf(m, e + 1)
<1> DEFINE z == s + Length(m, s)
           B == Starts(m, e + 1)
<1>1. b \in Cells /\ e \in Cells /\ s <= b /\ b <= e
  BY DEF StartsAt, StopsAt
<1>2. Length(m, s) \in Nat /\ EndsAt(m, s, z)
  BY EndIs
<1>3. z > e
  <2>1. z \in Int /\ z >= s /\ m[z] = NUL
    BY <1>2 DEF EndsAt
  <2>2. \A a \in s..e : a \in s..b-1 \/ a \in b..e-1 \/ a = e
    BY <1>1
  <2>3. \A a \in s..e : m[a] # NUL
    BY <2>2, NoNulInDelim DEF StartsAt, StopsAt
  <2> QED BY <1>1, <2>1, <2>3
<1>4. e + 1 \in Cells /\ EndsAt(m, e + 1, z)
  BY <1>1, <1>2, <1>3 DEF EndsAt
<1>5. Terminated(m, e + 1) /\ Length(m, e + 1) = z - (e + 1)
  BY <1>4, LengthIs
<1>6. m[e] \in Delim /\ b # e
  BY DEF StartsAt, StopsAt
<1>7. Inside(m, s) = (b..e-1) \cup Inside(m, e + 1)
  <2>1. Inside(m, s) = {a \in s..z-1 : m[a] \notin Delim}
    BY <1>1, <1>2 DEF Inside
  <2>2. Inside(m, e + 1) = {a \in e+1..z-1 : m[a] \notin Delim}
    BY <1>1, <1>2, <1>5 DEF Inside
  <2>3. \A a \in s..b-1 : m[a] \in Delim
    BY DEF StartsAt
  <2>4. \A a \in b..e-1 : m[a] \notin Delim
    BY DEF StopsAt
  <2>5. z \in Int
    BY <1>2
  <2> HIDE DEF z
  <2> QED BY <1>1, <1>3, <1>6, <2>1, <2>2, <2>3, <2>4, <2>5
<1>8. Inside(m, e + 1) \subseteq e+1..z-1
  BY <1>1, <1>2, <1>5 DEF Inside
<1>9. Starts(m, s) = {b} \cup B
  BY <1>1, <1>2, <1>3, <1>6, <1>7, <1>8 DEF Starts
<1>10. IsFiniteSet(B) /\ B \subseteq Int /\ \A x \in B : b < x
  <2>1. Length(m, e + 1) \in Int
    BY <1>1, <1>2, <1>5
  <2>2. B \subseteq e+1..z-1
    BY <1>8 DEF Starts
  <2> QED BY <1>1, <1>2, <2>1, <2>2, StartsFinite
<1>11. Token(m, b) = <<b, e - b>>
  BY <1>1, StopsAtIs DEF Token
<1>12. Cardinality(B) \in Nat
  BY <1>10, FS_CardinalityType
<1>13. TokensOf(m, e + 1) = [i \in 1..Cardinality(B) |-> Token(m, AtRank(B, i))]
  BY TokensAre
<1> DEFINE n == Cardinality(B)
<1> HIDE DEF B, z
<1>14. /\ Len(TokensOf(m, s)) = n + 1
       /\ DOMAIN TokensOf(m, s) = 1..n+1
       /\ TokensOf(m, s)[1] = <<b, e - b>>
       /\ \A i \in 1..n : TokensOf(m, s)[i + 1] = Token(m, AtRank(B, i))
  <2>1. Ahead(b, B)
    BY <1>1, <1>10 DEF Ahead
  <2>2. /\ Len(TokensOf(m, s)) = Cardinality(B) + 1
        /\ DOMAIN TokensOf(m, s) = 1..Cardinality(B)+1
        /\ TokensOf(m, s)[1] = Token(m, b)
    BY <1>9, <2>1, TokenInFront
  <2>3. \A i \in 1..Cardinality(B) : TokensOf(m, s)[i + 1] = Token(m, AtRank(B, i))
    BY <1>9, <2>1, TokenInFront
  <2> QED BY <1>11, <2>2, <2>3
<1>15. TokensOf(m, s) = <<<<b, e - b>>>> \o TokensOf(m, e + 1)
  <2>1. TokensOf(m, s) \in Seq(TokenRecords) /\ TokensOf(m, e + 1) \in Seq(TokenRecords)
    BY <1>4, <1>5, TokensType
  <2>2. /\ Len(TokensOf(m, e + 1)) = n
        /\ \A i \in 1..n : TokensOf(m, e + 1)[i] = Token(m, AtRank(B, i))
    BY <1>12, <1>13
  <2> HIDE DEF n
  <2>3. n \in Nat
    BY <1>12 DEF n
  <2>4. \A i \in 1..n : TokensOf(m, s)[i + 1] = TokensOf(m, e + 1)[i]
    BY <1>14, <2>2
  <2>5. Len(TokensOf(m, s)) = n + 1 /\ TokensOf(m, s)[1] = <<b, e - b>>
    BY <1>14
  <2>6. Len(TokensOf(m, e + 1)) = n
    BY <2>2
  <2> QED BY <2>1, <2>3, <2>4, <2>5, <2>6, InFront
<1> QED BY <1>4, <1>5, <1>15, <1>1, <1>2 DEF z

-----------------------------------------------------------------------------
(* One tokenizer, whose string is what is left of it at r, NULL when       *)
(* nothing is: a is what it answered last, x the cells of the string it    *)
(* was started with, w the tokens of that string, y those it returned.     *)
LeftAt(m, r) == IF r = NULL THEN <<>> ELSE TokensOf(m, r)

OnItsWay(m, r, a, x, w, y) ==
  /\ r \in Cells \cup {NULL} /\ a \in Cells \cup {NULL}
  /\ x \in SUBSET Cells /\ (x = {} => r = NULL)
  /\ r # NULL => Terminated(m, r) /\ r..r+Length(m, r) \subseteq x
  /\ y \in Seq(TokenRecords)
  /\ w = y \o LeftAt(m, r)
  /\ a = NULL => LeftAt(m, r) = <<>>

(* It is called with the string at r and sofar returned.                   *)
GoesOn(m, r, x, w, sofar) ==
  /\ m \in Memories /\ r \in Cells /\ Terminated(m, r)
  /\ x \in SUBSET Cells /\ r..r+Length(m, r) \subseteq x
  /\ sofar \in Seq(TokenRecords)
  /\ w = sofar \o TokensOf(m, r)

TokenStart(m, r) == r + Span(m, r, Delim)
TokenEnd(m, r)   == TokenStart(m, r) + CSpan(m, TokenStart(m, r), Delim)

LEMMA TokenStarts ==
  ASSUME NEW m, NEW r, NEW x, NEW w, NEW sofar, GoesOn(m, r, x, w, sofar)
  PROVE  LET b == TokenStart(m, r)  e == TokenEnd(m, r)
         IN  /\ StartsAt(m, r, b) /\ StopsAt(m, b, e)
             /\ b \in Cells /\ e \in Cells /\ r <= b /\ b <= e
             /\ b <= r + Length(m, r) /\ Terminated(m, b)
             /\ e = b <=> m[b] = NUL
<1> DEFINE b == TokenStart(m, r)
           e == TokenEnd(m, r)
<1>1. r \in Cells /\ Terminated(m, r)
  BY DEF GoesOn
<1>2. StartsAt(m, r, b) /\ b <= r + Length(m, r)
  BY <1>1, StartIs DEF TokenStart
<1>3. Length(m, r) \in Nat /\ EndsAt(m, r, r + Length(m, r))
  BY <1>1, EndIs
<1>4. b \in Cells /\ r <= b
  BY <1>2 DEF StartsAt
<1>5. Terminated(m, b)
  <2>1. r + Length(m, r) \in b..Size /\ m[r + Length(m, r)] = NUL
    BY <1>2, <1>3, <1>4 DEF EndsAt
  <2> HIDE DEF b
  <2> QED BY <2>1 DEF Terminated
<1>6. StopsAt(m, b, e)
  BY <1>4, <1>5, StopIs DEF TokenEnd
<1> HIDE DEF b, e
<1>7. e \in Cells /\ b <= e
  BY <1>6 DEF StopsAt
<1>8. e = b <=> m[b] = NUL
  <2>1. ASSUME e = b PROVE m[b] = NUL
    BY <2>1, <1>2, <1>6 DEF StartsAt, StopsAt
  <2>2. ASSUME m[b] = NUL PROVE e = b
    BY <2>2, <1>4, <1>6, <1>7 DEF StopsAt
  <2> QED BY <2>1, <2>2
<1> QED BY <1>1, <1>2, <1>4, <1>5, <1>6, <1>7, <1>8 DEF b, e

(* The outcomes of a call.                                                 *)
LEMMA NoneIsLeft ==
  ASSUME NEW m, NEW r, NEW x, NEW w, NEW sofar, GoesOn(m, r, x, w, sofar),
         m[TokenStart(m, r)] = NUL
  PROVE  /\ OnItsWay(m, NULL, NULL, x, w, sofar)
         /\ OnItsWay(m, TokenStart(m, r), NULL, x, w, sofar)
<1> DEFINE b == TokenStart(m, r)
<1>1. /\ StartsAt(m, r, b) /\ b \in Cells /\ r <= b /\ b <= r + Length(m, r)
      /\ Terminated(m, b)
  BY TokenStarts
<1>2. /\ r \in Cells /\ x \in SUBSET Cells /\ r..r+Length(m, r) \subseteq x
      /\ sofar \in Seq(TokenRecords) /\ w = sofar \o TokensOf(m, r)
  BY DEF GoesOn
<1> HIDE DEF b
<1>3. m[b] = NUL
  BY DEF b
<1>4. TokensOf(m, r) = <<>>
  BY <1>1, <1>2, <1>3, NoToken
<1>5. StartsAt(m, b, b)
  BY <1>1 DEF StartsAt
<1>6. TokensOf(m, b) = <<>>
  BY <1>1, <1>3, <1>5, NoToken
<1>7. EndsAt(m, b, b)
  BY <1>1, <1>3 DEF EndsAt
<1>8. Length(m, b) = 0
  BY <1>1, <1>7, LengthIs
<1>9. b \in x /\ b..b+Length(m, b) \subseteq x
  <2>1. Length(m, r) \in Nat
    BY EndIs DEF GoesOn
  <2>2. b \in r..r+Length(m, r)
    BY <1>1, <1>2, <2>1
  <2> QED BY <1>1, <1>2, <1>8, <2>2
<1>10. LeftAt(m, NULL) = <<>> /\ LeftAt(m, b) = <<>>
  BY <1>6 DEF LeftAt
<1> QED BY <1>1, <1>2, <1>4, <1>9, <1>10 DEF OnItsWay, b

LEMMA SameSequence ==
  ASSUME NEW u, NEW v1 \in Seq(u), NEW v2 \in Seq(u), Len(v1) = Len(v2),
         \A i \in 1..Len(v1) : v1[i] = v2[i]
  PROVE  v1 = v2
<1>1. v1 = [i \in 1..Len(v1) |-> v1[i]]
  OBVIOUS
<1>2. v2 = [i \in 1..Len(v2) |-> v2[i]]
  OBVIOUS
<1> QED BY <1>1, <1>2

LEMMA NothingAfter ==
  ASSUME NEW u, NEW y \in Seq(u)
  PROVE  y = y \o <<>>
<1> DEFINE v == y \o <<>>
<1>1. v \in Seq(u) /\ Len(v) = Len(y) /\ \A i \in 1..Len(y) : v[i] = y[i]
  OBVIOUS
<1> HIDE DEF v
<1>2. v = y
  BY <1>1, SameSequence
<1> QED BY <1>2 DEF v

LEMMA OneAppended ==
  ASSUME NEW u, NEW y \in Seq(u), NEW x \in u
  PROVE  Append(y, x) \in Seq(u) /\ Append(y, x) = y \o <<x>>
<1> DEFINE v1 == Append(y, x)
           v2 == y \o <<x>>
<1>1. v1 \in Seq(u) /\ v2 \in Seq(u) /\ Len(v1) = Len(v2) /\ Len(v1) = Len(y) + 1
  OBVIOUS
<1>2. \A i \in 1..Len(v1) : v1[i] = v2[i]
  BY <1>1
<1> HIDE DEF v1, v2
<1>3. v1 = v2
  BY <1>1, <1>2, SameSequence
<1> QED BY <1>1, <1>3 DEF v1, v2

LEMMA OneMore ==
  ASSUME NEW u, NEW y \in Seq(u), NEW x \in u, NEW z \in Seq(u)
  PROVE  Append(y, x) \o z = y \o (<<x>> \o z)
<1> DEFINE v1 == Append(y, x) \o z
           v2 == y \o (<<x>> \o z)
<1>1. Append(y, x) \in Seq(u) /\ <<x>> \o z \in Seq(u)
  OBVIOUS
<1>2. v1 \in Seq(u) /\ v2 \in Seq(u) /\ Len(v1) = Len(v2) /\ Len(v1) = Len(y) + 1 + Len(z)
  BY <1>1
<1>3. \A i \in 1..Len(v1) : v1[i] = v2[i]
  BY <1>1, <1>2
<1> HIDE DEF v1, v2
<1>4. v1 = v2
  BY <1>2, <1>3, SameSequence
<1> QED BY <1>4 DEF v1, v2

LEMMA NothingBefore ==
  ASSUME NEW u, NEW y \in Seq(u)
  PROVE  y = <<>> \o y
<1> DEFINE v == <<>> \o y
<1>1. v \in Seq(u) /\ Len(v) = Len(y) /\ \A i \in 1..Len(y) : v[i] = y[i]
  OBVIOUS
<1> HIDE DEF v
<1>2. v = y
  BY <1>1, SameSequence
<1> QED BY <1>2 DEF v

LEMMA FrontOf ==
  ASSUME NEW u, NEW y \in Seq(u), NEW z \in Seq(u)
  PROVE  Len(y) <= Len(y \o z) /\ y = SubSeq(y \o z, 1, Len(y))
<1> DEFINE w == y \o z
           v == SubSeq(w, 1, Len(y))
<1>1. w \in Seq(u) /\ Len(w) = Len(y) + Len(z) /\ \A i \in 1..Len(y) : w[i] = y[i]
  OBVIOUS
<1> HIDE DEF w
<1>2. v \in Seq(u) /\ Len(v) = Len(y) /\ \A i \in 1..Len(y) : v[i] = w[i]
  BY <1>1
<1> HIDE DEF v
<1>3. v = y
  BY <1>1, <1>2, SameSequence
<1> QED BY <1>1, <1>3 DEF v, w

LEMMA LastIsTaken ==
  ASSUME NEW m, NEW r, NEW x, NEW w, NEW sofar, GoesOn(m, r, x, w, sofar),
         m[TokenStart(m, r)] # NUL, m[TokenEnd(m, r)] = NUL
  PROVE  LET b == TokenStart(m, r)  e == TokenEnd(m, r)
             y == Append(sofar, <<b, Length(m, b)>>)
         IN  OnItsWay(m, NULL, b, x, w, y) /\ OnItsWay(m, e, b, x, w, y)
<1> DEFINE b == TokenStart(m, r)
           e == TokenEnd(m, r)
           y == Append(sofar, <<b, Length(m, b)>>)
<1>1. /\ StartsAt(m, r, b) /\ StopsAt(m, b, e) /\ b \in Cells /\ e \in Cells
      /\ r <= b /\ b <= e /\ (e = b <=> m[b] = NUL)
  BY TokenStarts
<1>2. /\ r \in Cells /\ Terminated(m, r) /\ x \in SUBSET Cells
      /\ r..r+Length(m, r) \subseteq x
      /\ sofar \in Seq(TokenRecords) /\ w = sofar \o TokensOf(m, r)
  BY DEF GoesOn
<1>3. m[b] # NUL /\ m[e] = NUL
  OBVIOUS
<1> HIDE DEF b, e
<1>4. TokensOf(m, r) = <<<<b, e - b>>>>
  BY <1>1, <1>2, <1>3, OneToken
<1>5. EndsAt(m, b, e)
  BY <1>1, <1>3 DEF EndsAt, StopsAt
<1>6. Length(m, b) = e - b
  BY <1>1, <1>5, LengthIs
<1>7. EndsAt(m, e, e) /\ StartsAt(m, e, e)
  BY <1>1, <1>3, NoNulInDelim DEF EndsAt, StartsAt
<1>8. Length(m, e) = 0 /\ Terminated(m, e)
  BY <1>1, <1>7, LengthIs
<1>9. TokensOf(m, e) = <<>>
  BY <1>1, <1>3, <1>7, NoToken
<1>10. e \in x
  <2>1. EndsAt(m, r, e)
    <3>1. \A a \in r..e-1 : a \in r..b-1 \/ a \in b..e-1
      BY <1>1, <1>2
    <3> QED BY <1>1, <1>2, <1>3, <3>1, NoNulInDelim DEF StartsAt, StopsAt, EndsAt
  <2>2. Length(m, r) = e - r
    BY <1>2, <2>1, LengthIs
  <2>3. e \in r..r+Length(m, r)
    BY <1>1, <1>2, <2>2
  <2> QED BY <1>2, <2>3
<1>11. <<b, e - b>> \in TokenRecords
  BY <1>1, <1>3 DEF TokenRecords
<1>12. y \in Seq(TokenRecords) /\ w = y \o <<>>
  <2> DEFINE one == <<b, e - b>>
  <2>1. y = Append(sofar, one)
    BY <1>6
  <2>2. one \in TokenRecords
    BY <1>11
  <2> HIDE DEF one
  <2>3. y \in Seq(TokenRecords) /\ y = sofar \o <<one>>
    BY <1>2, <2>1, <2>2, OneAppended
  <2>4. w = y
    BY <1>2, <1>4, <2>3 DEF one
  <2> HIDE DEF y
  <2> QED BY <2>3, <2>4, NothingAfter
<1>13. LeftAt(m, NULL) = <<>> /\ LeftAt(m, e) = <<>>
  BY <1>9 DEF LeftAt
<1> HIDE DEF y
<1>14. e..e+Length(m, e) \subseteq x
  BY <1>1, <1>8, <1>10
<1>15. b \in Cells /\ b # NULL /\ x # {}
  BY <1>1, <1>10 DEF NULL
<1>16. OnItsWay(m, NULL, b, x, w, y)
  BY <1>2, <1>12, <1>13, <1>15 DEF OnItsWay
<1>17. OnItsWay(m, e, b, x, w, y)
  BY <1>1, <1>2, <1>8, <1>12, <1>13, <1>14, <1>15 DEF OnItsWay
<1> QED BY <1>16, <1>17 DEF b, e, y

LEMMA OneIsCut ==
  ASSUME NEW m, NEW r, NEW x, NEW w, NEW sofar, GoesOn(m, r, x, w, sofar),
         m[TokenStart(m, r)] # NUL, m[TokenEnd(m, r)] # NUL
  PROVE  LET b == TokenStart(m, r)  e == TokenEnd(m, r)
             m2 == [m EXCEPT ![e] = NUL]
         IN  /\ e \in x
             /\ OnItsWay(m2, e + 1, b, x, w, Append(sofar, <<b, Length(m2, b)>>))
<1> DEFINE b == TokenStart(m, r)
           e == TokenEnd(m, r)
           m2 == [m EXCEPT ![e] = NUL]
           y == Append(sofar, <<b, Length(m2, b)>>)
<1>1. /\ StartsAt(m, r, b) /\ StopsAt(m, b, e) /\ b \in Cells /\ e \in Cells
      /\ r <= b /\ b <= e /\ (e = b <=> m[b] = NUL)
  BY TokenStarts
<1>2. /\ m \in Memories /\ r \in Cells /\ Terminated(m, r) /\ x \in SUBSET Cells
      /\ r..r+Length(m, r) \subseteq x
      /\ sofar \in Seq(TokenRecords) /\ w = sofar \o TokensOf(m, r)
  BY DEF GoesOn
<1>3. m[b] # NUL /\ m[e] # NUL
  OBVIOUS
<1> HIDE DEF b, e
<1>4. /\ e + 1 \in Cells /\ Terminated(m, e + 1)
      /\ e + 1 + Length(m, e + 1) = r + Length(m, r)
      /\ TokensOf(m, r) = <<<<b, e - b>>>> \o TokensOf(m, e + 1)
  BY <1>1, <1>2, <1>3, NextToken
<1>5. Length(m, e + 1) \in Nat /\ Length(m, r) \in Nat
  BY <1>2, <1>4, EndIs
<1>6. m2[e] = NUL /\ \A a \in Cells : a # e => m2[a] = m[a]
  BY <1>1, <1>2 DEF Memories
<1>7. \A a \in e+1..e+1+Length(m, e + 1) : m2[a] = m[a]
  <2>1. EndsAt(m, e + 1, e + 1 + Length(m, e + 1))
    BY <1>4, EndIs
  <2>2. e + 1 + Length(m, e + 1) \in Cells
    BY <2>1 DEF EndsAt
  <2> HIDE DEF m2
  <2> QED BY <1>1, <1>5, <1>6, <2>2
<1> HIDE DEF m2
<1>8. /\ Terminated(m2, e + 1) /\ Length(m2, e + 1) = Length(m, e + 1)
      /\ TokensOf(m2, e + 1) = TokensOf(m, e + 1)
  BY <1>4, <1>7, TokensAgree
<1>9. EndsAt(m2, b, e)
  BY <1>1, <1>6 DEF EndsAt, StopsAt
<1>10. Length(m2, b) = e - b
  BY <1>1, <1>9, LengthIs
<1>11. <<b, e - b>> \in TokenRecords
  BY <1>1, <1>3 DEF TokenRecords
<1>12. TokensOf(m, e + 1) \in Seq(TokenRecords)
  BY <1>4, TokensType
<1>13. y \in Seq(TokenRecords) /\ w = y \o TokensOf(m2, e + 1)
  <2> DEFINE one == <<b, e - b>>
  <2>1. y = Append(sofar, one)
    BY <1>10
  <2>2. one \in TokenRecords
    BY <1>11
  <2>3. TokensOf(m, r) = <<one>> \o TokensOf(m, e + 1)
    BY <1>4
  <2> HIDE DEF one, y
  <2>4. y \in Seq(TokenRecords)
    BY <1>2, <2>1, <2>2, OneAppended
  <2>5. y \o TokensOf(m, e + 1) = sofar \o (<<one>> \o TokensOf(m, e + 1))
    BY <1>2, <1>12, <2>1, <2>2, OneMore
  <2> QED BY <1>2, <1>8, <2>3, <2>4, <2>5
<1>14. LeftAt(m2, e + 1) = TokensOf(m2, e + 1)
  BY <1>4 DEF LeftAt, NULL
<1>15. e + 1..e + 1 + Length(m2, e + 1) \subseteq x /\ e \in x
  <2>1. e + 1..e + 1 + Length(m2, e + 1) \subseteq r..r+Length(m, r)
    BY <1>1, <1>2, <1>4, <1>5, <1>8
  <2>2. e \in r..r+Length(m, r)
    BY <1>1, <1>2, <1>4, <1>5
  <2> QED BY <1>2, <2>1, <2>2
<1>16. b # NULL /\ x # {}
  BY <1>1, <1>15 DEF NULL
<1> HIDE DEF y
<1>17. OnItsWay(m2, e + 1, b, x, w, y)
  BY <1>1, <1>2, <1>4, <1>8, <1>13, <1>14, <1>15, <1>16 DEF OnItsWay
<1> QED BY <1>15, <1>17 DEF b, e, m2, y

(* What is written outside its string does not touch a tokenizer.          *)
LEMMA OtherGoesOn ==
  ASSUME NEW m \in Memories, NEW r, NEW a, NEW x, NEW w, NEW y,
         OnItsWay(m, r, a, x, w, y), NEW e \in Cells, e \notin x
  PROVE  OnItsWay([m EXCEPT ![e] = NUL], r, a, x, w, y)
<1> DEFINE m2 == [m EXCEPT ![e] = NUL]
<1>1. CASE r = NULL
  BY <1>1 DEF OnItsWay, LeftAt
<1>2. CASE r # NULL
  <2>1. r \in Cells /\ Terminated(m, r) /\ r..r+Length(m, r) \subseteq x /\ x \in SUBSET Cells
    BY <1>2 DEF OnItsWay
  <2>2. \A c \in r..r+Length(m, r) : m2[c] = m[c]
    BY <2>1 DEF Memories
  <2> HIDE DEF m2
  <2>3. /\ Terminated(m2, r) /\ Length(m2, r) = Length(m, r)
        /\ TokensOf(m2, r) = TokensOf(m, r)
    BY <2>1, <2>2, TokensAgree
  <2>4. LeftAt(m2, r) = LeftAt(m, r)
    BY <2>3 DEF LeftAt
  <2>5. OnItsWay(m2, r, a, x, w, y)
    BY <2>3, <2>4 DEF OnItsWay
  <2> QED BY <2>5 DEF m2
<1> QED BY <1>1, <1>2

-----------------------------------------------------------------------------
(* Each tokenizer is on its way through its string, and the strings share  *)
(* no cell.  Only while neither has a string is another function called.   *)
Records == Seq(TokenRecords)

EachOnItsWay ==
  \A t \in Tokenizers : OnItsWay(mem, rest[t], answer[t], text[t], tokens[t], yielded[t])

TextsApart == \A t, o \in Tokenizers : t # o => text[t] \cap text[o] = {}

TokensInv ==
  /\ rest \in [Tokenizers -> Cells \cup {NULL}] /\ answer \in [Tokenizers -> Cells \cup {NULL}]
  /\ text \in [Tokenizers -> SUBSET Cells]
  /\ tokens \in [Tokenizers -> Records] /\ yielded \in [Tokenizers -> Records]
  /\ EachOnItsWay
  /\ TextsApart
  /\ at # "ready" => text = [t \in Tokenizers |-> {}]

(* What a call of t with str goes on from.                                 *)
From(t, str)  == IF str # NULL THEN str ELSE rest[t]

LEMMA CallGoesOn ==
  ASSUME TokensInv, mem \in Memories, NEW t \in Tokenizers, NEW str \in Cells \cup {NULL},
         Begin(t, str) \/ Continue(t, str)
  PROVE  LET from  == From(t, str)
             sofar == IF str = NULL THEN yielded[t] ELSE <<>>
         IN  /\ text' \in [Tokenizers -> SUBSET Cells] /\ tokens' \in [Tokenizers -> Records]
             /\ \A o \in Tokenizers : o # t => text'[o] = text[o] /\ tokens'[o] = tokens[o]
             /\ \A o \in Tokenizers : o # t => text'[o] \cap text'[t] = {}
             /\ sofar \in Records
             /\ from # NULL => GoesOn(mem, from, text'[t], tokens'[t], sofar)
             /\ from = NULL => OnItsWay(mem, NULL, NULL, text'[t], tokens'[t], sofar)
<1> DEFINE from  == From(t, str)
           sofar == IF str = NULL THEN yielded[t] ELSE <<>>
<1> SUFFICES /\ text' \in [Tokenizers -> SUBSET Cells] /\ tokens' \in [Tokenizers -> Records]
             /\ \A o \in Tokenizers : o # t => text'[o] = text[o] /\ tokens'[o] = tokens[o]
             /\ \A o \in Tokenizers : o # t => text'[o] \cap text'[t] = {}
             /\ sofar \in Records
             /\ from # NULL => GoesOn(mem, from, text'[t], tokens'[t], sofar)
             /\ from = NULL => OnItsWay(mem, NULL, NULL, text'[t], tokens'[t], sofar)
  OBVIOUS
<1>1. OnItsWay(mem, rest[t], answer[t], text[t], tokens[t], yielded[t])
  BY DEF TokensInv, EachOnItsWay
<1>2. CASE Continue(t, str)
  <2>1. str = NULL /\ text' = text /\ tokens' = tokens
    BY <1>2 DEF Continue
  <2>2. from = rest[t] /\ sofar = yielded[t]
    BY <2>1 DEF From
  <2>3. /\ rest[t] \in Cells \cup {NULL} /\ yielded[t] \in Records
        /\ text[t] \in SUBSET Cells
        /\ rest[t] # NULL => Terminated(mem, rest[t]) /\ rest[t]..rest[t]+Length(mem, rest[t]) \subseteq text[t]
        /\ tokens[t] = yielded[t] \o LeftAt(mem, rest[t])
    BY <1>1 DEF OnItsWay, Records
  <2> HIDE DEF from, sofar
  <2>4. ASSUME from # NULL
        PROVE  GoesOn(mem, from, text'[t], tokens'[t], sofar)
    BY <2>1, <2>2, <2>3, <2>4 DEF GoesOn, LeftAt, Records
  <2>5. ASSUME from = NULL
        PROVE  OnItsWay(mem, NULL, NULL, text'[t], tokens'[t], sofar)
    BY <2>1, <2>2, <2>3, <2>5 DEF OnItsWay, LeftAt, Records
  <2>6. /\ text' \in [Tokenizers -> SUBSET Cells] /\ tokens' \in [Tokenizers -> Records]
        /\ \A o \in Tokenizers : o # t => text'[o] \cap text'[t] = {}
    BY <2>1 DEF TokensInv, TextsApart
  <2> QED BY <2>1, <2>2, <2>3, <2>4, <2>5, <2>6
<1>3. CASE Begin(t, str)
  <2> DEFINE own == str..str+Length(mem, str)
  <2>1. /\ str # NULL /\ Terminated(mem, str)
        /\ \A o \in Tokenizers \ {t} : text[o] \cap own = {}
        /\ text' = [text EXCEPT ![t] = own]
        /\ tokens' = [tokens EXCEPT ![t] = TokensOf(mem, str)]
    BY <1>3 DEF Begin
  <2>2. from = str /\ sofar = <<>> /\ str \in Cells
    BY <2>1 DEF From
  <2>3. own \in SUBSET Cells
    <3>1. Length(mem, str) \in Nat /\ EndsAt(mem, str, str + Length(mem, str))
      BY <2>1, <2>2, EndIs
    <3> QED BY <2>2, <3>1 DEF EndsAt
  <2>4. TokensOf(mem, str) \in Seq(TokenRecords)
    BY <2>1, <2>2, TokensType
  <2> HIDE DEF own, from, sofar
  <2>5. text'[t] = own /\ tokens'[t] = TokensOf(mem, str)
    BY <2>1 DEF TokensInv
  <2>6. /\ text' \in [Tokenizers -> SUBSET Cells] /\ tokens' \in [Tokenizers -> Records]
        /\ \A o \in Tokenizers : o # t => text'[o] = text[o] /\ tokens'[o] = tokens[o]
    BY <2>1, <2>3, <2>4 DEF TokensInv, Records
  <2>7. \A o \in Tokenizers : o # t => text'[o] \cap text'[t] = {}
    BY <2>1, <2>5, <2>6
  <2>8. sofar \in Seq(TokenRecords)
    BY <2>2
  <2>9. tokens'[t] = sofar \o TokensOf(mem, str)
    BY <2>2, <2>4, <2>5, NothingBefore
  <2>10. GoesOn(mem, from, text'[t], tokens'[t], sofar)
    BY <2>1, <2>2, <2>3, <2>5, <2>8, <2>9 DEF GoesOn, own
  <2> QED BY <2>1, <2>2, <2>6, <2>7, <2>8, <2>10 DEF Records
<1> QED BY <1>2, <1>3

(* One of them answers, the other is not touched.                          *)
LEMMA AnswerKeeps ==
  ASSUME TokensInv, mem \in Memories, at = "ready", at' = at,
         NEW t \in Tokenizers, NEW str, NEW token, NEW next,
         text' \in [Tokenizers -> SUBSET Cells], tokens' \in [Tokenizers -> Records],
         \A o \in Tokenizers : o # t => text'[o] = text[o] /\ tokens'[o] = tokens[o],
         \A o \in Tokenizers : o # t => text'[o] \cap text'[t] = {},
         Yield(t, str, token, next),
         mem' = mem \/ \E e \in Cells : e \in text'[t] /\ mem' = [mem EXCEPT ![e] = NUL],
         LET sofar == IF str = NULL THEN yielded[t] ELSE <<>>
         IN  OnItsWay(mem', next, token, text'[t], tokens'[t],
                      IF token = NULL THEN sofar ELSE Append(sofar, <<token, Length(mem', token)>>))
  PROVE  TokensInv'
<1> DEFINE sofar == IF str = NULL THEN yielded[t] ELSE <<>>
           y     == IF token = NULL THEN sofar ELSE Append(sofar, <<token, Length(mem', token)>>)
<1>1. /\ answer' = [answer EXCEPT ![t] = token] /\ rest' = [rest EXCEPT ![t] = next]
      /\ yielded' = [yielded EXCEPT ![t] = y]
  BY DEF Yield
<1>2. OnItsWay(mem', next, token, text'[t], tokens'[t], y)
  OBVIOUS
<1> HIDE DEF y
<1>3. next \in Cells \cup {NULL} /\ token \in Cells \cup {NULL} /\ y \in Records
  BY <1>2 DEF OnItsWay, Records
<1>4. /\ rest' \in [Tokenizers -> Cells \cup {NULL}] /\ answer' \in [Tokenizers -> Cells \cup {NULL}]
      /\ yielded' \in [Tokenizers -> Records]
      /\ rest'[t] = next /\ answer'[t] = token /\ yielded'[t] = y
      /\ \A o \in Tokenizers : o # t => rest'[o] = rest[o] /\ answer'[o] = answer[o] /\ yielded'[o] = yielded[o]
  BY <1>1, <1>3 DEF TokensInv
<1>5. ASSUME NEW o \in Tokenizers, o # t
      PROVE  OnItsWay(mem', rest[o], answer[o], text[o], tokens[o], yielded[o])
  <2>1. OnItsWay(mem, rest[o], answer[o], text[o], tokens[o], yielded[o])
    BY DEF TokensInv, EachOnItsWay
  <2>2. CASE mem' = mem
    BY <2>1, <2>2
  <2>3. ASSUME NEW e \in Cells, e \in text'[t], mem' = [mem EXCEPT ![e] = NUL]
        PROVE  OnItsWay(mem', rest[o], answer[o], text[o], tokens[o], yielded[o])
    <3>1. e \notin text[o]
      BY <1>5, <2>3
    <3> QED BY <2>1, <2>3, <3>1, OtherGoesOn
  <2> QED BY <2>2, <2>3
<1>6. \A o \in Tokenizers : OnItsWay(mem', rest'[o], answer'[o], text'[o], tokens'[o], yielded'[o])
  BY <1>2, <1>4, <1>5
<1>7. \A o, u \in Tokenizers : o # u => text'[o] \cap text'[u] = {}
  BY DEF Tokenizers, TokensInv, TextsApart
<1> QED BY <1>4, <1>6, <1>7 DEF TokensInv, EachOnItsWay, TextsApart

LEMMA StrtokKeeps ==
  ASSUME TokensInv, mem \in Memories, CallStrtok
  PROVE  TokensInv'
<1> DEFINE t == "strtok"
<1>1. PICK str \in Cells \cup {NULL} :
        (Begin(t, str) \/ Continue(t, str)) /\ strtok(str)
  BY DEF CallStrtok
<1> DEFINE from  == From(t, str)
           sofar == IF str = NULL THEN yielded[t] ELSE <<>>
           b     == TokenStart(mem, from)
           e     == TokenEnd(mem, from)
           Answered(m2, token, next) ==
             OnItsWay(m2, next, token, text'[t], tokens'[t],
                      IF token = NULL THEN sofar ELSE Append(sofar, <<token, Length(m2, token)>>))
<1>2. t \in Tokenizers /\ at = "ready" /\ at' = at
  BY DEF Tokenizers, CallStrtok
<1>3. /\ text' \in [Tokenizers -> SUBSET Cells] /\ tokens' \in [Tokenizers -> Records]
      /\ \A o \in Tokenizers : o # t => text'[o] = text[o] /\ tokens'[o] = tokens[o]
      /\ \A o \in Tokenizers : o # t => text'[o] \cap text'[t] = {}
      /\ from # NULL => GoesOn(mem, from, text'[t], tokens'[t], sofar)
      /\ from = NULL => OnItsWay(mem, NULL, NULL, text'[t], tokens'[t], sofar)
  BY <1>1, <1>2, CallGoesOn
<1>4. ASSUME from # NULL
      PROVE  b \in Cells /\ e \in Cells /\ (e = b <=> mem[b] = NUL)
  BY <1>3, <1>4, TokenStarts
<1>5. \/ from = NULL /\ mem' = mem /\ Yield(t, str, NULL, NULL)
      \/ from # NULL /\ e = b /\ mem' = mem /\ Yield(t, str, NULL, NULL)
      \/ from # NULL /\ e # b /\ mem[e] # NUL /\ Cut(e) /\ Yield(t, str, b, e + 1)
      \/ from # NULL /\ e # b /\ mem[e] = NUL /\ mem' = mem /\ Yield(t, str, b, NULL)
  BY <1>1 DEF strtok, From, TokenStart, TokenEnd
<1>6. CASE from = NULL /\ mem' = mem /\ Yield(t, str, NULL, NULL)
  <2>1. Answered(mem', NULL, NULL)
    BY <1>3, <1>6
  <2> QED BY <1>2, <1>3, <1>6, <2>1, AnswerKeeps
<1>7. CASE from # NULL /\ e = b /\ mem' = mem /\ Yield(t, str, NULL, NULL)
  <2>1. Answered(mem', NULL, NULL)
    BY <1>3, <1>4, <1>7, NoneIsLeft
  <2> QED BY <1>2, <1>3, <1>7, <2>1, AnswerKeeps
<1>8. CASE from # NULL /\ e # b /\ mem[e] # NUL /\ Cut(e) /\ Yield(t, str, b, e + 1)
  <2>1. b \in Cells /\ b # NULL /\ e \in Cells /\ mem' = [mem EXCEPT ![e] = NUL]
    BY <1>4, <1>8 DEF Cut, NULL
  <2>2. e \in text'[t] /\ OnItsWay(mem', e + 1, b, text'[t], tokens'[t], Append(sofar, <<b, Length(mem', b)>>))
    BY <1>3, <1>4, <1>8, <2>1, OneIsCut
  <2>3. Answered(mem', b, e + 1)
    BY <2>1, <2>2
  <2> QED BY <1>2, <1>3, <1>8, <2>1, <2>2, <2>3, AnswerKeeps
<1>9. CASE from # NULL /\ e # b /\ mem[e] = NUL /\ mem' = mem /\ Yield(t, str, b, NULL)
  <2>1. b # NULL
    BY <1>4, <1>9 DEF NULL
  <2>2. OnItsWay(mem, NULL, b, text'[t], tokens'[t], Append(sofar, <<b, Length(mem, b)>>))
    BY <1>3, <1>4, <1>9, LastIsTaken
  <2>3. Answered(mem', b, NULL)
    BY <1>9, <2>1, <2>2
  <2> QED BY <1>2, <1>3, <1>9, <2>3, AnswerKeeps
<1> QED BY <1>5, <1>6, <1>7, <1>8, <1>9

LEMMA Strtok_rKeeps ==
  ASSUME TokensInv, mem \in Memories, CallStrtok_r
  PROVE  TokensInv'
<1> DEFINE t == "strtok_r"
<1>1. PICK str \in Cells \cup {NULL} :
        (Begin(t, str) \/ Continue(t, str)) /\ strtok_r(str)
  BY DEF CallStrtok_r
<1> DEFINE from  == From(t, str)
           sofar == IF str = NULL THEN yielded[t] ELSE <<>>
           b     == TokenStart(mem, from)
           e     == TokenEnd(mem, from)
           Answered(m2, token, next) ==
             OnItsWay(m2, next, token, text'[t], tokens'[t],
                      IF token = NULL THEN sofar ELSE Append(sofar, <<token, Length(m2, token)>>))
<1>2. t \in Tokenizers /\ at = "ready" /\ at' = at
  BY DEF Tokenizers, CallStrtok_r
<1>3. /\ text' \in [Tokenizers -> SUBSET Cells] /\ tokens' \in [Tokenizers -> Records]
      /\ \A o \in Tokenizers : o # t => text'[o] = text[o] /\ tokens'[o] = tokens[o]
      /\ \A o \in Tokenizers : o # t => text'[o] \cap text'[t] = {}
      /\ from # NULL => GoesOn(mem, from, text'[t], tokens'[t], sofar)
  BY <1>1, <1>2, CallGoesOn
<1>4. /\ from # NULL
      /\ \/ mem[b] = NUL /\ mem' = mem /\ Yield(t, str, NULL, b)
         \/ mem[b] # NUL /\ mem[e] # NUL /\ Cut(e) /\ Yield(t, str, b, e + 1)
         \/ mem[b] # NUL /\ mem[e] = NUL /\ mem' = mem /\ Yield(t, str, b, e)
  BY <1>1 DEF strtok_r, From, TokenStart, TokenEnd
<1>5. GoesOn(mem, from, text'[t], tokens'[t], sofar) /\ b \in Cells /\ e \in Cells
  BY <1>3, <1>4, TokenStarts
<1>6. CASE mem[b] = NUL /\ mem' = mem /\ Yield(t, str, NULL, b)
  <2>1. Answered(mem', NULL, b)
    BY <1>5, <1>6, NoneIsLeft
  <2> QED BY <1>2, <1>3, <1>6, <2>1, AnswerKeeps
<1>7. CASE mem[b] # NUL /\ mem[e] # NUL /\ Cut(e) /\ Yield(t, str, b, e + 1)
  <2>1. b # NULL /\ mem' = [mem EXCEPT ![e] = NUL]
    BY <1>5, <1>7 DEF Cut, NULL
  <2>2. e \in text'[t] /\ OnItsWay(mem', e + 1, b, text'[t], tokens'[t], Append(sofar, <<b, Length(mem', b)>>))
    BY <1>5, <1>7, <2>1, OneIsCut
  <2>3. Answered(mem', b, e + 1)
    BY <2>1, <2>2
  <2> QED BY <1>2, <1>3, <1>5, <1>7, <2>1, <2>2, <2>3, AnswerKeeps
<1>8. CASE mem[b] # NUL /\ mem[e] = NUL /\ mem' = mem /\ Yield(t, str, b, e)
  <2>1. b # NULL
    BY <1>5 DEF NULL
  <2>2. OnItsWay(mem, e, b, text'[t], tokens'[t], Append(sofar, <<b, Length(mem, b)>>))
    BY <1>5, <1>8, LastIsTaken
  <2>3. Answered(mem', b, e)
    BY <1>8, <2>1, <2>2
  <2> QED BY <1>2, <1>3, <1>8, <2>3, AnswerKeeps
<1> QED BY <1>4, <1>6, <1>7, <1>8

(* While another function runs the tokenizers have no string.              *)
LEMMA OthersLeaveTokens ==
  ASSUME TokensInv, UNCHANGED tokenizing,
         mem' = mem \/ text = [t \in Tokenizers |-> {}],
         at' # "ready" => at # "ready" \/ text = [t \in Tokenizers |-> {}]
  PROVE  TokensInv'
<1>1. rest' = rest /\ answer' = answer /\ text' = text /\ tokens' = tokens /\ yielded' = yielded
  BY DEF tokenizing
<1>2. ASSUME NEW t \in Tokenizers
      PROVE  OnItsWay(mem', rest[t], answer[t], text[t], tokens[t], yielded[t])
  <2>1. OnItsWay(mem, rest[t], answer[t], text[t], tokens[t], yielded[t])
    BY DEF TokensInv, EachOnItsWay
  <2>2. CASE mem' = mem
    BY <2>1, <2>2
  <2>3. CASE text = [u \in Tokenizers |-> {}]
    BY <2>1, <2>3 DEF OnItsWay, LeftAt
  <2> QED BY <2>2, <2>3
<1> QED BY <1>1, <1>2 DEF TokensInv, EachOnItsWay, TextsApart

LEMMA TokensInvariance ==
  ASSUME TokensInv, mem \in Memories, [Next]_vars
  PROVE  TokensInv'
<1>1. CASE Unused /\ CallFunction /\ UNCHANGED <<tokenizing, converting>>
  BY <1>1, OthersLeaveTokens DEF Unused
<1>2. CASE CallStrtok
  BY <1>2, StrtokKeeps
<1>3. CASE CallStrtok_r
  BY <1>3, Strtok_rKeeps
<1>4. CASE StringStep /\ UNCHANGED <<tokenizing, converting>>
  <2>1. at # "ready"
    BY <1>4 DEF StringStep, memcpy, memmove, memset, memcmp, lfind, strlen, strcmp, strcpy,
       strncpy, strcat, strchr, strspn, strcspn, strpbrk, strstr, strreverse, In
  <2> QED BY <1>4, <2>1, OthersLeaveTokens DEF TokensInv
<1>5. CASE TakeResult /\ UNCHANGED <<tokenizing, converting>>
  <2>1. mem' = mem /\ at' = "ready"
    BY <1>5 DEF TakeResult
  <2> QED BY <1>5, <2>1, OthersLeaveTokens
<1>6. CASE UNCHANGED <<mem, locals, tokenizing>>
  <2>1. mem' = mem /\ at' = at /\ UNCHANGED tokenizing
    BY <1>6 DEF locals
  <2> QED BY <2>1, OthersLeaveTokens
<1> QED
  BY <1>1, <1>2, <1>3, <1>4, <1>5, <1>6 DEF Next, Step, vars

LEMMA InOrder ==
  ASSUME TokensInv
  PROVE  TokensComeInOrder
<1> SUFFICES ASSUME NEW t \in Tokenizers
             PROVE  /\ Len(yielded[t]) <= Len(tokens[t])
                    /\ yielded[t] = SubSeq(tokens[t], 1, Len(yielded[t]))
                    /\ answer[t] = NULL => yielded[t] = tokens[t]
  BY DEF TokensComeInOrder
<1> DEFINE w == tokens[t]
           y == yielded[t]
           z == LeftAt(mem, rest[t])
<1>1. /\ y \in Seq(TokenRecords) /\ w = y \o z /\ (answer[t] = NULL => z = <<>>)
  BY DEF TokensInv, EachOnItsWay, OnItsWay
<1>2. z \in Seq(TokenRecords)
  BY TokensType DEF TokensInv, EachOnItsWay, OnItsWay, LeftAt
<1> HIDE DEF w, y, z
<1>3. Len(y) <= Len(w) /\ y = SubSeq(w, 1, Len(y))
  BY <1>1, <1>2, FrontOf
<1>4. answer[t] = NULL => y = w
  BY <1>1, NothingAfter
<1> QED BY <1>3, <1>4 DEF w, y

LEMMA InitTokens == Init => TokensInv
<1> SUFFICES ASSUME Init PROVE TokensInv
  OBVIOUS
<1>1. /\ rest = Nowhere /\ answer = Nowhere /\ text = [t \in Tokenizers |-> {}]
      /\ tokens = [t \in Tokenizers |-> <<>>] /\ yielded = [t \in Tokenizers |-> <<>>]
      /\ at = "ready"
  BY DEF Init, TokensInit, StringInit
<1>2. <<>> \in Seq(TokenRecords) /\ <<>> = <<>> \o <<>>
  BY NothingAfter
<1>3. ASSUME NEW t \in Tokenizers
      PROVE  OnItsWay(mem, rest[t], answer[t], text[t], tokens[t], yielded[t])
  BY <1>1, <1>2 DEF OnItsWay, LeftAt, Nowhere
<1> QED BY <1>1, <1>2, <1>3 DEF TokensInv, EachOnItsWay, TextsApart, Nowhere, Records

(* Each tokenizer returns the tokens of its string in order, whole and     *)
(* terminated, and NULL when there are none left and only then, for every  *)
(* memory and whatever is called between its calls.                        *)
THEOREM TokensAreInOrder == Spec => []TokensComeInOrder
<1>1. Init => StringInv
  BY DEF Init, StringInit, StringInv, CallsKeepTheirPromise, Memories, Bytes
<1>2. Init => TokensInv
  BY InitTokens
<1>3. StringInv /\ TokensInv /\ [Next]_vars => TokensInv'
  BY TokensInvariance DEF StringInv
<1>4. TokensInv => TokensComeInOrder
  BY InOrder
<1> QED BY <1>1, <1>2, <1>3, <1>4, StringInvariance, PTL DEF Spec

-----------------------------------------------------------------------------
(* Folding digits onto a number.  FoldLeft is a recursive function on sets *)
(* of positions.  That there is one, and that what it goes through is      *)
(* determined by the digits, is shown by least counterexamples.            *)
Onto(b, word, base) == FoldLeft(LAMBDA sum, digit : sum * base + digit, b, word)

IsFoldTo(g, n, b, word, base) ==
  g = [w \in SUBSET (1..n) |->
         IF w = {} THEN b ELSE LET x == Max(w) IN g[w \ {x}] * base + word[x]]

(* What the fold has after each digit.                                     *)
Sums(c, b, word, base) ==
  /\ c \in [0..Len(word) -> Int] /\ c[0] = b
  /\ \A i \in 1..Len(word) : c[i] = c[i-1] * base + word[i]

LEMMA MaxIs ==
  ASSUME NEW A, A \subseteq Int, NEW x \in A, \A y \in A : y <= x
  PROVE  Max(A) = x
<1>1. \A z \in A : (\A y \in A : z >= y) => z = x
  OBVIOUS
<1> QED BY <1>1 DEF Max

(* Induction: what holds of 0 and fails somewhere first fails after it.    *)
LEMMA FirstFailure ==
  ASSUME NEW A, A \subseteq Nat, A # {}, 0 \notin A
  PROVE  \E x \in Nat : x \notin A /\ x + 1 \in A
<1>1. PICK y \in A : \A z \in A : y <= z
  BY LeastExists
<1>2. y \in Nat /\ y # 0
  BY <1>1
<1>3. y - 1 \in Nat /\ (y - 1) + 1 = y /\ ~ (y <= y - 1)
  BY <1>2
<1> QED BY <1>1, <1>3

LEMMA FoldGrows ==
  ASSUME NEW b, NEW word, NEW base, NEW n \in Nat,
         NEW g, IsFoldTo(g, n, b, word, base)
  PROVE  \E h : IsFoldTo(h, n + 1, b, word, base)
<1> DEFINE h == [w \in SUBSET (1..n+1) |->
                   IF n + 1 \in w THEN g[w \ {n + 1}] * base + word[n + 1] ELSE g[w]]
           Body(w) == IF w = {} THEN b ELSE LET x == Max(w) IN h[w \ {x}] * base + word[x]
<1>1. ASSUME NEW w \in SUBSET (1..n+1)
      PROVE  h[w] = Body(w)
  <2>1. CASE n + 1 \in w
    <3>1. Max(w) = n + 1
      <4>1. w \subseteq Int /\ \A y \in w : y <= n + 1
        OBVIOUS
      <4> QED BY <2>1, <4>1, MaxIs
    <3>2. w \ {n + 1} \in SUBSET (1..n)
      OBVIOUS
    <3>3. h[w \ {n + 1}] = g[w \ {n + 1}]
      BY <3>2
    <3>4. h[w] = g[w \ {n + 1}] * base + word[n + 1]
      BY <2>1
    <3> HIDE DEF h
    <3> QED BY <2>1, <3>1, <3>3, <3>4
  <2>2. CASE n + 1 \notin w
    <3>1. w \in SUBSET (1..n)
      BY <2>2
    <3>2. h[w] = g[w]
      BY <2>2
    <3>3. g[w] = IF w = {} THEN b ELSE LET x == Max(w) IN g[w \ {x}] * base + word[x]
      BY <3>1 DEF IsFoldTo
    <3>4. h[w \ {Max(w)}] = g[w \ {Max(w)}]
      <4> DEFINE v == w \ {Max(w)}
      <4>1. v \in SUBSET (1..n+1) /\ n + 1 \notin v
        BY <2>2
      <4> HIDE DEF v
      <4>2. h[v] = g[v]
        BY <4>1
      <4> QED BY <4>2 DEF v
    <3> HIDE DEF h
    <3> QED BY <3>2, <3>3, <3>4
  <2> QED BY <2>1, <2>2
<1>2. h = [w \in SUBSET (1..n+1) |-> h[w]]
  OBVIOUS
<1> HIDE DEF h
<1>3. IsFoldTo(h, n + 1, b, word, base)
  BY <1>1, <1>2 DEF IsFoldTo
<1> QED BY <1>3

LEMMA FoldExists ==
  ASSUME NEW b, NEW word, NEW base, NEW n \in Nat
  PROVE  \E g : IsFoldTo(g, n, b, word, base)
<1> DEFINE A == {i \in Nat : ~ \E g : IsFoldTo(g, i, b, word, base)}
<1> SUFFICES ASSUME A # {} PROVE FALSE
  OBVIOUS
<1>1. 0 \notin A
  <2> DEFINE g == [w \in SUBSET (1..0) |-> b]
  <2>1. \A w \in SUBSET (1..0) : w = {}
    OBVIOUS
  <2>2. IsFoldTo(g, 0, b, word, base)
    BY <2>1 DEF IsFoldTo
  <2> QED BY <2>2
<1>2. A \subseteq Nat
  OBVIOUS
<1>3. PICK x \in Nat : x \notin A /\ x + 1 \in A
  <2> HIDE DEF A
  <2> QED BY <1>1, <1>2, FirstFailure
<1>4. PICK g : IsFoldTo(g, x, b, word, base)
  BY <1>3
<1>5. \E h : IsFoldTo(h, x + 1, b, word, base)
  BY <1>4, FoldGrows
<1> QED BY <1>3, <1>5

LEMMA OntoIsFold ==
  ASSUME NEW b, NEW base, NEW word \in Seq(Int)
  PROVE  \E g : /\ IsFoldTo(g, Len(word), b, word, base)
                /\ Onto(b, word, base) = g[1..Len(word)]
<1> DEFINE n == Len(word)
           G == CHOOSE g : IsFoldTo(g, n, b, word, base)
<1>1. n \in Nat /\ DOMAIN word = 1..n
  OBVIOUS
<1>2. IsFoldTo(G, n, b, word, base)
  <2> HIDE DEF n
  <2> QED BY <1>1, FoldExists
<1>3. Onto(b, word, base) = G[1..n]
  <2> HIDE DEF n
  <2> QED BY <1>1 DEF Onto, FoldLeft, MapThenFoldSet, IsFoldTo
<1> QED BY <1>2, <1>3

(* The fold takes the positions one by one, the first first.               *)
LEMMA SumsExist ==
  ASSUME NEW b \in Int, NEW base \in Int, NEW word \in Seq(Int)
  PROVE  \E c : Sums(c, b, word, base) /\ Onto(b, word, base) = c[Len(word)]
<1> DEFINE n == Len(word)
<1>1. n \in Nat /\ \A i \in 1..n : word[i] \in Int
  OBVIOUS
<1>2. PICK g : IsFoldTo(g, n, b, word, base) /\ Onto(b, word, base) = g[1..n]
  BY OntoIsFold
<1> HIDE DEF n
<1>3. g[{}] = b
  BY <1>2 DEF IsFoldTo
<1>4. ASSUME NEW i \in 1..n
      PROVE  g[1..i] = g[1..i-1] * base + word[i]
  <2>1. 1..i \in SUBSET (1..n) /\ 1..i # {} /\ (1..i) \ {i} = 1..i-1
    <3>1. i \in 1..i /\ \A y \in 1..i : y \in 1..n
      BY <1>1
    <3>2. (1..i) \ {i} = 1..i-1
      BY <1>1
    <3> QED BY <3>1, <3>2
  <2>2. Max(1..i) = i
    <3>1. 1..i \subseteq Int /\ i \in 1..i /\ \A y \in 1..i : y <= i
      OBVIOUS
    <3> QED BY <3>1, MaxIs
  <2>3. g[1..i] = IF 1..i = {} THEN b ELSE LET x == Max(1..i) IN g[(1..i) \ {x}] * base + word[x]
    BY <1>2, <2>1 DEF IsFoldTo
  <2> QED BY <2>1, <2>2, <2>3
<1> DEFINE A == {i \in 0..n : g[1..i] \notin Int}
<1>5. A = {}
  <2> SUFFICES ASSUME A # {} PROVE FALSE
    OBVIOUS
  <2>1. 1..0 = {}
    OBVIOUS
  <2>2. A \subseteq Nat /\ 0 \notin A
    BY <1>1, <1>3, <2>1
  <2>3. PICK x \in Nat : x \notin A /\ x + 1 \in A
    <3> HIDE DEF A
    <3> QED BY <2>2, FirstFailure
  <2>4. x + 1 \in 1..n /\ (x + 1) - 1 = x /\ x \in 0..n
    BY <1>1, <2>3
  <2>5. g[1..x] \in Int /\ g[1..x+1] \notin Int
    BY <2>3, <2>4
  <2>6. g[1..x+1] = g[1..x] * base + word[x + 1]
    BY <1>4, <2>4
  <2> QED BY <1>1, <2>4, <2>5, <2>6
<1> DEFINE c == [i \in 0..n |-> g[1..i]]
<1>6. c \in [0..n -> Int]
  BY <1>5
<1>7. c[0] = b /\ c[n] = g[1..n]
  <2>1. 1..0 = {} /\ 0 \in 0..n /\ n \in 0..n
    BY <1>1
  <2> QED BY <1>3, <2>1
<1>8. \A i \in 1..n : c[i] = c[i-1] * base + word[i]
  <2> SUFFICES ASSUME NEW i \in 1..n PROVE c[i] = c[i-1] * base + word[i]
    OBVIOUS
  <2>1. i \in 0..n /\ i - 1 \in 0..n
    BY <1>1
  <2> QED BY <1>4, <2>1
<1> HIDE DEF c
<1>9. Sums(c, b, word, base)
  BY <1>6, <1>7, <1>8 DEF Sums, n
<1> QED BY <1>2, <1>7, <1>9 DEF n

LEMMA SumsAreUnique ==
  ASSUME NEW b, NEW base, NEW word \in Seq(Int), NEW c, NEW d,
         Sums(c, b, word, base), Sums(d, b, word, base)
  PROVE  c[Len(word)] = d[Len(word)]
<1> DEFINE n == Len(word)
           A == {i \in 0..n : c[i] # d[i]}
<1>1. n \in Nat
  OBVIOUS
<1>2. /\ c[0] = d[0]
      /\ \A i \in 1..n : c[i] = c[i-1] * base + word[i] /\ d[i] = d[i-1] * base + word[i]
  BY DEF Sums
<1> HIDE DEF n
<1>3. A = {}
  <2> SUFFICES ASSUME A # {} PROVE FALSE
    OBVIOUS
  <2>1. A \subseteq Nat /\ 0 \notin A
    BY <1>1, <1>2
  <2>2. PICK x \in Nat : x \notin A /\ x + 1 \in A
    <3> HIDE DEF A
    <3> QED BY <2>1, FirstFailure
  <2>3. x + 1 \in 1..n /\ (x + 1) - 1 = x /\ x \in 0..n
    BY <1>1, <2>2
  <2> QED BY <1>2, <2>2, <2>3
<1>4. n \in 0..n
  BY <1>1
<1>5. c[n] = d[n]
  BY <1>3, <1>4
<1> QED BY <1>5 DEF n

Foldable(b, base, word) == b \in Int /\ base \in Int /\ word \in Seq(Int)

LEMMA OntoIs ==
  ASSUME NEW b, NEW base, NEW word, NEW c, Foldable(b, base, word), Sums(c, b, word, base)
  PROVE  Onto(b, word, base) = c[Len(word)]
BY SumsExist, SumsAreUnique DEF Foldable

-----------------------------------------------------------------------------
(* What folding does to the texts the conversions build.                   *)
LEMMA OntoNothing ==
  ASSUME NEW b \in Int, NEW base \in Int
  PROVE  Onto(b, <<>>, base) = b
<1> DEFINE c == [i \in 0..0 |-> b]
           w == <<>>
<1>1. w \in Seq(Int) /\ Len(w) = 0
  OBVIOUS
<1>2. Sums(c, b, w, base)
  BY DEF Sums
<1>3. c[0] = b
  OBVIOUS
<1> HIDE DEF c, w
<1>4. Onto(b, w, base) = c[Len(w)]
  <2>1. Foldable(b, base, w)
    BY <1>1 DEF Foldable
  <2> QED BY <1>2, <2>1, OntoIs, Zenon
<1> QED BY <1>1, <1>3, <1>4 DEF w

LEMMA FrontFacts ==
  ASSUME NEW u, NEW w \in Seq(u), w # <<>>
  PROVE  /\ Len(w) \in Nat \ {0} /\ Front(w) \in Seq(u) /\ Len(Front(w)) = Len(w) - 1
         /\ \A i \in 1..Len(w)-1 : Front(w)[i] = w[i]
         /\ Last(w) \in u
<1>1. Len(w) \in Nat \ {0}
  OBVIOUS
<1>2. SubSeq(w, 1, Len(w) - 1) \in Seq(u) /\ Len(SubSeq(w, 1, Len(w) - 1)) = Len(w) - 1
  <2> DEFINE j == Len(w) - 1
  <2>1. j \in Nat /\ j <= Len(w)
    BY <1>1
  <2>2. \A i \in 1..j : w[i] \in u
    BY <1>1
  <2> HIDE DEF j
  <2>3. SubSeq(w, 1, j) = [i \in 1..j |-> w[i]]
    BY <2>1
  <2>4. SubSeq(w, 1, j) \in Seq(u)
    BY <2>1, <2>2, <2>3
  <2>5. Len(SubSeq(w, 1, j)) = j
    BY <2>1, <2>3
  <2> QED BY <2>4, <2>5 DEF j
<1>3. \A i \in 1..Len(w)-1 : SubSeq(w, 1, Len(w) - 1)[i] = w[i]
  BY <1>1
<1>4. w[Len(w)] \in u
  BY <1>1
<1> QED BY <1>1, <1>2, <1>3, <1>4 DEF Front, Last

LEMMA OntoLast ==
  ASSUME NEW b \in Int, NEW base \in Int, NEW word \in Seq(Int), word # <<>>
  PROVE  /\ Front(word) \in Seq(Int)
         /\ Onto(b, word, base) = Onto(b, Front(word), base) * base + Last(word)
<1> DEFINE n == Len(word)
           v == Front(word)
<1>1. n \in Nat \ {0} /\ v \in Seq(Int) /\ Len(v) = n - 1 /\ \A i \in 1..n-1 : v[i] = word[i]
  BY FrontFacts
<1>2. PICK c : Sums(c, b, word, base) /\ Onto(b, word, base) = c[n]
  BY SumsExist
<1>3. /\ c \in [0..n -> Int] /\ c[0] = b
      /\ \A i \in 1..n : c[i] = c[i-1] * base + word[i]
  BY <1>2 DEF Sums
<1> DEFINE d == [i \in 0..n-1 |-> c[i]]
<1> HIDE DEF n, v
<1>4. d \in [0..n-1 -> Int] /\ d[0] = b /\ d[n-1] = c[n-1]
  BY <1>1, <1>3
<1>5. \A i \in 1..n-1 : d[i] = d[i-1] * base + v[i]
  BY <1>1, <1>3
<1> HIDE DEF d
<1>6. Sums(d, b, v, base)
  BY <1>1, <1>4, <1>5 DEF Sums
<1>7. Onto(b, v, base) = c[n-1]
  <2>1. Onto(b, v, base) = d[Len(v)]
    BY <1>1, <1>6, OntoIs DEF Foldable
  <2> QED BY <1>1, <1>4, <2>1
<1>8. Onto(b, word, base) = c[n-1] * base + word[n]
  BY <1>1, <1>2, <1>3
<1> QED BY <1>1, <1>7, <1>8 DEF n, v, Last

StartsWith(v, x, word) ==
  /\ Len(v) = Len(word) + 1 /\ v[1] = x
  /\ \A i \in 1..Len(word) : v[i + 1] = word[i]

Carries(b, base, x, e) == x \in Int /\ e = b * base + x

(* A digit in front is folded onto the number first.                       *)
LEMMA OntoFirst ==
  ASSUME NEW b, NEW base, NEW word, NEW v, NEW x, NEW e,
         Foldable(b, base, word), Foldable(b, base, v), StartsWith(v, x, word),
         Carries(b, base, x, e)
  PROVE  Onto(b, v, base) = Onto(e, word, base)
<1> DEFINE n == Len(word)
<1>1. n \in Nat /\ e \in Int /\ b \in Int /\ base \in Int /\ v \in Seq(Int) /\ word \in Seq(Int)
  BY DEF Foldable, StartsWith, Carries
<1>2. PICK c : Sums(c, e, word, base) /\ Onto(e, word, base) = c[n]
  BY <1>1, SumsExist
<1>3. /\ c \in [0..n -> Int] /\ c[0] = e
      /\ \A i \in 1..n : c[i] = c[i-1] * base + word[i]
  BY <1>2 DEF Sums
<1> DEFINE d == [i \in 0..n+1 |-> IF i = 0 THEN b ELSE c[i-1]]
<1>4. Len(v) = n + 1 /\ v[1] = x /\ \A i \in 1..n : v[i + 1] = word[i]
  BY DEF StartsWith
<1>5. e = b * base + x
  BY DEF Carries
<1> HIDE DEF n
<1>6. d \in [0..n+1 -> Int] /\ d[0] = b /\ d[n+1] = c[n]
  BY <1>1, <1>3
<1>7. ASSUME NEW i \in 1..n+1
      PROVE  d[i] = d[i-1] * base + v[i]
  <2>1. CASE i = 1
    <3>1. d[1] = c[0] /\ d[0] = b
      BY <1>1
    <3> QED BY <1>3, <1>4, <1>5, <2>1, <3>1
  <2>2. CASE i # 1
    <3>1. i - 1 \in 1..n /\ (i - 1) + 1 = i
      BY <1>1, <2>2
    <3>2. d[i] = c[i-1] /\ d[i-1] = c[(i-1)-1]
      BY <1>1, <3>1
    <3>3. v[i] = word[i-1]
      BY <1>4, <3>1
    <3> QED BY <1>3, <3>1, <3>2, <3>3
  <2> QED BY <2>1, <2>2
<1> HIDE DEF d
<1>8. Sums(d, b, v, base)
  BY <1>4, <1>6, <1>7 DEF Sums
<1>9. Onto(b, v, base) = c[n]
  <2>1. Onto(b, v, base) = d[Len(v)]
    BY <1>8, OntoIs, Zenon
  <2> QED BY <1>4, <1>6, <2>1
<1> QED BY <1>2, <1>9

LEMMA ReverseFacts ==
  ASSUME NEW u, NEW w \in Seq(u)
  PROVE  /\ Reverse(w) \in Seq(u) /\ Len(Reverse(w)) = Len(w)
         /\ \A i \in 1..Len(w) : Reverse(w)[i] = w[(Len(w) - i) + 1]
BY DEF Reverse

(* Read backwards, a word to which a digit is appended starts with it.     *)
LEMMA OntoReverse ==
  ASSUME NEW b, NEW base, NEW word, NEW x, NEW e,
         Foldable(b, base, word), Carries(b, base, x, e)
  PROVE  Onto(b, Reverse(Append(word, x)), base) = Onto(e, Reverse(word), base)
<1> DEFINE w == Append(word, x)
           n == Len(word)
           v == Reverse(w)
           g == Reverse(word)
<1>1. n \in Nat /\ w \in Seq(Int) /\ Len(w) = n + 1 /\ w[n + 1] = x
      /\ word \in Seq(Int) /\ \A i \in 1..n : w[i] = word[i]
  BY DEF Foldable, Carries
<1> HIDE DEF w, n
<1>2. /\ v \in Seq(Int) /\ Len(v) = n + 1
      /\ \A i \in 1..n+1 : v[i] = w[((n + 1) - i) + 1]
  <2>1. /\ v \in Seq(Int) /\ Len(v) = Len(w)
        /\ \A i \in 1..Len(w) : v[i] = w[(Len(w) - i) + 1]
    BY <1>1, ReverseFacts
  <2> QED BY <1>1, <2>1
<1>3. /\ g \in Seq(Int) /\ Len(g) = n
      /\ \A i \in 1..n : g[i] = word[(n - i) + 1]
  BY <1>1, ReverseFacts DEF n
<1> HIDE DEF v, g
<1>4. v[1] = x
  BY <1>1, <1>2
<1>5. ASSUME NEW i \in 1..n
      PROVE  v[i + 1] = g[i]
  <2> DEFINE j == (n - i) + 1
  <2>1. i + 1 \in 1..n+1 /\ ((n + 1) - (i + 1)) + 1 = j /\ j \in 1..n
    BY <1>1
  <2>2. v[i + 1] = w[j]
    BY <1>2, <2>1
  <2>3. g[i] = word[j]
    BY <1>3
  <2> HIDE DEF j
  <2> QED BY <1>1, <2>1, <2>2, <2>3
<1>6. Foldable(b, base, v) /\ Foldable(b, base, g)
  BY <1>2, <1>3 DEF Foldable
<1>7. StartsWith(v, x, g)
  BY <1>2, <1>3, <1>4, <1>5 DEF StartsWith
<1>8. Onto(b, v, base) = Onto(e, g, base)
  BY <1>6, <1>7, OntoFirst
<1> QED BY <1>8 DEF w, v, g

-----------------------------------------------------------------------------
(* Writing a number: rem of it is still to write, w is written, the least  *)
(* significant digit first, and more zeros are wanted.                     *)
Written(rem, w, more, d, min) ==
  /\ rem \in Nat /\ w \in Seq(Int) /\ more \in Nat /\ d \in 2..16 /\ min \in Nat
  /\ \A i \in 1..Len(w) : w[i] \in 0..d-1
  /\ Len(w) + more >= min
  /\ more > 0 => Len(w) + more = min

(* The digits written so far, read after what is left, are the number.     *)
IsWorth(rem, w, d, number) == Onto(rem, Reverse(w), d) = number

NoZeroInFront(w, min) == Len(w) > 0 /\ (Len(w) > 1 /\ Len(w) > min => w[Len(w)] # 0)

LEMMA DigitFacts ==
  ASSUME NEW rem \in Nat, NEW d \in 2..16
  PROVE  /\ rem \div d \in Nat /\ (rem % d) \in 0..d-1
         /\ rem = ((rem \div d) * d) + (rem % d)
OBVIOUS

LEMMA OneDigitMore ==
  ASSUME NEW rem, NEW w, NEW more, NEW d, NEW min, Written(rem, w, more, d, min)
  PROVE  LET v    == Append(w, rem % d)
             next == rem \div d
             less == IF more > 0 THEN more - 1 ELSE 0
         IN  /\ Written(next, v, less, d, min)
             /\ \A number : IsWorth(rem, w, d, number) => IsWorth(next, v, d, number)
             /\ (next = 0 /\ (w # <<>> => rem > 0)) => NoZeroInFront(v, min)
<1> DEFINE x    == rem % d
           next == rem \div d
           v    == Append(w, x)
           less == IF more > 0 THEN more - 1 ELSE 0
<1>1. /\ rem \in Nat /\ w \in Seq(Int) /\ more \in Nat /\ d \in 2..16 /\ min \in Nat
      /\ \A i \in 1..Len(w) : w[i] \in 0..d-1
      /\ Len(w) + more >= min /\ (more > 0 => Len(w) + more = min)
  BY DEF Written
<1>2. next \in Nat /\ x \in 0..d-1 /\ rem = (next * d) + x
  BY <1>1, DigitFacts
<1>3. next = 0 /\ rem > 0 => x # 0
  BY <1>1, <1>2
<1> HIDE DEF x, next
<1>4. /\ v \in Seq(Int) /\ Len(v) = Len(w) + 1 /\ v[Len(w) + 1] = x
      /\ \A i \in 1..Len(w) : v[i] = w[i]
  BY <1>1, <1>2
<1> HIDE DEF v
<1>5. \A i \in 1..Len(v) : v[i] \in 0..d-1
  <2> SUFFICES ASSUME NEW i \in 1..Len(v) PROVE v[i] \in 0..d-1
    OBVIOUS
  <2>1. Len(w) \in Nat /\ (i = Len(w) + 1 \/ i \in 1..Len(w))
    BY <1>1, <1>4
  <2>2. CASE i = Len(w) + 1
    BY <1>1, <1>2, <1>4, <2>1, <2>2
  <2>3. CASE i \in 1..Len(w)
    BY <1>1, <1>4, <2>1, <2>3
  <2> QED BY <2>1, <2>2, <2>3
<1>6. less \in Nat /\ Len(v) + less >= min /\ (less > 0 => Len(v) + less = min)
  <2>1. Len(w) \in Nat /\ Len(v) \in Nat /\ Len(v) = Len(w) + 1
    BY <1>1, <1>4
  <2>2. CASE more > 0
    BY <1>1, <2>1, <2>2
  <2>3. CASE more = 0
    BY <1>1, <2>1, <2>3
  <2> QED BY <1>1, <2>2, <2>3
<1>7. Written(next, v, less, d, min)
  BY <1>1, <1>2, <1>4, <1>5, <1>6 DEF Written
<1>8. Foldable(next, d, w) /\ Carries(next, d, x, rem)
  BY <1>1, <1>2 DEF Foldable, Carries
<1>9. Onto(next, Reverse(v), d) = Onto(rem, Reverse(w), d)
  <2>1. Onto(next, Reverse(Append(w, x)), d) = Onto(rem, Reverse(w), d)
    BY <1>8, OntoReverse
  <2> QED BY <2>1 DEF v
<1>10. (next = 0 /\ (w # <<>> => rem > 0)) => NoZeroInFront(v, min)
  BY <1>1, <1>3, <1>4 DEF NoZeroInFront
<1> QED BY <1>7, <1>9, <1>10 DEF IsWorth, next, v, x

LEMMA OneZeroMore ==
  ASSUME NEW w, NEW more, NEW d, NEW min, Written(0, w, more, d, min), more > 0,
         NoZeroInFront(w, min)
  PROVE  LET v == Append(w, 0)
         IN  /\ Written(0, v, more - 1, d, min)
             /\ \A number : IsWorth(0, w, d, number) => IsWorth(0, v, d, number)
             /\ NoZeroInFront(v, min)
<1> DEFINE v == Append(w, 0)
<1>1. /\ w \in Seq(Int) /\ more \in Nat /\ d \in 2..16 /\ min \in Nat
      /\ \A i \in 1..Len(w) : w[i] \in 0..d-1
      /\ Len(w) + more = min
  BY DEF Written
<1>2. /\ v \in Seq(Int) /\ Len(v) = Len(w) + 1 /\ v[Len(w) + 1] = 0
      /\ \A i \in 1..Len(w) : v[i] = w[i]
  BY <1>1
<1> HIDE DEF v
<1>3. \A i \in 1..Len(v) : v[i] \in 0..d-1
  <2> SUFFICES ASSUME NEW i \in 1..Len(v) PROVE v[i] \in 0..d-1
    OBVIOUS
  <2>1. Len(w) \in Nat /\ (i = Len(w) + 1 \/ i \in 1..Len(w))
    BY <1>1, <1>2
  <2>2. CASE i = Len(w) + 1
    BY <1>1, <1>2, <2>1, <2>2
  <2>3. CASE i \in 1..Len(w)
    BY <1>1, <1>2, <2>1, <2>3
  <2> QED BY <2>1, <2>2, <2>3
<1>4. Written(0, v, more - 1, d, min)
  BY <1>1, <1>2, <1>3 DEF Written
<1>5. Foldable(0, d, w) /\ Carries(0, d, 0, 0)
  BY <1>1 DEF Foldable, Carries
<1>6. Onto(0, Reverse(Append(w, 0)), d) = Onto(0, Reverse(w), d)
  BY <1>5, OntoReverse
<1>7. NoZeroInFront(v, min)
  BY <1>1, <1>2 DEF NoZeroInFront
<1> QED BY <1>4, <1>6, <1>7 DEF IsWorth, v

LEMMA WrittenOut ==
  ASSUME NEW w, NEW d, NEW min, NEW number, Written(0, w, 0, d, min),
         NoZeroInFront(w, min), IsWorth(0, w, d, number)
  PROVE  Reverse(w) \in Seq(Int) /\ Writes(Reverse(w), number, d, min)
<1> DEFINE v == Reverse(w)
<1>1. /\ w \in Seq(Int) /\ d \in 2..16 /\ min \in Nat
      /\ \A i \in 1..Len(w) : w[i] \in 0..d-1
      /\ Len(w) >= min
  BY DEF Written
<1>2. /\ v \in Seq(Int) /\ Len(v) = Len(w)
      /\ \A i \in 1..Len(w) : v[i] = w[(Len(w) - i) + 1]
  BY <1>1, ReverseFacts
<1>3. Worth(v, d) = number
  BY DEF IsWorth, Worth, Onto
<1> HIDE DEF v
<1>4. ASSUME NEW i \in 1..Len(w)
      PROVE  v[i] \in 0..d-1
  <2>1. (Len(w) - i) + 1 \in 1..Len(w)
    BY <1>1
  <2> QED BY <1>1, <1>2, <2>1
<1>5. Len(w) > 0 /\ v[1] = w[Len(w)]
  BY <1>1, <1>2 DEF NoZeroInFront
<1>6. Writes(v, number, d, min)
  <2>1. DOMAIN v = 1..Len(w) /\ Len(v) = Len(w)
    BY <1>2
  <2>2. Len(w) > 1 /\ Len(w) > min => v[1] # 0
    BY <1>5 DEF NoZeroInFront
  <2> QED BY <1>1, <1>3, <1>4, <1>5, <2>1, <2>2 DEF Writes
<1> QED BY <1>2, <1>6 DEF v

LEMMA SignInFront ==
  ASSUME NEW w \in Seq(Int)
  PROVE  (<<"-">> \o w)[1] = "-" /\ Tail(<<"-">> \o w) = w
<1> DEFINE u == Int \cup {"-"}
<1>1. w \in Seq(u) /\ "-" \in u
  OBVIOUS
<1> HIDE DEF u
<1> DEFINE x == "-"
           v == <<x>> \o w
<1>2. x \in u
  BY <1>1
<1> HIDE DEF x
<1>3. /\ v \in Seq(u) /\ Len(v) = Len(w) + 1 /\ v[1] = x
      /\ \A i \in 1..Len(w) : v[i + 1] = w[i]
  BY <1>1, <1>2
<1> HIDE DEF v
<1>4. Tail(v) \in Seq(u) /\ Len(Tail(v)) = Len(w) /\ \A i \in 1..Len(w) : Tail(v)[i] = v[i + 1]
  BY <1>3
<1>5. Tail(v) = w
  BY <1>1, <1>3, <1>4, SameSequence
<1> QED BY <1>3, <1>5 DEF v, x

-----------------------------------------------------------------------------
(* Reading a number: the characters not yet read, at their powers, and     *)
(* what has been read are together the number, modulo the width of int.    *)
Congruent(a, b) == \E i \in Int : a - b = i * UintSize

WhatIsRead(rem, power, sum, word) ==
  /\ rem \in Seq(Int) /\ power \in UInts /\ sum \in UInts /\ word \in Seq(Int)
  /\ Congruent((Onto(0, rem, 10) * power) + sum, Onto(0, word, 10))

LEMMA Widths ==
  /\ UintSize \in Nat /\ UintSize > 1 /\ UintSize \div 2 \in Nat /\ UintSize \div 2 > 0
  /\ UintSize = 2 * (UintSize \div 2)
  /\ U64Size \in Nat /\ U64Size >= UintSize
  /\ IntMin \in Int /\ IntMin = -(UintSize \div 2)
<1>1. /\ UintSize \in Nat /\ UintSize > 1 /\ UintSize \div 2 \in Nat /\ UintSize \div 2 > 0
      /\ UintSize = 2 * (UintSize \div 2)
  BY NumbersAssumption
<1>2. UintSize * UintSize \in Nat /\ UintSize * UintSize >= UintSize
  BY <1>1
<1> QED BY <1>1, <1>2 DEF U64Size, IntMin

LEMMA OntoType ==
  ASSUME NEW b \in Int, NEW base \in Int, NEW word \in Seq(Int)
  PROVE  Onto(b, word, base) \in Int
<1>1. PICK c : Sums(c, b, word, base) /\ Onto(b, word, base) = c[Len(word)]
  BY SumsExist
<1>2. c \in [0..Len(word) -> Int] /\ Len(word) \in 0..Len(word)
  BY <1>1 DEF Sums
<1> QED BY <1>1, <1>2

LEMMA ModuloIs ==
  ASSUME NEW i \in Int, NEW d \in Nat, d > 0
  PROVE  (i % d) \in 0..d-1 /\ \E j \in Int : i % d = i + (j * d)
<1>1. (i % d) \in 0..d-1 /\ (i % d) = i + ((-(i \div d)) * d) /\ -(i \div d) \in Int
  OBVIOUS
<1> QED BY <1>1

(* ... and so an unsigned int is the number, modulo its width.             *)
LEMMA KeepsItsWidth ==
  ASSUME NEW i \in Int
  PROVE  (i % UintSize) \in UInts /\ \E j \in Int : i % UintSize = i + (j * UintSize)
<1> DEFINE d == UintSize
<1>1. d \in Nat /\ d > 0 /\ UInts = 0..d-1
  BY Widths DEF UInts
<1> HIDE DEF d
<1>2. (i % d) \in 0..d-1 /\ \E j \in Int : i % d = i + (j * d)
  BY <1>1, ModuloIs
<1> QED BY <1>1, <1>2 DEF d

LEMMA ReadingGoesOn ==
  ASSUME NEW w \in Int, NEW power \in Int, NEW digit \in Int, NEW sum \in Int, NEW t \in Int,
         NEW d \in Int, NEW i \in Int, NEW j \in Int, NEW h \in Int,
         NEW power2 \in Int, NEW sum2 \in Int,
         ((((w * 10) + digit) * power) + sum) - t = i * d,
         power2 = (power * 10) + (j * d), sum2 = (sum + (digit * power)) + (h * d)
  PROVE  ((w * power2) + sum2) - t = ((i + (w * j)) + h) * d
OBVIOUS

LEMMA OneDigitRead ==
  ASSUME NEW rem, NEW power, NEW sum, NEW word, WhatIsRead(rem, power, sum, word), rem # <<>>
  PROVE  WhatIsRead(Front(rem), (power * 10) % UintSize, (sum + Last(rem) * power) % UintSize, word)
<1> DEFINE w      == Onto(0, Front(rem), 10)
           t      == Onto(0, word, 10)
           digit  == Last(rem)
           power2 == (power * 10) % UintSize
           sum2   == (sum + digit * power) % UintSize
<1>1. rem \in Seq(Int) /\ power \in Int /\ sum \in Int /\ word \in Seq(Int) /\ UintSize \in Nat /\ UintSize > 1
  BY Widths DEF WhatIsRead, UInts
<1>2. Front(rem) \in Seq(Int) /\ digit \in Int
  BY <1>1, FrontFacts
<1>3. w \in Int /\ t \in Int
  BY <1>1, <1>2, OntoType
<1>4. Onto(0, rem, 10) = (w * 10) + digit
  BY <1>1, OntoLast
<1>5. PICK i \in Int : ((Onto(0, rem, 10) * power) + sum) - t = i * UintSize
  BY DEF WhatIsRead, Congruent
<1> HIDE DEF w, t, digit
<1>6. PICK j \in Int : power2 \in UInts /\ power2 = (power * 10) + (j * UintSize)
  <2> DEFINE z == power * 10
  <2>1. z \in Int
    BY <1>1
  <2>2. power2 = z % UintSize
    OBVIOUS
  <2> HIDE DEF z, power2
  <2>3. z % UintSize \in UInts /\ \E j \in Int : z % UintSize = z + (j * UintSize)
    BY <2>1, KeepsItsWidth
  <2> QED BY <2>2, <2>3 DEF z
<1>7. PICK h \in Int : sum2 \in UInts /\ sum2 = (sum + (digit * power)) + (h * UintSize)
  <2> DEFINE z == sum + (digit * power)
  <2>1. z \in Int
    BY <1>1, <1>2
  <2>2. sum2 = z % UintSize
    OBVIOUS
  <2> HIDE DEF z, sum2
  <2>3. z % UintSize \in UInts /\ \E h \in Int : z % UintSize = z + (h * UintSize)
    BY <2>1, KeepsItsWidth
  <2> QED BY <2>2, <2>3 DEF z
<1> HIDE DEF power2, sum2
<1>8. power2 \in Int /\ sum2 \in Int
  BY <1>1, <1>6, <1>7 DEF UInts
<1>9. ((w * power2) + sum2) - t = ((i + (w * j)) + h) * UintSize
  <2>1. ((((w * 10) + digit) * power) + sum) - t = i * UintSize
    BY <1>4, <1>5
  <2>2. UintSize \in Int
    BY <1>1
  <2> QED BY <1>1, <1>2, <1>3, <1>6, <1>7, <1>8, <2>1, <2>2, ReadingGoesOn
<1>10. (i + (w * j)) + h \in Int
  BY <1>3
<1>11. Congruent((w * power2) + sum2, t)
  BY <1>9, <1>10 DEF Congruent
<1> QED BY <1>1, <1>2, <1>6, <1>7, <1>11 DEF WhatIsRead, w, t, digit, power2, sum2

LEMMA MultipleModulo ==
  ASSUME NEW i \in Int, NEW d \in Nat, d > 0
  PROVE  (i * d) % d = 0
OBVIOUS

LEMMA AllIsRead ==
  ASSUME NEW power, NEW sum, NEW word, WhatIsRead(<<>>, power, sum, word)
  PROVE  AsInt(sum) \in Ints /\ (AsInt(sum) - Worth(word, 10)) % UintSize = 0
<1> DEFINE t == Onto(0, word, 10)
<1>1. power \in Int /\ sum \in 0..UintSize-1 /\ word \in Seq(Int)
  BY Widths DEF WhatIsRead, UInts
<1>2. t \in Int /\ t = Worth(word, 10)
  <2>1. t \in Int
    BY <1>1, OntoType
  <2>2. t = Worth(word, 10)
    BY DEF Worth, Onto
  <2> QED BY <2>1, <2>2
<1>3. Onto(0, <<>>, 10) = 0
  BY OntoNothing
<1>4. PICK i \in Int : ((Onto(0, <<>>, 10) * power) + sum) - t = i * UintSize
  BY DEF WhatIsRead, Congruent
<1> HIDE DEF t
<1>5. sum - t = i * UintSize
  BY <1>1, <1>2, <1>3, <1>4
<1>6. CASE sum \in Ints
  <2>1. (sum - t) % UintSize = 0
    BY <1>5, Widths, MultipleModulo
  <2> QED BY <1>2, <1>6, <2>1 DEF AsInt
<1>7. CASE sum \notin Ints
  <2>1. sum - UintSize \in Ints
    BY <1>1, <1>7, Widths DEF Ints
  <2>2. (sum - UintSize) - t = (i - 1) * UintSize /\ i - 1 \in Int
    BY <1>1, <1>2, <1>5, Widths
  <2>3. ((i - 1) * UintSize) % UintSize = 0
    BY <2>2, Widths, MultipleModulo
  <2> QED BY <1>2, <1>7, <2>1, <2>2, <2>3 DEF AsInt
<1> QED BY <1>6, <1>7

-----------------------------------------------------------------------------
(* The conversions: what is true of each before every digit.               *)
Number(j)  == IF j.fn = "itoa" THEN IF Signed(j) THEN -j.val ELSE AsU64(j.val) ELSE j.val
DivisorOf(j) == IF j.fn = "itoa" THEN Digit(j.base) ELSE j.base
Exempt(j)  == j.fn = "itoa" /\ Signed(j) /\ -j.val \notin Ints

IsWritten(j, rem, more, w, st) ==
  /\ j.fn \in {"itoa", "uitoa", "u64toa"}
  /\ j.fn = "itoa" => j.min = 0
  /\ j.fn # "itoa" => j.base \in 2..16
  /\ Written(rem, w, more, DivisorOf(j), j.min)
  /\ ~Exempt(j) => IsWorth(rem, w, DivisorOf(j), Number(j))
  /\ st = "digits" => (w # <<>> => rem > 0)
  /\ st = "padding" => rem = 0 /\ NoZeroInFront(w, j.min)

IsRead(j, rem, power, sum, st) ==
  st = "digits" /\ WhatIsRead(rem, power, sum, j.text)

NumberInv ==
  /\ ConversionsAreExact
  /\ stage \in {"idle", "digits", "padding", "done"}
  /\ stage \in {"digits", "padding"} =>
       \/ job.fn = "atoi" /\ IsRead(job, left, pow, out, stage)
       \/ IsWritten(job, left, pad, out, stage)

LEMMA NothingWritten ==
  ASSUME NEW j, NEW rem \in Nat, NEW more \in Nat, NEW st,
         j.fn \in {"itoa", "uitoa", "u64toa"},
         j.fn = "itoa" => j.min = 0, j.fn # "itoa" => j.base \in 2..16,
         j.min = more, ~Exempt(j) => rem = Number(j), st = "digits"
  PROVE  IsWritten(j, rem, more, <<>>, st)
<1> DEFINE d == DivisorOf(j)
<1>1. d \in 2..16
  BY DEF DivisorOf, Digit
<1>2. Written(rem, <<>>, more, d, j.min)
  <2>1. <<>> \in Seq(Int) /\ Len(<<>>) = 0
    OBVIOUS
  <2> HIDE DEF d
  <2> QED BY <1>1, <2>1 DEF Written
<1>3. Onto(rem, Reverse(<<>>), d) = rem
  <2>1. Reverse(<<>>) = <<>>
    BY DEF Reverse
  <2> QED BY <1>1, <2>1, OntoNothing
<1>4. ~Exempt(j) => IsWorth(rem, <<>>, d, Number(j))
  BY <1>3 DEF IsWorth
<1> QED BY <1>2, <1>4 DEF IsWritten

LEMMA ItoaStarts ==
  ASSUME NEW val \in Ints, NEW base \in {10, 16, 0}, itoa(val, base)
  PROVE  NumberInv'
<1>1. /\ job' = [fn |-> "itoa", val |-> val, base |-> base, min |-> 0, text |-> <<>>]
      /\ stage' = "digits" /\ pad' = 0 /\ out' = <<>>
      /\ left' \in IF Signed(job') THEN Negated(val) ELSE {AsU64(val)}
  BY DEF itoa, Start
<1>2. val \in Int /\ U64Size \in Nat /\ U64Size > 0 /\ AsU64(val) \in Nat /\ AsU64(-val) \in Nat
  BY Widths, ModuloIs DEF AsU64, Ints
<1>3. left' \in Nat
  BY <1>1, <1>2 DEF Negated
<1>4. ASSUME ~Exempt(job')
      PROVE  left' = Number(job')
  <2>1. CASE Signed(job')
    <3>1. val < 0 /\ -val \in Ints
      BY <1>1, <1>4, <2>1 DEF Exempt, Signed
    <3>2. -val \in 0..U64Size-1
      BY <1>2, <3>1, Widths DEF Ints
    <3>3. AsU64(-val) = -val
      BY <1>2, <3>2 DEF AsU64
    <3>4. left' = AsU64(-val)
      BY <1>1, <2>1, <3>1 DEF Negated
    <3> QED BY <1>1, <2>1, <3>3, <3>4 DEF Number
  <2>2. CASE ~Signed(job')
    BY <1>1, <2>2 DEF Number
  <2> QED BY <2>1, <2>2
<1>5. IsWritten(job', left', pad', out', stage')
  BY <1>1, <1>3, <1>4, NothingWritten
<1> QED BY <1>1, <1>5 DEF NumberInv, ConversionsAreExact

LEMMA UitoaStarts ==
  ASSUME NEW fn \in {"uitoa", "u64toa"}, NEW val \in Nat, NEW base \in Nat, NEW min \in Nat,
         uitoa(fn, val, base, min)
  PROVE  NumberInv'
<1>1. /\ job' = [fn |-> fn, val |-> val, base |-> base, min |-> min, text |-> <<>>]
      /\ stage' = IF base \in 2..16 THEN "digits" ELSE "done"
      /\ pad' = min /\ out' = <<>> /\ left' = val
  BY DEF uitoa, Start
<1>2. CASE base \in 2..16
  <2>1. left' = Number(job')
    BY <1>1 DEF Number
  <2>2. IsWritten(job', left', pad', out', stage')
    BY <1>1, <1>2, <2>1, NothingWritten
  <2> QED BY <1>1, <1>2, <2>2 DEF NumberInv, ConversionsAreExact
<1>3. CASE base \notin 2..16
  BY <1>1, <1>3 DEF NumberInv, ConversionsAreExact
<1> QED BY <1>2, <1>3

LEMMA AtoiStarts ==
  ASSUME NEW n \in Nat, NEW word \in [1..n -> 0..9], atoi(word)
  PROVE  NumberInv'
<1>1. /\ job' = [fn |-> "atoi", val |-> 0, base |-> 10, min |-> 0, text |-> word]
      /\ stage' = "digits" /\ pow' = 1 /\ out' = 0 /\ left' = word
  BY DEF atoi, Start
<1>2. word \in Seq(Int)
  OBVIOUS
<1>3. Onto(0, word, 10) \in Int
  BY <1>2, OntoType
<1> DEFINE t == Onto(0, word, 10)
<1>4. Congruent((t * 1) + 0, t)
  <2> HIDE DEF t
  <2>1. ((t * 1) + 0) - t = 0 * UintSize
    BY <1>3, Widths DEF t
  <2> QED BY <2>1 DEF Congruent
<1>5. WhatIsRead(word, 1, 0, word)
  BY <1>2, <1>4, Widths DEF WhatIsRead, UInts
<1>6. IsRead(job', left', pow', out', stage')
  BY <1>1, <1>5 DEF IsRead
<1> QED BY <1>1, <1>6 DEF NumberInv, ConversionsAreExact

LEMMA AbsIsExact ==
  ASSUME NEW val \in Ints, abs(val)
  PROVE  NumberInv'
<1>1. /\ job' = [fn |-> "abs", val |-> val, base |-> 0, min |-> 0, text |-> <<>>]
      /\ stage' = "done" /\ out' = IF val < 0 THEN -val ELSE val
  BY DEF abs, Start
<1>2. val \in Int /\ out' >= 0 /\ out' \in {val, -val}
  BY <1>1, Widths DEF Ints
<1> QED BY <1>1, <1>2 DEF NumberInv, ConversionsAreExact

LEMMA EmitDigitIsExact ==
  ASSUME NumberInv, EmitDigit
  PROVE  NumberInv'
<1>1. /\ stage = "digits" /\ job.fn # "atoi" /\ job' = job
      /\ out' = Append(out, left % Divisor) /\ left' = left \div Divisor
      /\ pad' = IF pad > 0 THEN pad - 1 ELSE 0
      /\ stage' = IF left' = 0 THEN "padding" ELSE "digits"
  BY DEF EmitDigit
<1>2. IsWritten(job, left, pad, out, stage)
  BY <1>1 DEF NumberInv
<1> DEFINE d == DivisorOf(job)
           m == job.min
<1>3. Divisor = d
  BY DEF Divisor, DivisorOf
<1>4. /\ Written(left, out, pad, d, m) /\ (out # <<>> => left > 0)
      /\ (~Exempt(job) => IsWorth(left, out, d, Number(job)))
  BY <1>1, <1>2 DEF IsWritten
<1>5. out' = Append(out, left % d) /\ left' = left \div d
  BY <1>1, <1>3
<1> HIDE DEF d, m
<1>6. /\ Written(left', out', pad', d, m)
      /\ \A number : IsWorth(left, out, d, number) => IsWorth(left', out', d, number)
      /\ (left' = 0 /\ (out # <<>> => left > 0)) => NoZeroInFront(out', m)
  BY <1>1, <1>4, <1>5, OneDigitMore
<1>7. left' \in Nat
  BY <1>6 DEF Written
<1>8. IsWritten(job, left', pad', out', stage')
  BY <1>1, <1>2, <1>4, <1>6, <1>7 DEF IsWritten, d, m
<1> QED BY <1>1, <1>8 DEF NumberInv, ConversionsAreExact

LEMMA PadAndReverseIsExact ==
  ASSUME NumberInv, PadAndReverse
  PROVE  NumberInv'
<1>1. stage = "padding" /\ job' = job /\ left' = left
  BY DEF PadAndReverse
<1>2. IsWritten(job, left, pad, out, stage)
  BY <1>1 DEF NumberInv, IsRead
<1> DEFINE d == DivisorOf(job)
           m == job.min
<1>3. /\ left = 0 /\ Written(0, out, pad, d, m) /\ NoZeroInFront(out, m)
      /\ (~Exempt(job) => IsWorth(0, out, d, Number(job)))
  BY <1>1, <1>2 DEF IsWritten
<1>4. CASE pad > 0 /\ out' = Append(out, 0) /\ pad' = pad - 1 /\ UNCHANGED stage
  <2> HIDE DEF d, m
  <2>1. /\ Written(0, out', pad', d, m) /\ NoZeroInFront(out', m)
        /\ \A number : IsWorth(0, out, d, number) => IsWorth(0, out', d, number)
    BY <1>3, <1>4, OneZeroMore
  <2>2. IsWritten(job, left', pad', out', stage')
    BY <1>1, <1>2, <1>3, <1>4, <2>1 DEF IsWritten, d, m
  <2> QED BY <1>1, <1>4, <2>2 DEF NumberInv, ConversionsAreExact
<1>5. CASE pad = 0 /\ Finish(out) /\ stage' = "done" /\ UNCHANGED pad
  <2>1. out \in Seq(Int) /\ Written(0, out, 0, d, m)
    BY <1>3, <1>5 DEF Written
  <2>2. Reverse(out) \in Seq(Int)
    BY <2>1, ReverseFacts
  <2>3. ~Exempt(job) => Writes(Reverse(out), Number(job), d, m)
    <3> HIDE DEF d, m
    <3> QED BY <1>3, <2>1, WrittenOut
  <2>4. CASE job.fn = "itoa" /\ Signed(job)
    <3>1. out' = <<"-">> \o Reverse(out)
      BY <1>5, <2>4 DEF Finish
    <3>2. out'[1] = "-" /\ Tail(out') = Reverse(out)
      <4> DEFINE w == Reverse(out)
      <4>1. w \in Seq(Int) /\ out' = <<"-">> \o w
        BY <2>2, <3>1
      <4> HIDE DEF w
      <4>2. (<<"-">> \o w)[1] = "-" /\ Tail(<<"-">> \o w) = w
        BY <4>1, SignInFront
      <4> QED BY <4>1, <4>2 DEF w
    <3>3. d = 10 /\ m = 0
      BY <1>2, <2>4 DEF IsWritten, DivisorOf, Digit, Signed
    <3>4. -job.val \in Ints => Writes(Tail(out'), -job.val, 10, 0)
      BY <2>3, <2>4, <3>2, <3>3 DEF Exempt, Number
    <3> QED BY <1>1, <1>5, <2>4, <3>2, <3>4 DEF NumberInv, ConversionsAreExact
  <2>5. CASE ~(job.fn = "itoa" /\ Signed(job))
    <3>1. out' = Reverse(out)
      <4>1. out' = <<>> \o Reverse(out)
        BY <1>5, <2>5 DEF Finish
      <4> QED BY <2>2, <4>1, NothingBefore
    <3>2. Writes(out', Number(job), d, m)
      BY <2>3, <2>5, <3>1 DEF Exempt
    <3>3. CASE job.fn = "itoa"
      <4>1. Writes(out', AsU64(job.val), Digit(job.base), 0)
        BY <1>2, <2>5, <3>2, <3>3 DEF Number, DivisorOf, IsWritten
      <4> QED BY <1>1, <1>5, <2>5, <3>3, <4>1 DEF NumberInv, ConversionsAreExact, Signed
    <3>4. CASE job.fn \in {"uitoa", "u64toa"}
      <4>1. Writes(out', job.val, job.base, job.min) /\ job.base \in 2..16
        BY <1>2, <3>2, <3>4 DEF Number, DivisorOf, IsWritten
      <4> QED BY <1>1, <1>5, <3>4, <4>1 DEF NumberInv, ConversionsAreExact
    <3> QED BY <1>2, <3>3, <3>4 DEF IsWritten
  <2> QED BY <2>4, <2>5
<1> QED BY <1>4, <1>5 DEF PadAndReverse

LEMMA ReadDigitIsExact ==
  ASSUME NumberInv, ReadDigit
  PROVE  NumberInv'
<1>1. stage = "digits" /\ job.fn = "atoi" /\ job' = job
  BY DEF ReadDigit
<1>2. WhatIsRead(left, pow, out, job.text)
  BY <1>1 DEF NumberInv, IsRead, IsWritten
<1>3. CASE left # <<>>
  <2>1. /\ out' = (out + Last(left) * pow) % UintSize /\ pow' = (pow * 10) % UintSize
        /\ left' = Front(left) /\ stage' = stage
    BY <1>3 DEF ReadDigit
  <2>2. WhatIsRead(left', pow', out', job.text)
    BY <1>2, <1>3, <2>1, OneDigitRead
  <2> QED BY <1>1, <2>1, <2>2 DEF NumberInv, IsRead, ConversionsAreExact
<1>4. CASE left = <<>>
  <2>1. out' = AsInt(out) /\ stage' = "done"
    BY <1>4 DEF ReadDigit
  <2>2. out' \in Ints /\ (out' - Worth(job.text, 10)) % UintSize = 0
    BY <1>2, <1>4, <2>1, AllIsRead
  <2> QED BY <1>1, <2>1, <2>2 DEF NumberInv, ConversionsAreExact
<1> QED BY <1>3, <1>4

LEMMA NumberInvariance ==
  ASSUME NumberInv, [Next]_vars
  PROVE  NumberInv'
<1>1. CASE UNCHANGED converting
  BY <1>1 DEF converting, NumberInv, ConversionsAreExact
<1>2. ASSUME Convert
      PROVE  NumberInv'
  <2>1. ASSUME NEW val \in Ints, abs(val)
        PROVE  NumberInv'
    BY <2>1, AbsIsExact
  <2>2. ASSUME NEW val \in Ints, NEW base \in {10, 16, 0}, itoa(val, base)
        PROVE  NumberInv'
    BY <2>2, ItoaStarts
  <2>3. ASSUME NEW val \in UInts, NEW base \in Bases, NEW min \in 0..MaxMin,
               uitoa("uitoa", val, base, min)
        PROVE  NumberInv'
    <3>1. val \in Nat /\ base \in Nat /\ min \in Nat
      BY NumbersAssumption DEF UInts
    <3> QED BY <2>3, <3>1, UitoaStarts
  <2>4. ASSUME NEW val \in U64s, NEW base \in Bases, NEW min \in 0..MaxMin,
               uitoa("u64toa", val, base, min)
        PROVE  NumberInv'
    <3>1. val \in Nat /\ base \in Nat /\ min \in Nat
      BY NumbersAssumption DEF U64s
    <3> QED BY <2>4, <3>1, UitoaStarts
  <2>5. ASSUME NEW n \in 0..MaxText, NEW word \in [1..n -> 0..9], atoi(word)
        PROVE  NumberInv'
    <3>1. n \in Nat
      BY NumbersAssumption
    <3> QED BY <2>5, <3>1, AtoiStarts
  <2> QED BY <1>2, <2>1, <2>2, <2>3, <2>4, <2>5 DEF Convert
<1>3. ASSUME NumberStep
      PROVE  NumberInv'
  BY <1>3, EmitDigitIsExact, PadAndReverseIsExact, ReadDigitIsExact DEF NumberStep
<1>4. CASE TakeNumber
  BY <1>4 DEF TakeNumber, NumberInv, ConversionsAreExact
<1> QED
  BY <1>1, <1>2, <1>3, <1>4 DEF Next, Step, vars, CallStrtok, CallStrtok_r

(* Every number is written with its own digits and a sign only where one   *)
(* is needed, and read modulo the width of int, for every width, number,   *)
(* base and text; the smallest int is exempt (itoa.c:25-60, uitoa.c:22-46, *)
(* u64toa.c:22-46, atoi.c:22-32, abs.c:22-25).                             *)
THEOREM NumbersAreExact == Spec => []ConversionsAreExact
<1>1. Init => NumberInv
  BY DEF Init, NumberInit, NumberInv, ConversionsAreExact
<1>2. NumberInv /\ [Next]_vars => NumberInv'
  BY NumberInvariance
<1>3. NumberInv => ConversionsAreExact
  BY DEF NumberInv
<1> QED BY <1>1, <1>2, <1>3, PTL DEF Spec

-----------------------------------------------------------------------------
(* The types.  A call's pointers stay within the memory, or one behind it: *)
(* where it is in its loop its invariant says so, and it returns with what *)
(* it has.                                                                 *)
Places  == {"ready", "loop", "pad", "copy", "accept", "end", "done", "returned"}
Results == (-255..255) \cup (0..Size)

LocalsType ==
  /\ call.fn \in Functions \cup {"none"} /\ at \in Places
  /\ p \in 0..Size+1 /\ q \in 0..Size+1 /\ k \in 0..Size
  /\ result \in Results

LEMMA DifferenceType ==
  ASSUME NEW m \in Memories, NEW s, NEW t, NEW n \in Int,
         \A i \in 0..n : s + i \in Cells /\ t + i \in Cells
  PROVE  Difference(m, s, t, 0..n) \in Results
<1> DEFINE D == {i \in 0..n : m[s + i] # m[t + i]}
<1>1. Difference(m, s, t, 0..n) = IF D = {} THEN 0 ELSE m[s + Min(D)] - m[t + Min(D)]
  BY DEF Difference
<1>2. D \subseteq Nat /\ D \subseteq 0..n
  OBVIOUS
<1> HIDE DEF D
<1>3. D # {} => Min(D) \in 0..n
  BY <1>2, LeastExists
<1>4. D # {} => m[s + Min(D)] \in 0..255 /\ m[t + Min(D)] \in 0..255
  <2>1. Bytes \subseteq 0..255
    BY DEF Bytes, NUL
  <2>2. \A c \in Cells : m[c] \in 0..255
    BY <2>1 DEF Memories
  <2> QED BY <1>3, <2>2
<1>5. \A a, b \in 0..255 : a - b \in Results
  BY DEF Results
<1>6. 0 \in Results
  BY DEF Results
<1> QED BY <1>1, <1>4, <1>5, <1>6

LEMMA FirstInType ==
  ASSUME NEW A, A \subseteq Cells
  PROVE  FirstIn(A) \in 0..Size
<1>1. A \subseteq Nat /\ A \subseteq 0..Size
  OBVIOUS
<1>2. A # {} => Min(A) \in A
  BY <1>1, LeastExists
<1>3. FirstIn(A) = IF A = {} THEN 0 ELSE Min(A)
  BY DEF FirstIn, NULL
<1>4. 0 \in 0..Size
  OBVIOUS
<1> QED BY <1>1, <1>2, <1>3, <1>4

LEMMA AnswerType ==
  ASSUME Called, before \in Memories
  PROVE  Answer \in Results
<1>1. Str1 \in Cells /\ Str2 \in Cells /\ Num \in 0..Size
  BY Contracts
<1>2. call.fn \in OneString => Len1 \in 0..Size-Str1 /\ before[Str1 + Len1] = NUL
  BY Contracts, FirstString
<1>3. call.fn \in TwoStrings => Len2 \in 0..Size-Str2 /\ NUL \notin CharsAt(before, Str2)
  BY Contracts, SecondString
<1>4. CASE call.fn = "strlen"
  BY <1>1, <1>2, <1>4 DEF Answer, Len1, OneString, Results
<1>5. CASE call.fn = "memcmp"
  <2>1. Str1 + Num <= Size + 1 /\ Str2 + Num <= Size + 1
    BY <1>5 DEF Called, Legal, Copiers, Strings, Pairs, Fits
  <2>2. \A i \in 0..Num-1 : Str1 + i \in Cells /\ Str2 + i \in Cells
    BY <1>1, <2>1
  <2>3. Difference(before, Str1, Str2, 0..Num-1) \in Results
    BY <1>1, <2>2, DifferenceType
  <2> QED BY <1>5, <2>3 DEF Answer, Str1, Str2, Num
<1>6. CASE call.fn = "strcmp"
  <2>1. Len1 \in Int /\ Len2 \in Int /\ Len1 \in 0..Size-Str1 /\ Len2 \in 0..Size-Str2
    BY <1>1, <1>2, <1>3, <1>6 DEF OneString, TwoStrings, Pairs
  <2> DEFINE n == Min({Len1, Len2})
  <2>2. n \in Int /\ n <= Len1 /\ n <= Len2
    BY <2>1, MinOfTwo
  <2> HIDE DEF n
  <2>3. \A i \in 0..n : Str1 + i \in Cells /\ Str2 + i \in Cells
    BY <1>1, <2>1, <2>2
  <2>4. Difference(before, Str1, Str2, 0..n) \in Results
    BY <2>2, <2>3, DifferenceType
  <2> QED BY <1>6, <2>4 DEF Answer, n, Str1, Str2, Len1, Len2
<1>7. CASE call.fn = "lfind"
  <2>1. {a \in Str1..Size : before[a] = call.c} \subseteq Cells
    BY <1>1
  <2>2. Answer = FirstIn({a \in Str1..Size : before[a] = call.c})
    BY <1>7 DEF Answer, Str1
  <2> QED BY <2>1, <2>2, FirstInType DEF Results
<1>8. CASE call.fn \in {"strchr", "strpbrk", "strstr"}
  <2>1. Str1..Str1+Len1 \subseteq Cells /\ Str1..Str1+Len1-1 \subseteq Cells
    BY <1>1, <1>2, <1>8 DEF OneString, Pairs
  <2>2. \E A : A \subseteq Cells /\ Answer = FirstIn(A)
    <3>1. CASE call.fn = "strchr"
      <4>1. Answer = FirstIn({a \in Str1..Str1+Len1 : before[a] = call.c})
        BY <3>1 DEF Answer, Str1, Len1
      <4> QED BY <2>1, <4>1
    <3>2. CASE call.fn = "strpbrk"
      <4>1. Answer = FirstIn({a \in Str1..Str1+Len1-1 : before[a] \in CharsAt(before, Str2)})
        BY <3>2 DEF Answer, Str1, Str2, Len1
      <4> QED BY <2>1, <4>1
    <3>3. CASE call.fn = "strstr"
      <4>1. Answer = FirstIn({a \in Str1..Str1+Len1-1 : Equal(before, a, Str2, Len2)})
        BY <3>3 DEF Answer, Str1, Str2, Len1, Len2
      <4> QED BY <2>1, <4>1
    <3> QED BY <1>8, <3>1, <3>2, <3>3
  <2> QED BY <2>2, FirstInType DEF Results
<1>9. CASE call.fn \in {"strspn", "strcspn"}
  <2>1. /\ Len1 \in 0..Size-Str1 /\ before[Str1 + Len1] = NUL
        /\ NUL \notin CharsAt(before, Str2)
    BY <1>2, <1>3, <1>9 DEF OneString, TwoStrings, Pairs
  <2>2. \E A : A \subseteq Str1..Size /\ A # {} /\ Answer = Min(A) - Str1
    <3>1. Str1 + Len1 \in Str1..Size
      BY <1>1, <2>1
    <3>2. CASE call.fn = "strspn"
      <4>1. Answer = Min({a \in Str1..Size : before[a] \notin CharsAt(before, Str2)}) - Str1
        BY <3>2 DEF Answer, Str1, Str2, Span
      <4> QED BY <2>1, <3>1, <4>1
    <3>3. CASE call.fn = "strcspn"
      <4>1. Answer = Min({a \in Str1..Size : before[a] \in CharsAt(before, Str2) \cup {NUL}}) - Str1
        BY <3>3 DEF Answer, Str1, Str2, CSpan
      <4> QED BY <2>1, <3>1, <4>1
    <3> QED BY <1>9, <3>2, <3>3
  <2>3. PICK A : A \subseteq Str1..Size /\ A # {} /\ Answer = Min(A) - Str1
    BY <2>2
  <2>4. A \subseteq Nat
    BY <1>1, <2>3
  <2>5. Min(A) \in Str1..Size
    BY <2>3, <2>4, LeastExists
  <2> QED BY <1>1, <2>3, <2>5 DEF Results
<1>10. CASE call.fn \notin {"strlen", "memcmp", "strcmp", "lfind", "strchr", "strpbrk",
                            "strstr", "strspn", "strcspn"}
  <2>1. Answer = Str1
    BY <1>10 DEF Answer, Str1
  <2> QED BY <1>1, <2>1 DEF Results
<1> QED BY <1>4, <1>5, <1>6, <1>7, <1>8, <1>9, <1>10

(* What a loop's invariant says of its pointers; the others do not move.   *)
KeepsQ == {"memset", "lfind", "strlen", "strchr", "strstr"}
KeepsK == {"strcmp", "strcpy", "strcat", "strchr", "strpbrk", "strreverse"}

PointersIn ==
  /\ p \in 0..Size+1
  /\ call.fn \in KeepsQ \/ at = "pad" \/ q \in 0..Size+1
  /\ call.fn \in KeepsK \/ k \in 0..Size
  /\ at \in Places

LEMMA RunningPointers == Called /\ Running => PointersIn
<1> SUFFICES ASSUME Called, Running
             PROVE  PointersIn
  OBVIOUS
<1>1. /\ Str1 \in Cells /\ Str2 \in Cells /\ Num \in 0..Size /\ Size \in Nat
      /\ call.fn \in Functions
  BY Contracts DEF Called
<1>2. call.fn \in OneString => Len1 \in 0..Size-Str1
  BY Contracts, FirstString
<1>3. call.fn \in TwoStrings => Len2 \in 0..Size-Str2
  BY Contracts, SecondString
<1>4. CASE call.fn \in {"memcpy", "memmove", "memset", "memcmp"}
  <2>1. Str1 + Num <= Size + 1 /\ (call.fn # "memset" => Str2 + Num <= Size + 1)
    BY <1>4 DEF Called, Legal, Copiers, Strings, Pairs, Fits
  <2> QED
    BY <1>1, <1>4, <2>1 DEF Running, MemcpyInv, MemmoveInv, MemsetInv, MemcmpInv,
       PointersIn, KeepsQ, KeepsK, Places
<1>5. CASE call.fn \in {"lfind", "strlen", "strcmp"}
  BY <1>1, <1>5 DEF Running, LfindInv, StrlenInv, StrcmpInv, PointersIn, KeepsQ, KeepsK, Places
<1>6. CASE call.fn \in {"strcpy", "strncpy", "strcat"}
  <2>1. Len2 \in 0..Size-Str2
    BY <1>3, <1>6 DEF TwoStrings
  <2>2. CASE call.fn = "strcpy"
    <3>1. Str1 + Len2 + 1 <= Size + 1
      BY <1>1, <2>1, <2>2 DEF Called, Legal, Copiers, Strings, Pairs, Fits, Len2, Str1, Str2
    <3> QED BY <1>1, <2>1, <2>2, <3>1 DEF Running, StrcpyInv, PointersIn, KeepsK, Places
  <2>3. CASE call.fn = "strncpy"
    <3>1. Str1 + Num <= Size + 1
      BY <2>3 DEF Called, Legal, Copiers, Strings, Pairs, Fits
    <3> QED BY <1>1, <2>1, <2>3, <3>1 DEF Running, StrncpyInv, PointersIn, Places
  <2>4. CASE call.fn = "strcat"
    <3>1. Len1 \in 0..Size-Str1
      BY <1>2, <2>4 DEF OneString
    <3>2. Str1 + Len1 + Len2 + 1 <= Size + 1
      BY <1>1, <2>1, <2>4, <3>1
         DEF Called, Legal, Copiers, Strings, Pairs, Fits, Len1, Len2, Str1, Str2
    <3> QED BY <1>1, <2>1, <2>4, <3>1, <3>2 DEF Running, StrcatInv, PointersIn, KeepsK, Places
  <2> QED BY <1>6, <2>2, <2>3, <2>4
<1>7. CASE call.fn \in {"strchr", "strspn", "strcspn", "strpbrk", "strstr", "strreverse"}
  <2>1. Len1 \in 0..Size-Str1 /\ (call.fn \in {"strpbrk", "strstr"} => Len2 \in 0..Size-Str2)
    BY <1>2, <1>3, <1>7 DEF OneString, TwoStrings, Pairs
  <2>2. CASE call.fn \in {"strchr", "strspn", "strcspn"}
    BY <1>1, <2>1, <2>2 DEF Running, StrchrInv, StrspnInv, StrcspnInv, PointersIn, KeepsQ, KeepsK, Places
  <2>3. CASE call.fn = "strpbrk"
    BY <1>1, <2>1, <2>3 DEF Running, StrpbrkInv, PointersIn, KeepsK, Places
  <2>4. CASE call.fn = "strstr"
    BY <1>1, <2>1, <2>4 DEF Running, StrstrInv, PointersIn, KeepsQ, Places
  <2>5. CASE call.fn = "strreverse"
    BY <1>1, <2>1, <2>5 DEF Running, StrreverseInv, PointersIn, KeepsK, Places
  <2> QED BY <1>7, <2>2, <2>3, <2>4, <2>5
<1> QED
  BY <1>1, <1>4, <1>5, <1>6, <1>7 DEF Functions, Copiers, Strings, Pairs

LEMMA StepLocals ==
  ASSUME StringInv, LocalsType, StringStep
  PROVE  LocalsType'
<1>1. /\ at \notin {"ready", "returned"} /\ call' = call /\ before' = before
      /\ at' = "returned" => p' = p /\ q' = q /\ k' = k
      /\ at' # "returned" => result' = result /\ at' # "ready"
  BY DEF StringStep, memcpy, memmove, memset, memcmp, lfind, strlen, strcmp, strcpy,
     strncpy, strcat, strchr, strspn, strcspn, strpbrk, strstr, strreverse,
     In, Go, Read, Return
<1>2. Called /\ Running /\ PointersIn /\ before \in Memories
  BY <1>1, RunningPointers DEF StringInv
<1>3. StringInv'
  BY StepKeeps
<1>4. CASE at' = "returned"
  <2>1. result' = Answer' /\ Answer' = Answer
    BY <1>1, <1>3, <1>4 DEF StringInv, CallsKeepTheirPromise, Answer
  <2> QED BY <1>1, <1>2, <1>4, <2>1, AnswerType DEF LocalsType, Places
<1>5. CASE at' # "returned"
  <2>1. PointersIn'
    <3>1. Called' /\ Running'
      BY <1>1, <1>3, <1>5 DEF StringInv
    <3> QED BY <3>1, RunningPointers, PTL
  <2>2. ASSUME call.fn \in KeepsQ
        PROVE  q' = q
    BY <2>2, <1>5 DEF KeepsQ, StringStep, memcpy, memmove, memset, memcmp, lfind, strlen,
       strcmp, strcpy, strncpy, strcat, strchr, strspn, strcspn, strpbrk, strstr, strreverse,
       In, Go, Read, Return
  <2>3. ASSUME call.fn \in KeepsK
        PROVE  k' = k
    BY <2>3, <1>5 DEF KeepsK, StringStep, memcpy, memmove, memset, memcmp, lfind, strlen,
       strcmp, strcpy, strncpy, strcat, strchr, strspn, strcspn, strpbrk, strstr, strreverse,
       In, Go, Read, Return
  <2>4. ASSUME at' = "pad"
        PROVE  q' \in 0..Size+1
    <3>1. strncpy
      BY <1>5, <2>4 DEF StringStep, memcpy, memmove, memset, memcmp, lfind, strlen,
         strcmp, strcpy, strcat, strchr, strspn, strcspn, strpbrk, strstr, strreverse,
         In, Go, Read, Return
    <3>2. CASE at = "pad"
      BY <3>1, <3>2 DEF strncpy, In, Go, Return, LocalsType
    <3>3. CASE at = "loop"
      <4>1. call.fn = "strncpy" /\ q' = q + 1
        BY <2>4, <3>1, <3>3 DEF strncpy, In, Go, Return
      <4>2. Len2 \in 0..Size-Str2 /\ Str2 \in Cells
        BY <1>2, <4>1, Contracts, SecondString DEF TwoStrings
      <4>3. q = Str2 + (Num - k) /\ Num - k <= Len2 /\ Num - k \in Nat
        BY <1>2, <3>3, <4>1, Contracts DEF Running, StrncpyInv
      <4> QED BY <4>1, <4>2, <4>3
    <3> QED BY <3>1, <3>2, <3>3 DEF strncpy, In
  <2>5. q' \in 0..Size+1
    BY <1>1, <2>1, <2>2, <2>4 DEF PointersIn, LocalsType
  <2>6. k' \in 0..Size
    BY <1>1, <2>1, <2>3 DEF PointersIn, LocalsType
  <2> QED BY <1>1, <1>5, <2>1, <2>5, <2>6 DEF PointersIn, LocalsType
<1> QED BY <1>4, <1>5

LEMMA CallLocals ==
  ASSUME StringInv, LocalsType, CallFunction
  PROVE  LocalsType'
<1>1. PICK f \in Functions, s \in Cells, t \in Cells, n \in 0..Size, c \in Chars \cup {NUL} :
        /\ Legal(f, mem, s, t, n, c)
        /\ call' = [fn |-> f, s |-> s, t |-> t, n |-> n, c |-> c]
        /\ p' = s
        /\ q' = IF f = "strreverse" THEN s + Length(mem, s) - 1 ELSE t
        /\ k' = CASE f = "memmove" -> (IF s < t THEN 0 ELSE n)
                  [] f = "strstr"  -> Length(mem, t)
                  [] OTHER         -> n
  BY DEF CallFunction
<1>2. at' = "loop" /\ result' = result
  BY DEF CallFunction
<1>3. q' \in 0..Size+1
  <2>1. CASE f = "strreverse"
    <3>1. Terminated(mem, s)
      BY <1>1, <2>1, LegalStrings DEF OneString
    <3>2. Length(mem, s) \in 0..Size-s
      BY <3>1, LengthFacts
    <3> QED BY <1>1, <2>1, <3>2
  <2> QED BY <1>1, <2>1
<1>4. k' \in 0..Size
  <2>1. CASE f = "strstr"
    <3>1. Terminated(mem, t)
      BY <1>1, <2>1, LegalStrings DEF TwoStrings, Pairs
    <3>2. Length(mem, t) \in 0..Size-t
      BY <3>1, LengthFacts
    <3> QED BY <1>1, <2>1, <3>2
  <2>2. CASE f # "strstr"
    <3>1. k' \in {0, n}
      BY <1>1, <2>2
    <3> QED BY <3>1
  <2> QED BY <2>1, <2>2
<1>5. p' \in 0..Size+1 /\ call'.fn \in Functions
  BY <1>1
<1> QED BY <1>2, <1>3, <1>4, <1>5 DEF LocalsType, Places

LEMMA LocalsNext == StringInv /\ LocalsType /\ [Next]_vars => LocalsType'
<1> SUFFICES ASSUME StringInv, LocalsType, [Next]_vars
             PROVE  LocalsType'
  OBVIOUS
<1>1. CASE CallFunction
  BY <1>1, CallLocals
<1>2. CASE StringStep
  BY <1>2, StepLocals
<1>3. CASE CallStrtok \/ CallStrtok_r \/ UNCHANGED <<mem, locals>>
  <2>1. call' = call /\ at' = at /\ p' = p /\ q' = q /\ k' = k /\ result' = result
    BY <1>3 DEF CallStrtok, CallStrtok_r, locals
  <2> QED BY <2>1 DEF LocalsType
<1>4. CASE TakeResult
  BY <1>4 DEF TakeResult, LocalsType, NoCall, NULL, Places, Results
<1> QED
  BY <1>1, <1>2, <1>3, <1>4 DEF Next, Step, vars

(* The conversions: min never goes below 0, and pow is an unsigned int.    *)
NumberType ==
  /\ job.fn \in {"none", "itoa", "uitoa", "u64toa", "atoi", "abs"}
  /\ pad \in 0..MaxMin /\ pow \in UInts
  /\ stage \in {"idle", "digits", "padding", "done"}

LEMMA NumberTypeNext == NumberType /\ [Next]_vars => NumberType'
<1> SUFFICES ASSUME NumberType, [Next]_vars
             PROVE  NumberType'
  OBVIOUS
<1>1. MaxMin \in Nat /\ 0 \in 0..MaxMin
  BY NumbersAssumption
<1>2. 0 \in UInts /\ 1 \in UInts /\ \A n \in Nat : n % UintSize \in UInts
  BY Widths DEF UInts
<1>3. CASE UNCHANGED converting
  BY <1>3 DEF converting, NumberType
<1>4. CASE Convert
  <2>1. ASSUME NEW val, NEW base, itoa(val, base)
        PROVE  NumberType'
    BY <1>1, <1>2, <2>1 DEF itoa, Start, NumberType
  <2>2. ASSUME NEW fn \in {"uitoa", "u64toa"}, NEW val, NEW base, NEW min \in 0..MaxMin,
               uitoa(fn, val, base, min)
        PROVE  NumberType'
    BY <1>1, <1>2, <2>2 DEF uitoa, Start, NumberType
  <2>3. ASSUME NEW word, atoi(word)
        PROVE  NumberType'
    BY <1>1, <1>2, <2>3 DEF atoi, Start, NumberType
  <2>4. ASSUME NEW val, abs(val)
        PROVE  NumberType'
    BY <2>4 DEF abs, Start, NumberType
  <2> QED BY <1>4, <2>1, <2>2, <2>3, <2>4 DEF Convert
<1>5. CASE EmitDigit \/ PadAndReverse
  BY <1>1, <1>5 DEF EmitDigit, PadAndReverse, NumberType
<1>6. CASE ReadDigit
  <2>1. pow * 10 \in Nat
    BY Widths DEF NumberType, UInts
  <2>2. pow' \in UInts
    BY <1>2, <1>6, <2>1 DEF ReadDigit, NumberType
  <2> QED BY <1>6, <2>2 DEF ReadDigit, NumberType
<1>7. CASE TakeNumber
  BY <1>1, <1>2, <1>7 DEF TakeNumber, NumberType, NoJob
<1> QED
  BY <1>3, <1>4, <1>5, <1>6, <1>7 DEF Next, Step, NumberStep, vars, CallStrtok, CallStrtok_r

(* The pointers of every function stay within the memory or one cell       *)
(* behind it, and every answer is a character's difference, a length or an *)
(* address (libc/string, libc/stdlib).                                     *)
THEOREM TypeCorrect == Spec => []TypeOK
<1>1. Init => StringInv
  BY DEF Init, StringInit, StringInv, CallsKeepTheirPromise, Memories, Bytes
<1>2. Init => LocalsType
  BY DEF Init, StringInit, LocalsType, NoCall, NULL, Places, Results
<1>3. Init => NumberType
  <2>1. 0 \in 0..MaxMin /\ 0 \in UInts
    BY NumbersAssumption, Widths DEF UInts
  <2> QED BY <2>1 DEF Init, NumberInit, NumberType, NoJob
<1>4. StringInv /\ TokensInv /\ LocalsType /\ NumberType => TypeOK
  <2> SUFFICES ASSUME StringInv, TokensInv, LocalsType, NumberType
               PROVE  TypeOK
    OBVIOUS
  <2>1. /\ rest \in [Tokenizers -> 0..Size+1] /\ answer \in [Tokenizers -> 0..Size]
        /\ text \in [Tokenizers -> SUBSET Cells]
    <3>1. Cells \cup {NULL} \subseteq 0..Size /\ Cells \cup {NULL} \subseteq 0..Size+1
      BY DEF NULL
    <3> QED BY <3>1 DEF TokensInv
  <2>2. ASSUME NEW t \in Tokenizers
        PROVE  {tokens[t], yielded[t]} \subseteq Seq(Cells \X (1..Size))
    BY DEF TokensInv, Records, TokenRecords
  <2>3. mem \in Memories /\ before \in Memories
    BY DEF StringInv
  <2> QED
    BY <2>1, <2>2, <2>3
       DEF TypeOK, LocalsType, NumberType, Memories, Bytes, Places, Results
<1>5. Spec => []TokensInv
  <2>1. StringInv /\ TokensInv /\ [Next]_vars => TokensInv'
    BY TokensInvariance DEF StringInv
  <2> QED BY <1>1, InitTokens, StringInvariance, <2>1, PTL DEF Spec
<1> QED BY <1>1, <1>2, <1>3, <1>4, <1>5, StringInvariance, LocalsNext, NumberTypeNext, PTL DEF Spec
=============================================================================

----------------------------- MODULE KlibString -----------------------------
(***************************************************************************)
(* The string and memory functions of klib, string.c, as the loops they    *)
(* are: a program calls one of them, and each pass through a loop is a     *)
(* step.  Memory is a function from addresses to characters 0 .. 255, of   *)
(* which 0 is NUL.                                                         *)
(***************************************************************************)
EXTENDS Integers

CONSTANTS
  CharSigned,  \* whether char is signed: x86, mips; not on riscv
  LAST,        \* the last address
  Memories,    \* bound: what memory may hold at a call
  Calls        \* bound: the calls a program may make

NUL  == 0
Char == 0 .. 255
Functions == {"strlen", "strcpy", "strcat", "strncpy", "strcmp", "strncmp", "memset", "memcpy", "memcmp"}

(* dst and src are the first and the second pointer; strlen's is src.      *)
ASSUME StringAssumption ==
  /\ CharSigned \in BOOLEAN /\ LAST \in Nat
  /\ Memories \subseteq [0 .. LAST -> Char]
  /\ Calls \subseteq [f : Functions, dst : Nat, src : Nat, n : Nat, c : Int]

VARIABLES
  memory, before,  \* and ghost: memory at the call
  call,
  running,         \* the loop: a function's own, "find" or "copy"; else "idle" or "done"
  cnt, dp, sp, left, \* the index, dst and src as they move on, what is left of n
  ret

stringvars == <<memory, before, call, running, cnt, dp, sp, left, ret>>

char(c) == IF CharSigned /\ c >= 128 THEN c - 256 ELSE c

---------------------------------------------------------------------------
(* What C asks of the caller.                                              *)
IsString(m, a, k) == a + k <= LAST /\ m[a + k] = NUL /\ \A j \in 0 .. k - 1 : m[a + j] # NUL
Strings(m)        == {a \in 0 .. LAST : \E k \in 0 .. LAST : IsString(m, a, k)}
strlenOf(m, a)    == CHOOSE k \in 0 .. LAST : IsString(m, a, k)

Apart(a, k, b, l) == a + k <= b \/ b + l <= a
Bytes(a, k)       == a + k <= LAST + 1

LegalCall(m, c) ==
  LET ls == strlenOf(m, c.src)  ld == strlenOf(m, c.dst)
  IN  CASE c.f = "strlen"  -> c.src \in Strings(m)
        [] c.f = "strcpy"  -> c.src \in Strings(m) /\ Bytes(c.dst, ls + 1) /\ Apart(c.dst, ls + 1, c.src, ls + 1)
        [] c.f = "strcat"  -> /\ c.src \in Strings(m) /\ c.dst \in Strings(m) /\ Bytes(c.dst, ld + ls + 1)
                              /\ Apart(c.dst, ld + ls + 1, c.src, ls + 1)
        [] c.f = "strncpy" -> c.src \in Strings(m) /\ Bytes(c.dst, c.n) /\ Apart(c.dst, c.n, c.src, ls + 1)
        [] c.f = "memset"  -> Bytes(c.dst, c.n)
        [] c.f = "memcpy"  -> Bytes(c.dst, c.n) /\ Bytes(c.src, c.n) /\ Apart(c.dst, c.n, c.src, c.n)
        [] c.f = "memcmp"  -> Bytes(c.dst, c.n) /\ Bytes(c.src, c.n)
        [] OTHER           -> c.src \in Strings(m) /\ c.dst \in Strings(m)  \* strcmp, strncmp

---------------------------------------------------------------------------
(* The functions.                                                          *)
StringInit ==
  /\ memory = <<>> /\ before = <<>> /\ call = <<>> /\ running = "idle"
  /\ cnt = 0 /\ dp = 0 /\ sp = 0 /\ left = 0 /\ ret = 0

(* strncmp and memcmp return at once when n is 0. *)
start(m, c) ==
  /\ running = "idle" /\ LegalCall(m, c)
  /\ memory' = m /\ before' = m /\ call' = c
  /\ cnt' = 0 /\ dp' = c.dst /\ sp' = c.src /\ left' = c.n /\ ret' = 0
  /\ running' = CASE c.f \in {"strncmp", "memcmp"} /\ c.n = 0 -> "done"
                  [] c.f = "strcpy" -> "copy"
                  [] c.f = "strcat" -> "find"
                  [] OTHER          -> c.f

result(r) == running' = "done" /\ ret' = r /\ UNCHANGED <<cnt, dp, sp, left>>

strlen ==
  /\ running = "strlen"
  /\ IF memory[sp + cnt] # NUL THEN cnt' = cnt + 1 /\ UNCHANGED <<running, dp, sp, left, ret>> ELSE result(cnt)
  /\ UNCHANGED memory

(* the loop of strcpy, and the second one of strcat *)
copy ==
  /\ running = "copy"
  /\ memory' = [memory EXCEPT ![dp] = memory[sp]]
  /\ IF memory'[sp] = NUL THEN result(call.dst)
     ELSE dp' = dp + 1 /\ sp' = sp + 1 /\ UNCHANGED <<running, cnt, left, ret>>

strcat_find ==
  /\ running = "find"
  /\ IF memory[dp] # NUL THEN dp' = dp + 1 /\ UNCHANGED running ELSE running' = "copy" /\ UNCHANGED dp
  /\ UNCHANGED <<memory, cnt, sp, left, ret>>

(* "for (; i < n; n++) dst[i] = '\0'": i stays, n runs until it wraps to 0. *)
strncpy ==
  /\ running = "strncpy"
  /\ IF cnt < left /\ memory[sp + cnt] # NUL
     THEN /\ memory' = [memory EXCEPT ![dp + cnt] = memory[sp + cnt]]
          /\ cnt' = cnt + 1 /\ UNCHANGED <<running, dp, sp, left, ret>>
     ELSE /\ memory' = IF cnt < left THEN [memory EXCEPT ![dp + cnt] = NUL] ELSE memory
          /\ result(call.dst)

strcmp ==
  /\ running = "strcmp"
  /\ IF memory[dp] # NUL /\ char(memory[dp]) - char(memory[sp]) = 0
     THEN dp' = dp + 1 /\ sp' = sp + 1 /\ UNCHANGED <<running, cnt, left, ret>>
     ELSE result(char(memory[dp]) - char(memory[sp]))
  /\ UNCHANGED memory

(* Mutated: the comparison goes on behind the n-th character. *)
goes_onAll(n) == n > 0

(* "the condition must be n > 1, not n > 0" *)
goes_on(n) == n > 1

strncmp ==
  /\ running = "strncmp"
  /\ IF goes_on(left) /\ memory[dp] # NUL /\ char(memory[dp]) - char(memory[sp]) = 0
     THEN dp' = dp + 1 /\ sp' = sp + 1 /\ left' = left - 1 /\ UNCHANGED <<running, cnt, ret>>
     ELSE result(char(memory[dp]) - char(memory[sp]))
  /\ UNCHANGED memory

(* c is converted to a char. *)
memset ==
  /\ running = "memset"
  /\ IF left # 0
     THEN /\ memory' = [memory EXCEPT ![dp + (left - 1)] = call.c % 256]
          /\ left' = left - 1 /\ UNCHANGED <<running, cnt, dp, sp, ret>>
     ELSE result(call.dst) /\ UNCHANGED memory

(* it returns NULL *)
memcpy ==
  /\ running = "memcpy"
  /\ IF cnt < left
     THEN /\ memory' = [memory EXCEPT ![dp + cnt] = memory[sp + cnt]]
          /\ cnt' = cnt + 1 /\ UNCHANGED <<running, dp, sp, left, ret>>
     ELSE result(0) /\ UNCHANGED memory

memcmp ==
  /\ running = "memcmp"
  /\ IF left > 1 /\ memory[dp] - memory[sp] = 0
     THEN dp' = dp + 1 /\ sp' = sp + 1 /\ left' = left - 1 /\ UNCHANGED <<running, cnt, ret>>
     ELSE result(memory[dp] - memory[sp])
  /\ UNCHANGED memory

pass ==
  /\ strlen \/ copy \/ strcat_find \/ strncpy \/ strcmp \/ strncmp \/ memset \/ memcpy \/ memcmp
  /\ UNCHANGED <<before, call>>

StringNext == pass \/ \E m \in Memories, c \in Calls : start(m, c)

StringSpec == StringInit /\ [][StringNext]_stringvars

---------------------------------------------------------------------------
(* What the functions are to do.  strncpy is taken at one NUL after a      *)
(* short string, where C asks for all n.                                   *)

(* in m the k bytes at a are as those at b were, and the others as they were *)
Copied(m, old, a, b, k) ==
  /\ \A j \in 0 .. k - 1 : m[a + j] = old[b + j]
  /\ \A x \in 0 .. LAST : x < a \/ x >= a + k => m[x] = old[x]

Lesser(a, b) == IF a < b THEN a ELSE b

(* C orders characters as unsigned ones.  Where the code compares them     *)
(* signed, a character from 128 on comes before the others, against C and  *)
(* string.c:39 (LongerIsGreater); only there the order is left open.       *)
Ordered(signed, x, y, r) == (signed => (x < 128 <=> y < 128)) => (r < 0 <=> x < y)

(* r says whether the k characters at a and at b differ, and how the first *)
(* two that do are ordered.                                                *)
Comparison(m, a, b, k, signed, r) ==
  /\ r \in Int
  /\ (\A j \in 0 .. k - 1 : m[a + j] = m[b + j]) => r = 0
  /\ \A j \in 0 .. k - 1 :
       m[a + j] # m[b + j] /\ (\A h \in 0 .. j - 1 : m[a + h] = m[b + h])
         => r # 0 /\ Ordered(signed, m[a + j], m[b + j], r)

(* Each function leaves in memory and returns what C says, and everything  *)
(* else alone; but for what Ordered leaves open where char is signed.      *)
StringsAgree ==
  LET ls == strlenOf(before, call.src)  ld == strlenOf(before, call.dst)  n == call.n  dst == call.dst
  IN  running = "done" =>
        CASE call.f = "strlen"  -> ret = ls /\ memory = before
          [] call.f = "strcpy"  -> ret = dst /\ Copied(memory, before, dst, call.src, ls + 1)
          [] call.f = "strcat"  -> ret = dst /\ Copied(memory, before, dst + ld, call.src, ls + 1)
          [] call.f = "strncpy" -> ret = dst /\ Copied(memory, before, dst, call.src, Lesser(n, ls + 1))
          [] call.f = "memcpy"  -> Copied(memory, before, dst, call.src, n)
          [] call.f = "memset"  -> /\ ret = dst
                                   /\ \A x \in 0 .. LAST : memory[x] = IF x \in dst .. (dst + n) - 1 THEN call.c % 256
                                                                       ELSE before[x]
          [] call.f = "strcmp"  -> memory = before /\ Comparison(before, dst, call.src, ld + 1, CharSigned, ret)
          [] call.f = "strncmp" -> memory = before /\ Comparison(before, dst, call.src, Lesser(n, ld + 1), CharSigned, ret)
          [] call.f = "memcmp"  -> memory = before /\ Comparison(before, dst, call.src, n, FALSE, ret)

(* What the comment in strcmp says: if one string is the beginning of the   *)
(* other, the longer is the greater.                                       *)
LongerIsGreater ==
  LET l1 == strlenOf(before, call.dst)  l2 == strlenOf(before, call.src)
  IN  running = "done" /\ call.f = "strcmp" /\ l1 # l2
        /\ (\A j \in 0 .. Lesser(l1, l2) - 1 : before[call.dst + j] = before[call.src + j])
        => IF l1 > l2 THEN ret > 0 ELSE ret < 0

(* Inductive: what stays the same while a function runs, and what its loop *)
(* has done so far.                                                        *)
CallOK ==
  /\ memory \in [0 .. LAST -> Char] /\ before \in [0 .. LAST -> Char]
  /\ call \in [f : Functions, dst : Nat, src : Nat, n : Nat, c : Int]
  /\ LegalCall(before, call)

(* where the copied string goes *)
Target == IF call.f = "strcat" THEN call.dst + strlenOf(before, call.dst) ELSE call.dst

Copying ==
  \E k \in 0 .. strlenOf(before, call.src) :
    dp = Target + k /\ sp = call.src + k /\ Copied(memory, before, Target, call.src, k)

Finding ==
  /\ \E k \in 0 .. strlenOf(before, call.dst) : dp = call.dst + k
  /\ sp = call.src /\ memory = before

Counting == sp = call.src /\ cnt \in 0 .. strlenOf(before, call.src) /\ memory = before

CopyingUpTo(k) ==
  /\ dp = call.dst /\ sp = call.src /\ left = call.n
  /\ cnt \in 0 .. k /\ Copied(memory, before, call.dst, call.src, cnt)

Filled(k) ==
  \A x \in 0 .. LAST : memory[x] = IF x \in call.dst + k .. (call.dst + call.n) - 1 THEN call.c % 256 ELSE before[x]
Filling == dp = call.dst /\ left \in 0 .. call.n /\ Filled(left)

(* the first k characters are equal *)
Equal(k) ==
  /\ dp = call.dst + k /\ sp = call.src + k /\ memory = before
  /\ \A j \in 0 .. k - 1 : before[call.dst + j] = before[call.src + j]

LoopOK ==
  /\ running = "strlen"  => call.f = "strlen" /\ Counting
  /\ running = "copy"    => call.f \in {"strcpy", "strcat"} /\ Copying
  /\ running = "find"    => call.f = "strcat" /\ Finding
  /\ running = "strncpy" => call.f = "strncpy" /\ CopyingUpTo(Lesser(call.n, strlenOf(before, call.src)))
  /\ running = "strcmp"  => call.f = "strcmp" /\ \E k \in 0 .. strlenOf(before, call.dst) : Equal(k)
  /\ running = "strncmp" => /\ call.f = "strncmp" /\ left >= 1
                            /\ \E k \in 0 .. strlenOf(before, call.dst) : Equal(k) /\ left = call.n - k
  /\ running = "memset"  => call.f = "memset" /\ Filling
  /\ running = "memcpy"  => call.f = "memcpy" /\ CopyingUpTo(call.n)
  /\ running = "memcmp"  => call.f = "memcmp" /\ \E k \in 0 .. call.n - 1 : Equal(k) /\ left = call.n - k
  /\ StringsAgree

StringInv == running # "idle" => CallOK /\ LoopOK
=============================================================================

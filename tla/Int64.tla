------------------------------- MODULE Int64 -------------------------------
(***************************************************************************)
(* Division of double words without a divide instruction for them:         *)
(* klib/src/int64.c, which a 32-bit guest links for / and % on 64 bits.    *)
(* A double word is a natural below DWORD; a signed one is an integer.     *)
(***************************************************************************)
EXTENDS Integers

CONSTANT LOG  \* words are of 2^LOG bits: 5 in the code
ASSUME LogAssumption == LOG \in Nat \ {0}

VARIABLE operands  \* of the division a program asks for, <<>> before

BITS  == 2 ^ LOG  \* n_uword_bits
UWORD == 2 ^ BITS
DWORD == UWORD * UWORD

high(x) == x \div UWORD
low(x)  == x % UWORD
all(h, l) == h * UWORD + l
shl(x, k) == (x * 2 ^ k) % UWORD
shr(x, k) == x \div 2 ^ k
Qr(q, r)  == [q |-> q, r |-> r]

(* n steps of the function f from x on *)
Iterate(f, x, n) ==
  LET it[i \in 0 .. n] == IF i = 0 THEN x ELSE f[it[i - 1]] IN it[n]

(* __clzsi2, __ctzsi2: go to the half with the first bit in it, of h bits, *)
(* until two bits are left                                                 *)
Halving == [x : Nat, r : Nat, h : Nat]

clz_half == [s \in Halving |->
  LET t == IF shr(s.x, s.h) = 0 THEN s.h ELSE 0
  IN  [x |-> shr(s.x, s.h - t), r |-> s.r + t, h |-> s.h \div 2]]

clz(a) ==
  LET s == Iterate(clz_half, [x |-> a, r |-> 0, h |-> BITS \div 2], LOG - 1)
  IN  IF s.x >= 2 THEN s.r ELSE (s.r + 2) - s.x

ctz_half == [s \in Halving |->
  LET t == IF s.x % 2 ^ s.h = 0 THEN s.h ELSE 0
  IN  [x |-> shr(s.x, t), r |-> s.r + t, h |-> s.h \div 2]]

ctz(a) ==
  LET s == Iterate(ctz_half, [x |-> a, r |-> 0, h |-> BITS \div 2], LOG - 1)
  IN  IF s.x % 2 = 1 THEN s.r ELSE (s.r + 2) - shr(s.x % 4, 1)

PowerOf2(x) == \E k \in 0 .. BITS - 1 : x = 2 ^ k  \* (x & (x - 1)) == 0, x # 0

---------------------------------------------------------------------------
(* __udivmoddi4.                                                           *)

(* the dividend below UWORD *)
small_n(n, d) ==
  IF high(d) = 0 THEN Qr(low(n) \div low(d), low(n) % low(d)) ELSE Qr(0, low(n))

(* a divisor whose low word is 0, where no loop is needed *)
d_high_only(n, d) ==
  IF low(n) = 0 THEN Qr(high(n) \div high(d), all(high(n) % high(d), 0))
  ELSE Qr(shr(high(n), ctz(high(d))), all(high(n) % high(d), low(n)))

(* a divisor that is a power of two below UWORD *)
d_low_power(n, d) ==
  LET sr == ctz(low(d))
  IN  IF low(d) = 1 THEN Qr(n, 0)
      ELSE Qr(all(shr(high(n), sr), shl(high(n), BITS - sr) + shr(low(n), sr)), low(n) % low(d))

(* q.all = n.all << (n_udword_bits - sr), r.all = n.all >> sr, by words *)
split(n, sr) ==
  CASE sr = BITS -> Qr(all(low(n), 0), high(n))
    [] sr < BITS -> Qr(all(shl(low(n), BITS - sr), 0),
                       all(shr(high(n), sr), shl(high(n), BITS - sr) + shr(low(n), sr)))
    [] sr > BITS -> Qr(all(shl(high(n), 2 * BITS - sr) + shr(low(n), sr - BITS), shl(low(n), 2 * BITS - sr)),
                       shr(high(n), sr - BITS))

(* Mutated: the remainder may stay as large as the divisor. *)
carryStrict(r, d) == ((d - r) % DWORD) \div (DWORD \div 2)

(* the sign of d - r - 1, that is r >= d *)
carry(r, d) == (((d - r) - 1) % DWORD) \div (DWORD \div 2)

(* one bit from q's top to r's end, the carry to q's end, and d taken off *)
round(d) == [s \in [q : Nat, r : Nat, c : Nat] |->
  LET r == (2 * s.r + s.q \div (DWORD \div 2)) % DWORD
      c == carry(r, d)
  IN  [q |-> (2 * s.q + s.c) % DWORD, r |-> r - c * d, c |-> c]]

loop(n, d, sr) ==
  LET s == split(n, sr)
      e == Iterate(round(d), [q |-> s.q, r |-> s.r, c |-> 0], sr)
  IN  Qr((2 * e.q + e.c) % DWORD, e.r)

udivmoddi4(n, d) ==
  CASE high(n) = 0 -> small_n(n, d)
    [] high(n) # 0 /\ low(d) = 0 ->
         IF low(n) = 0 \/ PowerOf2(high(d)) THEN d_high_only(n, d)
         ELSE LET sr == clz(high(d)) - clz(high(n))
              IN  IF sr \notin 0 .. BITS - 2 THEN Qr(0, n) ELSE loop(n, d, sr + 1)
    [] high(n) # 0 /\ low(d) # 0 /\ high(d) = 0 ->
         IF PowerOf2(low(d)) THEN d_low_power(n, d)
         ELSE loop(n, d, (1 + BITS + clz(low(d))) - clz(high(n)))
    [] high(n) # 0 /\ low(d) # 0 /\ high(d) # 0 ->
         LET sr == clz(high(d)) - clz(high(n))
         IN  IF sr \notin 0 .. BITS - 1 THEN Qr(0, n) ELSE loop(n, d, sr + 1)

udivdi3(n, d) == udivmoddi4(n, d).q
umoddi3(n, d) == udivmoddi4(n, d).r

---------------------------------------------------------------------------
(* The signed ones: magnitudes, and the sign put back.                     *)
unsigned(x) == x % DWORD
signed(x)   == IF x >= DWORD \div 2 THEN x - DWORD ELSE x
Magnitude(x) == IF x < 0 THEN unsigned(-x) ELSE x
WithSign(x, negative) == signed(IF negative THEN unsigned(-x) ELSE x)

divdi3(a, b) == WithSign(udivmoddi4(Magnitude(a), Magnitude(b)).q, (a < 0) # (b < 0))
moddi3(a, b) == WithSign(udivmoddi4(Magnitude(a), Magnitude(b)).r, a < 0)
divmoddi4(a, b) == [d |-> divdi3(a, b), rem |-> signed(unsigned(a - divdi3(a, b) * b))]

---------------------------------------------------------------------------
(* Quotient and remainder, with the remainder's sign that of the dividend. *)
Divides(a, b, q, r) ==
  /\ a = q * b + r
  /\ (IF r < 0 THEN -r ELSE r) < (IF b < 0 THEN -b ELSE b)
  /\ r # 0 => (r < 0) = (a < 0)

(* The words a and b, as unsigned and as signed ones, divide as in C; of   *)
(* the signed quotients one does not fit, the least by -1.                 *)
DivAgreesOn(a, b) ==
  b # 0 =>
    LET s == signed(a)  t == signed(b)
    IN  /\ Divides(a, b, udivdi3(a, b), umoddi3(a, b))
        /\ ~ (s = -(DWORD \div 2) /\ t = -1) =>
             /\ Divides(s, t, divdi3(s, t), moddi3(s, t))
             /\ divmoddi4(s, t) = [d |-> divdi3(s, t), rem |-> moddi3(s, t)]

DivInit == operands = <<>>
divide  == operands = <<>> /\ \E a, b \in 0 .. DWORD - 1 : operands' = <<a, b>>
DivSpec == DivInit /\ [][divide]_operands

(* The division that a 32-bit guest has for 64 bits, on all pairs of double *)
(* words: every special case of __udivmoddi4 and its loop.                 *)
DivAgrees == operands # <<>> => DivAgreesOn(operands[1], operands[2])
=============================================================================

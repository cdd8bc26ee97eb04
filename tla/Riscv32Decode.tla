---- MODULE Riscv32Decode ----
\* The decoding of a riscv32 instruction word: the bit-fields of the union
\* riscv32_ISADecodeInfo and the immediates the decode helpers assemble from
\* them, against the immediates of the instruction set manual.  A 32-bit value
\* is the function of its bits, bit 0 the least significant.
EXTENDS Integers

BitIndex == 0 .. 31
Bits32   == [BitIndex -> {0, 1}]

\* A field of `len' bits that starts at bit lo, read as unsigned ...
Field(w, lo, len) ==
  [i \in BitIndex |-> IF i < len THEN w[lo + i] ELSE 0]

\* ... or as int32_t, its top bit the sign.
SField(w, lo, len) ==
  [i \in BitIndex |-> IF i < len THEN w[lo + i] ELSE w[lo + len - 1]]

Shl(x, n) == [i \in BitIndex |-> IF i >= n THEN x[i - n] ELSE 0]
Or(x, y)  == [i \in BitIndex |-> IF x[i] = 1 \/ y[i] = 1 THEN 1 ELSE 0]

\* Mutated: the fields of the struct j above bit 20 in the wrong order.
decode_JSwapped(w) ==
  Or(Or(Shl(SField(w, 31, 1), 20), Shl(Field(w, 12, 8), 12)),
     Or(Shl(Field(w, 30, 1), 11), Shl(Field(w, 20, 10), 1)))

\* The operand each decode helper passes to decode_op_i.
decode_I(w) == SField(w, 20, 12)
decode_U(w) == Shl(Field(w, 12, 20), 12)
decode_S(w) == Or(Shl(SField(w, 25, 7), 5), Field(w, 7, 5))
decode_J(w) == Or(Or(Shl(SField(w, 31, 1), 20), Shl(Field(w, 12, 8), 12)),
                  Or(Shl(Field(w, 20, 1), 11), Shl(Field(w, 21, 10), 1)))
decode_B(w) == Or(Or(Shl(SField(w, 31, 1), 12), Shl(Field(w, 7, 1), 11)),
                  Or(Shl(Field(w, 25, 6), 5), Shl(Field(w, 8, 4), 1)))

\* The manual's immediates, bit by bit ("inst[31]" is w[31]).
ImmI(w) == [i \in BitIndex |-> IF i < 11 THEN w[20 + i] ELSE w[31]]
ImmS(w) == [i \in BitIndex |-> IF i < 5 THEN w[7 + i]
                               ELSE IF i < 11 THEN w[20 + i] ELSE w[31]]
ImmB(w) == [i \in BitIndex |-> IF i = 0 THEN 0
                               ELSE IF i < 5 THEN w[7 + i]
                               ELSE IF i < 11 THEN w[20 + i]
                               ELSE IF i = 11 THEN w[7] ELSE w[31]]
ImmU(w) == [i \in BitIndex |-> IF i < 12 THEN 0 ELSE w[i]]
ImmJ(w) == [i \in BitIndex |-> IF i = 0 THEN 0
                               ELSE IF i < 11 THEN w[20 + i]
                               ELSE IF i = 11 THEN w[20]
                               ELSE IF i < 20 THEN w[i] ELSE w[31]]

\* Every format's immediate is the manual's for the word w.
DecodesPerISA(w) ==
  /\ decode_I(w) = ImmI(w)
  /\ decode_S(w) = ImmS(w)
  /\ decode_B(w) = ImmB(w)
  /\ decode_U(w) = ImmU(w)
  /\ decode_J(w) = ImmJ(w)
====

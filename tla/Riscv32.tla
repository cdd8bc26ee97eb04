---- MODULE Riscv32 ----
\* The riscv32 interpreter: one instruction is fetched (Fetch), its helper runs
\* over the RTL (load .. inv) and isa_exec_once writes the program counter and
\* clears the zero register; the properties compare every instruction with the
\* instruction set manual.  A register has W bits instead of 32, a byte W / 4,
\* and the instruction stream is arbitrary.
EXTENDS Integers, Riscv32Decode

CONSTANTS
  W,        \* bits of a word_t, a multiple of 4
  GPR,      \* numbers of the registers instructions name, 0 among them
  A0,       \* the register that holds the exit status
  IMMS,     \* sign-extended immediates of loads, stores and op_imm, as words
  TARGETS   \* offsets of branches and jumps, as words

N    == 2^W
Word == 0 .. N - 1

ASSUME WidthAssumption == W \in Nat \ {0} /\ W % 4 = 0
ASSUME RegAssumption   == 0 \in GPR /\ A0 \in GPR /\ A0 # 0
ASSUME ImmAssumption   == IMMS \subseteq Word /\ TARGETS \subseteq Word

\* sword_t, and the conversion of an integer to word_t.
Signed(x)  == IF x < N \div 2 THEN x ELSE x - N
ToWord(x)  == x % N
MostNeg    == N \div 2
MinusOne   == N - 1

Bit(x, i)     == (x \div 2^i) % 2
BitSet(x)     == {i \in 0 .. W - 1 : Bit(x, i) = 1}
FromBits(B)   == CHOOSE x \in Word : BitSet(x) = B
LenMask(len)  == 2^(len * (W \div 4))

\* C's division truncates toward zero.
Abs(x) == IF x < 0 THEN -x ELSE x
Quot(a, b) == LET q == Abs(a) \div Abs(b) IN IF (a < 0) = (b < 0) THEN q ELSE -q

--------------------------------------------------------------------------
\* The RTL (c_op.h): operands and results are words.

c_op(op, a, b) ==
  CASE op = "add"     -> ToWord(a + b)
    [] op = "sub"     -> ToWord(a - b)
    [] op = "and"     -> FromBits(BitSet(a) \cap BitSet(b))
    [] op = "or"      -> FromBits(BitSet(a) \cup BitSet(b))
    [] op = "xor"     -> FromBits((BitSet(a) \cup BitSet(b)) \ (BitSet(a) \cap BitSet(b)))
    [] op = "shl"     -> ToWord(a * 2^(b % W))
    [] op = "shr"     -> a \div 2^(b % W)
    [] op = "sar"     -> ToWord(Signed(a) \div 2^(b % W))
    [] op = "mul_lo"  -> ToWord(a * b)
    [] op = "mul_hi"  -> (a * b) \div N
    [] op = "imul_hi" -> ToWord((Signed(a) * Signed(b)) \div N)
    [] op = "div_q"   -> a \div b
    [] op = "div_r"   -> a % b
    [] op = "idiv_q"  -> ToWord(Quot(Signed(a), Signed(b)))
    [] op = "idiv_r"  -> ToWord(Signed(a) - Signed(b) * Quot(Signed(a), Signed(b)))

interpret_relop(relop, a, b) ==
  CASE relop = "EQ"  -> a = b
    [] relop = "NE"  -> a # b
    [] relop = "LT"  -> Signed(a) < Signed(b)
    [] relop = "GE"  -> Signed(a) >= Signed(b)
    [] relop = "LTU" -> a < b
    [] relop = "GEU" -> a >= b

setrelop(relop, a, b) == IF interpret_relop(relop, a, b) THEN 1 ELSE 0

\* The host's divide instruction faults on these operands and the emulator dies.
HostFault(op, a, b) ==
  \/ op \in {"div_q", "div_r", "idiv_q", "idiv_r"} /\ b = 0
  \/ op \in {"idiv_q", "idiv_r"} /\ a = MostNeg /\ b = MinusOne

--------------------------------------------------------------------------
\* What a compute helper does: write a word, fail an assertion, or die in the
\* host's divide instruction.

Writes(v)      == [kind |-> "reg", val |-> v]
ASSERTED       == [kind |-> "assert", val |-> 0]
SIGFPE         == [kind |-> "SIGFPE", val |-> 0]
rtl(op, a, b)  == IF HostFault(op, a, b) THEN SIGFPE ELSE Writes(c_op(op, a, b))
relop(r, a, b) == Writes(setrelop(r, a, b))

\* funct7: the base instructions, their alternatives, and the M extension.
BASE   == 0
ALT    == 32
MULDIV == 1

\* op_imm; for the shifts imm is the shift amount and funct7 imm[11:5].
op_imm_helper(f3, f7, a, imm) ==
  CASE f3 = 0 -> rtl("add", a, imm)
    [] f3 = 2 -> relop("LT", a, imm)
    [] f3 = 3 -> relop("LTU", a, imm)
    [] f3 = 4 -> rtl("xor", a, imm)
    [] f3 = 6 -> rtl("or", a, imm)
    [] f3 = 7 -> rtl("and", a, imm)
    [] f3 = 1 -> IF f7 = BASE THEN rtl("shl", a, imm) ELSE ASSERTED
    [] f3 = 5 -> CASE f7 = BASE -> rtl("shr", a, imm)
                   [] f7 = ALT  -> rtl("sar", a, imm)
                   [] OTHER     -> ASSERTED

mulhsu(a, b) ==
  LET s0 == c_op("mul_hi", a, b)
      s1 == c_op("mul_hi", MinusOne, b)
  IN  rtl("add", s0, s1)

div(a, b) ==
  IF b = 0 THEN Writes(MinusOne)
  ELSE IF a = MostNeg /\ b = MinusOne THEN Writes(a)
  ELSE rtl("idiv_q", a, b)

\* Mutated: the overflow case of rem is forgotten.
remNoOverflow(a, b) == IF b = 0 THEN Writes(a) ELSE rtl("idiv_r", a, b)
rem(a, b) ==
  IF b = 0 THEN Writes(a)
  ELSE IF a = MostNeg /\ b = MinusOne THEN Writes(0)
  ELSE rtl("idiv_r", a, b)

divu(a, b) == IF b = 0 THEN Writes(MinusOne) ELSE rtl("div_q", a, b)
remu(a, b) == IF b = 0 THEN Writes(a) ELSE rtl("div_r", a, b)

base_helper(f3, a, b) ==
  CASE f3 = 0 -> rtl("add", a, b)
    [] f3 = 1 -> rtl("shl", a, b)
    [] f3 = 2 -> relop("LT", a, b)
    [] f3 = 3 -> relop("LTU", a, b)
    [] f3 = 4 -> rtl("xor", a, b)
    [] f3 = 5 -> rtl("shr", a, b)
    [] f3 = 6 -> rtl("or", a, b)
    [] f3 = 7 -> rtl("and", a, b)

muldiv_helper(f3, a, b) ==
  CASE f3 = 0 -> rtl("mul_lo", a, b)
    [] f3 = 1 -> rtl("imul_hi", a, b)
    [] f3 = 2 -> mulhsu(a, b)
    [] f3 = 3 -> rtl("mul_hi", a, b)
    [] f3 = 4 -> div(a, b)
    [] f3 = 5 -> divu(a, b)
    [] f3 = 6 -> rem(a, b)
    [] f3 = 7 -> remu(a, b)

\* op: funct3 chooses the helper, funct7 the case of its switch.
op_helper(f3, f7, a, b) ==
  CASE f7 = BASE            -> base_helper(f3, a, b)
    [] f7 = MULDIV          -> muldiv_helper(f3, a, b)
    [] f7 = ALT /\ f3 = 0   -> rtl("sub", a, b)
    [] f7 = ALT /\ f3 = 5   -> rtl("sar", a, b)
    [] OTHER                -> ASSERTED

\* The relation a branch tests; none for the two reserved values of funct3.
branch_relop(f3) ==
  CASE f3 = 0 -> "EQ" [] f3 = 1 -> "NE" [] f3 = 4 -> "LT"
    [] f3 = 5 -> "GE" [] f3 = 6 -> "LTU" [] f3 = 7 -> "GEU"

--------------------------------------------------------------------------
VARIABLES
  gpr,      \* cpu.gpr
  pc,       \* cpu.pc
  instr,    \* the fetched instruction's fields, NONE between instructions
  access,   \* the data access vaddr_read or vaddr_write is asked for, or NONE
  nemu,     \* nemu_state: the state and halt_ret
  host      \* "up", or what killed the emulator
vars == <<gpr, pc, instr, access, nemu, host>>

NONE   == [op |-> "none"]
Funct3 == 0 .. 7

\* The instructions: reserved funct3 and funct7, an unknown opcode and a
\* compressed instruction among them.  Fields the format lacks are 0.
Instructions(op, f3, f7, rd, rs1, rs2, imm) ==
  [op : {op}, f3 : f3, f7 : f7, rd : rd, rs1 : rs1, rs2 : rs2, imm : imm]
AnyF7 == {BASE, ALT, MULDIV, 2}
Zero  == {0}
Instrs ==
  UNION { Instructions("op", Funct3, AnyF7, GPR, GPR, GPR, Zero),
          Instructions("op_imm", Funct3 \ {1, 5}, Zero, GPR, GPR, Zero, IMMS),
          Instructions("op_imm", {1, 5}, AnyF7, GPR, GPR, Zero, 0 .. W - 1),
          Instructions("load", Funct3, Zero, GPR, GPR, Zero, IMMS),
          Instructions("store", Funct3, Zero, Zero, GPR, GPR, IMMS),
          Instructions("branch", Funct3, Zero, Zero, GPR, GPR, TARGETS),
          Instructions("jal", Zero, Zero, GPR, Zero, Zero, TARGETS),
          Instructions("jalr", {0, 1}, Zero, GPR, GPR, Zero, IMMS),
          Instructions("lui", Zero, Zero, GPR, Zero, Zero, IMMS),
          Instructions("auipc", Zero, Zero, GPR, Zero, Zero, IMMS),
          Instructions("nemu_trap", Zero, Zero, Zero, Zero, Zero, Zero),
          Instructions("unknown", Zero, Zero, Zero, Zero, Zero, Zero),
          Instructions("compressed", Zero, Zero, Zero, Zero, Zero, Zero) }

RUNNING == [state |-> "RUNNING", halt_ret |-> 0]

Init ==
  /\ gpr = [r \in GPR |-> 0]
  /\ pc = 0
  /\ instr = NONE
  /\ access = NONE
  /\ nemu = RUNNING
  /\ host = "up"

\* instr_fetch; the previous instruction's access is over.
fetch ==
  /\ host = "up" /\ nemu.state = "RUNNING"
  /\ instr = NONE /\ access = NONE
  /\ instr' \in Instrs
  /\ UNCHANGED <<gpr, pc, access, nemu, host>>

\* The operands of the fetched instruction, and the next address in sequence.
dsrc1  == gpr[instr.rs1]
dsrc2  == gpr[instr.rs2]
seq_pc == ToWord(pc + 4)

\* reset_zero clears register 0 after the helper has written rd.
reset_zero(regs) == [regs EXCEPT ![0] = 0]
write_rd(v) == gpr' = reset_zero([gpr EXCEPT ![instr.rd] = v])

\* The instruction is over: the next is at target.
update_pc(target) ==
  /\ pc' = target
  /\ instr' = NONE

helper(op) == instr.op = op

die(how) ==
  /\ host' = how
  /\ instr' = NONE
  /\ UNCHANGED <<gpr, pc, access, nemu>>

\* An op or op_imm helper with the outcome e.
compute(e) ==
  \/ /\ e.kind = "reg"
     /\ write_rd(e.val)
     /\ update_pc(seq_pc)
     /\ UNCHANGED <<access, nemu, host>>
  \/ /\ e.kind # "reg"
     /\ die(e.kind)

op     == helper("op")     /\ compute(op_helper(instr.f3, instr.f7, dsrc1, dsrc2))
op_imm == helper("op_imm") /\ compute(op_imm_helper(instr.f3, instr.f7, dsrc1, instr.imm))
lui    == helper("lui")    /\ compute(Writes(instr.imm))
auipc  == helper("auipc")  /\ compute(Writes(ToWord(instr.imm + pc)))

vaddr == ToWord(dsrc1 + instr.imm)

\* lds sign-extends what it reads, ld does not.
load_len(f3) == CASE f3 \in {0, 4} -> 1 [] f3 \in {1, 5} -> 2 [] f3 = 2 -> 4
extend(f3, v) ==
  LET M == LenMask(load_len(f3))
  IN  IF f3 \in {0, 1} /\ v >= M \div 2 THEN ToWord(v - M) ELSE v

\* The memory answers any value of the length.
load ==
  /\ helper("load") /\ instr.f3 \in {0, 1, 2, 4, 5}
  /\ \E v \in 0 .. LenMask(load_len(instr.f3)) - 1 :
       /\ access' = [op |-> "read", addr |-> vaddr, len |-> load_len(instr.f3), data |-> v]
       /\ write_rd(extend(instr.f3, v))
  /\ update_pc(seq_pc)
  /\ UNCHANGED <<nemu, host>>

store ==
  /\ helper("store") /\ instr.f3 \in {0, 1, 2}
  /\ access' = [op |-> "write", addr |-> vaddr, len |-> 2^instr.f3, data |-> dsrc2]
  /\ gpr' = reset_zero(gpr)
  /\ update_pc(seq_pc)
  /\ UNCHANGED <<nemu, host>>

\* External: the memory has answered, the access is over.
access_done ==
  /\ instr = NONE /\ access # NONE
  /\ access' = NONE
  /\ UNCHANGED <<gpr, pc, instr, nemu, host>>

jal ==
  /\ helper("jal")
  /\ write_rd(seq_pc)
  /\ update_pc(ToWord(pc + instr.imm))
  /\ UNCHANGED <<access, nemu, host>>

\* Mutated: rd is written first and read back as rs1.
jalr_targetLate ==
  LET s0 == ToWord((IF instr.rd = instr.rs1 THEN seq_pc ELSE dsrc1) + instr.imm)
  IN  s0 - (s0 % 2)
\* The target is computed in s0 before rd is written.
jalr_target == LET s0 == ToWord(dsrc1 + instr.imm) IN s0 - (s0 % 2)
jalr ==
  /\ helper("jalr")
  /\ \/ /\ instr.f3 = 0
        /\ write_rd(seq_pc)
        /\ update_pc(jalr_target)
        /\ UNCHANGED <<access, nemu, host>>
     \/ /\ instr.f3 # 0
        /\ die("assert")

\* The switch has no default: a reserved funct3 falls through as a no-op.
branch ==
  /\ helper("branch")
  /\ gpr' = reset_zero(gpr)
  /\ update_pc(IF instr.f3 \notin {2, 3} /\ interpret_relop(branch_relop(instr.f3), dsrc1, dsrc2)
               THEN ToWord(pc + instr.imm) ELSE seq_pc)
  /\ UNCHANGED <<access, nemu, host>>

nemu_trap ==
  /\ helper("nemu_trap")
  /\ nemu' = [state |-> "END", halt_ret |-> gpr[A0]]
  /\ gpr' = reset_zero(gpr)
  /\ update_pc(seq_pc)
  /\ UNCHANGED <<access, host>>

\* inv fetches the two words at pc again to print them, which leaves seq_pc
\* behind both.
inv ==
  /\ \/ helper("unknown")
     \/ helper("load") /\ instr.f3 \in {3, 6, 7}
     \/ helper("store") /\ instr.f3 \notin {0, 1, 2}
  /\ nemu' = [state |-> "ABORT", halt_ret |-> MinusOne]
  /\ gpr' = reset_zero(gpr)
  /\ update_pc(ToWord(pc + 8))
  /\ UNCHANGED <<access, host>>

\* assert(opcode1_0 == 0x3)
compressed == helper("compressed") /\ die("assert")

exec == \/ op \/ op_imm \/ lui \/ auipc \/ load \/ store \/ jal \/ jalr \/ branch
        \/ nemu_trap \/ inv \/ compressed

Next == fetch \/ exec \/ access_done
Spec == Init /\ [][Next]_vars

--------------------------------------------------------------------------
\* The manual.

\* The encodings it defines, nemu_trap in its custom space.
Legal(i) ==
  CASE i.op = "op"     -> i.f7 \in {BASE, MULDIV} \/ (i.f7 = ALT /\ i.f3 \in {0, 5})
    [] i.op = "op_imm" -> i.f3 \in {1, 5} => i.f7 = BASE \/ (i.f7 = ALT /\ i.f3 = 5)
    [] i.op = "load"   -> i.f3 \in {0, 1, 2, 4, 5}
    [] i.op = "store"  -> i.f3 \in {0, 1, 2}
    [] i.op = "branch" -> i.f3 \notin {2, 3}
    [] i.op = "jalr"   -> i.f3 = 0
    [] OTHER           -> i.op \in {"jal", "lui", "auipc", "nemu_trap"}

Truth(P)       == IF P THEN 1 ELSE 0
Bitwise(v, B(_)) == \A k \in 0 .. W - 1 : Bit(v, k) = B(k)

\* v is the result of the base operation f3 (alternative alt) on a and b.
IsaBase(f3, alt, a, b, v) ==
  LET sh == b % W IN
  CASE f3 = 0 -> (IF alt THEN v + b - a ELSE v - a - b) % N = 0
    [] f3 = 1 -> Bitwise(v, LAMBDA k : IF k >= sh THEN Bit(a, k - sh) ELSE 0)
    [] f3 = 2 -> v = Truth(Signed(a) < Signed(b))
    [] f3 = 3 -> v = Truth(a < b)
    [] f3 = 4 -> Bitwise(v, LAMBDA k : Truth(Bit(a, k) # Bit(b, k)))
    [] f3 = 5 -> Bitwise(v, LAMBDA k : IF k + sh < W THEN Bit(a, k + sh)
                                       ELSE IF alt THEN Bit(a, W - 1) ELSE 0)
    [] f3 = 6 -> Bitwise(v, LAMBDA k : Truth(1 \in {Bit(a, k), Bit(b, k)}))
    [] f3 = 7 -> Bitwise(v, LAMBDA k : Bit(a, k) * Bit(b, k))

\* high is the upper word of the product p.
UpperWord(high, p) == p - high * N \in Word
\* q and r are the quotient and remainder of a by b, rounded toward zero.
Rounded(a, b, q, r) ==
  /\ a = b * q + r
  /\ Abs(r) < Abs(b)
  /\ r # 0 => (r < 0) = (a < 0)
Overflows(a, b) == a = MostNeg /\ b = MinusOne

IsaMulDiv(f3, a, b, v) ==
  CASE f3 = 0 -> (v - a * b) % N = 0
    [] f3 = 1 -> UpperWord(Signed(v), Signed(a) * Signed(b))
    [] f3 = 2 -> UpperWord(Signed(v), Signed(a) * b)
    [] f3 = 3 -> UpperWord(v, a * b)
    [] f3 = 4 -> IF b = 0 THEN v = MinusOne
                 ELSE IF Overflows(a, b) THEN v = MostNeg
                 ELSE \E r \in -N .. N : Rounded(Signed(a), Signed(b), Signed(v), r)
    [] f3 = 5 -> IF b = 0 THEN v = MinusOne ELSE \E r \in Word : Rounded(a, b, v, r)
    [] f3 = 6 -> IF b = 0 THEN v = a
                 ELSE IF Overflows(a, b) THEN v = 0
                 ELSE \E q \in -N .. N : Rounded(Signed(a), Signed(b), q, Signed(v))
    [] f3 = 7 -> IF b = 0 THEN v = a ELSE \E q \in Word : Rounded(a, b, q, v)

\* A load of len bytes that read d leaves v, sign-extended for signed.
IsaLoad(len, signed, d, v) ==
  LET top == len * (W \div 4) IN
  Bitwise(v, LAMBDA k : IF k < top THEN Bit(d, k) ELSE IF signed THEN Bit(d, top - 1) ELSE 0)

\* Instruction i may leave v in its rd, having read d from memory.
IsaValue(i, v, d) ==
  LET a == gpr[i.rs1] IN
  CASE i.op = "op" /\ i.f7 = MULDIV -> IsaMulDiv(i.f3, a, gpr[i.rs2], v)
    [] i.op = "op" /\ i.f7 # MULDIV -> IsaBase(i.f3, i.f7 = ALT, a, gpr[i.rs2], v)
    [] i.op = "op_imm"              -> IsaBase(i.f3, i.f7 = ALT, a, i.imm, v)
    [] i.op = "load"                -> IsaLoad(2^(i.f3 % 4), i.f3 < 4, d, v)
    [] i.op = "lui"                 -> v = i.imm
    [] i.op = "auipc"               -> (v - pc - i.imm) % N = 0
    [] i.op \in {"jal", "jalr"}     -> (v - pc - 4) % N = 0

Taken(i) ==
  LET a == gpr[i.rs1] b == gpr[i.rs2] IN
  CASE i.f3 = 0 -> a = b               [] i.f3 = 1 -> a # b
    [] i.f3 = 4 -> Signed(a) < Signed(b) [] i.f3 = 5 -> ~(Signed(a) < Signed(b))
    [] i.f3 = 6 -> a < b               [] i.f3 = 7 -> ~(a < b)

IsaTarget(i) ==
  CASE i.op = "jal" \/ (i.op = "branch" /\ Taken(i)) -> (pc + i.imm) % N
    [] i.op = "jalr" -> LET t == (gpr[i.rs1] + i.imm) % N IN IF t % 2 = 1 THEN t - 1 ELSE t
    [] OTHER         -> (pc + 4) % N

WritesRd(i) == i.op \notin {"store", "branch", "nemu_trap"}
IsMulhsu(i) == i.op = "op" /\ i.f7 = MULDIV /\ i.f3 = 2

\* The registers after instruction i: nothing but rd changes, and rd, unless it
\* is the zero register, holds what the manual says; mulhsu's may hold any word.
RegistersPerISA(i) ==
  \A r \in GPR :
    IF r = i.rd /\ r # 0 /\ WritesRd(i)
    THEN IsMulhsu(i) \/ IsaValue(i, gpr'[r], IF i.op = "load" THEN access'.data ELSE 0)
    ELSE gpr'[r] = gpr[r]

\* The data access of instruction i.
AccessPerISA(i) ==
  IF i.op \in {"load", "store"}
  THEN /\ access'.op = (IF i.op = "load" THEN "read" ELSE "write")
       /\ (access'.addr - gpr[i.rs1] - i.imm) % N = 0
       /\ access'.len = 2^(i.f3 % 4)
       /\ i.op = "store" => (access'.data - gpr[i.rs2]) % LenMask(access'.len) = 0
  ELSE access' = NONE

--------------------------------------------------------------------------
\* Between instructions register 0 reads as zero, whatever instruction named it
\* as its destination (reset_zero, exec.c:95).
ZeroStaysZero == gpr[0] = 0

\* Every legal instruction leaves the registers, the program counter and the
\* data access the manual prescribes, the corner cases of division, shifts, sign
\* extension and rd = rs1 included.  The one value left open is mulhsu's, which
\* compute.h:112 does not compute as the comment above it says (README).
StepPerISA ==
  [][instr # NONE /\ Legal(instr)
       => /\ RegistersPerISA(instr)
          /\ AccessPerISA(instr)
          /\ pc' = IsaTarget(instr)]_vars

\* No legal instruction stops the emulator: the guest runs on, or ends with the
\* value of a0 at nemu_trap.  Above all the host never divides by zero nor the
\* most negative number by -1, and no switch lacks a defined funct7.
LegalCompletes ==
  [][instr # NONE /\ Legal(instr)
       => /\ host' = "up"
          /\ nemu' = IF instr.op = "nemu_trap"
                     THEN [state |-> "END", halt_ret |-> gpr[A0]] ELSE RUNNING]_vars

\* The words with one and two bits set suffice: each bit of an immediate copies
\* one bit of the word.
SparseWordsDecode ==
  \A j, k \in BitIndex :
    DecodesPerISA([i \in BitIndex |-> IF i \in {j, k} THEN 1 ELSE 0])

\* Whatever instruction is executed, its format's immediate is assembled from
\* the bits the manual says, sign included (decode.h, the union's signed fields).
DecodeOK == instr # NONE => SparseWordsDecode
====

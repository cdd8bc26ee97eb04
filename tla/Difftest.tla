---- MODULE Difftest ----
\* Differential testing: after each instruction NEMU (the DUT) compares its
\* registers with QEMU's (the REF).  QEMU cannot execute device accesses as NEMU
\* does, and may execute the instruction after a jump in the same single step;
\* is_skip_ref and skip_dut_nr_instr make up for both.
\* A machine state is abstracted to the number of instructions executed, which
\* stands for the program counter too, and a tag that tells where its registers
\* depart from the right ones.
EXTENDS Integers

CONSTANTS LEN    \* bound: instructions the DUT executes
ASSUME LenAssumption == LEN \in Nat

Kinds   == {"plain", "jump", "mmio", "trap"}
DutTags == {"right", "reg", "pc"}       \* right, or a bug in a register or in pc
RefTags == DutTags \cup {"io"}          \* executed a device access on its own

VARIABLES
  path,               \* the kinds of the instructions the program executes
  dut,                \* cpu
  ref,                \* QEMU's registers
  is_skip_ref,
  skip_dut_nr_instr,
  at,                 \* in the loop of cpu_exec: before isa_exec_once or difftest_step
  state,              \* nemu_state.state, or "panic"
  replayed            \* some instruction was executed twice by QEMU
vars == <<path, dut, ref, is_skip_ref, skip_dut_nr_instr, at, state, replayed>>

Kind(p)   == IF p \in 1 .. LEN THEN path[p] ELSE "plain"
Device(p) == Kind(p) \in {"mmio", "trap"}

\* External: a single step of QEMU from state r executes one instruction, or a
\* jump and the instruction it leads to.
RefOne(r) == [pos |-> r.pos + 1, tag |-> IF Device(r.pos + 1) THEN "io" ELSE r.tag]
ref_difftest_exec(r) ==
  {RefOne(r)} \cup (IF Kind(r.pos + 1) = "jump" THEN {RefOne(RefOne(r))} ELSE {})

\* init_difftest copies the image and the registers.
Init ==
  /\ path \in [1 .. LEN -> Kinds]
  /\ dut = [pos |-> 0, tag |-> "right"]
  /\ ref = dut
  /\ is_skip_ref = FALSE
  /\ skip_dut_nr_instr = 0
  /\ at = "exec"
  /\ state = "RUNNING"
  /\ replayed = FALSE

\* Mutated: a catch-up under way goes on.
difftest_skip_refNoReset ==
  /\ is_skip_ref' = TRUE
  /\ UNCHANGED <<skip_dut_nr_instr, ref>>
\* A device access or nemu_trap: the reference is not to execute it.
difftest_skip_ref ==
  /\ is_skip_ref' = TRUE
  /\ skip_dut_nr_instr' = 0
  /\ UNCHANGED ref

\* Mutated: a second jump forgets what is left of the first.
difftest_skip_dutAssigns ==
  /\ skip_dut_nr_instr' = 2
  /\ ref' \in ref_difftest_exec(ref)
  /\ UNCHANGED is_skip_ref
\* jalr calls difftest_skip_dut(1, 2) before it jumps.
difftest_skip_dut ==
  /\ skip_dut_nr_instr' = skip_dut_nr_instr + 2
  /\ ref' \in ref_difftest_exec(ref)
  /\ UNCHANGED is_skip_ref

\* What the DUT executes next: past a wrong pc, anything, until the reference
\* has been given that pc.
DutKinds ==
  IF dut.tag = "pc" /\ ref.tag # "pc" THEN Kinds ELSE {Kind(dut.pos + 1)}

\* NEMU's implementation of the instruction may be wrong, or use a wrong register.
DutOutcomes(k) ==
  IF k = "trap" THEN {dut.tag}
  ELSE CASE dut.tag = "right" -> DutTags
         [] dut.tag = "reg"   -> {"reg", "pc"}
         [] dut.tag = "pc"    -> {"pc"}

isa_exec_once ==
  /\ at = "exec" /\ state = "RUNNING" /\ dut.pos < LEN
  /\ \E k \in DutKinds :
       /\ \/ k = "plain" /\ UNCHANGED <<is_skip_ref, skip_dut_nr_instr, ref>>
          \/ k = "jump" /\ difftest_skip_dut
          \/ k \in {"mmio", "trap"} /\ difftest_skip_ref
       /\ \E t \in DutOutcomes(k) : dut' = [pos |-> dut.pos + 1, tag |-> t]
       /\ state' = IF k = "trap" THEN "END" ELSE state
  /\ at' = "step"
  /\ UNCHANGED <<path, replayed>>

\* ref_r.pc == next_pc: the same instruction is next, and pc is not wrong.
SamePc(r) == r.pos = dut.pos /\ (dut.tag = "pc" => r.tag = "pc")

\* Mutated: only the program counters are compared.
checkregsPcOnly(r) ==
  \/ r.pos = dut.pos /\ UNCHANGED state
  \/ r.pos # dut.pos /\ state' = "ABORT"
\* isa_difftest_checkregs on r.  An instruction QEMU executed twice may have
\* read memory it had already written, and then its registers differ.
checkregs(r) ==
  \/ r = dut /\ UNCHANGED state
  \/ (r # dut \/ replayed) /\ state' = "ABORT"

step_returns ==
  /\ at' = "exec"
  /\ UNCHANGED <<path, dut>>

\* The DUT has caught up with the reference.
caught_up ==
  /\ at = "step" /\ skip_dut_nr_instr > 0 /\ SamePc(ref)
  /\ checkregs(ref)
  /\ skip_dut_nr_instr' = 0
  /\ step_returns
  /\ UNCHANGED <<ref, is_skip_ref, replayed>>

not_yet ==
  /\ at = "step" /\ skip_dut_nr_instr > 0 /\ ~SamePc(ref)
  /\ skip_dut_nr_instr' = skip_dut_nr_instr - 1
  /\ state' = IF skip_dut_nr_instr = 1 THEN "panic" ELSE state
  /\ step_returns
  /\ UNCHANGED <<ref, is_skip_ref, replayed>>

\* Mutated: the reference executes the device access too.
skip_checkingSteps ==
  /\ at = "step" /\ ~(skip_dut_nr_instr > 0) /\ is_skip_ref
  /\ ref' = RefOne(ref)
  /\ replayed' = (replayed \/ ref.pos > dut.pos)
  /\ is_skip_ref' = FALSE
  /\ step_returns
  /\ UNCHANGED <<skip_dut_nr_instr, state>>
\* The registers are given to the reference, which may have gone further.
skip_checking ==
  /\ at = "step" /\ ~(skip_dut_nr_instr > 0) /\ is_skip_ref
  /\ ref' = dut
  /\ replayed' = (replayed \/ ref.pos > dut.pos)
  /\ is_skip_ref' = FALSE
  /\ step_returns
  /\ UNCHANGED <<skip_dut_nr_instr, state>>

compare ==
  /\ at = "step" /\ ~(skip_dut_nr_instr > 0) /\ ~is_skip_ref
  /\ ref' \in ref_difftest_exec(ref)
  /\ checkregs(ref')
  /\ step_returns
  /\ UNCHANGED <<is_skip_ref, skip_dut_nr_instr, replayed>>

difftest_step == caught_up \/ not_yet \/ skip_checking \/ compare

Next == isa_exec_once \/ difftest_step
Spec == Init /\ [][Next]_vars

--------------------------------------------------------------------------
MachineState(Tags) == [pos : Nat, tag : Tags]

TypeOK ==
  /\ path \in [1 .. LEN -> Kinds]
  /\ dut \in MachineState(DutTags)
  /\ ref \in MachineState(RefTags)
  /\ is_skip_ref \in BOOLEAN
  /\ skip_dut_nr_instr \in Nat
  /\ at \in {"exec", "step"}
  /\ state \in {"RUNNING", "END", "ABORT", "panic"}
  /\ replayed \in BOOLEAN

\* Before an instruction, unless NEMU is catching up, QEMU is in exactly NEMU's
\* state: a bug that is not flagged by then is one the reference was given when
\* it was told to skip, and no device access QEMU made on its own lingers.
InStep ==
  at = "exec" /\ state = "RUNNING" /\ skip_dut_nr_instr = 0 => ref = dut

\* The panic of dut.c:99 strikes only a wrong program counter: two instructions
\* allowed per jump suffice, however many jumps follow one another and whichever
\* of them QEMU packs.
NoPanicWhenRight == state = "panic" => dut.tag = "pc"

\* A correct NEMU is never said to differ, unless QEMU was set back and executed
\* an instruction twice (the case the comment at dut.c:22 gives up on).
NoFalseAlarm == state = "ABORT" => dut.tag # "right" \/ replayed

\* The request to skip is always used up by the instruction that made it and
\* never exempts a later one from the comparison.
SkipConsumed == at = "exec" /\ state = "RUNNING" => ~is_skip_ref
====

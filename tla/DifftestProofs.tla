---- MODULE DifftestProofs ----
\* The catch-up argument of differential testing, for programs of any length:
\* while NEMU is behind QEMU, skip_dut_nr_instr covers the distance.
EXTENDS Difftest, TLAPS

\* How far QEMU is ahead of NEMU.
Ahead == ref.pos - dut.pos

\* While NEMU catches up its distance is within the count, strictly so between
\* an instruction and its step.
Distance ==
  skip_dut_nr_instr > 0 /\ dut.tag # "pc" /\ state \in {"RUNNING", "END"} =>
    /\ at = "exec" => Ahead \in 1 .. skip_dut_nr_instr
    /\ at = "step" => Ahead \in 0 .. skip_dut_nr_instr - 1

\* While NEMU is right, a wrong register of QEMU comes from a device access that
\* NEMU has yet to execute.
WrongByDevice ==
  skip_dut_nr_instr > 0 /\ dut.tag = "right" /\ ref.tag # "right" =>
    \E p \in dut.pos + 1 .. ref.pos : Device(p)

\* A plain instruction was executed in step with QEMU, which has it next.
PlainInStep ==
  at = "step" /\ skip_dut_nr_instr = 0 /\ ~is_skip_ref /\ dut.tag = "right" =>
    /\ ref = [pos |-> dut.pos - 1, tag |-> "right"]
    /\ Kind(dut.pos) = "plain"

Going ==
  /\ at = "step" => state \in {"RUNNING", "END"}
  /\ is_skip_ref => skip_dut_nr_instr = 0
  /\ dut.tag = "right" => ref.tag \in {"right", "io"}

IInv ==
  /\ TypeOK
  /\ Going
  /\ InStep
  /\ SkipConsumed
  /\ Distance
  /\ WrongByDevice
  /\ PlainInStep
  /\ NoPanicWhenRight
  /\ NoFalseAlarm

LEMMA InvInit == Init => IInv
<1> SUFFICES ASSUME Init PROVE IInv
  OBVIOUS
<1>1. /\ dut = [pos |-> 0, tag |-> "right"] /\ ref = dut /\ skip_dut_nr_instr = 0
      /\ is_skip_ref = FALSE /\ at = "exec" /\ state = "RUNNING" /\ replayed = FALSE
      /\ path \in [1 .. LEN -> Kinds]
  BY DEF Init
<1>2. TypeOK
  BY <1>1 DEF TypeOK, MachineState, DutTags, RefTags
<1> QED
  BY <1>1, <1>2 DEF IInv, Going, InStep, SkipConsumed, Distance, WrongByDevice, PlainInStep,
                    NoPanicWhenRight, NoFalseAlarm

\* What QEMU's step does: one or two instructions on, and a tag that changes only
\* by a device access it executed.
LEMMA RefExec ==
  ASSUME NEW r \in MachineState(RefTags), NEW q \in ref_difftest_exec(r)
  PROVE  /\ q \in MachineState(RefTags)
         /\ q.pos \in {r.pos + 1, r.pos + 2}
         /\ q.pos = r.pos + 2 => Kind(r.pos + 1) = "jump"
         /\ \/ q.tag = r.tag
            \/ q.tag = "io" /\ \E p \in r.pos + 1 .. q.pos : Device(p)
<1>1. ASSUME NEW s \in MachineState(RefTags)
      PROVE  /\ RefOne(s) \in MachineState(RefTags)
             /\ RefOne(s).pos = s.pos + 1
             /\ RefOne(s).tag = s.tag \/ (RefOne(s).tag = "io" /\ Device(s.pos + 1))
  BY DEF RefOne, MachineState, RefTags
<1>2. CASE q = RefOne(r)
  <2>1. r.pos + 1 \in r.pos + 1 .. q.pos /\ r.pos \in Nat
    BY <1>1, <1>2 DEF MachineState
  <2> QED
    BY <1>1, <1>2, <2>1
<1>3. CASE q = RefOne(RefOne(r)) /\ Kind(r.pos + 1) = "jump"
  <2>1. r.pos \in Nat /\ q.pos = r.pos + 2 /\ q \in MachineState(RefTags)
    BY <1>1, <1>3 DEF MachineState
  <2>2. r.pos + 1 \in r.pos + 1 .. q.pos /\ r.pos + 2 \in r.pos + 1 .. q.pos
    BY <2>1
  <2>3. RefOne(r).pos + 1 = r.pos + 2
    BY <1>1, <2>1
  <2> QED
    BY <1>1, <1>3, <2>1, <2>2, <2>3
<1> QED
  BY <1>2, <1>3 DEF ref_difftest_exec

LEMMA InvExec == IInv /\ isa_exec_once => IInv'
<1> SUFFICES ASSUME IInv, isa_exec_once PROVE IInv'
  OBVIOUS
<1> USE DEF IInv
<1>1. PICK k \in DutKinds :
        /\ \/ k = "plain" /\ UNCHANGED <<is_skip_ref, skip_dut_nr_instr, ref>>
           \/ k = "jump" /\ difftest_skip_dut
           \/ k \in {"mmio", "trap"} /\ difftest_skip_ref
        /\ \E t \in DutOutcomes(k) : dut' = [pos |-> dut.pos + 1, tag |-> t]
        /\ state' = IF k = "trap" THEN "END" ELSE state
  BY DEF isa_exec_once
<1>2. /\ at = "exec" /\ state = "RUNNING" /\ at' = "step"
      /\ state' \in {"RUNNING", "END"} /\ path' = path /\ replayed' = replayed
      /\ ~is_skip_ref
  BY <1>1 DEF isa_exec_once, SkipConsumed
<1>3. /\ dut' \in MachineState(DutTags) /\ dut'.pos = dut.pos + 1
      /\ dut'.tag = "right" => dut.tag = "right"
      /\ dut'.tag # "pc" => dut.tag # "pc"
      /\ dut.pos \in Nat /\ ref.pos \in Nat /\ skip_dut_nr_instr \in Nat
  BY <1>1 DEF DutOutcomes, DutTags, MachineState, TypeOK
<1>4. dut.tag # "pc" => k = Kind(dut.pos + 1)
  BY DEF DutKinds
<1>5. \A p : Kind(p)' = Kind(p) /\ (Device(p)' <=> Device(p))
  BY <1>2 DEF Kind, Device
<1>6. CASE k = "plain" /\ UNCHANGED <<is_skip_ref, skip_dut_nr_instr, ref>>
  <2>1. TypeOK'
    BY <1>2, <1>3, <1>6 DEF TypeOK
  <2>2. Going'
    BY <1>2, <1>3, <1>6 DEF Going
  <2>3. Distance'
    BY <1>2, <1>3, <1>6 DEF Distance, Ahead
  <2>4. WrongByDevice'
    <3> SUFFICES ASSUME skip_dut_nr_instr > 0, dut'.tag = "right", ref.tag # "right"
                 PROVE  \E p \in dut'.pos + 1 .. ref.pos : Device(p)
      BY <1>5, <1>6 DEF WrongByDevice
    <3>1. PICK p \in dut.pos + 1 .. ref.pos : Device(p)
      BY <1>3 DEF WrongByDevice
    <3>2. p # dut.pos + 1
      BY <1>3, <1>4, <1>6, <3>1 DEF Device
    <3> QED
      BY <1>3, <3>1, <3>2
  <2>5. PlainInStep'
    <3> SUFFICES ASSUME skip_dut_nr_instr = 0, dut'.tag = "right"
                 PROVE  /\ ref = [pos |-> dut'.pos - 1, tag |-> "right"]
                        /\ Kind(dut'.pos) = "plain"
      BY <1>5, <1>6 DEF PlainInStep
    <3>1. ref = dut /\ dut.tag = "right"
      BY <1>2, <1>3 DEF InStep
    <3>2. dut = [pos |-> dut.pos, tag |-> dut.tag]
      BY DEF TypeOK, MachineState
    <3>3. dut'.pos - 1 = dut.pos
      BY <1>3
    <3> QED
      BY <1>3, <1>4, <1>6, <3>1, <3>2, <3>3
  <2> QED
    BY <1>2, <2>1, <2>2, <2>3, <2>4, <2>5
       DEF InStep, SkipConsumed, NoPanicWhenRight, NoFalseAlarm
<1>7. CASE k = "jump" /\ difftest_skip_dut
  <2>1. /\ skip_dut_nr_instr' = skip_dut_nr_instr + 2 /\ is_skip_ref' = is_skip_ref
        /\ ref' \in ref_difftest_exec(ref)
    BY <1>2, <1>7 DEF difftest_skip_dut
  <2>2. ref \in MachineState(RefTags)
    BY DEF TypeOK
  <2>3. /\ ref' \in MachineState(RefTags)
        /\ ref'.pos \in {ref.pos + 1, ref.pos + 2}
        /\ \/ ref'.tag = ref.tag
           \/ ref'.tag = "io" /\ \E p \in ref.pos + 1 .. ref'.pos : Device(p)
    BY <2>1, <2>2, RefExec
  <2>4. dut.tag # "pc" => Ahead \in 0 .. skip_dut_nr_instr
    BY <1>2, <1>3 DEF Distance, InStep, Ahead
  <2>5. dut.tag # "pc" => ~Device(dut.pos + 1)
    BY <1>4, <1>7 DEF Device
  <2>6. TypeOK'
    <3>1. skip_dut_nr_instr' \in Nat /\ is_skip_ref' \in BOOLEAN
      BY <1>3, <2>1 DEF TypeOK
    <3> QED
      BY <1>2, <1>3, <2>3, <3>1 DEF TypeOK
  <2>7. Going'
    BY <1>2, <1>3, <2>1, <2>3 DEF Going
  <2>8. Distance'
    BY <1>2, <1>3, <2>1, <2>3, <2>4 DEF Distance, Ahead
  <2>9. WrongByDevice'
    <3> SUFFICES ASSUME dut'.tag = "right", ref'.tag # "right"
                 PROVE  \E p \in dut'.pos + 1 .. ref'.pos : Device(p)
      BY <1>5 DEF WrongByDevice
    <3>1. /\ dut.tag = "right" /\ dut.tag # "pc" /\ Ahead >= 0
          /\ ref.pos >= dut.pos /\ ref'.pos > ref.pos
      BY <1>3, <2>3, <2>4 DEF Ahead
    <3>2. PICK p \in dut.pos + 1 .. ref'.pos : Device(p)
      <4>1. CASE ref'.tag = ref.tag
        <5>1. skip_dut_nr_instr > 0
          BY <1>2, <1>3, <3>1, <4>1 DEF InStep
        <5> QED
          BY <1>3, <2>3, <3>1, <4>1, <5>1 DEF WrongByDevice
      <4>2. CASE \E p \in ref.pos + 1 .. ref'.pos : Device(p)
        BY <1>3, <2>3, <3>1, <4>2
      <4> QED
        BY <2>3, <4>1, <4>2
    <3>3. p # dut.pos + 1
      BY <2>5, <3>1, <3>2
    <3> QED
      BY <1>3, <3>2, <3>3
  <2>10. PlainInStep'
    BY <1>3, <2>1 DEF PlainInStep
  <2> QED
    BY <1>2, <2>6, <2>7, <2>8, <2>9, <2>10
       DEF InStep, SkipConsumed, NoPanicWhenRight, NoFalseAlarm
<1>8. CASE k \in {"mmio", "trap"} /\ difftest_skip_ref
  <2>1. is_skip_ref' = TRUE /\ skip_dut_nr_instr' = 0 /\ ref' = ref
    BY <1>8 DEF difftest_skip_ref
  <2> QED
    BY <1>2, <1>3, <2>1
       DEF TypeOK, Going, InStep, SkipConsumed, Distance, WrongByDevice, PlainInStep,
           NoPanicWhenRight, NoFalseAlarm
<1> QED
  BY <1>1, <1>6, <1>7, <1>8

LEMMA InvStep == IInv /\ difftest_step => IInv'
<1> SUFFICES ASSUME IInv, difftest_step PROVE IInv'
  OBVIOUS
<1> USE DEF IInv
<1>1. /\ at = "step" /\ at' = "exec" /\ dut' = dut /\ path' = path
      /\ state \in {"RUNNING", "END"}
  BY DEF difftest_step, caught_up, not_yet, skip_checking, compare, step_returns, Going
<1>2. \A p : Device(p)' <=> Device(p)
  BY <1>1 DEF Kind, Device
<1>3. dut.pos \in Nat /\ ref.pos \in Nat /\ skip_dut_nr_instr \in Nat
  BY DEF TypeOK, MachineState
<1>4. dut = [pos |-> dut.pos, tag |-> dut.tag] /\ ref = [pos |-> ref.pos, tag |-> ref.tag]
  BY DEF TypeOK, MachineState
<1>5. CASE caught_up
  <2>1. /\ skip_dut_nr_instr > 0 /\ SamePc(ref) /\ checkregs(ref)
        /\ skip_dut_nr_instr' = 0 /\ ref' = ref /\ is_skip_ref' = is_skip_ref
        /\ replayed' = replayed
    BY <1>5 DEF caught_up
  <2>2. ref.pos = dut.pos
    BY <2>1 DEF SamePc
  <2>3. dut.tag = "right" => ref = dut
    <3>1. dut.tag = "right" => ref.tag = "right"
      BY <1>3, <2>1, <2>2 DEF WrongByDevice
    <3> QED
      BY <1>4, <2>2, <3>1
  <2>4. state' \in {"RUNNING", "END", "ABORT"} /\ (state' # "ABORT" => ref = dut)
    BY <1>1, <2>1 DEF checkregs
  <2>5. state' = "ABORT" => dut.tag # "right" \/ replayed
    BY <1>1, <2>1, <2>3 DEF checkregs
  <2>6. ~is_skip_ref
    BY <1>3, <2>1 DEF Going
  <2> QED
    BY <1>1, <1>3, <2>1, <2>4, <2>5, <2>6
       DEF TypeOK, Going, InStep, SkipConsumed, Distance, WrongByDevice, PlainInStep,
           NoPanicWhenRight, NoFalseAlarm
<1>6. CASE not_yet
  <2>1. /\ skip_dut_nr_instr > 0 /\ ~SamePc(ref)
        /\ skip_dut_nr_instr' = skip_dut_nr_instr - 1
        /\ state' = IF skip_dut_nr_instr = 1 THEN "panic" ELSE state
        /\ ref' = ref /\ is_skip_ref' = is_skip_ref /\ replayed' = replayed
    BY <1>6 DEF not_yet
  <2>2. dut.tag # "pc" => Ahead \in 1 .. skip_dut_nr_instr - 1
    BY <1>1, <1>3, <2>1 DEF Distance, Ahead, SamePc
  <2>3. skip_dut_nr_instr = 1 => dut.tag = "pc"
    BY <1>3, <2>2
  <2>4. ~is_skip_ref
    BY <1>3, <2>1 DEF Going
  <2>5. TypeOK'
    BY <1>1, <1>3, <2>1 DEF TypeOK
  <2>6. Distance'
    BY <1>1, <1>3, <2>1, <2>2 DEF Distance, Ahead
  <2>7. WrongByDevice'
    BY <1>1, <1>2, <2>1 DEF WrongByDevice
  <2>8. InStep' /\ NoPanicWhenRight' /\ NoFalseAlarm'
    BY <1>1, <1>3, <2>1, <2>3 DEF InStep, NoPanicWhenRight, NoFalseAlarm
  <2> QED
    BY <1>1, <2>1, <2>4, <2>5, <2>6, <2>7, <2>8 DEF Going, SkipConsumed, PlainInStep
<1>7. CASE skip_checking
  <2>1. /\ skip_dut_nr_instr' = skip_dut_nr_instr /\ ~(skip_dut_nr_instr > 0)
        /\ ref' = dut /\ is_skip_ref' = FALSE /\ state' = state /\ replayed' \in BOOLEAN
    BY <1>7 DEF skip_checking, TypeOK
  <2>2. dut \in MachineState(RefTags)
    BY DEF TypeOK, MachineState, RefTags
  <2> QED
    BY <1>1, <1>3, <2>1, <2>2
       DEF TypeOK, Going, InStep, SkipConsumed, Distance, WrongByDevice, PlainInStep,
           NoPanicWhenRight, NoFalseAlarm
<1>8. CASE compare
  <2>1. /\ skip_dut_nr_instr = 0 /\ skip_dut_nr_instr' = 0 /\ ~is_skip_ref
        /\ is_skip_ref' = is_skip_ref
        /\ ref' \in ref_difftest_exec(ref) /\ checkregs(ref') /\ replayed' = replayed
    BY <1>3, <1>8 DEF compare
  <2>2. ref' \in MachineState(RefTags)
    BY <2>1, RefExec DEF TypeOK
  <2>3. dut.tag = "right" => ref' = dut
    <3> SUFFICES ASSUME dut.tag = "right" PROVE ref' = dut
      OBVIOUS
    <3>1. ref.pos + 1 = dut.pos /\ ref.tag = "right" /\ Kind(dut.pos) = "plain"
      BY <1>1, <1>3, <2>1 DEF PlainInStep
    <3>2. ref' = RefOne(ref)
      BY <2>1, <3>1 DEF ref_difftest_exec
    <3>3. ref' = [pos |-> dut.pos, tag |-> "right"]
      BY <3>1, <3>2 DEF RefOne, Device
    <3> QED
      BY <1>4, <3>3
  <2>4. state' \in {"RUNNING", "END", "ABORT"} /\ (state' # "ABORT" => ref' = dut)
    BY <1>1, <2>1 DEF checkregs
  <2>5. state' = "ABORT" => dut.tag # "right" \/ replayed
    BY <1>1, <2>1, <2>3 DEF checkregs
  <2>6. TypeOK'
    <3>1. skip_dut_nr_instr' \in Nat /\ is_skip_ref' \in BOOLEAN /\ replayed' \in BOOLEAN
      BY <2>1 DEF TypeOK
    <3> QED
      BY <1>1, <2>2, <2>4, <3>1 DEF TypeOK
  <2>7. InStep' /\ NoPanicWhenRight' /\ NoFalseAlarm'
    BY <1>1, <2>1, <2>4, <2>5 DEF InStep, NoPanicWhenRight, NoFalseAlarm
  <2> QED
    BY <1>1, <2>1, <2>3, <2>6, <2>7
       DEF Going, SkipConsumed, Distance, WrongByDevice, PlainInStep
<1> QED
  BY <1>5, <1>6, <1>7, <1>8 DEF difftest_step

LEMMA InvStutter == IInv /\ UNCHANGED vars => IInv'
BY DEF vars, IInv, TypeOK, Going, InStep, SkipConsumed, Distance, Ahead, WrongByDevice,
       PlainInStep, NoPanicWhenRight, NoFalseAlarm, Kind, Device

THEOREM DifftestInvariant == Spec => []IInv
<1>1. IInv /\ [Next]_vars => IInv'
  BY InvExec, InvStep, InvStutter DEF Next
<1> QED
  BY InvInit, <1>1, PTL DEF Spec

\* Unless NEMU is catching up, QEMU is in its state before every instruction.
THEOREM InStepHolds == Spec => []InStep
<1>1. IInv => InStep
  BY DEF IInv
<1> QED
  BY <1>1, DifftestInvariant, PTL

\* The catch-up count runs out only when NEMU's program counter is wrong.
THEOREM NoPanicWhenRightHolds == Spec => []NoPanicWhenRight
<1>1. IInv => NoPanicWhenRight
  BY DEF IInv
<1> QED
  BY <1>1, DifftestInvariant, PTL

\* A correct NEMU is not said to differ unless QEMU executed something twice.
THEOREM NoFalseAlarmHolds == Spec => []NoFalseAlarm
<1>1. IInv => NoFalseAlarm
  BY DEF IInv
<1> QED
  BY <1>1, DifftestInvariant, PTL

\* A request to skip exempts no later instruction.
THEOREM SkipConsumedHolds == Spec => []SkipConsumed
<1>1. IInv => SkipConsumed
  BY DEF IInv
<1> QED
  BY <1>1, DifftestInvariant, PTL
====
